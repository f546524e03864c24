-------------------------- MODULE SlimloaderProofs --------------------------
(***************************************************************************)
(* That the boot protocol keeps its promises for every set of slots, every *)
(* first content of the journal and every OrdinaryPolicy.  BootInv is the  *)
(* inductive invariant; TypeOK needs it, since start and the application   *)
(* use a State that must be there.                                         *)
(***************************************************************************)
EXTENDS Slimloader, TLAPS

-----------------------------------------------------------------------------
(***************************************************************************)
(* States.                                                                 *)
(***************************************************************************)
\* with_status changes the status and keeps the slots.
LEMMA WithStatusFacts ==
    ASSUME NEW s \in States, NEW status \in Statuses
    PROVE  /\ WithStatus(s, status) \in States
           /\ WithStatus(s, status).status = status
           /\ WithStatus(s, status).target = s.target
           /\ WithStatus(s, status).backup = s.backup
BY DEF WithStatus, States

\* A State is its three fields.
LEMMA WithStatusTwice ==
    ASSUME NEW s \in States, NEW status \in Statuses
    PROVE  s = WithStatus(WithStatus(s, status), s.status)
BY DEF WithStatus, States

LEMMA FieldTypes ==
    ASSUME NEW s \in States
    PROVE  s.status \in Statuses /\ s.target \in Slots /\ s.backup \in Slots
BY DEF States

\* What the policy accepts is a State, and no empty journal.
LEMMA ValidFacts ==
    ASSUME NEW s \in ValidStates
    PROVE  s \in States /\ s # NoState
BY PolicyAssumption, SlotAssumption

\* The bootloader works on a State that the policy accepts.
LEMMA FetchedFacts ==
    ASSUME OrdinaryPolicy
    PROVE  /\ Fetched \in ValidStates
           /\ Fetched = stored \/ (stored \notin ValidStates /\ Fetched = DefaultState)
<1>1. WithStatus(DefaultState, "Initial") = DefaultState
    BY PolicyAssumption DEF OrdinaryPolicy, WithStatus, States
<1>2. DefaultState \in ValidStates
    BY <1>1, PolicyAssumption DEF Statuses
<1> QED  BY <1>2 DEF Fetched

\* The State the first button stores, by the State the application has.
LEMMA NewStateFacts ==
    ASSUME state \in States
    PROVE  /\ NewState \in States
           /\ state.status = "Confirmed" =>
                 NewState.status = "Initial" /\ NewState.backup = AppSlot
           /\ state.status = "Failed" => NewState = WithStatus(state, "Initial")
           /\ state.status \in {"Initial", "Attempting"} =>
                 NewState = WithStatus(state, "Confirmed")
<1>1. AppSlot \in Slots /\ OtherSlot \in Slots
    BY FieldTypes, SlotAssumption DEF AppSlot, OtherSlot
<1>2. state.status \in Statuses
    BY FieldTypes
<1>3. CASE state.status = "Confirmed"
    BY <1>1, <1>3 DEF NewState, States, Statuses
<1>4. CASE state.status = "Failed"
    BY <1>4, WithStatusFacts DEF NewState, Statuses
<1>5. CASE state.status \in {"Initial", "Attempting"}
    BY <1>5, WithStatusFacts DEF NewState, Statuses
<1> QED  BY <1>2, <1>3, <1>4, <1>5 DEF Statuses

-----------------------------------------------------------------------------
(***************************************************************************)
(* The invariant.                                                          *)
(***************************************************************************)
\* What can be said of the variables one by one.
Types ==
    /\ Reg!TypeOK
    /\ pc \in Booting \cup Application \cup {"off", "aborted", "panicked"}
    /\ state \in States \cup {NoState}
    /\ slot \in Slots \cup {NoSlot}
    /\ running \in Slots \cup {NoSlot}
    /\ image \in [Partitions -> ImageKinds]
    /\ attempts \in 0 .. MaxAttempts
    /\ proven \subseteq Slots

Inv == Types /\ BootInv

\* The State is there when it is used.
LEMMA InvTypes == Inv <=> TypeOK /\ BootInv
<1>1. ASSUME BootInv, pc \in Booting \cup {"app", "appSet"} PROVE state # NoState
    BY <1>1, ValidFacts DEF BootInv, LoaderInv, AppInv
<1> QED  BY <1>1 DEF Inv, Types, TypeOK

LEMMA InvInit ==
    ASSUME OrdinaryPolicy, Init
    PROVE  Inv
<1>1. stored \in States \cup {NoState}
    BY SlotAssumption DEF Init
<1>2. proven \subseteq Slots
    BY <1>1, FieldTypes DEF Init, Vouched
<1>3. Types
    BY <1>1, <1>2 DEF Init, Types, Reg!TypeOK, MaxAttempts
<1>4. stored # NoState => /\ ProvenBackup(stored)
                          /\ stored.status = "Confirmed" => stored.target \in proven
    BY DEF Init, Vouched, ProvenBackup
<1>5. LoaderInv /\ AppInv /\ AttemptInv
    BY DEF Init, LoaderInv, AppInv, AttemptInv, Booting
<1> QED  BY <1>3, <1>4, <1>5 DEF Init, Inv, BootInv

\* The bootloader fetches the State.  A default is its own backup.
LEMMA StartStep ==
    ASSUME OrdinaryPolicy, Inv, Start
    PROVE  Inv'
<1>1. Fetched \in ValidStates /\ Fetched' = Fetched
    BY FetchedFacts DEF Start, Reg!Open, Fetched
<1>2. Fetched \in States
    BY <1>1, ValidFacts
<1>3. ProvenBackup(Fetched)
    BY FetchedFacts, ValidFacts DEF Inv, BootInv, ProvenBackup, OrdinaryPolicy
<1>4. Types'
    BY <1>2 DEF Inv, Types, Start, Reg!TypeOK, Reg!Open, Booting, history
<1>5. LoaderInv'
    BY <1>1, <1>3 DEF Start, LoaderInv, ProvenBackup, Booting, history
<1>6. AppInv' /\ AttemptInv'
    BY DEF Inv, BootInv, AppInv, AttemptInv, Start, Reg!Open, history
<1> QED  BY <1>4, <1>5, <1>6 DEF Inv, BootInv, Start, Reg!Open, ProvenBackup, history

\* Neither the host, nor a reset, nor a panic changes what is stored.
LEMMA QuietStep ==
    ASSUME OrdinaryPolicy, Inv,
           pc' \in {"off", "panicked", "aborted"},
           UNCHANGED <<stored, history>>,
           (UNCHANGED handle /\ UNCHANGED view) \/ handle' # "open",
           Types'
    PROVE  Inv'
<1>1. LoaderInv' /\ AppInv' /\ AttemptInv'
    BY DEF Inv, BootInv, LoaderInv, AppInv, AttemptInv, Booting, history
<1> QED  BY <1>1 DEF Inv, BootInv, ProvenBackup, history

LEMMA EnvironmentStep ==
    ASSUME OrdinaryPolicy, Inv,
           PowerLoss \/ Reflash \/ StartFails \/ AppStartFails \/ CheckPanics
             \/ Abort \/ StoreFails
    PROVE  Inv'
<1> USE DEF history, journal
<1>1. CASE PowerLoss
  <2>1. Types'
      BY <1>1 DEF PowerLoss, Inv, Types, Reg!TypeOK, Reg!Close
  <2> QED  BY <1>1, <2>1, QuietStep DEF PowerLoss, Reg!Close
<1>2. CASE Reflash
  <2>1. Types'
      BY <1>2 DEF Reflash, Inv, Types, Reg!TypeOK
  <2> QED  BY <1>2, <2>1, QuietStep DEF Reflash
<1>3. CASE StartFails \/ AppStartFails \/ CheckPanics \/ Abort
  <2>1. pc' \in {"panicked", "aborted"} /\
        UNCHANGED <<journal, state, slot, running, image, history>>
      BY <1>3 DEF StartFails, AppStartFails, CheckPanics, Abort
  <2>2. Types'
      BY <2>1 DEF Inv, Types, Reg!TypeOK
  <2> QED  BY <2>1, <2>2, QuietStep
<1>4. CASE StoreFails
  <2>1. Types'
      BY <1>4 DEF StoreFails, Inv, Types, Reg!TypeOK, Reg!SetErr
  <2> QED  BY <1>4, <2>1, QuietStep DEF StoreFails, Reg!SetErr
<1> QED  BY <1>1, <1>2, <1>3, <1>4

-----------------------------------------------------------------------------
(***************************************************************************)
(* The bootloader.                                                         *)
(***************************************************************************)
\* A call of set through an open handle: it stores nothing yet, and it is over
\* only if the journal holds s.
LEMMA StoreFacts ==
    ASSUME Inv, NEW s \in States, NEW wait, NEW done, Store(s, wait, done),
           wait # done
    PROVE  /\ UNCHANGED stored
           /\ arg' = s
           /\ handle' = "open" => view' = stored
           /\ Reg!TypeOK'
           /\ \/ pc' = wait
              \/ pc' = done /\ stored = s /\ handle' = "open"
BY DEF Inv, Types, BootInv, Store, Reg!SetSame, Reg!SetBegin, Reg!TypeOK

\* A State the bootloader marks with another status.
LEMMA MarkFacts ==
    ASSUME OrdinaryPolicy, Inv, pc \in Booting, NEW status \in Statuses
    PROVE  /\ state \in ValidStates /\ state \in States
           /\ state.status \in Statuses
           /\ state.target \in Slots /\ state.backup \in Slots
           /\ WithStatus(state, status) \in ValidStates
           /\ WithStatus(state, status) \in States
           /\ WithStatus(state, status).status = status
           /\ WithStatus(state, status).target = state.target
           /\ WithStatus(state, status).backup = state.backup
           /\ ProvenBackup(state)
<1>1. state \in ValidStates /\ ProvenBackup(state)
    BY DEF Inv, BootInv, LoaderInv
<1>2. state \in States
    BY <1>1, ValidFacts
<1> QED  BY <1>1, <1>2, FieldTypes, WithStatusFacts DEF OrdinaryPolicy

\* If the State is Initial, then the target was not started since.
LEMMA InitialFacts ==
    ASSUME OrdinaryPolicy, Inv, pc = "intent", state.status = "Initial"
    PROVE  attempts = 0
<1>1. state = Fetched
    BY DEF Inv, BootInv, LoaderInv
<1> QED  BY <1>1, FetchedFacts DEF Inv, BootInv, AttemptInv

LEMMA IntentInitialStep ==
    ASSUME OrdinaryPolicy, Inv, IntentInitial
    PROVE  Inv'
<1> DEFINE s == WithStatus(state, "Attempting")
<1> USE DEF history
<1>1. /\ s \in ValidStates /\ s \in States /\ s.status = "Attempting"
      /\ s.target = state.target /\ s.backup = state.backup
      /\ state.target \in Slots /\ ProvenBackup(state)
    BY MarkFacts DEF IntentInitial, Booting, Statuses
<1>2. state' = s /\ Store(s, "markAttempting", "check") /\ slot' = state.target
    BY DEF IntentInitial
<1> HIDE DEF s
<1>3. /\ UNCHANGED stored /\ arg' = s
      /\ handle' = "open" => view' = stored
      /\ Reg!TypeOK'
      /\ \/ pc' = "markAttempting"
         \/ pc' = "check" /\ stored = s /\ handle' = "open"
    BY <1>1, <1>2, StoreFacts
<1>4. attempts = 0 /\ (stored \in ValidStates => stored = state)
    BY InitialFacts DEF IntentInitial, Inv, BootInv, LoaderInv, Fetched
<1>5. Types'
    BY <1>1, <1>2, <1>3 DEF IntentInitial, Inv, Types, Booting
<1>6. LoaderInv'
    BY <1>1, <1>2, <1>3, <1>4 DEF IntentInitial, LoaderInv, ProvenBackup, BootSlot
<1>7. AppInv' /\ AttemptInv'
    BY <1>3, <1>4 DEF IntentInitial, AppInv, AttemptInv
<1> QED  BY <1>3, <1>5, <1>6, <1>7 DEF IntentInitial, Inv, BootInv, ProvenBackup

LEMMA IntentAttemptingStep ==
    ASSUME OrdinaryPolicy, Inv, IntentAttempting
    PROVE  Inv'
<1> DEFINE s == WithStatus(state, "Failed")
<1> USE DEF history
<1>1. /\ s \in ValidStates /\ s \in States /\ s.status = "Failed"
      /\ s.target = state.target /\ s.backup = state.backup
      /\ state.backup \in Slots /\ ProvenBackup(state)
    BY MarkFacts DEF IntentAttempting, Booting, Statuses
<1>2. state' = s /\ Store(s, "markBackup", "check") /\ slot' = state.backup
    BY DEF IntentAttempting
<1> HIDE DEF s
<1>3. /\ UNCHANGED stored /\ arg' = s
      /\ handle' = "open" => view' = stored
      /\ Reg!TypeOK'
      /\ \/ pc' = "markBackup"
         \/ pc' = "check" /\ stored = s /\ handle' = "open"
    BY <1>1, <1>2, StoreFacts
<1>4. Types'
    BY <1>1, <1>2, <1>3 DEF IntentAttempting, Inv, Types, Booting
<1>5. LoaderInv'
  <2>1. stored \in ValidStates => stored = state
      BY DEF IntentAttempting, Inv, BootInv, LoaderInv, Fetched
  <2> QED  BY <1>1, <1>2, <1>3, <2>1 DEF IntentAttempting, LoaderInv, ProvenBackup, BootSlot
<1>6. AppInv' /\ AttemptInv'
    BY <1>1, <1>2, <1>3 DEF IntentAttempting, Inv, BootInv, AppInv, AttemptInv
<1> QED  BY <1>3, <1>4, <1>5, <1>6 DEF IntentAttempting, Inv, BootInv, ProvenBackup

\* The two statuses that are not changed before the image is checked: the
\* journal holds the State, for the default is Initial.
LEMMA IntentKeptStep ==
    ASSUME OrdinaryPolicy, Inv, IntentFailed \/ IntentConfirmed
    PROVE  Inv'
<1> USE DEF history, journal
<1>1. /\ pc = "intent" /\ pc' = "check"
      /\ state.status \in {"Failed", "Confirmed"}
      /\ slot' = BootSlot(state)
      /\ UNCHANGED <<journal, state, running, image, history>>
    BY DEF IntentFailed, IntentConfirmed, BootSlot
<1>2. /\ state \in ValidStates /\ state.target \in Slots /\ state.backup \in Slots
      /\ ProvenBackup(state)
    BY <1>1, MarkFacts DEF Booting, Statuses
<1>3. stored = state
    BY <1>1, FetchedFacts DEF Inv, BootInv, LoaderInv, OrdinaryPolicy
<1>4. handle = "open"
    BY <1>1 DEF Inv, BootInv
<1>5. Types'
    BY <1>1, <1>2 DEF Inv, Types, Reg!TypeOK, Booting, BootSlot
<1>6. LoaderInv'
    BY <1>1, <1>2, <1>3 DEF LoaderInv, ProvenBackup, BootSlot
<1>7. AppInv' /\ AttemptInv'
    BY <1>1 DEF Inv, BootInv, AppInv, AttemptInv
<1> QED  BY <1>1, <1>4, <1>5, <1>6, <1>7 DEF Inv, BootInv, ProvenBackup

LEMMA CheckFailsStep ==
    ASSUME OrdinaryPolicy, Inv, CheckFails
    PROVE  Inv'
<1> USE DEF history, journal
<1>1. pc = "check" /\ UNCHANGED <<slot, running, image, history>>
    BY DEF CheckFails
<1>2. stored = state /\ handle = "open"
    BY <1>1 DEF Inv, BootInv, LoaderInv
<1>3. CASE state.status # "Failed"
  <2> DEFINE s == WithStatus(state, "Failed")
  <2>1. /\ s \in ValidStates /\ s \in States /\ s.status = "Failed"
        /\ s.target = state.target /\ s.backup = state.backup
        /\ ProvenBackup(state)
      BY <1>1, MarkFacts DEF Booting, Statuses
  <2>2. state' = s /\ Store(s, "markFailed", "fallback")
      BY <1>3 DEF CheckFails
  <2> HIDE DEF s
  <2>3. /\ UNCHANGED stored /\ arg' = s
        /\ handle' = "open" => view' = stored
        /\ Reg!TypeOK'
        /\ \/ pc' = "markFailed"
           \/ pc' = "fallback" /\ stored = s /\ handle' = "open"
      BY <2>1, <2>2, StoreFacts
  <2>4. Types'
      BY <1>1, <2>1, <2>2, <2>3 DEF Inv, Types, Booting
  <2>5. LoaderInv'
      BY <1>1, <1>2, <2>1, <2>2, <2>3 DEF LoaderInv, ProvenBackup
  <2>6. AppInv' /\ AttemptInv'
      BY <1>1, <2>3 DEF Inv, BootInv, AppInv, AttemptInv
  <2> QED  BY <1>1, <2>3, <2>4, <2>5, <2>6 DEF Inv, BootInv, ProvenBackup
<1>4. CASE state.status = "Failed"
  <2>1. pc' = "fallback" /\ UNCHANGED <<journal, state>>
      BY <1>4 DEF CheckFails
  <2>2. Types'
      BY <1>1, <2>1 DEF Inv, Types, Reg!TypeOK, Booting
  <2>3. LoaderInv'
      BY <1>1, <1>2, <1>4, <2>1 DEF Inv, BootInv, LoaderInv, ProvenBackup, Booting
  <2>4. AppInv' /\ AttemptInv'
      BY <1>1, <2>1 DEF Inv, BootInv, AppInv, AttemptInv
  <2> QED  BY <1>1, <1>2, <2>1, <2>2, <2>3, <2>4 DEF Inv, BootInv, ProvenBackup
<1> QED  BY <1>3, <1>4

LEMMA FallbackStep ==
    ASSUME OrdinaryPolicy, Inv, Fallback
    PROVE  Inv'
<1> USE DEF history, journal, Fallback
<1>1. Types'
    BY DEF Inv, Types, Reg!TypeOK, Booting
<1>2. LoaderInv'
    BY DEF Inv, BootInv, LoaderInv, ProvenBackup, Booting
<1>3. AppInv' /\ AttemptInv'
    BY DEF Inv, BootInv, AppInv, AttemptInv
<1> QED  BY <1>1, <1>2, <1>3 DEF Inv, BootInv, ProvenBackup

\* check_and_boot starts the slot that the stored State stands for.
LEMMA BootFacts ==
    ASSUME OrdinaryPolicy, Inv, NEW s, Boot(s),
           pc \in {"check", "checkBackup"}, s = BootSlot(state),
           state.status # "Initial"
    PROVE  Inv'
<1> USE DEF history
<1>1. stored = state /\ state \in ValidStates
    BY DEF Inv, BootInv, LoaderInv, Booting
<1>2. s \in Slots
    BY SlotAssumption DEF Boot
<1>3. attempts' \in 0 .. MaxAttempts
    BY DEF Boot, Inv, Types, MaxAttempts
<1>4. state.status = "Attempting" => pc = "check"
    BY DEF Inv, BootInv, LoaderInv
<1>5. state.status = "Attempting" => attempts = 0
    BY <1>4 DEF Inv, BootInv, AttemptInv
<1>6. ASSUME attempts' # 0, state.target # state.backup PROVE attempts' = 1
  <2>1. CASE s = state.target /\ state.status # "Confirmed"
    <3>1. state.status = "Attempting"
        BY <2>1, <1>1, <1>6, ValidFacts, FieldTypes DEF BootSlot, Statuses
    <3> QED  BY <2>1, <1>5, <3>1 DEF Boot, MaxAttempts
  <2>2. CASE ~(s = state.target /\ state.status # "Confirmed")
    <3>1. attempts' = attempts
        BY <2>2 DEF Boot
    <3> QED  BY <1>1, <1>6, <3>1 DEF Inv, BootInv, AttemptInv
  <2> QED  BY <2>1, <2>2
<1>7. Types'
    BY <1>2, <1>3 DEF Boot, Inv, Types, Reg!TypeOK, Reg!Close, Application
<1>8. LoaderInv'
    BY DEF Boot, LoaderInv, Booting
<1>9. AppInv' /\ AttemptInv'
    BY <1>1, <1>6 DEF Boot, Reg!Close, AppInv, AttemptInv, BootSlot
<1> QED  BY <1>7, <1>8, <1>9 DEF Boot, Reg!Close, Inv, BootInv, ProvenBackup

LEMMA BootStepKeeps ==
    ASSUME OrdinaryPolicy, Inv, Check \/ CheckBackup
    PROVE  Inv'
<1>1. CASE Check
  <2>1. state.status # "Initial" /\ slot = BootSlot(state)
      BY <1>1 DEF Check, Inv, BootInv, LoaderInv
  <2> QED  BY <1>1, <2>1, BootFacts DEF Check
<1>2. CASE CheckBackup
  <2>1. state.status = "Failed"
      BY <1>2 DEF CheckBackup, Inv, BootInv, LoaderInv
  <2> QED  BY <1>2, <2>1, BootFacts DEF CheckBackup, BootSlot
<1> QED  BY <1>1, <1>2

-----------------------------------------------------------------------------
(***************************************************************************)
(* Storing a State.                                                        *)
(***************************************************************************)
\* The State being stored: the one the bootloader works on, or the one the
\* first button asked for.
LEMMA ArgFacts ==
    ASSUME OrdinaryPolicy, Inv, pc \in Marking
    PROVE  /\ arg \in States
           /\ arg.target # arg.backup => arg.backup \in proven
           /\ pc # "appSet" => arg = state /\ arg \in ValidStates
                               /\ arg.status \in {"Attempting", "Failed"}
           /\ pc = "appSet" => arg = NewState
           /\ arg.status # "Initial" => arg \in ValidStates
<1>1. CASE pc # "appSet"
  <2>1. arg = state /\ state \in ValidStates /\ ProvenBackup(state)
      BY <1>1 DEF Inv, BootInv, LoaderInv, Marking, Booting
  <2>2. arg.status \in {"Attempting", "Failed"}
      BY <1>1, <2>1 DEF Inv, BootInv, LoaderInv, Marking
  <2> QED  BY <1>1, <2>1, <2>2, ValidFacts DEF ProvenBackup
<1>2. CASE pc = "appSet"
  <2>1. /\ arg = NewState
        /\ state \in ValidStates /\ state.status # "Initial"
        /\ ProvenBackup(state)
        /\ state.status = "Confirmed" => state.target \in proven
      BY <1>2 DEF Inv, BootInv, AppInv
  <2>2. state \in States /\ state.status \in Statuses
      BY <2>1, ValidFacts, FieldTypes
  <2>3. CASE state.status = "Confirmed"
      BY <1>2, <2>1, <2>2, <2>3, NewStateFacts DEF AppSlot
  <2>4. CASE state.status = "Failed"
    <3>1. NewState = WithStatus(state, "Initial")
        BY <2>2, <2>4, NewStateFacts
    <3> QED  BY <1>2, <2>1, <2>2, <3>1, WithStatusFacts DEF ProvenBackup, Statuses
  <2>5. CASE state.status = "Attempting"
    <3>1. NewState = WithStatus(state, "Confirmed")
        BY <2>2, <2>5, NewStateFacts
    <3>2. NewState \in ValidStates
        BY <2>1, <3>1 DEF OrdinaryPolicy, Statuses
    <3> QED  BY <1>2, <2>1, <2>2, <3>1, <3>2, WithStatusFacts DEF ProvenBackup, Statuses
  <2> QED  BY <2>1, <2>2, <2>3, <2>4, <2>5 DEF Statuses
<1> QED  BY <1>1, <1>2

LEMMA StoreCommitsStep ==
    ASSUME OrdinaryPolicy, Inv, StoreCommits
    PROVE  Inv'
<1> USE DEF history
<1>1. /\ pc \in Marking /\ handle = "setting" /\ handle' = "setting"
      /\ stored' = arg
      /\ UNCHANGED <<view, arg, pc, state, slot, running, image>>
      /\ attempts' = (IF arg.status = "Initial" THEN 0 ELSE attempts)
      /\ proven' = (IF arg.status = "Confirmed" THEN proven \cup {arg.target}
                                                ELSE proven)
    BY DEF StoreCommits, Reg!Commit
<1>2. /\ arg \in States
      /\ arg.target # arg.backup => arg.backup \in proven
      /\ pc # "appSet" => arg = state /\ arg \in ValidStates
                          /\ arg.status \in {"Attempting", "Failed"}
      /\ pc = "appSet" => arg = NewState
      /\ arg.status # "Initial" => arg \in ValidStates
    BY <1>1, ArgFacts
<1>3. proven \subseteq proven' /\ proven' \subseteq Slots
    BY <1>1, <1>2, FieldTypes DEF Inv, Types
<1>4. Types'
    BY <1>1, <1>2, <1>3 DEF Inv, Types, Reg!TypeOK, MaxAttempts
<1>5. LoaderInv'
    BY <1>1, <1>2, <1>3 DEF Inv, BootInv, LoaderInv, ProvenBackup, Marking, Booting
<1>6. AppInv'
  <2>1. NewState' = NewState /\ AppSlot' = AppSlot
      BY <1>1 DEF NewState, AppSlot, OtherSlot
  <2> QED  BY <1>1, <1>2, <1>3, <2>1 DEF Inv, BootInv, AppInv, ProvenBackup, Marking
<1>7. AttemptInv'
  <2>1. ASSUME attempts' # 0
        PROVE  arg.status # "Initial" /\ attempts' = attempts /\ stored \in ValidStates
      BY <1>1, <2>1 DEF Inv, BootInv, AttemptInv
  <2>2. ASSUME attempts' # 0
        PROVE  arg.target = stored.target /\ arg.backup = stored.backup
    <3>1. CASE pc # "appSet"
        BY <1>1, <1>2, <2>1, <2>2, <3>1 DEF Inv, BootInv, LoaderInv, Marking
    <3>2. CASE pc = "appSet"
      <4>1. /\ state \in ValidStates /\ stored \in {state, NewState}
            /\ arg = NewState /\ stored # arg /\ state.status # "Initial"
          BY <1>2, <3>2 DEF Inv, BootInv, AppInv, StoreCommits
      <4>2. state \in States /\ state.status \in Statuses
          BY <4>1, ValidFacts, FieldTypes
      <4>3. state.status = "Failed" => NewState.status = "Initial"
          BY <4>2, NewStateFacts, WithStatusFacts DEF Statuses
      <4>4. NewState = WithStatus(state, "Confirmed")
          BY <2>1, <2>2, <4>1, <4>2, <4>3, NewStateFacts DEF Statuses
      <4> QED  BY <4>1, <4>2, <4>4, WithStatusFacts DEF Statuses
    <3> QED  BY <3>1, <3>2
  <2> QED  BY <1>1, <1>2, <2>1, <2>2 DEF Inv, BootInv, AttemptInv, Marking
<1>8. stored' # NoState => /\ ProvenBackup(stored)'
                           /\ stored'.status = "Confirmed" => stored'.target \in proven'
    BY <1>1, <1>2, <1>3 DEF ProvenBackup
<1> QED  BY <1>1, <1>4, <1>5, <1>6, <1>7, <1>8 DEF Inv, BootInv, Marking

LEMMA StoreReturnsStep ==
    ASSUME OrdinaryPolicy, Inv, StoreReturns
    PROVE  Inv'
<1> USE DEF history
<1>1. /\ pc \in Marking /\ handle' = "open" /\ view' = arg /\ stored = arg
      /\ UNCHANGED <<stored, arg, state, slot, running, image, attempts, proven>>
    BY DEF StoreReturns, Reg!SetOk
<1>2. /\ pc = "markAttempting" => pc' = "check"
      /\ pc = "markBackup" => pc' = "check"
      /\ pc = "markFailed" => pc' = "fallback"
      /\ pc = "appSet" => pc' = "app"
    BY DEF StoreReturns, After
<1>3. arg \in States /\ (pc # "appSet" => arg = state)
    BY <1>1, ArgFacts
<1>4. Types'
    BY <1>1, <1>2, <1>3 DEF Inv, Types, Reg!TypeOK, Marking, Booting, Application
<1>5. LoaderInv'
    BY <1>1, <1>2, <1>3 DEF Inv, BootInv, LoaderInv, ProvenBackup, BootSlot, Marking, Booting
<1>6. AppInv'
  <2>1. NewState' = NewState /\ AppSlot' = AppSlot
      BY <1>1 DEF NewState, AppSlot, OtherSlot
  <2> QED  BY <1>1, <1>2, <2>1 DEF Inv, BootInv, AppInv, ProvenBackup, Marking
<1>7. AttemptInv'
    BY <1>1, <1>2 DEF Inv, BootInv, LoaderInv, AttemptInv, Marking
<1> QED  BY <1>1, <1>4, <1>5, <1>6, <1>7 DEF Inv, BootInv, ProvenBackup

-----------------------------------------------------------------------------
(***************************************************************************)
(* The application.                                                        *)
(***************************************************************************)
LEMMA AppStartStep ==
    ASSUME OrdinaryPolicy, Inv, AppStart
    PROVE  Inv'
<1> USE DEF history
<1>1. /\ pc = "started" /\ pc' = "app"
      /\ UNCHANGED <<stored, slot, running, image, attempts, proven>>
      /\ handle' = "open" /\ view' = stored /\ arg' = NoState
    BY DEF AppStart, Reg!Open
<1>2. stored \in ValidStates /\ stored.status # "Initial" /\ running = BootSlot(stored)
    BY <1>1 DEF Inv, BootInv, AppInv
<1>3. stored \in States /\ stored # NoState
    BY <1>2, ValidFacts
<1>4. state' = stored
    BY <1>3 DEF AppStart
<1>5. Types'
    BY <1>1, <1>3, <1>4 DEF Inv, Types, Reg!TypeOK, Application
<1>6. LoaderInv'
    BY <1>1 DEF LoaderInv, Booting
<1>7. AppInv'
    BY <1>1, <1>2, <1>3, <1>4 DEF Inv, BootInv, AppInv, AppSlot, BootSlot, ProvenBackup
<1>8. AttemptInv'
    BY <1>1 DEF Inv, BootInv, AttemptInv
<1> QED  BY <1>1, <1>5, <1>6, <1>7, <1>8 DEF Inv, BootInv, ProvenBackup

LEMMA Button1Step ==
    ASSUME OrdinaryPolicy, Inv, Button1
    PROVE  Inv'
<1> USE DEF history
<1>1. /\ pc = "app" /\ Store(NewState, "appSet", "app")
      /\ UNCHANGED <<state, slot, running, image, attempts, proven>>
    BY DEF Button1
<1>2. state \in States
    BY <1>1, ValidFacts DEF Inv, BootInv, AppInv
<1>3. NewState \in States
    BY <1>2, NewStateFacts
<1>4. /\ UNCHANGED stored
      /\ arg' = NewState
      /\ handle' = "open" => view' = stored
      /\ Reg!TypeOK'
      /\ pc' = "appSet" \/ (pc' = "app" /\ handle' = "open")
    BY <1>1, <1>3, StoreFacts
<1>5. Types'
    BY <1>1, <1>4 DEF Inv, Types, Application
<1>6. LoaderInv'
    BY <1>4 DEF LoaderInv, Booting
<1>7. AppInv'
  <2>1. NewState' = NewState /\ AppSlot' = AppSlot
      BY <1>1 DEF NewState, AppSlot, OtherSlot
  <2> QED  BY <1>1, <1>4, <2>1 DEF Inv, BootInv, AppInv, ProvenBackup
<1>8. AttemptInv'
    BY <1>1, <1>4 DEF Inv, BootInv, AttemptInv
<1> QED  BY <1>1, <1>4, <1>5, <1>6, <1>7, <1>8 DEF Inv, BootInv, ProvenBackup

-----------------------------------------------------------------------------
(***************************************************************************)
(* The theorems.                                                           *)
(***************************************************************************)
LEMMA InvStep ==
    ASSUME OrdinaryPolicy, Inv, [Next]_vars
    PROVE  Inv'
<1>1. CASE UNCHANGED vars
  <2>1. UNCHANGED <<stored, handle, view, arg, pc, state, slot, running, image,
                    attempts, proven>>
      BY <1>1 DEF vars, journal, history
  <2>2. Types'
      BY <2>1 DEF Inv, Types, Reg!TypeOK
  <2>3. LoaderInv' /\ AttemptInv'
      BY <2>1 DEF Inv, BootInv, LoaderInv, AttemptInv, ProvenBackup, BootSlot, Fetched
  <2>4. AppInv'
    <3>1. NewState' = NewState /\ AppSlot' = AppSlot
        BY <2>1 DEF NewState, AppSlot, OtherSlot
    <3> QED  BY <2>1, <3>1 DEF Inv, BootInv, AppInv, ProvenBackup, BootSlot
  <2> QED  BY <2>1, <2>2, <2>3, <2>4 DEF Inv, BootInv, ProvenBackup
<1>2. CASE Next
    BY <1>2, StartStep, EnvironmentStep, IntentInitialStep, IntentAttemptingStep,
       IntentKeptStep, CheckFailsStep, FallbackStep, BootStepKeeps,
       StoreCommitsStep, StoreReturnsStep, AppStartStep, Button1Step
       DEF Next, BootStep
<1> QED  BY <1>1, <1>2

\* start and the application keep the types and the inductive invariant: what
\* they act on is what the journal holds or will hold.
THEOREM BootInvariant ==
    ASSUME OrdinaryPolicy
    PROVE  Spec => [](TypeOK /\ BootInv)
<1>1. Init => Inv
    BY InvInit
<1>2. Inv /\ [Next]_vars => Inv'
    BY InvStep
<1>3. Inv => TypeOK /\ BootInv
    BY InvTypes
<1> QED  BY <1>1, <1>2, <1>3, PTL DEF Spec

\* The State that is fetched, marked and stored is one at every step.
THEOREM TypeCorrect ==
    ASSUME OrdinaryPolicy
    PROVE  Spec => []TypeOK
BY BootInvariant, PTL

\* start stores Attempting before it jumps: between being made Initial and
\* being confirmed, a target that is not its own backup is started at most
\* once, whatever it is started for.
THEOREM TriedOnce ==
    ASSUME OrdinaryPolicy
    PROVE  Spec => []StartedOnce
<1>1. TypeOK /\ BootInv => StartedOnce
    BY DEF TypeOK, BootInv, AttemptInv, StartedOnce
<1> QED  BY <1>1, BootInvariant, PTL

\* The slot the application derives from the journal is the one it runs from.
THEOREM SlotIsKnown ==
    ASSUME OrdinaryPolicy
    PROVE  Spec => []AppKnowsItsSlot
<1>1. TypeOK /\ BootInv => AppKnowsItsSlot
    BY DEF BootInv, AppInv, AppKnowsItsSlot
<1> QED  BY <1>1, BootInvariant, PTL

\* A stored State names a separate slot as the backup only if the image in it
\* has confirmed itself.
THEOREM BackupWasConfirmed ==
    ASSUME OrdinaryPolicy
    PROVE  Spec => []BackupIsProven
<1>1. TypeOK /\ BootInv => BackupIsProven
    BY DEF BootInv, ProvenBackup, BackupIsProven
<1> QED  BY <1>1, BootInvariant, PTL

\* Only StoreCommits changes what is stored.
LEMMA OnlyCommitStores ==
    ASSUME [Next]_vars, stored' # stored
    PROVE  StoreCommits
<1> USE DEF journal, Reg!Open, Reg!Close, Reg!SetSame, Reg!SetBegin, Reg!SetOk,
            Reg!SetErr, Store
<1>1. CASE Start \/ StartFails \/ AppStart \/ AppStartFails \/ Button1
           \/ PowerLoss \/ Reflash
    BY <1>1 DEF Start, StartFails, AppStart, AppStartFails, Button1, PowerLoss, Reflash
<1>2. CASE IntentInitial \/ IntentAttempting \/ IntentFailed \/ IntentConfirmed
           \/ CheckFails \/ CheckPanics \/ Fallback \/ Abort
    BY <1>2 DEF IntentInitial, IntentAttempting, IntentFailed, IntentConfirmed,
                CheckFails, CheckPanics, Fallback, Abort
<1>3. CASE Check \/ CheckBackup \/ StoreReturns \/ StoreFails
    BY <1>3 DEF Check, CheckBackup, Boot, StoreReturns, StoreFails
<1>4. CASE UNCHANGED vars
    BY <1>4 DEF vars
<1> QED  BY <1>1, <1>2, <1>3, <1>4 DEF Next, BootStep

\* Confirmed is stored only by the application, which runs as the target, in
\* place of the Attempting it was started with.
LEMMA ConfirmStep ==
    ASSUME OrdinaryPolicy, Inv, [Next]_vars,
           stored' # stored, stored'.status = "Confirmed"
    PROVE  /\ running = stored'.target
           /\ stored = WithStatus(stored', "Attempting")
<1>1. /\ pc \in Marking /\ stored' = arg /\ stored # arg /\ handle = "setting"
    BY OnlyCommitStores DEF StoreCommits, Reg!Commit
<1>2. pc = "appSet" /\ arg = NewState /\ arg.status = "Confirmed"
    BY <1>1, ArgFacts
<1>3. /\ state \in ValidStates /\ state.status # "Initial"
      /\ running = AppSlot /\ stored \in {state, NewState}
    BY <1>2 DEF Inv, BootInv, AppInv
<1>4. state \in States /\ state.status \in Statuses
    BY <1>3, ValidFacts, FieldTypes
<1>5. state.status = "Attempting"
  <2>1. state.status = "Failed" => NewState.status = "Initial"
      BY <1>4, NewStateFacts, WithStatusFacts DEF Statuses
  <2>2. state.status = "Confirmed" => NewState.status = "Initial"
      BY <1>4, NewStateFacts
  <2> QED  BY <1>2, <1>3, <1>4, <2>1, <2>2 DEF Statuses
<1>6. NewState = WithStatus(state, "Confirmed")
    BY <1>4, <1>5, NewStateFacts
<1>7. stored = state
    BY <1>1, <1>2, <1>3
<1>8. state = WithStatus(NewState, "Attempting")
    BY <1>4, <1>5, <1>6, WithStatusTwice DEF Statuses
<1>9. running = NewState.target
    BY <1>3, <1>4, <1>5, <1>6, WithStatusFacts DEF AppSlot, Statuses
<1> QED  BY <1>1, <1>2, <1>7, <1>8, <1>9

\* A slot is confirmed only while its image runs, started as the target.
THEOREM ConfirmedByItself ==
    ASSUME OrdinaryPolicy
    PROVE  Spec => ConfirmsOnlyItself
<1>1. TypeOK /\ BootInv /\ [Next]_vars =>
        [stored' # stored /\ stored'.status = "Confirmed" =>
            /\ running = stored'.target
            /\ stored = WithStatus(stored', "Attempting")]_vars
    BY ConfirmStep, InvTypes
<1> QED  BY <1>1, BootInvariant, PTL DEF Spec, ConfirmsOnlyItself

-----------------------------------------------------------------------------
(***************************************************************************)
(* The journal is used as StateRegister allows, and FlashJournal promises. *)
(***************************************************************************)
\* set is called with a State.
LEMMA StoreIsSet ==
    ASSUME NEW s \in States, NEW wait, NEW done, Store(s, wait, done)
    PROVE  Reg!Next
BY DEF Store, Reg!Next

LEMMA RegisterStep ==
    ASSUME OrdinaryPolicy, Inv, [Next]_vars
    PROVE  Reg!Next \/ UNCHANGED journal
<1>1. CASE UNCHANGED vars
    BY <1>1 DEF vars
<1>2. CASE Start \/ AppStart
    BY <1>2 DEF Start, AppStart, Reg!Next
<1>3. CASE IntentInitial
    BY <1>3, MarkFacts, StoreIsSet DEF IntentInitial, Booting, Statuses
<1>4. CASE IntentAttempting
    BY <1>4, MarkFacts, StoreIsSet DEF IntentAttempting, Booting, Statuses
<1>5. CASE CheckFails
  <2>1. CASE state.status # "Failed"
      BY <1>5, <2>1, MarkFacts, StoreIsSet DEF CheckFails, Booting, Statuses
  <2>2. CASE state.status = "Failed"
      BY <1>5, <2>2 DEF CheckFails
  <2> QED  BY <2>1, <2>2
<1>6. CASE Button1
  <2>1. NewState \in States
      BY <1>6, ValidFacts, NewStateFacts DEF Button1, Inv, BootInv, AppInv
  <2> QED  BY <1>6, <2>1, StoreIsSet DEF Button1
<1>7. CASE StoreCommits \/ StoreReturns \/ StoreFails
    BY <1>7 DEF StoreCommits, StoreReturns, StoreFails, Reg!Next
<1>8. CASE Check \/ CheckBackup \/ PowerLoss
    BY <1>8 DEF Check, CheckBackup, PowerLoss, Boot, Reg!Next
<1>9. CASE \/ StartFails \/ IntentFailed \/ IntentConfirmed \/ CheckPanics
           \/ Fallback \/ Abort \/ AppStartFails \/ Reflash
    BY <1>9 DEF StartFails, IntentFailed, IntentConfirmed, CheckPanics, Fallback,
                Abort, AppStartFails, Reflash
<1> QED
    BY <1>1, <1>2, <1>3, <1>4, <1>5, <1>6, <1>7, <1>8, <1>9 DEF Next, BootStep

\* The bootloader and the application together are users of one StateRegister:
\* each opens it before it sets, sets States only, one at a time.  What
\* JournalIsRegister shows of FlashJournal is therefore all they rely on.
THEOREM JournalUsedAsRegister ==
    ASSUME OrdinaryPolicy
    PROVE  Spec => Reg!Spec
<1>1. Init => Reg!Init
    BY SlotAssumption DEF Init, Reg!Init
<1>2. TypeOK /\ BootInv /\ [Next]_vars => [Reg!Next]_(Reg!vars)
  <2>1. journal = Reg!vars
      BY DEF journal, Reg!vars
  <2> QED  BY <2>1, RegisterStep, InvTypes DEF journal, Reg!vars
<1> QED  BY <1>1, <1>2, BootInvariant, PTL DEF Spec, Reg!Spec

\* A device whose set has failed does not call set again before it is reset:
\* set_status and the application panic.  The theorems about FlashJournal
\* assume this of its holders.
THEOREM NeverRetries == Spec => [](handle = "broken" => pc = "panicked")
<1> DEFINE Quiet == handle = "broken" => pc = "panicked"
<1>1. Init => Quiet
    BY DEF Init
<1>2. Quiet /\ [Next]_vars => Quiet'
  <2> SUFFICES ASSUME Quiet, [Next]_vars PROVE Quiet'
      OBVIOUS
  <2>1. CASE UNCHANGED vars
      BY <2>1 DEF vars, journal
  <2>2. CASE Start \/ StartFails \/ AppStart \/ AppStartFails \/ PowerLoss \/ Reflash
      BY <2>2 DEF Start, StartFails, AppStart, AppStartFails, PowerLoss, Reflash,
                  Reg!Open, Reg!Close, journal
  <2>3. CASE IntentInitial \/ IntentAttempting \/ CheckFails \/ Button1
      BY <2>3 DEF IntentInitial, IntentAttempting, CheckFails, Button1, Store,
                  Reg!SetSame, Reg!SetBegin, journal
  <2>4. CASE IntentFailed \/ IntentConfirmed \/ CheckPanics \/ Fallback \/ Abort
      BY <2>4 DEF IntentFailed, IntentConfirmed, CheckPanics, Fallback, Abort, journal
  <2>5. CASE Check \/ CheckBackup
      BY <2>5 DEF Check, CheckBackup, Boot, Reg!Close
  <2>6. CASE StoreCommits \/ StoreReturns \/ StoreFails
      BY <2>6 DEF StoreCommits, StoreReturns, StoreFails, Reg!Commit, Reg!SetOk, Reg!SetErr
  <2> QED  BY <2>1, <2>2, <2>3, <2>4, <2>5, <2>6 DEF Next, BootStep
<1> QED  BY <1>1, <1>2, PTL DEF Spec
=============================================================================
