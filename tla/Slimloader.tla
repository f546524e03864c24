----------------------------- MODULE Slimloader -----------------------------
(***************************************************************************)
(* The boot protocol: the bootloader (libs/ec-slimloader, function start)  *)
(* and the application it starts (examples/rt685s/application) take turns  *)
(* on one device and talk through the State in the boot journal only.      *)
(*                                                                         *)
(* The application asks for an image to be tried by storing Initial; the   *)
(* bootloader stores Attempting before it starts that image; the image     *)
(* stores Confirmed; a bootloader that still finds Attempting stores       *)
(* Failed and starts the backup.  Power may be lost at any instant.        *)
(*                                                                         *)
(* The journal is the register of StateRegister, which FlashJournal        *)
(* implements.  What check_and_boot makes of the image in a slot depends   *)
(* on the image, which the host can change while the device is off.        *)
(***************************************************************************)
EXTENDS Naturals

CONSTANTS
    Slots,          \* the slots a State can name
    SlotA, SlotB,   \* the slots the application alternates between
    Partitions,     \* the slots that have a partition on the device
    DefaultState,   \* BootStatePolicy::default_state
    ValidStates,    \* BootStatePolicy::is_valid_state
    InitialStates,  \* what the journal may hold when the device is first used
    NoState,        \* an empty journal
    NoSlot          \* no application runs

Statuses == {"Initial", "Attempting", "Failed", "Confirmed"}
States == [status : Statuses, target : Slots, backup : Slots]

WithStatus(s, status) == [s EXCEPT !.status = status]

\* good: check_and_boot starts it.  bad: check_and_boot returns an error.
\* flaky: it does the one or the other, as reading the image sometimes fails.
\* malformed: check_and_boot panics.
ImageKinds == {"good", "bad", "flaky", "malformed"}

ASSUME SlotAssumption ==
    /\ {SlotA, SlotB} \cup Partitions \subseteq Slots
    /\ NoSlot \notin Slots
    /\ NoState \notin States
    /\ InitialStates \subseteq States \cup {NoState}

\* A policy must accept what the bootloader makes of its default state, or
\* the bootloader would start from the default again at every boot.
ASSUME PolicyAssumption ==
    /\ DefaultState \in States
    /\ ValidStates \subseteq States
    /\ \A status \in Statuses : WithStatus(DefaultState, status) \in ValidStates

\* What the theorems ask of a policy, and the default of the trait has: it
\* starts with an attempt at a slot that is its own backup, and whether it
\* accepts a State depends on the slots only.
OrdinaryPolicy ==
    /\ DefaultState.status = "Initial"
    /\ DefaultState.target = DefaultState.backup
    /\ \A s \in ValidStates : \A status \in Statuses :
          WithStatus(s, status) \in ValidStates

VARIABLES
    stored, handle, view, arg,  \* the journal, see StateRegister
    pc,         \* where the bootloader or the application is
    state,      \* the local copy of the State
    slot,       \* the slot the bootloader is about to boot
    running,    \* the slot whose image runs
    image,      \* what the slots hold
    attempts,   \* history: how often the target was started, as the target or
                \* as its own backup, since it was made Initial and before it
                \* was confirmed; more than one counts as MaxAttempts
    proven      \* history: the slots an application confirmed, and those that
                \* the first State vouches for

journal == <<stored, handle, view, arg>>
history == <<attempts, proven>>
vars == <<journal, pc, state, slot, running, image, history>>

Reg == INSTANCE StateRegister WITH Values <- States, NoValue <- NoState

\* The bootloader is at work.
Booting == {"intent", "markAttempting", "markBackup", "check", "markFailed",
            "fallback", "checkBackup"}

\* The application runs: it is starting, idle, or storing a State.
Application == {"started", "app", "appSet"}

Marking == {"markAttempting", "markBackup", "markFailed", "appSet"}

MaxAttempts == 2

TypeOK ==
    /\ Reg!TypeOK
    /\ pc \in Booting \cup Application \cup {"off", "aborted", "panicked"}
    /\ state \in States \cup {NoState}
    /\ pc \in Booting \cup {"app", "appSet"} => state # NoState
    /\ slot \in Slots \cup {NoSlot}
    /\ running \in Slots \cup {NoSlot}
    /\ image \in [Partitions -> ImageKinds]
    /\ attempts \in 0 .. MaxAttempts
    /\ proven \subseteq Slots

Vouched(s) == IF s = NoState THEN {}
              ELSE {s.backup} \cup IF s.status = "Confirmed" THEN {s.target} ELSE {}

Init ==
    /\ stored \in InitialStates
    /\ handle = "closed" /\ view = NoState /\ arg = NoState
    /\ pc = "off"
    /\ state = NoState
    /\ slot = NoSlot
    /\ running = NoSlot
    /\ image \in [Partitions -> ImageKinds]
    /\ attempts = 0
    /\ proven = Vouched(stored)

-----------------------------------------------------------------------------
(***************************************************************************)
(* Storing a State.                                                        *)
(***************************************************************************)
\* journal.set(s): it returns at once if the journal holds s, and otherwise
\* the caller waits in the step `wait`.
Store(s, wait, done) ==
    \/ Reg!SetSame(s) /\ pc' = done
    \/ Reg!SetBegin(s) /\ pc' = wait

\* The set takes effect.  The history follows what becomes durable.
StoreCommits ==
    /\ pc \in Marking
    /\ Reg!Commit
    /\ stored # arg
    /\ attempts' = IF arg.status = "Initial" THEN 0 ELSE attempts
    /\ proven' = IF arg.status = "Confirmed" THEN proven \cup {arg.target}
                                             ELSE proven
    /\ UNCHANGED <<pc, state, slot, running, image>>

\* Where set returns to.
After == [markAttempting |-> "check", markBackup |-> "check",
          markFailed |-> "fallback", appSet |-> "app"]

StoreReturns ==
    /\ pc \in Marking
    /\ Reg!SetOk
    /\ pc' = After[pc]
    /\ UNCHANGED <<state, slot, running, image, history>>

\* set returns an error.  Both callers panic: the device hangs.
StoreFails ==
    /\ pc \in Marking
    /\ Reg!SetErr
    /\ pc' = "panicked"
    /\ UNCHANGED <<state, slot, running, image, history>>

-----------------------------------------------------------------------------
(***************************************************************************)
(* The bootloader.                                                         *)
(***************************************************************************)
\* Mutant: no default for an empty journal.
FetchedUnchecked == IF stored \in ValidStates \cup {NoState} THEN stored ELSE DefaultState

\* Board::init opens the journal, start fetches the State, or takes the
\* default if there is none or if the policy does not accept it.
Fetched == IF stored \in ValidStates THEN stored ELSE DefaultState

Start ==
    /\ pc = "off"
    /\ Reg!Open
    /\ state' = Fetched
    /\ pc' = "intent"
    /\ UNCHANGED <<slot, running, image, history>>

\* The journal cannot be opened: Board::init panics.
StartFails ==
    /\ pc = "off"
    /\ pc' = "panicked"
    /\ UNCHANGED <<journal, state, slot, running, image, history>>

\* Mutant: the target is started without storing that it was.
IntentInitialUnmarked ==
    /\ pc = "intent"
    /\ state.status = "Initial"
    /\ slot' = state.target
    /\ pc' = "check"
    /\ UNCHANGED <<journal, state, running, image, history>>

IntentInitial ==
    /\ pc = "intent"
    /\ state.status = "Initial"
    /\ state' = WithStatus(state, "Attempting")
    /\ Store(WithStatus(state, "Attempting"), "markAttempting", "check")
    /\ slot' = state.target
    /\ UNCHANGED <<running, image, history>>

IntentAttempting ==
    /\ pc = "intent"
    /\ state.status = "Attempting"
    /\ state' = WithStatus(state, "Failed")
    /\ Store(WithStatus(state, "Failed"), "markBackup", "check")
    /\ slot' = state.backup
    /\ UNCHANGED <<running, image, history>>

IntentFailed ==
    /\ pc = "intent"
    /\ state.status = "Failed"
    /\ slot' = state.backup
    /\ pc' = "check"
    /\ UNCHANGED <<journal, state, running, image, history>>

IntentConfirmed ==
    /\ pc = "intent"
    /\ state.status = "Confirmed"
    /\ slot' = state.target
    /\ pc' = "check"
    /\ UNCHANGED <<journal, state, running, image, history>>

Bootable(s) == s \in Partitions /\ image[s] = "good"

\* check_and_boot does not return: the application runs, and nothing of the
\* bootloader is left.
Boot(s) ==
    /\ s \in Partitions /\ image[s] \in {"good", "flaky"}
    /\ running' = s
    /\ pc' = "started"
    /\ Reg!Close
    /\ state' = NoState
    /\ slot' = NoSlot
    /\ attempts' = IF /\ s = state.target /\ state.status # "Confirmed"
                      /\ attempts < MaxAttempts
                   THEN attempts + 1 ELSE attempts
    /\ UNCHANGED <<image, proven>>

\* check_and_boot returns a BootError: there is no such slot, the image is
\* not acceptable, or it could not be read.
BootError(s) == s \in Partitions => image[s] \in {"bad", "flaky"}

\* check_and_boot panics: the offset in the header of the image leads out of
\* the image, and the slice operation in check_image is out of range.
CheckPanics ==
    /\ \E s \in Partitions :
        /\ image[s] = "malformed"
        /\ \/ pc = "check" /\ s = slot
           \/ pc = "checkBackup" /\ s = state.backup
    /\ pc' = "panicked"
    /\ UNCHANGED <<journal, state, slot, running, image, history>>

Check ==
    /\ pc = "check"
    /\ Boot(slot)

\* Mutant: the backup is tried without storing that the target failed.
CheckFailsUnmarked ==
    /\ pc = "check"
    /\ BootError(slot)
    /\ pc' = "fallback"
    /\ UNCHANGED <<journal, state, slot, running, image, history>>

CheckFails ==
    /\ pc = "check"
    /\ BootError(slot)
    /\ IF state.status # "Failed"
       THEN /\ state' = WithStatus(state, "Failed")
            /\ Store(WithStatus(state, "Failed"), "markFailed", "fallback")
       ELSE /\ pc' = "fallback"
            /\ UNCHANGED <<journal, state>>
    /\ UNCHANGED <<slot, running, image, history>>

Fallback ==
    /\ pc = "fallback"
    /\ slot # state.backup
    /\ pc' = "checkBackup"
    /\ UNCHANGED <<journal, state, slot, running, image, history>>

CheckBackup ==
    /\ pc = "checkBackup"
    /\ Boot(state.backup)

\* Mutant: the backup is not tried.
AbortEarly ==
    /\ \/ pc = "fallback"
       \/ pc = "checkBackup" /\ BootError(state.backup)
    /\ pc' = "aborted"
    /\ UNCHANGED <<journal, state, slot, running, image, history>>

Abort ==
    /\ \/ pc = "fallback" /\ slot = state.backup
       \/ pc = "checkBackup" /\ BootError(state.backup)
    /\ pc' = "aborted"
    /\ UNCHANGED <<journal, state, slot, running, image, history>>

-----------------------------------------------------------------------------
(***************************************************************************)
(* The application.                                                        *)
(***************************************************************************)
AppStart ==
    /\ pc = "started"
    /\ Reg!Open
    /\ state' = IF stored # NoState THEN stored
                ELSE [status |-> "Confirmed", target |-> SlotA, backup |-> SlotB]
    /\ pc' = "app"
    /\ UNCHANGED <<slot, running, image, history>>

AppStartFails ==
    /\ pc = "started"
    /\ pc' = "panicked"
    /\ UNCHANGED <<journal, state, slot, running, image, history>>

\* The slot the application takes itself to run from.
AppSlot == IF state.status = "Failed" THEN state.backup ELSE state.target

OtherSlot == IF AppSlot = SlotA THEN SlotB ELSE SlotA

\* Mutant: an image offers itself as a backup before it confirmed itself.
NewStateHasty ==
    IF state.status = "Failed" THEN WithStatus(state, "Initial")
    ELSE [status |-> "Initial", target |-> OtherSlot, backup |-> AppSlot]

\* Mutant: the backup confirms the target.
NewStateConfirmsTarget ==
    IF state.status = "Confirmed"
    THEN [status |-> "Initial", target |-> OtherSlot, backup |-> AppSlot]
    ELSE WithStatus(state, "Confirmed")

\* What a short press of the first button stores.
NewState ==
    CASE state.status = "Confirmed" ->
            [status |-> "Initial", target |-> OtherSlot, backup |-> AppSlot]
      [] state.status = "Failed" -> WithStatus(state, "Initial")
      [] OTHER -> WithStatus(state, "Confirmed")

Button1 ==
    /\ pc = "app"
    /\ Store(NewState, "appSet", "app")
    /\ UNCHANGED <<state, slot, running, image, history>>

-----------------------------------------------------------------------------
(***************************************************************************)
(* The environment.                                                        *)
(***************************************************************************)
\* The second button, a watchdog, or a power loss.
PowerLoss ==
    /\ pc # "off"
    /\ pc' = "off"
    /\ Reg!Close
    /\ state' = NoState
    /\ slot' = NoSlot
    /\ running' = NoSlot
    /\ UNCHANGED <<image, history>>

\* The host writes or damages images through the debug probe.
Reflash ==
    /\ pc = "off"
    /\ image' \in [Partitions -> ImageKinds]
    /\ UNCHANGED <<journal, pc, state, slot, running, history>>

\* What the bootloader does by itself.
BootStep ==
    \/ IntentInitial \/ IntentAttempting \/ IntentFailed \/ IntentConfirmed
    \/ Check \/ CheckFails \/ CheckPanics \/ Fallback \/ CheckBackup \/ Abort
    \/ StoreReturns \/ StoreFails \/ StoreCommits

Next ==
    \/ Start \/ StartFails
    \/ BootStep
    \/ AppStart \/ AppStartFails \/ Button1
    \/ PowerLoss \/ Reflash

Spec == Init /\ [][Next]_vars

\* The device runs its program as long as it has power.
FairSpec == Spec /\ WF_vars(Start) /\ WF_vars(BootStep)

-----------------------------------------------------------------------------
(***************************************************************************)
(* Properties.                                                             *)
(***************************************************************************)
\* A target with a separate backup is started at most once between the time it
\* is made Initial and the time it is confirmed: the bootloader stores
\* Attempting before it jumps, and what it finds stored after a reset sends it
\* to the backup.  A target that is its own backup, as in the default state,
\* is what the bootloader falls back to and is started at every boot.
StartedOnce ==
    stored # NoState /\ stored.target # stored.backup => attempts <= 1

\* The application runs from the slot that it derives from the journal, so
\* that it confirms itself and not another image, and does not offer the slot
\* it runs from for replacement.
AppKnowsItsSlot == pc \in {"app", "appSet"} => AppSlot = running

\* A separate backup is a slot whose image has confirmed itself (the host may
\* have replaced it since) or that the first State vouches for: the
\* application names itself as the backup only from the Confirmed state, and
\* nothing else changes the slots.
BackupIsProven ==
    stored # NoState /\ stored.target # stored.backup => stored.backup \in proven

\* A slot is confirmed only while its image runs, started as the target.
ConfirmsOnlyItself ==
    [][stored' # stored /\ stored'.status = "Confirmed" =>
        /\ running = stored'.target
        /\ stored = WithStatus(stored', "Attempting")]_vars

\* What boots the slots of a State: the backup after a failure.
BootSlot(s) == IF s.status = "Failed" THEN s.backup ELSE s.target

\* A separate backup of s has confirmed itself.
ProvenBackup(s) == s.target # s.backup => s.backup \in proven

\* The bootloader acts on what the journal holds or will hold.
LoaderInv ==
    /\ pc = "intent" => state = Fetched
    /\ pc \in {"markAttempting", "markBackup", "markFailed"} => arg = state
    /\ pc \in {"markAttempting", "markBackup", "markFailed"} /\ stored \in ValidStates =>
          stored.target = state.target /\ stored.backup = state.backup
    /\ pc \in {"check", "fallback", "checkBackup"} => stored = state
    /\ pc = "markAttempting" => state.status = "Attempting" /\ slot = state.target
    /\ pc = "markBackup" => slot = state.backup
    /\ pc \in {"markBackup", "markFailed", "fallback", "checkBackup"} =>
          state.status = "Failed"
    /\ pc = "check" => state.status # "Initial" /\ slot = BootSlot(state)
    /\ pc \in Booting => state \in ValidStates /\ ProvenBackup(state)

\* The application has the State it was started with.  The journal holds this
\* one or the one the first button stores.
AppInv ==
    /\ pc = "started" => /\ stored \in ValidStates /\ stored.status # "Initial"
                         /\ running = BootSlot(stored)
    /\ pc \in {"app", "appSet"} =>
          /\ state \in ValidStates /\ state.status # "Initial"
          /\ running = AppSlot
          /\ stored \in {state, NewState}
          /\ ProvenBackup(state)
          /\ state.status = "Confirmed" => state.target \in proven
    /\ pc = "appSet" => arg = NewState

\* If the target was started since it was made Initial, the journal says so;
\* more than once only if it is its own backup.
AttemptInv ==
    /\ attempts # 0 => /\ stored \in ValidStates /\ stored.status # "Initial"
                       /\ stored.target # stored.backup => attempts = 1
    /\ pc = "markAttempting" \/ (pc = "check" /\ state.status = "Attempting") =>
          attempts = 0

\* The inductive invariant behind the properties above: the handle shows what
\* is stored, and the bootloader and the application agree on what that means.
BootInv ==
    /\ pc \in {"intent", "check", "fallback", "checkBackup", "app"} => handle = "open"
    /\ handle = "open" => view = stored
    /\ LoaderInv
    /\ AppInv
    /\ AttemptInv
    /\ stored # NoState => /\ ProvenBackup(stored)
                           /\ stored.status = "Confirmed" => stored.target \in proven

\* The image that is checked first makes check_and_boot panic.
FirstPanics ==
    /\ state.status \in {"Initial", "Confirmed"}
    /\ state.target \in Partitions /\ image[state.target] = "malformed"

\* A boot with a bootable backup ends in an application, whatever the status
\* and the target are, unless power fails or a State cannot be stored; and
\* unless the target is tried first and is malformed, for then check_and_boot
\* panics and the backup is not reached.
GoodBackupBoots ==
    (pc = "intent" /\ Bootable(state.backup) /\ ~FirstPanics)
        ~> pc \in Application \cup {"off"} \/ handle = "broken"
=============================================================================
