-------------------------- MODULE StateCodecProofs --------------------------
(***************************************************************************)
(* The encoding of a State, for every word, every State and every checksum *)
(* that is not 0xff for a State.                                           *)
(***************************************************************************)
EXTENDS StateCodec, TLAPS

Words == [data : Byte, crc : Byte]
ErasedWord == [data |-> 255, crc |-> 255]

\* What the word holds in each phase of its life.
WordInv ==
    /\ word \in [data : Byte, crc : Byte]
    /\ phase \in {"noise", "erased", "torn", "written", "wiped"}
    /\ phase = "erased" => word = [data |-> 255, crc |-> 255]
    /\ phase = "torn" => st \in State /\ word = [data |-> Data(st), crc |-> 255]
    /\ phase = "written" => st \in State /\ word = New(st)
    /\ phase = "wiped" => word.data = 255

-----------------------------------------------------------------------------
(***************************************************************************)
(* The fields of a data byte.                                              *)
(***************************************************************************)
LEMMA StateFields ==
    ASSUME NEW s \in State
    PROVE  /\ s.status \in 0 .. 3 /\ s.target \in 0 .. 6 /\ s.backup \in 0 .. 6
           /\ s = [status |-> s.status, target |-> s.target, backup |-> s.backup]
BY DEF State, Status, Slot, Initial, Attempting, Failed, Confirmed

\* The fields do not overlap, and fit into a byte.
LEMMA FieldsOfData ==
    ASSUME NEW s \in State
    PROVE  /\ Data(s) \in Byte /\ Data(s) # 255
           /\ StatusOf(Data(s)) = s.status
           /\ TargetOf(Data(s)) = s.target
           /\ BackupOf(Data(s)) = s.backup
<1> DEFINE a == s.status
           t == s.target
           b == s.backup
<1>1. a \in 0 .. 3 /\ t \in 0 .. 6 /\ b \in 0 .. 6
    BY StateFields
<1> HIDE DEF a, t, b
<1>2. 64 * a + 8 * b + t \in Byte /\ 64 * a + 8 * b + t # 255
    BY <1>1 DEF Byte
<1>3. (64 * a + 8 * b + t) \div 64 = a
    BY <1>1
<1>4. (64 * a + 8 * b + t) % 8 = t
    BY <1>1
<1>5. ((64 * a + 8 * b + t) \div 8) % 8 = b
    BY <1>1
<1> QED
    BY <1>2, <1>3, <1>4, <1>5 DEF Data, StatusOf, TargetOf, BackupOf, a, b, t

\* The other way round: a byte with two valid slots is the data of a State.
LEMMA DataOfFields ==
    ASSUME NEW d \in Byte, TargetOf(d) \in Slot, BackupOf(d) \in Slot
    PROVE  LET s == [status |-> StatusOf(d), target |-> TargetOf(d), backup |-> BackupOf(d)]
           IN s \in State /\ Data(s) = d
<1> DEFINE s == [status |-> StatusOf(d), target |-> TargetOf(d), backup |-> BackupOf(d)]
<1>1. StatusOf(d) \in 0 .. 3
    BY DEF Byte, StatusOf
<1>2. s \in State
    BY <1>1 DEF State, Status, Initial, Attempting, Failed, Confirmed
<1>3. 64 * (d \div 64) + 8 * ((d \div 8) % 8) + (d % 8) = d
    BY DEF Byte
<1> QED  BY <1>2, <1>3 DEF Data, StatusOf, TargetOf, BackupOf

\* try_new accepts what new makes, and nothing else.
LEMMA TryNewOk ==
    ASSUME NEW w \in Words
    PROVE  TryNew(w) = "Ok" <=> \E s \in State : w = New(s)
<1>1. w = [data |-> w.data, crc |-> w.crc] /\ w.data \in Byte /\ w.crc \in Byte
    BY DEF Words
<1>2. ASSUME TryNew(w) = "Ok" PROVE \E s \in State : w = New(s)
  <2> DEFINE d == w.data
             s == [status |-> StatusOf(d), target |-> TargetOf(d), backup |-> BackupOf(d)]
  <2>1. TargetOf(d) \in Slot /\ BackupOf(d) \in Slot /\ CheckCrc(w.crc, d)
      BY <1>2 DEF TryNew
  <2>2. s \in State /\ Data(s) = d
      BY <1>1, <2>1, DataOfFields
  <2> HIDE DEF s
  <2>3. w = New(s)
      BY <1>1, <2>1, <2>2 DEF New, CheckCrc
  <2> QED  BY <2>2, <2>3
<1>3. ASSUME NEW s \in State, w = New(s) PROVE TryNew(w) = "Ok"
  <2>1. w.data = Data(s) /\ w.crc = Checksum[Data(s)]
      BY <1>3 DEF New
  <2>2. w.data # 255 /\ TargetOf(w.data) \in Slot /\ BackupOf(w.data) \in Slot
      BY <2>1, FieldsOfData, StateFields DEF Slot
  <2>3. w # ErasedWord
      BY <2>2 DEF ErasedWord
  <2> QED  BY <2>1, <2>2, <2>3 DEF TryNew, CheckCrc, ErasedWord
<1> QED  BY <1>2, <1>3

LEMMA NewType ==
    ASSUME NEW s \in State
    PROVE  New(s) \in Words /\ New(s).crc # 255
<1>1. /\ Data(s) \in Byte
      /\ TargetOf(Data(s)) \in Slot /\ BackupOf(Data(s)) \in Slot
    BY FieldsOfData, StateFields DEF Slot
<1>2. Checksum[Data(s)] \in Byte /\ Checksum[Data(s)] # 255
    BY <1>1, ChecksumAssumption
<1> QED  BY <1>1, <1>2 DEF New, Words

-----------------------------------------------------------------------------
(***************************************************************************)
(* The life of a word.                                                     *)
(***************************************************************************)
LEMMA WordStep == WordInv /\ [Next]_vars => WordInv'
<1> SUFFICES ASSUME WordInv, [Next]_vars PROVE WordInv'
    OBVIOUS
<1>0. 255 \in Byte
    BY DEF Byte
<1>1. word = [data |-> word.data, crc |-> word.crc] /\ word.data \in Byte /\ word.crc \in Byte
    BY DEF WordInv
<1>2. CASE UNCHANGED vars
    BY <1>2 DEF vars, WordInv
<1>3. CASE ProgramData
  <2>0. PICK s \in State : \E b \in Programmed(word.data, New(s).data) :
            st' = s /\ word' = [word EXCEPT !.data = b]
      BY <1>3 DEF ProgramData
  <2>1. PICK b \in Programmed(word.data, New(s).data) :
            st' = s /\ word' = [word EXCEPT !.data = b]
      BY <2>0
  <2>2. word = [data |-> 255, crc |-> 255] /\ phase' = "torn"
      BY <1>3 DEF ProgramData, WordInv
  <2>3. b = Data(s)
      BY <2>1, <2>2 DEF Programmed, New
  <2>4. word' = [data |-> Data(s), crc |-> 255]
      BY <2>1, <2>2, <2>3
  <2>5. Data(s) \in Byte
      BY FieldsOfData
  <2> QED  BY <1>0, <2>1, <2>2, <2>4, <2>5 DEF WordInv
<1>4. CASE ProgramCrc
  <2>1. st \in State /\ word = [data |-> Data(st), crc |-> 255]
      BY <1>4 DEF ProgramCrc, WordInv
  <2>2. word' = [word EXCEPT !.crc = New(st).crc] /\ phase' = "written" /\ st' = st
      BY <1>4, <2>1 DEF ProgramCrc, Programmed
  <2>3. word' = New(st)
      BY <2>1, <2>2 DEF New
  <2>4. word' \in [data : Byte, crc : Byte]
      BY <2>1, <2>3, NewType DEF Words
  <2>5. (st \in State /\ word = New(st))'
      BY <2>1, <2>2, <2>3
  <2> QED  BY <2>2, <2>4, <2>5 DEF WordInv
<1>5. CASE EraseData
    BY <1>0, <1>1, <1>5 DEF EraseData, WordInv
<1>6. CASE EraseCrc
  <2>1. word' = [data |-> 255, crc |-> 255] /\ phase' = "erased"
      BY <1>1, <1>6 DEF EraseCrc, WordInv
  <2> QED  BY <1>0, <2>1 DEF WordInv
<1> QED  BY <1>2, <1>3, <1>4, <1>5, <1>6 DEF Next

\* What the word holds in every phase of its life.
LEMMA WordInvariant == Spec => []WordInv
<1>1. Init => WordInv
    BY DEF Init, WordInv
<1> QED  BY <1>1, WordStep, PTL DEF Spec

-----------------------------------------------------------------------------
(***************************************************************************)
(* The theorems.                                                           *)
(***************************************************************************)
\* What State::new made of a status and two slots, programmed into an erased
\* word, is read back as these, and with_status changes the status alone.
THEOREM ReadBack == Spec => []FieldsSurvive
<1>1. WordInv => FieldsSurvive
  <2> SUFFICES ASSUME WordInv, phase = "written" PROVE FieldsSurvive
      BY DEF FieldsSurvive
  <2>1. st \in State /\ word = New(st) /\ word \in Words
      BY DEF WordInv, Words
  <2>2. TryNew(word) = "Ok"
      BY <2>1, TryNewOk
  <2>3. /\ StatusOf(word.data) = st.status /\ TargetOf(word.data) = st.target
        /\ BackupOf(word.data) = st.backup
      BY <2>1, FieldsOfData DEF New
  <2>4. st = [status |-> StatusOf(word.data), target |-> TargetOf(word.data),
              backup |-> BackupOf(word.data)]
      BY <2>1, <2>3, StateFields
  <2>5. ASSUME NEW status \in Status
        PROVE  WithStatus(word, status) = New([st EXCEPT !.status = status])
    <3>1. [st EXCEPT !.status = status] =
            [status |-> status, target |-> TargetOf(word.data), backup |-> BackupOf(word.data)]
        BY <2>4
    <3> QED  BY <3>1 DEF WithStatus
  <2> QED  BY <2>2, <2>4, <2>5 DEF FieldsSurvive
<1> QED  BY <1>1, WordInvariant, PTL

\* A word whose programming or erasure was cut short is not a State, and one
\* that was half programmed does not look empty.
THEOREM HalfIsNoState == Spec => []TornIsNoState
<1>1. WordInv => TornIsNoState
  <2> SUFFICES ASSUME WordInv PROVE TornIsNoState
      OBVIOUS
  <2>1. ASSUME phase = "torn" PROVE TryNew(word) = "Invalid"
    <3>1. st \in State /\ word = [data |-> Data(st), crc |-> 255]
        BY <2>1 DEF WordInv
    <3>2. word.data = Data(st) /\ word.crc = 255
        BY <3>1
    <3>3. word.data # 255
        BY <3>1, <3>2, FieldsOfData
    <3>4. word # [data |-> 255, crc |-> 255]
        BY <3>3
    <3>5. ~CheckCrc(word.crc, word.data)
        BY <3>1, <3>2, NewType DEF New, CheckCrc
    <3> QED  BY <3>4, <3>5 DEF TryNew
  <2>2. ASSUME phase = "wiped" PROVE TryNew(word) # "Ok"
    <3>1. TargetOf(word.data) \notin Slot
        BY <2>2 DEF WordInv, TargetOf, Slot
    <3> QED  BY <3>1 DEF TryNew
  <2> QED  BY <2>1, <2>2 DEF TornIsNoState
<1> QED  BY <1>1, WordInvariant, PTL

\* try_new tells states, empty words and broken words apart as the model of
\* the journal does.
THEOREM LayoutIsReal == Spec => []AgreesWithLayout
<1>1. WordInv => AgreesWithLayout
  <2> SUFFICES ASSUME WordInv PROVE AgreesWithLayout
      OBVIOUS
  <2> DEFINE SD == {Data(s) : s \in State}
             CR == [d \in SD |-> Checksum[d]]
  <2>1. word \in Words /\ word = [data |-> word.data, crc |-> word.crc]
      BY DEF WordInv, Words
  <2>2. TryNew(word) = "Ok" <=> word.data \in SD /\ word.crc = CR[word.data]
    <3>1. \A s \in State : word = New(s) <=> word.data = Data(s) /\ word.crc = Checksum[Data(s)]
        BY <2>1 DEF New
    <3>2. (\E s \in State : word = New(s)) <=> word.data \in SD /\ word.crc = CR[word.data]
        BY <3>1
    <3> QED  BY <2>1, <3>2, TryNewOk
  <2>3. Layout!IsState(word) <=> word.data \in SD /\ word.crc = CR[word.data]
      BY DEF Layout!IsState
  <2>4. TryNew(word) = "Unset" <=> word = Layout!Erased
      BY DEF TryNew, Layout!Erased
  <2>5. Layout!IsState(word) => word = Layout!StateWord(word.data)
      BY <2>1 DEF Layout!IsState, Layout!StateWord
  <2> QED  BY <2>2, <2>3, <2>4, <2>5 DEF AgreesWithLayout
<1> QED  BY <1>1, WordInvariant, PTL

\* What the proofs about the journal assume of the encoding holds of the one in
\* state.rs: CodecAssumption of JournalLayout, with the real bytes.
THEOREM CodecAsAssumed ==
    LET StateData == {Data(s) : s \in State}
        Crc == [d \in StateData |-> Checksum[d]]
    IN /\ 255 \in Byte \ StateData
       /\ StateData \subseteq Byte
       /\ Crc \in [StateData -> Byte]
       /\ NoState \notin Byte
<1>1. \A s \in State : Data(s) \in Byte /\ Data(s) # 255 /\ Checksum[Data(s)] \in Byte
    BY FieldsOfData, ChecksumAssumption
<1>2. 255 \in Byte
    BY DEF Byte
<1>3. NoState \notin Byte
    BY DEF NoState, Byte
<1> QED  BY <1>1, <1>2, <1>3

\* The accessors of a State that try_new returned, which use unwrap_unchecked,
\* find a status and two slots, and the State that is made of these again is
\* the same word.
THEOREM AccessorsDefined ==
    ASSUME NEW w \in Words, TryNew(w) = "Ok"
    PROVE  LET s == [status |-> StatusOf(w.data), target |-> TargetOf(w.data),
                     backup |-> BackupOf(w.data)]
           IN s \in State /\ New(s) = w
<1>1. PICK s \in State : w = New(s)
    BY TryNewOk
<1>2. /\ StatusOf(w.data) = s.status /\ TargetOf(w.data) = s.target
      /\ BackupOf(w.data) = s.backup
    BY <1>1, FieldsOfData DEF New
<1>3. s = [status |-> StatusOf(w.data), target |-> TargetOf(w.data),
           backup |-> BackupOf(w.data)]
    BY <1>2, StateFields
<1> QED  BY <1>1, <1>3, Zenon
=============================================================================
