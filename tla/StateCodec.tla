----------------------------- MODULE StateCodec -----------------------------
(***************************************************************************)
(* The two bytes of a State, libs/ec-slimloader-state/src/state.rs, with   *)
(* their real values, and the life of one word of the journal: it is       *)
(* erased, programmed and erased again a byte at a time, and power may be  *)
(* lost in between.  JournalLayout's view of words is checked here against *)
(* State::new and State::try_new.                                          *)
(*                                                                         *)
(* Statuses and slots are their numbers, as in the repr(u8) enums.  The    *)
(* checksum is a parameter: the module Crc8 has the one of the code.       *)
(***************************************************************************)
EXTENDS Integers

CONSTANT Checksum   \* CRC.checksum of one byte

Byte == 0 .. 255
Slot == 0 .. 6

Confirmed == 0
Failed == 1
Attempting == 2
Initial == 3

Status == {Initial, Attempting, Failed, Confirmed}
State == [status : Status, target : Slot, backup : Slot]

-----------------------------------------------------------------------------
\* Mutant: the backup field is shifted one bit short.
DataOverlap(s) == 64 * s.status + 4 * s.backup + s.target

\* State::new.  The fields do not overlap, so | is +.
Data(s) == 64 * s.status + 8 * s.backup + s.target
New(s) == [data |-> Data(s), crc |-> Checksum[Data(s)]]

\* The accessors.
StatusOf(d) == d \div 64
TargetOf(d) == d % 8
BackupOf(d) == (d \div 8) % 8

\* The checksum of a State is not what an erased byte holds.
ASSUME ChecksumAssumption ==
    /\ Checksum \in [Byte -> Byte]
    /\ \A d \in Byte :
          TargetOf(d) \in Slot /\ BackupOf(d) \in Slot => Checksum[d] # 255

WithStatus(w, status) ==
    New([status |-> status, target |-> TargetOf(w.data), backup |-> BackupOf(w.data)])

\* Mutant: a CRC that is not there yet is accepted.
CheckCrcLax(crc, d) == crc \in {Checksum[d], 255}

CheckCrc(crc, d) == crc = Checksum[d]

\* Mutant: the backup field is not checked.
TryNewTargetOnly(w) ==
    IF w = [data |-> 255, crc |-> 255] THEN "Unset"
    ELSE IF TargetOf(w.data) \notin Slot \/ ~CheckCrc(w.crc, w.data)
    THEN "Invalid" ELSE "Ok"

\* State::try_new.
TryNew(w) ==
    IF w = [data |-> 255, crc |-> 255] THEN "Unset"
    ELSE IF TargetOf(w.data) \notin Slot \/ BackupOf(w.data) \notin Slot
    THEN "Invalid"
    ELSE IF ~CheckCrc(w.crc, w.data) THEN "Invalid" ELSE "Ok"

-----------------------------------------------------------------------------
VARIABLES
    word,   \* the two bytes
    phase,  \* noise, erased, torn, written or wiped
    st      \* the State that is being, or was, programmed

vars == <<word, phase, st>>

NoState == -1

\* A word that was never used holds anything.
Init ==
    /\ word \in [data : Byte, crc : Byte]
    /\ phase = IF word = [data |-> 255, crc |-> 255] THEN "erased" ELSE "noise"
    /\ st = NoState

\* Programming can only clear bits: over anything but an erased byte the
\* outcome is the conjunction of both, which can be any byte.
Programmed(old, v) == IF old = 255 THEN {v} ELSE Byte

ProgramData ==
    /\ phase = "erased"
    /\ \E s \in State : \E b \in Programmed(word.data, New(s).data) :
        /\ st' = s
        /\ word' = [word EXCEPT !.data = b]
    /\ phase' = "torn"

ProgramCrc ==
    /\ phase = "torn"
    /\ \E b \in Programmed(word.crc, New(st).crc) : word' = [word EXCEPT !.crc = b]
    /\ phase' = "written"
    /\ UNCHANGED st

EraseData ==
    /\ phase \in {"noise", "torn", "written"}
    /\ word' = [word EXCEPT !.data = 255]
    /\ phase' = "wiped"
    /\ UNCHANGED st

EraseCrc ==
    /\ phase = "wiped"
    /\ word' = [word EXCEPT !.crc = 255]
    /\ phase' = "erased"
    /\ st' = NoState

Next == ProgramData \/ ProgramCrc \/ EraseData \/ EraseCrc

Spec == Init /\ [][Next]_vars

-----------------------------------------------------------------------------
\* A State that was programmed into an erased word is read back with the
\* status and the slots it was made of, and with_status changes nothing else.
FieldsSurvive ==
    phase = "written" =>
        /\ TryNew(word) = "Ok"
        /\ st = [status |-> StatusOf(word.data), target |-> TargetOf(word.data),
                 backup |-> BackupOf(word.data)]
        /\ \A status \in Status :
             WithStatus(word, status) = New([st EXCEPT !.status = status])

\* A word whose programming or erasure was cut short between its bytes is not
\* a State, and one that was half programmed does not look empty either, so
\* it is not programmed a second time.
TornIsNoState ==
    /\ phase \in {"torn", "wiped"} => TryNew(word) # "Ok"
    /\ phase = "torn" => TryNew(word) = "Invalid"

Layout == INSTANCE JournalLayout WITH
    Bytes <- Byte, FF <- 255, StateData <- {Data(s) : s \in State},
    Crc <- [d \in {Data(s) : s \in State} |-> Checksum[d]],
    Capacity <- 2, PageWords <- 1

\* try_new tells states, empty words and broken words apart as the model of
\* the journal does, for every value of a word.
AgreesWithLayout ==
    /\ TryNew(word) = "Ok" <=> Layout!IsState(word)
    /\ TryNew(word) = "Unset" <=> word = Layout!Erased
    /\ Layout!IsState(word) => word = Layout!StateWord(word.data)
=============================================================================
