--------------------------- MODULE JournalLayout ---------------------------
(***************************************************************************)
(* What the boot journal looks like on the flash, and what a reader finds  *)
(* in it (libs/ec-slimloader-state).                                       *)
(*                                                                         *)
(* The partition is an array of two-byte words.  A word that holds a       *)
(* State is the State's data byte followed by its CRC; an erased word is   *)
(* all ones; every other word is broken and is skipped.  The newest State  *)
(* is the valid word with the highest address.                             *)
(*                                                                         *)
(* Bytes are abstract: all that the journal depends on is which data       *)
(* bytes are states, what their CRC is, and which byte is 0xff.  The       *)
(* module StateCodec shows that the real encoding is of this form.  A      *)
(* State is identified with its data byte.  Addresses count words.         *)
(***************************************************************************)
EXTENDS Integers, FiniteSetsExt

CONSTANTS
    Bytes,      \* the values of a byte
    FF,         \* 0xff, the value of an erased byte
    StateData,  \* the data bytes with two valid slot fields
    Crc,        \* the checksum of a data byte
    NoState,    \* the None of Option<State>
    Capacity,   \* words in the partition
    PageWords   \* words in an erase unit (PAGE_SIZE / 2)

ASSUME CodecAssumption ==
    /\ FF \in Bytes \ StateData
    /\ StateData \subseteq Bytes
    /\ Crc \in [StateData -> Bytes]
    /\ NoState \notin Bytes

ASSUME GeometryAssumption ==
    /\ Capacity \in Nat \ {0}
    /\ PageWords \in Nat \ {0}

Addr == 0 .. Capacity - 1

\* The None of an Option<usize>, below every address.
NoAddr == -1

Word == [data : Bytes, crc : Bytes]

\* An entry that was never written, or was erased since: [0xff, 0xff].
Erased == [data |-> FF, crc |-> FF]

\* The bytes State::new makes for the state with data byte s.
StateWord(s) == [data |-> s, crc |-> Crc[s]]

\* State::try_new yields Ok: both slot fields are in range and the CRC fits.
IsState(w) == w.data \in StateData /\ w.crc = Crc[w.data]

-----------------------------------------------------------------------------
(***************************************************************************)
(* What compute_cache finds in the contents f of the flash.  JournalScan   *)
(* has its loop, and the proof that the loop finds this.                   *)
(***************************************************************************)
Valid(f) == {a \in Addr : IsState(f[a])}

LastValid(f) == IF Valid(f) = {} THEN NoAddr ELSE Max(Valid(f))

\* The state a reader of these contents takes for the current one.
Durable(f) == IF Valid(f) = {} THEN NoState ELSE f[LastValid(f)].data

\* Mutant: a newer state does not reset the empty slot found before it.
EmptyAnywhere(f) == {a \in Addr : f[a] = Erased}

Empty(f) == {a \in Addr : f[a] = Erased /\ a > LastValid(f)}

\* Mutant: the word behind the newest state is taken to be free.
WordBehind(f) == IF LastValid(f) + 1 \in Addr THEN LastValid(f) + 1 ELSE NoAddr

FirstEmpty(f) == IF Empty(f) = {} THEN NoAddr ELSE Min(Empty(f))

Cache == [state : StateData \cup {NoState}, address : Addr \cup {NoAddr},
          empty : Addr \cup {NoAddr}]

ComputeCache(f) ==
    [state |-> Durable(f), address |-> LastValid(f), empty |-> FirstEmpty(f)]

-----------------------------------------------------------------------------
(***************************************************************************)
(* Pages.                                                                  *)
(***************************************************************************)
\* capacity.div_ceil(PAGE_SIZE)
PageCount == (Capacity + PageWords - 1) \div PageWords

\* Mutant: off by one at the end of a page.
AddressToPageRounded(a) == (a + 1) \div PageWords

AddressToPage(a) == a \div PageWords

\* The words erase_pages(p .. q) erases: from PageStart(p) up to, and not
\* including, PageEnd(q).
PageStart(p) == p * PageWords
PageEnd(q) == Min({q * PageWords, Capacity})
=============================================================================
