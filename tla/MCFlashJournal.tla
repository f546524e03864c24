--------------------------- MODULE MCFlashJournal ---------------------------
(***************************************************************************)
(* Instances of FlashJournal for TLC.  Bytes are the numbers 0 .. 3 with 3 *)
(* for 0xff; the data bytes 0, 1 and 2 are states, so that an interrupted  *)
(* set has an old state, a new one and a third one to bring back.  As in   *)
(* the real encoding a byte can be a data byte and a CRC, and the word of  *)
(* all zeros is a state.                                                   *)
(***************************************************************************)
EXTENDS FlashJournal, TLC

MCBytes == 0 .. 3
MCFF == 3
MCStateData == {0, 1, 2}
MCCrc == (0 :> 0) @@ (1 :> 2) @@ (2 :> 1)

\* Fewer bytes, for the run in which every byte can be stored anywhere.
FewBytes == 0 .. 2
FewFF == 2
FewStateData == {0, 1}
FewCrc == (0 :> 0) @@ (1 :> 0)

\* A partition that was never used.
ErasedFlash == {[a \in Addr |-> Erased]}

\* A partition with any contents at all.
AnyFlash == [Addr -> Word]

=============================================================================
