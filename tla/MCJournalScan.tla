--------------------------- MODULE MCJournalScan ---------------------------
(***************************************************************************)
(* JournalScan over every content of a partition of five words, read in    *)
(* blocks of two: the last block is a short one.  Bytes are 0 .. 2 with 2  *)
(* for 0xff, and the word of zeros, which fills the buffer, is a state.    *)
(***************************************************************************)
EXTENDS JournalScan, TLC

MCBytes == 0 .. 2
MCCrc == (0 :> 0) @@ (1 :> 2)
=============================================================================
