----------------------------- MODULE MCImageLoad -----------------------------
(***************************************************************************)
(* Instances of ImageLoad for TLC.  The address space has 16 bytes and the *)
(* load range is 4 .. 12; images fit, end exactly at the end of the range, *)
(* cross it, and cross the end of the address space.  An IVT has two       *)
(* bytes, a certificate block header one, the root key hashes two.         *)
(***************************************************************************)
EXTENDS ImageLoad, TLC

MCSlots == 0 .. 3

\* Slot 0 and 1 are normal, 2 is larger than images may be, 3 does not exist.
MCSlotSize == [s \in 0 .. 2 |-> IF s = 2 THEN 10 ELSE 9]

\* One header has the wrong image type.
MCHeaders == [len : {0, 1, 5, 8, 9, 11}, xip : {TRUE}, off : {2, 5, 8},
              ptr : {3, 4, 5, 13, 15}]
             \cup {[len |-> 5, xip |-> FALSE, off |-> 2, ptr |-> 4]}

MCBodies == [hlen : {1, 14}, tlen : {0, 1, 2, 9}, rkth : Rkths, key : Rkths \cup {NoKey}]

\* Key table hashes are only compared with each other.
KeySymmetry == Permutations(Rkths)
=============================================================================
