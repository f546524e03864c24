-------------------------- MODULE MCFuseProvisioning --------------------------
(***************************************************************************)
(* Instances of FuseProvisioning for TLC: words of two bits, and two key   *)
(* tables that share some words, differ in others and have blank words.    *)
(***************************************************************************)
EXTENDS FuseProvisioning

MCBits == {0, 1}
MCSecureBootEn == {1}
TableA == [w \in Rkth |-> IF w % 3 = 0 THEN {0, 1} ELSE {0}]
TableB == [w \in Rkth |-> IF w % 3 = 0 THEN {} ELSE IF w % 2 = 0 THEN {0} ELSE {1}]
MCKeyTables == {TableA, TableB}
AllBuilds == {TRUE, FALSE}
NonSecure == {FALSE}
=============================================================================
