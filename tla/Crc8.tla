-------------------------------- MODULE Crc8 --------------------------------
(***************************************************************************)
(* CRC-8/OPENSAFETY of the crc crate, as state.rs uses it: of one byte.    *)
(* Polynomial 0x2f, zero to start with, nothing reflected.                 *)
(***************************************************************************)
EXTENDS Integers, Bitwise

\* One shift of the register, and n of them.
Shift(r) == LET s == (2 * r) % 256 IN IF r >= 128 THEN s ^^ 47 ELSE s

RECURSIVE Shifts(_, _)
Shifts(r, n) == IF n = 0 THEN r ELSE Shifts(Shift(r), n - 1)

Crc8Checksum == [d \in 0 .. 255 |-> Shifts(d, 8)]
=============================================================================
