---------------------------- MODULE MCStateCodec ----------------------------
(***************************************************************************)
(* The codec with the checksum of the code.                                *)
(***************************************************************************)
EXTENDS StateCodec, Crc8
=============================================================================
