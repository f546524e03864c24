\* Every word and every State.
SPECIFICATION Spec
CONSTANT Checksum <- Crc8Checksum
INVARIANTS FieldsSurvive TornIsNoState AgreesWithLayout
