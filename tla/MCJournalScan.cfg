\* Every content of five words, in blocks of two.
SPECIFICATION Spec
CONSTANTS
    Bytes <- MCBytes
    FF = 2
    StateData = {0, 1}
    Crc <- MCCrc
    NoState = NoState
    Capacity = 5
    PageWords = 2
    BlockWords = 2
    Zero = 0
INVARIANTS FindsNewest ScanInv
PROPERTIES ScanTerminates
CHECK_DEADLOCK FALSE
