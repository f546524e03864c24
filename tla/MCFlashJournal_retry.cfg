\* A holder that calls set again after it returned an error.
SPECIFICATION Spec
CONSTANTS
    Bytes <- MCBytes
    FF <- MCFF
    StateData <- MCStateData
    Crc <- MCCrc
    NoState = NoState
    Capacity = 4
    PageWords = 2
    InitialFlash <- ErasedFlash
    FaultyMedium = FALSE
    CallerRetries = TRUE
INVARIANTS FirstPageIsFree
