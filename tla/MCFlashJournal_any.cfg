\* Two pages of two words that hold anything when first used.
SPECIFICATION Spec
CONSTANTS
    Bytes <- MCBytes
    FF <- MCFF
    StateData <- MCStateData
    Crc <- MCCrc
    NoState = NoState
    Capacity = 4
    PageWords = 2
    InitialFlash <- AnyFlash
    FaultyMedium = FALSE
    CallerRetries = FALSE
INVARIANTS OldOrNew ReadbackSucceeds
