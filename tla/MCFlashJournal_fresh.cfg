\* Three pages of two words, erased when first used.
SPECIFICATION Spec
CONSTANTS
    Bytes <- MCBytes
    FF <- MCFF
    StateData <- MCStateData
    Crc <- MCCrc
    NoState = NoState
    Capacity = 6
    PageWords = 2
    InitialFlash <- ErasedFlash
    FaultyMedium = FALSE
    CallerRetries = FALSE
INVARIANTS TypeOK CacheCoherent SetInv
PROPERTIES ProgramsOnlyErased ImplementsRegister
