\* Two pages on a medium that may silently store the wrong byte.
SPECIFICATION FairSpec
CONSTANTS
    Bytes <- FewBytes
    FF <- FewFF
    StateData <- FewStateData
    Crc <- FewCrc
    NoState = NoState
    Capacity = 4
    PageWords = 2
    InitialFlash <- ErasedFlash
    FaultyMedium = TRUE
    CallerRetries = FALSE
INVARIANT OkIsDurable
PROPERTIES SetTerminates
