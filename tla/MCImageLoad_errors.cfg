\* Whether an image that cannot be booted yields an error.
SPECIFICATION Spec
CONSTANTS
    AddrSpace = 16
    LoadStart = 4
    LoadEnd = 13
    SlotMin = 1
    SlotMax = 10
    SlotSize <- MCSlotSize
    Slots <- MCSlots
    IvtLen = 2
    CertHeaderLen = 1
    RkhsLen = 2
    Headers <- MCHeaders
    Bodies <- MCBodies
    Rkths = {k1, k2}
    NoKey = NoKey
    NoImage = NoImage
    NoSlot = NoSlot
    OverflowChecks = {TRUE, FALSE}
INVARIANTS AbortYieldsError
SYMMETRY KeySymmetry
