SPECIFICATION Spec
CONSTANTS
    Prelude <- MCPrelude
    Chains <- MCChains
    Prototypes <- MCPrototypes
    Elf <- MCElf
    EntryOffset = 1
    IvtLen = 4
    DataAlign = 4
    CertHeaderLen = 3
    CertLen = 5
    RkhsLen = 7
    HmacLen = 2
    SignatureLen = 6
    RunStart = 10
    Places = {slot0}
    MaxVersion = 2
    MaxLosses = 1
    NoFile = NoFile
    Torn = Torn
INVARIANTS TypeOK FlashAuthenticates ToolInv GeneratedChainVerifies LoaderFindsBlock SegmentsIntact
PROPERTY KeyMaterialKept
