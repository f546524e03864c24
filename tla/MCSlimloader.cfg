\* Any journal, a policy that rejects some states, and reads that fail.
SPECIFICATION FairSpec
CONSTANTS
    Slots <- MCSlots
    SlotA = 0
    SlotB = 1
    Partitions <- MCPartitions
    DefaultState <- TraitDefault
    ValidStates <- TargetExists
    InitialStates <- AnyJournal
    NoState = NoState
    NoSlot = NoSlot
INVARIANTS TypeOK StartedOnce AppKnowsItsSlot BackupIsProven BootInv
PROPERTIES ConfirmsOnlyItself GoodBackupBoots
