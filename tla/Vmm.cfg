CONSTANTS
    WordBits = 4
    MAX_BLOCKS = 3
    KernelPages = 4
    MemorySizes <- MCMemorySizes
    Fanout = 4
    Virtuals <- MCVirtuals
    Targets <- MCTargets
    FlagSets <- MCFlagSets
    Counts <- MCCounts
SPECIFICATION Spec
INVARIANTS PagesAccounted NoSharedTable IdentityMapped
PROPERTIES RefinesAddressMap
CHECK_DEADLOCK FALSE
