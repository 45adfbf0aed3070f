CONSTANTS
    WordBits = 4
    MAX_BLOCKS = 3
    KernelPages = 4
    MemorySizes <- MCMemorySizes
    LoadPage = 1
    HeapPages = 4
    Fanout = 4
    Virtuals <- MCVirtuals
    Targets <- MCTargets
    FlagSets <- MCFlagSets
    Counts <- MCCounts
SPECIFICATION Spec
CHECK_DEADLOCK FALSE
INVARIANT HeapReserved
