CONSTANTS
    HeapSize = 21
    HeaderSize = 3
    AlignSize = 2
    SizeMod = 32
    Requests <- MCRequests
    Alignments <- MCAlignments
    Counts <- MCCounts
SPECIFICATION Spec
INVARIANTS TypeOK Tiling HeldBacked Coalesced NoFalseExhaustion
PROPERTIES StaysExhausted RefinesAllocator MergeEnds
