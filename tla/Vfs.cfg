CONSTANTS
    Archives <- MCArchives
    FsDataSize = 3
    SlotSize = 1
    NodeSize = 4
    MAX_FD = 2
    Paths <- MCPaths
    Chunk = 2
    Reads <- MCReads
    Offsets <- MCOffsets
    PosMod = 16
SPECIFICATION Spec
INVARIANTS MountedComplete DescriptorsAccounted  CwdIsDirectory
PROPERTIES CommandEnds
CHECK_DEADLOCK FALSE
