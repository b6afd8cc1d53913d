SPECIFICATION ExecSpec
CONSTANTS
    MaxWords = 8
    Words = {0, 2, 3, 4, 5}
    MaxRes = 1
    PageSize = 4
    Fanout = 2
    MaxLevels = 4
    Tables <- MCTables
    Ram = {0, 2, 4, 5}
    VAs = {2, 7}
    Lengths = {0, 3, 6}
    MaxExec = 6
    Scratch = 2
    HeapUnit = 4
    SlotWords = 3
    Wrap = 64
    HeapPfn = 1
    Ids = {0, 1}
    Functions = {4, 5, 6}
    Bodies = {4, 11}
    Offsets = {0, 1, 62}
    Objects <- MCObjects
    Descs <- MCDescs
    Attrs <- MCAttrs
    Strides <- MCStrides
    PairWindow = 4
    MinTotal = 2
    RefCap = 3
    AttrCap = 2
    MaxLib = 6
INVARIANTS ReadsFollowTheTree StaysInBuffers DescriptorScans ReadsInside
PROPERTIES WalkEnds
CHECK_DEADLOCK FALSE
