SPECIFICATION EncSpec
CONSTANTS
    MinPfn = 1
    MaxPfn = 2
    PageWords = 4
    Wide = 16
    Word = 16
    PerKind = 2
    Programs <- MCPrograms
    Slots = {0, 1}
    FragBase = 2
    Formats = {1, 2}
    Target <- MCTarget
    MaxRect = 6
    Rects <- MCRects
    LayoutFails = FALSE
INVARIANT InterleavedIsPacked
CHECK_DEADLOCK FALSE
