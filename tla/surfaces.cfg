SPECIFICATION SurfacesSpec
CONSTANTS
    TaskIds = {0, 1}
    MaxTasks = 2
    ShellTasks = {s1}
    NULL = NULL
    Refs = {1, 2}
    MaxResources = 2
    Backings = {b1, b2}
    MaxQueue = 1
    PresentChan = 1
    MaxRefs = 2
INVARIANT TaskIdsUnique
SYMMETRY BackingSymmetry
PROPERTIES ImplementsSharing
CHECK_DEADLOCK FALSE
