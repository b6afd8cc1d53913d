\* As rings.cfg: a command of length 3 is CmdExecIndirect2.
SPECIFICATION Spec
CONSTANTS
    Slots = {1}
    Chans = {1}
    StampMod = 16
    MaxStamp = 4
    MaxReplay = 8
    RingSize = 6
    PageSize = 2
    PageMap <- MCPageMap
    PhysSize = 12
    Hdr = 2
    MaxCmd = 3
    DrainMax = 2
    CursorMod = 12
    FirstByte = 7
    Lens = {2, 3, 4}
    ExecLens = {3}
    MaxCmds = 4
    Batch = 2
    MaxBells = 1
    MaxLost = 1
    Faults = {"desc_read", "ring_read", "publish"}
INVARIANTS RaisedAfterDispatch
CHECK_DEADLOCK FALSE
