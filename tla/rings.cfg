\* One channel, a ring of three pages of two units, headers of two units, four
\* commands of length 2, 3 or (malformed) 4: headers and bodies straddle pages,
\* the ring end and the wrap of the cursors (mod 12).
SPECIFICATION FairSpec
CONSTANTS
    Slots = {1}
    Chans = {1}
    StampMod = 16
    MaxStamp = 4
    MaxReplay = 8
    RingSize = 6
    PageSize = 2
    PageMap <- MCPageMap
    PhysSize = 12
    Hdr = 2
    MaxCmd = 3
    DrainMax = 2
    CursorMod = 12
    FirstByte = 7
    Lens = {2, 3, 4}
    ExecLens = {3}
    MaxCmds = 4
    Batch = 2
    MaxBells = 1
    MaxLost = 1
    Faults = {"desc_read", "ring_read", "publish"}
INVARIANT ExactlyOnce
PROPERTIES ImplementsStream EverythingDrained
CHECK_DEADLOCK FALSE
