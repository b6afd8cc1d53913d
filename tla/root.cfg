\* Headers of two units in a ring of seven, so they wrap; a command of length 4 is
\* malformed, one of length 3 may be CmdExecIndirect2; the guest reboots once.  At most
\* one stamp is completed twice or by a torn command of the second boot (MaxReplay).
SPECIFICATION RootSpec
CONSTANTS
    Slots = {0}
    StampMod = 8
    MaxStamp = 3
    MaxReplay = 1
    RingSize = 7
    DefaultSize = 9
    PageSize = 2
    Pfn = 1
    StartOffset = 1
    MemSize = 16
    Hdr = 2
    MaxCmd = 3
    DrainMax = 2
    Lens = {3, 4}
    ExecLens = {3}
    MaxCmds = 3
    Batch = 2
    MaxBoots = 2
    Faults = {"ring_read"}
INVARIANTS GeometryAgrees RootExactlyOnce
PROPERTIES RootDrained
CHECK_DEADLOCK FALSE
