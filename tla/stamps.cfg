\* Two slots, stamps 0..2 and one replay per slot; no cell comes near the 2^w - 1 wrap.
SPECIFICATION StampsFairSpec
CONSTANTS
    Slots = {0, 1}
    StampMod = 8
    MaxStamp = 2
    MaxReplay = 1
    Faults = {}
INVARIANTS NoLostWakeup CellBound
PROPERTIES StampNeverRegresses CompletionReachesGuest
CHECK_DEADLOCK FALSE
