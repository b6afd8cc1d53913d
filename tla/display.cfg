\* Two displays in the timer's loop and display 2 beyond the table; two pages, so that
\* setups move a display or alias two of them; one failing access.  The code's hold of
\* 8 settle periods; two readbacks fail.  A GPU that may be later than any timeout, two
\* submissions at a time; two calls fail or waits time out.  Two calls fail while
\* the drain and the tick use the render target.
SPECIFICATION DisplaySpec
CONSTANTS
    Displays = {0, 1, 2}
    TimerDisplays = 2
    SetupDisplays = 2
    Pages = {1, 2}
    MaxFaults = 1
    HoldMax = 8
    MaxLost = 2
    Late = TRUE
    QueueMax = 2
    MaxFailures = 2
    MaxBroken = 2
INVARIANTS AnnouncedOnce NothingFreedEarly NothingLeaks RtLayoutTracked
PROPERTIES InterruptFindsEvent EnabledIsAnnounced StillPresents LastFrameShown
CHECK_DEADLOCK FALSE
