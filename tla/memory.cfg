\* Two pages, one page of host memory that can be duplicated or, when mremap fails,
\* copied, commands of up to two ranges of up to two pages: copies and aliases replace
\* one another, and offsets reach past the end, below the base and across it.
SPECIFICATION MemorySpec
CONSTANTS
    Size = 2
    Half = 4
    HostSize = 1
    Shared = {0}
    Data = {0, 1}
    Offsets = {0, 1, 2, 7}
    MaxLen = 2
    MaxRanges = 2
INVARIANTS ReservationHeld
PROPERTIES OutsideUntouched
CHECK_DEADLOCK FALSE
