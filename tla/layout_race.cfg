\* No call fails.
SPECIFICATION LayoutSpec
CONSTANT MaxBroken = 0
INVARIANT BarriersNameLayout
