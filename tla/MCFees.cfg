\* The sweep ends at the end of each window.
SPECIFICATION Spec
CONSTANTS
    Starts = {1, 4999000, 9999000}
    Width = 2000
    Parts = {1, 27, 28, 54, 270, 1000, 9999}
INVARIANTS FeeIsNearest SplitGainsAtMostOne
PROPERTY FeeMonotone
CHECK_DEADLOCK FALSE
