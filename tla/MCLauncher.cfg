SPECIFICATION Spec
CONSTANTS
    f = f
    g = g
    App = {f, g}
    Rank <- Names
    Thread = {1, 2}
    MaxEvents = 2
INVARIANT TypeOK
INVARIANT Consistent
INVARIANT UpToDate
INVARIANT SavedInTime
CHECK_DEADLOCK FALSE
