SPECIFICATION FairSpec
CONSTANTS
    a = a
    b = b
    s = s
    Item = {a, b}
    Service = {s}
    ServiceOf <- OneService
    MaxSource = 2
    Changing = {a}
    MaxVersion = 1
    MaxEvents <- FewEvents
INVARIANT TypeOK
INVARIANT RowsMatch
INVARIANT Agreement
CHECK_DEADLOCK FALSE
PROPERTY Appears
PROPERTY Disappears
PROPERTY LastChangeShown
