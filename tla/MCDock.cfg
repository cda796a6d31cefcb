SPECIFICATION Spec
CONSTANTS
    u = u
    v = v
    x = x
    y = y
    z = z
    d = d
    e = e
    Window = {u, v}
    Class = {x, y, z}
    ClassOf <- Classes
    Desktop = {d, e}
    BaseName <- BaseNames
    NoDesktop = none
    MaxEvents = 4
INVARIANT TypeOK
INVARIANT IdsDistinct
INVARIANT AllFiled
INVARIANT NoGhost
INVARIANT Survives
CHECK_DEADLOCK FALSE
