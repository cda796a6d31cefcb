SPECIFICATION Spec
CONSTANTS
    f1 = f1
    f2 = f2
    f3 = f3
    File = {f1, f2, f3}
    Stripe = {1, 3}
    MaxPlace = 6
SYMMETRY Symmetry
INVARIANT OnePlaceEach
INVARIANT Undone
PROPERTY PlacesKept
