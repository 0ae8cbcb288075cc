SPECIFICATION Spec
CONSTANTS
    x = x
    m = m
    Orders <- MCOrders
    OwnerOf <- MCOwnerOf
    ShapeOf <- MCShapeOf
INVARIANTS
    TypeOK
    SteadyTracking
PROPERTY
    BookKept
CHECK_DEADLOCK TRUE
