SPECIFICATION Spec
CONSTANTS
    c1 = c1
    c2 = c2
    v1 = v1
    v2 = v2
    Conns = {c1, c2}
    Viewers = {v1, v2}
    ViewerOf <- OwnViewer
    KindOf <- MixedKinds
    MapOrders <- OneOrder
    None = None
    Local = Local
    MaxSize = 2
    LocalAttached = TRUE
    SizedFirst = TRUE
    WritersDie = FALSE
INVARIANTS LockStep
CHECK_DEADLOCK FALSE
