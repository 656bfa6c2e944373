SPECIFICATION FairSpec
CONSTANTS
    c1 = c1
    c2 = c2
    v1 = v1
    v2 = v2
    Conns = {c1, c2}
    Viewers = {v1, v2}
    ViewerOf <- OwnViewer
    KindOf <- MixedKinds
    MapOrders <- OneOrder
    None = None
    Local = Local
    MaxSize = 1
    LocalAttached = FALSE
    SizedFirst = TRUE
    WritersDie = FALSE
PROPERTIES JiggleCompletes
CHECK_DEADLOCK FALSE
