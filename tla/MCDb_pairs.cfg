CONSTANTS
    Dev <- Dev2
    Op <- OneOp
    Doc <- OneDoc
    Doc0 = "doc"
    LocalOps <- OpLocalOps
    UndoData <- OpUndoData
    NewData <- OpNewData
    Skew <- NoSkew
    InitBound <- First
    InitConn <- NoConn
    MaxOps = 1
    MaxPatches = 2
    MaxNow = 1
    FullConn <- Mesh2
    Starts = {TRUE, FALSE}
SPECIFICATION MCFairSpec
CHECK_DEADLOCK FALSE
INVARIANTS TypeOK ClockMatchesPatches PatchesSorted MeshForgetsNothing
PROPERTY MeshReachesAll
