CONSTANTS
    Dev <- Dev2
    Op <- OneOp
    Doc <- OneDoc
    Doc0 = "doc"
    LocalOps <- OpLocalOps
    UndoData <- OpUndoData
    NewData <- OpNewData
    Skew <- NoSkew
    InitBound <- First
    InitConn <- Mesh2
    MaxOps = 1
    MaxPatches = 2
    MaxNow = 0
    FullConn <- Mesh2
    Starts = {FALSE}
SPECIFICATION MCSpec
CHECK_DEADLOCK FALSE
INVARIANT BaseIsKnown
