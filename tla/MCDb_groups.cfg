CONSTANTS
    Dev <- Dev3
    Op <- OneOp
    Doc <- OneDoc
    Doc0 = "doc"
    LocalOps <- OpLocalOps
    UndoData <- OpUndoData
    NewData <- OpNewData
    Skew <- FirstAhead
    InitBound <- Dev3
    InitConn <- Chain3
    MaxOps = 1
    MaxPatches = 1
    MaxNow = 2
    FullConn <- Mesh3
    Starts = {FALSE}
SPECIFICATION MCSpec
CHECK_DEADLOCK FALSE
INVARIANTS SameOrder BaseIsKnown ServedAreUpToDate UnkIsUnknown
PROPERTY ImplementsReplicatedLog
