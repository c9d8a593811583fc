CONSTANTS
    Dev <- Dev3
    Op <- AnyOp
    Doc <- AnyDoc
    Doc0 <- NoText
    LocalOps <- StrLocalOps
    UndoData <- StrUndoData
    NewData <- StrNewData
    Skew <- FirstAhead
    InitBound <- Dev3
    InitConn <- Mesh3
    MaxOps = 1
    MaxPatches = 2
    MaxNow = 0
    Text0 <- Ab
    Chars <- XY
    MaxText = 4
    WithRemove = FALSE
    Grants = {}
    Letters <- Marks
    Documents <- OneText
    MyTexts <- Mine
    TheirTexts <- Theirs
    PairGrants <- PairSets
SPECIFICATION MCTestSpec
CHECK_DEADLOCK FALSE
INVARIANT SameText
