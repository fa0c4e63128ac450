CONSTANTS
    d = d
    f = f
    overlay = overlay
    empty = empty
    x = x
    y = y
    Name <- MCName
    Path <- MCPath
    NumLowers = 2
    Tag <- MCTag
    Fresh <- MCFresh
    Walk <- MCWalk
    Sidecar <- MCSidecar
    Data <- MCData
    Empty = empty
    NewData <- MCNewData
    MaxTime = 2
    MaxPacks = 2
    MaxUnpacks = 2
    Starts <- MCStarts
SPECIFICATION Spec
INVARIANTS
    AcceptedImageIsWhole
    UnpackRestores
    DifferentialRestores
PROPERTY SidecarKept
CHECK_DEADLOCK FALSE
