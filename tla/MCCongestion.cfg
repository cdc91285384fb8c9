CONSTANTS
    MSS = 1
    Wrap = 10000
    CubeNum = 1
    CubeDen = 64
    MaxCubicTimeInterval = 0
    HybridStartLowWindow = 5
    HybridStartMinSamples = 2
    MinDelayThreshold = 1
    MaxDelayThreshold = 2
    OliaScale = 2
    Paths = {0, 1, 3, 5}
    Cubic = {0}
    MinCongestionWindow = 2
    MaxCongestionWindow = 8
    MaxBurstBytes = 5
    Bounds <- MCBounds
SPECIFICATION Spec
CHECK_DEADLOCK FALSE
INVARIANTS
    WindowBounds
    NoWrap
PROPERTY
    WindowStands
