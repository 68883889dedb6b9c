SPECIFICATION FairSpec
CONSTANTS
    Full = 2
    MinSpeed = 2
    MaxSpeed = 4
    FrontTrim = 1
    RearTrim = 1
    TrimUnit = 2
    TargetZero <- MCTargetZero
    MotionBound = 1
    TopicBound = 1
    HalfTurn = 2
    Gain = 1
    MaxTurn = 1
    Creep = 0
    Requests <- MCThrusts
    Yaws = {}
    Depths = {4}
    DirectThrust <- MCDirect
    DirectDepth = 1
    Faults = {}
INVARIANTS CacheIsLastSent
PROPERTIES ThrustLands
