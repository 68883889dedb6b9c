SPECIFICATION Spec
CONSTANTS
    Full = 2
    MinSpeed = 2
    MaxSpeed = 4
    FrontTrim = 1
    RearTrim = 1
    TrimUnit = 2
    TargetZero <- MCTargetZero
    MotionBound = 3
    TopicBound = 1
    HalfTurn = 2
    Gain = 1
    MaxTurn = 1
    Creep = 0
    Requests <- MCMoves
    Yaws = {2}
    Depths = {}
    DirectThrust <- MCDirectFull
    DirectDepth = 0
    Faults = {"respawn", "direct"}
INVARIANTS TypeOK StoppedIsStraight DeathOnlyStops
