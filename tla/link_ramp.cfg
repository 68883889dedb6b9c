SPECIFICATION Spec
CONSTANTS
    MaxByte = 2
    MaxStep = 1
    HeartBeat = 2
    MaxLosses = 1
    MaxInFlight = 2
    Commands <- MCCommands
    Faults = {"loss", "kill", "overload", "crash"}
INVARIANTS TypeOK HBridgeSafe BeliefTracks LabelMatches NoFalseHeartbeat
PROPERTIES OverloadFreezes RefinesThruster
