SPECIFICATION BrainSpec
CONSTANTS
    Quiet = {"pressure"}
    MaxPulls = 2
    MaxRequests = 1
    MaxFailures = 1
    MaxReports = 1
CHECK_DEADLOCK FALSE
INVARIANTS
    BrainTypeOK
    RunsArePulled
    IdleIsDisabled
    IdleIsStill
PROPERTIES
    RequestServed
    KillEndsRun
