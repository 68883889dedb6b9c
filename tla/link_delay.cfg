SPECIFICATION LiveSpec
CONSTANTS
    MaxByte = 1
    MaxStep = 1
    HeartBeat = 2
    MaxLosses = 0
    MaxInFlight = 2
    Commands <- MCStops
    Faults = {"delay", "kill"}
INVARIANTS KillHolds
PROPERTIES StopObeyed
