SPECIFICATION LiveSpec
CONSTANTS
    MaxByte = 1
    MaxStep = 1
    HeartBeat = 2
    MaxLosses = 1
    MaxInFlight = 2
    Commands <- MCCommands
    Faults = {"loss", "crash", "kill"}
PROPERTIES StopsWithoutHost Converges
