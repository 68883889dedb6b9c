SPECIFICATION NodesSpec
CONSTANTS
    Goal = 2
    Patience = 1
    Sightings <- MCSightings
    MaxEnables = 2
    Worker = {w1, w2}
    BumpFirst = "RED"
    BumpSecond = "GREEN"
    MaxPerforms = 2
    Class <- MCClass
    Inherits <- MCInherits
    Brings <- MCBrings
    Activates <- MCActivates
    Topic <- MCTopic
    Messages <- MCMessages
    Initial = "Wait_Button"
    MaxMessages = 3
CHECK_DEADLOCK FALSE
INVARIANTS
    NodesTypeOK
    DisabledIsStill
    ReportsEarned
    EnabledIsServed
    StillForFirst
    SuccessSawSecond
    ListsAreCurrent
    QualifyHasItsState
PROPERTIES
    Watched
    EnabledEnds
    Answered
    RefinesStates
