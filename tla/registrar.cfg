SPECIFICATION Spec
CONSTANTS
    Client = {c1, c2}
    Key = {k1}
    Value = {v1}
    Nil = Nil
    Blank = Blank
    NoCall = NoCall
    MaxCalls = 2
    MaxTerms = 2
    MayKill = TRUE
SYMMETRY Symmetry
INVARIANTS
    TypeOK
    ExitSaves
    FollowersAgree
PROPERTY RefinesRegister
