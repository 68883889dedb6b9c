SPECIFICATION Spec
CONSTANTS
    Client = {c1}
    Key = {k1}
    Value = {v1}
    Nil = Nil
    Blank = Blank
    NoCall = NoCall
    MaxCalls = 1
    MaxTerms = 1
    MayKill = TRUE
INVARIANT AtexitAlwaysWorks
