SPECIFICATION Spec
CONSTANTS
    c1 = c1
    c2 = c2
    Commands = 4
    Controllers = {c1, c2}
    FirstId <- TwoFirstId
    LastId <- TwoLastId
    SinksOf <- TwoSinksOf
    Talker = t1
    Listener = l1
    NoEntity = NoEntity
    TalkerUids = {0, 1}
    ListenerUids = {0, 1}
    NumSinks = 2
    NumSources = 2
    MaxInflight = 2
    NoCommand = NoCommand
    MaxPairs = 9
    CountRange = 16
    Lossy = FALSE
    AsksFirst = TRUE
    NoRequest = NoRequest
CHECK_DEADLOCK FALSE
INVARIANTS
    StationsAgree
    BoundIsListed
