SPECIFICATION FairSpec
CONSTANTS
    c1 = c1
    c2 = c2
    Commands = 2
    Controllers = {c1}
    FirstId <- OneFirstId
    LastId <- OneLastId
    SinksOf <- OneSinksOf
    Talker = t1
    Listener = l1
    NoEntity = NoEntity
    TalkerUids = {0, 1}
    ListenerUids = {0, 1}
    NumSinks = 2
    NumSources = 1
    MaxInflight = 1
    NoCommand = NoCommand
    MaxPairs = 9
    CountRange = 16
    Lossy = TRUE
    AsksFirst = FALSE
    NoRequest = NoRequest
CHECK_DEADLOCK FALSE
PROPERTIES
    RequestAnswered
