SPECIFICATION Spec
CONSTANTS
    Controllers = {c1}
    Talkers = {me}
    Listeners = {l1, l2}
    TalkerUids = {0, 1}
    ListenerUids = {0, 1}
    SequenceIds = {1}
    NoEntity = NoEntity
    Me = me
    NumSources = 1
    MaxPairs = 4
    CountRange = 8
    Allocations = {TRUE, FALSE}
    Inputs <- MCInputs
INVARIANTS
    TypeOK
    FreedBehindLive
PROPERTIES
    ListenersLeaveByOwnCommand
    CountFallsForKnownListener
VIEW View
SYMMETRY ListenerSymmetry
CHECK_DEADLOCK FALSE
