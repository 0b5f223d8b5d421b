SPECIFICATION Spec
CONSTANTS
    Controllers = {c1}
    Talkers = {t1, t2}
    Listeners = {me}
    TalkerUids = {0, 1}
    ListenerUids = {0, 1, 2}
    SequenceIds = {1, 2}
    NoEntity = NoEntity
    Me = me
    NumSinks = 2
    MaxInflight = 2
    NoCommand = NoCommand
    Inputs <- MCInputs
INVARIANTS
    TypeOK
    ConnectedSlotIsOwn
PROPERTIES
    SinkLifecycle
    ConnectConsumesCommand
    DisconnectNamesBoundStream
    SuccessMeansBound
    CommandsStable
    ReleaseAnswers
VIEW View
SYMMETRY TalkerSymmetry
