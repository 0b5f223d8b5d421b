SPECIFICATION Spec
CONSTANTS
    Registrars = {r1, r2}
    NoDevice = NoDevice
    Mine = mine
    Other = other
    MaxStreams = 2
    SocketBuffer = 2
    Declared = {"asking_failed", "ready"}
INVARIANTS
    TypeOK
    CountsStations
    NobodyKept
    NobodyMissed
CONSTRAINT WhileRunning
SYMMETRY RegistrarSymmetry
