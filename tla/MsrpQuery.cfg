SPECIFICATION Spec
CONSTANTS
    Registrars = {r1}
    NoDevice = NoDevice
    Mine = mine
    Other = other
    MaxStreams = 2
    SocketBuffer = 2
    Declared = {"asking_failed", "ready"}
INVARIANTS
    QueryFindsTalker
