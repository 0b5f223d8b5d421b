SPECIFICATION FairSpec
CONSTANTS
    Byte = {0, 1}
    Zero = 0
    Silent = Silent
    Grandmasters <- NewIds
    Version = {v1, v2}
    NoValue = NoValue
INVARIANTS
    TypeOK
    StreamInfoWhole
PROPERTIES
    NothingAfterDeparting
    CallsReturn
    TerminateReturns
    HaltIsAnnounced
    GrandmasterAnnounced
