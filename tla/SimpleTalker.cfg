SPECIFICATION Spec
CONSTANTS
    EntryNum = 3
    FileLength = 4
    IntMax = 5
    FrameNums = {0, 2, 5, 9, 12, 14}
    Thresh = 1
    SequenceNums = 2
INVARIANTS
    TypeOK
    RingConsistent
    SentInOrder
    NumberedInOrder
    SentAtEnd
