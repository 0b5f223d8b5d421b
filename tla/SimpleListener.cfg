\* The program ends, and waits for packets when the talker has no more.
CHECK_DEADLOCK FALSE
SPECIFICATION Spec
CONSTANTS
    EntryNum = 4
    Packets = 6
    IntMax = 5
    FrameNums = {0, 2, 5, 9, 12, 14}
    Thresh = 2
    SequenceNums = 3
INVARIANTS
    TypeOK
    FileIsStream
    FramesAtEnd
