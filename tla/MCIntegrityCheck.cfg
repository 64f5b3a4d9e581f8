SPECIFICATION Spec
CONSTANTS
    QSize = 3
    Fills = {1, 2, 3}
    ChanCap = 1
    MaxFills <- MCMaxFills
    ClientFills = 3
    ServerFills = 2
    MaxNotify = 1
    s1 = s1
    Slaves = {}
    SlavesOf <- MCSlavesOf
CHECK_DEADLOCK FALSE
INVARIANTS RoomWhenCopied FramingKept CloseAfterData MutualBlockOnlyMidFrame
