SPECIFICATION FairSpec
CONSTANTS
    QSize = 3
    Fills = {2}
    ChanCap = 1
    MaxFills <- MCMaxFills
    ClientFills = 2
    ServerFills = 0
    MaxNotify = 1
    s1 = s1
    Slaves = {s1}
    SlavesOf <- MCSlavesOf
CHECK_DEADLOCK FALSE
PROPERTIES PeerEnds SlavesEnd
