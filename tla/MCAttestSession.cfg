SPECIFICATION FairSpec
CONSTANTS
    Options <- MCOptions
    ImaFiles = {"absent", "empty", "ok", "big"}
    LogFiles = {"absent", "empty", "ok", "big"}
    KeyFiles = {"absent", "ok", "long"}
CHECK_DEADLOCK FALSE
INVARIANTS ServerTrustsVerdict SuccessSendsKey MutualWaitExplained StoredKeyExplained
PROPERTIES SessionEnds
