SPECIFICATION FairAgentsSpec
CONSTANTS
    Migs = {m1, m2}
    NoMig = NoMig
    MaxTries = 2
    ClientIps = {"127.0.0.1", "dst"}
CHECK_DEADLOCK FALSE
INVARIANTS ForeignKeyExplained
PROPERTIES SessionExclusive ClientsAnswered
