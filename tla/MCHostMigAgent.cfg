SPECIFICATION FairSpec
CONSTANTS
    v1 = v1
    v2 = v2
    v3 = v3
    Migs = {v1, v2, v3}
    NoMig = NoMig
    NameOf <- MCNameOf
    MaxLen = 3
    MaxConns = 4
CHECK_DEADLOCK FALSE
INVARIANTS  NewestSessionIntact
PROPERTIES ForeignCloseExplained ClientReturns
