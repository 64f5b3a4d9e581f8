CONSTANTS
  n1 = n1
  n2 = n2
  Unused = Unused
  NoSpec = NoSpec
  Specs = {s1}
  Nodes <- TwoNodes
  Rows <- OneNodeRows
  MaxVmNum = 1
  PfNum = 1
  MaxTasks = 3
  MaxCrashes = 1
SPECIFICATION FairSpec
INVARIANT InterfacesAccounted
PROPERTY EveryTaskEnds
