CONSTANTS
  n1 = n1
  n2 = n2
  Unused = Unused
  NoSpec = NoSpec
  Specs = {s1}
  Nodes <- OneNode
  Rows <- OneNodeRows
  MaxVmNum = 2
  PfNum = 1
  MaxTasks = 3
  MaxCrashes = 1
SPECIFICATION Spec
INVARIANTS TypeOK NoOverlappingCreates CreatingNotRecorded UntrackedExplained OutcomeConsistent
PROPERTY ImplementsLifecycle
