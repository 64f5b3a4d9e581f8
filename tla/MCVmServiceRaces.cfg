CONSTANTS
  n1 = n1
  n2 = n2
  Unused = Unused
  NoSpec = NoSpec
  Specs = {s1}
  Nodes <- OneNode
  Rows <- OneNodeRows
  MaxVmNum = 1
  PfNum = 1
  MaxTasks = 4
  MaxCrashes = 1
SPECIFICATION Spec
INVARIANTS RecordedHasInterfaces RecordBacked
