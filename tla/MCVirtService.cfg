CONSTANTS
  VMs = {v1, v2}
  NoVm = NoVm
  MaxReqs = 2
  PoolSize = 1
SPECIFICATION Spec
SYMMETRY Symmetry
CONSTRAINT FewFaults
INVARIANTS RunningIntact AnswerSound LeaksExplained
