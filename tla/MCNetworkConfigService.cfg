CONSTANTS
  n1 = n1
  n2 = n2
  Unused = Unused
  Nodes <- MCNodes
  Rows <- MCRows
  Uploads <- MCUploads
  MaxVmNum = 3
  PfNum = 2
SPECIFICATION Spec
PROPERTY AllocationShape
PROPERTY UsedRowsStay
