SPECIFICATION Spec
CONSTANTS
  Capacity = 4
  MinRead = 1
  MaxByte = 7
  MaxSize = 3
INVARIANTS
  ExclusiveAccess
  BytesInOrder
