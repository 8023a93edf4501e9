SPECIFICATION Spec
CONSTANTS
  ElemSizes = {1, 2, 3, 4}
  MaxUsize = 15
  MaxInput = 12
INVARIANTS AcceptedWhole LengthDecoded NoneMissing
CHECK_DEADLOCK FALSE
