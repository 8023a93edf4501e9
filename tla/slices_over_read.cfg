SPECIFICATION Spec
CONSTANTS
  ElemSizes = {2}
  MaxUsize = 15
  MaxInput = 12
INVARIANT CountIterated
CHECK_DEADLOCK FALSE
