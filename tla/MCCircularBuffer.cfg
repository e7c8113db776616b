SPECIFICATION Spec
CONSTANTS
  Value = {0, 1}
  S = 3
INVARIANTS
  TypeOK
  PointersAgree
PROPERTY
  DequeSpec
