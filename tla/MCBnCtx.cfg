CONSTANTS
  ArraySize <- MCArraySize
  Data <- MCData
SPECIFICATION Spec
INVARIANTS
  TypeOK
  FrameBounds
PROPERTY
  GetInBounds
