CONSTANTS
  ArraySize <- MCArraySize
  Data <- MCData
  MaxDepth <- MCMaxDepth
  MaxHeld <- MCMaxHeldUnbounded
  EndExtTags <- MCEndExtTags
INIT ClientInit
NEXT ClientNext
INVARIANTS
  ClearedAtRest
