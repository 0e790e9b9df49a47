CONSTANTS
  ArraySize <- MCArraySize
  Data <- MCData
  MaxDepth <- MCMaxDepth
  MaxHeld <- MCMaxHeldSized
  EndExtTags <- MCEndExtTagsAll
INIT ClientInit
NEXT ClientNext
INVARIANTS
  ClearedAtRest
