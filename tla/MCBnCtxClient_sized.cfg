CONSTANTS
  ArraySize <- MCArraySize
  Data <- MCData
  MaxDepth <- MCMaxDepth
  MaxHeld <- MCMaxHeldSized
  EndExtTags <- MCEndExtTags
INIT ClientInit
NEXT ClientNext
INVARIANTS
  ClearedAtRest
  NoStackOverrun
PROPERTIES
  ImplementsScopes
