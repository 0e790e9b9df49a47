CONSTANTS
  ByteBits <- MCByteBits
  WordBytes <- MCWordBytes
  AllocWords <- MCAllocWords
  ExtWords <- MCExtWords
  Ext2Words <- MCExt2Words
  MaxRi <- MCMaxRi
  MontValues <- MCMontValues
INIT RedInit
NEXT RedNext
INVARIANTS
  RedTypeOK
  RecpSetRecords
