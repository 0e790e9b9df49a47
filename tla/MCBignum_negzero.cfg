CONSTANTS
  ByteBits <- MCByteBits
  WordBytes <- MCWordBytes
  AllocWords <- MCAllocWords
  ExtWords <- MCExtWords
  Ext2Words <- MCExt2Words
  ExtRegs <- MCExtRegs
INIT RegInit
NEXT RegNext
INVARIANTS
  NormaliseClearsSign
