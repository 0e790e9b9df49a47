CONSTANTS
  ByteBits <- MCByteBits
  WordBytes <- MCWordBytes
  AllocWords <- MCAllocWords
  ExtWords <- MCExtWords
  Ext2Words <- MCExt2Words
  ExtRegs <- MCExtRegsTwo
INIT RegInit
NEXT RegNext
INVARIANTS
  SwapExchanges
