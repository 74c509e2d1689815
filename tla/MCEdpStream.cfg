CONSTANTS
  BUFFER_SIZE = 7
  MSS = 7
  PktSize <- MCPktSize
  HeapBlocks = 13
  MaxPkts = 3
SPECIFICATION FairSpec
INVARIANTS HeapLasts Aligned LightFollows NeverBehind
PROPERTIES LagStays ImplementsChannel Obeyed
