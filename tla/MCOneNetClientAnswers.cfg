CONSTANTS
  MaxCon = 1
  BUFFER_SIZE = 6
  MSS = 3
  PktSize <- MCPktSize
  HeapBlocks = 12
  MaxPkts = 2
SPECIFICATION ClientFairSpec
PROPERTY EveryCommandAnswered
