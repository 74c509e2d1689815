CONSTANTS
  MaxCon = 1
  BUFFER_SIZE = 6
  MSS = 3
  PktSize <- MCPktSize
  HeapBlocks = 12
  MaxPkts = 3
SPECIFICATION ClientSpec
INVARIANT ClientInv
PROPERTY NoLateAnswer
