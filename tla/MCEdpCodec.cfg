SPECIFICATION Spec
CONSTANTS
  BUFFER_SIZE = 256
  MaxMsgs = 2
  Segments <- MCSegments
  Ids <- MCIds
  Bodies <- MCBodies
  src_dev <- MCsrc_dev
  dst_dev <- MCdst_dev
INVARIANTS FrameInv SendsOneFrame
PROPERTIES AnswersTheCommand ImplementsChannel
