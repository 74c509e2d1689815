SPECIFICATION Spec
CONSTANTS
  Peers = {b1, b2, b3, b4}
  MaxCon = 3
  NoPeer = nobody
INVARIANTS SlotsComeBack ConfirmationNeverLeaves
PROPERTIES RepliesGoToNewest EndedIsRemoved LoneBrowserServed
