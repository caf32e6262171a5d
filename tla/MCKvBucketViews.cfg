CONSTANTS
  Threads = {t1}
  Managers = {}
  KeyViews <- PartialKeys
  ByteViews <- Bytes
  StringViews <- Strings
  MaxRemovals = 1
  MaxLate = 0
  NULL = NULL
SPECIFICATION Spec
INVARIANT PutPlacesItsKey
