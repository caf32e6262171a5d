CONSTANTS
  Threads = {t1, t2}
  Managers = {t1}
  KeyViews <- WholeKeys
  ByteViews <- Bytes
  StringViews <- Strings
  MaxRemovals = 1
  MaxLate = 1
  NULL = NULL
SPECIFICATION MCSpec
INVARIANTS TypeOK OneCreator
PROPERTY ImplementsMap
