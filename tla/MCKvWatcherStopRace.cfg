CONSTANTS
  Threads = {t1, t2}
  Consumers = {t1}
  MaxUpdates = 2
  Reload = FALSE
  NULL = NULL
SPECIFICATION Spec
INVARIANT StopEndsNext
