CONSTANTS
  Threads = {t1, t2}
  Consumers = {t1, t2}
  MaxUpdates = 2
  Reload = FALSE
  NULL = NULL
SPECIFICATION Spec
INVARIANTS TypeOK ExactlyOnce InOrder
PROPERTIES StopWakesNext ImplementsContract
