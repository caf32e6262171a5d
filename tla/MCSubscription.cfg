CONSTANTS
  Threads = {t1, t2}
  Consumers = {t1}
  Controllers = {t2}
  MaxMsgs = 2
  Reload = FALSE
SPECIFICATION Spec
INVARIANTS TypeOK NothingLost DrainTold
PROPERTIES AtMostMax EndWakesCallers
