SPECIFICATION Spec
CONSTANTS
  ReadyTasks = {t1, t2, t3, t4}
  Receivers = {r1, r2}
  Workers = {w1, w2}
  BatchSize = 2
  ScheduleThreshold = 2
  NotifierSize = 1
  NULL = NULL
INVARIANTS TypeOK ListIsQueue BatchesAreLinked CountersCountThreads
CHECK_DEADLOCK FALSE
PROPERTIES ImplementsBatchQueue
SYMMETRY Symmetry
