SPECIFICATION Spec
CONSTANTS
  ReadyTasks = {t1, t2}
  Receivers = {r1, r2}
  Workers = {w1, w2}
  BatchSize = 1
  ScheduleThreshold = 2
  NotifierSize = 1
  NULL = NULL
PROPERTIES BacklogTaken ShutdownCompletes
CHECK_DEADLOCK FALSE
