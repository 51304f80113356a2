\* The timer of MCBackground.cfg, with a longer time.
CONSTANTS
  Nobody = Nobody
  Tmr = Tmr
  Clients = {Main}
  Tasks = {k1, k2}
  Null = Null
  Delays = {0, 1}
  Periods = {0, 1}
  Second = 2
  StartTime = 2
  EndTime = 5
  AgesAgo = 2
  MaxTimers = 3
SPECIFICATION MCSpec
INVARIANT LateTasksSkip
CHECK_DEADLOCK FALSE
