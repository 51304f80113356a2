\* AsyncLog or Timer.
CONSTANTS
  \* AsyncLog: two loggers, a ring of four bytes and lines that fit, fill it or
  \* do not fit.
  Loggers = {a, b}
  NoLogger = NoLogger
  Size = 4
  PollSize = 2
  Lengths = {1, 3, 5}
  MaxBytes = 7
  \* Timer: the timer thread and one other thread that runs scripts; a second of
  \* two milliseconds, in a year that is later than the first second of 1970.
  Nobody = Nobody
  Tmr = Tmr
  Clients = {Main}
  Tasks = {k1, k2}
  Null = Null
  Delays = {0, 1}
  Periods = {0, 1}
  Second = 2
  StartTime = 2
  EndTime = 4
  AgesAgo = 2
  MaxTimers = 2
SPECIFICATION MCSpec
INVARIANTS
  TypeOK
  BytesInOrder
  RingHolds
  TimerTypeOK
  Sorted
  TasksOwnedOnce
PROPERTIES
  EveryByteWritten
  FiresAsAsked
  DueTimersFire
CHECK_DEADLOCK FALSE
