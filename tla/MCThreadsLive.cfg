\* Gateway or Lifecycle, with fairness; no symmetry.
CONSTANTS
  \* Gateway: two connections.
  Nobody = Nobody
  Net = Net
  Tmr = Tmr
  Con = Con
  Main = Main
  Listen = Listen
  Null = Null
  Garbage = Garbage
  Fds = {1, 2}
  Sessions = {s1, s2}
  Tasks = {k1, k2, k3}
  MaxReads = 1
  MaxConns = 2
  MaxCalls = 0
  MaxData = 1
  \* Lifecycle: one start; room for the log's file, the epoll descriptor, the
  \* listening socket and one connection.
  Numbers = {3, 4, 5, 6}
  NoNumber = NoNumber
  MaxStarts = 1
  MaxEvents = 1
  MaxBlocks = 1
SPECIFICATION MCFairSpec
PROPERTIES
  EndedIsNoticed
  StopEnds
CHECK_DEADLOCK FALSE
