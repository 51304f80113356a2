\* Gateway or Lifecycle: safety.
CONSTANTS
  \* Gateway: the four threads with two descriptors, two peers and one
  \* connect_server.
  Nobody = Nobody
  Net = Net
  Tmr = Tmr
  Con = Con
  Main = Main
  Listen = Listen
  Null = Null
  Garbage = Garbage
  Fds = {1, 2}
  Sessions = {s1, s2}
  Tasks = {k1, k2, k3}
  MaxReads = 1
  MaxConns = 2
  MaxCalls = 1
  MaxData = 1
  \* Lifecycle: two starts; room for the log's file, the epoll descriptors, the
  \* listening socket and one connection, two in the first start.
  Numbers = {3, 4, 5, 6}
  NoNumber = NoNumber
  MaxStarts = 2
  MaxEvents = 2
  MaxBlocks = 1
SYMMETRY MCSymmetry
SPECIFICATION MCSpec
INVARIANTS
  TypeOK
  TablesAgree
  NoDangling
  LuaKnowsWhoIsHere
  FindsWhatItNeeds
PROPERTIES
  NoticesInOrder
CHECK_DEADLOCK FALSE
