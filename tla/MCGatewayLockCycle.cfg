\* The instance of MCGateway.cfg with a third peer in place of the call.
CONSTANTS
  Nobody = Nobody
  Net = Net
  Tmr = Tmr
  Con = Con
  Main = Main
  Listen = Listen
  Null = Null
  Garbage = Garbage
  Fds = {1, 2}
  Sessions = {s1, s2}
  Tasks = {k1, k2, k3}
  MaxReads = 1
  MaxConns = 3
  MaxCalls = 0
  MaxData = 1
SYMMETRY MCSymmetry
SPECIFICATION Spec
INVARIANT NoLockCycle
CHECK_DEADLOCK FALSE
