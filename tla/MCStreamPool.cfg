\* The same instance as in MCParts.cfg.
CONSTANTS
  Borrowers = {consumer, sender}
  Consumer = consumer
  Handles = {h1, h2}
  MaxStreams = 3
  Initial = 1
  MaxData = 2
SPECIFICATION PoolSpec
INVARIANT FreedOnce
CHECK_DEADLOCK FALSE
