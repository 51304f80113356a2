\* One part at a time; the bounds of each are named in its module.
CONSTANTS
  \* RbTree
  Keys = {1, 2, 3, 4, 5}
  Values = {v}
  Nil = Nil
  \* MemPool
  Align = 2
  MaxBytes = 6
  Batch = 2
  Sizes = {1, 4, 6}
  MaxHeld = 3
  MaxMemory = 34
  \* StreamPool
  Borrowers = {consumer, sender}
  Consumer = consumer
  Handles = {h1, h2}
  MaxStreams = 3
  Initial = 1
  MaxData = 2
  \* ByteStream
  Radix = 4
  InitSize = 4
  MaxKept = 12
  Lengths = {0, 1, 2}
  Numbers <- MCNumbers
  Doubles <- MCDoubles
  Floats <- MCFloats
  nil = nil
  Texts <- MCTexts
  MaxCalls = 2
  \* MysqlPool
  Scripts = {t1, t2}
  Results = {r1, r2}
  Conns = {c1, c2, c3}
  None = None
  PoolSize = 1
  Timeout = 3
  \* LogFile
  Writers = {sync, async}
  NoWriter = NoWriter
  MaxFileSize = 0
  MaxRotate = 2
  MaxLines = 4
  MaxDays = 2
  \* SocketSend
  Senders = {s1, s2}
  Length = 3
  MaxFrames = 3
  MaxPeers = 2
  \* ShareMem
  Loaders = {l1, l2}
  Readers = {reader}
  Names = {n1, n2}
  Absent = Absent
  Contents <- MCContents
  Stray = {0, 9}
  Header = 1
  Page = 2
  MaxConfig = 3
  \* LogLine
  LineSize = 7
  Colour <- MCColour
  ColourEnd <- MCColourEnd
  Newline <- MCNewline
  Heads <- MCHeads
  LogTexts <- MCLogTexts
  Keyword = "key"
  Nul = "nul"
SYMMETRY MCPartsSymmetry
SPECIFICATION MCSpec
INVARIANTS
  IsRedBlack
  IterationInOrder
  MemoryPartitioned
  OwnBytesOnly
  BufferHolds
  RoundTrip
  LentOnce
  SlotsComeBack
  LinesInOrder
  OnlyOldestLost
  WholeFrames
  ConfigWhole
  LineWhole
PROPERTIES
  ImplementsMap
CHECK_DEADLOCK FALSE
