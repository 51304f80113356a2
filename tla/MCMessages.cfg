\* InputStream or NetMsgQueue.
CONSTANTS
  \* NetMsgQueue: two threads push, the consumer polls.
  Nobody = Nobody
  Producers = {net, lua}
  Consumer = con
  Nodes = {n1, n2, n3}
  Blocks = {b1, b2}
  Null = Null
  MaxPushes = 4
  \* InputStream: a peer that sends two frames and two bytes of noise.
  HeadSize = 3
  Capacity = 7
  MaxChunk = 7
  Magics = {16, 32}
  Padding = {0, 16}
  Payloads <- MCPayloads
  Noise = {20}
  MaxFrames = 2
  MaxNoise = 2
SPECIFICATION MCSpec
INVARIANTS
  NodesOwnedOnce
  NothingLost
  IInv
  InputTypeOK
  FramesArriveWhole
PROPERTIES
  ImplementsChannel
  EveryBlockHandedOut
  EveryFrameArrives
  AnalyseReturns
