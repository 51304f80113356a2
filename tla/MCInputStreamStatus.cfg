\* A peer whose heads may have the compression bit set.
CONSTANTS
  HeadSize = 3
  Capacity = 7
  MaxChunk = 7
  Magics = {16, 17}
  Padding = {0, 16}
  Payloads <- MCPayloads
  Noise = {20}
  MaxFrames = 2
  MaxNoise = 2
SPECIFICATION InputFairSpec
PROPERTY AnalyseReturns
CHECK_DEADLOCK FALSE
