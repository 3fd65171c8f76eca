SPECIFICATION LinkSpec
CONSTANTS
  ByteBase = 16
  HeadByte = 1
  EndByte = 2
  IspBodies <- MCIspBodies
  LdrBodies <- MCLdrBodies
  NoiseBytes = {1, 15}
  MaxNoise = 1
  LoopTurns = 4
  MaxSent = 3
PROPERTY TimeoutMeansSilence
CHECK_DEADLOCK FALSE
