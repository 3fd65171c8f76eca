SPECIFICATION DriverSpec
CONSTANTS
  RbSize = 8
  LowBase = 2
  WordSize = 32
  MaxPackets = 4
  Lengths = {1, 3, 7}
  MaxBytes = 14
  Ahead = 5
  ByteBase = 16
  HeadByte = 1
  EndByte = 2
  IspBodies <- MCIspBodies
  LdrBodies <- MCLdrBodies
  NoiseBytes = {1, 15}
  MaxNoise = 1
  LoopTurns = 7
  MaxSent = 2
  TestBytes <- MCTestBytes
  MaxFed = 4
  FirstDay = 0
  FirstDate <- MCFirstDate
  LastDay = 49710
  Clocks = {0, 86399}
  Overruns = {1, 59}
  IntMax = 32767
  PageSize = 2
  SectorSize = 4
  NorSize = 8
  MaxCalls = 3
  MaxResets = 2
INVARIANTS
  NeverCut
  WholePackets
  NeverStalls
  WholeAreFound
  CrcsAgree
  DatesAgree
  CallsLand
PROPERTIES
  OneAtATime
  BytesArrive
  FoundCameIn
  NobodyWaits
\* Each part has only so much to send, sum or call.
CHECK_DEADLOCK FALSE
