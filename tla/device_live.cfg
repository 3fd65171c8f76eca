SPECIFICATION FairSpec
CONSTANTS
  NumImages = 4
  NumBlocks = 2
  Size <- MCSize
  Version <- MCVersion
  VersionLimit = 4
  SeqLimit = 24
  LinkCapacity = 1
  Mishaps = {"cut", "reset", "norfault", "loss", "late", "suspend"}
  MaxMishaps = 2
PROPERTIES NewestArrives AppliedRuns
