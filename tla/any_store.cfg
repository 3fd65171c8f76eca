SPECIFICATION AnySpec
CONSTANTS
  NumImages = 2
  NumBlocks = 1
  Size <- MCSize
  Version <- MCVersion
  VersionLimit = 3
  SeqLimit = 4
  MaxSeq = 1
  Mishaps = {}
  MaxMishaps = 0
INVARIANTS StartedIsCurrent
PROPERTIES SparesChosen SecondBootWritesNothing BootEnds
