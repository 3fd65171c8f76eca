SPECIFICATION Spec
CONSTANTS
  NumImages = 4
  NumBlocks = 2
  Size <- MCSize
  Version <- MCVersion
  VersionLimit = 4
  SeqLimit = 24
  LinkCapacity = 1
  Mishaps = {"cut", "storecut", "torn", "chipcut", "reset", "loss", "norfault", "iapfault", "catalog"}
  MaxMishaps = 3
PROPERTIES KeepsChosenRecord KeepsCurrentSlot
