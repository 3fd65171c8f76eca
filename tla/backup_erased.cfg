SPECIFICATION Spec
CONSTANTS
  NumImages = 4
  NumBlocks = 2
  Size <- MCSize
  Version <- MCVersion
  VersionLimit = 4
  SeqLimit = 16
  LinkCapacity = 1
  Mishaps = {"storecut"}
  MaxMishaps = 1
INVARIANTS ErasedBackupIsOlder
