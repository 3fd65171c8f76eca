SPECIFICATION Spec
CONSTANTS
  NumImages = 4
  NumBlocks = 2
  Size <- MCSize
  Version <- MCVersion
  VersionLimit = 4
  SeqLimit = 24
  LinkCapacity = 2
  Mishaps = {"cut", "storecut", "chipcut", "reset", "norfault", "loss", "late", "catalog", "suspend", "reflash"}
  MaxMishaps = 3
INVARIANTS TypeOK CurrentLoadable FactoryLoadable AppliedIsChosen LostOnlyIfInvalid RunsCurrent
PROPERTIES UpdatesAtomically
