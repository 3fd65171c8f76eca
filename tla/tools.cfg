SPECIFICATION ToolsSpec
CONSTANTS
  ByteBase = 256
  LdrSize = 5
  MetaSize = 6
  E2_MAX_SIZE = 20
  LdrHexes <- MCLdrHexes
  AppHexes <- MCAppHexes
  Fillers = {0, 255}
  AppVersions = {1, 2}
  MaxBuilds = 2
  Default = "default"
  ConfPaths = {"other"}
  MaxItems = 3
INVARIANTS
  MergedIsGood
  ToolsAgree
  OfferedIsBuilt
  OffersAreShown
  CatalogueOnDisk
  RemovedStaysAway
CHECK_DEADLOCK FALSE
