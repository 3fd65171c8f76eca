\* The operator stops clicking: a session may end.
SPECIFICATION MCSpec
CONSTANTS
  PKT_DAT_MAX_LEN = 2
  IAP_ADDR_APP_START = 2
  IAP_PAGE_SIZE = 2
  STC_ROM_SIZE = 6
  SectorSize = 2
  NorSize = 5
  MaxLosses = 2
  MaxFaults = 1
  MaxClicks = 6
  BothClicks = 4
  FlashLosses = 1
  FLASH_EMPTY_SIZE = 4
  NORFLASH_OTA_MASTER_ADDR = 0
  NORFLASH_OTA_BACKUP_ADDR = 1
  OtaInfoSize = 1
  AppAddresses <- MCAppAddresses
  AppInfo <- MCAppInfo
  Crc <- MCCrc
  DataBytes <- MCDataBytes
  OldBytes <- MCOldBytes
  File <- MCFile
  RomRanges <- MCRomRanges
  NorRanges <- MCNorRanges
INVARIANTS OkMeansProgrammed RomShowsChip ReadOkMeansShown CheckTellsFlash CountedIsProgrammed
PROPERTIES FlashReadEnds
CHECK_DEADLOCK FALSE
