CONSTANTS
  FatStart = 1
  FatSectors = 3
  NumFats = 2
  BytesPerSec = 8
  SecPerClus = 2
  LastCluster = 5
  LastSector = 14
  FAT32_EOC = 8
  FatMask = 9
  LbaLimit = 16
  BufLen = 24
  MaxLate = 1
  Volumes <- MCVolumes
SPECIFICATION Spec
INVARIANTS
  FileDataOnly
  FoundIsThere
PROPERTY
  CallsReturn
