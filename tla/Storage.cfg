SPECIFICATION Spec
CONSTANTS
  Disk <- MCDisk
  Zero <- MCZero
  Junk <- MCJunk
  BYTE = 22
  WORD = 234256
  HEADS = 1
  SPT = 21
  FAT_PAGE = 2
  DIR_PAGES = 4
  LOOK = 3
  MaxMounts = 3
  MaxHandles = 2
  MaxPosition = 4
INVARIANT SectorsStayInside
INVARIANT GeometryIsOwn
INVARIANT EntriesAreTables
INVARIANT EntriesInOrder
CHECK_DEADLOCK FALSE
