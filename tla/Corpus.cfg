CONSTANTS
  Paths = {1, 3, 5}
  Inodes = {i1, i2}
  NoInode = NoInode
  MaxLen = 2
  MaxWrites = 1
  Writers = {"truncate", "extend", "replace", "unlink", "link"}
  Dirs = {0, 2, 4}
  Specials = {6}
  Trees <- BothTrees
  LinkSets <- NoLinkOrOne
  Base = 0
  U64Max = 5
  FileLimits = {1, 2}
  TotalLimits = {2, 4, 5}
SPECIFICATION Spec
INVARIANTS
  TypeOK SizesWithinLimits OpenedCorpusHasNoLinks
  RegionSizeIsMappedLength RegionsAreTheFilesInOrder NoFalseAlarm
PROPERTIES Terminates
