CONSTANTS
  Paths = {1}
  Inodes = {i1}
  NoInode = NoInode
  MaxLen = 2
  MaxWrites = 2
  Writers = {"truncate", "extend"}
  Dirs = {0}
  Specials = {}
  Trees <- OneFile
  LinkSets <- NoLinks
  Base = 0
  U64Max = 6
  FileLimits = {2}
  TotalLimits = {1}
SPECIFICATION Spec
INVARIANTS MappedBytesWithinLimit
