CONSTANTS
  Callers = {c1}
  Paths = {p1}
  Inodes = {i1}
  NoInode = NoInode
  MaxLen = 2
  MaxWrites = 2
  Writers = {"truncate", "extend"}
SPECIFICATION SpecOfLongFiles
INVARIANTS SizedMappingHasExpectedSize
