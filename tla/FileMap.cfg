CONSTANTS
  Callers = {c1, c2}
  Paths = {p1}
  Inodes = {i1, i2}
  NoInode = NoInode
  MaxLen = 2
  MaxWrites = 3
  Writers = {"truncate", "extend", "replace", "unlink"}
SPECIFICATION Spec
SYMMETRY Symmetry
INVARIANTS TypeOK StatMapAgreement SizedMappingOfGrowingFile NoFalseAlarm
PROPERTIES UnbackedOnlyByTruncation
