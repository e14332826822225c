SPECIFICATION LiveSpec
CONSTANTS
  Users = {"a","b"}
  FullUsers = {"a", "b"}
  BadUsers = {"b"}
  TreelessUsers = {"a"}
  Size = 3
  BlockSize = 2
  MultiChunk = TRUE
  OverlapSlow = FALSE
  MaxSegments = 2
  WantedSizes = {2, 4}
  PartsInfos <- MCParts
  MaxFails = 1
  Events = {"parts","source","pause","resume","remove","delete","recheck","damage","readerror"}
  MaxEvents = 2
  Damaged = {1}
  RecheckUnfinished = FALSE
INVARIANTS TypeOK  Consolidated DoneIsRight NoDangling
PROPERTY  AskedOfParts FileCompletes
CHECK_DEADLOCK FALSE
