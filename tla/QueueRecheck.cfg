SPECIFICATION Spec
CONSTANTS
  Users = {"a", "b"}
  FullUsers = {"a", "b"}
  BadUsers = {}
  TreelessUsers = {}
  Size = 2
  BlockSize = 1
  MultiChunk = TRUE
  OverlapSlow = FALSE
  MaxSegments = 2
  WantedSizes = {1}
  PartsInfos = {}
  MaxFails = 1
  Events = {"recheck"}
  MaxEvents = 1
  Damaged = {}
  RecheckUnfinished = TRUE
INVARIANT DoneIsRight
CHECK_DEADLOCK FALSE
