SPECIFICATION LiveSpec
CONSTANTS
  Files = {"f", "g"}
  Initial = {"f", "g"}
  Users = {"a"}
  FirstUsers = {"a"}
  Size = 1
  Gens = 2
  Rejected = {"f"}
  BadBundle = TRUE
  Events = {"error","priority","item","source","add","recheck","lose","remove","bundle","share"}
  MaxEvents = 2
INVARIANTS TypeOK   StatusRight
PROPERTY BundleCompletes
CHECK_DEADLOCK FALSE
