CONSTANTS
  s1 = s1  s2 = s2  s3 = s3  o1 = o1
  Searches = {s1, s2, s3}
  Owners = {o1}
  NoOwner = NoOwner
  owner <- MCOwner
  priority <- MCPriority
  MinIntervals = {1, 2}
  MaxAge = 3
SPECIFICATION Spec
INVARIANT SearchInvariant
PROPERTY NoOvertaking
PROPERTY HighestLeaves
