CONSTANTS
  c1 = c1  c2 = c2  c3 = c3  c4 = c4
  u1 = u1  u2 = u2  u3 = u3
  Conns = {c1, c2, c3}
  Users = {u1, u2}
  UserOf <- MCUserOf
  Mcn = {c1, c2, c3}
  Nmdc = {}
  MiniSlots = {c1, c2, c3}
  Tokens = {t1}
  SlotCount = 1
  SlotsPerUser = 0
  ExtraSlots = 1
  SmallLimit = 8
  Requests = {"normal"}
  Grants <- MCUserGrants
  Ops = {}
  LowSpeed = TRUE
  MaxAutoOpened = 0
  Wrap = 256
  Delays = {FALSE}
  Leavers = {u2}
SPECIFICATION LiveSpec
INVARIANT McnCounted
PROPERTY WithinSlots
PROPERTY QueueServed
