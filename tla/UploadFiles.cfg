CONSTANTS
  c1 = c1  c2 = c2  c3 = c3  c4 = c4
  u1 = u1  u2 = u2  u3 = u3
  Conns = {c1, c3}
  Users = {u1, u2}
  UserOf <- MCUserOf
  Mcn = {c1}
  Nmdc = {c3}
  MiniSlots = {c1, c3}
  Tokens = {t1, t2}
  SlotCount = 1
  SlotsPerUser = 0
  ExtraSlots = 1
  SmallLimit = 0
  Requests = {"normal", "mini", "small"}
  Grants <- MCFileGrants
  Ops = {}
  LowSpeed = FALSE
  MaxAutoOpened = 0
  Wrap = 2
  Delays = {TRUE, FALSE}
  Leavers = {}
SPECIFICATION Spec
INVARIANT TypeOK
INVARIANT UploadInvariant
