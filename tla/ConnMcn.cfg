CONSTANTS
  Users = {u1}
  McnUsers = {u1}
  LeavingUsers = {}
  Tokens = {t1, t2}
  Conns = {c1}
  Hub = Hub
  NoUser = NoUser
  NoToken = NoToken
  FileKinds = {"normal"}
  OwnLimit = 0
  RemoteLimits = {0}
  AttemptLimit = 1
  MaxErrors = 0
  MaxInvites = 1
  MaxEvents = 1
  ProtocolErrors = FALSE
  PeerRepeatsInf = FALSE
SPECIFICATION Spec
SYMMETRY TokenSymmetry
INVARIANT NoOrphanItem
