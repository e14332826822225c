CONSTANTS
  Users = {u1}
  McnUsers = {u1}
  LeavingUsers = {u1}
  Tokens = {t1}
  Conns = {c1}
  Hub = Hub
  NoUser = NoUser
  NoToken = NoToken
  FileKinds = {"normal"}
  OwnLimit = 0
  RemoteLimits = {0}
  AttemptLimit = 1
  MaxErrors = 0
  MaxInvites = 1
  MaxEvents = 1
  ProtocolErrors = TRUE
  PeerRepeatsInf = FALSE
SPECIFICATION Spec
INVARIANT TypeOK
INVARIANT OrphanInvariant
PROPERTY NoUnforcedReconnect
PROPERTY ConnectingEnds
