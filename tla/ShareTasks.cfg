CONSTANTS
  Callers = {c1, c2}
  Blockers = {c2}
  Aborters = {a1}
  Worker = w
  ThreadFails = TRUE
  NoToken = NoToken
  Paths = {p, q}
  Roots = {p}
  Tokens = {t1, t2}
SPECIFICATION LiveSpec
INVARIANT TypeOK
INVARIANT ShareInvariant
PROPERTY RunnerDrains
CHECK_DEADLOCK FALSE
