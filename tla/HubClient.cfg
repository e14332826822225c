SPECIFICATION LiveSpec
CONSTANTS
  Socks = {s1, s2}
  Null = Null
  Events = {"untrusted", "reconnect", "close", "thread", "protect", "quit", "redirect", "leave", "forbid", "hbri"}
  MaxEvents = 1
  MaxInfo = 2
INVARIANTS TypeOK OneSocket NoGhosts
PROPERTIES InfoReaches Reconnects CloseEnds
CHECK_DEADLOCK FALSE
