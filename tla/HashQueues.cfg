CONSTANTS
  d1 = d1  d2 = d2
  Files = {1, 2}
  Devices = {d1, d2}
  DeviceOf <- MCDeviceOf
  Objects = {o1, o2}
  Callers = {c1}
  Pausers = {}
  MaxThreads = 2
  PerVolume = 1
  BaseDirs = {{1}}
  MaxSignals = 2
  MaxPausers = 1
  MaxStops = 1
  NoFile = NoFile
SPECIFICATION LiveSpec
INVARIANT TypeOK
INVARIANT HashInvariant
PROPERTY QueueMoves
PROPERTY ShutdownEnds
CHECK_DEADLOCK FALSE
