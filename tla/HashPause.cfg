CONSTANTS
  d1 = d1  d2 = d2
  Files = {1, 2}
  Devices = {d1, d2}
  DeviceOf <- MCDeviceOf
  Objects = {o1, o2}
  Callers = {c1}
  Pausers = {p1}
  MaxThreads = 2
  PerVolume = 1
  BaseDirs = {{1}}
  MaxSignals = 1
  MaxPausers = 1
  MaxStops = 0
  NoFile = NoFile
SPECIFICATION Spec
INVARIANT PausedAgree
