CONSTANTS
  l1 = l1
  w1 = w1
  Launcher = {l1, w1}
  Wrapped = {w1}
  Heartbeat = 1
  AttachTimeout = 1
  IdleExit = 5
  MaxSpawn = 2
  Master = {1, 2}
  MaxCommands = 4
  MaxMishaps = 2
SPECIFICATION TakeoverSpec
INVARIANT StoppedSetupReverts
