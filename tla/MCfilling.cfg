CONSTANTS
  TankCapacity = 18
  Drains = {0}
  Outflow = 2
  BottleBrim = 57
  Variation = 24
  AfterFiller = 32
  Spacing = 64
  MaxSpeed = 4
  LeakTime = 3
  Orders <- JustTankFirst
  TankMin = 2
  TankMax = 4
  BottleCapacity = 25
  LowSpeed = 2
  MaxAge = 2
  Latency = 0
  Timeout = 6
  Silences <- OneSilent
  MaxOutages = 1
  ScriptSteps = 0
SPECIFICATION Spec
INVARIANT NothingSpilled
PROPERTY OnlyFullBottlesLeave
