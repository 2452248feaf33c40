CONSTANTS
  TankCapacity = 17
  Drains = {1}
  Outflow = 2
  BottleBrim = 57
  Variation = 24
  AfterFiller = 50
  Spacing = 80
  MaxSpeed = 4
  LeakTime = 3
  Orders <- JustBeltFirst
  TankMin = 1
  TankMax = 3
  BottleCapacity = 25
  LowSpeed = 2
  MaxAge = 2
  Latency = 0
  Timeout = 6
  Silences <- NoSilence
  MaxOutages = 0
  ScriptSteps = 3
SPECIFICATION FairSpec
INVARIANT TankNeverOverflows
PROPERTY Productive
