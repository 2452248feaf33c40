CONSTANTS
  sensor = sensor
  actuator = actuator
  speed = speed
  running = running
  hmi = hmi
  Servers <- JustSensor
  Clients <- Nobody
  TidMod = 3
  Hooks <- DropHook
  LinkFaults = TRUE
  Sensors <- JustSensor
  Refusing <- JustSensor
  Targets <- Nobody
  Actuator <- NoTarget
  Closing <- Nobody
  CycleRequests <- AskSensor
  MaxSample = 2
  Commands = {1}
SPECIFICATION PLCFairSpec

PROPERTIES NewestDataStays SilenceIsDetected
