CONSTANTS
  sensor = sensor
  actuator = actuator
  speed = speed
  running = running
  hmi = hmi
  Servers <- JustSensor
  Clients <- JustHMI
  TidMod = 2
  Hooks <- AllHooks
  LinkFaults = TRUE
  Sensors <- JustSensor
  Refusing <- Nobody
  Targets <- Nobody
  Actuator <- NoTarget
  Closing <- Nobody
  CycleRequests <- AskSensor
  MaxSample = 2
  Commands = {1}
SPECIFICATION PLCSpec
INVARIANTS PLCInv
PROPERTY EndsOnce

