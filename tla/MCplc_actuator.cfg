CONSTANTS
  sensor = sensor
  actuator = actuator
  speed = speed
  running = running
  hmi = hmi
  Servers <- JustActuator
  Clients <- Nobody
  TidMod = 4
  Hooks <- NoHooks
  LinkFaults = FALSE
  Sensors <- Nobody
  Refusing <- Nobody
  Targets <- SpeedAndRunning
  Actuator <- OfMotor
  Closing <- JustRunning
  CycleRequests <- CommandMotor
  MaxSample = 1
  Commands = {1, 2}
SPECIFICATION PLCSpec
INVARIANTS LastCommandWins

