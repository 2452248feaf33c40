CONSTANTS
  sensor = sensor
  actuator = actuator
  leak = leak
  level = level
  position = position
  Devices <- SensorAndActuator
  DiscreteNames <- JustLeak
  InputNames <- LevelAndPosition
  CoilCount = 9
  RegisterCount = 2
  Readings = {258}
  ClientRequests <- OneRegisterAtATime
  StrayBytes = {0}
  Absent = Absent
SPECIFICATION Spec
INVARIANT AddressesFit
PROPERTY ServesMemory
