CONSTANTS
  flood = flood
  filter = filter
  shared = shared
  injection = injection
  train = train
  jammer = jammer
  plcA = plcA
  plcB = plcB
  hmi = hmi
  Filters <- BothFilters
  Floods <- JustFlood
  Singles <- JustInjection
  Trains <- JustTrain
  Jammers <- JustJammer
  DeviceOf <- Wired
  Wireless <- JammerAndHandover
  Once <- JustHandover
  Using5G = TRUE
  Pause = 2
  Number = 2
  Interval = 1
  WaveLength = 1
  Duration = 6
  MaxStart = 4
  MaxLength = 3
  Schedules <- Lists
SPECIFICATION Spec
INVARIANTS MessagesAreLabelled HooksFollowSchedule OneChain LogIsTheSchedule
CHECK_DEADLOCK FALSE
