CONSTANTS
  s1 = s1
  s2 = s2
  c1 = c1
  Servers <- TwoServers
  Clients <- NoClients
  TidMod = 2
  Hooks <- AllHooks
  LinkFaults = TRUE
SPECIFICATION FairSpec
INVARIANTS TypeOK NoOrphanResponse OpenHasTimeout
PROPERTY EveryRequestEnds
