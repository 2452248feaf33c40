CONSTANTS
  s1 = s1
  s2 = s2
  c1 = c1
  Servers <- OneServer
  Clients <- NoClients
  TidMod = 2
  Hooks <- NoHooks
  LinkFaults = TRUE
SPECIFICATION Spec
INVARIANT ConnectedMeansOpen

