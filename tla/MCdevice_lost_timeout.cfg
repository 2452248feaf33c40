CONSTANTS
  s1 = s1
  s2 = s2
  c1 = c1
  Servers <- OneServer
  Clients <- OneClient
  TidMod = 2
  Hooks <- NoHooks
  LinkFaults = FALSE
SPECIFICATION Spec
INVARIANT OpenHasTimeout

