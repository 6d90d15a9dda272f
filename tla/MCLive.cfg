SPECIFICATION MCSpec
CONSTANTS
  t1 = t1
  k1 = k1
  k2 = k2
  k3 = k3
  None = None
  MaxBuild = 3
  Tabs <- OneTab
  MaxDeploys = 2
INVARIANTS
  ShellServed
PROPERTIES
  TakesOverWithConsent
  ReloadEnds
  PagesSettle
  SlotsFreed
CHECK_DEADLOCK FALSE
