SPECIFICATION FairSpec
CONSTANTS
  main = main
  test = test
  bogus = bogus
  s1 = s1
  s2 = s2
  None = None
  Networks <- MCNetworks
  Unregistered <- NoUnregistered
  DefaultNetwork = test
  Settings <- OneSetting
  DefaultSettings = s1
  SessionOptions <- MCSessionOptions
  MaxSessions = 3
  InputRoom = 2
PROPERTIES
  RetireStartsSession
CHECK_DEADLOCK FALSE
