SPECIFICATION FairSpec
CONSTANTS
  main = main
  test = test
  bogus = bogus
  s1 = s1
  s2 = s2
  None = None
  Networks <- OneNetwork
  Unregistered <- NoUnregistered
  DefaultNetwork = main
  Settings <- MCSettings
  DefaultSettings = s1
  SessionOptions <- MCSessionOptions
  MaxSessions = 4
  InputRoom = 3
PROPERTIES
  ConnectingEnds
CHECK_DEADLOCK FALSE
