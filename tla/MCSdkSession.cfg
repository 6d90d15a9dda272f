SPECIFICATION Spec
CONSTANTS
  main = main
  test = test
  bogus = bogus
  s1 = s1
  s2 = s2
  None = None
  Networks <- MCNetworks
  Unregistered <- MCUnregistered
  DefaultNetwork = bogus
  Settings <- OneSetting
  DefaultSettings = s1
  SessionOptions <- MCSessionOptions
  MaxSessions = 4
  InputRoom = 3
INVARIANTS
  SingleLiveAttempt
  PublishedIsCurrent
  ViewMatchesSelection
  NoUseAfterFree
PROPERTIES
  KeptOnlyIfPublished
  FeedsSessions
CHECK_DEADLOCK FALSE
