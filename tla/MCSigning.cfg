SPECIFICATION Spec
CONSTANTS
  a = a
  None = None
  MaxSessions = 1
  MaxSigners = 1
  Inputs <- OneInput
  SigningKeys <- TwoKeys
  NeedsAck = TRUE
  MaxReviews = 1
  MaxRefresh = 1
  MaxOps = 1
  FormSessions = 2
  FormKeys <- OneKey
  FormReviews = 2
  FormOps = 2
  FeedSessions = 2
  FeedSigners = 3
  MaxGeneration = 2
INVARIANTS
  OutcomesKept
  SecretsDropped
  KeysOfConnected
PROPERTIES
  WritesApproved
  FeedsSigners
CHECK_DEADLOCK FALSE
