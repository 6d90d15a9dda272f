SPECIFICATION Spec
CONSTANTS
  proved = proved
  None = None
  MaxSessions = 2
  Keys <- OneKey
  ProofKeys <- OneKey
  Errors <- MCErrors
  MaxCalls = 2
  MaxEvents = 1
INVARIANTS
  FreshAfterWrite
  EvidenceOfLatest
  NoVerificationMasked
PROPERTIES
  RetiredSessionsSilent
CHECK_DEADLOCK FALSE
