SPECIFICATION Spec
CONSTANTS
  d1 = d1
  d2 = d2
  c1 = c1
  c2 = c2
  a1 = a1
  a2 = a2
  Docs = {d1, d2}
  Prices = {1}
  MaxRevision = 2
  Contracts = {c1, c2}
  MaxVersion = 3
  Actions = {a1, a2}
  MaxHeight = 3
  Attempts = 2
  SignerKeys <- SomeKeys
  ExecutorInputs <- SomeInputs
  MaxDisabled = 2
  Ids <- SomeIds
  Tokens = {ta, tb}
  Models <- SomeModels
  Proposals <- SomeProposals
  Changes <- SomeChanges
  MaxChanges = 1
  Sampled = TRUE
  Types <- FormTypes
  Schemas <- FormSchemas
  Links <- FormLinks
  MaxFetches = 3
  me = me
  you = you
  them = them
  ta = ta
  tb = tb
  None = None
  Parts = {"groups"}
INVARIANT BalancesFollowWrite
CHECK_DEADLOCK FALSE
