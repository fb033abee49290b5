SPECIFICATION FairSpec
CHECK_DEADLOCK FALSE
CONSTANTS
  Handlers = {h1, h2}
  Names = {k1}
  Providers = {p1}
  LastRound = 1
  MaxTasks = 2
  MaxRequests = 2
  MaxCalls = 3
  MaxFaults = 1
PROPERTIES
  AgreementsArePaid
