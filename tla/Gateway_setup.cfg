SPECIFICATION FairSpec
CHECK_DEADLOCK FALSE
CONSTANTS
  Handlers = {h1, h2}
  Users = {u1}
  Peers = {p1, p2}
  TargetSets = {{p1}, {p1, p2}}
  MaxFaults = 1
INVARIANTS
  TypeOK
  RegistOnce
  TokensWork
  JoinedMeansAll
  InstantiatedOnce
PROPERTIES
  HandlersEnd
