SPECIFICATION FairSpec
CHECK_DEADLOCK FALSE
CONSTANTS
  Calls = {c1, c2}
  Peers = {p1, p2}
  TargetSets = {{p1}, {p1, p2}}
  Keys = {k1}
INVARIANTS
  TypeOK
  AnsweredIsVisible
  AnswersAreSerial
  EndorsedByAll
PROPERTIES
  Settles
