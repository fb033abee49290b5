\* One request at a time, collected within two seconds, a Grafana query and up to two
\* uploads in flight, so that none has to wait for another, for one address.
SPECIFICATION Spec
CHECK_DEADLOCK FALSE
CONSTANTS
  Addresses = {a1}
  Requesters = {r1}
  Pollers = {p1}
  Uploaders = {u1, u2}
  MaxSize = 1
  MaxTime = 3
  MaxLag = 1
  MaxOps = 5
SYMMETRY ThreadSymmetry
INVARIANTS
  SavingRepairsQueries
  MarkNotAhead

  
