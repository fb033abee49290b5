\* One request at a time, collected within its second, no query, for one address; up
\* to four uploads in flight, so that none has to wait for another.
SPECIFICATION Spec
CHECK_DEADLOCK FALSE
CONSTANTS
  Addresses = {a1}
  Requesters = {r1}
  Pollers = {}
  Uploaders = {u1, u2, u3, u4}
  MaxSize = 3
  MaxTime = 5
  MaxLag = 0
  MaxOps = 5
SYMMETRY ThreadSymmetry
INVARIANTS
  TypeOK
  SecondsAreSaved
  UploadsAreComplete
