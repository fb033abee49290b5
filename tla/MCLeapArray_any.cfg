\* Two slots over three windows, so that slot 0 is reused, any delay, and a
\* wall clock that may be set back.
SPECIFICATION FairSpec
CONSTANTS
  Threads = {t1, t2}
  NoThread = none
  SampleCount = 2
  WindowLength = 1
  ClockSteps <- AnyClock
  MaxTime = 2
  MaxLag = 2
  MaxOps = 3
INVARIANTS
  TypeOK
  Aligned
  ResetExclusive
  OwnCounts
PROPERTIES
  ObtainedIsWanted
  Terminates
