\* Two slots of two ticks each; no operation is delayed by more than one window.
SPECIFICATION Spec
CONSTANTS
  Threads = {t1, t2, t3}
  NoThread = none
  SampleCount = 2
  WindowLength = 2
  ClockSteps <- Forward
  MaxTime = 7
  MaxLag = 2
  MaxOps = 3
SYMMETRY ThreadSymmetry
INVARIANTS
  ExactAttribution
  PickedStayRecent
PROPERTIES
  StartNeverGoesBack
