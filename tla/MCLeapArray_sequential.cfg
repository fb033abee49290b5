\* One thread, two slots of two ticks: the ring is an exact sliding counter.
SPECIFICATION Spec
CONSTANTS
  Threads = {t1}
  NoThread = none
  SampleCount = 2
  WindowLength = 2
  ClockSteps <- Forward
  MaxTime = 7
  MaxLag = 7
  MaxOps = 4
PROPERTIES
  ImplementsSlidingCount
