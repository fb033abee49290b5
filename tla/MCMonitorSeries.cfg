SPECIFICATION Spec
CONSTANTS
  MaxSize = 3
  MaxTime = 6
  Values = {low, high}
  Never = never
INVARIANTS
  Bounded
  Increasing
  Current
  Recent
