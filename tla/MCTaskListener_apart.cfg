SPECIFICATION Spec
CONSTANTS
  a = a
  b = b
  p1 = p1
  p2 = p2
  p3 = p3
  TaskNames = {a, b}
  Providers = {p1, p2, p3}
  Mentions <- ApartMentions
INVARIANTS
  HeardOnce
  PositionsAgree
PROPERTIES
  ImplementsSubscriptions
