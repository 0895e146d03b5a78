CONSTANTS
  Names = {1, 2}
  p1 = p1
  p2 = p2
  Runners = {p1, p2}
  Setups <- MCSetups
  AllowDestructive = FALSE
  Every = 2
  Capacity = 1
SPECIFICATION Spec
INVARIANTS
  TypeOK
  OncePerOccasion
  NothingHalfDone
PROPERTIES
  GoesOff
CHECK_DEADLOCK FALSE
