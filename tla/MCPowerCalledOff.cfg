CONSTANTS
  c1 = c1
  c2 = c2
  MaxRuns = 2
  Callers <- MCCallers
  Countdowns <- MCCountdowns
  Looks = 1
  AllowDestructive = TRUE
SPECIFICATION Spec
INVARIANT CanBeCalledOff
