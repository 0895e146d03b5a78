SPECIFICATION Spec
CONSTANTS
  s1 = s1
  s2 = s2
  Players = {"a"}
  Workers <- MCWorkers
  Typings = {"custom"}
  Rows <- MCRows
  Kits = {}
  Allow = FALSE
  ReplyTimeout = 2
  AdminTTL = 1
  MaxTime = 3
  MaxTyped <- MCMaxTyped
  MaxUpsets = 0
INVARIANT NobodyPassesEarly
CHECK_DEADLOCK FALSE
