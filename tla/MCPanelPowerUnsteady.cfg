CONSTANTS
  c1 = c1
  MaxRuns = 1
  Callers <- MCCallers
  Countdowns <- MCCountdowns
  Looks = 2
  AllowDestructive = TRUE
  FailureThreshold = 2
  Every <- MCEveryTick
  MaxBoots = 2
  Worlds = {FALSE}
  AskedIn = {FALSE}
SPECIFICATION PanelSpec
INVARIANT BackMeansItWent
