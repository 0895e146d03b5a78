CONSTANTS
  c1 = c1
  MaxRuns = 1
  Callers <- MCCallers
  Countdowns <- MCCountdowns
  Looks = 3
  AllowDestructive = TRUE
  FailureThreshold = 3
  Every <- MCEvery
  MaxBoots = 2
  Worlds = {TRUE, FALSE}
  AskedIn = {TRUE}
SPECIFICATION PanelFairSpec
INVARIANTS
  TypeOK
  OfflineIsEarned
  OnlineIsHonest
  ClaimsOnlyWhatHappened
PROPERTIES
  Converges
