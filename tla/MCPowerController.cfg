CONSTANTS
  c1 = c1
  c2 = c2
  MaxRuns = 2
  Callers <- MCCallers
  Countdowns <- MCCountdowns
  Looks = 3
  AllowDestructive = TRUE
SPECIFICATION FairSpec
INVARIANTS
  TypeOK
  OneSequence
  SavedBeforeStop
  CancelledTouchedNothing
  OutcomeIsHonest
PROPERTIES
  SequenceEnds
