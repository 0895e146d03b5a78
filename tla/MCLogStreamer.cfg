CONSTANTS
  seedLines = 2
  backfillLines = 1
  MaxBoots = 3
  MaxLines <- MCMaxLines
SPECIFICATION FairSpec
INVARIANTS
  TypeOK
  OnceInOrder
  RepeatsAreRepeats
  NoOtherGaps
PROPERTIES
  ComesBack
