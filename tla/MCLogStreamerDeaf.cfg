CONSTANTS
  seedLines = 2
  backfillLines = 1
  MaxBoots = 3
  MaxLines <- MCMaxLines
SPECIFICATION Spec
INVARIANT RestartedLogIsHeard
