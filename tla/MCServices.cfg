SPECIFICATION Spec

CONSTANTS
  Players = {"a"}
  Workers = {s1, s2}
  Typings = {"help", "day", "players", "kit", "custom"}
  Rows <- MCRows
  Kits <- MCKits
  Allow = FALSE
  ReplyTimeout = 1
  AdminTTL = 1
  MaxTime = 4
  MaxTyped <- MCMaxTyped
  MaxUpsets = 1

  Keys = {"k", "l"}
  Getters = {g1, g2, g3}
  Sizes <- MCSizes
  MaxBytes = 2
  Drawn = {"k"}
  BusyTTL = 1
  IdleTTL = 2
  MissTTL = 1
  MaxClock = 1
  MaxDrawn = 1
  MaxAsked = 3
  MaxLost = 1

  Readers = {r1, r2, r3}
  TTL = 1
  EndOfTime = 2
  MaxChanged = 2
  MaxReads = 4
  MaxMissed = 1

  Addresses = {"c"}
  Attempts = {s1, s2}
  Names = {u, v}
  Passwords = {p, q}
  Limit = 2
  Window = 1
  SessionTTL = 1
  LastTime = 2
  MaxTries = 6
  MaxBoots = 1

  Tabs = {s1, s2}
  Users = {u, v}
  Settings <- MCSettings
  Values = {"a", "b"}
  Keep = 1
  MaxBegun = 3
  MaxHitches = 1

  Envs <- MCEnvs
  Shipped = 3
  MaxLaunches = 3
  MaxMishaps = 2

  Persons = {"a", "b"}
  Ids = {1, 2}
  MapQueries = {{"blank"}, {"odd"}, {"hostiles", "odd"}, {"animals", "players"}}
  Shelves <- MCShelves
  Menus <- MCMenus
  Scales <- MCScales
  MaxKnown = 1
  MaxMoves = 2

SYMMETRY MCPermutations

INVARIANTS
  TypeOK
  CooldownHolds
  NeverGoesBack
  SessionsAreCurrent
  GuessesBounded
  NobodyIsStranded
  AnswersAreHonest
  EverythingIsOnRecord

PROPERTIES
  SendsWhatItMay

CHECK_DEADLOCK FALSE
