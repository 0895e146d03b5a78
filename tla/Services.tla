------------------------------- MODULE Services --------------------------------
(***************************************************************************)
(* The services around the core of the panel: the chat bot, the cache of   *)
(* map tiles, the catalogues, logging in, what operators do by hand, how   *)
(* the panel comes up, and the pages that only read the game.              *)
(* They share no state (servers.asGame gives each game server a bot, a     *)
(* tile cache and catalogues of its own; sessions and the history of       *)
(* commands are tables of their own), so that one of them moves in a       *)
(* behaviour and the others stay where they began.                         *)
(***************************************************************************)
EXTENDS Integers, Sequences, FiniteSets

CONSTANTS
  \* the chat bot's
  Players, Workers, Typings, Rows, Kits, Allow, ReplyTimeout, AdminTTL,
  MaxTime, MaxTyped, MaxUpsets,
  \* the tile cache's
  Keys, Getters, Sizes, MaxBytes, Drawn, BusyTTL, IdleTTL, MissTTL, MaxClock,
  MaxDrawn, MaxAsked, MaxLost,
  \* a catalogue's
  Readers, TTL, EndOfTime, MaxChanged, MaxReads, MaxMissed,
  \* the login's
  Addresses, Attempts, Names, Passwords, Limit, Window, SessionTTL, LastTime,
  MaxTries, MaxBoots,
  \* the operators'
  Tabs, Users, Settings, Values, Keep, MaxBegun, MaxHitches,
  \* coming up
  Envs, Shipped, MaxLaunches, MaxMishaps,
  \* the pages'
  Persons, Ids, MapQueries, Shelves, Menus, Scales, MaxKnown, MaxMoves

\* What New, NewBuffs, asGame, newRateLimiter and config.Load give or default to
\* is positive, and every deadline of a worker is longer than nothing.
ASSUME ServicesAssumption ==
  /\ {ReplyTimeout, AdminTTL, MaxBytes, BusyTTL, IdleTTL, MissTTL, TTL,
      Limit, Window, SessionTTL, Keep, MaxKnown} \subseteq Nat \ {0}
  /\ BusyTTL <= IdleTTL
  /\ Drawn \subseteq Keys

VARIABLES
  part,
  time, name, row, kit, clearing, usedAt, admins, list, bot, typed, upsets, charges, stale,
  demoted, crossed,
  clock, busy, drawn, items, order, bytes, inflight, blank, get, redrawn, asked,
  lost, told,
  now, stocked, copy, holder, reading, reads, missed, seen,
  hour, accounts, buckets, login, sessions, tries, boots, let,
  game, table, tab, begun, hitches, written,
  disk, panel, report, launches, mishaps,
  town, entity, mood, ask, moves, met, stayed, moods

chatVars == <<time, name, row, kit, clearing, usedAt, admins, list, bot, typed,
              upsets, charges, stale, demoted, crossed>>
tileVars == <<clock, busy, drawn, items, order, bytes, inflight, blank, get,
              redrawn, asked, lost, told>>
catalogVars == <<now, stocked, copy, holder, reading, reads, missed, seen>>
loginVars == <<hour, accounts, buckets, login, sessions, tries, boots, let>>
handVars == <<game, table, tab, begun, hitches, written>>
bootVars == <<disk, panel, report, launches, mishaps>>
pageVars == <<town, entity, mood, ask, moves, met, stayed, moods>>

vars == <<part, chatVars, tileVars, catalogVars, loginVars, handVars, bootVars,
          pageVars>>

Chat == INSTANCE ChatBot
Tiles == INSTANCE TileCache
Lists == INSTANCE Catalog
Logins == INSTANCE Login
Hands == INSTANCE Operators
Boot == INSTANCE Startup
Read == INSTANCE Pages

\* The game's own screen has no setting of the client's (sdtd.SandboxOptions).
ASSUME MenusAssumption == \A m \in Menus : \A p \in m.options : ~Read!ClientOnly(p)

\* A catalogue is a list, no entity has the id that means that there is none, and the
\* values of the game's own screen are such that it is known how a float rounds them.
ASSUME PagesAssumption ==
  /\ IsFiniteSet(Persons)
  /\ \A scale \in Scales : scale.values \subseteq Read!Exact
  /\ \A shelf \in Shelves :
       shelf \in Seq([name : Read!Relations, local : Read!Relations, hidden : BOOLEAN])
  /\ Read!Away \notin Ids

\* What a row or a kit holds besides its flags (SaveChatCommand, SaveKit), and that
\* no cooldown is less than none (handleSaveChatCommand).
ASSUME BotAssumption ==
  /\ MaxTime \in Nat \ {0}
  /\ \A n \in Typings : \A r \in Rows[n] :
       r \in [enabled : BOOLEAN, admins : BOOLEAN, says : BOOLEAN,
              lines : Seq({"plain", "args", "harsh", "broken"}), cooldown : Nat]
  /\ \A k \in Kits : k.items \in Nat

\* "nothing" is no preference and no value.
ASSUME SettingsAssumption ==
  Values # {} /\ Hands!Nothing \notin Values \cup DOMAIN Settings

\* An environment has its four parts, and the variables of every server it lists.
ASSUME EnvsAssumption ==
  /\ Shipped \in Nat
  /\ \A env \in Envs :
       /\ env = [panel |-> env.panel, list |-> env.list, of |-> env.of, single |-> env.single]
       /\ env.list \in Seq(DOMAIN env.of \cup {Boot!Blank, Boot!Odd})
       /\ {Boot!Blank, Boot!Odd, Boot!Spare} \cap DOMAIN env.of = {}

\* No request is called "nobody", no square is drawn so often that its version
\* would be the placeholder's, and a picture weighs what it weighs.
ASSUME CachesAssumption ==
  /\ Tiles!Nobody \notin Getters /\ Lists!Nobody \notin Readers
  /\ MaxDrawn \in Nat /\ MaxDrawn + 1 < Tiles!Placeholder
  /\ \A v \in 1..(MaxDrawn + 1) \cup {Tiles!Placeholder} : Sizes[v] \in Nat

\* Who does not move has one state to be in.
Init ==
  /\ part \in {"chat", "tiles", "lists", "logins", "hands", "boot", "pages"}
  /\ Chat!Init /\ Tiles!Init /\ Lists!Init /\ Logins!Opened /\ Hands!Init
  /\ Boot!Init
  /\ IF part = "pages" THEN Read!Init
     ELSE /\ town = [p \in Persons |-> Read!Away] /\ entity = town
          /\ Read!Quiet
  /\ part # "chat" => name = "day" /\ admins = {}
  /\ part # "chat" => row = CHOOSE r \in Chat!Written("day") : TRUE
  /\ IF part = "logins" THEN Logins!Seeded
     ELSE accounts = [n \in Names |-> Logins!NoPassword]

ChatMoves ==
  /\ part = "chat" /\ Chat!Next
  /\ UNCHANGED <<part, tileVars, catalogVars, loginVars, handVars, bootVars, pageVars>>
TilesMove ==
  /\ part = "tiles" /\ Tiles!Next
  /\ UNCHANGED <<part, chatVars, catalogVars, loginVars, handVars, bootVars, pageVars>>
ListsMove ==
  /\ part = "lists" /\ Lists!Next
  /\ UNCHANGED <<part, chatVars, tileVars, loginVars, handVars, bootVars, pageVars>>
LoginsMove ==
  /\ part = "logins" /\ Logins!Next
  /\ UNCHANGED <<part, chatVars, tileVars, catalogVars, handVars, bootVars, pageVars>>
HandsMove ==
  /\ part = "hands" /\ Hands!Next
  /\ UNCHANGED <<part, chatVars, tileVars, catalogVars, loginVars, bootVars, pageVars>>
BootMoves ==
  /\ part = "boot" /\ Boot!Next
  /\ UNCHANGED <<part, chatVars, tileVars, catalogVars, loginVars, handVars, pageVars>>
PagesMove ==
  /\ part = "pages" /\ Read!Next
  /\ UNCHANGED <<part, chatVars, tileVars, catalogVars, loginVars, handVars, bootVars>>

Next ==
  ChatMoves \/ TilesMove \/ ListsMove \/ LoginsMove \/ HandsMove \/ BootMoves \/ PagesMove

Spec == Init /\ [][Next]_vars
-----------------------------------------------------------------------------
\* Each property is of the part that moves: the others are as they began.

\* Each is well formed, the tile cache within its bytes and with one fetch of a
\* square at a time.
TypeOK ==
  /\ part = "chat" => Chat!TypeOK
  /\ part = "tiles" => Tiles!TypeOK
  /\ part = "lists" => Lists!TypeOK
  /\ part = "logins" => Logins!TypeOK
  /\ part = "hands" => Hands!TypeOK
  /\ part = "boot" => Boot!TypeOK
  /\ part = "pages" => Read!TypeOK

\* store/chat.go: a use passes "if the cooldown has expired", whatever the player's
\* other requests do and whatever becomes of the cooldown in between; unless one of
\* them gave back what another was charged.
CooldownHolds == part = "chat" => Chat!CooldownHolds

\* isAdmin: a line of an admins' command is sent for nobody who has not been one
\* for longer than the list is trusted and the worker has time; runKit, runCustom:
\* nothing is sent of a command one of whose lines will not do.
SendsWhatItMay == [][part = "chat" => Chat!SendsWhatItMay]_chatVars

\* fetch.go, commands.go: nobody is answered with less than was shown before he
\* asked, with requests sharing a fetch, failing ones, and evictions.
NeverGoesBack ==
  (part = "tiles" => Tiles!NeverGoesBack) /\ (part = "lists" => Lists!NeverGoesBack)

\* store/users.go: a session was opened with its account's present password.
SessionsAreCurrent == part = "logins" => Logins!SessionsAreCurrent

\* ratelimit.go: a burst at a boundary is twice the limit and no more.
GuessesBounded == part = "logins" => Logins!GuessesBounded

\* fetch.go, commands.go: whoever joins a fetch or queues for a mutex waits for
\* somebody who is at it, failures included.
NobodyIsStranded ==
  (part = "tiles" => Tiles!NobodyIsStranded)
    /\ (part = "lists" => Lists!NobodyIsStranded)

\* access.go, settings.go: what an operator is told was done was done once, what
\* he is told was refused was not, and what he is told is in force was; config.go:
\* what he is told is wrong with his environment is all that is; players.go,
\* gamemap_markers.go, settings.go, server_probe.go: what a page shows of the game
\* was so while it was read, what it lacks is named, and nothing is on it twice.
AnswersAreHonest ==
  /\ part = "hands" => Hands!AnswersAreHonest
  /\ part = "boot" => Boot!ReportIsWhole
  /\ part = "pages" => Read!PagesAreHonest

\* world.go, store/commands.go: what was done is in the history, by every surface
\* but the settings page (Operators!Owes), and everybody's newest entries stay
\* there; store.go: so is every migration, each done once and in order, whenever
\* the panel is killed.
EverythingIsOnRecord ==
  (part = "hands" => Hands!EverythingIsOnRecord) /\ (part = "boot" => Boot!MigratedOnce)
================================================================================
