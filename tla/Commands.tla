------------------------------- MODULE Commands --------------------------------
(***************************************************************************)
(* The console commands the panel knows (internal/console) and the         *)
(* handlers that send them (internal/api/world.go, players.go, access.go,  *)
(* console.go, settings.go): of each handler the checks it makes and the   *)
(* calls it waits for, in the order it comes to them.                      *)
(*                                                                         *)
(* A definition marked "Variant" is no part of the specification: it is    *)
(* the definition after it with one plausible mistake.                     *)
(***************************************************************************)
EXTENDS Sequences, Functions, TLC

\* The commands that end a session or discard a world.
Destructive == {"shutdown", "killall", "kickall", "regionreset",
                "worldchunkreset", "chunkreset", "damagereset", "resetallstats",
                "removelandprotection"}

\* What the builder of a command checks of its arguments, one by one: the
\* commands of the players' page, ...
PlayerArguments ==
  [teleportplayer |-> {"target"},
   give |-> {"item name", "count", "quality"},
   kill |-> {}, kick |-> {"reason"},
   ban |-> {"user id", "duration", "duration unit", "reason"},
   buffplayer |-> {"buff name"}, debuffplayer |-> {"buff name"},
   givexp |-> {"amount"}]

\* ... the world's, ...
WorldArguments ==
  [settime |-> {"day", "hour", "minute"}, weather |-> {"setting", "amount"},
   storm |-> {"duration", "biome"}, spawnentityat |-> {"entity class", "count"},
   spawnwandering |-> {}, spawnairdrop |-> {}, spawnscouts |-> {"entity id"}]

\* ... who may do what, ...
AccessArguments ==
  [showinventory |-> {}, unlock |-> {}, kickall |-> {"reason"},
   listlandprotection |-> {"player"}, removelandprotection |-> {"user id"},
   admin |-> {"user id", "level"}, whitelist |-> {"user id"},
   overridemaxplayercount |-> {"count"}, shutdown |-> {}]

\* ... and the ones for everybody.
GeneralArguments ==
  [saveworld |-> {}, killall |-> {"scope"}, worldchunkreset |-> {},
   say |-> {"message"}, sayplayer |-> {"message"}]

\* Validate, for a line somebody typed: blank, too long, more than one line.
LineArguments == [help |-> {"line"}, chunkreset |-> {"line"}]

\* normaliseValue and SetGamePref.
SettingArguments == [setgamepref |-> {"value"}, getgamepref |-> {}]

Arguments == PlayerArguments @@ WorldArguments @@ AccessArguments
             @@ GeneralArguments @@ LineArguments @@ SettingArguments

\* Variant: the policy is asked when the command is on its way.
VAct(word, steps) ==
  [word |-> word, plan |-> steps \o <<"send", "policy", "record">>]

\* Variant: what came of the command is told, and not recorded.
VActUnseen(word, steps) ==
  [word |-> word, plan |-> steps \o <<"policy", "send">>]

\* runAction, after the handler's own steps: the arguments are accepted, the
\* policy allows the command, it is sent, and what came of it recorded.
Act(word, steps) ==
  [word |-> word, plan |-> steps \o <<"policy", "send", "record">>]

\* readThrough: a question, neither blocked nor recorded.
Look(word, steps) == [word |-> word, plan |-> steps \o <<"send">>]

\* The players' page.  Items are looked up before the arguments are checked,
\* buffs after.
PlayerHandlers ==
  [Teleport |-> Act("teleportplayer", <<"path", "body", "arguments">>),
   GiveItem |-> Act("give", <<"path", "body", "lookup", "arguments">>),
   KillPlayer |-> Act("kill", <<"path", "arguments">>),
   Kick |-> Act("kick", <<"path", "body", "arguments">>),
   Ban |-> Act("ban", <<"body", "arguments">>),
   Unban |-> Act("ban", <<"body", "arguments">>)]

\* ... what is done to a player, ...
EffectHandlers ==
  [Buff |-> Act("buffplayer", <<"path", "body", "arguments", "lookup">>),
   Debuff |-> Act("debuffplayer", <<"path", "body", "arguments", "lookup">>),
   GiveXP |-> Act("givexp", <<"path", "body", "arguments">>)]

\* The world page.  A storm needs a biome of this world, which the weather names.
WorldHandlers ==
  [SetTime |-> Act("settime", <<"body", "arguments">>),
   Weather |-> Act("weather", <<"body", "arguments">>),
   Storm |-> Act("storm", <<"body", "lookup", "arguments">>),
   Spawn |-> Act("spawnentityat", <<"body", "lookup", "arguments">>),
   Say |-> Act("say", <<"body", "arguments">>),
   WanderingHorde |-> Act("spawnwandering", <<>>),
   AirDrop |-> Act("spawnairdrop", <<>>),
   CurrentWeather |-> Look("weather", <<>>)]

\* ... and what happens at once.
MomentHandlers ==
  [SpawnScouts |-> Act("spawnscouts", <<"body", "arguments">>),
   SaveWorld |-> Act("saveworld", <<>>),
   KillAll |-> Act("killall", <<"body", "arguments">>),
   ResetChunks |-> Act("worldchunkreset", <<>>),
   PrivateMessage |-> Act("sayplayer", <<"path", "body", "arguments">>)]

\* The access page.  The admins and the whitelist are read together.
AccessHandlers ==
  [ShowInventory |-> Look("showinventory", <<"path", "arguments">>),
   UnlockInventories |-> Act("unlock", <<"path", "arguments">>),
   KickAll |-> Act("kickall", <<"body", "arguments">>),
   ListLandClaims |-> Look("listlandprotection", <<"arguments">>),
   RemoveLandClaims |-> Act("removelandprotection", <<"body", "arguments">>),
   Access |-> Look("admin", <<"send">>),
   SetAdmin |-> Act("admin", <<"body", "arguments">>),
   RemoveAdmin |-> Act("admin", <<"body", "arguments">>),
   AddWhitelist |-> Act("whitelist", <<"body", "arguments">>),
   RemoveWhitelist |-> Act("whitelist", <<"body", "arguments">>),
   SetMaxPlayers |-> Act("overridemaxplayercount", <<"body", "arguments">>),
   Shutdown |-> Act("shutdown", <<>>)]

\* The console page: any line at all.
ConsoleHandlers ==
  [Execute |-> Act("help", <<"body", "arguments">>),
   ExecuteDestructive |-> Act("chunkreset", <<"body", "arguments">>)]

\* The settings page: handleSettings, with or without the sandbox's words, and
\* handleUpdateSetting, which does not come by the policy or the history.
SettingHandlers ==
  [Settings |-> [word |-> "getgamepref", plan |-> <<"prefs", "live">>],
   UpdateSetting |->
     [word |-> "setgamepref",
      plan |-> <<"body", "prefs", "known", "live", "settable", "arguments",
                 "send", "readback">>]]

\* Every handler of a game server that sends a command of the operator's, by page.
Handlers == {PlayerHandlers, EffectHandlers, WorldHandlers, MomentHandlers,
             AccessHandlers, ConsoleHandlers, SettingHandlers}

\* Those that are asked with GET.
Reads == {"CurrentWeather", "ShowInventory", "ListLandClaims", "Access", "Settings"}

\* requireAuth and withServer, in front of each: what changes something comes from
\* a page of the panel's own (sameOrigin), and everything with a session, for a
\* server that there is.
Gate(h) == (IF h \in Reads THEN <<>> ELSE <<"origin">>) \o <<"session", "server">>

\* What can be wrong with a request for a handler; a preference that is not known
\* is none of the server's, or the game client's own (ClientOnly).
Mistakes(handler) ==
  LET steps == Range(handler.plan)
  IN {"nothing"} \cup (steps \cap {"path", "body", "lookup", "known"})
     \cup IF "arguments" \in steps /\ Arguments[handler.word] # {}
           THEN {"arguments"} ELSE {}

Asks(page, h, m) ==
  [plan |-> Gate(h) \o page[h].plan,
   destructive |-> page[h].word \in Destructive,
   page |-> IF page = SettingHandlers THEN "settings" ELSE "actions",
   changes |-> h \notin Reads, wrong |-> m]

\* What can be asked of a page, ...
AskedOf(page) ==
  UNION {{Asks(page, h, m) : m \in Mistakes(page[h])} : h \in DOMAIN page}

\* ... and at the gate, where one request with a mistake of each kind will do.
TurnedAway(page, h) == {Asks(page, h, m) : m \in Range(Gate(h))}

\* What can be asked for.  Only the first word of a command is looked at, and two
\* requests that differ in nothing that is looked at are one.
Requests ==
  (UNION {AskedOf(page) : page \in Handlers})
    \cup TurnedAway(WorldHandlers, "CurrentWeather") \cup TurnedAway(MomentHandlers, "ResetChunks")
================================================================================
