-------------------------------- MODULE Listings ---------------------------------
(***************************************************************************)
(* How long lists become something to pick from: the searches of the item, *)
(* entity and buff catalogues (internal/catalog) and the settings page,    *)
(* which puts several hundred preferences under headings and offers the    *)
(* values of the game's own settings screen (internal/api/settings.go,     *)
(* internal/settings/groups.go).  Functions of their arguments.            *)
(*                                                                         *)
(* A definition marked "Variant" is no part of the specification: it is    *)
(* the definition after it with one plausible mistake.                     *)
(***************************************************************************)
EXTENDS Integers, Sequences, SequencesExt, FiniteSets, FiniteSetsExt

(* 1. Pickers.  An entry says how what was typed stands to its name and to *)
(* its localized name, and whether it is left out unless asked for (blocks,*)
(* what cannot be spawned).                                                *)

Relations == {"equal", "prefix", "inside", "none"}
Catalogues == {"items", "entities", "buffs"}

Starts(relation) == relation \in {"equal", "prefix"}

\* clampLimit; Buffs.Search has a ceiling of its own.
ClampLimit(catalogue, limit) ==
  CASE limit <= 0 -> 50
    [] catalogue = "buffs" /\ limit > 200 -> 50
    [] catalogue # "buffs" /\ limit > 2000 -> 2000
    [] OTHER -> limit

\* rank of an item, buffRank; entities stay in the order of the catalogue.
Rank(catalogue, e) ==
  CASE catalogue = "entities" -> 0
    [] catalogue = "items" -> IF "equal" \in {e.name, e.local} THEN 0
                              ELSE IF Starts(e.name) \/ Starts(e.local) THEN 1 ELSE 2
    [] catalogue = "buffs" -> IF Starts(e.local) THEN 0
                              ELSE IF Starts(e.name) THEN 1
                              ELSE IF e.local = "inside" THEN 2 ELSE 3

\* Nothing typed is in every name; an entity has no other name.
Matches(catalogue, e, typed, all) ==
  /\ all \/ catalogue = "buffs" \/ ~e.hidden
  /\ typed => e.name # "none" \/ (catalogue # "entities" /\ e.local # "none")

\* The places in a catalogue of what a search finds.
Found(catalogue, entries, typed, all) ==
  {i \in DOMAIN entries : Matches(catalogue, entries[i], typed, all)}

\* Which of two places is shown above the other: where something was typed they are
\* sorted by rank, and the sort is stable.
Above(catalogue, entries, typed, i, j) ==
  LET r == Rank(catalogue, entries[i])
      s == Rank(catalogue, entries[j])
  IN IF typed /\ r # s THEN r < s ELSE i < j

\* Of these places the first that are shown.
FirstOf(catalogue, entries, typed, places, n) ==
  {i \in places :
     Cardinality({j \in places : Above(catalogue, entries, typed, j, i)}) < n}

\* Variant: the list is cut before it is sorted.
VPicked(catalogue, entries, typed, all, limit) ==
  LET found == Found(catalogue, entries, typed, all)
  IN [shown |-> FirstOf(catalogue, entries, FALSE, found, ClampLimit(catalogue, limit)),
      total |-> Cardinality(found)]

\* Search.
Picked(catalogue, entries, typed, all, limit) ==
  LET found == Found(catalogue, entries, typed, all)
  IN [shown |-> FirstOf(catalogue, entries, typed, found, ClampLimit(catalogue, limit)),
      total |-> Cardinality(found)]
-----------------------------------------------------------------------------
(* 2. The settings page.  A preference's name is the sequence of its words,*)
(* each of which begins with a capital.                                    *)

\* prefixGroups; no two prefixes of a name are of one length.
PrefixGroups ==
  [BloodMoon |-> {<<"Blood", "Moon">>, <<"Zombie", "BM">>},
   Zombies |-> {<<"Zombie">>, <<"Enemy">>, <<"Enemy", "Spawn">>, <<"AI">>},
   Difficulty |-> {<<"Enemy", "Difficulty">>, <<"XP">>, <<"Difficulty">>, <<"Craft">>,
                   <<"Quest">>},
   Loot |-> {<<"Air", "Drop">>, <<"Loot">>},
   LandClaim |-> {<<"Land">>, <<"Claim">>},
   Players |-> {<<w>> : w \in {"Player", "Party", "Friend", "Persistent", "Drop", "Spawn"}},
   World |-> {<<w>> : w \in {"Block", "World", "Day", "Bedroll", "Dynamic", "Build", "Biome",
                             "Storm", "Map"}},
   Network |-> {<<w>> : w \in {"Web", "Telnet", "Admin", "Control", "EAC", "Terminal",
                               "Twitch"}},
   Server |-> {<<w>> : w \in {"Server", "Game", "Max", "Create", "Save", "Region",
                              "Language"}},
   Other |-> {<<w>> : w \in {"Discord", "Options", "Debug"}}]

\* Order.
Order == <<"Players", "World", "BloodMoon", "Zombies", "Loot", "LandClaim",
           "Difficulty", "Network", "Server", "Other">>

\* nameGroups, checked before the prefixes.
ByName ==
  [Players |-> {<<"Death", "Penalty">>, <<"Skip", "Spawn", "Button">>,
                <<"Allow", "Spawn", "Near", "Backpack">>, <<"Allow", "Spawn", "Near", "Friend">>},
   Difficulty |-> {<<"Jar", "Refund">>, <<"Biome", "Progression">>},
   Network |-> {<<"Creative", "Menu", "Enabled">>, <<"Enable", "Map", "Rendering">>,
                <<"Ignore", "EOS", "Sanctions">>, <<"Joining", "Options">>,
                <<"Hide", "Command", "Execution", "Log">>},
   World |-> {<<"Reset", "Unprotected", "Chunks">>, <<"Rebuild", "Map">>},
   Server |-> {<<"User", "World", "Storage", "Type">>, <<"Sandbox", "Code">>,
               <<"Sandbox", "Preset">>, <<"No", "Graphics", "Mode">>,
               <<"Last", "Game", "Reset", "Revision">>},
   Other |-> {<<"Autopilot", "Mode">>, <<"Camera", "Restriction", "Mode">>,
              <<"Frag", "Limit">>, <<"Match", "Length">>}]

\* Where a table puts a name: the groups that have one of these words.
Under(table, names) == {g \in DOMAIN table : table[g] \cap names # {}}

\* The longest of the prefixes that a table has.
Longest(table, words) ==
  LET fit == {n \in 1..Len(words) : Under(table, {SubSeq(words, 1, n)}) # {}}
  IN IF fit = {} THEN << >> ELSE SubSeq(words, 1, Max(fit))

\* GroupFor: "Longest match wins, so BloodMoonEnemyCount lands under Blood moon".
GroupFor(words) ==
  LET own == Under(ByName, {words})
      fit == Under(PrefixGroups, {Longest(PrefixGroups, words)})
  IN CHOOSE g \in IF own # {} THEN own ELSE IF fit # {} THEN fit ELSE {"Other"} : TRUE

\* clientPrefixes.
ClientPrefixes ==
  {<<"Options">>, <<"Discord">>, <<"UNUSED">>, <<"Eula">>, <<"Playtest">>, <<"Selection">>,
   <<"Debug">>, <<"Connect", "To", "Server">>, <<"Last", "Loaded">>,
   <<"Last", "Loading", "Tip">>, <<"Favorite", "Servers">>}

ClientOnly(words) == \E p \in ClientPrefixes : IsPrefix(p, words)

\* The three sections: what the game's own screen has (options, none of them where
\* the sandbox could not be read), what else is the server's, and the client's.
\* Variant: what the game's screen has is not left out of the server's.
VSections(prefs, options) ==
  [world |-> options, server |-> {p \in prefs : ~ClientOnly(p)},
   client |-> {p \in prefs : ClientOnly(p)}]

Sections(prefs, options) ==
  [world |-> options, server |-> {p \in prefs \ options : ~ClientOnly(p)},
   client |-> {p \in prefs : ClientOnly(p)}]

\* What serverSection shows: the rows under the headings of Order.
UnderHeadings(section) == {p \in section : GroupFor(p) \in ToSet(Order)}

\* settable, without the classes of the preferences.
Settable(p, startup, live) == p \notin startup /\ (live = {} \/ p \in live)

\* A row with controls.
Editable(p, sections, prefs, startup, live) ==
  /\ p \in sections.world \cup sections.server
  /\ p \in prefs
  /\ Settable(p, startup, live)

\* handleUpdateSetting lets a write through.
Accepts(p, prefs, startup, live) ==
  p \in prefs /\ ~ClientOnly(p) /\ Settable(p, startup, live)

\* The numbers, in thousandths, of which FloatWhole knows how a float rounds them.
Exact == {v \in Int : -2048000 < v /\ v < 2048000}

\* Whether a hundred times a / 100 is whole in float64.  Of a / 100, of which a * p is
\* what stands before its last 40 bits, so much is rounded off that a hundred times
\* that is up to 50 of its last places.  Rounding the product takes them away where
\* these are 128 to the last place of a, and else, where they are 64, up to 32.
StaysWhole(a) ==
  \E p \in {4, 8, 16, 32, 64, 128, 256, 512, 1024, 2048, 4096, 8192, 16384, 32768,
            65536, 131072, 262144, 524288} :
    /\ 409600 <= a * p /\ a * p < 819200
    /\ a * p >= 524288 \/ (a * p) % 100 \in 0..32 \cup 68..99

FloatWhole(n) == n = 0 \/ StaysWhole(IF n < 0 THEN -n ELSE n)

\* matchChoices: the values of an option (in thousandths) as they are, or as
\* percentages, all of which must be whole after the multiplication.
AtScale(values, scale) ==
  IF scale = 1 \/ \A v \in values : v % 10 = 0 /\ FloatWhole(v \div 10)
  THEN {v * scale : v \in values} ELSE {}

\* Variant: the percentage is tried whatever the value is.
VChoicesFor(values, current) ==
  IF current \in AtScale(values, 1) THEN AtScale(values, 1) ELSE AtScale(values, 100)

\* choicesFor: "offering choices that would write the wrong number is worse than
\* offering none".
ChoicesFor(values, current) ==
  IF current \in AtScale(values, 1) THEN AtScale(values, 1)
  ELSE IF current \in AtScale(values, 100) THEN AtScale(values, 100) ELSE {}
-----------------------------------------------------------------------------
(* 3. What a list owes to who reads it                                     *)

\* A picker shows the best of what was found, as much as was asked for, and says
\* how much there is.
PicksTheBest(catalogue, entries, typed, all, limit) ==
  LET found == Found(catalogue, entries, typed, all)
      got == Picked(catalogue, entries, typed, all, limit)
      rank(i) == Rank(catalogue, entries[i])
  IN /\ got.total = Cardinality(found)
     /\ got.shown \subseteq found
     /\ Cardinality(got.shown) = Min({ClampLimit(catalogue, limit), Cardinality(found)})
     /\ typed => \A i \in got.shown, j \in found : rank(j) < rank(i) => j \in got.shown

\* Every preference is on the page once, whichever of the calls failed, and has
\* controls exactly when the write that they make would be let through.
ShowsEachOnce(prefs, options, startup, live) ==
  LET s == Sections(prefs, options)
      at(p) == {n \in DOMAIN s : p \in s[n]}
  IN \A p \in prefs \cup options :
       /\ Cardinality(at(p)) = 1
       /\ p \in s.server => p \in UnderHeadings(s.server)
       /\ Editable(p, s, prefs, startup, live) = Accepts(p, prefs, startup, live)

\* A preference is offered the values of its option, as they are or as whole
\* percentages, and what it holds is one of them; or it is offered none.  It is
\* offered them as they are where it holds one of them; where it holds a percentage,
\* as percentages, at least where each is a number of quarters ("where every choice
\* lands on a whole number once multiplied by a hundred": it need not in float64).
OffersItsOwn(values, current) ==
  LET offered == ChoicesFor(values, current)
      percentages == {100 * v : v \in values}
  IN /\ offered = {} \/ (offered \in {values, percentages} /\ current \in offered)
     /\ offered # {} /\ offered # values => \A v \in values : v % 10 = 0
     /\ current \in values => offered = values
     /\ current \in percentages \ values /\ (\A v \in values : v % 250 = 0)
          => offered = percentages
=============================================================================
