---------------------------------- MODULE Pages ----------------------------------
(***************************************************************************)
(* The pages that only read the game (internal/api: players.go,            *)
(* gamemap_markers.go, world.go, settings.go, server_probe.go, gamemap.go) *)
(* and the calls they are put together from (internal/sdtd).  The game is  *)
(* asked for one thing at a time, it goes on while it is asked, and any of *)
(* the calls may fail: a page shows what it got, says what it lacks, or    *)
(* fails.                                                                  *)
(*                                                                         *)
(* A definition marked "Variant" is no part of the specification: it is    *)
(* the definition after it with one plausible mistake.                     *)
(***************************************************************************)
EXTENDS Listings, Functions

CONSTANTS
  Persons,   \* platform ids
  Ids,       \* entity ids
  MapQueries, \* what the map is asked for: layers, other names, or {"blank"}
  Shelves,   \* catalogues to pick from, see Listings
  Menus,     \* [prefs, options, startup, listed]: preferences of a game, options of its
             \* own settings screen, what it reads when it starts only, and what
             \* getgamepref reports
  Scales,    \* the values of an option, in thousandths, and of its preference
  MaxKnown,  \* maxKnownPlayers, of which there are 500
  MaxMoves   \* bound on what happens to the game while it is asked

VARIABLES
  town,   \* the entity id of everybody who is in the game, Away
  entity, \* of everybody the entity id he had last, Away for who never joined
  mood,   \* whether the game answers, and takes the panel's token
  ask,    \* the request: its page, what it is a page of, of each goroutine the
          \* calls to make, and what the others brought
  moves,
  \* History, since the request came:
  met,    \* who was in the game, with which id
  stayed, \* who was in the game all the time
  moods   \* the moods of the game; "hitch" for a call that failed by itself

vars == <<town, entity, mood, ask, moves, met, stayed, moods>>

Away == 0
Moods == {"open", "shut", "down"}
Nothing == [x \in {} |-> x]
NoPage == [page |-> "none", of |-> {}, left |-> Nothing, got |-> Nothing]

In(t) == {[who |-> p, id |-> t[p]] : p \in {q \in Persons : t[q] # Away}}
Here == In(town)

Quiet ==
  /\ mood = "open" /\ ask = NoPage /\ moves = 0
  /\ met = {} /\ stayed = {} /\ moods = {}

\* No two who are in the game have one id; who left may have the id of another.
Init ==
  /\ entity \in [Persons -> Ids \cup {Away}]
  /\ \E here \in SUBSET {p \in Persons : entity[p] # Away} :
       town = [p \in Persons |-> IF p \in here THEN entity[p] ELSE Away]
  /\ Cardinality({r.id : r \in Here}) = Cardinality(Here)
  /\ Quiet
-----------------------------------------------------------------------------
(* 1. What a page asks for                                                 *)

\* Client.Players: who ever joined, then who is there now.
PlayerList == <<"known", "online">>

\* handleSettings: the preferences, the texts of the game's own screen, and what
\* the console says is in force.
SettingsList == <<"prefs", "sandbox", "live">>

\* probe: something public, something that needs the token, and an extra.
Trial == <<"info", "log", "stats">>

\* ServerHealth: "two commands rather than one because the game has no single call
\* for it".
ServerHealth == <<"mem", "version">>

CurrentWeather == <<"weather">>
MapConfig == <<"config">>
ItemIcon == <<"icon">>

\* markerLayers, and what a map opens with.
Layers ==
  [players |-> PlayerList, hostiles |-> <<"hostiles">>, animals |-> <<"animals">>,
   claims |-> <<"claims">>]
FirstLayers == {"players", "claims"}

\* Of every other page the calls, one after the other.
Calls ==
  [players |-> PlayerList, settings |-> SettingsList, probe |-> Trial,
   vitals |-> ServerHealth, weather |-> CurrentWeather, map |-> MapConfig,
   icon |-> ItemIcon]

CallsOf(t) == IF t \in DOMAIN Calls THEN Calls[t] ELSE Layers[t]

\* requestedLayers: names that are none are passed over.
Wanted(asked) == IF asked = {"blank"} THEN FirstLayers ELSE asked \cap DOMAIN Layers

\* The calls of what is asked for, layers or one page, and what it is a page of.
Page(p, of, layers) ==
  [NoPage EXCEPT !.page = p, !.of = of, !.left = [t \in layers |-> CallsOf(t)]]

Opens ==
  /\ ask = NoPage
  /\ \/ \E p \in DOMAIN Calls \ {"settings"} : ask' = Page(p, {}, {p})
     \/ \E menu \in Menus : ask' = Page("settings", {menu}, {"settings"})
     \/ \E asked \in MapQueries : ask' = Page("markers", {}, Wanted(asked))
     \/ \E shelf \in Shelves : ask' = Page("picker", {shelf}, {})
     \/ \E scale \in Scales : ask' = Page("choices", {scale}, {})
  /\ mood' \in Moods /\ moods' = {mood'}
  /\ met' = Here /\ stayed' = {r.who : r \in Here}
  /\ UNCHANGED <<town, entity, moves>>
-----------------------------------------------------------------------------
(* 2. The calls                                                            *)

\* Endpoints that answer without a token.
Public == {"info", "stats", "icon"}

\* getplayerlist and player: rows of the same people.  The first gives the last id
\* of everybody who ever joined and whether he is there, or of as many as one page
\* of it has: there is no second one.
EverJoined == {p \in Persons : entity[p] # Away}
KnownRows(some) ==
  {[who |-> p, id |-> entity[p], online |-> town[p] # Away] : p \in some}
OnlineRows == {[who |-> r.who, id |-> r.id, online |-> TRUE] : r \in Here}

Listed(some) ==
  Cardinality(some) = IF Cardinality(EverJoined) <= MaxKnown THEN Cardinality(EverJoined)
                      ELSE MaxKnown

Well(rows) == [well |-> TRUE, why |-> "", rows |-> rows]
Brought(c) ==
  CASE c = "known" -> {Well(KnownRows(some)) : some \in {s \in SUBSET EverJoined : Listed(s)}}
    [] c = "online" -> {Well(OnlineRows)}
    [] OTHER -> {Well({})}

\* fetch: an APIError for a status or an errorCode, or nothing that can be read.
Failed(why) == [well |-> FALSE, why |-> why, rows |-> {}]

\* IsUnauthorized.
Refused(why) == why = "refused"

\* How a call can end: a game that answers also answers with an error of its own,
\* or has no such picture.
Ends(c) ==
  IF mood = "down" THEN {Failed("silent")}
  ELSE IF mood = "shut" /\ c \notin Public THEN {Failed("refused")}
  ELSE Brought(c) \cup {Failed(why) : why \in IF c = "icon" THEN {"missing"} ELSE {}}

\* What the rest of a page does not need.
Optional == {"known", "online", "stats", "sandbox", "live"}

\* A goroutine's next call comes back; if it failed, and the others need it, they
\* are not made.
Returns(t, end) ==
  /\ ask.left[t] # << >>
  /\ LET c == Head(ask.left[t])
         got == [x \in DOMAIN ask.got \cup {c} |-> IF x = c THEN end ELSE ask.got[x]]
         rest == IF end.well \/ c \in Optional THEN Tail(ask.left[t]) ELSE << >>
     IN ask' = [ask EXCEPT !.got = got, !.left[t] = rest]
  /\ UNCHANGED <<town, entity, mood, met, stayed>>

Asked(t) == IF ask.left[t] = << >> THEN {} ELSE Ends(Head(ask.left[t]))

Answers(t) == \E end \in Asked(t) : Returns(t, end) /\ UNCHANGED <<moves, moods>>

Done == ask # NoPage /\ \A t \in DOMAIN ask.left : ask.left[t] = << >>
-----------------------------------------------------------------------------
(* 3. The game goes on                                                     *)

Moves == ask # NoPage /\ ~Done /\ moves < MaxMoves /\ moves' = moves + 1

\* A call fails where others would not.
Hitches(t) ==
  /\ Moves
  /\ \E why \in {"error", "silent"} : Returns(t, Failed(why))
  /\ moods' = moods \cup {"hitch"}

Witness == met' = met \cup In(town') /\ stayed' = {p \in stayed : town'[p] # Away}

\* "Entity ids are reassigned between sessions" (players.go).
Joins(p, id) ==
  /\ Moves
  /\ town[p] = Away /\ id \notin Range(town)
  /\ town' = [town EXCEPT ![p] = id]
  /\ entity' = [entity EXCEPT ![p] = id]
  /\ Witness
  /\ UNCHANGED <<mood, ask, moods>>

Leaves(p) ==
  /\ Moves
  /\ town[p] # Away
  /\ town' = [town EXCEPT ![p] = Away]
  /\ Witness
  /\ UNCHANGED <<entity, mood, ask, moods>>

MoodChanges ==
  /\ Moves
  /\ mood' \in Moods \ {mood}
  /\ moods' = moods \cup {mood'}
  /\ UNCHANGED <<town, entity, ask, met, stayed>>

Next ==
  \/ Opens
  \/ \E t \in DOMAIN ask.left : Answers(t) \/ Hitches(t)
  \/ \E p \in Persons : Leaves(p) \/ \E id \in Ids : Joins(p, id)
  \/ MoodChanges
-----------------------------------------------------------------------------
(* 4. What the pages make of it                                            *)

Got(c) == c \in DOMAIN ask.got /\ ask.got[c].well
Why(c) == ask.got[c].why
PlayersIn(c) == IF Got(c) THEN ask.got[c].rows ELSE {}

\* Variant: the two lists are merged on the entity id.
VMerged ==
  {[o EXCEPT !.who = IF \E k \in PlayersIn("known") : k.id = o.id
                     THEN (CHOOSE k \in PlayersIn("known") : k.id = o.id).who ELSE @] :
     o \in PlayersIn("online")}
  \cup {k \in PlayersIn("known") : k.id \notin {o.id : o \in PlayersIn("online")}}

\* Players: merged on the platform id; "the online endpoint is authoritative for
\* anyone currently connected".
Merged ==
  PlayersIn("online")
  \cup {k \in PlayersIn("known") : k.who \notin {o.who : o \in PlayersIn("online")}}

\* Players fails where both do, with what the first said.
ListFails == ~Got("known") /\ ~Got("online")

\* Which call a layer, or a page, failed with: the first of those it cannot do
\* without.
Broken(t) ==
  IF t = "players" THEN IF ListFails THEN "known" ELSE ""
  ELSE LET bad == {c \in DOMAIN ask.got : ~Got(c) /\ c \notin Optional
                                          /\ (ask.page = "markers" => c = t)}
       IN IF bad = {} THEN "" ELSE CHOOSE c \in bad : TRUE

\* handleMapMarkers: "a layer that fails is reported as a failure for that layer
\* alone".
DrawnLayers == {t \in DOMAIN ask.left : Broken(t) = ""}
Problems == [t \in DOMAIN ask.left \ DrawnLayers |-> Why(Broken(t))]

\* collectPlayers draws who is online.
Shown == IF "players" \in DrawnLayers THEN {r \in Merged : r.online} ELSE {}

\* handlePlayers: "the people you can act on now" at the top, then everybody else.
PlayersPage ==
  [top |-> Shown, rest |-> IF ask.page = "players" THEN Merged \ Shown ELSE {}]

\* Variant: whoever answers is taken to accept the token.
VVerdict ==
  IF ~Got("info") THEN "unreachable" ELSE "works"

\* probe: "reaching the server and being refused is a different problem from not
\* reaching it".
Verdict ==
  IF ~Got("info") THEN "unreachable"
  ELSE IF Got("log") THEN "works"
  ELSE IF Refused(Why("log")) THEN "refused" ELSE "unreadable"

Of == CHOOSE x \in ask.of : TRUE
Options == IF Got("sandbox") THEN Of.options ELSE {}
Live == IF Got("live") THEN Of.listed ELSE {}
-----------------------------------------------------------------------------
(* 5. Properties                                                           *)

TypeOK ==
  /\ town \in [Persons -> Ids \cup {Away}] /\ entity \in [Persons -> Ids \cup {Away}]
  /\ \A p \in Persons : town[p] \in {Away, entity[p]}
  /\ mood \in Moods /\ moods \subseteq Moods \cup {"hitch"}
  /\ DOMAIN ask.got \subseteq UNION {ToSet(CallsOf(t)) : t \in DOMAIN ask.left}

\* Whoever is shown as being in the game was there while the page was made, with
\* the id that the buttons beside him use, and nobody is there twice; whoever was
\* there all the time is shown there, even where one of the two lists is missing:
\* the one of who is there only if the other holds everybody.
\* On the players' page, whoever is below these was once in the game.
ShowsWhoIsThere ==
  /\ \A r \in Shown : [who |-> r.who, id |-> r.id] \in met
  /\ \A r, s \in Merged : r.who = s.who => r = s
  /\ "players" \in DrawnLayers /\ (Got("online") \/ Cardinality(EverJoined) <= MaxKnown)
       => stayed \subseteq {r.who : r \in Shown}
  /\ \A r \in PlayersPage.rest : r.who \notin stayed /\ entity[r.who] # Away

\* What could not be read is named, and for what it was: a layer fails for itself,
\* a page of several calls is not made of some of those it needs, and a trial of a
\* token tells a wrong one from a server that does not answer.
SaysWhatItLacks ==
  /\ \A t \in DOMAIN Problems : Problems[t] = "refused" => "shut" \in moods
  /\ \A t \in DOMAIN Problems :
       Problems[t] # "missing" => moods \cap {"shut", "down", "hitch"} # {}
  /\ \A t \in DrawnLayers : \A c \in ToSet(CallsOf(t)) \ Optional : Got(c)
  /\ ask.page = "probe" =>
       CASE Verdict = "works" -> "open" \in moods
         [] Verdict = "refused" -> "shut" \in moods
         [] OTHER -> moods \cap {"down", "hitch"} # {}

ListsAreRight ==
  /\ ask.page = "settings" /\ Broken("settings") = "" =>
       ShowsEachOnce(Of.prefs, Options, Of.startup, Live)
  /\ ask.page = "picker" =>
       \A c \in Catalogues, typed, all \in BOOLEAN, limit \in 1..2 :
         PicksTheBest(c, Of, typed, all, limit)
  /\ ask.page = "choices" => OffersItsOwn(Of.values, Of.current)

PagesAreHonest == Done => ShowsWhoIsThere /\ SaysWhatItLacks /\ ListsAreRight
=============================================================================
