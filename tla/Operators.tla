------------------------------- MODULE Operators -------------------------------
(***************************************************************************)
(* What an operator does to a game server by hand: the buttons of the      *)
(* world, player and access pages (internal/api/world.go, players.go,      *)
(* access.go), the console page (internal/api/console.go) and the settings *)
(* page (internal/api/settings.go).  All of it ends in one line of the     *)
(* game's console, put together by internal/console, sent by internal/sdtd *)
(* and kept in the operator's history (internal/store/commands.go).        *)
(*                                                                         *)
(* A handler is a plan (module Commands).  What is decided without waiting *)
(* for anybody belongs to the step before it.                              *)
(*                                                                         *)
(* A definition marked "Variant" is no part of the specification: it is    *)
(* the definition after it with one plausible mistake.                     *)
(***************************************************************************)
EXTENDS Commands, Integers, FiniteSetsExt

CONSTANTS
  Tabs,       \* requests that may be under way at a time
  Users,      \* operators
  Settings,   \* per preference its class, see Listed
  Values,     \* values a preference may be given, the first of which is the file's
  Allow,      \* PANEL_ALLOW_DESTRUCTIVE
  Keep,       \* historyKeep
  MaxBegun,   \* bound on the requests
  MaxHitches  \* bound on calls and statements that fail, browsers that go away
              \* and restarts of the game, together

VARIABLES
  game,      \* per preference the value in force
  table,     \* command_history: its rows [id, user, n], and the last id that was
             \* given, which is given once (AUTOINCREMENT)
  tab,       \* per request what it is doing
  begun, hitches,
  \* History:
  written    \* per operator the rows that were recorded, oldest first

vars == <<game, table, tab, begun, hitches, written>>

File == CHOOSE v \in Values : TRUE
Nothing == "nothing"

Idle == [at |-> "idle", plan |-> <<>>, user |-> Nothing, n |-> 0,
         allowed |-> TRUE, wrong |-> Nothing, setting |-> Nothing, value |-> Nothing,
         listed |-> {}, due |-> 0, carried |-> 0, failed |-> FALSE,
         record |-> "none", shown |-> Nothing, read |-> FALSE, inForce |-> {},
         outcome |-> Nothing]

Init ==
  /\ game = [s \in DOMAIN Settings |-> File]
  /\ table = [rows |-> {}, last |-> 0]
  /\ tab = [t \in Tabs |-> Idle]
  /\ begun = 0 /\ hitches = 0
  /\ written = [u \in Users |-> <<>>]
-----------------------------------------------------------------------------
(* 1. What the game answers with, and what is kept                         *)

Listed(s) == Settings[s] \in {"live", "startup"}  \* getgamepref reports it
StartupOnly(s) == Settings[s] = "startup"

\* settable: everything is while the console could not be read.
Settable(s, listed) == ~StartupOnly(s) /\ (listed = {} \/ s \in listed)

\* The server refuses, or takes a value and does nothing with it.
InForce(s, v) == IF Settings[s] = "live" THEN [game EXCEPT ![s] = v] ELSE game

\* Whoever watches a preference has seen what it is now.
Watched(requests, g) ==
  [t \in Tabs |-> IF requests[t].inForce = {} THEN requests[t]
                  ELSE [requests[t] EXCEPT !.inForce = @ \cup {g[requests[t].setting]}]]

\* Of some rows those with the highest ids.
Newest(rows, limit) == {r \in rows : Cardinality({q \in rows : q.id > r.id}) < limit}

\* RecentCommandRuns.
RowsOf(u) == {r \in table.rows : r.user = u}
Recent(u, limit) == Newest(RowsOf(u), limit)
-----------------------------------------------------------------------------
(* 2. A request                                                            *)

Waits == {"lookup", "prefs", "live", "send", "record", "readback"}

Refuses(r, step) ==
  \/ step = r.wrong
  \/ step = "settable" /\ ~Settable(r.setting, r.listed)
  \/ step = "policy" /\ ~r.allowed

\* writeGameError, an error of the panel's own, or what was asked for.
Answered(r, outcome) ==
  LET told == IF outcome = "done" THEN [r EXCEPT !.user = Nothing, !.n = 0]
              ELSE [Idle EXCEPT !.carried = r.carried, !.due = r.due, !.record = r.record]
  IN [told EXCEPT !.at = "answered", !.plan = <<>>, !.outcome = outcome]

\* A request comes to the next call it waits for, or to its end.
Onward(r) ==
  LET next == {i \in DOMAIN r.plan : r.plan[i] \in Waits}
      n == IF next = {} THEN Len(r.plan) + 1 ELSE Min(next)
      passed == SubSeq(r.plan, 1, n - 1)
  IN IF \E i \in DOMAIN passed : Refuses(r, passed[i]) THEN Answered(r, "refused")
     ELSE IF next = {} THEN Answered(r, IF r.failed THEN "failed" ELSE "done")
     ELSE [r EXCEPT !.at = r.plan[n], !.plan = SubSeq(r.plan, n + 1, Len(r.plan))]

\* IsDestructiveAllowed.
IsAllowed(ask) == Allow \/ ~ask.destructive

\* What changes something has to be found in the history; but for a preference that is
\* set, which handleUpdateSetting never records.
Owes(ask) == IF ask.changes /\ ask.page # "settings" THEN "owed" ELSE "none"

\* A command is on its way, and whatever comes of it its note is due.
OnItsWay(r) == [r EXCEPT !.record = IF @ = "owed" THEN "due" ELSE @]

\* Which preference a request is about, and what it is to become.
About(ask) == IF ask.page = "settings" THEN DOMAIN Settings ELSE {Nothing}
Wanted(ask) == IF ask.page = "settings" /\ ask.changes THEN Values ELSE {Nothing}

Begins(u, ask) ==
  /\ begun < MaxBegun
  /\ begun' = begun + 1
  /\ \E t \in Tabs, s \in About(ask), v \in Wanted(ask) :
       LET r == [Idle EXCEPT
                   !.plan = ask.plan, !.user = u, !.n = begun', !.wrong = ask.wrong,
                   !.allowed = IsAllowed(ask),
                   !.setting = s, !.value = v,
                   !.due = Cardinality({i \in DOMAIN ask.plan : ask.plan[i] = "send"}),
                   !.record = Owes(ask),
                   !.inForce = IF s # Nothing /\ v = Nothing THEN {game[s]} ELSE {}]
       IN tab[t] = Idle /\ tab' = [tab EXCEPT ![t] = Onward(r)]
  /\ UNCHANGED <<game, table, hitches, written>>

\* Has and Lookup of a catalogue, CurrentWeather's biomes: there is no such name.
LooksUp(t) ==
  /\ tab[t].at = "lookup"
  /\ tab' = [tab EXCEPT ![t] = IF tab[t].wrong = "lookup" THEN Answered(tab[t], "refused")
                               ELSE Onward(tab[t])]
  /\ UNCHANGED <<game, table, begun, hitches, written>>

\* GamePrefs reports what the server started with ...
ReadsPrefs(t) ==
  /\ tab[t].at = "prefs"
  /\ tab' = [tab EXCEPT ![t] = Onward([tab[t] EXCEPT !.shown = File])]
  /\ UNCHANGED <<game, table, begun, hitches, written>>

\* ... and GamePrefsLive what is in force, of the preferences it lists, with
\* which overlayLive covers the page.
ReadsLive(t) ==
  LET r == tab[t]
      live == {s \in DOMAIN Settings : Listed(s)}
      overlaid == r.value = Nothing /\ r.setting \in live
  IN /\ r.at = "live"
     /\ tab' = [tab EXCEPT ![t] = Onward(
          [r EXCEPT !.listed = live, !.read = overlaid,
                    !.shown = IF overlaid THEN game[r.setting] ELSE r.shown])]
     /\ UNCHANGED <<game, table, begun, hitches, written>>

\* Execute: the game carries a command out, whatever it says of it; a value it
\* cannot read it refuses in so many words.
Sends(t) ==
  LET r == tab[t]
      g == IF r.value = Nothing THEN game ELSE InForce(r.setting, r.value)
  IN /\ r.at = "send"
     /\ \/ /\ game' = g
           /\ tab' = [Watched(tab, g) EXCEPT ![t] = Onward(
                [OnItsWay(r) EXCEPT
                   !.carried = r.carried + 1,
                   !.inForce = IF r.value = Nothing THEN {} ELSE {g[r.setting]}])]
        \/ /\ r.value # Nothing
           /\ tab' = [tab EXCEPT ![t] = Answered(r, "refused")]
           /\ UNCHANGED game
     /\ UNCHANGED <<table, begun, hitches, written>>

\* AddCommandRun, also of a command that failed.
Records(t) ==
  LET r == tab[t]
      row == [id |-> table.last + 1, user |-> r.user, n |-> r.n]
  IN /\ r.at = "record"
     /\ table' = [rows |-> table.rows \cup {row}, last |-> row.id]
     /\ written' = [written EXCEPT ![r.user] = Append(written[r.user], row)]
     /\ tab' = [tab EXCEPT ![t] = Onward([r EXCEPT !.record = "kept"])]
     /\ UNCHANGED <<game, begun, hitches>>

\* ReadGamePref finds the preference in the list, or the answer is what was
\* asked for.
ReadsBack(t) ==
  LET r == tab[t]
  IN /\ r.at = "readback"
     /\ tab' = [tab EXCEPT ![t] = Onward(
          [r EXCEPT !.shown = IF Listed(r.setting) THEN game[r.setting] ELSE r.value,
                    !.read = Listed(r.setting)])]
     /\ UNCHANGED <<game, table, begun, hitches, written>>

\* The answer is written, and the connection is free for another request.
Finishes(t) ==
  /\ tab[t].at = "answered"
  /\ tab' = [tab EXCEPT ![t] = Idle]
  /\ UNCHANGED <<game, table, begun, hitches, written>>
-----------------------------------------------------------------------------
(* 3. What goes wrong, and what goes on by itself                          *)

Hitch == hitches < MaxHitches /\ hitches' = hitches + 1

\* fetch: no answer, one that is no envelope, or one that carries an errorCode.
\* Without a list or the preferences there is nothing to go by; without the
\* console's word on what is live everything is; and an answer that did not
\* come leaves open whether the command was carried out.
CallFails(t) ==
  LET r == tab[t]
      failed == [OnItsWay(r) EXCEPT !.failed = TRUE]
      after(q) == IF "record" \in Range(q.plan) THEN Onward(q) ELSE Answered(q, "failed")
  IN /\ Hitch
     /\ \/ /\ r.at \in {"lookup", "prefs"}
           /\ tab' = [tab EXCEPT ![t] = Answered(r, "failed")]
           /\ UNCHANGED game
        \/ /\ r.at = "live"
           /\ tab' = [tab EXCEPT ![t] = Onward(r)]
           /\ UNCHANGED game
        \/ /\ r.at = "send"
           /\ tab' = [tab EXCEPT ![t] = after(failed)]
           /\ UNCHANGED game
        \/ /\ r.at = "send"
           /\ game' = IF r.value = Nothing THEN game ELSE InForce(r.setting, r.value)
           /\ tab' = [Watched(tab, game') EXCEPT ![t] =
                after([failed EXCEPT !.carried = r.carried + 1])]
        \/ /\ r.at = "readback"
           /\ tab' = [tab EXCEPT ![t] = Onward([r EXCEPT !.shown = r.value])]
           /\ UNCHANGED game
     /\ UNCHANGED <<table, begun, written>>

\* "Failing to record it should not fail the command that already ran."
RecordFails(t) ==
  /\ tab[t].at = "record"
  /\ Hitch
  /\ tab' = [tab EXCEPT ![t] = Onward([tab[t] EXCEPT !.record = "lost"])]
  /\ UNCHANGED <<game, table, begun, written>>

\* The browser goes away, and with it the context of whatever the request still
\* has to do: a command on its way may arrive, but is not recorded.
BrowserLeaves(t) ==
  LET r == tab[t]
  IN /\ r.at \in Waits
     /\ Hitch
     /\ game' \in {game} \cup
          IF r.at = "send" /\ r.value # Nothing THEN {InForce(r.setting, r.value)} ELSE {}
     /\ tab' = [Watched(tab, game') EXCEPT ![t] = Idle]
     /\ UNCHANGED <<table, begun, written>>

\* Nothing that was set outlives the game.
GameRestarts ==
  /\ Hitch
  /\ game' = [s \in DOMAIN Settings |-> File]
  /\ tab' = Watched(tab, game')
  /\ UNCHANGED <<table, begun, written>>

\* Variant: the newest rows are kept, whose they are.
VPruned(rows) == Newest(rows, Keep)

\* Which rows PruneCommandHistory leaves: the newest of every operator.
Pruned(rows) == {r \in rows : r \in Newest({q \in rows : q.user = r.user}, Keep)}

\* pruneHistory, every six hours.
Prunes ==
  /\ table' = [table EXCEPT !.rows = Pruned(table.rows)] /\ table' # table
  /\ UNCHANGED <<game, tab, begun, hitches, written>>

RequestStep(t) ==
  \/ LooksUp(t) \/ ReadsPrefs(t) \/ ReadsLive(t) \/ Sends(t) \/ Records(t)
  \/ ReadsBack(t) \/ Finishes(t)

Next ==
  \/ \E u \in Users, ask \in Requests : Begins(u, ask)
  \/ \E t \in Tabs : RequestStep(t) \/ CallFails(t) \/ RecordFails(t) \/ BrowserLeaves(t)
  \/ GameRestarts \/ Prunes
-----------------------------------------------------------------------------
(* 4. Properties                                                           *)

TypeOK ==
  /\ game \in [DOMAIN Settings -> Values]
  /\ table.rows \subseteq [id : 1..table.last, user : Users, n : 1..begun]
  /\ \A t \in Tabs :
       /\ tab[t].at \in Waits \cup {"idle", "answered"}
       /\ tab[t].at \in Waits => tab[t].user \in Users
       /\ tab[t].carried \in 0..tab[t].due

\* An operator may act on the answer: a request that was refused has done
\* nothing, one that was done has done all of it once, and a value that the game
\* gave was in force while the request was under way, whoever else changed it
\* and however often the game restarted.  What was done to a preference is
\* confirmed by the game ("Offering a control that cannot be verified and would
\* not take effect is worse than saying so", settings.go) unless the console
\* could not be read.
AnswersAreHonest ==
  \A t \in Tabs : LET r == tab[t] IN
    r.at = "answered" =>
      /\ r.outcome = "refused" => r.carried = 0
      /\ r.outcome = "done" => r.carried = r.due
      /\ r.read => r.shown \in r.inForce
      /\ r.outcome = "done" /\ r.value # Nothing
         => Settings[r.setting] = "live" \/ r.listed = {}

\* What an operator did by hand, but for setting a preference, is in his history:
\* nobody is told what came of a command that changes something, whether it failed or
\* not, before it is recorded, unless that one statement failed.  (It is less than
\* "everything an operator did is in one place regardless of which surface they
\* used", world.go: see Owes.)  And however much the others do, and whenever the
\* history is pruned, what everybody's page shows of it are the newest he did.
EverythingIsOnRecord ==
  /\ \A t \in Tabs : tab[t].at = "answered" => tab[t].record # "due"
  /\ \A u \in Users :
       Recent(u, Keep) =
         {written[u][i] : i \in {j \in DOMAIN written[u] : j + Keep > Len(written[u])}}
=============================================================================
