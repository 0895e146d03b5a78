-------------------------------- MODULE Startup --------------------------------
(***************************************************************************)
(* How the panel comes up: the environment it reads (internal/config), the *)
(* database it opens and brings up to date (internal/store), and the order *)
(* of main.run (cmd/7dtd-panel).  The panel may be killed at every step,   *)
(* and what is started next may be a newer or an older version of it.      *)
(*                                                                         *)
(* A statement of SQLite is a step.  What is seeded into the database is   *)
(* the business of Login (the account) and of Registry (the servers).      *)
(*                                                                         *)
(* A definition marked "Variant" is no part of the specification: it is    *)
(* the definition after it with one plausible mistake.                     *)
(***************************************************************************)
EXTENDS Integers, Sequences, FiniteSets, Functions

CONSTANTS
  Envs,         \* the environments it is started in
  Shipped,      \* the migrations the newest version brings
  MaxLaunches,  \* bound on the starts
  MaxMishaps    \* bound on kills and failed statements

VARIABLES
  disk,      \* what is committed: the migrations whose body was executed, in
             \* order, and those that schema_migrations names
  panel,     \* the process: how far it is, its version's migrations, the one it
             \* is at, and its transaction
  report,    \* the environment that was refused and what for, if one was
  launches, mishaps

vars == <<disk, panel, report, launches, mishaps>>

NoDisk == [done |-> <<>>, recorded |-> {}]
Down == [at |-> "down", brings |-> 0, file |-> 1, tx |-> NoDisk]

Init ==
  /\ disk = NoDisk /\ panel = Down /\ report = <<>>
  /\ launches = 0 /\ mishaps = 0
-----------------------------------------------------------------------------
(* 1. config.Load                                                          *)
(*                                                                         *)
(* An environment has, per variable of the panel's own, what it is set to: *)
(* "absent", "right" or "wrong" (not parsed, out of range, too short);     *)
(* SDTD_SERVERS as its entries; per id how far that server's variables go: *)
(* "absent", "lacking" or "whole"; and the same for those without an id.   *)

\* An entry between two commas with nothing in it, and one that is no id.
Blank == "blank"
Odd == "odd"

\* Some server of which everything is set.
Spare == "spare"
Extent(env, id) == IF id = Spare THEN "whole" ELSE env.of[id]

\* The variable that has no default.
Required == {"PANEL_ADMIN_PASSWORD"}

\* parser.servers: an entry that is no id, or is there before, is passed over,
\* and with it the variables of its server.
Repeated(env, i) == \E j \in 1..(i - 1) : env.list[j] = env.list[i]
Entries(env) == {i \in DOMAIN env.list : env.list[i] # Blank}
Usable(env) == {i \in Entries(env) : env.list[i] # Odd /\ ~Repeated(env, i)}

\* A value of nothing but blanks is none; one with a comma in it is a list.
ListUnset(env) == env.list \in {<<>>, <<Blank>>}

Fine == [panel |-> {}, entries |-> {}, servers |-> {}, list |-> FALSE, single |-> FALSE]

\* Variant: with an entry that will not do, the servers are not looked at.
VLacking(env) ==
  {env.list[i] : i \in {j \in Usable(env) :
     Entries(env) = Usable(env) /\ Extent(env, env.list[j]) # "whole"}}

\* serverWithPrefix: the servers without a host, a token's name or its secret.
Lacking(env) ==
  {env.list[i] : i \in {j \in Usable(env) : Extent(env, env.list[j]) # "whole"}}

\* port, duration, boolean, enum: what does not parse or is out of bounds is one,
\* and the default is used in its place; absent it is the default, where there is one.
Wrong(env) ==
  {v \in DOMAIN env.panel :
     env.panel[v] = "wrong" \/ (env.panel[v] = "absent" /\ v \in Required)}

\* Nothing of a server without an id is a way to start; half of one is not.
HalfSet(env) == env.single = "lacking"

\* "Every problem is collected and reported together": the variables that are
\* wrong, the entries that will not do, the servers that lack something, whether
\* the list names none, and whether, without a list, half of one is there.
Problems(env) ==
  [panel |-> Wrong(env),
   entries |-> Entries(env) \ Usable(env),
   servers |-> Lacking(env),
   list |-> ~ListUnset(env) /\ Usable(env) = {},
   single |-> ListUnset(env) /\ HalfSet(env)]

\* The environment once everything a report names is put right: what lacks
\* something gets it, and an entry that will not do is taken out, its comma left,
\* or, where that leaves none, gives way to a server of which everything is set.
Mended(env, problems) ==
  [env EXCEPT
     !.panel = [v \in DOMAIN @ |-> IF v \in problems.panel THEN "right" ELSE @[v]],
     !.single = IF problems.single THEN "whole" ELSE @,
     !.of = [id \in DOMAIN @ |-> IF id \in problems.servers THEN "whole" ELSE @[id]],
     !.list = IF problems.list THEN <<Spare>>
              ELSE [i \in DOMAIN @ |-> IF i \in problems.entries THEN Blank ELSE @[i]]]
-----------------------------------------------------------------------------
(* 2. main.run                                                             *)

Goes(at) == panel' = [panel EXCEPT !.at = at]

\* Load comes before anything else: with a problem nothing is touched.
Launches(env, version) ==
  /\ panel.at = "down" /\ report = <<>> /\ launches < MaxLaunches
  /\ launches' = launches + 1
  /\ IF Problems(env) = Fine
     THEN /\ panel' = [Down EXCEPT !.at = "check", !.brings = version]
          /\ UNCHANGED report
     ELSE /\ report' = <<env, Problems(env)>>
          /\ UNCHANGED panel
  /\ UNCHANGED <<disk, mishaps>>

\* The report is read, and what comes next is another start.
IsRead ==
  /\ report # <<>>
  /\ report' = <<>>
  /\ UNCHANGED <<disk, panel, launches, mishaps>>

\* migrate: each file in the order of the names, one the database has seen is
\* passed over ...
Checks ==
  /\ panel.at = "check"
  /\ CASE panel.file > panel.brings -> Goes("seed")
       [] panel.file <= panel.brings /\ panel.file \in disk.recorded ->
            panel' = [panel EXCEPT !.file = @ + 1]
       [] OTHER -> panel' = [panel EXCEPT !.at = "body", !.tx = disk]
  /\ UNCHANGED <<disk, report, launches, mishaps>>

\* Variant: the body is executed on the database, not in the transaction.
VExecutes ==
  /\ panel.at = "body"
  /\ disk' = [disk EXCEPT !.done = Append(@, panel.file)]
  /\ panel' = [panel EXCEPT !.at = "record", !.tx.done = Append(@, panel.file)]
  /\ UNCHANGED <<report, launches, mishaps>>

\* ... its body and its record are one transaction ...
Executes ==
  /\ panel.at = "body"
  /\ panel' = [panel EXCEPT !.at = "record", !.tx.done = Append(@, panel.file)]
  /\ UNCHANGED <<disk, report, launches, mishaps>>

Records ==
  /\ panel.at = "record"
  /\ panel' = [panel EXCEPT !.at = "commit", !.tx.recorded = @ \cup {panel.file}]
  /\ UNCHANGED <<disk, report, launches, mishaps>>

Commits ==
  /\ panel.at = "commit"
  /\ disk' = panel.tx
  /\ panel' = [panel EXCEPT !.at = "check", !.file = @ + 1, !.tx = NoDisk]
  /\ UNCHANGED <<report, launches, mishaps>>

\* Then the account, the servers, the loops and, at the end, the HTTP server.
GoesOn ==
  /\ \E step \in {<<"seed", "load">>, <<"load", "run">>, <<"run", "serve">>} :
       panel.at = step[1] /\ Goes(step[2])
  /\ UNCHANGED <<disk, report, launches, mishaps>>

\* A signal: while it comes up the context is over and the next statement fails;
\* once it serves, requests have fifteen seconds to end.
Stops ==
  /\ panel.at = "serve"
  /\ panel' = Down
  /\ UNCHANGED <<disk, report, launches, mishaps>>

\* It is killed, a statement fails, or the port is taken: run returns, and what
\* was not committed is gone.
Dies ==
  /\ panel.at # "down"
  /\ mishaps < MaxMishaps
  /\ mishaps' = mishaps + 1
  /\ panel' = Down
  /\ UNCHANGED <<disk, report, launches>>

Next ==
  \/ \E env \in Envs, version \in 1..Shipped : Launches(env, version)
  \/ IsRead \/ Checks \/ Executes \/ Records \/ Commits \/ GoesOn \/ Stops \/ Dies
-----------------------------------------------------------------------------
(* 3. Properties                                                           *)

TypeOK ==
  /\ disk.recorded \subseteq 1..Shipped
  /\ panel.at \in {"down", "check", "body", "record", "commit", "seed", "load",
                   "run", "serve"}
  /\ panel.file \in 1..(Shipped + 1)

\* "applies any embedded migration the database has not yet seen, in filename
\* order, each in its own transaction" (store.go): whenever it is killed and
\* whatever version comes next, no migration is left out, executed twice or
\* executed after a later one, the record says which were, and what serves has
\* all that it brings.
MigratedOnce ==
  /\ disk.done = [i \in 1..Cardinality(disk.recorded) |-> i]
  /\ Range(disk.done) = disk.recorded
  /\ panel.at \in {"seed", "load", "run", "serve"} => 1..panel.brings \subseteq disk.recorded

\* "Failing on one variable at a time turns first-run setup into a guessing
\* game" (config.go): who puts right what a report names is not given another.
ReportIsWhole ==
  report # <<>> => Problems(Mended(report[1], report[2])) = Fine
=============================================================================
