------------------------------- MODULE Registry -------------------------------
(***************************************************************************)
(* Servers that come and go while the panel runs: the registry of running  *)
(* servers (internal/servers), the requests that add, edit and delete one  *)
(* (internal/api/server_admin.go), the tables they write (internal/store)  *)
(* and how both are brought up at start (cmd/7dtd-panel).                  *)
(*                                                                         *)
(* A step is one section under the registry's mutex or one SQL statement   *)
(* (the pool has a single connection): everything in between is local to   *)
(* the request.  Requests are goroutines of the HTTP server, so their      *)
(* steps interleave.  A runtime stands for all that start begins: poller,  *)
(* log stream, warm-up, and, through Attach, the bot and the task runner.  *)
(*                                                                         *)
(* A definition marked "Variant" is no part of the specification: it is    *)
(* the definition after it with one plausible mistake.                     *)
(***************************************************************************)
EXTENDS Integers, Sequences, SequencesExt, FiniteSetsExt

CONSTANTS
  Ids,          \* server ids, numbers so that they have an order
  Requests,     \* goroutines that serve requests
  EnvServers,   \* the ids the environment names, in its order
  MaxRequests,  \* bound on the requests served
  MaxFailures,  \* bound on the statements that fail
  MaxBoots      \* bound on the starts of the panel

ASSUME RegistryAssumption ==
  /\ Ids \subseteq Nat /\ IsFiniteSet(Ids)
  /\ EnvServers \in Seq(Ids)
  /\ MaxRequests \in Nat /\ MaxFailures \in Nat /\ MaxBoots \in Nat \ {0}

VARIABLES
  rows,      \* game_servers: per id its row, NoRow if there is none
  kept,      \* automation_tasks: per id, for which server of that id a task was
             \* saved (the other tables about a server are cleared like it)
  runtimes,  \* the runtimes built since the panel started, in order
  byID,      \* Registry.byID: per id the number of its runtime, None
  ordered,   \* Registry.ordered, as numbers of runtimes
  stop,      \* Registry.stop: per id the runtime its function would cancel
  running,   \* whether Run was called
  toStart,   \* what is left of the list Run took
  live,      \* the runtimes that were started and not cancelled
  req,       \* per request what it is doing
  saves,     \* the rows written so far, which number their versions
  asked, failures, boots,
  \* History, read by no action:
  crossed,   \* the ids on which two operations overlapped since the start
  failed,    \* the ids on which an operation failed since the start
  dirty      \* the ids that were ever in either, or in use at a crash

tables == <<rows, kept>>
registry == <<runtimes, byID, ordered, stop, running, toStart, live>>
counters == <<saves, asked, failures, boots>>
history == <<crossed, failed, dirty>>
vars == <<rows, kept, runtimes, byID, ordered, stop, running, toStart, live,
          req, saves, asked, failures, boots, crossed, failed, dirty>>

None == 0
NoRow == [version |-> 0, since |-> 0, secret |-> FALSE, position |-> 0]

Idle == [at |-> "idle", id |-> None, blank |-> FALSE,
         row |-> NoRow, rt |-> None]

Active(id) == {r \in Requests : req[r].at # "idle" /\ req[r].id = id}
IdOf(rt) == runtimes[rt].id
-----------------------------------------------------------------------------
(* 1. Coming up                                                            *)

\* seedServersFromEnv: what the environment names and the table does not have
\* is written with its index as position, one row after another; an id named
\* twice is in the table the second time.
Seeded(table, from) ==
  [id \in Ids |->
     IF table[id] # NoRow \/ id \notin ToSet(EnvServers) THEN table[id]
     ELSE LET i == Min({k \in DOMAIN EnvServers : EnvServers[k] = id})
          IN [version |-> from + i, since |-> from + i, secret |-> TRUE,
              position |-> i - 1]]

\* loadServers: a row that cannot be built (sdtd.New wants a secret) is passed
\* over ...
Loadable(table) == {id \in Ids : table[id].secret}

\* ... and the rest become the registry's list and map in the order of
\* GameServers, ORDER BY position, id.
Precedes(table, a, b) ==
  \/ table[a].position < table[b].position
  \/ table[a].position = table[b].position /\ a < b

Place(table, id) ==
  Cardinality({x \in Loadable(table) : x = id \/ Precedes(table, x, id)})

Places(table) == 1..Cardinality(Loadable(table))

Built(id, row) == [id |-> id, version |-> row.version, since |-> row.since]

RuntimesOf(table) ==
  [i \in Places(table) |->
     LET id == CHOOSE x \in Loadable(table) : Place(table, x) = i
     IN Built(id, table[id])]

MapOf(table) ==
  [id \in Ids |-> IF id \in Loadable(table) THEN Place(table, id) ELSE None]

ListOf(table) == [i \in Places(table) |-> i]

\* A first start, on a database with no servers in it.
Init ==
  /\ rows = Seeded([id \in Ids |-> NoRow], 0)
  /\ runtimes = RuntimesOf(rows)
  /\ byID = MapOf(rows)
  /\ ordered = ListOf(rows)
  /\ stop = [id \in Ids |-> None]
  /\ running = FALSE
  /\ toStart = <<>>
  /\ live = {}
  /\ req = [r \in Requests |-> Idle]
  /\ kept = [id \in Ids |-> {}]
  /\ saves = Len(EnvServers)
  /\ asked = 0
  /\ failures = 0
  /\ boots = 1
  /\ crossed = {} /\ failed = {} /\ dirty = {}

\* The panel is stopped or killed, at any moment, and comes up again: main up
\* to the HTTP server, when nothing else runs yet.
Restart ==
  /\ boots < MaxBoots
  /\ boots' = boots + 1
  /\ rows' = Seeded(rows, saves)
  /\ runtimes' = RuntimesOf(rows')
  /\ byID' = MapOf(rows')
  /\ ordered' = ListOf(rows')
  /\ stop' = [id \in Ids |-> None]
  /\ running' = FALSE
  /\ toStart' = <<>>
  /\ live' = {}
  /\ saves' = saves + Len(EnvServers)
  /\ req' = [r \in Requests |-> Idle]
  /\ crossed' = {} /\ failed' = {}
  /\ dirty' = dirty \cup {id \in Ids : Active(id) # {}}
  /\ UNCHANGED <<kept, asked, failures>>
-----------------------------------------------------------------------------
(* 2. Sections under the mutex                                             *)

WithoutFirst(id) ==
  LET at == {i \in DOMAIN ordered : IdOf(ordered[i]) = id}
  IN IF at = {} THEN ordered ELSE RemoveAt(ordered, Min(at))

\* start, by Run or by a request: its cancel is registered, then it runs.
Started(rt) ==
  /\ stop' = [stop EXCEPT ![IdOf(rt)] = rt]
  /\ live' = live \cup {rt}

\* Run takes the servers known so far, under the mutex ...
RunTakes ==
  /\ ~running
  /\ running' = TRUE
  /\ toStart' = ordered
  /\ LET met == {id \in Ids : Active(id) # {}}
     IN crossed' = crossed \cup met /\ dirty' = dirty \cup met
  /\ UNCHANGED <<rows, kept, runtimes, byID, ordered, stop, live, req, saves,
                 asked, failures, boots, failed>>

\* ... and starts them one by one without it.
RunStarts ==
  /\ toStart # <<>>
  /\ Started(Head(toStart))
  /\ toStart' = Tail(toStart)
  /\ UNCHANGED <<rows, kept, runtimes, byID, ordered, running, req, saves,
                 asked, failures, boots, crossed, failed, dirty>>
-----------------------------------------------------------------------------
(* 3. Requests                                                             *)

Goes(r, at) == req' = [req EXCEPT ![r].at = at]
Answered(r) == req' = [req EXCEPT ![r] = Idle]

Begin(r, op, id, blank) ==
  /\ req[r].at = "idle"
  /\ op \notin {"create", "update"} => ~blank
  /\ asked < MaxRequests
  /\ asked' = asked + 1
  /\ op = "create" => ~blank   \* "the token secret is required"
  /\ req' = [req EXCEPT ![r] = [Idle EXCEPT !.at = op, !.id = id,
                                            !.blank = blank]]
  /\ LET met == Active(id) # {} \/ \E i \in DOMAIN toStart : IdOf(toStart[i]) = id
     IN /\ crossed' = IF met THEN crossed \cup {id} ELSE crossed
        /\ dirty' = IF met THEN dirty \cup {id} ELSE dirty
  /\ UNCHANGED <<rows, kept, runtimes, byID, ordered, stop, running, toStart,
                 live, saves, failures, boots, failed>>

\* handleCreateServer: an id the registry knows is refused.
ChecksFree(r) ==
  /\ req[r].at = "create"
  /\ IF byID[req[r].id] # None THEN Answered(r)
     ELSE req' = [req EXCEPT ![r].at = "save", ![r].row.position = Len(ordered)]
  /\ UNCHANGED <<tables, registry, counters, history>>

\* handleUpdateServer: an id the table does not have is refused.
ChecksStored(r) ==
  /\ req[r].at = "update"
  /\ LET stored == rows[req[r].id]
     IN IF stored = NoRow THEN Answered(r)
        ELSE req' = [req EXCEPT ![r].at = IF req[r].blank THEN "secret" ELSE "save",
                                ![r].row.position = stored.position]
  /\ UNCHANGED <<tables, registry, counters, history>>

\* SaveGameServer, its read: a blank secret means the stored one.
ReadsSecret(r) ==
  /\ req[r].at = "secret"
  /\ req' = [req EXCEPT ![r].at = "save", ![r].row.secret = rows[req[r].id].secret]
  /\ UNCHANGED <<tables, registry, counters, history>>

Written(r, secret) ==
  /\ req[r].at = "save"
  /\ saves' = saves + 1
  /\ LET id == req[r].id
     IN rows' = [rows EXCEPT ![id] =
          [version |-> saves + 1,
           since |-> IF rows[id] = NoRow THEN saves + 1 ELSE rows[id].since,
           secret |-> secret,
           position |-> req[r].row.position]]
  /\ req' = [req EXCEPT ![r].at = "readBack", ![r].blank = FALSE, ![r].row = NoRow]
  /\ UNCHANGED <<kept, registry, asked, failures, boots, history>>

\* Variant: a blank secret is written like any other.
VSaves(r) == Written(r, ~req[r].blank)

\* SaveGameServer, its INSERT ... ON CONFLICT DO UPDATE.
Saves(r) == Written(r, ~req[r].blank \/ req[r].row.secret)

\* saveAndStart reads the row back, and Add builds from it: not without a
\* row, nor without a secret.
ReadsBack(r) ==
  /\ req[r].at = "readBack"
  /\ LET stored == rows[req[r].id]
     IN IF stored.secret
        THEN /\ runtimes' = Append(runtimes, Built(req[r].id, stored))
             /\ req' = [req EXCEPT ![r].at = "add", ![r].rt = Len(runtimes) + 1]
        ELSE Answered(r) /\ UNCHANGED runtimes
  /\ UNCHANGED <<tables, byID, ordered, stop, running, toStart, live,
                 counters, history>>

\* Variant: what the map held before is what is listed.
VInserted(r) ==
  /\ byID' = [byID EXCEPT ![req[r].id] = req[r].rt]
  /\ ordered' = Append(ordered, byID[req[r].id])
  /\ IF running THEN Goes(r, "start") ELSE Answered(r)

Inserted(r) ==
  /\ byID' = [byID EXCEPT ![req[r].id] = req[r].rt]
  /\ ordered' = Append(ordered, req[r].rt)
  /\ IF running THEN Goes(r, "start") ELSE Answered(r)

\* Variant: an id that exists is overwritten in place.
VAdds(r) ==
  /\ req[r].at = "add"
  /\ Inserted(r)
  /\ UNCHANGED <<tables, runtimes, stop, running, toStart, live, counters,
                 history>>

\* Add, its first section: an id that exists is let go of the mutex for.
Adds(r) ==
  /\ req[r].at = "add"
  /\ IF byID[req[r].id] # None
     THEN Goes(r, "evict") /\ UNCHANGED <<byID, ordered>>
     ELSE Inserted(r)
  /\ UNCHANGED <<tables, runtimes, stop, running, toStart, live, counters,
                 history>>

\* Add, its second section, after Remove has returned: not looked at again.
AddsAgain(r) ==
  /\ req[r].at = "insert"
  /\ Inserted(r)
  /\ UNCHANGED <<tables, runtimes, stop, running, toStart, live, counters,
                 history>>

Starts(r) ==
  /\ req[r].at = "start"
  /\ Started(req[r].rt)
  /\ Answered(r)
  /\ UNCHANGED <<tables, runtimes, byID, ordered, running, toStart, counters,
                 history>>

\* Remove, under the mutex: by a delete, or by the Add that replaces.
Removes(r) ==
  /\ req[r].at \in {"remove", "evict"}
  /\ LET id == req[r].id
         then == IF req[r].at = "evict" THEN "insert" ELSE "idle"
     IN IF byID[id] = None
        THEN /\ req' = [req EXCEPT ![r] = IF then = "idle" THEN Idle
                                          ELSE [req[r] EXCEPT !.at = then]]
             /\ UNCHANGED <<byID, ordered, stop>>
        ELSE /\ byID' = [byID EXCEPT ![id] = None]
             /\ ordered' = WithoutFirst(id)
             /\ stop' = [stop EXCEPT ![id] = None]
             /\ req' = [req EXCEPT ![r].at = IF then = "idle" THEN "cancel"
                                             ELSE "cancelThenInsert",
                                   ![r].row.version = stop[id]]
  /\ UNCHANGED <<tables, runtimes, running, toStart, live, counters, history>>

\* Remove, once it has let go of the mutex: the function it found is called.
Cancels(r) ==
  /\ req[r].at \in {"cancel", "cancelThenInsert"}
  /\ live' = live \ {req[r].row.version}
  /\ IF req[r].at = "cancel" THEN Answered(r)
     ELSE req' = [req EXCEPT ![r].at = "insert", ![r].row = NoRow]
  /\ UNCHANGED <<tables, runtimes, byID, ordered, stop, running, toStart,
                 counters, history>>

\* DeleteGameServer: the row ...
DeletesRow(r) ==
  /\ req[r].at = "delete"
  /\ IF rows[req[r].id] = NoRow
     THEN Answered(r) /\ UNCHANGED rows
     ELSE /\ rows' = [rows EXCEPT ![req[r].id] = NoRow]
          /\ Goes(r, "clear")
  /\ UNCHANGED <<kept, registry, counters, history>>

\* Variant: the tasks of a server outlive it.
VClears(r) ==
  /\ req[r].at = "clear"
  /\ Goes(r, "remove")
  /\ UNCHANGED <<tables, registry, counters, history>>

\* ... then the other tables, in statements of their own.
Clears(r) ==
  /\ req[r].at = "clear"
  /\ kept' = [kept EXCEPT ![req[r].id] = {}]
  /\ Goes(r, "remove")
  /\ UNCHANGED <<rows, registry, counters, history>>

\* A statement fails, or the browser has gone and the request's context with
\* it: the handler answers 500 and does nothing more.
StatementFails(r) ==
  /\ req[r].at \in {"update", "secret", "save", "readBack", "delete", "clear",
                    "task"}
  /\ failures < MaxFailures
  /\ failures' = failures + 1
  /\ failed' = failed \cup {req[r].id}
  /\ dirty' = dirty \cup {req[r].id}
  /\ Answered(r)
  /\ UNCHANGED <<tables, registry, saves, asked, boots, crossed>>

\* withServer resolves the server a request is for, once ...
Resolves(r) ==
  /\ req[r].at = "scoped"
  /\ IF byID[req[r].id] = None THEN Answered(r)
     ELSE req' = [req EXCEPT ![r].at = "task", ![r].rt = byID[req[r].id]]
  /\ UNCHANGED <<tables, registry, counters, history>>

\* ... and handleSaveTask writes under that server's id.
SavesTask(r) ==
  /\ req[r].at = "task"
  /\ kept' = [kept EXCEPT ![req[r].id] = @ \cup {runtimes[req[r].rt].since}]
  /\ Answered(r)
  /\ UNCHANGED <<rows, registry, counters, history>>

RequestStep(r) ==
  \/ ChecksFree(r) \/ ChecksStored(r) \/ ReadsSecret(r) \/ Saves(r)
  \/ ReadsBack(r) \/ Adds(r) \/ AddsAgain(r) \/ Starts(r)
  \/ Removes(r) \/ Cancels(r) \/ DeletesRow(r) \/ Clears(r)
  \/ StatementFails(r) \/ Resolves(r) \/ SavesTask(r)

Next ==
  \/ Restart \/ RunTakes \/ RunStarts
  \/ \E r \in Requests :
       \/ \E op \in {"create", "update", "delete", "scoped"}, id \in Ids,
             blank \in BOOLEAN : Begin(r, op, id, blank)
       \/ RequestStep(r)

Spec == Init /\ [][Next]_vars
-----------------------------------------------------------------------------
(* 4. Properties                                                           *)

RowType == [version : Nat, since : Nat, secret : BOOLEAN, position : Nat]

TypeOK ==
  /\ rows \in [Ids -> RowType]
  /\ kept \in [Ids -> SUBSET Nat]
  /\ runtimes \in Seq([id : Ids, version : Nat, since : Nat])
  /\ byID \in [Ids -> {None} \cup DOMAIN runtimes]
  /\ ordered \in Seq(DOMAIN runtimes)
  /\ stop \in [Ids -> {None} \cup DOMAIN runtimes]
  /\ running \in BOOLEAN
  /\ toStart \in Seq(DOMAIN runtimes)
  /\ live \subseteq DOMAIN runtimes
  /\ crossed \subseteq Ids /\ failed \subseteq Ids /\ dirty \subseteq Ids

\* Nothing is going on for a server, and nothing ever met on it.
Quiet(id) ==
  /\ running
  /\ id \notin crossed
  /\ Active(id) = {}
  /\ \A i \in DOMAIN toStart : IdOf(toStart[i]) # id

Listed(id) == {i \in DOMAIN ordered : IdOf(ordered[i]) = id}
Alive(id) == {rt \in live : IdOf(rt) = id}

\* "Removing one stops exactly its goroutines and leaves the rest alone"
\* (dynamic.go, lifecycle.go), with what it takes for it: however requests
\* about different servers interleave, fail or are cut off, a server on which
\* two operations never met is listed once, runs once and can be stopped, and
\* one that was deleted is not listed and does not run.
QuietServersAgree ==
  \A id \in Ids : Quiet(id) =>
    IF byID[id] = None
    THEN Listed(id) = {} /\ Alive(id) = {} /\ stop[id] = None
    ELSE /\ \E i \in DOMAIN ordered : Listed(id) = {i} /\ ordered[i] = byID[id]
         /\ Alive(id) = {byID[id]}
         /\ stop[id] = byID[id]

\* "The database is the source of truth" (cmd/7dtd-panel/servers.go): unless a
\* statement failed, what runs is what is stored, as it was stored last; a
\* restart of the panel makes it so whatever went wrong before.
RunsWhatIsStored ==
  \A id \in Ids : Quiet(id) /\ id \notin failed =>
    IF rows[id].secret
    THEN byID[id] # None /\ runtimes[byID[id]].version = rows[id].version
    ELSE byID[id] = None

\* DeleteGameServer's promise: no server added later under the same id
\* inherits the tasks of the one before, if each deletion ran to its end.
NothingInherited ==
  \A id \in Ids : id \notin dirty /\ Active(id) = {} =>
    kept[id] \subseteq IF rows[id] = NoRow THEN {} ELSE {rows[id].since}
=============================================================================
