------------------------------ MODULE Automation ------------------------------
(***************************************************************************)
(* The task runner of one game server (internal/automation), the table its *)
(* tasks live in (internal/store/automation*.go) and the requests that     *)
(* write it (internal/api/automation.go).                                  *)
(*                                                                         *)
(* A task is judged on what was read at the start of a tick: the stored    *)
(* tasks, the poller's last snapshot, the clock.  Everything it does to    *)
(* the world comes later, one command at a time, while operators edit the  *)
(* table and, where two panels share a database or an edited server's old  *)
(* runtime lives on, another runner works through the same tasks.  What    *)
(* keeps them apart is the compare-and-set of ClaimTask.                   *)
(*                                                                         *)
(* The ten triggers have the shapes due.go names: "every", an interval;    *)
(* "daily", an occasion of the clock on the wall; "named", an occasion of  *)
(* the game (gametime, bloodmoon); "changing", a state of the world to be  *)
(* entered (empty, uptime); "over", one to be left (bloodmoonover); and    *)
(* "event" (join, leave, death), which no tick looks at.                   *)
(*                                                                         *)
(* A definition marked "Variant" is no part of the specification: it is    *)
(* the definition after it with one plausible mistake.                     *)
(***************************************************************************)
EXTENDS Integers, Sequences, SequencesExt, FiniteSetsExt

CONSTANTS
  Names,             \* task names, numbers so that they have an order
  Runners,           \* who may work through the tasks
  Setups,            \* the instances, of which one is chosen: the names in use,
                     \* the runners at work, whether the game answers their
                     \* polls, the forms of task that are saved, and bounds on
                     \* the clock, on the turns of the world, on the events, on
                     \* the requests that write the table, and on the faults:
                     \* stops, timeouts and failed statements
  AllowDestructive,  \* PANEL_ALLOW_DESTRUCTIVE
  Every,             \* minutes of an interval, in units of the model's clock
  Capacity           \* the buffer of a subscription to the feed

Shapes == {"every", "daily", "named", "changing", "over", "event"}
Lines == {"plain", "destructive", "who"}

ASSUME AutomationAssumption ==
  /\ Names \subseteq Nat /\ IsFiniteSet(Names) /\ IsFiniteSet(Runners)
  /\ \A s \in Setups :
       /\ s.names \subseteq Names /\ s.panels \subseteq Runners /\ s.polls \in BOOLEAN
       /\ \A f \in s.forms : /\ f.enabled \in BOOLEAN /\ f.shape \in Shapes
                             /\ f.lines \in Seq(Lines) \ {<<>>}
       /\ {s.time, s.turns, s.events, s.edits, s.faults} \subseteq Nat
       /\ s.time > 0
  /\ AllowDestructive \in BOOLEAN
  /\ Every \in Nat \ {0} /\ Capacity \in Nat \ {0}

VARIABLES
  setup,          \* the instance, read by no code
  time,           \* the clock of the machine, which all runners read
  world,          \* [occasion, on]: how often the game's state was left, and
                  \* whether it is in it now
  tasks,          \* automation_tasks
  runs,           \* automation_runs: per task the kinds of receipt it has
  deleting,       \* names whose row is deleted and whose receipts are not yet
  snap,           \* per runner what its poller last saw of the world
  inbox,          \* per runner the events in its subscription's channel
  deaf,           \* per runner whether the feed has dropped it
  work,           \* per runner and loop, what it is in the middle of
  events, edits, faults,
  log             \* history: per task what was run since it has its trigger

bookkeeping == <<tasks, runs, deleting, edits, log>>
vars == <<setup, time, world, tasks, runs, deleting, snap, inbox,
          deaf, work, events, edits, faults, log>>

NoTask == [shape |-> "none"]
NoSnap == [occasion |-> -1, on |-> FALSE]
NoKey == <<>>
Never == 0
Loops == {"ticks", "events"}

Idle == [todo |-> <<>>, snap |-> NoSnap, now |-> Never, named |-> FALSE,
         firing |-> FALSE, lines |-> <<>>, sent |-> 0, refused |-> FALSE]

Stored(n, form, lastRunAt, lastKey) ==
  [name |-> n, enabled |-> form.enabled, shape |-> form.shape,
   lines |-> form.lines, lastRunAt |-> lastRunAt, lastKey |-> lastKey]

Init ==
  /\ setup \in Setups
  /\ time = 1
  /\ world \in [occasion : {0}, on : BOOLEAN]
  /\ \E f \in [setup.names -> setup.forms] :
       tasks = [n \in Names |-> IF n \in setup.names
                                THEN Stored(n, f[n], Never, NoKey) ELSE NoTask]
  /\ runs = [n \in Names |-> {}]
  /\ deleting = {}
  /\ snap = [p \in Runners |-> NoSnap]
  /\ inbox = [p \in Runners |-> <<>>]
  /\ deaf = [p \in Runners |-> FALSE]
  /\ work = [c \in Runners \X Loops |-> Idle]
  /\ events = 0 /\ edits = 0 /\ faults = 0
  /\ log = [n \in Names |-> <<>>]
-----------------------------------------------------------------------------
(* 1. What is judged: due                                                  *)

\* Half the units of the clock are past a daily task's hour.
Day(now) == now \div 2
PastTheHour(now) == now % 2 = 1

\* Variant: the blood moon under way is named by its day.
VKeyOf(t, seen, now) ==
  CASE t.shape = "daily" -> <<"date", Day(now)>>
    [] t.shape = "named" -> <<"day", seen.occasion>>
    [] t.shape = "changing" /\ seen.on -> <<"on">>
    [] t.shape = "over" /\ seen.on -> <<"during", seen.occasion>>
    [] OTHER -> NoKey

\* decision.Key: what the world looks like to a task now.
KeyOf(t, seen, now) ==
  CASE t.shape = "daily" -> <<"date", Day(now)>>
    [] t.shape = "named" -> <<"day", seen.occasion>>
    [] t.shape = "changing" /\ seen.on -> <<"on">>
    [] t.shape = "over" /\ seen.on -> <<"during">>
    [] OTHER -> NoKey

\* decision.StartClock.
StartsClock(t) == t.shape = "every" /\ t.lastRunAt = Never

\* decision.Remember: noted, and nothing run.
Remembers(t, seen, now) ==
  /\ seen # NoSnap
  /\ \/ t.shape = "changing" /\ ~seen.on
     \/ t.shape = "over" /\ seen.on
  /\ t.lastKey # KeyOf(t, seen, now)

\* decision.Fire.
Fires(t, seen, now) ==
  \/ t.shape = "every" /\ t.lastRunAt # Never /\ now - t.lastRunAt >= Every
  \/ t.shape = "daily" /\ PastTheHour(now) /\ t.lastKey # KeyOf(t, seen, now)
  \/ /\ seen # NoSnap
     /\ \/ /\ t.shape \in {"named", "changing"} /\ seen.on
           /\ t.lastKey # KeyOf(t, seen, now)
        \/ t.shape = "over" /\ ~seen.on /\ t.lastKey = <<"during">>
-----------------------------------------------------------------------------
(* 2. The world, the feed and the operators                                *)

TimePasses ==
  /\ time < setup.time
  /\ time' = time + 1
  /\ UNCHANGED <<setup, world, bookkeeping, snap, inbox, deaf, work,
                 events, faults>>

\* The world enters the state, or leaves it, and the next time is another
\* occasion.
WorldTurns ==
  /\ world.occasion < setup.turns
  /\ world' = IF world.on THEN [occasion |-> world.occasion + 1, on |-> FALSE]
              ELSE [world EXCEPT !.on = TRUE]
  /\ UNCHANGED <<setup, time, bookkeeping, snap, inbox, deaf, work,
                 events, faults>>

\* The poller of this runner's server publishes what it sees.
Polls(p) ==
  /\ p \in setup.panels /\ setup.polls /\ snap[p] # world
  /\ snap' = [snap EXCEPT ![p] = world]
  /\ UNCHANGED <<setup, time, world, bookkeeping, inbox, deaf, work,
                 events, faults>>

\* A player joins, leaves or dies: every runner's subscription gets the event,
\* and one whose channel is full is dropped with what it has.
EventHappens(named) ==
  /\ events < setup.events
  /\ events' = events + 1
  /\ inbox' = [p \in Runners |->
       IF p \in setup.panels /\ ~deaf[p] /\ Len(inbox[p]) < Capacity
       THEN Append(inbox[p], named) ELSE inbox[p]]
  /\ deaf' = [p \in Runners |->
       deaf[p] \/ (p \in setup.panels /\ Len(inbox[p]) = Capacity)]
  /\ UNCHANGED <<setup, time, world, bookkeeping, snap, work, faults>>

\* Variant: a task that is saved starts over.
VSaved(n, form) == Stored(n, form, Never, NoKey)

\* SaveTask: the bookkeeping belongs to the running, not to the writing.
Saved(n, form) ==
  IF tasks[n] = NoTask THEN Stored(n, form, Never, NoKey)
  ELSE Stored(n, form, tasks[n].lastRunAt, tasks[n].lastKey)

SavesTask(n, form) ==
  /\ n \in setup.names
  /\ edits < setup.edits
  /\ edits' = edits + 1
  /\ tasks' = [tasks EXCEPT ![n] = Saved(n, form)]
  /\ log' = IF tasks[n].shape = form.shape THEN log
            ELSE [log EXCEPT ![n] = <<>>]
  /\ UNCHANGED <<setup, time, world, runs, deleting, snap, inbox, deaf,
                 work, events, faults>>

\* DeleteTask, its first statement ...
DeletesTask(n) ==
  /\ tasks[n] # NoTask
  /\ edits < setup.edits
  /\ edits' = edits + 1
  /\ tasks' = [tasks EXCEPT ![n] = NoTask]
  /\ log' = [log EXCEPT ![n] = <<>>]
  /\ deleting' = deleting \cup {n}
  /\ UNCHANGED <<setup, time, world, runs, snap, inbox, deaf, work,
                 events, faults>>

\* ... and its second, which may fail or find its request cut off.
DeletesRuns(n) ==
  /\ n \in deleting
  /\ deleting' = deleting \ {n}
  /\ \/ runs' = [runs EXCEPT ![n] = {}] /\ UNCHANGED faults
     \/ faults < setup.faults /\ faults' = faults + 1 /\ UNCHANGED runs
  /\ UNCHANGED <<setup, time, world, tasks, edits, log, snap, inbox,
                 deaf, work, events>>
-----------------------------------------------------------------------------
(* 3. Carrying a task out: fire                                            *)

Current(c) == Head(work[c].todo)

\* expand: only an event has a who; one that names nobody leaves a line empty,
\* and an empty line is passed over.
Expanded(lines, loop, named) ==
  LET kept[i \in 0..Len(lines)] ==
        IF i = 0 THEN <<>>
        ELSE IF lines[i] = "who" /\ loop = "events" /\ ~named THEN kept[i - 1]
        ELSE Append(kept[i - 1], lines[i])
  IN kept[Len(lines)]

Unacceptable(lines) ==
  lines = <<>> \/ ("destructive" \in ToSet(lines) /\ ~AllowDestructive)

\* prepare: all of them, or none if one of them will not do.
Prepared(lines) == IF Unacceptable(lines) THEN <<>> ELSE lines

\* Variant: a line the panel does not send is passed over.
VFiring(c) ==
  LET lines == Expanded(Current(c).lines, c[2], work[c].named)
  IN [work[c] EXCEPT !.firing = TRUE, !.sent = 0, !.refused = lines = <<>>,
                     !.lines = SelectSeq(lines, LAMBDA l : l # "destructive")]

Firing(c) ==
  LET lines == Expanded(Current(c).lines, c[2], work[c].named)
  IN [work[c] EXCEPT !.firing = TRUE, !.lines = Prepared(lines), !.sent = 0,
                     !.refused = Unacceptable(lines)]

\* On to the next task of the list, or done with it.
Moved(c) ==
  IF Len(work[c].todo) = 1 THEN Idle
  ELSE [work[c] EXCEPT !.todo = Tail(@), !.firing = FALSE, !.lines = <<>>,
                       !.sent = 0, !.refused = FALSE]

InFire(c) == work[c].firing /\ ~work[c].refused
Unsent(c) == work[c].sent < Len(work[c].lines)

\* Execute, one line after another, until the server refuses one.
Sends(c) ==
  /\ InFire(c) /\ Unsent(c)
  /\ \/ work' = [work EXCEPT ![c].sent = @ + 1]
     \/ work' = [work EXCEPT ![c].refused = TRUE]
  /\ UNCHANGED <<setup, time, world, bookkeeping, snap, inbox, deaf,
                 events, faults>>

Receipt(c) ==
  LET w == work[c]
  IN [ok |-> ~w.refused,
      sent |-> IF w.sent = 0 THEN "nothing"
               ELSE IF Unsent(c) THEN "part" ELSE "all",
      allowed |-> ~Unacceptable(Expanded(Current(c).lines, c[2], w.named))]

\* Variant: what went wrong is not worth a receipt.
VEnds(c) ==
  /\ work[c].firing
  /\ ~InFire(c) \/ ~Unsent(c)
  /\ runs' = IF work[c].refused THEN runs
             ELSE [runs EXCEPT ![Current(c).name] = @ \cup {Receipt(c)}]
  /\ work' = [work EXCEPT ![c] = Moved(c)]
  /\ UNCHANGED <<setup, time, world, tasks, deleting, edits, log, snap,
                 inbox, deaf, events, faults>>

\* The run is announced, if a tick began it, and its receipt stored.
Ends(c) ==
  /\ work[c].firing
  /\ ~InFire(c) \/ ~Unsent(c)
  /\ runs' = [runs EXCEPT ![Current(c).name] = @ \cup {Receipt(c)}]
  /\ work' = [work EXCEPT ![c] = Moved(c)]
  /\ UNCHANGED <<setup, time, world, tasks, deleting, edits, log, snap,
                 inbox, deaf, events, faults>>

\* The sixty seconds are over, and AddTaskRun has the same context; or the
\* statement fails.
EndsSilently(c) ==
  /\ work[c].firing
  /\ faults < setup.faults
  /\ faults' = faults + 1
  /\ work' = [work EXCEPT ![c] = Moved(c)]
  /\ UNCHANGED <<setup, time, world, bookkeeping, snap, inbox, deaf,
                 events>>
-----------------------------------------------------------------------------
(* 4. The ticks                                                            *)

\* The names of the stored tasks a loop is about, if they are enabled.
Watched(isEvent) ==
  {n \in Names : /\ tasks[n] # NoTask /\ tasks[n].enabled
                 /\ (tasks[n].shape = "event") = isEvent}

\* The stored tasks of these names in a list, of which there is one: by name.
Listed(names) ==
  {list \in [1..Cardinality(names) -> {tasks[n] : n \in names}] :
     \A i, j \in DOMAIN list : i < j => list[i].name < list[j].name}

\* Something follows from the decision, which depends on what was read alone.
Matters(t, seen, now) ==
  Fires(t, seen, now) \/ Remembers(t, seen, now) \/ StartsClock(t)

\* Tick reads all it is going to judge by.
TickReads(p) ==
  /\ p \in setup.panels
  /\ work[<<p, "ticks">>] = Idle
  /\ \E todo \in Listed({n \in Watched(FALSE) : Matters(tasks[n], snap[p], time)}) :
       /\ todo # <<>>
       /\ work' = [work EXCEPT ![<<p, "ticks">>] =
            [Idle EXCEPT !.todo = todo, !.snap = snap[p], !.now = time]]
  /\ UNCHANGED <<setup, time, world, bookkeeping, snap, inbox, deaf, events,
                 faults>>

Judging(c) == c[2] = "ticks" /\ work[c].todo # <<>> /\ ~work[c].firing
WantsIt(c) == Fires(Current(c), work[c].snap, work[c].now)
ToRemember(c) == Remembers(Current(c), work[c].snap, work[c].now)
NewKey(c) == KeyOf(Current(c), work[c].snap, work[c].now)

\* SetTaskKey: only where the key is still the one that was read.
SetsKey(c) ==
  /\ Judging(c) /\ ToRemember(c)
  /\ LET t == Current(c) stored == tasks[t.name]
     IN tasks' = IF stored # NoTask /\ stored.lastKey = t.lastKey
                 THEN [tasks EXCEPT ![t.name].lastKey = NewKey(c)] ELSE tasks
  /\ work' = [work EXCEPT ![c] = Moved(c)]
  /\ UNCHANGED <<setup, time, world, runs, deleting, edits, log, snap,
                 inbox, deaf, events, faults>>

\* Variant: the key decides, and an interval has none.
VMatches(stored, read) == stored # NoTask /\ stored.lastKey = read.lastKey

\* Variant: a task that never ran is looked for under the zero time of Go.
VNeverMatches(stored, read) ==
  /\ stored # NoTask
  /\ stored.lastRunAt = read.lastRunAt /\ read.lastRunAt # Never
  /\ stored.lastKey = read.lastKey

\* ClaimTask's WHERE: the bookkeeping is still what the caller read.
Matches(stored, read) ==
  /\ stored # NoTask
  /\ stored.lastRunAt = read.lastRunAt
  /\ stored.lastKey = read.lastKey

Stamped(c) ==
  [tasks EXCEPT ![Current(c).name].lastRunAt = work[c].now,
                ![Current(c).name].lastKey = NewKey(c)]

\* ClaimTask, lost.
LosesClaim(c) ==
  /\ Judging(c) /\ ~ToRemember(c)
  /\ ~Matches(tasks[Current(c).name], Current(c))
  /\ work' = [work EXCEPT ![c] = Moved(c)]
  /\ UNCHANGED <<setup, time, world, bookkeeping, snap, inbox, deaf,
                 events, faults>>

\* ClaimTask, for an interval that gets a point to count from.
StampsStart(c) ==
  /\ Judging(c) /\ StartsClock(Current(c))
  /\ Matches(tasks[Current(c).name], Current(c))
  /\ tasks' = Stamped(c)
  /\ work' = [work EXCEPT ![c] = Moved(c)]
  /\ UNCHANGED <<setup, time, world, runs, deleting, edits, log, snap,
                 inbox, deaf, events, faults>>

\* History: a run is noted, the same one up to twice.
Noted(past, entry) ==
  IF Cardinality({i \in DOMAIN past : past[i] = entry}) = 2 THEN past
  ELSE Append(past, entry)

\* ClaimTask, won: the task is run.
WinsClaim(c) ==
  /\ Judging(c) /\ WantsIt(c)
  /\ Matches(tasks[Current(c).name], Current(c))
  /\ tasks' = Stamped(c)
  /\ work' = [work EXCEPT ![c] = Firing(c)]
  /\ log' = [log EXCEPT ![Current(c).name] = Noted(@,
       [shape |-> Current(c).shape, at |-> work[c].now,
        occasion |-> IF Current(c).shape \in {"every", "daily"} THEN Day(work[c].now)
                     ELSE work[c].snap.occasion])]
  /\ UNCHANGED <<setup, time, world, runs, deleting, edits, snap, inbox,
                 deaf, events, faults>>

\* A statement fails: this task waits for the next tick.
StatementFails(c) ==
  /\ Judging(c)
  /\ faults < setup.faults
  /\ faults' = faults + 1
  /\ work' = [work EXCEPT ![c] = Moved(c)]
  /\ UNCHANGED <<setup, time, world, bookkeeping, snap, inbox, deaf,
                 events>>
-----------------------------------------------------------------------------
(* 5. The events                                                           *)

\* onEvent: whichever tasks wait for it, without a claim.
Hears(p) ==
  LET c == <<p, "events">>
  IN /\ work[c] = Idle /\ inbox[p] # <<>>
     /\ inbox' = [inbox EXCEPT ![p] = Tail(@)]
     /\ \E todo \in Listed(Watched(TRUE)) :
          work' = [work EXCEPT ![c].todo = todo,
                               ![c].named = Head(inbox[p]) /\ todo # <<>>]
     /\ UNCHANGED <<setup, time, world, bookkeeping, snap, deaf, events,
                    faults>>

StartsFire(c) ==
  /\ c[2] = "events" /\ work[c].todo # <<>> /\ ~work[c].firing
  /\ work' = [work EXCEPT ![c] = Firing(c)]
  /\ UNCHANGED <<setup, time, world, bookkeeping, snap, inbox, deaf,
                 events, faults>>

\* watchEvents: the channel is closed and drained, a new one is asked for.
Resubscribes(p) ==
  /\ deaf[p] /\ inbox[p] = <<>> /\ work[<<p, "events">>] = Idle
  /\ deaf' = [deaf EXCEPT ![p] = FALSE]
  /\ UNCHANGED <<setup, time, world, bookkeeping, snap, inbox, work,
                 events, faults>>

\* The panel, or this server's runtime, is stopped at any moment and comes up
\* again with nothing but the tables.
Stops(p) ==
  /\ p \in setup.panels
  /\ faults < setup.faults
  /\ faults' = faults + 1
  /\ snap' = [snap EXCEPT ![p] = NoSnap]
  /\ inbox' = [inbox EXCEPT ![p] = <<>>]
  /\ deaf' = [deaf EXCEPT ![p] = FALSE]
  /\ work' = [c \in Runners \X Loops |-> IF c[1] = p THEN Idle ELSE work[c]]
  /\ UNCHANGED <<setup, time, world, bookkeeping, events>>
-----------------------------------------------------------------------------
Loop(c) ==
  \/ Sends(c) \/ Ends(c)
  \/ SetsKey(c) \/ LosesClaim(c) \/ StampsStart(c)
  \/ WinsClaim(c) \/ StartsFire(c)

Next ==
  \/ TimePasses \/ WorldTurns
  \/ \E named \in BOOLEAN : EventHappens(named)
  \/ \E n \in Names : DeletesTask(n) \/ DeletesRuns(n)
  \/ \E n \in Names, form \in setup.forms : SavesTask(n, form)
  \/ \E p \in Runners :
       Polls(p) \/ TickReads(p) \/ Hears(p) \/ Resubscribes(p) \/ Stops(p)
  \/ \E c \in Runners \X Loops : Loop(c) \/ EndsSilently(c) \/ StatementFails(c)

\* The pollers poll, the ticker ticks and what was begun goes on: a command is
\* answered or times out.  Nothing is assumed of the clock, the world, the
\* operators or the faults.
Spec ==
  /\ Init /\ [][Next]_vars
  /\ \A p \in Runners : WF_vars(Polls(p)) /\ WF_vars(TickReads(p))
  /\ \A c \in Runners \X Loops : WF_vars(Loop(c))
-----------------------------------------------------------------------------
(* 6. Properties                                                           *)

KeyType ==
  {NoKey, <<"on">>, <<"during">>}
    \cup {<<tag, k>> : tag \in {"date", "day"}, k \in 0..(setup.time + setup.turns)}

TaskType ==
  [name : Names, enabled : BOOLEAN, shape : Shapes,
   lines : {f.lines : f \in setup.forms}, lastRunAt : 0..setup.time, lastKey : KeyType]

ReceiptType ==
  [ok : BOOLEAN, sent : {"nothing", "part", "all"}, allowed : BOOLEAN]

TypeOK ==
  /\ \A n \in Names : tasks[n] # NoTask => tasks[n] \in TaskType
  /\ runs \in [Names -> SUBSET ReceiptType]
  /\ deleting \subseteq Names
  /\ \A p \in Runners : Len(inbox[p]) <= Capacity
  /\ \A c \in Runners \X Loops :
       /\ \A i \in DOMAIN work[c].todo : work[c].todo[i] \in TaskType
       /\ work[c].firing => work[c].todo # <<>>
       /\ work[c].sent \in 0..Len(work[c].lines)

\* "Two ticks overlapping, or two panels on one database, must not both run
\* the same restart" (runner.go), and "editing a daily task at noon must not
\* make it run again at noon" (store/automation.go): a task that keeps its
\* trigger runs once on each occasion.  Of the triggers that look at the game
\* that is said of one runner only: two with snapshots of different age undo
\* each other's notes; and such a note made late, by one of several, may undo
\* the date of a daily task that has taken the name in between, which is why
\* the instances keep the two apart.  Of an interval it says that two claims
\* are that far apart, whatever was read and however late it is acted on.
OncePerOccasion ==
  \A n \in Names : \A i, j \in DOMAIN log[n] :
    i < j /\ log[n][i].shape = log[n][j].shape =>
      LET first == log[n][i]  second == log[n][j]
      IN CASE first.shape = "every" -> second.at - first.at >= Every
           [] first.shape = "daily" -> second.occasion # first.occasion
           [] OTHER -> Cardinality(setup.panels) = 1
                       => second.occasion # first.occasion

\* "Every line is expanded and checked before any of them is sent" (fire.go):
\* a task with one line the panel does not send has none of its others sent,
\* and a receipt without an error means that all of them were.
NothingHalfDone ==
  /\ \A n \in Names : \A r \in runs[n] :
       /\ r.ok => r.sent = "all"
       /\ ~r.allowed => r.sent = "nothing" /\ ~r.ok
  /\ \A c \in Runners \X Loops : work[c].sent > 0 =>
       AllowDestructive \/ "destructive" \notin ToSet(Current(c).lines)

\* A stored task that is due, as its clock and the world are now.
Overdue(n) ==
  /\ tasks[n] # NoTask /\ tasks[n].enabled
  /\ \/ Fires(tasks[n], IF setup.polls THEN world ELSE NoSnap, time)
     \/ StartsClock(tasks[n])

\* A run of this task is under way, claimed by a tick or begun by an event.
UnderWay(n) == \E c \in Runners \X Loops : work[c].firing /\ Current(c).name = n

\* "A missed restart is worth doing late" (due.go).  That is kept up to the
\* claim: through stops, lost claims, failed statements and edits a task that is
\* due is claimed, or gets its starting point, unless it or the world changes
\* first.  From there on it is kept only while nothing goes wrong: every run under
\* way comes to an end, and to a receipt unless a runner was stopped, ran into its
\* sixty seconds or lost a statement.  The claim is not given back then, nor when
\* a line is refused: the occasion is over, and what was not sent of it is not
\* sent late (runner.go, before fire).
GoesOff ==
  \A n \in Names :
    /\ Overdue(n) ~> ~Overdue(n)
    /\ UnderWay(n) ~> ~UnderWay(n) /\ (runs[n] # {} \/ faults > 0)
=============================================================================
