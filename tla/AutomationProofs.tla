--------------------------- MODULE AutomationProofs ---------------------------
(***************************************************************************)
(* What the task runner is worth for any number of runners, tasks, edits,  *)
(* stops and failing statements: a fire sends all of its lines or none of  *)
(* one that will not do, and an occasion is taken once.                    *)
(*                                                                         *)
(* The argument: the snapshots a runner reads never go back (InTurn).      *)
(* What a task has run for is told by its key and by its last run (Dated,  *)
(* Turned), as long as nobody writes a key on an old reading.  The claim   *)
(* sees to that: a reading that wins it is still what is stored.  A note   *)
(* alone is not so careful; where there is one runner it need not be, as   *)
(* nothing is run between his reading and his note (Fresh).                *)
(***************************************************************************)
EXTENDS Automation, SequenceTheorems, FiniteSetTheorems, WellFoundedInduction, TLAPS

Callers == Runners \X Loops
Alone == Cardinality(setup.panels) = 1

\* Where several runners share a table, its tasks are about the clock or about
\* the game, and none is changed from one to the other.
OneKind ==
  \/ Alone
  \/ \A form \in setup.forms : form.shape # "daily"
  \/ \A form \in setup.forms : form.shape \in {"every", "daily", "event"}

Snaps == [occasion : 0..setup.turns, on : BOOLEAN]
Entries == [shape : Shapes, at : 0..setup.time, occasion : Int]
FormShapes == {form.shape : form \in setup.forms}

Works ==
  [todo : Seq(TaskType), snap : Snaps \cup {NoSnap}, now : 0..setup.time, named : BOOLEAN,
   firing : BOOLEAN, lines : Seq(Lines), sent : Nat, refused : BOOLEAN]

Typed ==
  /\ setup \in Setups
  /\ time \in 1..setup.time
  /\ world \in Snaps
  /\ tasks \in [Names -> TaskType \cup {NoTask}]
  /\ \A n \in Names : tasks[n] # NoTask => tasks[n].name = n /\ tasks[n].shape \in FormShapes
  /\ runs \in [Names -> SUBSET ReceiptType]
  /\ deleting \subseteq Names
  /\ snap \in [Runners -> Snaps \cup {NoSnap}]
  /\ inbox \in [Runners -> Seq(BOOLEAN)]
  /\ \A p \in Runners : Len(inbox[p]) <= Capacity
  /\ deaf \in [Runners -> BOOLEAN]
  /\ work \in [Callers -> Works]
  /\ log \in [Names -> Seq(Entries)]

\* What is being sent is all of the task's lines, of which none is refused.
Whole(w, loop) ==
  /\ w.firing => /\ w.todo # <<>>
                 /\ w.lines = Prepared(Expanded(Head(w.todo).lines, loop, w.named))
                 /\ Unacceptable(Expanded(Head(w.todo).lines, loop, w.named)) => w.refused
  /\ ~w.firing => w.sent = 0
  /\ w.sent <= Len(w.lines)

Carried == \A c \in Callers : Whole(work[c], c[2])

Receipts ==
  \A n \in Names : \A r \in runs[n] :
    /\ r.ok => r.sent = "all"
    /\ ~r.allowed => r.sent = "nothing" /\ ~r.ok

\* What a tick works through was read at its beginning.
Read(w) ==
  /\ w.now <= time
  /\ \A i \in DOMAIN w.todo : w.todo[i].lastRunAt <= w.now /\ w.todo[i].shape \in FormShapes
  /\ \A i, j \in DOMAIN w.todo : i < j => w.todo[i].name < w.todo[j].name

Readings == \A p \in Runners : Read(work[<<p, "ticks">>])

\* What has been run was run by the clock of the task's row.
Logged ==
  \A n \in Names :
    /\ tasks[n] # NoTask => tasks[n].lastRunAt <= time
    /\ \A i \in DOMAIN log[n] :
         /\ tasks[n] # NoTask /\ log[n][i].at <= tasks[n].lastRunAt
         /\ log[n][i].shape \in FormShapes
         /\ log[n][i].shape = "daily" =>
              PastTheHour(log[n][i].at) /\ log[n][i].occasion = Day(log[n][i].at)

\* The world has turns, and goes through them: out, in, out the next time.
Rank(seen) == 2 * seen.occasion + (IF seen.on THEN 1 ELSE 0)
NotBefore(seen, rank) == seen = NoSnap \/ rank <= Rank(seen)

InTurn ==
  \A p \in Runners :
    /\ p \notin setup.panels => work[<<p, "ticks">>] = Idle /\ snap[p] = NoSnap
    /\ snap[p] = NoSnap \/ Rank(snap[p]) <= Rank(world)
    /\ LET w == work[<<p, "ticks">>]
       IN w.snap # NoSnap => snap[p] # NoSnap /\ Rank(w.snap) <= Rank(snap[p])

\* A single runner's reading is what is stored, where anything was run.
StillStored(p, i) ==
  LET t == work[<<p, "ticks">>].todo[i]
  IN \/ log[t.name] = <<>>
     \/ /\ tasks[t.name].shape = t.shape
        /\ tasks[t.name].lastKey = t.lastKey

Fresh ==
  Alone => \A p \in Runners : \A i \in DOMAIN work[<<p, "ticks">>].todo :
             (work[<<p, "ticks">>].firing => i # 1) => StillStored(p, i)

\* A daily task tells by its key, or by its last run, which days it has run on.
Dated ==
  \A n \in Names : \A i \in DOMAIN log[n] :
    log[n][i].shape = "daily" /\ (Alone => tasks[n].shape = "daily") =>
      \/ log[n][i].occasion < Day(tasks[n].lastRunAt)
      \/ tasks[n].lastKey = <<"date", log[n][i].occasion>>

\* The least rank a snapshot may have after a run, as the task's key tells.
Floor(entry, key) ==
  2 * entry.occasion +
  (CASE entry.shape = "named" -> IF key = <<"day", entry.occasion>> THEN 1 ELSE 2
     [] entry.shape = "changing" -> IF key = <<"on">> THEN 1 ELSE 2
     [] OTHER -> IF key = <<"during">> THEN 1 ELSE 0)

Turned ==
  Alone => \A n \in Names : \A i \in DOMAIN log[n] :
    log[n][i].shape \in {"named", "changing", "over"} /\ tasks[n].shape = log[n][i].shape =>
      LET least == Floor(log[n][i], tasks[n].lastKey)
      IN /\ least <= Rank(world)
         /\ \A p \in Runners : /\ NotBefore(snap[p], least)
                               /\ NotBefore(work[<<p, "ticks">>].snap, least)

\* Two runs of an interval are that far apart.
Spaced ==
  \A n \in Names : \A i, j \in DOMAIN log[n] :
    i < j /\ log[n][i].shape = "every" /\ log[n][j].shape = "every" =>
      log[n][j].at - log[n][i].at >= Every

Acted == Typed /\ Carried /\ Receipts
Noticed == Readings /\ Logged /\ Spaced
Judged == InTurn /\ Fresh /\ Dated /\ Turned
OnceEach == OneKind => Judged /\ OncePerOccasion
-----------------------------------------------------------------------------
(***************************************************************************)
(* The lines and the lists.                                                *)
(***************************************************************************)

\* Counting up from zero reaches every natural number.
LEMMA CountingUp ==
  ASSUME NEW S, 0 \in S, \A n \in Nat : n \in S => n + 1 \in S
  PROVE  Nat \subseteq S
<1> DEFINE Below == OpToRel(<, Nat)
<1>1. IsWellFoundedOn(Below, Nat)
  BY NatLessThanWellFounded
<1>2. ASSUME Nat \ S # {}
      PROVE  FALSE
  <2>1. \E x \in Nat \ S : \A y \in Nat \ S : <<y, x>> \notin Below
    <3> HIDE DEF Below
    <3>1. QED
      BY <1>1, <1>2, WFMin
  <2>2. PICK x \in Nat \ S : \A y \in Nat \ S : <<y, x>> \notin Below
    BY <2>1
  <2>3. x - 1 \in Nat /\ x - 1 \notin S
    <3>1. x # 0
      OBVIOUS
    <3>2. x - 1 \in Nat /\ (x - 1) + 1 = x
      BY <3>1
    <3>3. QED
      BY <3>2
  <2>4. <<x - 1, x>> \in Below
    BY <2>3 DEF OpToRel
  <2>5. QED
    BY <2>2, <2>3, <2>4
<1>3. QED
  BY <1>2

\* What is left of a task's lines for an event has the destructive ones among
\* them still.
LEMMA ExpandedLines ==
  ASSUME NEW lines \in Seq(Lines), NEW loop, NEW named
  PROVE  /\ Expanded(lines, loop, named) \in Seq(Lines)
         /\ "destructive" \in ToSet(lines) =>
              "destructive" \in ToSet(Expanded(lines, loop, named))
<1> DEFINE total == Len(lines)
           Skipped(l) == l = "who" /\ loop = "events" /\ ~named
           Keeps(g, n) == g = [i \in 0..n |-> IF i = 0 THEN <<>>
                                              ELSE IF Skipped(lines[i]) THEN g[i - 1]
                                              ELSE Append(g[i - 1], lines[i])]
           kept == CHOOSE g : Keeps(g, total)
<1>1. Expanded(lines, loop, named) = kept[total]
  BY DEF Expanded
<1>2. total \in Nat /\ \A i \in 1..total : lines[i] \in Lines
  BY LenProperties, ElementOfSeq
<1>3. \A n \in Nat : \E g : Keeps(g, n)
  <2> DEFINE S == {n \in Nat : \E g : Keeps(g, n)}
  <2>1. 0 \in S
    <3> DEFINE h == [m \in 0..0 |-> <<>>]
    <3>1. Keeps(h, 0)
      OBVIOUS
    <3> HIDE DEF h, Keeps
    <3>2. QED
      BY <3>1
  <2>2. ASSUME NEW n \in Nat, n \in S
        PROVE  n + 1 \in S
    <3>1. PICK g : Keeps(g, n)
      BY <2>2
    <3> DEFINE last == IF Skipped(lines[n + 1]) THEN g[n] ELSE Append(g[n], lines[n + 1])
               h == [m \in 0..(n + 1) |-> IF m = n + 1 THEN last ELSE g[m]]
    <3>2. \A m \in 0..n :
            h[m] = g[m] /\ g[m] = IF m = 0 THEN <<>> ELSE IF Skipped(lines[m]) THEN g[m - 1]
                                  ELSE Append(g[m - 1], lines[m])
      <4>1. \A m \in 0..n : g[m] = IF m = 0 THEN <<>> ELSE IF Skipped(lines[m]) THEN g[m - 1]
                                   ELSE Append(g[m - 1], lines[m])
        BY <3>1
      <4>2. \A m \in 0..n : m \in 0..(n + 1) /\ m # n + 1
        OBVIOUS
      <4> HIDE DEF last, Skipped
      <4>3. QED
        BY <4>1, <4>2
    <3>3. h[n + 1] = last
      OBVIOUS
    <3>4. ASSUME NEW m \in 0..(n + 1)
          PROVE  h[m] = IF m = 0 THEN <<>> ELSE IF Skipped(lines[m]) THEN h[m - 1]
                        ELSE Append(h[m - 1], lines[m])
      <4>1. CASE m = n + 1
        <5>1. m # 0 /\ m - 1 = n /\ n \in 0..n
          BY <4>1
        <5>2. h[m - 1] = g[n]
          BY <3>2, <5>1
        <5> HIDE DEF h, Skipped
        <5>3. QED
          BY <3>3, <4>1, <5>1, <5>2
      <4>2. CASE m # n + 1
        <5>1. m \in 0..n /\ (m # 0 => m - 1 \in 0..n)
          BY <4>2
        <5> HIDE DEF h, Skipped
        <5>2. QED
          BY <3>2, <5>1
      <4>3. QED
        BY <4>1, <4>2
    <3>5. Keeps(h, n + 1)
      <4>1. h = [m \in 0..(n + 1) |-> h[m]]
        OBVIOUS
      <4> HIDE DEF h, Skipped
      <4>2. QED
        BY <3>4, <4>1
    <3> HIDE DEF Keeps
    <3>6. QED
      BY <3>5
  <2> HIDE DEF S
  <2>3. Nat \subseteq S
    BY <2>1, <2>2, CountingUp
  <2>4. QED
    BY <2>3 DEF S
<1>4. Keeps(kept, total)
  <2> HIDE DEF Keeps
  <2>1. QED
    BY <1>2, <1>3
<1> HIDE DEF kept
<1>5. kept[0] = <<>>
  BY <1>2, <1>4
<1>6. \A i \in 1..total : kept[i] = IF Skipped(lines[i]) THEN kept[i - 1]
                                    ELSE Append(kept[i - 1], lines[i])
  <2>1. \A i \in 0..total : kept[i] = IF i = 0 THEN <<>> ELSE IF Skipped(lines[i]) THEN kept[i - 1]
                                      ELSE Append(kept[i - 1], lines[i])
    BY <1>4
  <2> HIDE DEF Skipped
  <2>2. QED
    BY <2>1
<1> DEFINE Has(s) == \E j \in 1..Len(s) : s[j] = "destructive"
           Fine(n) == /\ kept[n] \in Seq(Lines)
                      /\ (\E i \in 1..n : lines[i] = "destructive") => Has(kept[n])
           T == {n \in Nat : n <= total => Fine(n)}
<1>7. 0 \in T
  <2>1. kept[0] \in Seq(Lines) /\ ~(\E i \in 1..0 : lines[i] = "destructive")
    BY <1>5
  <2> HIDE DEF Has
  <2>2. Fine(0)
    BY <2>1
  <2> HIDE DEF Fine
  <2>3. QED
    BY <2>2
<1>8. ASSUME NEW n \in Nat, n \in T
      PROVE  n + 1 \in T
  <2>1. ASSUME n + 1 <= total
        PROVE  Fine(n + 1)
    <3>1. n + 1 \in 1..total /\ (n + 1) - 1 = n /\ n <= total
      BY <1>2, <2>1
    <3>2. Fine(n)
      BY <1>8, <3>1
    <3>3. CASE Skipped(lines[n + 1])
      <4>1. kept[n + 1] = kept[n] /\ lines[n + 1] # "destructive"
        BY <1>6, <3>1, <3>3
      <4>2. QED
        BY <3>2, <4>1
    <3>4. CASE ~Skipped(lines[n + 1])
      <4>1. kept[n + 1] = Append(kept[n], lines[n + 1]) /\ lines[n + 1] \in Lines
        BY <1>2, <1>6, <3>1, <3>4
      <4>2. /\ kept[n + 1] \in Seq(Lines) /\ Len(kept[n]) \in Nat
            /\ Len(kept[n + 1]) = Len(kept[n]) + 1
            /\ \A j \in 1..Len(kept[n]) : kept[n + 1][j] = kept[n][j]
            /\ kept[n + 1][Len(kept[n]) + 1] = lines[n + 1]
        BY <3>2, <4>1, AppendProperties, LenProperties
      <4>3. Has(kept[n]) => Has(kept[n + 1])
        BY <4>2
      <4>4. lines[n + 1] = "destructive" => Has(kept[n + 1])
        BY <4>2
      <4> HIDE DEF Has
      <4>5. QED
        BY <3>2, <4>2, <4>3, <4>4
    <3>5. QED
      BY <3>3, <3>4
  <2> HIDE DEF Fine
  <2>2. QED
    BY <2>1
<1> HIDE DEF T
<1>9. Nat \subseteq T
  BY <1>7, <1>8, CountingUp
<1>10. Fine(total)
  BY <1>2, <1>9 DEF T
<1>11. Len(kept[total]) \in Nat /\ DOMAIN kept[total] = 1..Len(kept[total])
       /\ DOMAIN lines = 1..total
  BY <1>10, LenProperties
<1>12. QED
  BY <1>1, <1>10, <1>11 DEF ToSet

\* A list is one of stored tasks, in order of their names.
LEMMA ListedTasks ==
  ASSUME AutomationAssumption, Typed,
         NEW names \in SUBSET {n \in Names : tasks[n] # NoTask},
         NEW list \in Listed(names)
  PROVE  /\ list \in Seq(TaskType)
         /\ \A i \in DOMAIN list : list[i].name \in names /\ list[i] = tasks[list[i].name]
         /\ \A i, j \in DOMAIN list : i < j => list[i].name < list[j].name
<1>1. Cardinality(names) \in Nat
  BY FS_Subset, FS_CardinalityType DEF AutomationAssumption
<1>2. list \in [1..Cardinality(names) -> {tasks[n] : n \in names}]
  BY DEF Listed
<1>3. \A i \in DOMAIN list : \E n \in names : list[i] = tasks[n]
  BY <1>2
<1>4. \A n \in names : n \in Names /\ tasks[n] \in TaskType /\ tasks[n].name = n
  BY DEF Typed
<1>5. \A i \in DOMAIN list : list[i].name \in names /\ list[i] = tasks[list[i].name]
                             /\ list[i] \in TaskType
  <2> TAKE i \in DOMAIN list
  <2>1. PICK n \in names : list[i] = tasks[n]
    BY <1>3
  <2>2. QED
    BY <1>4, <2>1
<1>6. list \in Seq(TaskType)
  BY <1>1, <1>2, <1>5
<1>7. \A i, j \in DOMAIN list : i < j => list[i].name < list[j].name
  BY DEF Listed
<1>8. QED
  BY <1>5, <1>6, <1>7
-----------------------------------------------------------------------------
(***************************************************************************)
(* What a step may do to what a loop is in the middle of.                  *)
(***************************************************************************)

StoredNames == {n \in Names : tasks[n] # NoTask}

BeginsTick(d) ==
  /\ d[2] = "ticks" /\ d[1] \in setup.panels /\ work[d] = Idle
  /\ \E names \in SUBSET StoredNames : \E todo \in Listed(names) :
       work'[d] = [Idle EXCEPT !.todo = todo, !.snap = snap[d[1]], !.now = time]
  /\ UNCHANGED <<tasks, log, snap, world>>

BeginsEvent(d) ==
  /\ d[2] = "events" /\ work[d] = Idle
  /\ \E names \in SUBSET StoredNames : \E todo \in Listed(names) : \E named \in BOOLEAN :
       work'[d] = [Idle EXCEPT !.todo = todo, !.named = named]

GoesOn(d) == work[d].todo # <<>> /\ work'[d] = Moved(d)
GoesToFire(d) == work[d].todo # <<>> /\ ~work[d].firing /\ work'[d] = Firing(d)

SendsLine(d) ==
  /\ InFire(d) /\ Unsent(d)
  /\ \/ work'[d] = [work[d] EXCEPT !.sent = @ + 1]
     \/ work'[d] = [work[d] EXCEPT !.refused = TRUE]

Goes(d) ==
  \/ work'[d] = work[d] \/ work'[d] = Idle
  \/ BeginsTick(d) \/ BeginsEvent(d)
  \/ GoesOn(d) \/ GoesToFire(d) \/ SendsLine(d)

LEMMA WorkGoes ==
  ASSUME AutomationAssumption, Typed, Carried, Next
  PROVE  \A d \in Callers : Goes(d)
<1> SUFFICES ASSUME NEW d \in Callers
             PROVE  Goes(d)
  OBVIOUS
<1>1. work = [c \in Callers |-> work[c]] /\ d \in Runners \X Loops /\ Callers = Runners \X Loops
      /\ d = <<d[1], d[2]>>
  BY DEF Typed, Callers
<1>2. \A c \in Callers : work[c].firing => work[c].todo # <<>>
  BY DEF Carried, Whole
<1>3. CASE TimePasses
  BY <1>3 DEF TimePasses, Goes
<1>4. CASE WorldTurns
  BY <1>4 DEF WorldTurns, Goes
<1>5. CASE \E named \in BOOLEAN : EventHappens(named)
  BY <1>5 DEF EventHappens, Goes
<1>6. CASE \E n \in Names : DeletesTask(n) \/ DeletesRuns(n)
  BY <1>6 DEF DeletesTask, DeletesRuns, Goes
<1>7. CASE \E n \in Names, form \in setup.forms : SavesTask(n, form)
  BY <1>7 DEF SavesTask, Goes
<1>8. ASSUME NEW p \in Runners, Polls(p)
      PROVE  Goes(d)
  BY <1>8 DEF Polls, Goes
<1>9. ASSUME NEW p \in Runners, TickReads(p)
      PROVE  Goes(d)
  <2>1. CASE d = <<p, "ticks">>
    <3> DEFINE names == {n \in Watched(FALSE) : Matters(tasks[n], snap[p], time)}
    <3>1. names \in SUBSET StoredNames
      BY DEF Watched, StoredNames
    <3>2. PICK todo \in Listed(names) :
            work' = [work EXCEPT ![<<p, "ticks">>] =
                       [Idle EXCEPT !.todo = todo, !.snap = snap[p], !.now = time]]
      BY <1>9 DEF TickReads
    <3>3. work'[d] = [Idle EXCEPT !.todo = todo, !.snap = snap[p], !.now = time]
      BY <1>1, <2>1, <3>2
    <3>4. d[1] = p /\ d[2] = "ticks" /\ p \in setup.panels /\ work[d] = Idle
      BY <1>9, <2>1 DEF TickReads
    <3> HIDE DEF names
    <3>5. UNCHANGED <<tasks, log, snap, world>>
      BY <1>9 DEF TickReads, bookkeeping
    <3>6. BeginsTick(d)
      BY <3>1, <3>3, <3>4, <3>5 DEF BeginsTick
    <3>7. QED
      BY <3>6 DEF Goes
  <2>2. CASE d # <<p, "ticks">>
    BY <1>1, <1>9, <2>2 DEF TickReads, Goes
  <2>3. QED
    BY <2>1, <2>2
<1>10. ASSUME NEW p \in Runners, Hears(p)
       PROVE  Goes(d)
  <2>1. CASE d = <<p, "events">>
    <3>1. Watched(TRUE) \in SUBSET StoredNames
      BY DEF Watched, StoredNames
    <3>2. PICK todo \in Listed(Watched(TRUE)) :
            work' = [work EXCEPT ![d].todo = todo, ![d].named = Head(inbox[p]) /\ todo # <<>>]
      BY <1>10, <2>1 DEF Hears
    <3> DEFINE named == Head(inbox[p]) /\ todo # <<>>
    <3>3. work[d] = Idle /\ d[2] = "events"
      BY <1>10, <2>1 DEF Hears
    <3>4. named \in BOOLEAN
      OBVIOUS
    <3> HIDE DEF named
    <3>5. work' = [work EXCEPT ![d].todo = todo, ![d].named = named]
      BY <3>2 DEF named
    <3>6. work'[d] = [Idle EXCEPT !.todo = todo, !.named = named]
      BY <1>1, <3>3, <3>5 DEF Idle
    <3>7. BeginsEvent(d)
      BY <3>1, <3>3, <3>4, <3>6 DEF BeginsEvent
    <3>8. QED
      BY <3>7 DEF Goes
  <2>2. CASE d # <<p, "events">>
    BY <1>1, <1>10, <2>2 DEF Hears, Goes
  <2>3. QED
    BY <2>1, <2>2
<1>11. ASSUME NEW p \in Runners, Resubscribes(p)
       PROVE  Goes(d)
  BY <1>11 DEF Resubscribes, Goes
<1>12. ASSUME NEW p \in Runners, Stops(p)
       PROVE  Goes(d)
  BY <1>1, <1>12 DEF Stops, Goes
<1>13. ASSUME NEW c \in Callers, Loop(c) \/ EndsSilently(c) \/ StatementFails(c)
       PROVE  Goes(d)
  <2>1. CASE d # c
    <3>1. work'[d] = work[d]
      BY <1>1, <1>13, <2>1 DEF Loop, Sends, Ends, SetsKey, LosesClaim, StampsStart, WinsClaim,
           StartsFire, EndsSilently, StatementFails
    <3>2. QED
      BY <3>1 DEF Goes
  <2>2. CASE d = c
    <3>1. CASE Sends(c)
      BY <1>1, <2>2, <3>1 DEF Sends, SendsLine, Goes
    <3>2. CASE Ends(c) \/ EndsSilently(c)
      BY <1>1, <1>2, <2>2, <3>2 DEF Ends, EndsSilently, GoesOn, Goes
    <3>3. CASE SetsKey(c) \/ LosesClaim(c) \/ StampsStart(c) \/ StatementFails(c)
      BY <1>1, <2>2, <3>3 DEF SetsKey, LosesClaim, StampsStart, StatementFails, Judging, GoesOn, Goes
    <3>4. CASE WinsClaim(c) \/ StartsFire(c)
      BY <1>1, <2>2, <3>4 DEF WinsClaim, StartsFire, Judging, GoesToFire, Goes
    <3>5. QED
      BY <1>13, <3>1, <3>2, <3>3, <3>4 DEF Loop
  <2>3. QED
    BY <2>1, <2>2
<1>14. QED
  BY <1>1, <1>3, <1>4, <1>5, <1>6, <1>7, <1>8, <1>9, <1>10, <1>11, <1>12, <1>13 DEF Next

\* No step changes the instance, and what it changes of the work is a function.
LEMMA SameSetup ==
  ASSUME Typed, Next
  PROVE  setup' = setup /\ work' = [d \in Callers |-> work'[d]]
<1>1. work = [d \in Callers |-> work[d]]
  BY DEF Typed
<1>2. QED
  BY <1>1 DEF Next, TimePasses, WorldTurns, EventHappens, DeletesTask, DeletesRuns, SavesTask, Polls,
     TickReads, Hears, Resubscribes, Stops, Loop, Sends, Ends, SetsKey, LosesClaim, StampsStart,
     WinsClaim, StartsFire, EndsSilently, StatementFails, Callers

\* On to the next task.
LEMMA MovedFields ==
  ASSUME Typed, NEW d \in Callers, work[d].todo # <<>>
  PROVE  \/ Moved(d) = Idle
         \/ /\ Len(work[d].todo) # 1
            /\ Moved(d) \in Works
            /\ Moved(d).todo = Tail(work[d].todo)
            /\ Moved(d).snap = work[d].snap /\ Moved(d).now = work[d].now
            /\ ~Moved(d).firing /\ Moved(d).lines = <<>> /\ Moved(d).sent = 0
<1>1. work[d] \in Works
  BY DEF Typed
<1>2. CASE Len(work[d].todo) = 1
  BY <1>2 DEF Moved
<1>3. CASE Len(work[d].todo) # 1
  <2>1. Moved(d) = [work[d] EXCEPT !.todo = Tail(@), !.firing = FALSE, !.lines = <<>>,
                                   !.sent = 0, !.refused = FALSE]
    BY <1>3 DEF Moved
  <2>2. Tail(work[d].todo) \in Seq(TaskType)
    BY <1>1, HeadTailProperties DEF Works
  <2>3. Moved(d) = [todo |-> Tail(work[d].todo), snap |-> work[d].snap, now |-> work[d].now,
                    named |-> work[d].named, firing |-> FALSE, lines |-> <<>>,
                    sent |-> 0, refused |-> FALSE]
    BY <1>1, <2>1 DEF Works
  <2>4. QED
    BY <1>1, <1>3, <2>2, <2>3 DEF Works
<1>4. QED
  BY <1>2, <1>3

\* The fire begins with all lines, or with an error and none.
LEMMA FiringFields ==
  ASSUME AutomationAssumption, Typed, NEW d \in Callers, work[d].todo # <<>>
  PROVE  LET lines == Expanded(Head(work[d].todo).lines, d[2], work[d].named)
         IN /\ Firing(d) \in Works
            /\ Firing(d).todo = work[d].todo
            /\ Firing(d).snap = work[d].snap /\ Firing(d).now = work[d].now
            /\ Firing(d).named = work[d].named
            /\ Firing(d).firing /\ Firing(d).lines = Prepared(lines) /\ Firing(d).sent = 0
            /\ Firing(d).refused = Unacceptable(lines)
<1> DEFINE lines == Expanded(Head(work[d].todo).lines, d[2], work[d].named)
<1>1. work[d] \in Works
  BY DEF Typed
<1>2. Head(work[d].todo).lines \in Seq(Lines)
  <2>1. Head(work[d].todo) \in TaskType
    BY <1>1, HeadTailProperties DEF Works
  <2>2. \A form \in setup.forms : form.lines \in Seq(Lines)
    BY DEF AutomationAssumption, Typed
  <2>3. QED
    BY <2>1, <2>2 DEF TaskType
<1>3. Prepared(lines) \in Seq(Lines)
  <2>1. lines \in Seq(Lines)
    BY <1>2, ExpandedLines
  <2> HIDE DEF lines
  <2>2. QED
    BY <2>1, EmptySeq DEF Prepared
<1>4. Unacceptable(lines) \in BOOLEAN
  BY DEF Unacceptable
<1>5. Firing(d) = [work[d] EXCEPT !.firing = TRUE, !.lines = Prepared(lines), !.sent = 0,
                                  !.refused = Unacceptable(lines)]
  BY DEF Firing, Current
<1> HIDE DEF lines
<1> DEFINE ready == Prepared(lines)
           bad == Unacceptable(lines)
<1> HIDE DEF ready, bad
<1>6. ready \in Seq(Lines) /\ bad \in BOOLEAN
  BY <1>3, <1>4 DEF ready, bad
<1>7. Firing(d) = [todo |-> work[d].todo, snap |-> work[d].snap, now |-> work[d].now,
                   named |-> work[d].named, firing |-> TRUE, lines |-> ready,
                   sent |-> 0, refused |-> bad]
  BY <1>1, <1>5 DEF Works, ready, bad
<1>8. QED
  BY <1>1, <1>6, <1>7 DEF Works, lines, ready, bad

LEMMA IdleIsWork ==
  ASSUME AutomationAssumption, Typed
  PROVE  Idle \in Works /\ \A loop \in Loops : Whole(Idle, loop)
<1>1. Idle \in Works
  BY EmptySeq DEF Idle, Works, Never, Typed, AutomationAssumption
<1>2. \A loop \in Loops : Whole(Idle, loop)
  BY DEF Idle, Whole
<1>3. QED
  BY <1>1, <1>2

\* Every step of a loop keeps its work whole.
LEMMA WorkStep ==
  ASSUME AutomationAssumption, Typed, Carried, NEW d \in Callers, Goes(d)
  PROVE  work'[d] \in Works /\ Whole(work'[d], d[2])
<1>1. /\ work[d] \in Works /\ Whole(work[d], d[2]) /\ d[2] \in Loops /\ d[1] \in Runners
      /\ Len(work[d].lines) \in Nat
  BY LenProperties DEF Typed, Carried, Callers, Works
<1>2. CASE work'[d] = work[d] \/ work'[d] = Idle
  BY <1>1, <1>2, IdleIsWork
<1>3. CASE BeginsTick(d)
  <2>0. PICK names \in SUBSET StoredNames : \E todo \in Listed(names) :
          work'[d] = [Idle EXCEPT !.todo = todo, !.snap = snap[d[1]], !.now = time]
    BY <1>3 DEF BeginsTick
  <2>1. PICK todo \in Listed(names) :
          work'[d] = [Idle EXCEPT !.todo = todo, !.snap = snap[d[1]], !.now = time]
    BY <2>0
  <2>2. todo \in Seq(TaskType)
    BY <2>1, ListedTasks DEF StoredNames
  <2>3. snap[d[1]] \in Snaps \cup {NoSnap} /\ time \in 0..setup.time
    BY <1>1 DEF Typed, AutomationAssumption
  <2>4. work'[d] = [todo |-> todo, snap |-> snap[d[1]], now |-> time, named |-> FALSE,
                    firing |-> FALSE, lines |-> <<>>, sent |-> 0, refused |-> FALSE]
    BY <2>1 DEF Idle
  <2>5. QED
    BY <2>2, <2>3, <2>4 DEF Works, Whole
<1>4. CASE BeginsEvent(d)
  <2>0. PICK names \in SUBSET StoredNames : \E todo \in Listed(names) : \E named \in BOOLEAN :
          work'[d] = [Idle EXCEPT !.todo = todo, !.named = named]
    BY <1>4 DEF BeginsEvent
  <2>1. PICK todo \in Listed(names), named \in BOOLEAN :
          work'[d] = [Idle EXCEPT !.todo = todo, !.named = named]
    BY <2>0
  <2>2. todo \in Seq(TaskType)
    BY <2>1, ListedTasks DEF StoredNames
  <2>3. work'[d] = [todo |-> todo, snap |-> NoSnap, now |-> 0, named |-> named,
                    firing |-> FALSE, lines |-> <<>>, sent |-> 0, refused |-> FALSE]
    BY <2>1 DEF Idle, Never
  <2>4. QED
    BY <2>2, <2>3 DEF Works, Whole, Typed, AutomationAssumption
<1>5. CASE GoesOn(d)
  <2>1. work'[d] = Moved(d) /\ work[d].todo # <<>>
    BY <1>5 DEF GoesOn
  <2>2. CASE Moved(d) = Idle
    BY <1>1, <2>1, <2>2, IdleIsWork
  <2>3. CASE Moved(d) # Idle
    <3>1. work'[d] \in Works /\ ~work'[d].firing /\ work'[d].lines = <<>> /\ work'[d].sent = 0
      BY <2>1, <2>3, MovedFields
    <3>2. QED
      BY <3>1 DEF Whole
  <2>4. QED
    BY <2>2, <2>3
<1>6. CASE GoesToFire(d)
  <2> DEFINE lines == Expanded(Head(work[d].todo).lines, d[2], work[d].named)
  <2>1. work'[d] = Firing(d) /\ work[d].todo # <<>>
    BY <1>6 DEF GoesToFire
  <2>2. /\ work'[d] \in Works /\ work'[d].todo = work[d].todo /\ work'[d].named = work[d].named
        /\ work'[d].lines = Prepared(lines) /\ work'[d].sent = 0
        /\ work'[d].firing /\ work'[d].refused = Unacceptable(lines)
    BY <2>1, FiringFields
  <2>3. Len(work'[d].lines) \in Nat
    BY <2>2, LenProperties DEF Works
  <2> HIDE DEF lines
  <2>4. /\ work'[d].lines = Prepared(Expanded(Head(work'[d].todo).lines, d[2], work'[d].named))
        /\ Unacceptable(Expanded(Head(work'[d].todo).lines, d[2], work'[d].named)) => work'[d].refused
    BY <2>2 DEF lines
  <2>5. QED
    BY <2>1, <2>2, <2>3, <2>4 DEF Whole
<1>7. CASE SendsLine(d)
  <2>1. work[d].firing /\ ~work[d].refused /\ work[d].sent < Len(work[d].lines)
    BY <1>7 DEF SendsLine, InFire, Unsent
  <2>2. CASE work'[d] = [work[d] EXCEPT !.sent = @ + 1]
    <3>1. /\ work'[d].todo = work[d].todo /\ work'[d].named = work[d].named
          /\ work'[d].lines = work[d].lines /\ work'[d].sent = work[d].sent + 1
          /\ work'[d].firing /\ work'[d].refused = work[d].refused
          /\ work'[d].snap = work[d].snap /\ work'[d].now = work[d].now
      BY <1>1, <2>1, <2>2 DEF Works
    <3>2. work'[d] \in Works
      <4>1. work[d].sent + 1 \in Nat
        BY <1>1 DEF Works
      <4>2. QED
        BY <1>1, <2>2, <4>1 DEF Works
    <3>3. QED
      BY <1>1, <2>1, <3>1, <3>2 DEF Whole, Works
  <2>3. CASE work'[d] = [work[d] EXCEPT !.refused = TRUE]
    <3>1. /\ work'[d] \in Works /\ work'[d].todo = work[d].todo /\ work'[d].named = work[d].named
          /\ work'[d].lines = work[d].lines /\ work'[d].sent = work[d].sent
          /\ work'[d].firing /\ work'[d].refused
      BY <1>1, <2>1, <2>3 DEF Works
    <3>2. QED
      BY <1>1, <2>1, <3>1 DEF Whole, Works
  <2>4. QED
    BY <1>7, <2>2, <2>3 DEF SendsLine
<1>8. QED
  BY <1>2, <1>3, <1>4, <1>5, <1>6, <1>7 DEF Goes
-----------------------------------------------------------------------------
(***************************************************************************)
(* The types.                                                              *)
(***************************************************************************)

\* What a tick judges is a task's row, as it was read.
LEMMA Reading ==
  ASSUME AutomationAssumption, Typed, NEW c \in Callers, work[c].todo # <<>>
  PROVE  /\ Current(c) \in TaskType /\ Current(c).name \in Names
         /\ Current(c).shape \in Shapes
         /\ Current(c) = work[c].todo[1] /\ 1 \in DOMAIN work[c].todo
         /\ work[c].now \in 0..setup.time /\ setup.time \in Nat /\ setup.turns \in Nat
         /\ work[c].snap \in Snaps \cup {NoSnap}
<1>1. work[c] \in Works
  BY DEF Typed
<1>2. Current(c) \in TaskType /\ Current(c) = work[c].todo[1] /\ 1 \in DOMAIN work[c].todo
  BY <1>1, HeadTailProperties, LenProperties, EmptySeq DEF Works, Current
<1>3. QED
  BY <1>1, <1>2 DEF Works, TaskType, AutomationAssumption, Typed

LEMMA Keys ==
  ASSUME NEW t \in TaskType, NEW seen \in Snaps \cup {NoSnap}, NEW now \in 0..setup.time,
         setup.time \in Nat, setup.turns \in Nat, t.shape = "named" => seen # NoSnap
  PROVE  KeyOf(t, seen, now) \in KeyType
<1>1. Day(now) \in 0..(setup.time + setup.turns)
  BY DEF Day
<1>2. seen # NoSnap => seen.occasion \in 0..(setup.time + setup.turns)
  BY DEF Snaps
<1>3. CASE t.shape = "daily"
  BY <1>1, <1>3 DEF KeyOf, KeyType
<1>4. CASE t.shape = "named"
  BY <1>2, <1>4 DEF KeyOf, KeyType
<1>5. CASE t.shape \notin {"daily", "named"}
  BY <1>5 DEF KeyOf, KeyType
<1>6. QED
  BY <1>3, <1>4, <1>5

\* A decision about a task that looks at the game needs a snapshot.
LEMMA DecidesBySight ==
  ASSUME AutomationAssumption, Typed, NEW c \in Callers, work[c].todo # <<>>,
         WantsIt(c) \/ ToRemember(c) \/ StartsClock(Current(c))
  PROVE  /\ NewKey(c) \in KeyType
         /\ Current(c).shape \in {"named", "changing", "over"} => work[c].snap \in Snaps
<1>1. Current(c).shape \in {"named", "changing", "over"} => work[c].snap # NoSnap
  BY DEF WantsIt, Fires, ToRemember, Remembers, StartsClock
<1>2. QED
  BY <1>1, Reading, Keys DEF NewKey

\* The history afterwards is the one before, with the entry at its end or not.
Extends(new, past, entry) ==
  /\ Len(past) \in Nat /\ DOMAIN past = 1..Len(past)
  /\ DOMAIN new = 1..Len(new) /\ Len(new) \in {Len(past), Len(past) + 1}
  /\ \A i \in DOMAIN past : new[i] = past[i]
  /\ Len(new) # Len(past) => new[Len(past) + 1] = entry

LEMMA NotedEntries ==
  ASSUME NEW S, NEW past \in Seq(S), NEW entry \in S
  PROVE  Noted(past, entry) \in Seq(S) /\ Extends(Noted(past, entry), past, entry)
<1>1. Len(past) \in Nat /\ DOMAIN past = 1..Len(past)
  BY LenProperties
<1>2. CASE Noted(past, entry) = past
  BY <1>1, <1>2 DEF Extends
<1>3. CASE Noted(past, entry) = Append(past, entry)
  <2> DEFINE new == Append(past, entry)
  <2>1. /\ new \in Seq(S) /\ Len(new) = Len(past) + 1
        /\ \A i \in 1..Len(past) : new[i] = past[i]
        /\ new[Len(past) + 1] = entry
    BY AppendProperties
  <2>2. DOMAIN new = 1..Len(new)
    BY <2>1, LenProperties
  <2> HIDE DEF new
  <2>3. QED
    BY <1>1, <1>3, <2>1, <2>2 DEF new, Extends
<1>4. QED
  BY <1>2, <1>3 DEF Noted

\* The stored row of task n that a save makes.
LEMMA SavedFields ==
  ASSUME AutomationAssumption, Typed, NEW n \in Names, NEW form \in setup.forms
  PROVE  /\ Saved(n, form) \in TaskType /\ Saved(n, form).name = n
         /\ Saved(n, form).shape = form.shape
         /\ tasks[n] = NoTask => Saved(n, form).lastRunAt = 0 /\ Saved(n, form).lastKey = NoKey
         /\ tasks[n] # NoTask => /\ Saved(n, form).lastRunAt = tasks[n].lastRunAt
                                 /\ Saved(n, form).lastKey = tasks[n].lastKey
<1>1. /\ form.enabled \in BOOLEAN /\ form.shape \in Shapes
      /\ form.lines \in {f.lines : f \in setup.forms} /\ 0 \in 0..setup.time
  BY DEF AutomationAssumption, Typed
<1>2. NoKey \in KeyType
  BY DEF KeyType
<1>3. CASE tasks[n] = NoTask
  BY <1>1, <1>2, <1>3 DEF Saved, Stored, TaskType, Never
<1>4. CASE tasks[n] # NoTask
  <2>1. tasks[n] \in TaskType
    BY <1>4 DEF Typed
  <2>2. tasks[n].lastRunAt \in 0..setup.time /\ tasks[n].lastKey \in KeyType
    BY <2>1 DEF TaskType
  <2>3. Saved(n, form) = [name |-> n, enabled |-> form.enabled, shape |-> form.shape,
                          lines |-> form.lines, lastRunAt |-> tasks[n].lastRunAt,
                          lastKey |-> tasks[n].lastKey]
    BY <1>4 DEF Saved, Stored
  <2>4. QED
    BY <1>1, <1>4, <2>2, <2>3 DEF TaskType
<1>5. QED
  BY <1>3, <1>4

\* What a claim makes of the task's row.
LEMMA StampedRow ==
  ASSUME AutomationAssumption, Typed, NEW c \in Callers, work[c].todo # <<>>,
         NewKey(c) \in KeyType, tasks[Current(c).name] # NoTask
  PROVE  LET n == Current(c).name  row == Stamped(c)[n]
         IN /\ row \in TaskType /\ row.name = n /\ row.shape = tasks[n].shape
            /\ row.lastRunAt = work[c].now /\ row.lastKey = NewKey(c)
            /\ Stamped(c) \in [Names -> TaskType \cup {NoTask}]
            /\ \A m \in Names : m # n => Stamped(c)[m] = tasks[m]
<1> DEFINE n == Current(c).name
           key == NewKey(c)
           timed == [tasks[n] EXCEPT !.lastRunAt = work[c].now]
           row == [timed EXCEPT !.lastKey = key]
<1>1. n \in Names /\ work[c].now \in 0..setup.time
  BY Reading
<1>2. tasks[n] \in TaskType /\ tasks[n].name = n
  BY <1>1 DEF Typed
<1> HIDE DEF n, key
<1>3. row = [name |-> n, enabled |-> tasks[n].enabled, shape |-> tasks[n].shape,
             lines |-> tasks[n].lines, lastRunAt |-> work[c].now, lastKey |-> key]
  <2>1. timed = [name |-> n, enabled |-> tasks[n].enabled, shape |-> tasks[n].shape,
                 lines |-> tasks[n].lines, lastRunAt |-> work[c].now,
                 lastKey |-> tasks[n].lastKey]
    BY <1>2 DEF TaskType
  <2> HIDE DEF timed
  <2>2. QED
    BY <2>1
<1>4. key \in KeyType
  BY DEF key
<1>5. row \in TaskType /\ row.name = n /\ row.shape = tasks[n].shape
      /\ row.lastRunAt = work[c].now /\ row.lastKey = key
  BY <1>1, <1>2, <1>3, <1>4 DEF TaskType
<1>6. Stamped(c) = [tasks EXCEPT ![n] = row]
  BY <1>1 DEF Stamped, Typed, n, key
<1> HIDE DEF row
<1>7. /\ Stamped(c)[n] = row /\ Stamped(c) \in [Names -> TaskType \cup {NoTask}]
      /\ \A m \in Names : m # n => Stamped(c)[m] = tasks[m]
  BY <1>1, <1>5, <1>6 DEF Typed
<1>8. QED
  BY <1>5, <1>7 DEF n, key

\* What a note makes of it.
LEMMA KeyedRow ==
  ASSUME AutomationAssumption, Typed, NEW c \in Callers, SetsKey(c)
  PROVE  LET n == Current(c).name
         IN /\ n \in Names
            /\ \/ tasks' = tasks
               \/ /\ tasks[n] # NoTask /\ tasks[n].lastKey = Current(c).lastKey
                  /\ tasks'[n] \in TaskType /\ tasks'[n].name = n
                  /\ tasks'[n].shape = tasks[n].shape
                  /\ tasks'[n].lastRunAt = tasks[n].lastRunAt /\ tasks'[n].lastKey = NewKey(c)
                  /\ tasks' \in [Names -> TaskType \cup {NoTask}]
                  /\ \A m \in Names : m # n => tasks'[m] = tasks[m]
<1> DEFINE n == Current(c).name
           key == NewKey(c)
           row == [tasks[n] EXCEPT !.lastKey = key]
<1>1. work[c].todo # <<>> /\ ToRemember(c)
  BY DEF SetsKey, Judging
<1>2. n \in Names /\ key \in KeyType
  BY <1>1, Reading, DecidesBySight
<1>3. CASE tasks[n] # NoTask /\ tasks[n].lastKey = Current(c).lastKey
  <2>1. tasks' = [tasks EXCEPT ![n].lastKey = key]
    BY <1>3 DEF SetsKey
  <2>2. tasks[n] \in TaskType /\ tasks[n].name = n
    BY <1>2, <1>3 DEF Typed
  <2> HIDE DEF n, key
  <2>3. row = [name |-> n, enabled |-> tasks[n].enabled, shape |-> tasks[n].shape,
               lines |-> tasks[n].lines, lastRunAt |-> tasks[n].lastRunAt, lastKey |-> key]
    BY <2>2 DEF TaskType
  <2>4. row \in TaskType /\ row.name = n /\ row.shape = tasks[n].shape
        /\ row.lastRunAt = tasks[n].lastRunAt /\ row.lastKey = key
    BY <1>2, <2>2, <2>3 DEF TaskType
  <2>5. tasks' = [tasks EXCEPT ![n] = row]
    BY <1>2, <2>1 DEF Typed
  <2> HIDE DEF row
  <2>6. /\ tasks'[n] = row /\ tasks' \in [Names -> TaskType \cup {NoTask}]
        /\ \A m \in Names : m # n => tasks'[m] = tasks[m]
    BY <1>2, <2>4, <2>5 DEF Typed
  <2>7. QED
    BY <1>2, <1>3, <2>4, <2>6 DEF n, key
<1>4. CASE ~(tasks[n] # NoTask /\ tasks[n].lastKey = Current(c).lastKey)
  BY <1>2, <1>4 DEF SetsKey
<1>5. QED
  BY <1>3, <1>4

\* A receipt says what was done.
LEMMA ReceiptIsTrue ==
  ASSUME AutomationAssumption, Typed, Carried, NEW c \in Callers,
         work[c].firing, ~InFire(c) \/ ~Unsent(c)
  PROVE  /\ Receipt(c) \in ReceiptType
         /\ Receipt(c).ok => Receipt(c).sent = "all"
         /\ ~Receipt(c).allowed => Receipt(c).sent = "nothing" /\ ~Receipt(c).ok
<1> DEFINE lines == Expanded(Current(c).lines, c[2], work[c].named)
           bad == Unacceptable(lines)
<1>1. /\ work[c] \in Works /\ work[c].lines = Prepared(lines)
      /\ bad => work[c].refused
      /\ work[c].sent <= Len(work[c].lines)
  BY DEF Typed, Carried, Whole, Current
<1> HIDE DEF lines
<1>2. /\ work[c].sent \in Nat /\ Len(work[c].lines) \in Nat /\ work[c].refused \in BOOLEAN
      /\ work[c].lines \in Seq(Lines)
  BY <1>1, LenProperties DEF Works
<1>3. bad \in BOOLEAN
  BY DEF Unacceptable
<1>4. bad => work[c].lines = <<>>
  BY <1>1 DEF Prepared
<1>5. ~bad => work[c].lines # <<>>
  BY <1>1 DEF Prepared, Unacceptable
<1>6. (work[c].lines = <<>>) = (Len(work[c].lines) = 0)
  BY <1>2, EmptySeq
<1>7. Receipt(c) = [ok |-> ~work[c].refused,
                    sent |-> IF work[c].sent = 0 THEN "nothing"
                             ELSE IF work[c].sent < Len(work[c].lines) THEN "part" ELSE "all",
                    allowed |-> ~bad]
  BY DEF Receipt, Unsent, lines
<1> HIDE DEF bad
<1>8. work[c].refused \/ ~(work[c].sent < Len(work[c].lines))
  BY DEF InFire, Unsent
<1>9. Receipt(c) \in ReceiptType
  BY <1>3, <1>7 DEF ReceiptType
<1> DEFINE fine == ~work[c].refused
           may == ~bad
           much == IF work[c].sent = 0 THEN "nothing"
                   ELSE IF work[c].sent < Len(work[c].lines) THEN "part" ELSE "all"
<1>10. Receipt(c).ok => ~work[c].refused
  <2>1. Receipt(c) = [ok |-> fine, sent |-> much, allowed |-> may]
    BY <1>7
  <2> HIDE DEF fine, may, much
  <2>2. Receipt(c).ok = fine
    BY <2>1
  <2>3. Receipt(c).ok => fine
    BY <2>2
  <2>4. QED
    BY <2>3 DEF fine
<1>11. ~Receipt(c).allowed => bad
  <2>1. Receipt(c) = [ok |-> fine, sent |-> much, allowed |-> may]
    BY <1>7
  <2> HIDE DEF fine, may, much
  <2>2. Receipt(c).allowed = may
    BY <2>1
  <2>3. ~Receipt(c).allowed => ~may
    BY <2>2
  <2>4. QED
    BY <2>3 DEF may
<1>12. /\ work[c].sent = 0 => Receipt(c).sent = "nothing"
       /\ work[c].sent # 0 /\ work[c].sent = Len(work[c].lines) => Receipt(c).sent = "all"
  <2>1. Receipt(c).sent = IF work[c].sent = 0 THEN "nothing"
                          ELSE IF work[c].sent < Len(work[c].lines) THEN "part" ELSE "all"
    BY <1>7
  <2>2. QED
    BY <1>2, <2>1
<1>13. ~work[c].refused => ~bad /\ work[c].sent # 0 /\ work[c].sent = Len(work[c].lines)
  BY <1>1, <1>2, <1>5, <1>6, <1>8
<1>14. bad => work[c].refused /\ work[c].sent = 0
  BY <1>1, <1>2, <1>4, <1>6
<1>15. QED
  BY <1>9, <1>10, <1>11, <1>12, <1>13, <1>14

LEMMA EntryType ==
  ASSUME AutomationAssumption, Typed, NEW c \in Callers, work[c].todo # <<>>, WantsIt(c)
  PROVE  LET t == Current(c)
             entry == [shape |-> t.shape, at |-> work[c].now,
                       occasion |-> IF t.shape \in {"every", "daily"} THEN Day(work[c].now)
                                    ELSE work[c].snap.occasion]
         IN entry \in Entries
<1>1. Current(c).shape \in {"every", "daily", "named", "changing", "over"}
  BY DEF WantsIt, Fires
<1>2. /\ Current(c).shape \in Shapes /\ work[c].now \in 0..setup.time /\ setup.time \in Nat
      /\ Current(c).shape \in {"named", "changing", "over"} => work[c].snap \in Snaps
  BY Reading, DecidesBySight
<1>3. Day(work[c].now) \in Int
  BY <1>2 DEF Day
<1>4. Current(c).shape \in {"named", "changing", "over"} => work[c].snap.occasion \in Int
  BY <1>2 DEF Snaps
<1>5. QED
  BY <1>1, <1>2, <1>3, <1>4 DEF Entries

LEMMA TypedStep ==
  ASSUME AutomationAssumption, Typed, Carried, Next
  PROVE  Typed' /\ Carried'
<1>1. setup' = setup /\ work' = [d \in Callers |-> work'[d]]
  BY SameSetup
<1>2. /\ TaskType' = TaskType /\ Snaps' = Snaps /\ Entries' = Entries /\ FormShapes' = FormShapes
      /\ Works' = Works
  BY <1>1 DEF TaskType, KeyType, Snaps, Entries, FormShapes, Works
<1>3. \A d \in Callers : work'[d] \in Works /\ Whole(work'[d], d[2])
  BY WorkGoes, WorkStep
<1>4. work' \in [Callers -> Works] /\ Carried'
  BY <1>1, <1>3 DEF Carried
<1>5. setup.time \in Nat /\ setup.turns \in Nat /\ Capacity \in Nat
  BY DEF AutomationAssumption, Typed
<1>6. time' \in 1..setup.time
  <2>1. CASE TimePasses
    BY <1>5, <2>1 DEF TimePasses, Typed
  <2>2. CASE time' = time
    BY <2>2 DEF Typed
  <2>3. QED
    BY <2>1, <2>2 DEF Next, WorldTurns, EventHappens, DeletesTask, DeletesRuns, SavesTask,
       Polls, TickReads, Hears, Resubscribes, Stops, Loop, Sends, Ends, SetsKey, LosesClaim,
       StampsStart, WinsClaim, StartsFire, EndsSilently, StatementFails
<1>7. world' \in Snaps
  <2>1. CASE WorldTurns
    <3>1. world \in Snaps /\ world.occasion < setup.turns
      BY <2>1 DEF WorldTurns, Typed
    <3>2. CASE world.on
      <4>1. world' = [occasion |-> world.occasion + 1, on |-> FALSE]
        BY <2>1, <3>2 DEF WorldTurns
      <4>2. QED
        BY <1>5, <3>1, <4>1 DEF Snaps
    <3>3. CASE ~world.on
      <4>1. world' = [world EXCEPT !.on = TRUE]
        BY <2>1, <3>3 DEF WorldTurns
      <4>2. QED
        BY <3>1, <4>1 DEF Snaps
    <3>4. QED
      BY <3>2, <3>3
  <2>2. CASE ~WorldTurns
    <3>1. world' = world
      BY <2>2 DEF Next, TimePasses, EventHappens, DeletesTask, DeletesRuns, SavesTask,
         Polls, TickReads, Hears, Resubscribes, Stops, Loop, Sends, Ends, SetsKey, LosesClaim,
         StampsStart, WinsClaim, StartsFire, EndsSilently, StatementFails
    <3>2. QED
      BY <3>1 DEF Typed
  <2>3. QED
    BY <2>1, <2>2
<1>8. /\ tasks' \in [Names -> TaskType \cup {NoTask}]
      /\ \A n \in Names : tasks'[n] # NoTask => tasks'[n].name = n /\ tasks'[n].shape \in FormShapes
  <2>1. ASSUME NEW n \in Names, NEW form \in setup.forms, SavesTask(n, form)
        PROVE  <1>8!1 /\ <1>8!2
    <3>1. tasks' = [tasks EXCEPT ![n] = Saved(n, form)]
      BY <2>1 DEF SavesTask
    <3>2. Saved(n, form) \in TaskType /\ Saved(n, form).name = n /\ Saved(n, form).shape \in FormShapes
      BY SavedFields DEF FormShapes
    <3>3. QED
      BY <3>1, <3>2 DEF Typed
  <2>2. ASSUME NEW n \in Names, DeletesTask(n)
        PROVE  <1>8!1 /\ <1>8!2
    <3>1. tasks' = [tasks EXCEPT ![n] = NoTask]
      BY <2>2 DEF DeletesTask
    <3>2. QED
      BY <3>1 DEF Typed
  <2>3. ASSUME NEW c \in Callers, SetsKey(c)
        PROVE  <1>8!1 /\ <1>8!2
    <3>1. CASE tasks' = tasks
      BY <3>1 DEF Typed
    <3>2. CASE tasks' # tasks
      <4> DEFINE n == Current(c).name
      <4>1. /\ n \in Names /\ tasks[n] # NoTask
            /\ tasks'[n].name = n /\ tasks'[n].shape = tasks[n].shape
            /\ tasks' \in [Names -> TaskType \cup {NoTask}]
            /\ \A m \in Names : m # n => tasks'[m] = tasks[m]
        BY <2>3, <3>2, KeyedRow
      <4> HIDE DEF n
      <4>2. QED
        BY <4>1 DEF Typed
    <3>3. QED
      BY <3>1, <3>2
  <2>4. ASSUME NEW c \in Callers, StampsStart(c) \/ WinsClaim(c)
        PROVE  <1>8!1 /\ <1>8!2
    <3>1. /\ work[c].todo # <<>> /\ tasks' = Stamped(c) /\ tasks[Current(c).name] # NoTask
          /\ WantsIt(c) \/ StartsClock(Current(c))
      BY <2>4 DEF StampsStart, WinsClaim, Judging, Matches
    <3>2. NewKey(c) \in KeyType /\ Current(c).name \in Names
      BY <3>1, DecidesBySight, Reading
    <3> DEFINE n == Current(c).name
    <3>3. /\ n \in Names /\ tasks[n] # NoTask
          /\ tasks'[n].name = n /\ tasks'[n].shape = tasks[n].shape
          /\ tasks' \in [Names -> TaskType \cup {NoTask}]
          /\ \A m \in Names : m # n => tasks'[m] = tasks[m]
      BY <3>1, <3>2, StampedRow
    <3> HIDE DEF n
    <3>4. QED
      BY <3>3 DEF Typed
  <2>5. CASE tasks' = tasks
    BY <2>5 DEF Typed
  <2>6. QED
    BY <2>1, <2>2, <2>3, <2>4, <2>5 DEF Next, TimePasses, WorldTurns, EventHappens, DeletesRuns,
       Polls, TickReads, Hears, Resubscribes, Stops, Loop, Sends, Ends, LosesClaim,
       StartsFire, EndsSilently, StatementFails, bookkeeping, Callers
<1>9. snap' \in [Runners -> Snaps \cup {NoSnap}]
  <2>1. CASE \E p \in Runners : Polls(p) \/ Stops(p)
    BY <2>1 DEF Polls, Stops, Typed
  <2>2. CASE snap' = snap
    BY <2>2 DEF Typed
  <2>3. QED
    BY <2>1, <2>2 DEF Next, TimePasses, WorldTurns, EventHappens, DeletesTask, DeletesRuns, SavesTask,
       TickReads, Hears, Resubscribes, Loop, Sends, Ends, SetsKey, LosesClaim,
       StampsStart, WinsClaim, StartsFire, EndsSilently, StatementFails
<1>10. deaf' \in [Runners -> BOOLEAN]
  BY DEF Typed, Next, TimePasses, WorldTurns, EventHappens, DeletesTask, DeletesRuns, SavesTask,
     Polls, TickReads, Hears, Resubscribes, Stops, Loop, Sends, Ends, SetsKey, LosesClaim,
     StampsStart, WinsClaim, StartsFire, EndsSilently, StatementFails
<1>11. inbox' \in [Runners -> Seq(BOOLEAN)] /\ \A p \in Runners : Len(inbox'[p]) <= Capacity
  <2>1. ASSUME NEW named \in BOOLEAN, EventHappens(named)
        PROVE  <1>11!1 /\ <1>11!2
    <3>1. \A p \in Runners : /\ inbox[p] \in Seq(BOOLEAN) /\ Len(inbox[p]) \in Nat
                             /\ Append(inbox[p], named) \in Seq(BOOLEAN)
                             /\ Len(Append(inbox[p], named)) = Len(inbox[p]) + 1
      BY LenProperties, AppendProperties DEF Typed
    <3>2. \A p \in Runners :
            \/ inbox'[p] = inbox[p]
            \/ inbox'[p] = Append(inbox[p], named) /\ Len(inbox[p]) < Capacity
      BY <2>1 DEF EventHappens
    <3>3. \A p \in Runners : Len(inbox[p]) <= Capacity
      BY DEF Typed
    <3>4. \A p \in Runners : inbox'[p] \in Seq(BOOLEAN) /\ Len(inbox'[p]) <= Capacity
      <4> TAKE p \in Runners
      <4>1. CASE inbox'[p] = inbox[p]
        BY <3>1, <3>3, <4>1
      <4>2. CASE inbox'[p] = Append(inbox[p], named) /\ Len(inbox[p]) < Capacity
        <5> DEFINE longer == Append(inbox[p], named)
        <5>1. longer \in Seq(BOOLEAN) /\ Len(longer) = Len(inbox[p]) + 1 /\ Len(inbox[p]) \in Nat
          BY <3>1
        <5> HIDE DEF longer
        <5>2. inbox'[p] = longer
          BY <4>2 DEF longer
        <5>3. QED
          BY <1>5, <4>2, <5>1, <5>2
      <4>3. QED
        BY <3>2, <4>1, <4>2
    <3>5. inbox' = [p \in Runners |-> inbox'[p]]
      BY <2>1 DEF EventHappens
    <3>6. QED
      BY <3>4, <3>5
  <2>2. ASSUME NEW p \in Runners, Hears(p)
        PROVE  <1>11!1 /\ <1>11!2
    <3>1. inbox[p] \in Seq(BOOLEAN) /\ inbox[p] # <<>> /\ Len(inbox[p]) <= Capacity
      BY <2>2 DEF Hears, Typed
    <3>2. Tail(inbox[p]) \in Seq(BOOLEAN) /\ Len(Tail(inbox[p])) <= Capacity
      <4>1. Tail(inbox[p]) \in Seq(BOOLEAN) /\ Len(Tail(inbox[p])) = Len(inbox[p]) - 1
        BY <3>1, HeadTailProperties
      <4>2. Len(inbox[p]) \in Nat
        BY <3>1, LenProperties
      <4>3. QED
        BY <1>5, <3>1, <4>1, <4>2
    <3>3. inbox' = [inbox EXCEPT ![p] = Tail(inbox[p])]
      BY <2>2 DEF Hears
    <3>4. QED
      BY <3>2, <3>3 DEF Typed
  <2>3. ASSUME NEW p \in Runners, Stops(p)
        PROVE  <1>11!1 /\ <1>11!2
    <3>1. inbox' = [inbox EXCEPT ![p] = <<>>]
      BY <2>3 DEF Stops
    <3>2. QED
      BY <1>5, <3>1, EmptySeq DEF Typed
  <2>4. CASE inbox' = inbox
    BY <2>4 DEF Typed
  <2>5. QED
    BY <2>1, <2>2, <2>3, <2>4 DEF Next, TimePasses, WorldTurns, DeletesTask, DeletesRuns, SavesTask,
       Polls, TickReads, Resubscribes, Loop, Sends, Ends, SetsKey, LosesClaim,
       StampsStart, WinsClaim, StartsFire, EndsSilently, StatementFails
<1>12. runs' \in [Names -> SUBSET ReceiptType] /\ deleting' \subseteq Names
  <2>1. ASSUME NEW c \in Callers, Ends(c)
        PROVE  <1>12!1 /\ <1>12!2
    <3>1. /\ runs' = [runs EXCEPT ![Current(c).name] = @ \cup {Receipt(c)}] /\ deleting' = deleting
          /\ Receipt(c) \in ReceiptType
      BY <2>1, ReceiptIsTrue DEF Ends
    <3>2. QED
      BY <3>1 DEF Typed
  <2>2. ASSUME NEW n \in Names, DeletesTask(n) \/ DeletesRuns(n)
        PROVE  <1>12!1 /\ <1>12!2
    BY <2>2 DEF DeletesTask, DeletesRuns, Typed
  <2>3. CASE runs' = runs /\ deleting' = deleting
    BY <2>3 DEF Typed
  <2>4. QED
    BY <2>1, <2>2, <2>3 DEF Next, TimePasses, WorldTurns, EventHappens, SavesTask,
       Polls, TickReads, Hears, Resubscribes, Stops, Loop, Sends, SetsKey, LosesClaim,
       StampsStart, WinsClaim, StartsFire, EndsSilently, StatementFails, bookkeeping, Callers
<1>13. log' \in [Names -> Seq(Entries)]
  <2>1. ASSUME NEW c \in Callers, WinsClaim(c)
        PROVE  log' \in [Names -> Seq(Entries)]
    <3> DEFINE n == Current(c).name
               entry == [shape |-> Current(c).shape, at |-> work[c].now,
                         occasion |-> IF Current(c).shape \in {"every", "daily"}
                                      THEN Day(work[c].now) ELSE work[c].snap.occasion]
    <3>1. log' = [log EXCEPT ![n] = Noted(log[n], entry)]
      BY <2>1 DEF WinsClaim
    <3>2. entry \in Entries /\ n \in Names
      BY <2>1, EntryType, Reading DEF WinsClaim, Judging
    <3> HIDE DEF entry, n
    <3>3. Noted(log[n], entry) \in Seq(Entries)
      BY <3>2, NotedEntries DEF Typed
    <3>4. QED
      BY <3>1, <3>3 DEF Typed
  <2>2. CASE \E n \in Names : DeletesTask(n) \/ \E form \in setup.forms : SavesTask(n, form)
    <3>1. <<>> \in Seq(Entries)
      BY EmptySeq
    <3>2. \E n \in Names : log' = log \/ log' = [log EXCEPT ![n] = <<>>]
      BY <2>2 DEF DeletesTask, SavesTask
    <3>3. QED
      BY <3>1, <3>2 DEF Typed
  <2>3. CASE log' = log
    BY <2>3 DEF Typed
  <2>4. QED
    BY <2>1, <2>2, <2>3 DEF Next, TimePasses, WorldTurns, EventHappens, DeletesRuns,
       Polls, TickReads, Hears, Resubscribes, Stops, Loop, Sends, Ends, SetsKey, LosesClaim,
       StampsStart, StartsFire, EndsSilently, StatementFails, bookkeeping, Callers
<1>14. Typed'
  BY <1>1, <1>2, <1>4, <1>6, <1>7, <1>8, <1>9, <1>10, <1>11, <1>12, <1>13 DEF Typed
<1>15. QED
  BY <1>4, <1>14

\* The receipts are true, as each is when it is written.
LEMMA ReceiptsStep ==
  ASSUME AutomationAssumption, Typed, Carried, Receipts, Next
  PROVE  Receipts'
<1> DEFINE True(r) == /\ r.ok => r.sent = "all"
                      /\ ~r.allowed => r.sent = "nothing" /\ ~r.ok
<1>1. \A n \in Names : \A r \in runs[n] : True(r)
  BY DEF Receipts
<1>2. ASSUME NEW c \in Callers, Ends(c)
      PROVE  \A n \in Names : \A r \in runs'[n] : True(r)
  <2>1. runs' = [runs EXCEPT ![Current(c).name] = @ \cup {Receipt(c)}] /\ True(Receipt(c))
    BY <1>2, ReceiptIsTrue DEF Ends
  <2> HIDE DEF True
  <2>2. QED
    BY <1>1, <2>1 DEF Typed
<1>3. ASSUME NEW n \in Names, DeletesRuns(n)
      PROVE  \A m \in Names : \A r \in runs'[m] : True(r)
  <2>1. runs' = runs \/ runs' = [runs EXCEPT ![n] = {}]
    BY <1>3 DEF DeletesRuns
  <2> HIDE DEF True
  <2>2. QED
    BY <1>1, <2>1 DEF Typed
<1> HIDE DEF True
<1>4. \A n \in Names : \A r \in runs'[n] : True(r)
  <2>1. CASE runs' = runs
    BY <1>1, <2>1
  <2>2. QED
    BY <1>2, <1>3, <2>1 DEF Next, TimePasses, WorldTurns, EventHappens, DeletesTask, SavesTask,
       Polls, TickReads, Hears, Resubscribes, Stops, Loop, Sends, SetsKey, LosesClaim,
       StampsStart, WinsClaim, StartsFire, EndsSilently, StatementFails, bookkeeping, Callers
<1>5. QED
  BY <1>4 DEF Receipts, True

LEMMA ActedAtFirst ==
  ASSUME AutomationAssumption, Init
  PROVE  Acted
<1>1. /\ setup \in Setups /\ setup.time \in Nat /\ setup.time > 0 /\ setup.turns \in Nat
      /\ setup.names \subseteq Names
      /\ Capacity \in Nat
  BY DEF Init, AutomationAssumption
<1>2. \A n \in Names : tasks[n] # NoTask =>
        tasks[n] \in TaskType /\ tasks[n].name = n /\ tasks[n].shape \in FormShapes
  <2>1. PICK f \in [setup.names -> setup.forms] :
          tasks = [n \in Names |-> IF n \in setup.names THEN Stored(n, f[n], Never, NoKey) ELSE NoTask]
    BY DEF Init
  <2> TAKE n \in Names
  <2>2. CASE n \in setup.names
    <3>1. f[n] \in setup.forms /\ tasks[n] = Stored(n, f[n], Never, NoKey)
      BY <2>1, <2>2
    <3>2. /\ f[n].enabled \in BOOLEAN /\ f[n].shape \in Shapes /\ f[n].shape \in FormShapes
          /\ f[n].lines \in {g.lines : g \in setup.forms}
      BY <1>1, <3>1 DEF AutomationAssumption, FormShapes
    <3>3. 0 \in 0..setup.time /\ NoKey \in KeyType
      BY <1>1 DEF KeyType
    <3>4. QED
      BY <3>1, <3>2, <3>3 DEF Stored, TaskType, Never
  <2>3. CASE n \notin setup.names
    BY <2>1, <2>3
  <2>4. QED
    BY <2>2, <2>3
<1>3. tasks \in [Names -> TaskType \cup {NoTask}]
  <2>1. tasks = [n \in Names |-> tasks[n]]
    BY DEF Init
  <2>2. QED
    BY <1>2, <2>1
<1>4. /\ <<>> \in Seq(Entries) /\ <<>> \in Seq(BOOLEAN) /\ Len(<<>>) = 0
      /\ <<>> \in Seq(TaskType) /\ <<>> \in Seq(Lines)
  BY EmptySeq
<1>5. Idle \in Works /\ \A loop \in Loops : Whole(Idle, loop)
  BY <1>1, <1>4 DEF Idle, Works, Never, Whole
<1>6. /\ time \in 1..setup.time /\ world \in Snaps
      /\ runs \in [Names -> SUBSET ReceiptType] /\ deleting \subseteq Names
      /\ snap \in [Runners -> Snaps \cup {NoSnap}]
      /\ inbox \in [Runners -> Seq(BOOLEAN)] /\ deaf \in [Runners -> BOOLEAN]
      /\ \A p \in Runners : Len(inbox[p]) <= Capacity
      /\ log \in [Names -> Seq(Entries)]
  BY <1>1, <1>4 DEF Init, Snaps
<1>7. work = [d \in Callers |-> Idle]
  BY DEF Init, Callers
<1>8. work \in [Callers -> Works] /\ Carried
  BY <1>5, <1>7 DEF Carried, Callers
<1>9. Receipts
  BY DEF Init, Receipts
<1>10. QED
  BY <1>1, <1>2, <1>3, <1>6, <1>8, <1>9 DEF Acted, Typed

LEMMA ActedStep ==
  ASSUME AutomationAssumption, Acted, [Next]_vars
  PROVE  Acted'
<1>1. CASE Next
  BY <1>1, TypedStep, ReceiptsStep DEF Acted
<1>2. CASE UNCHANGED vars
  <2>1. setup' = setup
    BY <1>2 DEF vars
  <2>2. /\ TaskType' = TaskType /\ Snaps' = Snaps /\ Entries' = Entries /\ FormShapes' = FormShapes
        /\ Works' = Works
    BY <2>1 DEF TaskType, KeyType, Snaps, Entries, FormShapes, Works
  <2>3. Typed'
    BY <1>2, <2>2 DEF vars, Acted, Typed
  <2>4. Carried' /\ Receipts'
    BY <1>2 DEF vars, Acted, Carried, Receipts
  <2>5. QED
    BY <2>3, <2>4 DEF Acted
<1>3. QED
  BY <1>1, <1>2

LEMMA ActedAlways ==
  ASSUME AutomationAssumption
  PROVE  Spec => []Acted
BY ActedAtFirst, ActedStep, PTL DEF Spec

\* The rows of the table, the receipts, the subscriptions and the loops keep
\* their types: nothing is fired that was not listed, and no line beyond the last.
THEOREM TypeCorrect ==
  ASSUME AutomationAssumption
  PROVE  Spec => []TypeOK
<1>1. ASSUME Acted
      PROVE  TypeOK
  <2>1. \A n \in Names : tasks[n] # NoTask => tasks[n] \in TaskType
    BY <1>1 DEF Acted, Typed
  <2>2. \A c \in Runners \X Loops :
          /\ \A i \in DOMAIN work[c].todo : work[c].todo[i] \in TaskType
          /\ work[c].firing => work[c].todo # <<>>
          /\ work[c].sent \in 0..Len(work[c].lines)
    <3> TAKE c \in Runners \X Loops
    <3>1. work[c] \in Works /\ Whole(work[c], c[2])
      BY <1>1 DEF Callers, Acted, Typed, Carried
    <3>2. /\ work[c].todo \in Seq(TaskType) /\ Len(work[c].lines) \in Nat
          /\ work[c].sent \in Nat /\ work[c].sent <= Len(work[c].lines)
          /\ work[c].firing => work[c].todo # <<>>
      BY <3>1, LenProperties DEF Works, Whole
    <3>3. \A i \in DOMAIN work[c].todo : work[c].todo[i] \in TaskType
      BY <3>2, ElementOfSeq, LenProperties
    <3>4. QED
      BY <3>2, <3>3
  <2>3. QED
    BY <1>1, <2>1, <2>2 DEF Acted, Typed, TypeOK
<1>2. QED
  BY <1>1, ActedAlways, PTL

\* A task with one line the panel does not send has none of its others sent, and
\* a receipt without an error means that all of them were (prepare and fire).
THEOREM AllOrNothing ==
  ASSUME AutomationAssumption
  PROVE  Spec => []NothingHalfDone
<1>1. ASSUME Acted
      PROVE  NothingHalfDone
  <2>1. ASSUME NEW c \in Callers, work[c].sent > 0
        PROVE  AllowDestructive \/ "destructive" \notin ToSet(Current(c).lines)
    <3> DEFINE lines == Expanded(Current(c).lines, c[2], work[c].named)
    <3>1. work[c] \in Works /\ Whole(work[c], c[2]) /\ work[c].sent # 0
      BY <1>1, <2>1 DEF Acted, Typed, Carried
    <3>2. work[c].todo # <<>> /\ work[c].lines = Prepared(lines) /\ work[c].sent <= Len(work[c].lines)
      BY <3>1 DEF Whole, Current
    <3>3. work[c].lines # <<>>
      <4>1. work[c].sent \in Nat /\ Len(work[c].lines) \in Nat /\ work[c].lines \in Seq(Lines)
        BY <3>1, LenProperties DEF Works
      <4>2. Len(<<>>) = 0
        BY EmptySeq
      <4> HIDE DEF lines
      <4>3. QED
        BY <3>1, <3>2, <4>1, <4>2
    <3>4. AllowDestructive \/ "destructive" \notin ToSet(lines)
      <4> HIDE DEF lines
      <4>1. QED
        BY <3>2, <3>3 DEF Prepared, Unacceptable
    <3>5. Current(c).lines \in Seq(Lines)
      <4>1. Current(c) \in TaskType
        BY <1>1, <3>2, Reading DEF Acted
      <4>2. \A form \in setup.forms : form.lines \in Seq(Lines)
        BY <1>1 DEF AutomationAssumption, Acted, Typed
      <4>3. QED
        BY <4>1, <4>2 DEF TaskType
    <3>6. QED
      BY <3>4, <3>5, ExpandedLines
  <2>2. QED
    BY <1>1, <2>1 DEF Acted, Receipts, NothingHalfDone, Callers
<1>2. QED
  BY <1>1, ActedAlways, PTL
-----------------------------------------------------------------------------
(***************************************************************************)
(* What a step may do to a row and to what is known of its runs.           *)
(***************************************************************************)

StaysRow(n) ==
  /\ log'[n] = log[n]
  /\ (tasks'[n] = NoTask) = (tasks[n] = NoTask)
  /\ tasks'[n].shape = tasks[n].shape
  /\ tasks[n] # NoTask => /\ tasks'[n].lastRunAt = tasks[n].lastRunAt
                          /\ tasks'[n].lastKey = tasks[n].lastKey

\* A row that goes, comes, or gets another trigger.
ClearsRow(n) ==
  /\ log'[n] = <<>>
  /\ tasks'[n] # NoTask =>
       tasks'[n].lastRunAt = (IF tasks[n] = NoTask THEN 0 ELSE tasks[n].lastRunAt)

KeysRow(c, n) ==
  /\ Judging(c) /\ n = Current(c).name /\ ToRemember(c)
  /\ tasks[n] # NoTask /\ tasks[n].lastKey = Current(c).lastKey
  /\ tasks'[n] # NoTask
  /\ tasks'[n].shape = tasks[n].shape /\ tasks'[n].lastRunAt = tasks[n].lastRunAt
  /\ tasks'[n].lastKey = NewKey(c)
  /\ log'[n] = log[n]
  /\ work'[c] = Moved(c)
  /\ UNCHANGED <<time, snap, world>>

EntryOf(c) ==
  [shape |-> Current(c).shape, at |-> work[c].now,
   occasion |-> IF Current(c).shape \in {"every", "daily"} THEN Day(work[c].now)
                ELSE work[c].snap.occasion]

ClaimsRow(c, n) ==
  /\ Judging(c) /\ n = Current(c).name /\ Matches(tasks[n], Current(c))
  /\ tasks[n] # NoTask /\ tasks'[n] # NoTask
  /\ tasks'[n].shape = tasks[n].shape
  /\ tasks'[n].lastRunAt = work[c].now /\ tasks'[n].lastKey = NewKey(c)
  /\ \/ StartsClock(Current(c)) /\ log'[n] = log[n] /\ work'[c] = Moved(c)
     \/ WantsIt(c) /\ log'[n] = Noted(log[n], EntryOf(c)) /\ work'[c] = Firing(c)
  /\ UNCHANGED <<time, snap, world>>

RowGoes(n) ==
  \/ StaysRow(n) \/ ClearsRow(n)
  \/ \E c \in Callers : KeysRow(c, n) \/ ClaimsRow(c, n)

LEMMA RowsGo ==
  ASSUME AutomationAssumption, Typed, Next, NEW n \in Names
  PROVE  RowGoes(n)
<1>1. CASE tasks' = tasks /\ log' = log
  BY <1>1 DEF RowGoes, StaysRow
<1>2. ASSUME NEW m \in Names, NEW form \in setup.forms, SavesTask(m, form)
      PROVE  RowGoes(n)
  <2>1. tasks' = [tasks EXCEPT ![m] = Saved(m, form)]
        /\ log' = IF tasks[m].shape = form.shape THEN log ELSE [log EXCEPT ![m] = <<>>]
    BY <1>2 DEF SavesTask
  <2>2. CASE m # n
    <3>1. tasks'[n] = tasks[n] /\ log'[n] = log[n]
      BY <2>1, <2>2 DEF Typed
    <3>2. QED
      BY <3>1 DEF RowGoes, StaysRow
  <2>3. CASE m = n
    <3>1. tasks'[n] = Saved(n, form)
      BY <2>1, <2>3 DEF Typed
    <3>2. /\ tasks'[n] \in TaskType /\ tasks'[n].name = n /\ tasks'[n].shape = form.shape
          /\ tasks[n] = NoTask => tasks'[n].lastRunAt = 0
          /\ tasks[n] # NoTask => /\ tasks'[n].lastRunAt = tasks[n].lastRunAt
                                  /\ tasks'[n].lastKey = tasks[n].lastKey
      BY <3>1, SavedFields
    <3>3. tasks'[n].shape \in Shapes
      BY <3>2 DEF TaskType
    <3>4. CASE tasks[n].shape = form.shape
      <4>1. log' = log /\ tasks[n] # NoTask
        BY <2>1, <2>3, <3>2, <3>3, <3>4 DEF NoTask, Shapes
      <4>2. tasks'[n] # NoTask
        BY <3>3 DEF NoTask, Shapes
      <4>3. QED
        BY <3>2, <3>4, <4>1, <4>2 DEF RowGoes, StaysRow
    <3>5. CASE tasks[n].shape # form.shape
      <4>1. log'[n] = <<>>
        BY <2>1, <2>3, <3>5 DEF Typed
      <4>2. QED
        BY <3>2, <4>1 DEF RowGoes, ClearsRow
    <3>6. QED
      BY <3>4, <3>5
  <2>4. QED
    BY <2>2, <2>3
<1>3. ASSUME NEW m \in Names, DeletesTask(m)
      PROVE  RowGoes(n)
  <2>1. tasks' = [tasks EXCEPT ![m] = NoTask] /\ log' = [log EXCEPT ![m] = <<>>]
    BY <1>3 DEF DeletesTask
  <2>2. CASE m = n
    <3>1. tasks'[n] = NoTask /\ log'[n] = <<>>
      BY <2>1, <2>2 DEF Typed
    <3>2. QED
      BY <3>1 DEF RowGoes, ClearsRow
  <2>3. CASE m # n
    <3>1. tasks'[n] = tasks[n] /\ log'[n] = log[n]
      BY <2>1, <2>3 DEF Typed
    <3>2. QED
      BY <3>1 DEF RowGoes, StaysRow
  <2>4. QED
    BY <2>2, <2>3
<1>4. ASSUME NEW c \in Callers, SetsKey(c)
      PROVE  RowGoes(n)
  <2> DEFINE m == Current(c).name
  <2>1. /\ Judging(c) /\ ToRemember(c) /\ log' = log /\ UNCHANGED <<time, snap, world>>
        /\ work'[c] = Moved(c)
    BY <1>4 DEF SetsKey, Typed
  <2>2. \/ tasks' = tasks
        \/ /\ tasks[m] # NoTask /\ tasks[m].lastKey = Current(c).lastKey
           /\ tasks'[m] \in TaskType /\ tasks'[m].shape = tasks[m].shape
           /\ tasks'[m].lastRunAt = tasks[m].lastRunAt /\ tasks'[m].lastKey = NewKey(c)
           /\ \A k \in Names : k # m => tasks'[k] = tasks[k]
    BY <1>4, KeyedRow
  <2>3. CASE tasks' = tasks \/ n # m
    <3>1. tasks'[n] = tasks[n]
      BY <2>2, <2>3
    <3>2. QED
      BY <2>1, <3>1 DEF RowGoes, StaysRow
  <2>4. CASE tasks' # tasks /\ n = m
    <3>1. tasks'[m] # NoTask
      BY <2>2, <2>4 DEF TaskType, NoTask, Shapes
    <3>2. KeysRow(c, n)
      BY <2>1, <2>2, <2>4, <3>1 DEF KeysRow
    <3>3. QED
      BY <3>2 DEF RowGoes
  <2>5. QED
    BY <2>3, <2>4
<1>5. ASSUME NEW c \in Callers, StampsStart(c) \/ WinsClaim(c)
      PROVE  RowGoes(n)
  <2> DEFINE m == Current(c).name
  <2>1. /\ Judging(c) /\ Matches(tasks[m], Current(c)) /\ tasks' = Stamped(c)
        /\ UNCHANGED <<time, snap, world>>
        /\ \/ StartsClock(Current(c)) /\ log' = log /\ work'[c] = Moved(c)
           \/ WantsIt(c) /\ log' = [log EXCEPT ![m] = Noted(@, EntryOf(c))] /\ work'[c] = Firing(c)
    BY <1>5 DEF StampsStart, WinsClaim, Typed, EntryOf
  <2>2. tasks[m] # NoTask /\ NewKey(c) \in KeyType /\ m \in Names
    BY <2>1, DecidesBySight, Reading DEF Matches, Judging
  <2>3. /\ tasks'[m] \in TaskType /\ tasks'[m].shape = tasks[m].shape
        /\ tasks'[m].lastRunAt = work[c].now /\ tasks'[m].lastKey = NewKey(c)
        /\ \A k \in Names : k # m => tasks'[k] = tasks[k]
    BY <2>1, <2>2, StampedRow DEF Judging
  <2>4. CASE n # m
    <3>1. tasks'[n] = tasks[n]
      BY <2>3, <2>4
    <3>2. log'[n] = log[n]
      <4> HIDE DEF m
      <4>1. QED
        BY <2>1, <2>2, <2>4 DEF Typed
    <3>3. QED
      BY <3>1, <3>2 DEF RowGoes, StaysRow
  <2>5. CASE n = m
    <3>1. tasks'[m] # NoTask
      BY <2>3 DEF TaskType, NoTask, Shapes
    <3>2. \/ StartsClock(Current(c)) /\ log'[n] = log[n] /\ work'[c] = Moved(c)
          \/ WantsIt(c) /\ log'[n] = Noted(log[n], EntryOf(c)) /\ work'[c] = Firing(c)
      <4> HIDE DEF m
      <4>1. QED
        BY <2>1, <2>2, <2>5 DEF Typed
    <3>3. ClaimsRow(c, n)
      BY <2>1, <2>2, <2>3, <2>5, <3>1, <3>2 DEF ClaimsRow
    <3>4. QED
      BY <3>3 DEF RowGoes
  <2>6. QED
    BY <2>4, <2>5
<1>6. QED
  BY <1>1, <1>2, <1>3, <1>4, <1>5 DEF Next, TimePasses, WorldTurns, EventHappens, DeletesRuns,
     Polls, TickReads, Hears, Resubscribes, Stops, Loop, Sends, Ends, LosesClaim,
     StartsFire, EndsSilently, StatementFails, bookkeeping, Callers

\* What a tick has left to do is what it had, or the rest of that, or just read.
KeepsList(w, v) ==
  /\ v.snap = w.snap /\ v.now = w.now
  /\ \E k \in {0, 1} : \A i \in DOMAIN v.todo :
       /\ i \in Nat /\ i + k \in DOMAIN w.todo /\ v.todo[i] = w.todo[i + k]
       /\ (v.firing => i # 1) => (w.firing => i + k # 1)

LEMMA TickGoes ==
  ASSUME AutomationAssumption, Typed, Carried, Next, NEW p \in Runners
  PROVE  LET d == <<p, "ticks">>
         IN work'[d] = Idle \/ BeginsTick(d) \/ KeepsList(work[d], work'[d])
<1> DEFINE d == <<p, "ticks">>
<1>1. d \in Callers /\ d[1] = p /\ d[2] = "ticks"
  BY DEF Callers, Loops
<1>2. work[d] \in Works /\ work[d].todo \in Seq(TaskType)
  BY <1>1 DEF Typed, Works
<1>3. Len(work[d].todo) \in Nat /\ DOMAIN work[d].todo = 1..Len(work[d].todo)
  BY <1>2, LenProperties
<1>4. Goes(d)
  BY <1>1, WorkGoes
<1> HIDE DEF d
<1>5. CASE work'[d] = work[d] \/ SendsLine(d) \/ GoesToFire(d)
  <2>1. /\ work'[d].snap = work[d].snap /\ work'[d].now = work[d].now
        /\ work'[d].todo = work[d].todo
        /\ work[d].firing => work'[d].firing
    <3>1. CASE work'[d] = work[d] \/ SendsLine(d)
      BY <1>2, <3>1 DEF SendsLine, Works
    <3>2. CASE GoesToFire(d)
      BY <1>1, <3>2, FiringFields DEF GoesToFire
    <3>3. QED
      BY <1>5, <3>1, <3>2
  <2> DEFINE Kept(k) ==
               \A i \in DOMAIN work'[d].todo :
                 /\ i \in Nat /\ i + k \in DOMAIN work[d].todo
                 /\ work'[d].todo[i] = work[d].todo[i + k]
                 /\ (work'[d].firing => i # 1) => (work[d].firing => i + k # 1)
  <2>2. Kept(0)
    BY <1>3, <2>1
  <2>3. (\E k \in {0, 1} : Kept(k)) => KeepsList(work[d], work'[d])
    BY <2>1 DEF KeepsList
  <2> HIDE DEF Kept
  <2>4. QED
    BY <2>2, <2>3 DEF d
<1>6. CASE GoesOn(d)
  <2>1. work[d].todo # <<>> /\ work'[d] = Moved(d)
    BY <1>6 DEF GoesOn
  <2>2. CASE work'[d] # Idle
    <3>1. /\ work'[d].snap = work[d].snap /\ work'[d].now = work[d].now
          /\ work'[d].todo = Tail(work[d].todo) /\ ~work'[d].firing
      BY <1>1, <2>1, <2>2, MovedFields
    <3>2. /\ DOMAIN Tail(work[d].todo) = 1..(Len(work[d].todo) - 1)
          /\ \A i \in 1..(Len(work[d].todo) - 1) : Tail(work[d].todo)[i] = work[d].todo[i + 1]
      <4>1. /\ Tail(work[d].todo) \in Seq(TaskType)
            /\ Len(Tail(work[d].todo)) = Len(work[d].todo) - 1
            /\ \A i \in 1..Len(Tail(work[d].todo)) : Tail(work[d].todo)[i] = work[d].todo[i + 1]
        BY <1>2, <2>1, HeadTailProperties
      <4>2. QED
        BY <4>1, LenProperties
    <3> DEFINE Kept(k) ==
                 \A i \in DOMAIN work'[d].todo :
                   /\ i \in Nat /\ i + k \in DOMAIN work[d].todo
                   /\ work'[d].todo[i] = work[d].todo[i + k]
                   /\ (work'[d].firing => i # 1) => (work[d].firing => i + k # 1)
    <3>3. Kept(1)
      BY <1>3, <3>1, <3>2
    <3>4. (\E k \in {0, 1} : Kept(k)) => KeepsList(work[d], work'[d])
      BY <3>1 DEF KeepsList
    <3> HIDE DEF Kept
    <3>5. QED
      BY <3>3, <3>4 DEF d
  <2>3. QED
    BY <2>2 DEF d
<1>7. ~BeginsEvent(d)
  BY <1>1 DEF BeginsEvent, d
<1>8. QED
  BY <1>4, <1>5, <1>6, <1>7 DEF Goes, d

\* Time does not go back.
LEMMA TimeGoesOn ==
  ASSUME AutomationAssumption, Typed, Next
  PROVE  time \in Nat /\ time' \in Nat /\ time <= time'
<1>1. time \in Nat
  BY DEF Typed, AutomationAssumption
<1>2. time' = time \/ time' = time + 1
  BY DEF Next, TimePasses, WorldTurns, EventHappens, DeletesTask, DeletesRuns, SavesTask,
     Polls, TickReads, Hears, Resubscribes, Stops, Loop, Sends, Ends, SetsKey, LosesClaim,
     StampsStart, WinsClaim, StartsFire, EndsSilently, StatementFails
<1>3. QED
  BY <1>1, <1>2

LEMMA ReadingsStep ==
  ASSUME AutomationAssumption, Typed, Carried, Readings, Logged, Next
  PROVE  Readings'
<1> SUFFICES ASSUME NEW p \in Runners
             PROVE  Read(work[<<p, "ticks">>])'
  BY DEF Readings
<1> DEFINE d == <<p, "ticks">>
           old == work[d]
           new == work'[d]
<1>1. d \in Callers /\ d[1] = p
  BY DEF Callers, Loops
<1>2. setup' = setup /\ time \in Nat /\ time' \in Nat /\ time <= time'
  BY SameSetup, TimeGoesOn
<1>3. old \in Works /\ setup.time \in Nat
  BY <1>1 DEF Typed, AutomationAssumption
<1>4. Read(old)
  BY DEF Readings
<1>5. FormShapes' = FormShapes
  BY <1>2 DEF FormShapes
<1>6. /\ new.now <= time'
      /\ \A i \in DOMAIN new.todo : new.todo[i].lastRunAt <= new.now /\ new.todo[i].shape \in FormShapes
      /\ \A i, j \in DOMAIN new.todo : i < j => new.todo[i].name < new.todo[j].name
  <2>1. CASE new = Idle
    BY <1>2, <2>1 DEF Idle, Never
  <2>2. CASE BeginsTick(d)
    <3>1. PICK names \in SUBSET StoredNames : \E todo \in Listed(names) :
            work'[d] = [Idle EXCEPT !.todo = todo, !.snap = snap[d[1]], !.now = time]
      BY <2>2 DEF BeginsTick
    <3>2. PICK todo \in Listed(names) :
            work'[d] = [Idle EXCEPT !.todo = todo, !.snap = snap[d[1]], !.now = time]
      BY <3>1
    <3>3. new.todo = todo /\ new.now = time
      BY <3>2 DEF Idle
    <3>4. /\ \A i \in DOMAIN todo : todo[i].name \in names /\ todo[i] = tasks[todo[i].name]
          /\ \A i, j \in DOMAIN todo : i < j => todo[i].name < todo[j].name
      BY ListedTasks DEF StoredNames
    <3>5. \A n \in names : tasks[n].lastRunAt <= time /\ tasks[n].shape \in FormShapes
      BY DEF StoredNames, Logged, Typed
    <3> HIDE DEF new, d
    <3>6. \A i \in DOMAIN todo : todo[i].lastRunAt <= time /\ todo[i].shape \in FormShapes
      BY <3>4, <3>5
    <3>7. QED
      BY <1>2, <3>3, <3>4, <3>6
  <2>3. CASE KeepsList(old, new)
    <3> HIDE DEF old, new, d
    <3>1. new.now = old.now /\ old.now <= time /\ old.now \in Nat
      BY <1>3, <1>4, <2>3 DEF KeepsList, Read, Works
    <3>2. PICK k \in {0, 1} : \A i \in DOMAIN new.todo :
            i \in Nat /\ i + k \in DOMAIN old.todo /\ new.todo[i] = old.todo[i + k]
      BY <2>3 DEF KeepsList
    <3>3. \A i \in DOMAIN new.todo : new.todo[i].lastRunAt <= new.now /\ new.todo[i].shape \in FormShapes
      BY <1>4, <3>1, <3>2 DEF Read
    <3>4. ASSUME NEW i \in DOMAIN new.todo, NEW j \in DOMAIN new.todo, i < j
          PROVE  new.todo[i].name < new.todo[j].name
      <4>1. i + k < j + k /\ i + k \in DOMAIN old.todo /\ j + k \in DOMAIN old.todo
        BY <3>2, <3>4
      <4>2. old.todo[i + k].name < old.todo[j + k].name
        BY <1>4, <4>1 DEF Read
      <4>3. QED
        BY <3>2, <4>2
    <3>5. QED
      BY <1>2, <3>1, <3>3, <3>4
  <2>4. QED
    BY <2>1, <2>2, <2>3, TickGoes
<1>7. QED
  BY <1>5, <1>6 DEF Read

\* What a claim or a note is made on was read at an earlier time.
LEMMA ReadBefore ==
  ASSUME AutomationAssumption, Typed, Readings, NEW c \in Callers, Judging(c)
  PROVE  /\ work[c].now \in Nat /\ work[c].now <= time /\ time \in Nat
         /\ Current(c).lastRunAt \in Nat /\ Current(c).lastRunAt <= work[c].now
         /\ Current(c).shape \in FormShapes
<1>1. work[c].todo # <<>> /\ c = <<c[1], "ticks">> /\ c[1] \in Runners
  BY DEF Judging, Callers
<1>2. /\ work[c].now \in 0..setup.time /\ setup.time \in Nat
      /\ Current(c) = work[c].todo[1] /\ 1 \in DOMAIN work[c].todo
      /\ Current(c) \in TaskType
  BY <1>1, Reading
<1>3. Read(work[c])
  BY <1>1 DEF Readings
<1>4. QED
  BY <1>2, <1>3 DEF Read, TaskType, Typed

LEMMA LoggedStep ==
  ASSUME AutomationAssumption, Typed, Readings, Logged, Next
  PROVE  Logged'
<1> DEFINE Right(stored, past, now) ==
             /\ stored # NoTask => stored.lastRunAt <= now
             /\ \A i \in DOMAIN past :
                  /\ stored # NoTask /\ past[i].at <= stored.lastRunAt
                  /\ past[i].shape \in FormShapes
                  /\ past[i].shape = "daily" =>
                       PastTheHour(past[i].at) /\ past[i].occasion = Day(past[i].at)
<1>1. FormShapes' = FormShapes
  BY SameSetup DEF FormShapes
<1>2. \A n \in Names : Right(tasks[n], log[n], time)
  BY DEF Logged
<1>3. time \in Nat /\ time' \in Nat /\ time <= time'
  BY TimeGoesOn
<1>4. ASSUME NEW n \in Names
      PROVE  Right(tasks'[n], log'[n], time')
  <2>1. /\ tasks[n] # NoTask => tasks[n].lastRunAt \in Nat
        /\ log[n] \in Seq(Entries) /\ DOMAIN log[n] = 1..Len(log[n]) /\ Len(log[n]) \in Nat
    BY LenProperties DEF Typed, TaskType
  <2>2. \A i \in DOMAIN log[n] : log[n][i].at \in Nat
    <3>1. \A i \in DOMAIN log[n] : log[n][i] \in Entries
      BY <2>1, ElementOfSeq
    <3>2. \A e \in Entries : e.at \in Nat
      BY DEF Entries, Typed, AutomationAssumption
    <3>3. QED
      BY <3>1, <3>2
  <2>3. CASE StaysRow(n)
    BY <1>2, <1>3, <2>1, <2>3 DEF StaysRow
  <2>4. CASE ClearsRow(n)
    <3>1. DOMAIN log'[n] = {}
      BY <2>4, EmptySeq DEF ClearsRow
    <3>2. tasks'[n] # NoTask => tasks'[n].lastRunAt <= time'
      <4>1. CASE tasks[n] = NoTask
        BY <1>3, <2>4, <4>1 DEF ClearsRow
      <4>2. CASE tasks[n] # NoTask
        BY <1>2, <1>3, <2>1, <2>4, <4>2 DEF ClearsRow
      <4>3. QED
        BY <4>1, <4>2
    <3>3. QED
      BY <3>1, <3>2
  <2>5. ASSUME NEW c \in Callers, KeysRow(c, n)
        PROVE  Right(tasks'[n], log'[n], time')
    BY <1>2, <1>3, <2>1, <2>5 DEF KeysRow
  <2>6. ASSUME NEW c \in Callers, ClaimsRow(c, n)
        PROVE  Right(tasks'[n], log'[n], time')
    <3>1. /\ work[c].now \in Nat /\ work[c].now <= time'
          /\ tasks[n].lastRunAt <= work[c].now /\ Current(c).shape \in FormShapes
          /\ tasks'[n].lastRunAt = work[c].now /\ tasks[n] # NoTask /\ tasks'[n] # NoTask
      BY <1>3, <2>6, ReadBefore DEF ClaimsRow, Matches
    <3>2. \A i \in DOMAIN log[n] :
            /\ log[n][i].at <= tasks'[n].lastRunAt
            /\ log[n][i].shape \in FormShapes
            /\ log[n][i].shape = "daily" =>
                 PastTheHour(log[n][i].at) /\ log[n][i].occasion = Day(log[n][i].at)
      BY <1>2, <2>1, <2>2, <3>1
    <3>3. CASE log'[n] = log[n]
      BY <3>1, <3>2, <3>3
    <3>4. CASE WantsIt(c) /\ log'[n] = Noted(log[n], EntryOf(c))
      <4> DEFINE e == EntryOf(c)
      <4>1. e \in Entries
        BY <2>6, <3>4, EntryType DEF ClaimsRow, Judging, EntryOf
      <4>2. /\ e.at <= tasks'[n].lastRunAt /\ e.shape \in FormShapes
            /\ e.shape = "daily" => PastTheHour(e.at) /\ e.occasion = Day(e.at)
        BY <3>1, <3>4 DEF EntryOf, WantsIt, Fires
      <4> HIDE DEF e
      <4>3. \A i \in DOMAIN log'[n] :
              (i \in DOMAIN log[n] /\ log'[n][i] = log[n][i]) \/ log'[n][i] = e
        <5>1. log'[n] = Noted(log[n], e)
          BY <3>4 DEF e
        <5>2. Extends(log'[n], log[n], e)
          BY <2>1, <4>1, <5>1, NotedEntries
        <5>3. QED
          BY <2>1, <5>2 DEF Extends
      <4>4. QED
        BY <3>1, <3>2, <4>2, <4>3
    <3>5. QED
      BY <2>6, <3>3, <3>4 DEF ClaimsRow
  <2>7. QED
    BY <2>3, <2>4, <2>5, <2>6, RowsGo DEF RowGoes
<1>5. QED
  BY <1>1, <1>4 DEF Logged

LEMMA ClaimExtends ==
  ASSUME AutomationAssumption, Typed, NEW n \in Names, NEW c \in Callers, ClaimsRow(c, n)
  PROVE  \/ StartsClock(Current(c)) /\ log'[n] = log[n]
         \/ WantsIt(c) /\ Extends(log'[n], log[n], EntryOf(c))
<1>1. ASSUME WantsIt(c), log'[n] = Noted(log[n], EntryOf(c))
      PROVE  Extends(log'[n], log[n], EntryOf(c))
  <2>1. EntryOf(c) \in Entries /\ log[n] \in Seq(Entries)
    BY <1>1, EntryType DEF ClaimsRow, Judging, EntryOf, Typed
  <2>2. QED
    BY <1>1, <2>1, NotedEntries
<1>2. QED
  BY <1>1 DEF ClaimsRow

\* What is known of the entries, and of the claim that adds one.
LEMMA LogEntries ==
  ASSUME AutomationAssumption, Typed, NEW n \in Names
  PROVE  \A i \in DOMAIN log[n] :
           /\ log[n][i] \in Entries /\ log[n][i].at \in Nat /\ log[n][i].occasion \in Int
           /\ i \in Nat
<1>1. /\ log[n] \in Seq(Entries) /\ DOMAIN log[n] = 1..Len(log[n]) /\ Len(log[n]) \in Nat
  BY LenProperties DEF Typed
<1>2. \A i \in DOMAIN log[n] : log[n][i] \in Entries
  BY <1>1, ElementOfSeq
<1>3. \A e \in Entries : e.at \in Nat /\ e.occasion \in Int
  BY DEF Entries, Typed, AutomationAssumption
<1>4. QED
  BY <1>1, <1>2, <1>3

LEMMA SpacedStep ==
  ASSUME AutomationAssumption, Typed, Readings, Logged, Spaced, Next
  PROVE  Spaced'
<1> DEFINE Far(past) == \A i, j \in DOMAIN past :
                          i < j /\ past[i].shape = "every" /\ past[j].shape = "every" =>
                            past[j].at - past[i].at >= Every
<1>1. \A n \in Names : Far(log[n])
  BY DEF Spaced
<1>2. ASSUME NEW n \in Names
      PROVE  Far(log'[n])
  <2>1. CASE log'[n] = log[n]
    BY <1>1, <2>1
  <2>2. CASE log'[n] = <<>>
    BY <2>2, EmptySeq
  <2>3. ASSUME NEW c \in Callers, ClaimsRow(c, n), log'[n] # log[n]
        PROVE  Far(log'[n])
    <3> DEFINE e == EntryOf(c)
    <3>1. WantsIt(c) /\ Extends(log'[n], log[n], e)
      BY <2>3, ClaimExtends
    <3>2. /\ work[c].now \in Nat /\ e.at = work[c].now /\ e.shape = Current(c).shape
          /\ tasks[n].lastRunAt = Current(c).lastRunAt /\ Current(c).lastRunAt \in Nat
      BY <2>3, ReadBefore DEF ClaimsRow, Matches, EntryOf
    <3>3. e.shape = "every" => e.at - tasks[n].lastRunAt >= Every
      BY <3>1, <3>2 DEF WantsIt, Fires
    <3>4. \A i \in DOMAIN log[n] : log[n][i].at \in Nat /\ log[n][i].at <= tasks[n].lastRunAt
      BY LogEntries DEF Logged
    <3> HIDE DEF e
    <3>5. Every \in Nat
      BY DEF AutomationAssumption
    <3>6. ASSUME NEW i \in DOMAIN log'[n], NEW j \in DOMAIN log'[n], i < j,
                 log'[n][i].shape = "every", log'[n][j].shape = "every"
          PROVE  log'[n][j].at - log'[n][i].at >= Every
      <4>1. CASE j \in DOMAIN log[n]
        <5>1. i \in DOMAIN log[n] /\ log'[n][i] = log[n][i] /\ log'[n][j] = log[n][j]
          BY <3>1, <3>6, <4>1 DEF Extends
        <5>2. QED
          BY <1>1, <3>6, <4>1, <5>1
      <4>2. CASE j \notin DOMAIN log[n]
        <5>1. i \in DOMAIN log[n] /\ log'[n][i] = log[n][i] /\ log'[n][j] = e
          BY <3>1, <3>6, <4>2 DEF Extends
        <5>2. QED
          BY <3>2, <3>3, <3>4, <3>5, <3>6, <5>1
      <4>3. QED
        BY <4>1, <4>2
    <3>7. QED
      BY <3>6
  <2>4. QED
    BY <2>1, <2>2, <2>3, RowsGo DEF RowGoes, StaysRow, ClearsRow, KeysRow
<1>3. QED
  BY <1>2 DEF Spaced

LEMMA NoticedAlways ==
  ASSUME AutomationAssumption
  PROVE  Spec => [](Acted /\ Noticed)
<1>1. ASSUME Init
      PROVE  Noticed
  <2>1. \A d \in Callers : work[d] = Idle
    BY <1>1 DEF Init, Callers
  <2>2. Acted
    BY <1>1, ActedAtFirst
  <2>3. time \in Nat
    BY <2>2 DEF Acted, Typed, AutomationAssumption
  <2>4. Readings
    BY <2>1, <2>3 DEF Readings, Read, Idle, Never, Callers, Loops
  <2>5. \A n \in Names : DOMAIN log[n] = {}
    BY <1>1, EmptySeq DEF Init
  <2>6. \A n \in Names : tasks[n] # NoTask => tasks[n].lastRunAt = 0
    BY <1>1 DEF Init, Stored, Never
  <2>7. Logged
    <3>1. ASSUME NEW n \in Names, tasks[n] # NoTask
          PROVE  tasks[n].lastRunAt <= time
      <4>1. tasks[n].lastRunAt = 0
        BY <2>6, <3>1
      <4>2. QED
        BY <2>3, <4>1
    <3>2. QED
      BY <2>5, <3>1 DEF Logged
  <2>8. Spaced
    BY <2>5 DEF Spaced
  <2>9. QED
    BY <2>4, <2>7, <2>8 DEF Noticed
<1>2. ASSUME Acted, Noticed, [Next]_vars
      PROVE  Noticed'
  <2>1. CASE Next
    BY <1>2, <2>1, ReadingsStep, LoggedStep, SpacedStep DEF Acted, Noticed
  <2>2. CASE UNCHANGED vars
    <3>1. FormShapes' = FormShapes
      BY <2>2 DEF vars, FormShapes
    <3>2. QED
      BY <1>2, <2>2, <3>1 DEF vars, Noticed, Readings, Read, Logged, Spaced
  <2>3. QED
    BY <1>2, <2>1, <2>2
<1>3. QED
  BY <1>1, <1>2, ActedAtFirst, ActedStep, PTL DEF Spec

\* "Two ticks overlapping, or two panels on one database, must not both run the
\* same restart" (Runner.Tick): two runs of an interval are that far apart,
\* whoever claims them, whatever he has read and however late he acts on it.
THEOREM IntervalsAreKept ==
  ASSUME AutomationAssumption
  PROVE  Spec => []Spaced
BY NoticedAlways, PTL DEF Noticed
-----------------------------------------------------------------------------
(***************************************************************************)
(* What a runner has seen of the world, and what is written on sight of it.*)
(***************************************************************************)

\* The world goes through its turns in one direction.
LEMMA WorldGoesOn ==
  ASSUME AutomationAssumption, Typed, Next
  PROVE  Rank(world) \in Int /\ Rank(world') \in Int /\ Rank(world) <= Rank(world')
<1>1. /\ world = [occasion |-> world.occasion, on |-> world.on]
      /\ world.occasion \in Nat /\ world.on \in BOOLEAN
  BY DEF Typed, Snaps, AutomationAssumption
<1>2. world' = world \/ WorldTurns
  BY DEF Next, TimePasses, EventHappens, DeletesTask, DeletesRuns, SavesTask,
     Polls, TickReads, Hears, Resubscribes, Stops, Loop, Sends, Ends, SetsKey, LosesClaim,
     StampsStart, WinsClaim, StartsFire, EndsSilently, StatementFails
<1>3. CASE WorldTurns
  <2>1. CASE world.on
    <3>1. world'.occasion = world.occasion + 1 /\ ~world'.on
      BY <1>3, <2>1 DEF WorldTurns
    <3>2. QED
      BY <1>1, <2>1, <3>1 DEF Rank
  <2>2. CASE ~world.on
    <3>1. world'.occasion = world.occasion /\ world'.on
      BY <1>1, <1>3, <2>2 DEF WorldTurns
    <3>2. QED
      BY <1>1, <2>2, <3>1 DEF Rank
  <2>3. QED
    BY <2>1, <2>2
<1>4. QED
  BY <1>1, <1>2, <1>3 DEF Rank

LEMMA SightGoes ==
  ASSUME AutomationAssumption, Typed, Next, NEW p \in Runners
  PROVE  \/ snap'[p] = snap[p]
         \/ p \in setup.panels /\ snap'[p] = world /\ UNCHANGED <<world, work>>
         \/ snap'[p] = NoSnap /\ work'[<<p, "ticks">>] = Idle
<1>1. DOMAIN snap = Runners
  BY DEF Typed
<1>2. ASSUME NEW q \in Runners, Polls(q)
      PROVE  \/ snap'[p] = snap[p]
             \/ p \in setup.panels /\ snap'[p] = world /\ UNCHANGED <<world, work>>
  BY <1>1, <1>2 DEF Polls
<1>3. ASSUME NEW q \in Runners, Stops(q)
      PROVE  \/ snap'[p] = snap[p]
             \/ snap'[p] = NoSnap /\ work'[<<p, "ticks">>] = Idle
  <2>1. <<p, "ticks">> \in Runners \X Loops /\ <<p, "ticks">>[1] = p
    BY DEF Loops
  <2>2. /\ snap' = [snap EXCEPT ![q] = NoSnap]
        /\ work' = [c \in Runners \X Loops |-> IF c[1] = q THEN Idle ELSE work[c]]
    BY <1>3 DEF Stops
  <2>3. CASE p = q
    <3>1. snap'[p] = NoSnap
      BY <1>1, <2>2, <2>3
    <3>2. work'[<<p, "ticks">>] = Idle
      BY <2>1, <2>2, <2>3
    <3>3. QED
      BY <3>1, <3>2
  <2>4. CASE p # q
    BY <1>1, <2>2, <2>4
  <2>5. QED
    BY <2>3, <2>4
<1>4. CASE UNCHANGED snap
  BY <1>4
<1>5. QED
  BY <1>2, <1>3, <1>4 DEF Next, TimePasses, WorldTurns, EventHappens, DeletesTask, DeletesRuns,
     SavesTask, TickReads, Hears, Resubscribes, Loop, Sends, Ends, SetsKey, LosesClaim,
     StampsStart, WinsClaim, StartsFire, EndsSilently, StatementFails

LEMMA Ranks ==
  ASSUME AutomationAssumption, Typed
  PROVE  \A seen \in Snaps : /\ Rank(seen) \in Int /\ seen # NoSnap
                             /\ seen.occasion \in Nat /\ seen.on \in BOOLEAN
                             /\ Rank(seen) = 2 * seen.occasion + (IF seen.on THEN 1 ELSE 0)
<1>1. \A seen \in Snaps : seen.occasion \in Nat /\ seen.on \in BOOLEAN
  BY DEF Snaps, Typed, AutomationAssumption
<1>2. QED
  BY <1>1 DEF Rank, NoSnap

LEMMA InTurnStep ==
  ASSUME AutomationAssumption, Typed, Carried, InTurn, Next
  PROVE  InTurn'
<1> SUFFICES ASSUME NEW p \in Runners
             PROVE  /\ p \notin setup'.panels => work'[<<p, "ticks">>] = Idle /\ snap'[p] = NoSnap
                    /\ snap'[p] = NoSnap \/ Rank(snap'[p]) <= Rank(world')
                    /\ work'[<<p, "ticks">>].snap # NoSnap =>
                         /\ snap'[p] # NoSnap
                         /\ Rank(work'[<<p, "ticks">>].snap) <= Rank(snap'[p])
  BY DEF InTurn, Rank
<1> DEFINE d == <<p, "ticks">>
<1>1. d \in Callers /\ d[1] = p /\ d[2] = "ticks"
  BY DEF Callers, Loops
<1>2. /\ p \notin setup.panels => work[d] = Idle /\ snap[p] = NoSnap
      /\ snap[p] = NoSnap \/ Rank(snap[p]) <= Rank(world)
      /\ work[d].snap # NoSnap => snap[p] # NoSnap /\ Rank(work[d].snap) <= Rank(snap[p])
  BY DEF InTurn
<1>3. setup' = setup
  BY SameSetup
<1>4. /\ Rank(world) \in Int /\ Rank(world') \in Int /\ Rank(world) <= Rank(world')
      /\ world \in Snaps /\ world # NoSnap
  BY WorldGoesOn, Ranks DEF Typed
<1>5. /\ snap[p] # NoSnap => snap[p] \in Snaps /\ Rank(snap[p]) \in Int
      /\ work[d].snap # NoSnap => Rank(work[d].snap) \in Int
  BY <1>1, Ranks DEF Typed, Works
<1>6. \/ snap'[p] = snap[p]
      \/ p \in setup.panels /\ snap'[p] = world /\ UNCHANGED <<world, work>>
      \/ snap'[p] = NoSnap /\ work'[d] = Idle
  BY SightGoes
<1>7. work'[d] = Idle \/ BeginsTick(d) \/ KeepsList(work[d], work'[d])
  BY TickGoes
<1>8. ASSUME p \notin setup.panels
      PROVE  work'[d] = Idle
  <2>1. Goes(d) /\ work[d] = Idle
    BY <1>1, <1>2, <1>8, WorkGoes
  <2>2. ~BeginsTick(d) /\ ~BeginsEvent(d)
    BY <1>1, <1>8 DEF BeginsTick, BeginsEvent
  <2>3. work[d].todo = <<>> /\ ~work[d].firing
    BY <2>1 DEF Idle
  <2>4. ~GoesOn(d) /\ ~GoesToFire(d) /\ ~SendsLine(d)
    BY <2>3 DEF GoesOn, GoesToFire, SendsLine, InFire
  <2> HIDE DEF d
  <2>5. QED
    BY <2>1, <2>2, <2>4 DEF Goes
<1>9. Idle.snap = NoSnap
  BY DEF Idle
<1>10. BeginsTick(d) => work'[d].snap = snap[p] /\ snap'[p] = snap[p]
  <2>1. \A todo : [Idle EXCEPT !.todo = todo, !.snap = snap[p], !.now = time].snap = snap[p]
    BY DEF Idle
  <2>2. QED
    BY <1>1, <2>1 DEF BeginsTick
<1>11. KeepsList(work[d], work'[d]) => work'[d].snap = work[d].snap
  BY DEF KeepsList
<1> HIDE DEF d
<1>12. p \notin setup'.panels => work'[d] = Idle /\ snap'[p] = NoSnap
  BY <1>2, <1>3, <1>6, <1>8
<1>13. snap'[p] = NoSnap \/ Rank(snap'[p]) <= Rank(world')
  BY <1>2, <1>4, <1>5, <1>6
<1>14. work'[d].snap # NoSnap => snap'[p] # NoSnap /\ Rank(work'[d].snap) <= Rank(snap'[p])
  <2>1. CASE work'[d] = Idle
    BY <1>9, <2>1
  <2>2. CASE BeginsTick(d)
    BY <1>5, <1>10, <2>2
  <2>3. CASE KeepsList(work[d], work'[d]) /\ work'[d] # Idle
    BY <1>2, <1>4, <1>5, <1>6, <1>11, <2>3
  <2>4. QED
    BY <1>7, <2>1, <2>2, <2>3
<1>15. QED
  BY <1>12, <1>13, <1>14 DEF d

\* Where there is one runner, whoever judges is he, and nobody else has seen
\* anything.
LEMMA OneRunner ==
  ASSUME AutomationAssumption, Typed, InTurn, Alone, NEW c \in Callers, Judging(c)
  PROVE  /\ c = <<c[1], "ticks">> /\ c[1] \in setup.panels
         /\ \A p \in Runners :
              p # c[1] => work[<<p, "ticks">>] = Idle /\ snap[p] = NoSnap
<1>1. c = <<c[1], c[2]>> /\ c[1] \in Runners /\ c[2] = "ticks" /\ work[c].todo # <<>>
  BY DEF Callers, Judging
<1>2. c[1] \in setup.panels
  <2>1. work[c] # Idle
    BY <1>1 DEF Idle
  <2>2. QED
    BY <1>1, <2>1 DEF InTurn
<1>3. IsFiniteSet(setup.panels)
  <2>1. setup.panels \in SUBSET Runners /\ IsFiniteSet(Runners)
    BY DEF Typed, AutomationAssumption
  <2>2. QED
    BY <2>1, FS_Subset
<1>4. \E x : setup.panels = {x}
  BY <1>3, FS_Singleton DEF Alone
<1>5. \A p \in Runners : p # c[1] => p \notin setup.panels
  BY <1>2, <1>4
<1>6. QED
  BY <1>1, <1>2, <1>5 DEF InTurn

\* A write is about the first task of the list, and the caller is past it then.
LEMMA WriterMovesOn ==
  ASSUME AutomationAssumption, Typed, NEW c \in Callers, work[c].todo # <<>>,
         \A i, j \in DOMAIN work[c].todo : i < j => work[c].todo[i].name < work[c].todo[j].name,
         work'[c] = Moved(c) \/ work'[c] = Firing(c),
         NEW i \in DOMAIN work'[c].todo, work'[c].firing => i # 1
  PROVE  work'[c].todo[i].name # Current(c).name
<1>1. /\ work[c].todo \in Seq(TaskType) /\ Len(work[c].todo) \in Nat
      /\ DOMAIN work[c].todo = 1..Len(work[c].todo)
  BY LenProperties DEF Typed, Works
<1>2. Current(c) = work[c].todo[1] /\ 1 \in DOMAIN work[c].todo
  BY Reading
<1>3. \A k \in DOMAIN work[c].todo : k # 1 => work[c].todo[k].name # Current(c).name
  <2> TAKE k \in DOMAIN work[c].todo
  <2>1. work[c].todo[k] \in TaskType /\ Current(c) \in TaskType
    BY <1>1, Reading, ElementOfSeq
  <2>2. work[c].todo[k].name \in Nat /\ Current(c).name \in Nat
    BY <2>1 DEF TaskType, AutomationAssumption
  <2>3. k # 1 => 1 < k
    BY <1>1
  <2>4. QED
    BY <1>2, <2>2, <2>3
<1>4. CASE work'[c] = Firing(c)
  <2>1. work'[c].todo = work[c].todo /\ work'[c].firing
    BY <1>4, FiringFields
  <2>2. QED
    BY <1>3, <2>1
<1>5. CASE work'[c] = Moved(c)
  <2>1. CASE Moved(c) = Idle
    <3>1. DOMAIN work'[c].todo = {}
      BY <1>5, <2>1, EmptySeq DEF Idle
    <3>2. QED
      BY <3>1
  <2>2. CASE Moved(c).todo = Tail(work[c].todo)
    <3>1. /\ Tail(work[c].todo) \in Seq(TaskType)
          /\ Len(Tail(work[c].todo)) = Len(work[c].todo) - 1
          /\ \A k \in 1..Len(Tail(work[c].todo)) : Tail(work[c].todo)[k] = work[c].todo[k + 1]
      BY <1>1, HeadTailProperties
    <3>2. DOMAIN Tail(work[c].todo) = 1..(Len(work[c].todo) - 1)
      BY <3>1, LenProperties
    <3>3. /\ i \in Nat /\ i + 1 \in DOMAIN work[c].todo /\ i + 1 # 1
          /\ work'[c].todo[i] = work[c].todo[i + 1]
      BY <1>1, <1>5, <2>2, <3>1, <3>2
    <3>4. QED
      BY <1>3, <3>3
  <2>3. QED
    BY <2>1, <2>2, MovedFields
<1>6. QED
  BY <1>4, <1>5

LEMMA FreshStep ==
  ASSUME AutomationAssumption, Typed, Carried, Readings, Logged, InTurn, Fresh, Next
  PROVE  Fresh'
<1> SUFFICES ASSUME Alone', NEW p \in Runners, NEW i \in DOMAIN work'[<<p, "ticks">>].todo,
                    work'[<<p, "ticks">>].firing => i # 1
             PROVE  StillStored(p, i)'
  BY DEF Fresh
<1> DEFINE d == <<p, "ticks">>
           t == work'[d].todo[i]
           n == t.name
<1>1. d \in Callers /\ d[1] = p /\ d[2] = "ticks"
  BY DEF Callers, Loops
<1>2. Alone
  BY SameSetup DEF Alone
<1>3. /\ work[d].todo \in Seq(TaskType) /\ Len(work[d].todo) \in Nat
      /\ DOMAIN work[d].todo = 1..Len(work[d].todo)
  BY <1>1, LenProperties DEF Typed, Works
<1>4. work'[d] = Idle \/ BeginsTick(d) \/ KeepsList(work[d], work'[d])
  BY TickGoes
<1>5. work'[d] # Idle
  <2>1. DOMAIN Idle.todo = {}
    BY EmptySeq DEF Idle
  <2>2. QED
    BY <2>1
<1>6. log'[n] = <<>> \/ (tasks'[n].shape = t.shape /\ tasks'[n].lastKey = t.lastKey)
        => StillStored(p, i)'
  BY DEF StillStored
<1>7. CASE BeginsTick(d)
  <2>1. PICK names \in SUBSET StoredNames : \E todo \in Listed(names) :
          work'[d] = [Idle EXCEPT !.todo = todo, !.snap = snap[d[1]], !.now = time]
    BY <1>7 DEF BeginsTick
  <2>2. PICK todo \in Listed(names) :
          work'[d] = [Idle EXCEPT !.todo = todo, !.snap = snap[d[1]], !.now = time]
    BY <2>1
  <2>3. work'[d].todo = todo
    BY <2>2 DEF Idle
  <2>4. i \in DOMAIN todo => todo[i] = tasks[todo[i].name]
    BY <2>1, <2>2, ListedTasks DEF StoredNames
  <2>5. t = tasks[n]
    BY <2>3, <2>4
  <2>6. tasks' = tasks
    BY <1>7 DEF BeginsTick
  <2> HIDE DEF t, d
  <2>7. QED
    BY <1>6, <2>5, <2>6 DEF n
<1>8. CASE KeepsList(work[d], work'[d])
  <2>1. PICK k \in {0, 1} :
               /\ i \in Nat /\ i + k \in DOMAIN work[d].todo /\ t = work[d].todo[i + k]
               /\ (work'[d].firing => i # 1) => (work[d].firing => i + k # 1)
    BY <1>8 DEF KeepsList
  <2>2. StillStored(p, i + k)
    BY <1>2, <2>1 DEF Fresh
  <2>3. log[n] = <<>> \/ (tasks[n].shape = t.shape /\ tasks[n].lastKey = t.lastKey)
    <3> DEFINE u == work[d].todo[i + k]
    <3>1. log[u.name] = <<>> \/ (tasks[u.name].shape = u.shape /\ tasks[u.name].lastKey = u.lastKey)
      BY <2>2 DEF StillStored
    <3>2. t = u
      BY <2>1
    <3>3. n = u.name
      BY <3>2
    <3> HIDE DEF n, t, u, d
    <3>4. QED
      BY <3>1, <3>2, <3>3
  <2>4. t \in TaskType /\ n \in Names
    <3>1. t \in TaskType
      BY <1>3, <2>1, ElementOfSeq
    <3>2. QED
      BY <3>1 DEF TaskType
  <2>5. log[n] # <<>> => tasks[n] # NoTask
    <3>1. log[n] \in Seq(Entries)
      BY <2>4 DEF Typed
    <3>2. log[n] # <<>> => 1 \in DOMAIN log[n]
      BY <3>1, EmptySeq, LenProperties
    <3>3. QED
      BY <2>4, <3>2 DEF Logged
  <2>6. ASSUME NEW c \in Callers, KeysRow(c, n) \/ ClaimsRow(c, n)
        PROVE  FALSE
    <3>1. Judging(c) /\ n = Current(c).name /\ (work'[c] = Moved(c) \/ work'[c] = Firing(c))
      BY <2>6 DEF KeysRow, ClaimsRow
    <3>2. /\ c = <<c[1], "ticks">> /\ c[1] \in Runners
          /\ p # c[1] => work[d] = Idle
      BY <1>2, <3>1, OneRunner DEF Callers
    <3>3. work[d] # Idle
      BY <2>1, EmptySeq DEF Idle
    <3>4. c = d
      BY <3>2, <3>3
    <3>5. /\ work[d].todo # <<>>
          /\ \A a, b \in DOMAIN work[d].todo : a < b => work[d].todo[a].name < work[d].todo[b].name
      BY <3>1, <3>4 DEF Judging, Readings, Read
    <3> HIDE DEF d
    <3>6. t.name # Current(c).name
      BY <1>1, <3>1, <3>4, <3>5, WriterMovesOn DEF d
    <3>7. QED
      BY <3>1, <3>6
  <2> HIDE DEF n, t, d
  <2>7. StaysRow(n) \/ ClearsRow(n)
    BY <2>4, <2>6, RowsGo DEF RowGoes
  <2>8. QED
    BY <1>6, <2>3, <2>5, <2>7 DEF StaysRow, ClearsRow
<1>9. QED
  BY <1>4, <1>5, <1>7, <1>8

\* A reading that is about to be acted on is what is stored, where there is one
\* runner.
LEMMA ReadingIsStored ==
  ASSUME AutomationAssumption, Typed, InTurn, Fresh, Alone, NEW c \in Callers, Judging(c)
  PROVE  LET n == Current(c).name
         IN log[n] = <<>> \/ /\ tasks[n].shape = Current(c).shape
                             /\ tasks[n].lastKey = Current(c).lastKey
<1>1. c = <<c[1], "ticks">> /\ c[1] \in Runners
  BY OneRunner DEF Callers
<1>2. Current(c) = work[c].todo[1] /\ 1 \in DOMAIN work[c].todo /\ ~work[c].firing
  BY Reading DEF Judging
<1>3. StillStored(c[1], 1)
  BY <1>1, <1>2 DEF Fresh
<1>4. QED
  BY <1>1, <1>2, <1>3 DEF StillStored

\* Where there are several, no task about the clock is taken for one about the
\* game.
LEMMA KindsApart ==
  ASSUME OneKind, ~Alone, "daily" \in FormShapes
  PROVE  FormShapes \subseteq {"every", "daily", "event"}
BY DEF OneKind, FormShapes

\* Half the units of the clock are past the hour, and the next is a new day.
LEMMA Days ==
  /\ \A now \in Nat : Day(now) \in Nat
  /\ \A now, then \in Nat : now <= then => Day(now) <= Day(then)
  /\ \A now, then \in Nat : PastTheHour(now) /\ now < then => Day(now) < Day(then)
  /\ ~PastTheHour(0)
BY DEF Day, PastTheHour

\* A daily task and a claim of its row on another day, or by a reading that took
\* the task for an interval.
LEMMA DatedClaim ==
  ASSUME AutomationAssumption, OneKind, Typed, Readings, Logged, InTurn, Fresh, Dated,
         NEW n \in Names, NEW c \in Callers, ClaimsRow(c, n),
         NEW i \in DOMAIN log[n], log[n][i].shape = "daily", Alone => tasks[n].shape = "daily"
  PROVE  log[n][i].occasion < Day(work[c].now)
<1> DEFINE e == log[n][i]
           t == Current(c)
           now == work[c].now
<1>1. Judging(c) /\ n = t.name /\ tasks[n].lastRunAt = t.lastRunAt /\ tasks[n].lastKey = t.lastKey
  BY DEF ClaimsRow, Matches
<1>2. /\ now \in Nat /\ t.lastRunAt \in Nat /\ t.lastRunAt <= now /\ t.shape \in FormShapes
  BY <1>1, ReadBefore
<1>3. /\ e.at \in Nat /\ e.occasion \in Int /\ e.at <= t.lastRunAt
      /\ e.shape \in FormShapes /\ PastTheHour(e.at) /\ e.occasion = Day(e.at)
  BY <1>1, LogEntries DEF Logged
<1>4. StartsClock(t) \/ WantsIt(c)
  BY DEF ClaimsRow
<1>5. t.shape \in {"every", "daily"}
  <2>1. CASE Alone
    <3>1. log[n] # <<>>
      BY EmptySeq
    <3>2. QED
      BY <1>1, <2>1, <3>1, ReadingIsStored
  <2>2. CASE ~Alone
    <3>1. t.shape # "event"
      BY <1>4 DEF StartsClock, WantsIt, Fires
    <3>2. QED
      BY <1>2, <1>3, <2>2, <3>1, KindsApart
  <2>3. QED
    BY <2>1, <2>2
<1>6. CASE t.shape = "every"
  <2>1. e.at < now
    <3>1. CASE StartsClock(t)
      <4>1. e.at = 0
        BY <1>3, <3>1 DEF StartsClock, Never
      <4>2. QED
        BY <1>3, <4>1, Days
    <3>2. CASE WantsIt(c)
      <4>1. now - t.lastRunAt >= Every
        BY <1>6, <3>2 DEF WantsIt, Fires
      <4>2. Every \in Nat \ {0}
        BY DEF AutomationAssumption
      <4> HIDE DEF e, t, now
      <4>3. QED
        BY <1>2, <1>3, <4>1, <4>2
    <3>3. QED
      BY <1>4, <3>1, <3>2
  <2> HIDE DEF e, t, now
  <2>2. Day(e.at) < Day(now)
    BY <1>2, <1>3, <2>1, Days
  <2>3. QED
    BY <1>3, <2>2 DEF e, now
<1>7. CASE t.shape = "daily"
  <2>1. t.lastKey # <<"date", Day(now)>>
    <3>1. WantsIt(c)
      BY <1>4, <1>7 DEF StartsClock
    <3>2. QED
      BY <1>7, <3>1 DEF WantsIt, Fires, KeyOf
  <2>2. e.occasion < Day(t.lastRunAt) \/ t.lastKey = <<"date", e.occasion>>
    BY <1>1 DEF Dated
  <2> HIDE DEF e, t, now
  <2>3. e.at <= now /\ Day(e.at) <= Day(now) /\ Day(t.lastRunAt) <= Day(now)
        /\ Day(e.at) \in Nat /\ Day(now) \in Nat /\ Day(t.lastRunAt) \in Nat
    BY <1>2, <1>3, Days
  <2>4. e.occasion # Day(now) \/ e.occasion < Day(t.lastRunAt)
    BY <2>1, <2>2
  <2>5. QED
    BY <1>3, <2>3, <2>4 DEF e, now
<1>8. QED
  BY <1>5, <1>6, <1>7

LEMMA DatedStep ==
  ASSUME AutomationAssumption, OneKind, Typed, Carried, Readings, Logged, InTurn, Fresh, Dated,
         Next
  PROVE  Dated'
<1> SUFFICES ASSUME NEW n \in Names, NEW i \in DOMAIN log'[n], log'[n][i].shape = "daily",
                    Alone' => tasks'[n].shape = "daily"
             PROVE  \/ log'[n][i].occasion < Day(tasks'[n].lastRunAt)
                    \/ tasks'[n].lastKey = <<"date", log'[n][i].occasion>>
  BY DEF Dated, Day
<1>1. Alone' = Alone
  BY SameSetup DEF Alone
<1>2. CASE StaysRow(n)
  <2>1. tasks[n] # NoTask
    BY <1>2 DEF StaysRow, Logged
  <2>2. QED
    BY <1>1, <1>2, <2>1 DEF StaysRow, Dated
<1>3. CASE ClearsRow(n)
  BY <1>3, EmptySeq DEF ClearsRow
<1>4. ASSUME NEW c \in Callers, KeysRow(c, n)
      PROVE  FALSE
  <2>1. /\ Judging(c) /\ n = Current(c).name /\ log'[n] = log[n]
        /\ tasks'[n].shape = tasks[n].shape
        /\ Current(c).shape \in {"changing", "over"}
    BY <1>4 DEF KeysRow, ToRemember, Remembers
  <2>2. CASE Alone
    BY <1>1, <2>1, <2>2, EmptySeq, ReadingIsStored
  <2>3. CASE ~Alone
    BY <2>1, <2>3, KindsApart, ReadBefore DEF Logged
  <2>4. QED
    BY <2>2, <2>3
<1>5. ASSUME NEW c \in Callers, ClaimsRow(c, n)
      PROVE  \/ log'[n][i].occasion < Day(tasks'[n].lastRunAt)
             \/ tasks'[n].lastKey = <<"date", log'[n][i].occasion>>
  <2>1. /\ tasks'[n].shape = tasks[n].shape
        /\ tasks'[n].lastRunAt = work[c].now /\ tasks'[n].lastKey = NewKey(c)
    BY <1>5 DEF ClaimsRow
  <2>2. log'[n] = log[n] \/ Extends(log'[n], log[n], EntryOf(c))
    BY <1>5, ClaimExtends
  <2>3. CASE i \in DOMAIN log[n]
    <3>1. log'[n][i] = log[n][i]
      BY <2>2, <2>3 DEF Extends
    <3>2. QED
      BY <1>1, <1>5, <2>1, <2>3, <3>1, DatedClaim
  <2>4. CASE i \notin DOMAIN log[n]
    <3>1. log'[n][i] = EntryOf(c)
      BY <2>2, <2>4 DEF Extends
    <3>2. Current(c).shape = "daily" /\ log'[n][i].occasion = Day(work[c].now)
      BY <3>1 DEF EntryOf
    <3>3. NewKey(c) = <<"date", Day(work[c].now)>>
      BY <3>2 DEF NewKey, KeyOf
    <3>4. QED
      BY <2>1, <3>2, <3>3
  <2>5. QED
    BY <2>3, <2>4
<1>6. QED
  BY <1>2, <1>3, <1>4, <1>5, RowsGo DEF RowGoes

\* What is at its place in the turns is so still after a step.
Reached(least) ==
  /\ least <= Rank(world)
  /\ \A p \in Runners : /\ NotBefore(snap[p], least)
                        /\ NotBefore(work[<<p, "ticks">>].snap, least)

ReachedNext(least) ==
  /\ least <= Rank(world')
  /\ \A p \in Runners : /\ NotBefore(snap'[p], least)
                        /\ NotBefore(work'[<<p, "ticks">>].snap, least)

LEMMA StaysReached ==
  ASSUME AutomationAssumption, Typed, Carried, Next, NEW least \in Int, Reached(least)
  PROVE  ReachedNext(least)
<1>1. Rank(world) \in Int /\ Rank(world') \in Int /\ Rank(world) <= Rank(world')
  BY WorldGoesOn
<1>2. least <= Rank(world) /\ least <= Rank(world')
  BY <1>1 DEF Reached
<1>3. ASSUME NEW p \in Runners
      PROVE  NotBefore(snap'[p], least) /\ NotBefore(work'[<<p, "ticks">>].snap, least)
  <2> DEFINE d == <<p, "ticks">>
  <2>1. NotBefore(snap[p], least) /\ NotBefore(work[d].snap, least)
    BY DEF Reached
  <2>2. NotBefore(world, least) /\ NotBefore(NoSnap, least)
    BY <1>2 DEF NotBefore
  <2>3. NotBefore(snap'[p], least)
    BY <2>1, <2>2, SightGoes
  <2>4. \/ work'[d].snap = NoSnap \/ work'[d].snap = snap[p] \/ work'[d].snap = work[d].snap
    <3>1. CASE work'[d] = Idle
      BY <3>1 DEF Idle
    <3>2. CASE BeginsTick(d)
      <4>1. \A todo : [Idle EXCEPT !.todo = todo, !.snap = snap[p], !.now = time].snap = snap[p]
        BY DEF Idle
      <4>2. QED
        BY <3>2, <4>1 DEF BeginsTick
    <3>3. CASE KeepsList(work[d], work'[d])
      BY <3>3 DEF KeepsList
    <3>4. QED
      BY <3>1, <3>2, <3>3, TickGoes
  <2> HIDE DEF d
  <2>5. NotBefore(work'[d].snap, least)
    BY <2>1, <2>2, <2>4
  <2>6. QED
    BY <2>3, <2>5 DEF d
<1>4. QED
  BY <1>2, <1>3 DEF ReachedNext

\* What the one runner acts on has been seen by all who see anything.
LEMMA ActedOnIsReached ==
  ASSUME AutomationAssumption, Typed, InTurn, Alone, NEW c \in Callers, Judging(c),
         work[c].snap # NoSnap, NEW least \in Int, least <= Rank(work[c].snap)
  PROVE  Reached(least)
<1>1. /\ c = <<c[1], "ticks">> /\ c[1] \in Runners
      /\ \A p \in Runners : p # c[1] => work[<<p, "ticks">>] = Idle /\ snap[p] = NoSnap
  BY OneRunner DEF Callers
<1> DEFINE q == c[1]
<1>2. /\ snap[q] # NoSnap /\ Rank(work[c].snap) <= Rank(snap[q])
      /\ Rank(snap[q]) <= Rank(world)
  BY <1>1 DEF InTurn
<1>3. /\ work[c].snap \in Snaps /\ snap[q] \in Snaps /\ world \in Snaps
  BY <1>1, <1>2 DEF Typed, Works
<1>4. Rank(work[c].snap) \in Int /\ Rank(snap[q]) \in Int /\ Rank(world) \in Int
  BY <1>3, Ranks
<1>5. least <= Rank(snap[q]) /\ least <= Rank(world)
  BY <1>2, <1>4
<1>6. ASSUME NEW p \in Runners
      PROVE  NotBefore(snap[p], least) /\ NotBefore(work[<<p, "ticks">>].snap, least)
  <2>1. CASE p = q
    BY <1>1, <1>5, <2>1 DEF NotBefore
  <2>2. CASE p # q
    BY <1>1, <2>2 DEF NotBefore, Idle
  <2>3. QED
    BY <2>1, <2>2
<1>7. QED
  BY <1>5, <1>6 DEF Reached

GameShapes == {"named", "changing", "over"}

\* The floors of a history are numbers.
LEMMA Floors ==
  ASSUME AutomationAssumption, Typed, NEW c \in Callers, work[c].todo # <<>>, NEW key
  PROVE  /\ \A n \in Names : \A i \in DOMAIN log[n] : Floor(log[n][i], key) \in Int
         /\ Current(c).shape \in GameShapes /\ work[c].snap \in Snaps
              => Floor(EntryOf(c), key) \in Int
<1>1. \A e : e.occasion \in Int => Floor(e, key) \in Int
  BY DEF Floor
<1>2. \A n \in Names : \A i \in DOMAIN log[n] : Floor(log[n][i], key) \in Int
  BY <1>1, LogEntries
<1>3. Current(c).shape \in GameShapes /\ work[c].snap \in Snaps => EntryOf(c).occasion \in Int
  BY Ranks DEF EntryOf, GameShapes
<1>4. QED
  BY <1>1, <1>2, <1>3

\* A note, or a claim, is made where the world is past what the key told of.
LEMMA WrittenOnSight ==
  ASSUME AutomationAssumption, NEW t \in TaskType, NEW seen \in Snaps,
         seen.occasion \in Nat, seen.on \in BOOLEAN, NEW now, NEW entry,
         entry.occasion \in Int, entry.shape = t.shape, t.shape \in GameShapes,
         Floor(entry, t.lastKey) <= Rank(seen),
         Fires(t, seen, now) \/ Remembers(t, seen, now)
  PROVE  /\ Floor(entry, KeyOf(t, seen, now)) <= Rank(seen)
         /\ Fires(t, seen, now) => entry.occasion < seen.occasion
<1> DEFINE occ == entry.occasion
           now1 == seen.occasion
<1>1. CASE t.shape = "named"
  <2>1. seen.on /\ t.lastKey # <<"day", now1>> /\ KeyOf(t, seen, now) = <<"day", now1>>
    BY <1>1 DEF Fires, Remembers, KeyOf
  <2>2. 2 * occ + (IF t.lastKey = <<"day", occ>> THEN 1 ELSE 2) <= 2 * now1 + 1
    BY <1>1, <2>1 DEF Floor, Rank
  <2>3. occ # now1 \/ t.lastKey # <<"day", occ>>
    BY <2>1
  <2>4. occ < now1
    BY <2>2, <2>3
  <2>5. Floor(entry, <<"day", now1>>) = 2 * occ + 2
    BY <1>1, <2>4 DEF Floor
  <2>6. QED
    BY <2>1, <2>4, <2>5 DEF Rank
<1>2. CASE t.shape = "changing"
  <2>1. 2 * occ + (IF t.lastKey = <<"on">> THEN 1 ELSE 2) <= 2 * now1 + (IF seen.on THEN 1 ELSE 0)
    BY <1>2 DEF Floor, Rank
  <2>2. CASE seen.on
    <3>1. t.lastKey # <<"on">> /\ KeyOf(t, seen, now) = <<"on">>
      BY <1>2, <2>2 DEF Fires, Remembers, KeyOf
    <3>2. occ < now1
      BY <2>1, <2>2, <3>1
    <3>3. Floor(entry, <<"on">>) = 2 * occ + 1
      BY <1>2 DEF Floor
    <3>4. QED
      BY <2>2, <3>1, <3>2, <3>3 DEF Rank
  <2>3. CASE ~seen.on
    <3>1. KeyOf(t, seen, now) = NoKey /\ ~Fires(t, seen, now)
      BY <1>2, <2>3 DEF Fires, KeyOf
    <3>2. occ < now1
      BY <2>1, <2>3
    <3>3. Floor(entry, NoKey) = 2 * occ + 2
      BY <1>2 DEF Floor, NoKey
    <3>4. QED
      BY <2>3, <3>1, <3>2, <3>3 DEF Rank
  <2>4. QED
    BY <2>2, <2>3
<1>3. CASE t.shape = "over"
  <2>1. 2 * occ + (IF t.lastKey = <<"during">> THEN 1 ELSE 0) <= 2 * now1 + (IF seen.on THEN 1 ELSE 0)
    BY <1>3 DEF Floor, Rank
  <2>2. CASE seen.on
    <3>1. KeyOf(t, seen, now) = <<"during">> /\ ~Fires(t, seen, now)
      BY <1>3, <2>2 DEF Fires, KeyOf
    <3>2. occ <= now1
      BY <2>1, <2>2
    <3>3. Floor(entry, <<"during">>) = 2 * occ + 1
      BY <1>3 DEF Floor
    <3>4. QED
      BY <2>2, <3>1, <3>2, <3>3 DEF Rank
  <2>3. CASE ~seen.on
    <3>1. KeyOf(t, seen, now) = NoKey /\ t.lastKey = <<"during">>
      BY <1>3, <2>3 DEF Fires, Remembers, KeyOf
    <3>2. occ < now1
      BY <2>1, <2>3, <3>1
    <3>3. Floor(entry, NoKey) = 2 * occ
      BY <1>3 DEF Floor, NoKey
    <3>4. QED
      BY <2>3, <3>1, <3>2, <3>3 DEF Rank
  <2>4. QED
    BY <2>2, <2>3
<1>4. QED
  BY <1>1, <1>2, <1>3 DEF GameShapes

\* A run's own floor is what it was made on sight of.
LEMMA OwnFloor ==
  ASSUME AutomationAssumption, Typed, NEW c \in Callers, WantsIt(c), work[c].snap \in Snaps,
         Current(c).shape \in GameShapes
  PROVE  Floor(EntryOf(c), NewKey(c)) <= Rank(work[c].snap)
<1> DEFINE seen == work[c].snap
           t == Current(c)
<1>1. EntryOf(c).shape = t.shape /\ EntryOf(c).occasion = seen.occasion
  BY DEF EntryOf, GameShapes
<1>2. seen.occasion \in Nat /\ seen.on \in BOOLEAN
  BY Ranks
<1>3. Fires(t, seen, work[c].now)
  BY DEF WantsIt
<1>4. NewKey(c) = KeyOf(t, seen, work[c].now)
  BY DEF NewKey
<1> HIDE DEF t, seen
<1>5. CASE t.shape = "named"
  <2>1. KeyOf(t, seen, work[c].now) = <<"day", seen.occasion>> /\ seen.on
    BY <1>3, <1>5 DEF Fires, KeyOf
  <2>2. QED
    BY <1>1, <1>2, <1>4, <1>5, <2>1 DEF Floor, Rank, seen
<1>6. CASE t.shape = "changing"
  <2>1. KeyOf(t, seen, work[c].now) = <<"on">> /\ seen.on
    BY <1>3, <1>6 DEF Fires, KeyOf
  <2>2. QED
    BY <1>1, <1>2, <1>4, <1>6, <2>1 DEF Floor, Rank, seen
<1>7. CASE t.shape = "over"
  <2>1. KeyOf(t, seen, work[c].now) = NoKey /\ ~seen.on
    BY <1>3, <1>7 DEF Fires, KeyOf
  <2>2. QED
    BY <1>1, <1>2, <1>4, <1>7, <2>1 DEF Floor, Rank, NoKey, seen
<1>8. QED
  BY <1>5, <1>6, <1>7 DEF GameShapes, t

\* What the one runner's claim, or note, does to the floor of a run before it.
LEMMA FloorGoes ==
  ASSUME AutomationAssumption, Typed, InTurn, Fresh, Turned, Alone,
         NEW n \in Names, NEW c \in Callers, KeysRow(c, n) \/ ClaimsRow(c, n),
         NEW i \in DOMAIN log[n], log[n][i].shape \in GameShapes, tasks[n].shape = log[n][i].shape
  PROVE  /\ work[c].snap \in Snaps
         /\ Floor(log[n][i], NewKey(c)) <= Rank(work[c].snap)
         /\ WantsIt(c) => log[n][i].occasion < work[c].snap.occasion
<1> DEFINE t == Current(c)
           seen == work[c].snap
           e == log[n][i]
<1>1. /\ Judging(c) /\ n = t.name /\ work[c].todo # <<>>
      /\ ToRemember(c) \/ StartsClock(t) \/ WantsIt(c)
  BY DEF KeysRow, ClaimsRow, Judging
<1>2. log[n] # <<>>
  BY EmptySeq
<1>3. tasks[n].shape = t.shape /\ tasks[n].lastKey = t.lastKey
  BY <1>1, <1>2, ReadingIsStored
<1>4. t \in TaskType /\ t.shape \in GameShapes /\ e.shape = t.shape
  BY <1>1, <1>3, Reading
<1>5. seen \in Snaps /\ seen.occasion \in Nat /\ seen.on \in BOOLEAN
  BY <1>1, <1>4, DecidesBySight, Ranks DEF GameShapes
<1>6. c = <<c[1], "ticks">> /\ c[1] \in Runners
  BY <1>1, OneRunner DEF Callers
<1>7. Floor(e, t.lastKey) <= Rank(seen)
  <2>1. NotBefore(work[<<c[1], "ticks">>].snap, Floor(e, tasks[n].lastKey))
    BY <1>6 DEF Turned, GameShapes
  <2>2. work[<<c[1], "ticks">>].snap = seen /\ seen # NoSnap
    BY <1>5, <1>6, Ranks
  <2>3. QED
    BY <1>3, <2>1, <2>2 DEF NotBefore
<1>8. e.occasion \in Int
  BY LogEntries
<1>9. Fires(t, seen, work[c].now) \/ Remembers(t, seen, work[c].now)
  <2>1. ~StartsClock(t)
    BY <1>4 DEF StartsClock, GameShapes
  <2>2. QED
    BY <1>1, <2>1 DEF WantsIt, ToRemember
<1>10. WantsIt(c) = Fires(t, seen, work[c].now) /\ NewKey(c) = KeyOf(t, seen, work[c].now)
  BY DEF WantsIt, NewKey
<1> HIDE DEF t, seen, e
<1>11. /\ Floor(e, KeyOf(t, seen, work[c].now)) <= Rank(seen)
       /\ Fires(t, seen, work[c].now) => e.occasion < seen.occasion
  BY <1>4, <1>5, <1>7, <1>8, <1>9, WrittenOnSight
<1>12. QED
  BY <1>5, <1>10, <1>11 DEF t, seen, e

LEMMA TurnedStep ==
  ASSUME AutomationAssumption, Typed, Carried, Logged, InTurn, Fresh, Turned, Next
  PROVE  Turned'
<1> SUFFICES ASSUME Alone', NEW n \in Names, NEW i \in DOMAIN log'[n],
                    log'[n][i].shape \in GameShapes, tasks'[n].shape = log'[n][i].shape
             PROVE  ReachedNext(Floor(log'[n][i], tasks'[n].lastKey))
  BY DEF Turned, ReachedNext, GameShapes, NotBefore, Rank, Floor
<1>1. Alone
  BY SameSetup DEF Alone
<1>2. \A least \in Int : Reached(least) => ReachedNext(least)
  BY StaysReached
<1>3. CASE StaysRow(n)
  <2>1. /\ log'[n] = log[n] /\ tasks[n] # NoTask
        /\ tasks'[n].shape = tasks[n].shape /\ tasks'[n].lastKey = tasks[n].lastKey
    BY <1>3 DEF StaysRow, Logged
  <2>2. Reached(Floor(log[n][i], tasks[n].lastKey))
    BY <1>1, <2>1 DEF Turned, Reached, GameShapes
  <2>3. Floor(log[n][i], tasks[n].lastKey) \in Int
    <3>1. log[n][i].occasion \in Int
      BY <2>1, LogEntries
    <3>2. \A e, key : e.occasion \in Int => Floor(e, key) \in Int
      BY DEF Floor
    <3>3. QED
      BY <3>1, <3>2
  <2>4. QED
    BY <1>2, <2>1, <2>2, <2>3
<1>4. CASE ClearsRow(n)
  BY <1>4, EmptySeq DEF ClearsRow
<1>5. ASSUME NEW c \in Callers, KeysRow(c, n) \/ ClaimsRow(c, n)
      PROVE  ReachedNext(Floor(log'[n][i], tasks'[n].lastKey))
  <2>1. /\ Judging(c) /\ work[c].todo # <<>>
        /\ tasks'[n].shape = tasks[n].shape /\ tasks'[n].lastKey = NewKey(c)
    BY <1>5 DEF KeysRow, ClaimsRow, Judging
  <2>2. log'[n] = log[n] \/ (WantsIt(c) /\ Extends(log'[n], log[n], EntryOf(c)))
    BY <1>5, ClaimExtends DEF KeysRow
  <2>3. /\ work[c].snap \in Snaps /\ Floor(log'[n][i], NewKey(c)) \in Int
        /\ Floor(log'[n][i], NewKey(c)) <= Rank(work[c].snap)
    <3>1. CASE i \in DOMAIN log[n]
      <4>1. log'[n][i] = log[n][i]
        BY <2>2, <3>1 DEF Extends
      <4>2. QED
        BY <1>1, <1>5, <2>1, <3>1, <4>1, FloorGoes, Floors
    <3>2. CASE i \notin DOMAIN log[n]
      <4>1. log'[n][i] = EntryOf(c) /\ WantsIt(c)
        BY <2>2, <3>2 DEF Extends
      <4>2. Current(c).shape \in GameShapes
        BY <4>1 DEF EntryOf
      <4>3. work[c].snap \in Snaps
        BY <2>1, <4>1, <4>2, DecidesBySight DEF GameShapes
      <4>4. QED
        BY <2>1, <4>1, <4>2, <4>3, OwnFloor, Floors
    <3>3. QED
      BY <3>1, <3>2
  <2>4. Reached(Floor(log'[n][i], NewKey(c)))
    BY <1>1, <2>1, <2>3, Ranks, ActedOnIsReached
  <2>5. QED
    BY <1>2, <2>1, <2>3, <2>4
<1>6. QED
  BY <1>3, <1>4, <1>5, RowsGo DEF RowGoes

\* A claim is never made for an occasion the task has run on.
LEMMA ClaimIsNew ==
  ASSUME AutomationAssumption, OneKind, Typed, Readings, Logged, InTurn, Fresh, Dated, Turned,
         NEW n \in Names, NEW c \in Callers, ClaimsRow(c, n), WantsIt(c),
         NEW i \in DOMAIN log[n], log[n][i].shape = Current(c).shape,
         Current(c).shape # "every", Current(c).shape # "daily" => Alone
  PROVE  log[n][i].occasion # EntryOf(c).occasion
<1>1. Judging(c) /\ n = Current(c).name /\ work[c].todo # <<>>
  BY DEF ClaimsRow, Judging
<1>2. Alone => tasks[n].shape = Current(c).shape
  <2>1. log[n] # <<>>
    BY EmptySeq
  <2>2. QED
    BY <1>1, <2>1, ReadingIsStored
<1>3. log[n][i].occasion \in Int
  BY LogEntries
<1>4. CASE Current(c).shape = "daily"
  <2>1. log[n][i].occasion < Day(work[c].now)
    BY <1>2, <1>4, DatedClaim
  <2>2. EntryOf(c).occasion = Day(work[c].now) /\ Day(work[c].now) \in Nat
    BY <1>1, <1>4, ReadBefore, Days DEF EntryOf
  <2>3. QED
    BY <1>3, <2>1, <2>2
<1>5. CASE Current(c).shape # "daily"
  <2>1. Current(c).shape \in GameShapes
    BY <1>5 DEF WantsIt, Fires, GameShapes
  <2>2. work[c].snap \in Snaps /\ log[n][i].occasion < work[c].snap.occasion
    BY <1>2, <1>5, <2>1, FloorGoes
  <2>3. EntryOf(c).occasion = work[c].snap.occasion /\ work[c].snap.occasion \in Nat
    BY <2>1, <2>2, Ranks DEF EntryOf, GameShapes
  <2>4. QED
    BY <1>3, <2>2, <2>3
<1>6. QED
  BY <1>4, <1>5

\* Of two runs of one trigger the second is on another occasion.
Other(first, second, alone) ==
  CASE first.shape = "every" -> second.at - first.at >= Every
    [] first.shape = "daily" -> second.occasion # first.occasion
    [] OTHER -> alone => second.occasion # first.occasion

LEMMA OnceEachStep ==
  ASSUME AutomationAssumption, OneKind, Typed, Carried, Readings, Logged, Spaced,
         InTurn, Fresh, Dated, Turned, OncePerOccasion, Next
  PROVE  OncePerOccasion'
<1> SUFFICES ASSUME NEW n \in Names, NEW i \in DOMAIN log'[n], NEW j \in DOMAIN log'[n],
                    i < j, log'[n][i].shape = log'[n][j].shape
             PROVE  Other(log'[n][i], log'[n][j], Alone')
  BY DEF OncePerOccasion, Other, Alone
<1>1. Alone' = Alone
  BY SameSetup DEF Alone
<1>2. \A a, b \in DOMAIN log[n] :
        a < b /\ log[n][a].shape = log[n][b].shape => Other(log[n][a], log[n][b], Alone)
  BY DEF OncePerOccasion, Other, Alone
<1>3. ASSUME i \in DOMAIN log[n], j \in DOMAIN log[n],
             log'[n][i] = log[n][i], log'[n][j] = log[n][j]
      PROVE  Other(log'[n][i], log'[n][j], Alone')
  BY <1>1, <1>2, <1>3
<1>4. CASE StaysRow(n)
  BY <1>3, <1>4 DEF StaysRow
<1>5. CASE ClearsRow(n)
  BY <1>5, EmptySeq DEF ClearsRow
<1>6. ASSUME NEW c \in Callers, KeysRow(c, n)
      PROVE  Other(log'[n][i], log'[n][j], Alone')
  BY <1>3, <1>6 DEF KeysRow
<1>7. ASSUME NEW c \in Callers, ClaimsRow(c, n)
      PROVE  Other(log'[n][i], log'[n][j], Alone')
  <2>1. log'[n] = log[n] \/ (WantsIt(c) /\ Extends(log'[n], log[n], EntryOf(c)))
    BY <1>7, ClaimExtends
  <2>2. CASE j \in DOMAIN log[n]
    <3>1. i \in DOMAIN log[n] /\ log'[n][i] = log[n][i] /\ log'[n][j] = log[n][j]
      BY <2>1, <2>2 DEF Extends
    <3>2. QED
      BY <1>3, <2>2, <3>1
  <2>3. CASE j \notin DOMAIN log[n]
    <3>1. /\ WantsIt(c) /\ i \in DOMAIN log[n]
          /\ log'[n][i] = log[n][i] /\ log'[n][j] = EntryOf(c)
      BY <2>1, <2>3 DEF Extends
    <3>2. log[n][i].shape = Current(c).shape
      BY <3>1 DEF EntryOf
    <3>3. log'[n][i].shape = "every" => log'[n][j].at - log'[n][i].at >= Every
      BY SpacedStep DEF Spaced
    <3>4. Current(c).shape # "every" /\ (Current(c).shape # "daily" => Alone) =>
            log'[n][i].occasion # log'[n][j].occasion
      BY <1>7, <3>1, <3>2, ClaimIsNew
    <3>5. QED
      BY <1>1, <3>1, <3>2, <3>3, <3>4 DEF Other
  <2>4. QED
    BY <2>2, <2>3
<1>8. QED
  BY <1>4, <1>5, <1>6, <1>7, RowsGo DEF RowGoes

LEMMA OnceEachAlways ==
  ASSUME AutomationAssumption
  PROVE  Spec => []OnceEach
<1>1. ASSUME Init
      PROVE  OnceEach
  <2>1. \A d \in Callers : work[d] = Idle
    BY <1>1 DEF Init, Callers
  <2>2. \A p \in Runners : work[<<p, "ticks">>] = Idle /\ snap[p] = NoSnap
    BY <1>1, <2>1 DEF Init, Callers, Loops
  <2>3. \A n \in Names : DOMAIN log[n] = {}
    BY <1>1, EmptySeq DEF Init
  <2>4. DOMAIN Idle.todo = {} /\ Idle.snap = NoSnap
    BY EmptySeq DEF Idle
  <2>5. InTurn
    BY <2>2, <2>4 DEF InTurn
  <2>6. Fresh
    BY <2>2, <2>4 DEF Fresh
  <2>7. Dated /\ Turned /\ OncePerOccasion
    BY <2>3 DEF Dated, Turned, OncePerOccasion
  <2>8. QED
    BY <2>5, <2>6, <2>7 DEF OnceEach, Judged
<1>2. ASSUME Acted, Noticed, OnceEach, [Next]_vars
      PROVE  OnceEach'
  <2>1. CASE Next
    <3>1. OneKind' = OneKind
      BY <1>2, <2>1, SameSetup DEF OneKind, Alone, Acted
    <3>2. ASSUME OneKind
          PROVE  Judged' /\ OncePerOccasion'
      <4>1. /\ Typed /\ Carried /\ Readings /\ Logged /\ Spaced
            /\ InTurn /\ Fresh /\ Dated /\ Turned /\ OncePerOccasion
        BY <1>2, <3>2 DEF Acted, Noticed, OnceEach, Judged
      <4>2. InTurn' /\ Fresh'
        BY <2>1, <4>1, InTurnStep, FreshStep
      <4>3. Dated'
        BY <2>1, <3>2, <4>1, DatedStep
      <4>4. Turned'
        BY <2>1, <4>1, TurnedStep
      <4>5. OncePerOccasion'
        BY <2>1, <3>2, <4>1, OnceEachStep
      <4>6. QED
        BY <4>2, <4>3, <4>4, <4>5 DEF Judged
    <3>3. QED
      BY <3>1, <3>2 DEF OnceEach
  <2>2. CASE UNCHANGED vars
    <3>1. Alone' = Alone /\ OneKind' = OneKind
      BY <2>2 DEF vars, OneKind, Alone
    <3>2. InTurn' = InTurn
      BY <2>2 DEF vars, InTurn, Rank
    <3>3. Fresh' = Fresh
      BY <2>2, <3>1 DEF vars, Fresh, StillStored
    <3>4. Dated' = Dated
      BY <2>2, <3>1 DEF vars, Dated, Day
    <3>5. Turned' = Turned
      BY <2>2, <3>1 DEF vars, Turned, NotBefore, Rank, Floor
    <3>6. OncePerOccasion' = OncePerOccasion
      BY <2>2 DEF vars, OncePerOccasion
    <3>7. QED
      BY <1>2, <3>1, <3>2, <3>3, <3>4, <3>5, <3>6 DEF OnceEach, Judged
  <2>3. QED
    BY <1>2, <2>1, <2>2
<1>3. QED
  BY <1>1, <1>2, NoticedAlways, PTL DEF Spec

\* "Two ticks overlapping, or two panels on one database, must not both run the
\* same restart", and "editing a daily task at noon must not make it run again
\* at noon": whatever the runners have read and however late they act on it,
\* however often they stop, lose a claim or see a statement fail, a task that
\* keeps its trigger runs once on each occasion.  OneKind is needed: a note
\* (SetTaskKey) compares the key alone, and one made for a task that looked at
\* the game may be written over the date of the daily task it has become.
THEOREM OnceOnEachOccasion ==
  ASSUME AutomationAssumption
  PROVE  Spec => [](OneKind => OncePerOccasion)
BY OnceEachAlways, PTL DEF OnceEach
=============================================================================
