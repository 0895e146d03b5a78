------------------------------- MODULE TileCache -------------------------------
(***************************************************************************)
(* The cache of map tiles of one game server (internal/gamemap), which the *)
(* handler of a tile request reads (internal/api/gamemap.go): how long a   *)
(* tile is good, the single upstream fetch that concurrent requests for a  *)
(* square share, the eviction that keeps it within its bytes, and the one  *)
(* probe that tells an undrawn square from a drawn one.                    *)
(*                                                                         *)
(* A picture is its version, a number that grows as the world is redrawn,  *)
(* and stands for its bytes and its ETag.                                  *)
(*                                                                         *)
(* A definition marked "Variant" is no part of the specification: it is    *)
(* the definition after it with one plausible mistake.                     *)
(***************************************************************************)
EXTENDS Integers, FiniteSets, Sequences, SequencesExt, FiniteSetsExt

CONSTANTS
  Keys,      \* squares
  Getters,   \* goroutines that serve tile requests
  Sizes,     \* the bytes of a picture, by its version; Placeholder's too
  MaxBytes,  \* maxBytes
  Drawn,     \* the squares that are drawn at first
  BusyTTL, IdleTTL, MissTTL,  \* busyTTL, idleTTL, missTTL
  MaxClock,   \* bound on the clock
  MaxDrawn,  \* bound on the redrawings
  MaxAsked,  \* bound on the requests
  MaxLost    \* bound on the fetches that fail

VARIABLES
  clock,
  busy,      \* whether anybody is in the world
  drawn,     \* per square the version the game server has; 0, never drawn
  items,     \* per square its entry, NoItem
  order,     \* the squares of the entries, the last used first
  bytes,     \* what the entries weigh, as the cache counts it
  inflight,  \* per square the goroutine whose fetch is pending, Nobody
  blank,     \* blankOnce and blankETag: "unasked", "asking", "known", "never"
  get,       \* per goroutine what it is doing
  redrawn, asked, lost,
  told       \* history: per square the newest picture an answer has shown

vars == <<clock, busy, drawn, items, order, bytes, inflight, blank, get,
          redrawn, asked, lost, told>>

NoItem == [version |-> -1, fetchedAt |-> -1]
Nobody == "nobody"
Idle == [at |-> "idle", key |-> "none", on |-> Nobody, version |-> -1, floor |-> 0]

Missing == 0       \* Tile.Missing, with the ETag "unrendered"
Placeholder == 99  \* the picture of nothing a rendering server answers with

SizeOf(version) == IF version = Missing THEN 0 ELSE Sizes[version]

Init ==
  /\ clock = 0
  /\ busy = TRUE
  /\ drawn = [k \in Keys |-> IF k \in Drawn THEN 1 ELSE Missing]
  /\ items = [k \in Keys |-> NoItem]
  /\ order = <<>>
  /\ bytes = 0
  /\ inflight = [k \in Keys |-> Nobody]
  /\ blank = "unasked"
  /\ get = [g \in Getters |-> Idle]
  /\ redrawn = 0 /\ asked = 0 /\ lost = 0
  /\ told = [k \in Keys |-> 0]
-----------------------------------------------------------------------------
(* 1. The world                                                            *)

TimePasses ==
  /\ clock < MaxClock
  /\ clock' = clock + 1
  /\ UNCHANGED <<busy, drawn, items, order, bytes, inflight, blank, get,
                 redrawn, asked, lost, told>>

\* Somebody comes or goes; a square is drawn.
WorldChanges ==
  /\ redrawn < MaxDrawn
  /\ redrawn' = redrawn + 1
  /\ \/ busy' = ~busy /\ UNCHANGED drawn
     \/ \E k \in Keys : drawn' = [drawn EXCEPT ![k] = @ + 1] /\ UNCHANGED busy
  /\ UNCHANGED <<clock, items, order, bytes, inflight, blank, get, asked, lost, told>>
-----------------------------------------------------------------------------
(* 2. Get                                                                  *)

GoodFor(version) ==
  IF version = Missing THEN MissTTL ELSE IF busy THEN BusyTTL ELSE IdleTTL

Fresh(k) ==
  items[k] # NoItem /\ clock - items[k].fetchedAt < GoodFor(items[k].version)

\* The list of the cache, as lookup and store leave it: what is moved to the front,
\* or pushed there, pushes back what was before it.
ToFront(k) ==
  IF k \notin ToSet(order) THEN <<k>> \o order
  ELSE [i \in DOMAIN order |->
          IF i = 1 THEN k
          ELSE IF \E j \in i..Len(order) : order[j] = k THEN order[i - 1] ELSE order[i]]

Goes(g, at) == get' = [get EXCEPT ![g].at = at]

\* The placeholder shows as little as no picture.
Age(version) == IF version = Placeholder THEN Missing ELSE version
Shown(k, version) == [told EXCEPT ![k] = Max({@, Age(version)})]

\* lookup, under the mutex, by a new goroutine, no matter which: a fresh tile is
\* the answer.
Asks(k) ==
  /\ \E g \in Getters : get[g].at = "idle"
  /\ asked < MaxAsked
  /\ asked' = asked + 1
  /\ IF Fresh(k)
     THEN order' = ToFront(k) /\ told' = Shown(k, items[k].version) /\ UNCHANGED get
     ELSE get' = [get EXCEPT ![CHOOSE g \in Getters : get[g].at = "idle"] =
            [Idle EXCEPT !.at = "join", !.key = k, !.floor = told[k]]]
          /\ UNCHANGED <<order, told>>
  /\ UNCHANGED <<clock, busy, drawn, items, bytes, inflight, blank, redrawn, lost>>

\* Variant: the fetch of somebody else is not waited for.
VJoins(g) ==
  /\ get[g].at = "join"
  /\ inflight' = [inflight EXCEPT ![get[g].key] = g] /\ Goes(g, "fetch")
  /\ UNCHANGED <<clock, busy, drawn, items, order, bytes, blank, redrawn, asked,
                 lost, told>>

\* The mutex is taken again: a pending fetch is joined, or one is begun.
Joins(g) ==
  /\ get[g].at = "join"
  /\ IF inflight[get[g].key] # Nobody
     THEN get' = [get EXCEPT ![g].at = "wait", ![g].on = inflight[get[g].key]]
          /\ UNCHANGED inflight
     ELSE inflight' = [inflight EXCEPT ![get[g].key] = g] /\ Goes(g, "fetch")
  /\ UNCHANGED <<clock, busy, drawn, items, order, bytes, blank, redrawn, asked,
                 lost, told>>

\* MapTile: 404, a picture, or the placeholder that a rendering server answers
\* with for a square it never drew.
Fetches(g) ==
  /\ get[g].at = "fetch"
  /\ \E version \in IF drawn[get[g].key] = Missing THEN {Missing, Placeholder}
                    ELSE {drawn[get[g].key]} :
       get' = [get EXCEPT ![g].version = version,
                          ![g].at = IF version = Missing THEN "store" ELSE "blank"]
  /\ UNCHANGED <<clock, busy, drawn, items, order, bytes, inflight, blank,
                 redrawn, asked, lost, told>>

\* The game server does not answer, or the browser whose request this is has
\* gone: what is held is served however old it is, and otherwise an error.
FetchFails(g) ==
  /\ get[g].at = "fetch" /\ lost < MaxLost
  /\ lost' = lost + 1
  /\ get' = [get EXCEPT ![g].at = "unlist",
                        ![g].version = items[get[g].key].version]
  /\ UNCHANGED <<clock, busy, drawn, items, order, bytes, inflight, blank,
                 redrawn, asked, told>>

\* learnBlank: the first to come probes, whoever comes meanwhile waits.
Probes(g) ==
  /\ get[g].at = "blank" /\ blank = "unasked"
  /\ blank' = "asking" /\ Goes(g, "probe")
  /\ UNCHANGED <<clock, busy, drawn, items, order, bytes, inflight, redrawn,
                 asked, lost, told>>

\* There is one probe: an answer without a picture, or none, is not asked for
\* again.
Learns(g) ==
  /\ get[g].at = "probe"
  /\ blank' \in {"known", "never"}
  /\ Goes(g, "blank")
  /\ UNCHANGED <<clock, busy, drawn, items, order, bytes, inflight, redrawn,
                 asked, lost, told>>

\* The bytes of these squares.
Weight(version, squares) ==
  Cardinality(UNION {{k} \X (1..SizeOf(version[k])) : k \in squares})

\* Variant: the tile that was just stored stays however large it is.
VKept(version, used) ==
  SubSeq(used, 1, Max({n \in 1..Len(used) :
                         n = 1 \/ Weight(version, ToSet(SubSeq(used, 1, n))) <= MaxBytes}))

\* Which of these, last used first, stay when the oldest go until the rest fits.
Kept(version, used) ==
  SubSeq(used, 1, Max({n \in 0..Len(used) :
                         Weight(version, ToSet(SubSeq(used, 1, n))) <= MaxBytes}))

\* isBlank, once it is known what a square without data looks like, and store,
\* under the mutex: the same picture is only newer; another takes its place, and
\* the oldest go.
Stores(g) ==
  LET k == get[g].key
      now == IF get[g].version = Placeholder /\ blank = "known" THEN Missing
             ELSE get[g].version
      same == items[k].version = now
      version == [j \in Keys |-> IF j = k THEN now ELSE items[j].version]
      kept == Kept(version, ToFront(k))
  IN /\ \/ get[g].at = "store"
        \/ get[g].at = "blank" /\ blank \in {"known", "never"}
     /\ order' = IF same THEN ToFront(k) ELSE kept
     /\ items' = [j \in Keys |->
          IF j \notin ToSet(order') THEN NoItem
          ELSE IF j = k THEN [version |-> now, fetchedAt |-> clock] ELSE items[j]]
     /\ bytes' = IF same THEN bytes ELSE Weight(version, ToSet(kept))
     /\ get' = [get EXCEPT ![g].at = "unlist", ![g].version = now]
     /\ UNCHANGED <<clock, busy, drawn, inflight, blank, redrawn, asked, lost, told>>

\* The fetch is no longer to be joined ...
Unlists(g) ==
  /\ get[g].at = "unlist"
  /\ inflight' = [inflight EXCEPT ![get[g].key] = Nobody]
  /\ Goes(g, "tell")
  /\ UNCHANGED <<clock, busy, drawn, items, order, bytes, blank, redrawn, asked,
                 lost, told>>

Waiting(g) == {h \in Getters : get[h].at = "wait" /\ get[h].on = g}

\* Variant: whoever waits for a fetch that failed is not woken.
VTells(g) ==
  LET h == get[g]
      done == {g} \cup IF h.version = -1 THEN {} ELSE Waiting(g)
  IN /\ h.at = "tell"
     /\ get' = [i \in Getters |-> IF i \in done THEN Idle ELSE get[i]]
     /\ told' = Shown(h.key, h.version)
     /\ UNCHANGED <<clock, busy, drawn, items, order, bytes, inflight, blank,
                    redrawn, asked, lost>>

\* ... and its outcome, an error too, is everybody's who joined it.
Tells(g) ==
  /\ get[g].at = "tell"
  /\ get' = [h \in Getters |-> IF h \in {g} \cup Waiting(g) THEN Idle ELSE get[h]]
  /\ told' = Shown(get[g].key, get[g].version)
  /\ UNCHANGED <<clock, busy, drawn, items, order, bytes, inflight, blank,
                 redrawn, asked, lost>>

GetterStep(g) ==
  \/ Joins(g) \/ Fetches(g) \/ Probes(g) \/ Learns(g) \/ Stores(g)
  \/ Unlists(g) \/ Tells(g)

Next ==
  \/ TimePasses \/ WorldChanges
  \/ \E k \in Keys : Asks(k)
  \/ \E g \in Getters : GetterStep(g) \/ FetchFails(g)
-----------------------------------------------------------------------------
(* 3. Properties                                                           *)

Stages == {"idle", "join", "wait", "fetch", "blank", "probe", "store", "unlist",
           "tell"}

\* The list, the map and the count of bytes agree, the bytes are within the
\* cap, and there is one fetch of a square, and one probe, at a time.
TypeOK ==
  /\ ToSet(order) = {k \in Keys : items[k] # NoItem} /\ IsInjective(order)
  /\ bytes = Weight([k \in Keys |-> items[k].version], ToSet(order))
  /\ bytes \in 0..MaxBytes
  /\ \A g \in Getters :
       /\ get[g].at \in Stages
       /\ get[g].at \in {"fetch", "blank", "probe", "store", "unlist"}
          => inflight[get[g].key] = g
       /\ get[g].at = "probe" => blank = "asking"

\* "Concurrent requests for the same square share a single upstream fetch"
\* (fetch.go), and so a picture that was shown is not replaced by an older one:
\* no request, whether it waits for the fetch of another or is served from the
\* cache, is answered with less than had been shown before it was made.
NeverGoesBack ==
  /\ \A k \in Keys : items[k] # NoItem => Age(items[k].version) >= told[k]
  /\ \A g \in Getters :
       get[g].at = "tell" /\ get[g].version # -1
       => \A h \in {g} \cup Waiting(g) : Age(get[g].version) >= get[h].floor

\* Whoever waits, waits for somebody who is at it: for a fetch that is still to
\* tell its outcome, or for the one probe.  And a square that is taken is
\* somebody's, or no request for it would ever be answered again.
NobodyIsStranded ==
  /\ \A g \in Getters : get[g].at = "wait" =>
       /\ get[get[g].on].at \notin {"idle", "join", "wait"}
       /\ get[get[g].on].key = get[g].key
  /\ \A k \in Keys : inflight[k] # Nobody =>
       /\ get[inflight[k]].at \notin {"idle", "join", "wait", "tell"}
       /\ get[inflight[k]].key = k
  /\ blank = "asking" => \E g \in Getters : get[g].at = "probe"
=============================================================================
