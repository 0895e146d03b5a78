----------------------------- MODULE LogStreamer -----------------------------
(***************************************************************************)
(* The log stream of one game server (internal/sdtd/sse.go): a live        *)
(* connection without replay, paired with a query that fetches what was    *)
(* logged while there was none, so that lines come out in order, without   *)
(* gaps or duplicates.                                                     *)
(*                                                                         *)
(* Two goroutines share the cursor: the scanner hands on what arrives on   *)
(* the connection, and runOnce fetches the gap first, while the scanner's  *)
(* lines are held back.  A line is <<process, id>>: ids start again from 0 *)
(* with every process of the game server, and the streamer sees ids only.  *)
(* A query is answered at one moment and used at a later one.  The backoff *)
(* between connections only delays and is left out.                        *)
(*                                                                         *)
(* A definition marked "Variant" is no part of the specification: it is    *)
(* the definition after it with one plausible mistake.                     *)
(***************************************************************************)
EXTENDS Integers, Sequences, SequencesExt

CONSTANTS
  seedLines,      \* how many lines a cold start asks for
  backfillLines,  \* how many a gap query returns at most
  MaxBoots,       \* bound on the processes of the game server
  MaxLines        \* per process, bound on the lines it logs

ASSUME StreamAssumption ==
  /\ seedLines \in Nat \ {0}
  /\ backfillLines \in Nat \ {0}
  /\ MaxBoots \in Nat \ {0}
  /\ MaxLines \in [1..MaxBoots -> Nat]

VARIABLES
  up,         \* a game server process is running
  boot,       \* which one: how many there have been
  size,       \* how many lines it has logged: ids 0..size-1
  connected,  \* the stream's connection is up
  wire,       \* lines sent on it that the scanner has not read
  pc,         \* where runOnce is
  lastSeen,   \* the cursor, -1 at first
  buffered,   \* lines held back until the backfill is over
  page,       \* the answer to the query, while runOnce holds it
  \* History, read by no action:
  cursorOf,   \* the process whose line the cursor is, 0 for none
  emitted,    \* what the hub was given, in order
  repeats,    \* <<cursorOf, line>> of the lines taken for repeats
  excuse,     \* why the next line may not be the one after the cursor
  gaps        \* the excuses of the holes inside one process's lines

server == <<up, boot, size>>
stream == <<connected, wire>>
cursor == <<lastSeen, cursorOf, emitted, repeats, excuse, gaps>>
vars == <<server, stream, cursor, pc, buffered, page>>

Boots == 1..MaxBoots
Lines == {line \in Boots \X Nat : line[2] < MaxLines[line[1]]}
Locations == {"dialling", "asking", "answered", "reseeding", "reseeded", "live"}
NoPage == [entries |-> <<>>, lastLine |-> 0]

\* A failed query leaves a reported gap, a full page one nobody mentions.
Excuses == {"failedBackfill", "fullPage", "none"}

Init ==
  /\ up = TRUE
  /\ boot = 1
  /\ size \in 0..MaxLines[boot]
  /\ connected = FALSE
  /\ wire = <<>>
  /\ pc = "dialling"
  /\ lastSeen = -1
  /\ buffered = <<>>
  /\ page = NoPage
  /\ cursorOf = 0
  /\ emitted = <<>>
  /\ repeats = {}
  /\ excuse = "none"
  /\ gaps = {}
-----------------------------------------------------------------------------
(***************************************************************************)
(* The game server.                                                        *)
(***************************************************************************)

\* The lines of the present process from one id to another.
Log(first, last) == [i \in 1..(last - first + 1) |-> <<boot, first + i - 1>>]

\* /api/log with a negative count: the newest lines.
Newest(n) ==
  [entries |-> Log(IF size > n THEN size - n ELSE 0, size - 1),
   lastLine |-> size]

\* /api/log from a line on.  lastLine is the next line to ask for.
From(first, n) ==
  LET last == IF first + n < size THEN first + n - 1 ELSE size - 1
  IN  IF first < size
        THEN [entries |-> Log(first, last), lastLine |-> last + 1]
        ELSE [entries |-> <<>>, lastLine |-> size]

Logs ==
  /\ up
  /\ size < MaxLines[boot]
  /\ size' = size + 1
  /\ wire' = IF connected THEN Append(wire, <<boot, size>>) ELSE wire
  /\ UNCHANGED <<up, boot, connected, cursor, pc, buffered, page>>

\* The connection ends; what was in flight may still arrive, or not.
ConnectionEnds ==
  /\ connected
  /\ connected' = FALSE
  /\ wire' \in {wire, <<>>}
  /\ UNCHANGED <<server, cursor, pc, buffered, page>>

GoesDown ==
  /\ up
  /\ boot < MaxBoots
  /\ up' = FALSE
  /\ connected' = FALSE
  /\ wire' \in {wire, <<>>}
  /\ UNCHANGED <<boot, size, cursor, pc, buffered, page>>

\* A process takes longer to come up than a backfill, whose two queries time
\* out, so none begins under one process and ends under the next.
Restarts ==
  /\ ~up
  /\ pc \in {"dialling", "live"}
  /\ up' = TRUE
  /\ boot' = boot + 1
  /\ size' = 0
  /\ UNCHANGED <<stream, cursor, pc, buffered, page>>
-----------------------------------------------------------------------------
(***************************************************************************)
(* The cursor: a line is emitted if its id is beyond it, and moves it.     *)
(***************************************************************************)

\* Variant: a line is a repeat only if it is older than the cursor.
TakeTwice(c, line) ==
  IF line[2] < c.lastSeen
    THEN [c EXCEPT !.repeats = @ \cup {<<c.cursorOf, line>>}]
    ELSE [c EXCEPT !.lastSeen = line[2],
                   !.cursorOf = line[1],
                   !.emitted = Append(@, line)]

\* The cursor after taking one line.  A hole is booked under the excuse.
Take(c, line) ==
  IF line[2] <= c.lastSeen
    THEN [c EXCEPT !.repeats = @ \cup {<<c.cursorOf, line>>}]
    ELSE [c EXCEPT !.lastSeen = line[2],
                   !.cursorOf = line[1],
                   !.emitted = Append(@, line),
                   !.gaps = IF c.cursorOf = line[1] /\ line[2] > c.lastSeen + 1
                              THEN @ \cup {c.excuse} ELSE @,
                   !.excuse = "none"]

\* The cursor after taking lines, one after the other.
TakeAll(c, lines) ==
  LET after[n \in 0..Len(lines)] ==
        IF n = 0 THEN c ELSE Take(after[n - 1], lines[n])
  IN  after[Len(lines)]

Cursor == [lastSeen |-> lastSeen, cursorOf |-> cursorOf, emitted |-> emitted,
           repeats |-> repeats, gaps |-> gaps, excuse |-> excuse]

Becomes(c) ==
  /\ lastSeen' = c.lastSeen
  /\ cursorOf' = c.cursorOf
  /\ emitted' = c.emitted
  /\ repeats' = c.repeats
  /\ gaps' = c.gaps
  /\ excuse' = c.excuse
-----------------------------------------------------------------------------
(***************************************************************************)
(* The scanner.                                                            *)
(***************************************************************************)

\* Variant: lines are handed on while the gap is still being fetched.
DeliverAtOnce ==
  /\ wire # <<>>
  /\ wire' = Tail(wire)
  /\ Becomes(Take(Cursor, Head(wire)))
  /\ UNCHANGED <<server, connected, pc, buffered, page>>

\* deliver: held back until the backfill is over, then emitted if new.
Deliver ==
  /\ wire # <<>>
  /\ wire' = Tail(wire)
  /\ IF pc = "live"
       THEN /\ Becomes(Take(Cursor, Head(wire)))
            /\ UNCHANGED buffered
       ELSE /\ buffered' = Append(buffered, Head(wire))
            /\ UNCHANGED cursor
  /\ UNCHANGED <<server, connected, pc, page>>
-----------------------------------------------------------------------------
(***************************************************************************)
(* runOnce and backfill.                                                   *)
(***************************************************************************)

\* open succeeds; one that fails is tried again after the backoff.
Open ==
  /\ up
  /\ pc = "dialling"
  /\ connected' = TRUE
  /\ wire' = <<>>
  /\ buffered' = <<>>
  /\ pc' = "asking"
  /\ UNCHANGED <<server, cursor, page>>

\* fetch: history on a cold start, else the gap after the cursor.
FetchAnswered ==
  /\ up
  /\ pc = "asking"
  /\ page' = IF lastSeen < 0 THEN Newest(seedLines)
                             ELSE From(lastSeen + 1, backfillLines)
  /\ pc' = "answered"
  /\ UNCHANGED <<server, stream, cursor, buffered>>

LogRestarted == lastSeen >= 0 /\ page.lastLine < lastSeen

\* A log shorter than what was seen: forget the cursor and seed again.
Reseed ==
  /\ pc = "answered"
  /\ LogRestarted
  /\ lastSeen' = -1
  /\ cursorOf' = 0
  /\ page' = NoPage
  /\ pc' = "reseeding"
  /\ UNCHANGED <<server, stream, emitted, repeats, excuse, gaps, buffered>>

ReseedAnswered ==
  /\ up
  /\ pc = "reseeding"
  /\ page' = Newest(seedLines)
  /\ pc' = "reseeded"
  /\ UNCHANGED <<server, stream, cursor, buffered>>

\* The gap is as long as a query may be: there may be more of it.
PageExcuse ==
  IF pc = "answered" /\ lastSeen >= 0 /\ Len(page.entries) = backfillLines
    THEN "fullPage" ELSE "none"

\* Variant: what was held back is let go before the page is emitted.
SettleHeldFirst ==
  /\ \/ pc = "answered" /\ ~LogRestarted
     \/ pc = "reseeded"
  /\ LET held == TakeAll([Cursor EXCEPT !.excuse = PageExcuse], buffered)
     IN  Becomes(TakeAll(held, page.entries))
  /\ buffered' = <<>>
  /\ page' = NoPage
  /\ pc' = "live"
  /\ UNCHANGED <<server, stream>>

\* The page is emitted, then what was held back, under one lock.
Settle ==
  /\ \/ pc = "answered" /\ ~LogRestarted
     \/ pc = "reseeded"
  /\ LET paged == TakeAll(Cursor, page.entries)
     IN  Becomes(TakeAll([paged EXCEPT !.excuse = PageExcuse], buffered))
  /\ buffered' = <<>>
  /\ page' = NoPage
  /\ pc' = "live"
  /\ UNCHANGED <<server, stream>>

\* Variant: what was held back is not cleared.
BackfillFailsKeepingHeld ==
  /\ pc \in {"asking", "reseeding"}
  /\ Becomes(TakeAll([Cursor EXCEPT !.excuse = "failedBackfill"], buffered))
  /\ pc' = "live"
  /\ UNCHANGED <<server, stream, page, buffered>>

\* A query fails: what was held back is let go, the gap is reported.
BackfillFails ==
  /\ pc \in {"asking", "reseeding"}
  /\ Becomes(TakeAll([Cursor EXCEPT !.excuse = "failedBackfill"], buffered))
  /\ buffered' = <<>>
  /\ pc' = "live"
  /\ UNCHANGED <<server, stream, page>>

\* Variant: Run takes the end of one connection for its own.
DisconnectedForGood ==
  /\ pc = "live"
  /\ ~connected
  /\ wire = <<>>
  /\ pc' = "returned"
  /\ UNCHANGED <<server, stream, cursor, buffered, page>>

\* The scanner has read all there was: runOnce returns, Run dials again.
Disconnected ==
  /\ pc = "live"
  /\ ~connected
  /\ wire = <<>>
  /\ pc' = "dialling"
  /\ UNCHANGED <<server, stream, cursor, buffered, page>>

StreamerStep ==
  \/ Deliver
  \/ Open \/ FetchAnswered \/ Reseed \/ ReseedAnswered \/ Settle
  \/ BackfillFails \/ Disconnected

Next == StreamerStep \/ Logs \/ ConnectionEnds \/ GoesDown \/ Restarts

Spec == Init /\ [][Next]_vars
FairSpec == Spec /\ WF_vars(StreamerStep) /\ WF_vars(Restarts)
-----------------------------------------------------------------------------
\* The variables have their types, lines are held back and an answer is held
\* only while a backfill is under way.
TypeOK ==
  /\ up \in BOOLEAN
  /\ boot \in Boots
  /\ size \in 0..MaxLines[boot]
  /\ connected \in BOOLEAN
  /\ wire \in Seq(Lines)
  /\ pc \in Locations
  /\ lastSeen \in Nat \cup {-1}
  /\ buffered \in Seq(Lines)
  /\ buffered # <<>> => pc \notin {"dialling", "live"}
  /\ page # NoPage => pc \in {"answered", "reseeded"}
  /\ page.entries \in Seq(Lines) /\ page.lastLine \in Nat
  /\ cursorOf \in Boots \cup {0}
  /\ emitted \in Seq(Lines)
  /\ \A r \in repeats : r[1] \in Boots /\ r[2] \in Lines
  /\ excuse \in Excuses /\ gaps \subseteq Excuses

Before(l, m) == l[1] < m[1] \/ (l[1] = m[1] /\ l[2] < m[2])

\* No line is emitted twice, and lines come in the order they were logged.
OnceInOrder ==
  \A i, j \in DOMAIN emitted : i < j => Before(emitted[i], emitted[j])

\* A line taken for a repeat of the process the cursor belongs to is one, or
\* is older than all that was shown of that process: a cold start seeds with
\* the newest lines only.
RepeatsAreRepeats ==
  \A r \in repeats :
    r[1] = r[2][1] =>
      \/ r[2] \in ToSet(emitted)
      \/ \A line \in ToSet(emitted) : line[1] = r[1] => r[2][2] < line[2]

\* Inside one process's lines, a hole is left by a query that failed, which
\* is reported, or by a page that was full; there is no other way.
NoOtherGaps == "none" \notin gaps

\* However connections, queries and processes come and go, the stream is
\* always live again.
ComesBack == pc # "live" ~> pc = "live"

\* A log that restarted is heard: none of its lines is lost as a repeat of
\* one that an earlier process logged.
RestartedLogIsHeard ==
  \A r \in repeats : r[1] < r[2][1] => r[2] \in ToSet(emitted)
=============================================================================
