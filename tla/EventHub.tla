------------------------------- MODULE EventHub -------------------------------
(***************************************************************************)
(* The event feed (internal/events, internal/api/events.go and             *)
(* web/src/hooks/use-events.ts): a hub numbers events, keeps the newest in *)
(* a ring and pushes each to a bounded buffer per subscriber; one handler  *)
(* per browser tab replays a backlog and then drains its buffer; the tab   *)
(* reconnects on its own and recognises what it has seen by its number.    *)
(* The chat bot and the task runner subscribe too, with no backlog.        *)
(*                                                                         *)
(* Publish and Subscribe run under the hub's mutex, so each is one step.   *)
(* An event is its number and the hub that gave it.  A hub lives as long   *)
(* as its server's runtime: editing the server or restarting the panel     *)
(* makes another.                                                          *)
(*                                                                         *)
(* A definition marked "Variant" is no part of the specification: it is    *)
(* the definition after it with one plausible mistake.                     *)
(***************************************************************************)
EXTENDS Integers, Sequences, SequencesExt

CONSTANTS
  Tabs,              \* browser tabs
  Listeners,         \* subscribers inside the panel: bot, task runner
  ringSize,          \* the hub's scrollback
  subscriberBuffer,  \* how far behind a subscriber may fall
  eventsBacklog,     \* the backlog a tab asks for
  maxEvents,         \* MAX_EVENTS, what a tab keeps
  MaxHubs,           \* bound on the hubs ever made
  MaxEvents          \* bound on the events one hub numbers

Clients == Tabs \cup Listeners

ASSUME HubAssumption ==
  /\ Tabs \cap Listeners = {}
  /\ ringSize \in Nat \ {0}
  /\ subscriberBuffer \in Nat \ {0}
  /\ eventsBacklog \in Nat
  /\ maxEvents \in Nat \ {0}
  /\ eventsBacklog <= maxEvents    \* 300 and 2000
  /\ MaxHubs \in Nat \ {0}
  /\ MaxEvents \in Nat

VARIABLES
  hub,        \* the hub the server has now
  nextID,     \* per hub: Hub.nextID
  ring,       \* the present hub's ring, oldest first
  on,         \* per client: the hub it is subscribed to, NoHub if none
  open,       \* the clients whose channel is registered with its hub
  pending,    \* per client: the part of its backlog not yet sent
  buffer,     \* per client: what waits in its channel
  shown,      \* per tab: the events on screen, as <<hub, number>>
  seen,       \* per tab: the numbers it would recognise
  \* History, read by no action:
  from,       \* per client: the first event of its subscription
  got,        \* per client: the events handed to it, in order
  everShown,  \* per tab: all that was ever on its screen
  skipped     \* per tab: the events it took for repeats

hubVars == <<hub, nextID, ring>>
subVars == <<on, open, pending, buffer, from, got>>
tabVars == <<shown, seen, everShown, skipped>>
vars == <<hubVars, subVars, tabVars>>

Hubs == 1..MaxHubs
NoHub == 0

LastOf(s, n) == SubSeq(s, Len(s) - n + 1, Len(s))
Upto(n, bound) == IF n < bound THEN n ELSE bound

Init ==
  /\ hub = 1
  /\ nextID = [h \in Hubs |-> 0]
  /\ ring = <<>>
  /\ on = [c \in Clients |-> NoHub]
  /\ open = {}
  /\ pending = [c \in Clients |-> <<>>]
  /\ buffer = [c \in Clients |-> <<>>]
  /\ from = [c \in Clients |-> 1]
  /\ got = [c \in Clients |-> <<>>]
  /\ shown = [t \in Tabs |-> <<>>]
  /\ seen = [t \in Tabs |-> {}]
  /\ everShown = [t \in Tabs |-> {}]
  /\ skipped = [t \in Tabs |-> {}]
-----------------------------------------------------------------------------
(***************************************************************************)
(* The hub.                                                                *)
(***************************************************************************)

\* Variant: a full ring is overwritten at its end without being shifted.
RingWithUnshifted(e) ==
  IF Len(ring) = ringSize THEN [ring EXCEPT ![ringSize] = e]
                          ELSE Append(ring, e)

\* Variant: the ring is never full.
RingWithoutBound(e) == Append(ring, e)

\* A full ring is shifted by one to make room.
RingWith(e) == IF Len(ring) = ringSize THEN Append(Tail(ring), e)
                                       ELSE Append(ring, e)

\* Variant: a full buffer loses the event instead of the subscriber.
PublishLosing ==
  LET e == nextID[hub] + 1
      reached == {c \in open : on[c] = hub /\ Len(buffer[c]) < subscriberBuffer}
  IN  /\ e <= MaxEvents
      /\ nextID' = [nextID EXCEPT ![hub] = e]
      /\ ring' = RingWith(e)
      /\ buffer' = [c \in Clients |-> IF c \in reached THEN Append(buffer[c], e)
                                                       ELSE buffer[c]]
      /\ UNCHANGED <<hub, on, open, pending, from, got, tabVars>>

\* Publish: numbered, kept, and put in every buffer with room; a subscriber
\* without room has its channel closed and is forgotten.
Publish ==
  LET e == nextID[hub] + 1
      registered == {c \in open : on[c] = hub}
      full == {c \in registered : Len(buffer[c]) = subscriberBuffer}
  IN  /\ e <= MaxEvents
      /\ nextID' = [nextID EXCEPT ![hub] = e]
      /\ ring' = RingWith(e)
      /\ buffer' = [c \in Clients |-> IF c \in registered \ full
                                        THEN Append(buffer[c], e)
                                        ELSE buffer[c]]
      /\ open' = open \ full
      /\ UNCHANGED <<hub, on, pending, from, got, tabVars>>

\* Subscribe: the backlog is cut from the ring in the step that registers.
Subscribe(c, backlog) ==
  LET n == Upto(backlog, Len(ring)) IN
  /\ on[c] = NoHub
  /\ on' = [on EXCEPT ![c] = hub]
  /\ open' = open \cup {c}
  /\ pending' = [pending EXCEPT ![c] = LastOf(ring, n)]
  /\ buffer' = [buffer EXCEPT ![c] = <<>>]
  /\ from' = [from EXCEPT ![c] = nextID[hub] - n + 1]
  /\ UNCHANGED <<hubVars, got, tabVars>>

Connect(t) == Subscribe(t, eventsBacklog)
Listen(l) == Subscribe(l, 0)

\* cancel, deferred by the handler and called by the listeners' loop.
Unsubscribe(S) ==
  /\ on' = [c \in Clients |-> IF c \in S THEN NoHub ELSE on[c]]
  /\ open' = open \ S
  /\ pending' = [c \in Clients |-> IF c \in S THEN <<>> ELSE pending[c]]
  /\ buffer' = [c \in Clients |-> IF c \in S THEN <<>> ELSE buffer[c]]
  /\ from' = [c \in Clients |-> IF c \in S THEN 1 ELSE from[c]]
  /\ got' = [c \in Clients |-> IF c \in S THEN <<>> ELSE got[c]]
-----------------------------------------------------------------------------
(***************************************************************************)
(* The subscribers.                                                        *)
(***************************************************************************)

\* Variant: a replayed backlog is shown as it comes.
ShowUnchecked(t, e) ==
  LET h == on[t]
      all == Append(shown[t], <<h, e>>)
  IN  /\ shown' = [shown EXCEPT ![t] = LastOf(all, Upto(Len(all), maxEvents))]
      /\ everShown' = [everShown EXCEPT ![t] = @ \cup {<<h, e>>}]
      /\ UNCHANGED <<seen, skipped>>

\* useEvents: an event whose number is known is dropped; the rest is shown,
\* and the numbers of what scrolls off the screen are forgotten.
Show(t, e) ==
  LET h == on[t]
      all == Append(shown[t], <<h, e>>)
      kept == LastOf(all, Upto(Len(all), maxEvents))
  IN  IF e \in seen[t]
        THEN /\ skipped' = [skipped EXCEPT ![t] = @ \cup {<<h, e>>}]
             /\ UNCHANGED <<shown, seen, everShown>>
        ELSE /\ shown' = [shown EXCEPT ![t] = kept]
             /\ seen' = [seen EXCEPT ![t] =
                           IF Len(all) > maxEvents THEN {p[2] : p \in ToSet(kept)}
                                                   ELSE @ \cup {e}]
             /\ everShown' = [everShown EXCEPT ![t] = @ \cup {<<h, e>>}]
             /\ UNCHANGED skipped

Deliver(c, e) ==
  /\ got' = [got EXCEPT ![c] = Append(@, e)]
  /\ IF c \in Tabs THEN Show(c, e) ELSE UNCHANGED tabVars
  /\ UNCHANGED <<hubVars, on, open, from>>

\* The handler sends its backlog first.
Replay(c) ==
  /\ on[c] # NoHub
  /\ pending[c] # <<>>
  /\ Deliver(c, Head(pending[c]))
  /\ pending' = [pending EXCEPT ![c] = Tail(@)]
  /\ UNCHANGED buffer

\* Variant: the handler takes from its channel before its backlog is out.
DrainAtOnce(c) ==
  /\ on[c] # NoHub
  /\ buffer[c] # <<>>
  /\ Deliver(c, Head(buffer[c]))
  /\ buffer' = [buffer EXCEPT ![c] = Tail(@)]
  /\ UNCHANGED pending

Drain(c) ==
  /\ on[c] # NoHub
  /\ pending[c] = <<>>
  /\ buffer[c] # <<>>
  /\ Deliver(c, Head(buffer[c]))
  /\ buffer' = [buffer EXCEPT ![c] = Tail(@)]
  /\ UNCHANGED pending

\* Variant: the loop does not notice that its channel was closed.
DroppedUnnoticed(c) ==
  /\ on[c] # NoHub
  /\ c \notin open
  /\ pending[c] = <<>> /\ buffer[c] = <<>>
  /\ UNCHANGED vars

\* The channel is closed and empty: the handler or the listener's loop ends.
Dropped(c) ==
  /\ on[c] # NoHub
  /\ c \notin open
  /\ pending[c] = <<>> /\ buffer[c] = <<>>
  /\ Unsubscribe({c})
  /\ UNCHANGED <<hubVars, tabVars>>

\* A connection breaks, or its context ends, wherever the handler is.
Disconnect(t) ==
  /\ on[t] # NoHub
  /\ Unsubscribe({t})
  /\ UNCHANGED <<hubVars, tabVars>>

NewHub ==
  /\ hub < MaxHubs
  /\ hub' = hub + 1
  /\ ring' = <<>>
  /\ UNCHANGED <<nextID, tabVars>>

\* The server is edited: Add builds it anew and stops the old goroutines, the
\* listeners among them.  A tab's handler keeps the hub it subscribed to.
RuntimeReplaced == NewHub /\ Unsubscribe(Listeners)

\* The panel restarts: every connection breaks, the tabs stay open.
PanelRestarts == NewHub /\ Unsubscribe(Clients)

\* The page is reloaded or turned to another server and back.
Reopen(t) ==
  /\ Unsubscribe({t})
  /\ shown' = [shown EXCEPT ![t] = <<>>]
  /\ seen' = [seen EXCEPT ![t] = {}]
  /\ everShown' = [everShown EXCEPT ![t] = {}]
  /\ skipped' = [skipped EXCEPT ![t] = {}]
  /\ UNCHANGED hubVars

Next ==
  \/ Publish
  \/ \E t \in Tabs : Connect(t) \/ Disconnect(t) \/ Reopen(t)
  \/ \E l \in Listeners : Listen(l)
  \/ \E c \in Clients : Replay(c) \/ Drain(c) \/ Dropped(c)
  \/ RuntimeReplaced \/ PanelRestarts

Spec == Init /\ [][Next]_vars

\* A subscriber that is not stalled reads on, sees its channel closed, and
\* subscribes again; nothing has to be published and no connection to break.
Fairness ==
  /\ \A c \in Clients : WF_vars(Replay(c)) /\ WF_vars(Drain(c))
                          /\ WF_vars(Dropped(c))
  /\ \A t \in Tabs : WF_vars(Connect(t))
  /\ \A l \in Listeners : WF_vars(Listen(l))
FairSpec == Spec /\ Fairness
-----------------------------------------------------------------------------
Numbers == 1..MaxEvents

TypeOK ==
  /\ hub \in Hubs
  /\ nextID \in [Hubs -> 0..MaxEvents]
  /\ ring \in BoundedSeq(Numbers, ringSize)
  /\ on \in [Clients -> Hubs \cup {NoHub}]
  /\ open \subseteq Clients
  /\ \A c \in Clients : /\ pending[c] \in BoundedSeq(Numbers, eventsBacklog)
                        /\ buffer[c] \in BoundedSeq(Numbers, subscriberBuffer)
                        /\ from[c] \in 1..(MaxEvents + 1)
                        /\ got[c] \in BoundedSeq(Numbers, MaxEvents)
  /\ \A t \in Tabs : /\ shown[t] \in BoundedSeq(Hubs \X Numbers, maxEvents)
                     /\ seen[t] \subseteq Numbers
                     /\ everShown[t] \subseteq Hubs \X Numbers
                     /\ skipped[t] \subseteq Hubs \X Numbers

\* Nothing slips between the backlog and the channel: what a subscriber was
\* handed, has yet to replay and has waiting are consecutive events, and reach
\* up to the newest one of its hub as long as its channel is open; and the
\* scrollback the backlog is cut from is the newest events of this hub, as many
\* as there are or fit.
NothingSlips ==
  /\ \A c \in Clients :
       LET all == got[c] \o pending[c] \o buffer[c] IN
       on[c] # NoHub =>
         /\ \A i \in DOMAIN all : all[i] = from[c] + i - 1
         /\ c \in open => from[c] + Len(all) = nextID[on[c]] + 1
  /\ Len(ring) = Upto(nextID[hub], ringSize)
  /\ \A i \in DOMAIN ring : ring[i] = nextID[hub] - Len(ring) + i

\* A tab that has only known one hub shows no event twice, and all of them in
\* the order they happened, over any number of reconnects and replays.
ShownOnceInOrder ==
  \A t \in Tabs :
    (\E h \in Hubs : everShown[t] \cup skipped[t] \subseteq {h} \X Nat)
      => \A i, j \in DOMAIN shown[t] :
           i < j => shown[t][i][2] < shown[t][j][2]

\* Every subscription is a reader of one plain log, however its events went
\* through ring, buffer and handler.
Log == INSTANCE EventLog WITH Readers <- Clients, published <- nextID
ReadsTheLog == Log!Spec

\* A subscriber that keeps reading is never left behind: it gets the newest
\* event or is cut off, and one that was cut off subscribes again.
KeepsUp ==
  \A c \in Clients :
    /\ c \in open ~> \/ c \notin open
                     \/ from[c] + Len(got[c]) = nextID[on[c]] + 1
    /\ c \notin open ~> c \in open

\* "Seq is assigned by the panel and always increases, so a client can tell
\* whether it missed anything": what a tab takes for a repeat, it has shown.
OnlyRepeatsAreSkipped == \A t \in Tabs : skipped[t] \subseteq everShown[t]
=============================================================================
