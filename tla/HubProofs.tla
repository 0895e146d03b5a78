------------------------------ MODULE HubProofs ------------------------------
(***************************************************************************)
(* What a subscription is worth for any number of clients, hubs and events *)
(* and any limits: nothing slips between backlog and channel, every        *)
(* subscriber reads the plain log of EventLog, a tab shows nothing twice   *)
(* and all of it in order, and every buffer keeps to its limit.            *)
(*                                                                         *)
(* The argument: what a subscriber was handed, has yet to replay and has   *)
(* waiting are three stretches of consecutive numbers, each beginning      *)
(* where the one before ends (Seam).  The first begins where Subscribe cut *)
(* the ring, which holds the newest numbers of its hub (Scrollback).  What *)
(* a screen needs on top of that is told where it begins.                  *)
(***************************************************************************)
EXTENDS EventHub, SequenceTheorems, WellFoundedInduction, TLAPS

\* first, first + 1, ...
Consecutive(s, first) == \A i \in 1..Len(s) : s[i] = first + i - 1

\* The number after all that a client was handed, has to replay and has waiting.
After(c) == from[c] + Len(got[c]) + Len(pending[c]) + Len(buffer[c])

\* The number it is to be handed next.
Upcoming(c) == from[c] + Len(got[c])

Types ==
  /\ hub \in Hubs
  /\ nextID \in [Hubs -> 0..MaxEvents]
  /\ ring \in Seq(Numbers)
  /\ on \in [Clients -> Hubs \cup {NoHub}]
  /\ open \subseteq Clients
  /\ pending \in [Clients -> Seq(Numbers)]
  /\ buffer \in [Clients -> Seq(Numbers)]
  /\ got \in [Clients -> Seq(Numbers)]
  /\ from \in [Clients -> Nat \ {0}]

\* The ring is the newest of its hub's numbers, and no later hub has begun.
Scrollback ==
  /\ \A h \in Hubs : h > hub => nextID[h] = 0
  /\ Len(ring) = Upto(nextID[hub], ringSize)
  /\ \A i \in 1..Len(ring) : ring[i] = nextID[hub] - Len(ring) + i

\* Nobody's stretches are empty; a subscriber's follow each other, and reach the
\* newest number while his channel is open.
Joined(c) ==
  /\ Consecutive(got[c], from[c])
  /\ Consecutive(pending[c], from[c] + Len(got[c]))
  /\ Consecutive(buffer[c], from[c] + Len(got[c]) + Len(pending[c]))
  /\ After(c) <= nextID[on[c]] + 1
  /\ c \in open => After(c) = nextID[on[c]] + 1

Apart(c) == c \notin open /\ got[c] = <<>> /\ pending[c] = <<>> /\ buffer[c] = <<>>

Seam == \A c \in Clients : IF on[c] = NoHub THEN Apart(c) ELSE Joined(c)

-----------------------------------------------------------------------------
(***************************************************************************)
(* Sequences of consecutive numbers.                                       *)
(***************************************************************************)

LEMMA ConsecutiveAppend ==
  ASSUME NEW S, NEW s \in Seq(S), NEW first \in Nat, Consecutive(s, first),
         first + Len(s) \in S
  PROVE  Consecutive(Append(s, first + Len(s)), first)
<1> DEFINE e == first + Len(s)
<1>1. Len(s) \in Nat
  BY LenProperties
<1>2. /\ Len(Append(s, e)) = Len(s) + 1
      /\ Append(s, e)[Len(s) + 1] = e
      /\ \A i \in 1..Len(s) : Append(s, e)[i] = s[i]
  BY <1>1, AppendProperties
<1> HIDE DEF e
<1>3. ASSUME NEW i \in 1..(Len(s) + 1)
      PROVE  Append(s, e)[i] = first + i - 1
  <2>1. CASE i = Len(s) + 1
    BY <1>1, <1>2, <2>1 DEF e
  <2>2. CASE i # Len(s) + 1
    <3>1. i \in 1..Len(s)
      BY <1>1, <2>2
    <3>2. QED
      BY <1>2, <3>1 DEF Consecutive
  <2>3. QED
    BY <2>1, <2>2
<1>4. QED
  BY <1>2, <1>3 DEF Consecutive, e

LEMMA ConsecutiveTail ==
  ASSUME NEW S, NEW s \in Seq(S), s # <<>>, NEW first \in Nat, Consecutive(s, first)
  PROVE  /\ Head(s) = first
         /\ Tail(s) \in Seq(S)
         /\ Len(Tail(s)) = Len(s) - 1
         /\ Consecutive(Tail(s), first + 1)
<1>1. Len(s) \in Nat \ {0}
  BY EmptySeq
<1>2. /\ Tail(s) \in Seq(S)
      /\ Len(Tail(s)) = Len(s) - 1
      /\ \A i \in 1..Len(Tail(s)) : Tail(s)[i] = s[i + 1]
  BY HeadTailProperties
<1>3. Head(s) = s[1]
  BY <1>1
<1>4. s[1] = first
  BY <1>1 DEF Consecutive
<1>5. ASSUME NEW i \in 1..Len(Tail(s))
      PROVE  Tail(s)[i] = first + 1 + i - 1
  <2>1. i + 1 \in 1..Len(s)
    BY <1>1, <1>2
  <2>2. s[i + 1] = first + (i + 1) - 1
    BY <2>1 DEF Consecutive
  <2>3. QED
    BY <1>2, <2>1, <2>2
<1>6. QED
  BY <1>2, <1>3, <1>4, <1>5 DEF Consecutive

LEMMA ConsecutiveConcat ==
  ASSUME NEW S, NEW s \in Seq(S), NEW t \in Seq(S), NEW first \in Nat,
         Consecutive(s, first), Consecutive(t, first + Len(s))
  PROVE  /\ s \o t \in Seq(S)
         /\ Len(s \o t) = Len(s) + Len(t)
         /\ Consecutive(s \o t, first)
<1>1. Len(s) \in Nat /\ Len(t) \in Nat
  BY LenProperties
<1>2. /\ s \o t \in Seq(S)
      /\ Len(s \o t) = Len(s) + Len(t)
      /\ \A i \in 1..(Len(s) + Len(t)) :
           (s \o t)[i] = IF i <= Len(s) THEN s[i] ELSE t[i - Len(s)]
  BY ConcatProperties
<1>3. ASSUME NEW i \in 1..(Len(s) + Len(t))
      PROVE  (s \o t)[i] = first + i - 1
  <2>1. CASE i <= Len(s)
    <3>1. i \in 1..Len(s)
      BY <1>1, <2>1
    <3>2. QED
      BY <1>2, <2>1, <3>1 DEF Consecutive
  <2>2. CASE ~(i <= Len(s))
    <3>1. i - Len(s) \in 1..Len(t)
      BY <1>1, <2>2
    <3>2. t[i - Len(s)] = first + Len(s) + (i - Len(s)) - 1
      BY <3>1 DEF Consecutive
    <3>3. QED
      BY <1>1, <1>2, <2>2, <3>1, <3>2
  <2>3. QED
    BY <2>1, <2>2
<1>4. QED
  BY <1>2, <1>3 DEF Consecutive

LEMMA ConsecutiveEmpty == ASSUME NEW first PROVE Consecutive(<<>>, first)
  BY EmptySeq DEF Consecutive

LEMMA LastOfIsEnd ==
  ASSUME NEW S, NEW s \in Seq(S), NEW n \in 0..Len(s)
  PROVE  /\ LastOf(s, n) \in Seq(S)
         /\ Len(LastOf(s, n)) = n
         /\ \A i \in 1..n : LastOf(s, n)[i] = s[Len(s) - n + i]
<1> DEFINE m == Len(s) - n + 1
<1>1. Len(s) \in Nat /\ n \in Nat /\ m \in Int
  BY LenProperties
<1>2. \A i \in m..Len(s) : s[i] \in S
  BY <1>1, ElementOfSeq
<1>3. /\ SubSeq(s, m, Len(s)) \in Seq(S)
      /\ Len(SubSeq(s, m, Len(s))) = IF m <= Len(s) THEN Len(s) - m + 1 ELSE 0
      /\ \A i \in 1..(Len(s) - m + 1) : SubSeq(s, m, Len(s))[i] = s[m + i - 1]
  <2> HIDE DEF m
  <2>1. QED
    BY <1>1, <1>2, SubSeqProperties
<1>4. Len(s) - m + 1 = n /\ (IF m <= Len(s) THEN Len(s) - m + 1 ELSE 0) = n
  BY <1>1
<1>5. \A i \in 1..n : m + i - 1 = Len(s) - n + i
  BY <1>1
<1>6. QED
  BY <1>3, <1>4, <1>5 DEF LastOf

-----------------------------------------------------------------------------
(***************************************************************************)
(* The steps, by what they do to hub and subscriptions.                    *)
(***************************************************************************)

\* One more is handed over, from the backlog or from the channel.
Takes(c) ==
  /\ on[c] # NoHub
  /\ UNCHANGED <<hubVars, on, open, from>>
  /\ \/ /\ pending[c] # <<>>
        /\ got' = [got EXCEPT ![c] = Append(@, Head(pending[c]))]
        /\ pending' = [pending EXCEPT ![c] = Tail(@)]
        /\ UNCHANGED buffer
     \/ /\ pending[c] = <<>> /\ buffer[c] # <<>>
        /\ got' = [got EXCEPT ![c] = Append(@, Head(buffer[c]))]
        /\ buffer' = [buffer EXCEPT ![c] = Tail(@)]
        /\ UNCHANGED pending

LEMMA WhatSteps ==
  ASSUME [Next]_vars
  PROVE  \/ Publish
         \/ \E c \in Clients : \E n \in {0, eventsBacklog} : Subscribe(c, n)
         \/ \E c \in Clients : Takes(c)
         \/ \E S \in SUBSET Clients : Unsubscribe(S) /\ (UNCHANGED hubVars \/ NewHub)
         \/ UNCHANGED <<hubVars, subVars>>
<1> DEFINE Goal ==
      \/ Publish
      \/ \E c \in Clients : \E n \in {0, eventsBacklog} : Subscribe(c, n)
      \/ \E c \in Clients : Takes(c)
      \/ \E S \in SUBSET Clients : Unsubscribe(S) /\ (UNCHANGED hubVars \/ NewHub)
      \/ UNCHANGED <<hubVars, subVars>>
<1>1. ASSUME NEW t \in Tabs, Connect(t) \/ Disconnect(t) \/ Reopen(t)
      PROVE  Goal
  <2>1. t \in Clients /\ {t} \in SUBSET Clients
    BY DEF Clients
  <2>2. CASE Connect(t)
    BY <2>1, <2>2 DEF Connect
  <2>3. CASE Disconnect(t) \/ Reopen(t)
    <3>1. Unsubscribe({t}) /\ UNCHANGED hubVars
      BY <2>3 DEF Disconnect, Reopen
    <3>2. QED
      BY <2>1, <3>1
  <2>4. QED
    BY <1>1, <2>2, <2>3
<1>2. ASSUME NEW l \in Listeners, Listen(l)
      PROVE  Goal
  BY <1>2 DEF Listen, Clients
<1>3. ASSUME NEW c \in Clients, Replay(c) \/ Drain(c) \/ Dropped(c)
      PROVE  Goal
  <2>1. CASE Replay(c) \/ Drain(c)
    <3>1. Takes(c)
      BY <2>1 DEF Replay, Drain, Deliver, Takes
    <3>2. QED
      BY <3>1
  <2>2. CASE Dropped(c)
    <3>1. Unsubscribe({c}) /\ UNCHANGED hubVars
      BY <2>2 DEF Dropped
    <3>2. QED
      BY <3>1
  <2>3. QED
    BY <1>3, <2>1, <2>2
<1>4. CASE RuntimeReplaced \/ PanelRestarts
  <2>1. Listeners \in SUBSET Clients
    BY DEF Clients
  <2>2. QED
    BY <1>4, <2>1 DEF RuntimeReplaced, PanelRestarts
<1>5. CASE UNCHANGED vars
  BY <1>5 DEF vars
<1>6. QED
  BY <1>1, <1>2, <1>3, <1>4, <1>5 DEF Next

-----------------------------------------------------------------------------
(***************************************************************************)
(* The variables' types, the limits but for those of TypeOK.               *)
(***************************************************************************)

LEMMA InitTypes == Init => Types /\ Scrollback /\ Seam
<1> SUFFICES ASSUME Init
             PROVE  Types /\ Scrollback /\ Seam
  OBVIOUS
<1>1. <<>> \in Seq(Numbers) /\ Len(<<>>) = 0
  BY EmptySeq
<1>2. Types
  BY <1>1, HubAssumption DEF Init, Types, Hubs
<1>3. Scrollback
  <2>1. Upto(0, ringSize) = 0
    BY HubAssumption DEF Upto
  <2>2. hub \in Hubs
    BY <1>2 DEF Types
  <2>3. QED
    BY <1>1, <2>1, <2>2 DEF Init, Scrollback
<1>4. Seam
  BY DEF Init, Seam, Apart
<1>5. QED
  BY <1>2, <1>3, <1>4

LEMMA TypesStep == Types /\ Scrollback /\ [Next]_vars => Types'
<1> SUFFICES ASSUME Types, Scrollback, [Next]_vars
             PROVE  Types'
  OBVIOUS
<1> USE DEF Types, hubVars, subVars
<1>1. CASE Publish
  <2> DEFINE e == nextID[hub] + 1
  <2>1. e \in Numbers /\ e \in 0..MaxEvents
    BY <1>1, HubAssumption DEF Publish, Numbers
  <2>2. nextID' \in [Hubs -> 0..MaxEvents]
    BY <1>1, <2>1 DEF Publish
  <2>3. ring' \in Seq(Numbers)
    <3>1. ring' = RingWith(e)
      BY <1>1 DEF Publish
    <3>2. CASE Len(ring) = ringSize
      <4>1. Tail(ring) \in Seq(Numbers)
        BY <3>2, HubAssumption, EmptySeq, HeadTailProperties
      <4>2. QED
        BY <2>1, <3>1, <3>2, <4>1, AppendProperties DEF RingWith
    <3>3. CASE Len(ring) # ringSize
      BY <2>1, <3>1, <3>3, AppendProperties DEF RingWith
    <3>4. QED
      BY <3>2, <3>3
  <2>4. buffer' \in [Clients -> Seq(Numbers)]
    <3>1. \A c \in Clients : Append(buffer[c], e) \in Seq(Numbers)
      BY <2>1, AppendProperties
    <3> HIDE DEF e
    <3>2. QED
      BY <1>1, <3>1 DEF Publish, e
  <2>5. QED
    BY <1>1, <2>2, <2>3, <2>4 DEF Publish
<1>2. ASSUME NEW c \in Clients, NEW n \in {0, eventsBacklog}, Subscribe(c, n)
      PROVE  Types'
  <2> DEFINE k == Upto(n, Len(ring))
  <2>1. k \in 0..Len(ring)
    BY HubAssumption, LenProperties DEF Upto
  <2>2. LastOf(ring, k) \in Seq(Numbers)
    BY <2>1, LastOfIsEnd
  <2>3. nextID[hub] - k + 1 \in Nat \ {0}
    BY <2>1, LenProperties, HubAssumption DEF Scrollback, Upto
  <2>4. <<>> \in Seq(Numbers)
    BY EmptySeq
  <2> HIDE DEF k
  <2>5. /\ pending' = [pending EXCEPT ![c] = LastOf(ring, k)]
        /\ buffer' = [buffer EXCEPT ![c] = <<>>]
        /\ from' = [from EXCEPT ![c] = nextID[hub] - k + 1]
    BY <1>2 DEF Subscribe, k
  <2>6. QED
    BY <1>2, <2>2, <2>3, <2>4, <2>5 DEF Subscribe
<1>3. ASSUME NEW c \in Clients, Takes(c)
      PROVE  Types'
  <2>1. CASE pending[c] # <<>> /\ pending' = [pending EXCEPT ![c] = Tail(@)]
             /\ got' = [got EXCEPT ![c] = Append(@, Head(pending[c]))] /\ UNCHANGED buffer
    <3>1. Head(pending[c]) \in Numbers /\ Tail(pending[c]) \in Seq(Numbers)
      BY <2>1, HeadTailProperties
    <3>2. Append(got[c], Head(pending[c])) \in Seq(Numbers)
      BY <3>1, AppendProperties
    <3>3. QED
      BY <1>3, <2>1, <3>1, <3>2 DEF Takes
  <2>2. CASE buffer[c] # <<>> /\ buffer' = [buffer EXCEPT ![c] = Tail(@)]
             /\ got' = [got EXCEPT ![c] = Append(@, Head(buffer[c]))] /\ UNCHANGED pending
    <3>1. Head(buffer[c]) \in Numbers /\ Tail(buffer[c]) \in Seq(Numbers)
      BY <2>2, HeadTailProperties
    <3>2. Append(got[c], Head(buffer[c])) \in Seq(Numbers)
      BY <3>1, AppendProperties
    <3>3. QED
      BY <1>3, <2>2, <3>1, <3>2 DEF Takes
  <2>3. QED
    BY <1>3, <2>1, <2>2 DEF Takes
<1>4. ASSUME NEW S \in SUBSET Clients, Unsubscribe(S), UNCHANGED hubVars \/ NewHub
      PROVE  Types'
  <2>1. <<>> \in Seq(Numbers)
    BY EmptySeq
  <2>2. hub' \in Hubs /\ UNCHANGED nextID /\ ring' \in Seq(Numbers)
    <3>1. CASE UNCHANGED hubVars
      BY <3>1
    <3>2. CASE NewHub
      BY <2>1, <3>2, HubAssumption DEF NewHub, Hubs
    <3>3. QED
      BY <1>4, <3>1, <3>2
  <2>3. QED
    BY <1>4, <2>1, <2>2 DEF Unsubscribe
<1>5. CASE UNCHANGED <<hubVars, subVars>>
  BY <1>5
<1>6. QED
  BY <1>1, <1>2, <1>3, <1>4, <1>5, WhatSteps

-----------------------------------------------------------------------------
(***************************************************************************)
(* The ring.                                                               *)
(***************************************************************************)

LEMMA ScrollbackStep == Types /\ Scrollback /\ [Next]_vars => Scrollback'
<1> SUFFICES ASSUME Types, Scrollback, [Next]_vars
             PROVE  Scrollback'
  OBVIOUS
<1>1. CASE Publish
  <2> DEFINE e == nextID[hub] + 1
  <2>1. /\ hub \in Hubs /\ nextID[hub] \in Nat /\ ringSize \in Nat \ {0}
        /\ ring \in Seq(Numbers) /\ Len(ring) \in Nat /\ e \in Numbers
    BY <1>1, HubAssumption, LenProperties DEF Types, Publish, Numbers
  <2>2. hub' = hub /\ nextID'[hub] = e /\ \A h \in Hubs \ {hub} : nextID'[h] = nextID[h]
    BY <1>1, <2>1 DEF Publish, Types
  <2>3. ring' = RingWith(e)
    BY <1>1 DEF Publish
  <2>7. \A h \in Hubs : h > hub' => nextID'[h] = 0
    BY <2>1, <2>2 DEF Scrollback, Hubs
  <2>4. CASE Len(ring) = ringSize
    <3>1. /\ Tail(ring) \in Seq(Numbers)
          /\ Len(Tail(ring)) = ringSize - 1
          /\ \A i \in 1..(ringSize - 1) : Tail(ring)[i] = ring[i + 1]
      BY <2>1, <2>4, EmptySeq, HeadTailProperties
    <3>2. /\ Len(ring') = ringSize
          /\ ring'[ringSize] = e
          /\ \A i \in 1..(ringSize - 1) : ring'[i] = ring[i + 1]
      BY <2>1, <2>3, <2>4, <3>1, AppendProperties DEF RingWith
    <3>3. Upto(e, ringSize) = ringSize
      BY <2>1, <2>4 DEF Scrollback, Upto
    <3>4. ASSUME NEW i \in 1..ringSize
          PROVE  ring'[i] = e - ringSize + i
      <4>1. CASE i = ringSize
        BY <2>1, <3>2, <4>1
      <4>2. CASE i # ringSize
        <5>1. i \in 1..(ringSize - 1) /\ i + 1 \in 1..Len(ring)
          BY <2>1, <2>4, <4>2
        <5>2. ring[i + 1] = nextID[hub] - Len(ring) + (i + 1)
          BY <5>1 DEF Scrollback
        <5>3. e - ringSize + i = nextID[hub] - Len(ring) + (i + 1)
          BY <2>1, <2>4
        <5> HIDE DEF e
        <5>4. QED
          BY <3>2, <5>1, <5>2, <5>3
      <4>3. QED
        BY <4>1, <4>2
    <3> HIDE DEF e
    <3>5. QED
      BY <2>2, <2>7, <3>2, <3>3, <3>4 DEF Scrollback
  <2>5. CASE Len(ring) # ringSize
    <3>1. Len(ring) = nextID[hub] /\ nextID[hub] < ringSize
      BY <2>1, <2>5 DEF Scrollback, Upto
    <3>2. /\ Len(ring') = e
          /\ ring'[e] = e
          /\ \A i \in 1..Len(ring) : ring'[i] = ring[i]
      BY <2>1, <2>3, <2>5, <3>1, AppendProperties DEF RingWith
    <3>3. Upto(e, ringSize) = e
      BY <2>1, <3>1 DEF Upto
    <3>4. ASSUME NEW i \in 1..e
          PROVE  ring'[i] = e - e + i
      <4>1. CASE i = e
        BY <2>1, <3>2, <4>1
      <4>2. CASE i # e
        <5>1. i \in 1..Len(ring)
          BY <2>1, <3>1, <4>2
        <5>2. ring[i] = nextID[hub] - Len(ring) + i
          BY <5>1 DEF Scrollback
        <5>3. QED
          BY <2>1, <3>1, <3>2, <5>1, <5>2
      <4>3. QED
        BY <4>1, <4>2
    <3> HIDE DEF e
    <3>5. QED
      BY <2>2, <2>7, <3>2, <3>3, <3>4 DEF Scrollback
  <2>6. QED
    BY <2>4, <2>5
<1>2. CASE UNCHANGED hubVars
  BY <1>2 DEF Scrollback, hubVars
<1>3. CASE NewHub
  <2>1. Len(<<>>) = 0 /\ Upto(0, ringSize) = 0
    BY EmptySeq, HubAssumption DEF Upto
  <2>2. hub' \in Hubs /\ hub' > hub
    BY <1>3, HubAssumption DEF NewHub, Types, Hubs
  <2>3. nextID' = nextID /\ ring' = <<>>
    BY <1>3 DEF NewHub
  <2>4. nextID[hub'] = 0
    BY <2>2 DEF Scrollback
  <2>5. \A h \in Hubs : h > hub' => h > hub
    BY <2>2 DEF Types, Hubs
  <2>6. QED
    BY <2>1, <2>3, <2>4, <2>5 DEF Scrollback
<1>4. QED
  BY <1>1, <1>2, <1>3, WhatSteps DEF Subscribe, Takes, hubVars

-----------------------------------------------------------------------------
(***************************************************************************)
(* Backlog and channel.                                                    *)
(***************************************************************************)

LEMMA SeamStep == Types /\ Types' /\ Scrollback /\ Seam /\ [Next]_vars => Seam'
<1> SUFFICES ASSUME Types, Types', Scrollback, Seam, [Next]_vars,
                    NEW q \in Clients
             PROVE  IF on'[q] = NoHub THEN Apart(q)' ELSE Joined(q)'
  BY DEF Seam
<1>1. /\ got[q] \in Seq(Numbers) /\ pending[q] \in Seq(Numbers)
      /\ buffer[q] \in Seq(Numbers) /\ from[q] \in Nat
  BY DEF Types
<1>n. /\ from[q] \in Nat
      /\ Len(got[q]) \in Nat /\ Len(pending[q]) \in Nat /\ Len(buffer[q]) \in Nat
  BY <1>1, LenProperties
<1>2. on[q] # NoHub => on[q] \in Hubs /\ nextID[on[q]] \in Nat
  BY DEF Types
<1>3. IF on[q] = NoHub THEN Apart(q) ELSE Joined(q)
  BY DEF Seam
\* Whoever a step leaves alone: so his hub is, or it goes on without him.
<1> DEFINE Left == /\ on'[q] = on[q] /\ got'[q] = got[q] /\ pending'[q] = pending[q]
                   /\ buffer'[q] = buffer[q] /\ from'[q] = from[q]
                   /\ q \in open' => q \in open
           HubLeft == \/ nextID'[on[q]] = nextID[on[q]]
                      \/ q \notin open' /\ nextID'[on[q]] = nextID[on[q]] + 1
<1>4. ASSUME Left, on[q] # NoHub => HubLeft
      PROVE  IF on'[q] = NoHub THEN Apart(q)' ELSE Joined(q)'
  <2>1. After(q)' = After(q) /\ After(q) \in Nat
    BY <1>4, <1>n DEF After
  <2>2. CASE on[q] = NoHub
    BY <1>3, <1>4, <2>2 DEF Apart
  <2>3. CASE on[q] # NoHub
    <3>1. /\ After(q) <= nextID'[on[q]] + 1
          /\ q \in open' => After(q) = nextID'[on[q]] + 1
      BY <1>2, <1>3, <1>4, <2>1, <2>3 DEF Joined
    <3>2. QED
      BY <1>3, <1>4, <2>1, <2>3, <3>1 DEF Joined
  <2>4. QED
    BY <2>2, <2>3
<1> HIDE DEF Left, HubLeft
<1>5. CASE Publish
  <2> DEFINE e == nextID[hub] + 1
             registered == {c \in open : on[c] = hub}
             full == {c \in registered : Len(buffer[c]) = subscriberBuffer}
  <2>1. /\ nextID' = [nextID EXCEPT ![hub] = e]
        /\ buffer' = [c \in Clients |-> IF c \in registered \ full
                                          THEN Append(buffer[c], e) ELSE buffer[c]]
        /\ open' = open \ full
        /\ UNCHANGED <<on, pending, from, got>>
    BY <1>5 DEF Publish
  <2>2. hub \in Hubs /\ hub # NoHub /\ e \in Numbers /\ nextID[hub] \in Nat
    BY <1>5, HubAssumption DEF Publish, Types, Hubs, NoHub, Numbers
  <2>3. CASE q \in registered \ full
    <3> DEFINE first == from[q] + Len(got[q]) + Len(pending[q])
    <3>1. on[q] = hub /\ q \in open
      BY <2>3
    <3>2. Joined(q) /\ first \in Nat /\ first + Len(buffer[q]) = e
      BY <1>1, <1>3, <2>2, <3>1 DEF Joined, After
    <3>3. Consecutive(Append(buffer[q], e), first)
      <4>1. Consecutive(buffer[q], first)
        BY <3>2 DEF Joined
      <4>2. Consecutive(Append(buffer[q], first + Len(buffer[q])), first)
        BY <1>1, <2>2, <3>2, <4>1, ConsecutiveAppend
      <4>3. QED
        BY <3>2, <4>2
    <3>4. Len(Append(buffer[q], e)) = Len(buffer[q]) + 1
      BY <1>1, <2>2, AppendProperties
    <3>5. /\ buffer'[q] = Append(buffer[q], e)
          /\ on'[q] = hub /\ got'[q] = got[q] /\ pending'[q] = pending[q]
          /\ from'[q] = from[q] /\ nextID'[hub] = e
      BY <2>1, <2>2, <2>3, <3>1 DEF Types
    <3> HIDE DEF e, registered, full
    <3>6. Len(buffer'[q]) = Len(buffer[q]) + 1
      BY <3>4, <3>5
    <3>7. After(q)' = After(q) + 1 /\ After(q) = e
      BY <1>n, <3>2, <3>5, <3>6 DEF After
    <3>8. Joined(q)'
      BY <1>1, <2>2, <3>2, <3>3, <3>5, <3>7 DEF Joined
    <3>9. QED
      BY <2>2, <3>5, <3>8
  <2>4. CASE q \notin registered \ full
    <3>1. buffer'[q] = buffer[q] /\ (q \in open' => q \in open /\ on[q] # hub)
      BY <2>1, <2>4
    <3>2. Left
      BY <2>1, <3>1 DEF Left
    <3>3. ASSUME on[q] # NoHub
          PROVE  HubLeft
      BY <1>2, <2>1, <2>2, <3>1, <3>3 DEF Types, HubLeft
    <3>4. QED
      BY <1>4, <3>2, <3>3
  <2>5. QED
    BY <2>3, <2>4
<1>6. ASSUME NEW c \in Clients, NEW n \in {0, eventsBacklog}, Subscribe(c, n)
      PROVE  IF on'[q] = NoHub THEN Apart(q)' ELSE Joined(q)'
  <2> DEFINE k == Upto(n, Len(ring))
  <2>1. /\ k \in 0..Len(ring) /\ ring \in Seq(Numbers) /\ Len(ring) \in Nat
        /\ nextID[hub] \in Nat /\ hub # NoHub /\ hub \in Hubs
    <3>1. ring \in Seq(Numbers) /\ Len(ring) \in Nat
      BY LenProperties DEF Types
    <3>4. hub \in Hubs /\ hub # NoHub
      BY HubAssumption DEF Types, Hubs, NoHub
    <3>2. nextID[hub] \in Nat
      BY <3>4, HubAssumption DEF Types
    <3>3. n \in Nat
      BY HubAssumption
    <3>5. k \in 0..Len(ring)
      BY <3>1, <3>3 DEF Upto
    <3>6. QED
      BY <3>1, <3>2, <3>4, <3>5
  <2> HIDE DEF k
  <2>2. /\ on[c] = NoHub
        /\ on' = [on EXCEPT ![c] = hub]
        /\ open' = open \cup {c}
        /\ pending' = [pending EXCEPT ![c] = LastOf(ring, k)]
        /\ buffer' = [buffer EXCEPT ![c] = <<>>]
        /\ from' = [from EXCEPT ![c] = nextID[hub] - k + 1]
        /\ UNCHANGED <<nextID, got>>
    BY <1>6 DEF Subscribe, hubVars, k
  <2>3. CASE q = c
    <3>1. /\ on'[q] = hub /\ got'[q] = <<>> /\ pending'[q] = LastOf(ring, k)
          /\ buffer'[q] = <<>> /\ from'[q] = nextID[hub] - k + 1
          /\ nextID'[hub] = nextID[hub]
      BY <1>3, <2>2, <2>3 DEF Types, Apart
    <3>2. Len(<<>>) = 0
      BY EmptySeq
    <3>3. /\ Len(LastOf(ring, k)) = k
          /\ \A i \in 1..k : LastOf(ring, k)[i] = ring[Len(ring) - k + i]
      BY <2>1, LastOfIsEnd
    <3>4. Consecutive(LastOf(ring, k), nextID[hub] - k + 1)
      <4>1. ASSUME NEW i \in 1..k
            PROVE  LastOf(ring, k)[i] = nextID[hub] - k + 1 + i - 1
        <5>1. Len(ring) - k + i \in 1..Len(ring)
          BY <2>1
        <5>2. ring[Len(ring) - k + i] = nextID[hub] - Len(ring) + (Len(ring) - k + i)
          BY <5>1 DEF Scrollback
        <5>3. QED
          BY <2>1, <3>3, <5>2
      <4>2. QED
        BY <3>3, <4>1 DEF Consecutive
    <3>5. After(q)' = nextID[hub] + 1
      BY <2>1, <3>1, <3>2, <3>3 DEF After
    <3>6. nextID[hub] - k + 1 + 0 = nextID[hub] - k + 1
      BY <2>1
    <3>7. Joined(q)'
      BY <2>1, <3>1, <3>2, <3>4, <3>5, <3>6, ConsecutiveEmpty DEF Joined
    <3>8. QED
      BY <2>1, <3>1, <3>7
  <2>4. CASE q # c
    <3>1. Left
      BY <2>2, <2>4 DEF Types, Left
    <3>2. HubLeft
      BY <2>2 DEF HubLeft
    <3>3. QED
      BY <1>4, <3>1, <3>2
  <2>5. QED
    BY <2>3, <2>4
<1>7. ASSUME NEW c \in Clients, Takes(c)
      PROVE  IF on'[q] = NoHub THEN Apart(q)' ELSE Joined(q)'
  <2>1. on[c] # NoHub /\ UNCHANGED <<nextID, on, open, from>>
    BY <1>7 DEF Takes, hubVars
  <2>2. CASE q # c
    <3>1. Left
      BY <1>7, <2>1, <2>2 DEF Takes, Types, Left
    <3>2. HubLeft
      BY <2>1 DEF HubLeft
    <3>3. QED
      BY <1>4, <3>1, <3>2
  <2>3. CASE q = c
    <3> DEFINE next == from[q] + Len(got[q])
    <3>1. Joined(q) /\ next \in Nat
      BY <1>1, <1>3, <2>1, <2>3
    <3>2. ASSUME next \in Numbers, got'[q] = Append(got[q], next)
          PROVE  /\ Consecutive(got'[q], from[q])
                 /\ Len(got'[q]) = Len(got[q]) + 1
      BY <1>1, <3>1, <3>2, ConsecutiveAppend, AppendProperties DEF Joined
    <3>3. CASE /\ pending[q] # <<>>
               /\ got' = [got EXCEPT ![q] = Append(@, Head(pending[q]))]
               /\ pending' = [pending EXCEPT ![q] = Tail(@)]
               /\ UNCHANGED buffer
      <4>1. /\ Head(pending[q]) = next
            /\ Len(Tail(pending[q])) = Len(pending[q]) - 1
            /\ Consecutive(Tail(pending[q]), next + 1)
        BY <1>1, <3>1, <3>3, ConsecutiveTail DEF Joined
      <4>2. next \in Numbers
        BY <1>1, <3>3, <4>1, HeadTailProperties
      <4>3. /\ got'[q] = Append(got[q], next) /\ pending'[q] = Tail(pending[q])
            /\ buffer'[q] = buffer[q]
        BY <3>3, <4>1 DEF Types
      <4>4. Consecutive(got'[q], from[q]) /\ Len(got'[q]) = Len(got[q]) + 1
        BY <3>2, <4>2, <4>3
      <4>len. Len(pending'[q]) = Len(pending[q]) - 1 /\ Len(got'[q]) = Len(got[q]) + 1
        BY <4>1, <4>3, <4>4
      <4>5. /\ from[q] + Len(got'[q]) = next + 1
            /\ from[q] + Len(got'[q]) + Len(pending'[q])
                 = from[q] + Len(got[q]) + Len(pending[q])
        <5> DEFINE f == from[q]
                   g == Len(got[q])
                   p == Len(pending[q])
                   u == Len(got'[q])
                   v == Len(pending'[q])
        <5>1. f \in Nat /\ g \in Nat /\ p \in Nat /\ u = g + 1 /\ v = p - 1
          BY <1>n, <4>len
        <5> HIDE DEF f, g, p, u, v
        <5>2. f + u = f + g + 1 /\ f + u + v = f + g + p
          BY <5>1
        <5>3. QED
          BY <5>2 DEF f, g, p, u, v
      <4>6. After(q)' = After(q)
        BY <2>1, <4>3, <4>5 DEF After
      <4> HIDE DEF next
      <4>7. Joined(q)'
        BY <2>1, <3>1, <4>1, <4>3, <4>4, <4>5, <4>6 DEF Joined
      <4>8. QED
        BY <2>1, <2>3, <4>7
    <3>4. CASE /\ pending[q] = <<>> /\ buffer[q] # <<>>
               /\ got' = [got EXCEPT ![q] = Append(@, Head(buffer[q]))]
               /\ buffer' = [buffer EXCEPT ![q] = Tail(@)]
               /\ UNCHANGED pending
      <4>1. Len(pending[q]) = 0 /\ next + Len(pending[q]) = next
        BY <1>1, <3>1, <3>4, EmptySeq
      <4>2. /\ Head(buffer[q]) = next
            /\ Len(Tail(buffer[q])) = Len(buffer[q]) - 1
            /\ Consecutive(Tail(buffer[q]), next + 1)
        BY <1>1, <3>1, <3>4, <4>1, ConsecutiveTail DEF Joined
      <4>3. next \in Numbers
        BY <1>1, <3>4, <4>2, HeadTailProperties
      <4>4. /\ got'[q] = Append(got[q], next) /\ buffer'[q] = Tail(buffer[q])
            /\ pending'[q] = <<>>
        BY <3>4, <4>2 DEF Types
      <4>5. Consecutive(got'[q], from[q]) /\ Len(got'[q]) = Len(got[q]) + 1
        BY <3>2, <4>3, <4>4
      <4>len. /\ Len(pending'[q]) = 0 /\ Len(got'[q]) = Len(got[q]) + 1
              /\ Len(buffer'[q]) = Len(buffer[q]) - 1
        BY <3>4, <4>1, <4>2, <4>4, <4>5
      <4>6. /\ from[q] + Len(got'[q]) + Len(pending'[q]) = next + 1
            /\ from[q] + Len(got'[q]) + Len(pending'[q]) + Len(buffer'[q])
                 = from[q] + Len(got[q]) + Len(pending[q]) + Len(buffer[q])
        <5> DEFINE f == from[q]
                   g == Len(got[q])
                   p == Len(pending[q])
                   b == Len(buffer[q])
                   u == Len(got'[q])
                   v == Len(pending'[q])
                   w == Len(buffer'[q])
        <5>1. /\ f \in Nat /\ g \in Nat /\ b \in Nat /\ p = 0
              /\ u = g + 1 /\ v = 0 /\ w = b - 1
          BY <1>n, <4>1, <4>len
        <5> HIDE DEF f, g, p, b, u, v, w
        <5>2. f + u + v = f + g + 1 /\ f + u + v + w = f + g + p + b
          BY <5>1
        <5>3. QED
          BY <5>2 DEF f, g, p, b, u, v, w
      <4>7. After(q)' = After(q)
        BY <2>1, <4>6 DEF After
      <4> HIDE DEF next
      <4>8. Joined(q)'
        BY <2>1, <3>1, <4>2, <4>4, <4>5, <4>6, <4>7, ConsecutiveEmpty DEF Joined
      <4>9. QED
        BY <2>1, <2>3, <4>8
    <3>5. QED
      BY <1>7, <2>3, <3>3, <3>4 DEF Takes
  <2>4. QED
    BY <2>2, <2>3
<1>8. ASSUME NEW S \in SUBSET Clients, Unsubscribe(S), UNCHANGED hubVars \/ NewHub
      PROVE  IF on'[q] = NoHub THEN Apart(q)' ELSE Joined(q)'
  <2>1. nextID' = nextID
    BY <1>8 DEF NewHub, hubVars
  <2>2. CASE q \in S
    BY <1>8, <2>2 DEF Unsubscribe, Apart
  <2>3. CASE q \notin S
    <3>1. Left
      BY <1>8, <2>3 DEF Unsubscribe, Left
    <3>2. HubLeft
      BY <2>1 DEF HubLeft
    <3>3. QED
      BY <1>4, <3>1, <3>2
  <2>4. QED
    BY <2>2, <2>3
<1>9. CASE UNCHANGED <<hubVars, subVars>>
  BY <1>4, <1>9 DEF hubVars, subVars, Left, HubLeft
<1>10. QED
  BY <1>5, <1>6, <1>7, <1>8, <1>9, WhatSteps

\* The types, the ring and the seam hold together of every reachable state.
LEMMA SeamAlways == Spec => [](Types /\ Scrollback /\ Seam)
<1>1. Types /\ Scrollback /\ Seam /\ [Next]_vars => (Types /\ Scrollback /\ Seam)'
  BY TypesStep, ScrollbackStep, SeamStep
<1>2. QED
  BY <1>1, InitTypes, PTL DEF Spec

\* events.go: what a subscriber was handed, has to replay and has waiting are
\* consecutive events up to the newest of its hub while its channel is open, and the
\* ring is the newest events; for any limits, clients and hubs.
THEOREM NothingEverSlips == Spec => []NothingSlips
<1>1. Types /\ Scrollback /\ Seam => NothingSlips
  <2> SUFFICES ASSUME Types, Scrollback, Seam
               PROVE  NothingSlips
    OBVIOUS
  <2>1. ASSUME NEW c \in Clients, on[c] # NoHub
        PROVE  LET all == got[c] \o pending[c] \o buffer[c] IN
               /\ \A i \in DOMAIN all : all[i] = from[c] + i - 1
               /\ c \in open => from[c] + Len(all) = nextID[on[c]] + 1
    <3> DEFINE replayed == got[c] \o pending[c]
               all == replayed \o buffer[c]
    <3>1. /\ got[c] \in Seq(Numbers) /\ pending[c] \in Seq(Numbers)
          /\ buffer[c] \in Seq(Numbers) /\ from[c] \in Nat
      BY DEF Types
    <3>2. Joined(c)
      BY <2>1 DEF Seam
    <3>3. /\ replayed \in Seq(Numbers)
          /\ Len(replayed) = Len(got[c]) + Len(pending[c])
          /\ Consecutive(replayed, from[c])
      BY <3>1, <3>2, ConsecutiveConcat DEF Joined
    <3> HIDE DEF replayed
    <3>4. Consecutive(buffer[c], from[c] + Len(replayed))
      <4>1. Len(got[c]) \in Nat /\ Len(pending[c]) \in Nat
        BY <3>1, LenProperties
      <4>2. from[c] + Len(replayed) = from[c] + Len(got[c]) + Len(pending[c])
        <5> DEFINE f == from[c]
                   g == Len(got[c])
                   p == Len(pending[c])
                   r == Len(replayed)
        <5>1. f \in Nat /\ g \in Nat /\ p \in Nat /\ r = g + p
          BY <3>1, <3>3, <4>1
        <5> HIDE DEF f, g, p, r
        <5>2. f + r = f + g + p
          BY <5>1
        <5>3. QED
          BY <5>2 DEF f, g, p, r
      <4>3. QED
        BY <3>2, <4>2 DEF Joined
    <3>5. /\ all \in Seq(Numbers)
          /\ Len(all) = Len(replayed) + Len(buffer[c])
          /\ Consecutive(all, from[c])
      BY <3>1, <3>3, <3>4, ConsecutiveConcat
    <3>6. DOMAIN all = 1..Len(all)
      BY <3>5, LenProperties
    <3>7. from[c] + Len(all) = After(c)
      <4>1. /\ Len(got[c]) \in Nat /\ Len(pending[c]) \in Nat
            /\ Len(buffer[c]) \in Nat
        BY <3>1, LenProperties
      <4> DEFINE f == from[c]
                 g == Len(got[c])
                 p == Len(pending[c])
                 b == Len(buffer[c])
                 r == Len(replayed)
                 a == Len(all)
      <4>2. /\ f \in Nat /\ g \in Nat /\ p \in Nat /\ b \in Nat
            /\ r = g + p /\ a = r + b
        BY <3>1, <3>3, <3>5, <4>1
      <4> HIDE DEF f, g, p, b, r, a
      <4>3. f + a = f + g + p + b
        BY <4>2
      <4>4. QED
        BY <4>3 DEF After, f, g, p, b, r, a
    <3>8. all = got[c] \o pending[c] \o buffer[c]
      BY DEF replayed
    <3> HIDE DEF all
    <3>9. QED
      BY <3>2, <3>5, <3>6, <3>7, <3>8 DEF Consecutive, Joined
  <2>2. DOMAIN ring = 1..Len(ring)
    BY LenProperties DEF Types
  <2>3. QED
    BY <2>1, <2>2 DEF NothingSlips, Scrollback
<1>2. QED
  BY <1>1, SeamAlways, PTL

-----------------------------------------------------------------------------
(***************************************************************************)
(* The feed is a log.                                                      *)
(***************************************************************************)

\* Every step of ring, channels and handlers is a step of the plain log or none.
\* What is taken next is the number after all that was handed over.
LEMMA NextInLine ==
  ASSUME Types, Seam, NEW c \in Clients, on[c] # NoHub
  PROVE  /\ Upcoming(c) \in Nat \ {0}
         /\ pending[c] # <<>> => /\ Head(pending[c]) = Upcoming(c)
                                /\ Upcoming(c) <= nextID[on[c]]
         /\ (pending[c] = <<>> /\ buffer[c] # <<>>) => /\ Head(buffer[c]) = Upcoming(c)
                                                      /\ Upcoming(c) <= nextID[on[c]]
<1> DEFINE next == from[c] + Len(got[c])
           p == Len(pending[c])
           b == Len(buffer[c])
           newest == nextID[on[c]]
<1>1. /\ pending[c] \in Seq(Numbers) /\ buffer[c] \in Seq(Numbers)
      /\ got[c] \in Seq(Numbers) /\ from[c] \in Nat \ {0}
  BY DEF Types
<1>2. p \in Nat /\ b \in Nat /\ Len(got[c]) \in Nat /\ next \in Nat \ {0}
  BY <1>1, LenProperties
<1>3. Joined(c) /\ newest \in Nat
  BY DEF Seam, Types
<1>4. /\ Consecutive(pending[c], next) /\ Consecutive(buffer[c], next + p)
      /\ next + p + b <= newest + 1
  BY <1>3 DEF Joined, After
<1> HIDE DEF next, newest
<1>5. ASSUME pending[c] # <<>>
      PROVE  Head(pending[c]) = next /\ next <= newest
  <2>1. Head(pending[c]) = next
    BY <1>1, <1>2, <1>4, <1>5, ConsecutiveTail
  <2>2. p \in Nat \ {0}
    BY <1>1, <1>5, EmptySeq
  <2> HIDE DEF p, b
  <2>3. QED
    BY <1>2, <1>3, <1>4, <2>1, <2>2
<1>6. ASSUME pending[c] = <<>>, buffer[c] # <<>>
      PROVE  Head(buffer[c]) = next /\ next <= newest
  <2>1. p = 0
    BY <1>6, EmptySeq
  <2>2. Consecutive(buffer[c], next)
    <3> HIDE DEF p, b
    <3>1. next + p = next
      BY <1>2, <2>1
    <3>2. QED
      BY <1>4, <3>1
  <2>3. Head(buffer[c]) = next
    BY <1>1, <1>2, <1>6, <2>2, ConsecutiveTail
  <2>4. b \in Nat \ {0}
    BY <1>1, <1>6, EmptySeq
  <2> HIDE DEF p, b
  <2>5. QED
    BY <1>2, <1>3, <1>4, <2>1, <2>3, <2>4
<1>7. QED
  BY <1>2, <1>5, <1>6 DEF next, newest, Upcoming

LEMMA StepsOfTheLog ==
  Types /\ Scrollback /\ Seam /\ [Next]_vars => [Log!Next]_Log!vars
<1> SUFFICES ASSUME Types, Scrollback, Seam, [Next]_vars
             PROVE  Log!Next \/ UNCHANGED Log!vars
  OBVIOUS
<1>1. CASE Publish
  <2>1. hub \in Hubs
    BY DEF Types
  <2>2. Log!Publish(hub)
    BY <1>1 DEF Publish, Log!Publish
  <2>3. QED
    BY <2>1, <2>2 DEF Log!Next
<1>2. ASSUME NEW c \in Clients, NEW n \in {0, eventsBacklog}, Subscribe(c, n)
      PROVE  Log!Next
  <2> DEFINE k == Upto(n, Len(ring))
             first == nextID[hub] - k + 1
  <2>1. first \in 1..(nextID[hub] + 1)
    <3>1. hub \in Hubs
      BY DEF Types
    <3>2. nextID[hub] \in Nat /\ Len(ring) \in Nat /\ ringSize \in Nat
      BY <3>1, HubAssumption, LenProperties DEF Types
    <3>3. Len(ring) <= nextID[hub]
      BY <3>2 DEF Scrollback, Upto
    <3>4. n \in Nat
      BY HubAssumption
    <3>5. k \in 0..nextID[hub]
      BY <3>2, <3>3, <3>4 DEF Upto
    <3> HIDE DEF k
    <3>6. QED
      BY <3>2, <3>5
  <2>2. Log!Join(c, hub, first)
    BY <1>2, <2>1 DEF Subscribe, Log!Join, NoHub, Log!NoHub, hubVars
  <2>3. hub \in Hubs
    BY DEF Types
  <2> HIDE DEF first
  <2>4. QED
    BY <2>1, <2>2, <2>3 DEF Log!Next
<1>3. ASSUME NEW c \in Clients, Takes(c)
      PROVE  Log!Next
  <2>1. on[c] # NoHub
    BY <1>3 DEF Takes
  <2>2. got' = [got EXCEPT ![c] = Append(@, Upcoming(c))] /\ Upcoming(c) <= nextID[on[c]]
    BY <1>3, <2>1, NextInLine DEF Takes
  <2>3. Log!Read(c)
    BY <1>3, <2>1, <2>2 DEF Takes, Upcoming, Log!Read, NoHub, Log!NoHub, hubVars
  <2>4. QED
    BY <2>3 DEF Log!Next
<1>4. ASSUME NEW S \in SUBSET Clients, Unsubscribe(S), UNCHANGED hubVars \/ NewHub
      PROVE  Log!Next \/ UNCHANGED Log!vars
  <2>1. UNCHANGED nextID
    BY <1>4 DEF NewHub, hubVars
  <2>2. CASE S # {}
    <3>1. Log!Leave(S)
      BY <1>4, <2>1, <2>2 DEF Unsubscribe, Log!Leave, NoHub, Log!NoHub
    <3>2. QED
      BY <3>1 DEF Log!Next
  <2>3. CASE S = {}
    <3>1. on' = [c \in Clients |-> on[c]] /\ from' = [c \in Clients |-> from[c]]
          /\ got' = [c \in Clients |-> got[c]]
      BY <1>4, <2>3 DEF Unsubscribe
    <3>2. QED
      BY <2>1, <3>1 DEF Types, Log!vars
  <2>4. QED
    BY <2>2, <2>3
<1>5. CASE UNCHANGED <<hubVars, subVars>>
  BY <1>5 DEF hubVars, subVars, Log!vars
<1>6. QED
  BY <1>1, <1>2, <1>3, <1>4, <1>5, WhatSteps

\* events.go, use-events.ts: whatever ring, bounded channels, drops, reconnects and
\* replaced hubs do, each subscription reads one plain log, in order and whole.
THEOREM FeedIsALog == Spec => ReadsTheLog
<1>1. Init => Log!Init
  BY DEF Init, Log!Init, NoHub, Log!NoHub
<1>2. QED
  BY <1>1, StepsOfTheLog, SeamAlways, PTL DEF Spec, ReadsTheLog, Log!Spec
-----------------------------------------------------------------------------
(***************************************************************************)
(* The limits, and the tabs' screens.                                      *)
(*                                                                         *)
(* A tab that has known one hub can forget a number, or never have had it, *)
(* and must not be sent it again below what it shows: from where its       *)
(* subscription stands, and from where a new one would begin (Start),      *)
(* every number is on screen or newer than all that is (Ahead).            *)
(***************************************************************************)

Limits ==
  \A c \in Clients : Len(pending[c]) <= eventsBacklog /\ Len(buffer[c]) <= subscriberBuffer

Unused == \A c \in Clients : on[c] = NoHub => from[c] = 1

\* Where the backlog begins that is cut when n events are numbered.
Start(n) == n - Upto(eventsBacklog, Upto(n, ringSize)) + 1

Known(t) == everShown[t] \cup skipped[t]
Ahead(t, e) == e \in seen[t] \/ \A s \in seen[t] : s < e

ScreenTypes ==
  /\ shown \in [Tabs -> Seq(Hubs \X Numbers)]
  /\ seen \in [Tabs -> SUBSET Numbers]
  /\ everShown \in [Tabs -> SUBSET (Hubs \X Numbers)]
  /\ skipped \in [Tabs -> SUBSET (Hubs \X Numbers)]

\* What a tab recognises is what it shows, and it has met no later hub than this.
Screen(t) ==
  /\ Len(shown[t]) <= maxEvents
  /\ seen[t] = {shown[t][i][2] : i \in 1..Len(shown[t])}
  /\ \A i \in 1..Len(shown[t]) : shown[t][i] \in everShown[t]
  /\ \A p \in Known(t) : p[1] <= hub
  /\ on[t] <= hub
  /\ got[t] # <<>> => <<on[t], Upcoming(t) - 1>> \in Known(t)
  /\ on[t] = hub => from[t] <= Start(nextID[hub])

Rising(s) == \A i, j \in 1..Len(s) : i < j => s[i][2] < s[j][2]

Steady(t, h) ==
  /\ Rising(shown[t])
  /\ on[t] = h => /\ \A e \in Numbers : e >= Upcoming(t) => Ahead(t, e)
                  /\ got[t] # <<>> => \E s \in seen[t] : s >= Upcoming(t) - 1
  /\ h = hub => \A e \in Numbers : e >= Start(nextID[h]) => Ahead(t, e)

OneHub(t, h) == \A p \in Known(t) : p[1] = h

Screens ==
  /\ ScreenTypes
  /\ \A t \in Tabs : Screen(t) /\ \A h \in Hubs : OneHub(t, h) => Steady(t, h)

Feed == Types /\ Scrollback /\ Seam /\ Limits /\ Unused /\ Screens

LEMMA LimitsStep == Types /\ Scrollback /\ Limits /\ [Next]_vars => Limits'
<1> SUFFICES ASSUME Types, Scrollback, Limits, [Next]_vars, NEW q \in Clients
             PROVE  Len(pending'[q]) <= eventsBacklog /\ Len(buffer'[q]) <= subscriberBuffer
  BY DEF Limits
<1>1. /\ pending[q] \in Seq(Numbers) /\ buffer[q] \in Seq(Numbers) /\ ring \in Seq(Numbers)
      /\ Len(pending[q]) \in Nat /\ Len(buffer[q]) \in Nat /\ Len(ring) \in Nat
      /\ Len(pending[q]) <= eventsBacklog /\ Len(buffer[q]) <= subscriberBuffer
      /\ eventsBacklog \in Nat /\ subscriberBuffer \in Nat /\ Len(<<>>) = 0
  BY HubAssumption, LenProperties, EmptySeq DEF Types, Limits
<1>2. CASE Publish
  <2> DEFINE e == nextID[hub] + 1
  <2>1. pending'[q] = pending[q]
    BY <1>2 DEF Publish
  <2>2. buffer'[q] = buffer[q]
          \/ (buffer'[q] = Append(buffer[q], e) /\ Len(buffer[q]) # subscriberBuffer)
    BY <1>2 DEF Publish
  <2>3. e \in Numbers
    BY <1>2, HubAssumption DEF Publish, Types, Numbers
  <2> HIDE DEF e
  <2>4. Len(Append(buffer[q], e)) = Len(buffer[q]) + 1
    BY <1>1, <2>3, AppendProperties
  <2>5. QED
    BY <1>1, <2>1, <2>2, <2>4
<1>3. ASSUME NEW c \in Clients, NEW n \in {0, eventsBacklog}, Subscribe(c, n)
      PROVE  Len(pending'[q]) <= eventsBacklog /\ Len(buffer'[q]) <= subscriberBuffer
  <2> DEFINE k == Upto(n, Len(ring))
  <2>1. k \in 0..Len(ring) /\ k <= eventsBacklog
    BY <1>1 DEF Upto
  <2>2. Len(LastOf(ring, k)) = k
    BY <1>1, <2>1, LastOfIsEnd
  <2> HIDE DEF k
  <2>3. /\ pending' = [pending EXCEPT ![c] = LastOf(ring, k)]
        /\ buffer' = [buffer EXCEPT ![c] = <<>>]
    BY <1>3 DEF Subscribe, k
  <2>4. /\ pending'[q] = pending[q] \/ pending'[q] = LastOf(ring, k)
        /\ buffer'[q] = buffer[q] \/ buffer'[q] = <<>>
    BY <2>3 DEF Types
  <2>5. QED
    BY <1>1, <2>1, <2>2, <2>4
<1>4. ASSUME NEW c \in Clients, Takes(c)
      PROVE  Len(pending'[q]) <= eventsBacklog /\ Len(buffer'[q]) <= subscriberBuffer
  <2>1. /\ pending'[q] = pending[q] \/ (pending[q] # <<>> /\ pending'[q] = Tail(pending[q]))
        /\ buffer'[q] = buffer[q] \/ (buffer[q] # <<>> /\ buffer'[q] = Tail(buffer[q]))
    BY <1>4 DEF Takes, Types
  <2>2. /\ pending[q] # <<>> => Len(Tail(pending[q])) = Len(pending[q]) - 1
        /\ buffer[q] # <<>> => Len(Tail(buffer[q])) = Len(buffer[q]) - 1
    BY <1>1, HeadTailProperties
  <2>3. /\ Len(pending'[q]) = Len(pending[q]) \/ Len(pending'[q]) = Len(pending[q]) - 1
        /\ Len(buffer'[q]) = Len(buffer[q]) \/ Len(buffer'[q]) = Len(buffer[q]) - 1
    BY <2>1, <2>2
  <2> DEFINE p == Len(pending[q])
             b == Len(buffer[q])
             u == Len(pending'[q])
             v == Len(buffer'[q])
  <2>4. /\ p \in Nat /\ b \in Nat /\ p <= eventsBacklog /\ b <= subscriberBuffer
        /\ u = p \/ u = p - 1
        /\ v = b \/ v = b - 1
        /\ eventsBacklog \in Nat /\ subscriberBuffer \in Nat
    BY <1>1, <2>3
  <2> HIDE DEF p, b, u, v
  <2>5. u <= eventsBacklog /\ v <= subscriberBuffer
    BY <2>4
  <2>6. QED
    BY <2>5 DEF u, v
<1>5. ASSUME NEW S \in SUBSET Clients, Unsubscribe(S)
      PROVE  Len(pending'[q]) <= eventsBacklog /\ Len(buffer'[q]) <= subscriberBuffer
  BY <1>1, <1>5 DEF Unsubscribe
<1>6. CASE UNCHANGED <<hubVars, subVars>>
  BY <1>1, <1>6 DEF subVars
<1>7. QED
  BY <1>2, <1>3, <1>4, <1>5, <1>6, WhatSteps

LEMMA UnusedStep == Types /\ Unused /\ [Next]_vars => Unused'
<1> SUFFICES ASSUME Types, Unused, [Next]_vars, NEW q \in Clients, on'[q] = NoHub
             PROVE  from'[q] = 1
  BY DEF Unused
<1>1. ASSUME NEW c \in Clients, NEW n \in {0, eventsBacklog}, Subscribe(c, n)
      PROVE  from'[q] = 1
  <2>1. hub # NoHub
    BY DEF Types, Hubs, NoHub
  <2>2. q # c /\ on'[q] = on[q] /\ from'[q] = from[q]
    BY <1>1, <2>1 DEF Subscribe, Types
  <2>3. QED
    BY <2>2 DEF Unused
<1>2. ASSUME NEW S \in SUBSET Clients, Unsubscribe(S)
      PROVE  from'[q] = 1
  BY <1>2 DEF Unsubscribe, Unused
<1>3. CASE UNCHANGED <<on, from>>
  BY <1>3 DEF Unused
<1>4. QED
  BY <1>1, <1>2, <1>3, WhatSteps DEF Publish, Takes, subVars

\* A new subscription begins no earlier than one before.
LEMMA StartRises ==
  ASSUME NEW n \in Nat
  PROVE  Start(n) \in Nat \ {0} /\ Start(n) <= Start(n + 1) /\ Start(n) <= n + 1
BY HubAssumption DEF Start, Upto

\* As long as a tab is shown nothing, its screen can only be cut off or left behind.
LEMMA ScreenKept ==
  ASSUME Types, Screens, NEW t \in Tabs,
         shown'[t] = shown[t], seen'[t] = seen[t],
         everShown'[t] = everShown[t], skipped'[t] = skipped[t],
         \/ on'[t] = on[t] /\ got'[t] = got[t] /\ from'[t] = from[t]
         \/ on'[t] = NoHub /\ got'[t] = <<>>,
         \/ hub' = hub /\ nextID'[hub] \in {nextID[hub], nextID[hub] + 1}
         \/ hub' = hub + 1 /\ hub' \in Hubs
  PROVE  Screen(t)' /\ \A h \in Hubs : OneHub(t, h)' => Steady(t, h)'
<1>1. /\ hub \in Hubs /\ hub \in Nat /\ nextID[hub] \in Nat /\ nextID[hub] + 1 \in Nat /\ NoHub = 0
      /\ t \in Clients /\ on[t] \in Nat /\ from[t] \in Nat
  BY HubAssumption DEF Types, Hubs, NoHub, Clients
<1>2. Screen(t)
  BY DEF Screens
<1>3. /\ Start(nextID[hub]) \in Nat
      /\ hub' = hub => (Start(nextID'[hub]) \in Nat /\ Start(nextID[hub]) <= Start(nextID'[hub]))
  <2>1. \A n \in Nat : Start(n) \in Nat /\ Start(n) <= Start(n + 1)
    BY StartRises
  <2>2. Start(nextID[hub]) \in Nat /\ Start(nextID[hub] + 1) \in Nat
        /\ Start(nextID[hub]) <= Start(nextID[hub] + 1)
    BY <1>1, <2>1
  <2>3. ASSUME hub' = hub
        PROVE  nextID'[hub] = nextID[hub] \/ nextID'[hub] = nextID[hub] + 1
    BY <1>1, <2>3
  <2>4. QED
    BY <2>2, <2>3
<1>4. Known(t)' = Known(t) /\ Len(shown'[t]) = Len(shown[t])
  BY DEF Known
<1>5. Screen(t)'
  <2>1. \A p \in Known(t) : p[1] \in Nat
    BY DEF Known, Screens, ScreenTypes, Hubs
  <2>2. (\A p \in Known(t) : p[1] <= hub') /\ on'[t] <= hub'
    BY <1>1, <1>2, <2>1 DEF Screen
  <2>3. got'[t] # <<>> => <<on'[t], Upcoming(t)' - 1>> \in Known(t)
    BY <1>2 DEF Screen, Upcoming
  <2>4. on'[t] = hub' => from'[t] <= Start(nextID'[hub'])
    BY <1>1, <1>2, <1>3 DEF Screen, Hubs
  <2>5. QED
    BY <1>2, <1>4, <2>2, <2>3, <2>4 DEF Screen
<1>6. ASSUME NEW h \in Hubs, OneHub(t, h)'
      PROVE  Steady(t, h)'
  <2>1. Steady(t, h)
    BY <1>4, <1>6 DEF Screens, OneHub
  <2>2. \A e \in Numbers : Ahead(t, e)' <=> Ahead(t, e)
    BY DEF Ahead
  <2>3. Rising(shown'[t])
    BY <2>1 DEF Steady
  <2>4. on'[t] = h => /\ \A e \in Numbers : e >= Upcoming(t)' => Ahead(t, e)'
                      /\ got'[t] # <<>> => \E s \in seen'[t] : s >= Upcoming(t)' - 1
    <3>1. h # NoHub
      BY DEF Hubs, NoHub
    <3>2. on'[t] = h => on[t] = h /\ Upcoming(t)' = Upcoming(t) /\ got'[t] = got[t]
      BY <3>1 DEF Upcoming
    <3>3. QED
      BY <2>1, <2>2, <3>2 DEF Steady
  <2>5. h = hub' => \A e \in Numbers : e >= Start(nextID'[h]) => Ahead(t, e)'
    <3>1. CASE hub' = hub
      BY <1>1, <1>3, <2>1, <2>2, <3>1 DEF Steady, Numbers
    <3>2. CASE hub' = hub + 1
      <4>1. h = hub' => Known(t) = {}
        BY <1>1, <1>2, <1>4, <1>6, <3>2 DEF Screen, OneHub
      <4>2. h = hub' => seen[t] = {}
        BY <1>2, <4>1 DEF Screen, Known
      <4>3. QED
        BY <4>2 DEF Ahead
    <3>3. QED
      BY <3>1, <3>2
  <2>6. QED
    BY <2>3, <2>4, <2>5 DEF Steady
<1>7. QED
  BY <1>5, <1>6

\* Counting up from zero reaches every natural number.
LEMMA SetInduction ==
  ASSUME NEW S, 0 \in S, \A n \in Nat : n \in S => n + 1 \in S
  PROVE  Nat \subseteq S
<1> DEFINE Below == OpToRel(<, Nat)
<1>1. IsWellFoundedOn(Below, Nat)
  BY NatLessThanWellFounded
<1>2. ASSUME Nat \ S # {}
      PROVE  FALSE
  <2>1. \E x \in Nat \ S : \A y \in Nat \ S : <<y, x>> \notin Below
    <3> HIDE DEF Below
    <3>1. QED
      BY <1>1, <1>2, WFMin
  <2>2. PICK x \in Nat \ S : \A y \in Nat \ S : <<y, x>> \notin Below
    BY <2>1
  <2>3. x - 1 \in Nat /\ x - 1 \notin S
    <3>1. x # 0
      OBVIOUS
    <3>2. x - 1 \in Nat /\ (x - 1) + 1 = x
      BY <3>1
    <3>3. QED
      BY <3>2
  <2>4. <<x - 1, x>> \in Below
    BY <2>3 DEF OpToRel
  <2>5. QED
    BY <2>2, <2>3, <2>4
<1>3. QED
  BY <1>2

\* n events in order have n numbers between them.
LEMMA RisesByOne ==
  ASSUME NEW s \in Seq(Hubs \X Numbers), Rising(s), NEW j \in 1..Len(s)
  PROVE  s[1][2] + j - 1 <= s[j][2]
<1> DEFINE Reached == {n \in Nat : n + 1 \in 1..Len(s) => s[1][2] + n <= s[n + 1][2]}
<1>1. Len(s) \in Nat /\ \A i \in 1..Len(s) : s[i][2] \in Nat
  <2>1. Len(s) \in Nat /\ \A i \in 1..Len(s) : s[i] \in Hubs \X Numbers
    BY LenProperties, ElementOfSeq
  <2>2. QED
    BY <2>1 DEF Numbers
<1>2. 0 \in Reached
  BY <1>1
<1>3. ASSUME NEW n \in Nat, n \in Reached
      PROVE  n + 1 \in Reached
  <2>1. ASSUME n + 2 \in 1..Len(s)
        PROVE  s[1][2] + (n + 1) <= s[n + 2][2]
    <3>1. n + 1 \in 1..Len(s) /\ 1 \in 1..Len(s) /\ n + 1 < n + 2
      BY <1>1, <2>1
    <3>2. s[1][2] + n <= s[n + 1][2]
      BY <1>3, <3>1
    <3>3. s[n + 1][2] < s[n + 2][2]
      BY <2>1, <3>1 DEF Rising
    <3>4. QED
      BY <1>1, <2>1, <3>1, <3>2, <3>3
  <2>2. QED
    BY <2>1
<1> HIDE DEF Reached
<1>4. Nat \subseteq Reached
  BY <1>2, <1>3, SetInduction
<1>5. j - 1 \in Reached /\ (j - 1) + 1 = j
  BY <1>1, <1>4
<1>6. s[1][2] + (j - 1) <= s[j][2]
  BY <1>5 DEF Reached
<1>7. QED
  BY <1>1, <1>6

\* The screen after one more: all of it, or all but the first.
LEMMA Scrolling ==
  ASSUME NEW s \in Seq(Hubs \X Numbers), Len(s) <= maxEvents, NEW p \in Hubs \X Numbers
  PROVE  LET all == Append(s, p)
             kept == LastOf(all, Upto(Len(all), maxEvents))
         IN  /\ Len(all) = Len(s) + 1
             /\ kept \in Seq(Hubs \X Numbers)
             /\ \E d \in {0, 1} :
                  /\ d = 1 <=> Len(s) = maxEvents
                  /\ Len(kept) = Len(s) + 1 - d
                  /\ \A i \in 1..(Len(s) - d) : kept[i] = s[i + d]
                  /\ kept[Len(s) + 1 - d] = p
<1> DEFINE all == Append(s, p)
           n == Len(s)
           d == IF n = maxEvents THEN 1 ELSE 0
           k == Upto(Len(all), maxEvents)
           kept == LastOf(all, k)
<1>1. n \in Nat /\ n <= maxEvents /\ maxEvents \in Nat \ {0} /\ d \in {0, 1}
  BY LenProperties, HubAssumption
<1>2. all \in Seq(Hubs \X Numbers) /\ Len(all) = n + 1 /\ all[n + 1] = p
        /\ \A i \in 1..n : all[i] = s[i]
  BY AppendProperties
<1>d. d = IF n = maxEvents THEN 1 ELSE 0
  OBVIOUS
<1> HIDE DEF all, n, d
<1>3. k = n + 1 - d
  <2>1. k = IF n + 1 < maxEvents THEN n + 1 ELSE maxEvents
    BY <1>2 DEF Upto
  <2>2. CASE n = maxEvents
    BY <1>1, <1>d, <2>1, <2>2
  <2>3. CASE n # maxEvents
    <3>1. d = 0 /\ n < maxEvents
      BY <1>1, <1>d, <2>3
    <3>2. QED
      BY <1>1, <2>1, <3>1
  <2>4. QED
    BY <2>2, <2>3
<1>4. k \in 0..Len(all)
  BY <1>1, <1>2, <1>3
<1> HIDE DEF k
<1>5. kept \in Seq(Hubs \X Numbers) /\ Len(kept) = k
        /\ \A i \in 1..k : kept[i] = all[Len(all) - k + i]
  BY <1>2, <1>4, LastOfIsEnd
<1> HIDE DEF kept
<1>6. \A i \in 1..(n - d) : kept[i] = s[i + d]
  <2>1. ASSUME NEW i \in 1..(n - d)
        PROVE  i \in 1..k /\ Len(all) - k + i = i + d /\ i + d \in 1..n
    BY <1>1, <1>2, <1>3
  <2>2. QED
    BY <1>2, <1>5, <2>1
<1>7. kept[n + 1 - d] = p
  <2>1. n + 1 - d \in 1..k /\ Len(all) - k + (n + 1 - d) = n + 1
    <3>1. CASE d = 1
      <4>1. n \in Nat \ {0} /\ k = n /\ Len(all) = n + 1 /\ n + 1 - d = n
        BY <1>1, <1>2, <1>3, <1>d, <3>1
      <4>2. QED
        BY <4>1
    <3>2. CASE d = 0
      <4>1. n \in Nat /\ k = n + 1 /\ Len(all) = n + 1 /\ n + 1 - d = n + 1
        BY <1>1, <1>2, <1>3, <3>2
      <4>2. QED
        BY <4>1
    <3>3. QED
      BY <1>1, <3>1, <3>2
  <2>2. QED
    BY <1>2, <1>5, <2>1
<1>8. /\ d = 1 <=> n = maxEvents
      /\ Len(kept) = n + 1 - d
  BY <1>3, <1>5, <1>d
<1>9. QED
  BY <1>1, <1>2, <1>5, <1>6, <1>7, <1>8 DEF all, k, kept, n

\* A tab is handed the next event of its subscription.
LEMMA ScreenShows ==
  ASSUME Types, Screens, NEW t \in Tabs, NEW e \in Numbers, e = Upcoming(t),
         on[t] # NoHub, e <= nextID[on[t]], Show(t, e), got'[t] = Append(got[t], e),
         UNCHANGED <<hub, nextID, on, from>>
  PROVE  Screen(t)' /\ \A h \in Hubs : OneHub(t, h)' => Steady(t, h)'
<1> DEFINE g == on[t]
           n == Len(shown[t])
<1>1. /\ hub \in Hubs /\ hub \in Nat /\ g \in Hubs /\ g \in Nat /\ nextID[hub] \in Nat
      /\ nextID[g] \in Nat /\ t \in Clients /\ from[t] \in Nat /\ got[t] \in Seq(Numbers)
      /\ e \in Nat \ {0} /\ maxEvents \in Nat \ {0} /\ NoHub = 0
  BY HubAssumption DEF Types, Hubs, NoHub, Clients, Numbers
<1>2. /\ Screen(t) /\ shown[t] \in Seq(Hubs \X Numbers) /\ n \in Nat /\ seen[t] \subseteq Numbers
      /\ shown \in [Tabs -> Seq(Hubs \X Numbers)] /\ seen \in [Tabs -> SUBSET Numbers]
      /\ everShown \in [Tabs -> SUBSET (Hubs \X Numbers)]
      /\ skipped \in [Tabs -> SUBSET (Hubs \X Numbers)]
  BY LenProperties DEF Screens, ScreenTypes
<1>3. got'[t] # <<>> /\ Upcoming(t)' = e + 1
  <2>1. Len(got'[t]) = Len(got[t]) + 1 /\ Len(got[t]) \in Nat
    BY <1>1, AppendProperties, LenProperties
  <2>2. from[t] + Len(got'[t]) = e + 1
    <3> DEFINE f == from[t]
               a == Len(got[t])
               b == Len(got'[t])
    <3>1. f \in Nat /\ a \in Nat /\ b = a + 1 /\ e = f + a
      BY <1>1, <2>1 DEF Upcoming
    <3> HIDE DEF f, a, b
    <3>2. f + b = e + 1
      BY <3>1
    <3>3. QED
      BY <3>2 DEF f, b
  <2>3. got'[t] # <<>>
    <3>1. CASE got'[t] = <<>>
      <4>1. Len(got'[t]) = 0
        BY <3>1, EmptySeq
      <4>2. QED
        BY <2>1, <4>1
    <3>2. QED
      BY <3>1
  <2>4. QED
    BY <2>2, <2>3 DEF Upcoming
<1>4. g <= hub /\ (g = hub => from[t] <= Start(nextID[hub]))
  BY <1>2 DEF Screen
<1>5. Known(t)' = Known(t) \cup {<<g, e>>}
  BY <1>2 DEF Show, Known
<1>6. (\A p \in Known(t)' : p[1] <= hub) /\ <<g, Upcoming(t)' - 1>> \in Known(t)'
  BY <1>1, <1>2, <1>3, <1>4, <1>5 DEF Screen
<1>7. ASSUME NEW h \in Hubs, OneHub(t, h)'
      PROVE  g = h /\ Steady(t, h)
  <2>1. \A p \in Known(t) \cup {<<g, e>>} : p[1] = h
    BY <1>5, <1>7 DEF OneHub
  <2>2. <<g, e>>[1] = h
    BY <2>1
  <2>3. OneHub(t, h)
    BY <2>1 DEF OneHub
  <2>4. QED
    BY <2>2, <2>3 DEF Screens
<1>8. CASE e \in seen[t]
  <2>1. shown'[t] = shown[t] /\ seen'[t] = seen[t] /\ everShown'[t] = everShown[t]
    BY <1>2, <1>8 DEF Show
  <2>2. Screen(t)'
    BY <1>2, <1>3, <1>4, <1>6, <2>1 DEF Screen
  <2>3. ASSUME NEW h \in Hubs, OneHub(t, h)'
        PROVE  Steady(t, h)'
    <3>1. g = h /\ Steady(t, h)
      BY <1>7, <2>3
    <3>2. \A x \in Numbers : Ahead(t, x)' <=> Ahead(t, x)
      BY <2>1 DEF Ahead
    <3>3. \A x \in Numbers : x >= Upcoming(t)' => x >= Upcoming(t)
      BY <1>1, <1>3 DEF Numbers
    <3>4. e \in seen'[t] /\ e >= Upcoming(t)' - 1
      BY <1>1, <1>3, <1>8, <2>1
    <3>5. QED
      BY <2>1, <3>1, <3>2, <3>3, <3>4 DEF Steady
  <2>4. QED
    BY <2>2, <2>3
<1>9. CASE e \notin seen[t]
  <2> DEFINE all == Append(shown[t], <<g, e>>)
             kept == LastOf(all, Upto(Len(all), maxEvents))
  <2>1. n <= maxEvents /\ <<g, e>> \in Hubs \X Numbers
        /\ seen[t] = {shown[t][i][2] : i \in 1..n}
        /\ \A i \in 1..n : shown[t][i] \in everShown[t]
    BY <1>1, <1>2 DEF Screen
  <2>2. PICK d \in {0, 1} :
          /\ d = 1 <=> n = maxEvents
          /\ Len(kept) = n + 1 - d
          /\ \A i \in 1..(n - d) : kept[i] = shown[t][i + d]
          /\ kept[n + 1 - d] = <<g, e>>
    BY <1>2, <2>1, Scrolling
  <2>3. kept \in Seq(Hubs \X Numbers) /\ Len(all) = n + 1
    BY <1>2, <2>1, Scrolling
  <2>4. /\ shown'[t] = kept /\ everShown'[t] = everShown[t] \cup {<<g, e>>}
        /\ seen'[t] = IF Len(all) > maxEvents THEN {p[2] : p \in ToSet(kept)}
                                              ELSE seen[t] \cup {e}
    BY <1>2, <1>9 DEF Show
  <2> HIDE DEF kept, all
  <2>5. /\ n - d \in Nat /\ Len(kept) = (n - d) + 1 /\ DOMAIN kept = 1..Len(kept)
        /\ \A i \in 1..(n - d) : i + d \in 1..n
    BY <1>2, <2>1, <2>2, <2>3, LenProperties, HubAssumption
  <2>6. seen'[t] = {kept[i][2] : i \in 1..Len(kept)}
    <3>1. CASE d = 1
      <4>1. Len(all) > maxEvents
        BY <1>1, <2>2, <2>3, <3>1
      <4>2. seen'[t] = {p[2] : p \in ToSet(kept)}
        BY <2>4, <4>1
      <4>3. ToSet(kept) = {kept[i] : i \in 1..Len(kept)}
        BY <2>5 DEF ToSet
      <4>4. QED
        BY <4>2, <4>3
    <3>2. CASE d = 0
      <4>1. seen'[t] = seen[t] \cup {e}
        BY <1>1, <1>2, <2>1, <2>2, <2>3, <2>4, <3>2
      <4>2. /\ Len(kept) = n + 1 /\ kept[n + 1] = <<g, e>>
            /\ \A i \in 1..n : kept[i] = shown[t][i]
        BY <1>2, <2>2, <3>2
      <4>3. \A i \in 1..(n + 1) : i = n + 1 \/ i \in 1..n
        BY <1>2
      <4>4. n + 1 \in 1..(n + 1) /\ 1..n \subseteq 1..(n + 1)
        BY <1>2
      <4>5. \A x \in seen[t] \cup {e} : \E i \in 1..(n + 1) : x = kept[i][2]
        <5>1. kept[n + 1][2] = e
          BY <4>2
        <5>2. \A i \in 1..n : kept[i][2] = shown[t][i][2]
          BY <4>2
        <5>3. QED
          BY <2>1, <4>4, <5>1, <5>2
      <4>6. \A i \in 1..(n + 1) : kept[i][2] \in seen[t] \cup {e}
        <5>1. kept[n + 1][2] = e
          BY <4>2
        <5>2. \A i \in 1..n : kept[i][2] = shown[t][i][2]
          BY <4>2
        <5>3. QED
          BY <2>1, <4>3, <5>1, <5>2
      <4>7. QED
        BY <4>1, <4>2, <4>5, <4>6
    <3>3. QED
      BY <3>1, <3>2
  <2>7. \A i \in 1..Len(kept) : \/ kept[i] = <<g, e>> /\ i = Len(kept)
                                \/ i \in 1..(n - d) /\ kept[i] = shown[t][i + d]
    BY <2>2, <2>5
  <2>8. Screen(t)'
    <3>1. Len(kept) <= maxEvents
      BY <1>1, <1>2, <2>1, <2>2
    <3>2. \A i \in 1..Len(kept) : kept[i] \in everShown'[t]
      BY <2>1, <2>4, <2>5, <2>7
    <3>3. QED
      BY <1>3, <1>4, <1>6, <2>4, <2>6, <3>1, <3>2 DEF Screen
  <2>9. ASSUME NEW h \in Hubs, OneHub(t, h)'
        PROVE  Steady(t, h)'
    <3>1. g = h /\ Steady(t, h)
      BY <1>7, <2>9
    <3>2. \A s \in seen[t] : s < e
      BY <1>1, <1>9, <3>1 DEF Steady, Ahead
    <3>3. \A i \in 1..n : shown[t][i][2] \in Nat /\ shown[t][i][2] < e
      <4>1. \A i \in 1..n : shown[t][i][2] \in seen[t]
        BY <2>1
      <4>2. \A x \in seen[t] : x \in Nat
        BY <1>2 DEF Numbers
      <4>3. QED
        BY <3>2, <4>1, <4>2
    <3>4. Rising(kept)
      <4>1. ASSUME NEW i \in 1..Len(kept), NEW j \in 1..Len(kept), i < j
            PROVE  kept[i][2] < kept[j][2]
        <5>1. i \in 1..(n - d) /\ kept[i] = shown[t][i + d] /\ i + d \in 1..n
          <6>1. i \in 1..(n - d)
            BY <2>5, <4>1
          <6>2. QED
            BY <2>2, <2>5, <6>1
        <5>2. CASE kept[j] = <<g, e>>
          BY <3>3, <5>1, <5>2
        <5>3. CASE j \in 1..(n - d) /\ kept[j] = shown[t][j + d]
          <6>1. j + d \in 1..n /\ i + d < j + d
            BY <2>5, <4>1, <5>3
          <6>2. QED
            BY <3>1, <5>1, <5>3, <6>1 DEF Steady, Rising
        <5>4. QED
          BY <2>7, <5>2, <5>3
      <4>2. QED
        BY <4>1 DEF Rising
    <3>5. e \in seen'[t] /\ \A s \in seen'[t] : s <= e /\ s \in Nat
      <4>1. e \in seen'[t]
        BY <2>2, <2>5, <2>6
      <4>2. \A s \in seen'[t] : s = e \/ \E i \in 1..n : s = shown[t][i][2]
        <5>1. \A i \in 1..Len(kept) : \/ kept[i][2] = e
                                      \/ \E j \in 1..n : kept[i][2] = shown[t][j][2]
          BY <2>5, <2>7
        <5>2. QED
          BY <2>6, <5>1
      <4>3. QED
        <5>1. \A s \in seen'[t] : s = e \/ (s \in Nat /\ s < e)
          BY <3>3, <4>2
        <5>2. QED
          BY <1>1, <4>1, <5>1
    <3>6. ASSUME NEW x \in Numbers, x > e
          PROVE  Ahead(t, x)'
      BY <1>1, <3>5, <3>6 DEF Ahead, Numbers
    <3>7. ASSUME h = hub, NEW x \in Numbers, x >= Start(nextID[h]), x < e
          PROVE  x \in seen'[t]
      <4>1. x \in Nat /\ Start(nextID[hub]) \in Nat
        <5>1. \A k \in Nat : Start(k) \in Nat
          BY StartRises
        <5>2. Start(nextID[hub]) \in Nat
          BY <1>1, <5>1
        <5>3. x \in Nat
          BY DEF Numbers
        <5>4. QED
          BY <5>2, <5>3
      <4>2. got[t] # <<>>
        <5>1. CASE got[t] = <<>>
          <6>1. e = from[t]
            BY <1>1, <5>1, EmptySeq DEF Upcoming
          <6>2. QED
            BY <1>1, <1>4, <3>1, <3>7, <4>1, <6>1
        <5>2. QED
          BY <5>1
      <4>3. PICK s \in seen[t] : s >= e - 1
        BY <3>1, <4>2 DEF Steady
      <4>4. x \in seen[t]
        <5>1. Ahead(t, x)
          BY <3>1, <3>7 DEF Steady
        <5>2. s \in Nat /\ s >= x
          BY <1>1, <1>2, <3>7, <4>1, <4>3 DEF Numbers
        <5>3. QED
          BY <4>1, <4>3, <5>1, <5>2 DEF Ahead
      <4>5. PICK j \in 1..n : shown[t][j][2] = x
        BY <2>1, <4>4
      <4>6. j > d
        <5>1. ASSUME j <= d
              PROVE  FALSE
          <6>1. d = 1 /\ j = 1 /\ n = maxEvents /\ n \in 1..n
            BY <1>1, <1>2, <2>2, <5>1
          <6>2. x + n - 1 <= shown[t][n][2] /\ shown[t][n][2] < e
            BY <1>2, <3>1, <3>3, <4>5, <6>1, RisesByOne DEF Steady
          <6>3. x + maxEvents <= e
            <7> DEFINE v == shown[t][n][2]
            <7>1. v \in Nat
              BY <3>3, <6>1
            <7> HIDE DEF v
            <7>2. x + n - 1 <= v /\ v < e
              BY <6>2 DEF v
            <7>3. QED
              BY <1>1, <4>1, <6>1, <7>1, <7>2
          <6>4. Start(nextID[hub]) >= nextID[hub] - maxEvents + 1
            <7> DEFINE u == Upto(eventsBacklog, Upto(nextID[hub], ringSize))
            <7>1. u \in Nat /\ u <= eventsBacklog /\ eventsBacklog <= maxEvents
                    /\ eventsBacklog \in Nat
              BY <1>1, HubAssumption DEF Upto
            <7> HIDE DEF u
            <7>2. nextID[hub] - u + 1 >= nextID[hub] - maxEvents + 1
              BY <1>1, <7>1
            <7>3. QED
              BY <7>2 DEF Start, u
          <6>5. QED
            BY <1>1, <3>1, <3>7, <4>1, <6>3, <6>4
        <5>2. QED
          BY <1>2, <2>2, <5>1
      <4>7. j - d \in 1..(n - d) /\ (j - d) + d = j /\ j - d \in 1..Len(kept)
        BY <1>2, <2>2, <2>5, <4>6
      <4>8. kept[j - d] = shown[t][j]
        BY <2>2, <4>7
      <4>9. QED
        BY <2>6, <4>5, <4>7, <4>8
    <3>8. h = hub => \A x \in Numbers : x >= Start(nextID[h]) => Ahead(t, x)'
      <4>1. ASSUME h = hub, NEW x \in Numbers, x >= Start(nextID[h])
            PROVE  Ahead(t, x)'
        <5>1. x > e \/ x = e \/ x < e
          BY <1>1 DEF Numbers
        <5>2. QED
          BY <3>5, <3>6, <3>7, <4>1, <5>1 DEF Ahead
      <4>2. QED
        BY <4>1
    <3>9. \A x \in Numbers : x >= Upcoming(t)' => Ahead(t, x)'
      BY <1>1, <1>3, <3>6 DEF Numbers
    <3>10. \E s \in seen'[t] : s >= Upcoming(t)' - 1
      BY <1>1, <1>3, <3>5
    <3>11. QED
      BY <2>4, <3>4, <3>8, <3>9, <3>10 DEF Steady
  <2>10. QED
    BY <2>8, <2>9
<1>10. QED
  BY <1>8, <1>9

\* A new connection is to be handed what its backlog begins with.
LEMMA ScreenConnects ==
  ASSUME Types, Scrollback, Seam, Screens, NEW t \in Tabs, Connect(t)
  PROVE  Screen(t)' /\ \A h \in Hubs : OneHub(t, h)' => Steady(t, h)'
<1>1. /\ hub \in Hubs /\ hub \in Nat /\ nextID[hub] \in Nat /\ t \in Clients /\ NoHub = 0
  BY HubAssumption DEF Types, Hubs, NoHub, Clients
<1>2. Screen(t)
  BY DEF Screens
<1>3. got[t] = <<>>
  BY <1>1 DEF Connect, Subscribe, Seam, Apart
<1>4. /\ on'[t] = hub /\ got'[t] = <<>> /\ from'[t] = Start(nextID[hub])
      /\ hub' = hub /\ nextID' = nextID
      /\ UNCHANGED <<shown, seen, everShown, skipped>>
  BY <1>1, <1>3 DEF Connect, Subscribe, hubVars, tabVars, Types, Scrollback, Start
<1>5. Start(nextID[hub]) \in Nat
  <2>1. \A n \in Nat : Start(n) \in Nat
    BY StartRises
  <2>2. QED
    BY <1>1, <2>1
<1>6. Known(t)' = Known(t)
  BY <1>4 DEF Known
<1>7. Screen(t)'
  BY <1>1, <1>2, <1>4, <1>5, <1>6 DEF Screen
<1>8. ASSUME NEW h \in Hubs, OneHub(t, h)'
      PROVE  Steady(t, h)'
  <2>1. Steady(t, h)
    BY <1>6, <1>8 DEF Screens, OneHub
  <2>2. \A e \in Numbers : Ahead(t, e)' <=> Ahead(t, e)
    BY <1>4 DEF Ahead
  <2>3. Upcoming(t)' = Start(nextID[hub])
    <3>1. Len(got'[t]) = 0
      BY <1>4, EmptySeq
    <3>2. QED
      BY <1>4, <1>5, <3>1 DEF Upcoming
  <2>4. QED
    BY <1>4, <2>1, <2>2, <2>3 DEF Steady
<1>9. QED
  BY <1>7, <1>8

\* A reloaded page has shown nothing.
LEMMA ScreenReopens ==
  ASSUME Types, Screens, NEW t \in Tabs, Reopen(t)
  PROVE  Screen(t)' /\ \A h \in Hubs : OneHub(t, h)' => Steady(t, h)'
<1>1. hub \in Nat /\ t \in Clients /\ NoHub = 0 /\ maxEvents \in Nat
  BY HubAssumption DEF Types, Hubs, NoHub, Clients
<1>2. /\ shown'[t] = <<>> /\ seen'[t] = {} /\ everShown'[t] = {} /\ skipped'[t] = {}
      /\ on'[t] = NoHub /\ got'[t] = <<>> /\ hub' = hub
  BY <1>1 DEF Reopen, Unsubscribe, hubVars, Screens, ScreenTypes
<1>3. Len(shown'[t]) = 0 /\ 1..0 = {}
  BY <1>2, EmptySeq
<1>4. Known(t)' = {}
  BY <1>2 DEF Known
<1>5. Screen(t)'
  <2>1. seen'[t] = {shown'[t][i][2] : i \in 1..Len(shown'[t])}
    BY <1>2, <1>3
  <2>2. on'[t] # hub'
    BY <1>1, <1>2 DEF Types, Hubs
  <2>3. Len(shown'[t]) <= maxEvents /\ on'[t] <= hub'
    BY <1>1, <1>2, <1>3
  <2>4. QED
    BY <1>2, <1>3, <1>4, <2>1, <2>2, <2>3 DEF Screen
<1>6. ASSUME NEW h \in Hubs
      PROVE  Steady(t, h)'
  <2>1. Rising(shown'[t])
    BY <1>3 DEF Rising
  <2>2. \A e : Ahead(t, e)'
    BY <1>2 DEF Ahead
  <2>3. QED
    BY <1>2, <2>1, <2>2 DEF Steady
<1>7. QED
  BY <1>5, <1>6

\* What is shown on tabs is numbers of hubs, and only Show puts it there.
LEMMA ShowTypes ==
  ASSUME ScreenTypes, NEW c \in Tabs, NEW e \in Numbers, on[c] \in Hubs, Screen(c), Show(c, e)
  PROVE  /\ ScreenTypes'
         /\ \A t \in Tabs \ {c} : /\ shown'[t] = shown[t] /\ seen'[t] = seen[t]
                                  /\ everShown'[t] = everShown[t] /\ skipped'[t] = skipped[t]
<1>1. <<on[c], e>> \in Hubs \X Numbers
  OBVIOUS
<1>2. CASE e \in seen[c]
  <2>1. skipped' = [skipped EXCEPT ![c] = @ \cup {<<on[c], e>>}] /\ UNCHANGED <<shown, seen, everShown>>
    BY <1>2 DEF Show
  <2>2. QED
    BY <1>1, <2>1 DEF ScreenTypes
<1>3. CASE e \notin seen[c]
  <2> DEFINE all == Append(shown[c], <<on[c], e>>)
             kept == LastOf(all, Upto(Len(all), maxEvents))
             forgotten == IF Len(all) > maxEvents THEN {p[2] : p \in ToSet(kept)}
                                                  ELSE seen[c] \cup {e}
  <2>1. kept \in Seq(Hubs \X Numbers)
    BY <1>1, Scrolling DEF ScreenTypes, Screen
  <2>2. /\ shown' = [shown EXCEPT ![c] = kept]
        /\ seen' = [seen EXCEPT ![c] = forgotten]
        /\ everShown' = [everShown EXCEPT ![c] = @ \cup {<<on[c], e>>}]
        /\ skipped' = skipped
    BY <1>3 DEF Show, ScreenTypes
  <2> HIDE DEF kept, all
  <2>3. {p[2] : p \in ToSet(kept)} \subseteq Numbers
    <3>1. DOMAIN kept = 1..Len(kept) /\ \A i \in 1..Len(kept) : kept[i] \in Hubs \X Numbers
      BY <2>1, LenProperties, ElementOfSeq
    <3>2. \A p \in ToSet(kept) : p \in Hubs \X Numbers
      BY <3>1 DEF ToSet
    <3>3. QED
      BY <3>2
  <2>4. forgotten \in SUBSET Numbers
    BY <2>3 DEF ScreenTypes
  <2> HIDE DEF forgotten
  <2>5. QED
    BY <1>1, <2>1, <2>2, <2>4 DEF ScreenTypes
<1>4. QED
  BY <1>2, <1>3

\* A step that shows nothing keeps every screen whose subscription it leaves or ends.
LEMMA ScreensKept ==
  ASSUME Types, Screens, UNCHANGED tabVars,
         \A t \in Tabs : \/ on'[t] = on[t] /\ got'[t] = got[t] /\ from'[t] = from[t]
                         \/ on'[t] = NoHub /\ got'[t] = <<>>,
         \/ hub' = hub /\ nextID'[hub] \in {nextID[hub], nextID[hub] + 1}
         \/ hub' = hub + 1 /\ hub' \in Hubs
  PROVE  Screens'
<1>1. ScreenTypes'
  BY DEF tabVars, Screens, ScreenTypes
<1>2. ASSUME NEW t \in Tabs
      PROVE  Screen(t)' /\ \A h \in Hubs : OneHub(t, h)' => Steady(t, h)'
  <2>1. /\ shown'[t] = shown[t] /\ seen'[t] = seen[t]
        /\ everShown'[t] = everShown[t] /\ skipped'[t] = skipped[t]
    BY DEF tabVars
  <2>2. QED
    BY <2>1, ScreenKept
<1>3. QED
  BY <1>1, <1>2 DEF Screens

LEMMA ScreensStep ==
  Types /\ Types' /\ Scrollback /\ Seam /\ Screens /\ [Next]_vars => Screens'
<1> SUFFICES ASSUME Types, Types', Scrollback, Seam, Screens, [Next]_vars
             PROVE  Screens'
  OBVIOUS
<1>1. hub \in Hubs /\ Tabs \subseteq Clients /\ Listeners \cap Tabs = {}
  BY HubAssumption DEF Types, Clients
<1>2. CASE Publish
  <2>1. hub' = hub /\ nextID'[hub] = nextID[hub] + 1 /\ UNCHANGED <<on, got, from, tabVars>>
    BY <1>1, <1>2 DEF Publish, Types
  <2>2. QED
    BY <2>1, ScreensKept
<1>3. ASSUME NEW c \in Tabs, Connect(c)
      PROVE  Screens'
  <2>1. /\ UNCHANGED tabVars /\ hub' = hub /\ nextID' = nextID
        /\ \A t \in Tabs \ {c} : on'[t] = on[t] /\ got'[t] = got[t] /\ from'[t] = from[t]
    BY <1>3 DEF Connect, Subscribe, hubVars, Types
  <2>2. ScreenTypes'
    BY <2>1 DEF tabVars, Screens, ScreenTypes
  <2>3. ASSUME NEW t \in Tabs
        PROVE  Screen(t)' /\ \A h \in Hubs : OneHub(t, h)' => Steady(t, h)'
    <3>1. CASE t = c
      BY <1>3, <3>1, ScreenConnects
    <3>2. CASE t # c
      <4>1. /\ shown'[t] = shown[t] /\ seen'[t] = seen[t]
            /\ everShown'[t] = everShown[t] /\ skipped'[t] = skipped[t]
            /\ on'[t] = on[t] /\ got'[t] = got[t] /\ from'[t] = from[t]
        BY <2>1, <3>2 DEF tabVars
      <4>2. QED
        BY <2>1, <4>1, ScreenKept
    <3>3. QED
      BY <3>1, <3>2
  <2>4. QED
    BY <2>2, <2>3 DEF Screens
<1>4. ASSUME NEW l \in Listeners, Listen(l)
      PROVE  Screens'
  <2>1. /\ UNCHANGED tabVars /\ hub' = hub /\ nextID' = nextID
        /\ \A t \in Tabs : on'[t] = on[t] /\ got'[t] = got[t] /\ from'[t] = from[t]
    BY <1>1, <1>4 DEF Listen, Subscribe, hubVars, Types
  <2>2. QED
    BY <2>1, ScreensKept
<1>5. ASSUME NEW c \in Clients, Replay(c) \/ Drain(c)
      PROVE  Screens'
  <2> DEFINE e == Upcoming(c)
  <2>1. /\ on[c] # NoHub /\ Deliver(c, e) /\ e \in Nat \ {0} /\ e <= nextID[on[c]]
    BY <1>5, NextInLine DEF Replay, Drain
  <2>2. /\ on[c] \in Hubs /\ e \in Numbers
    <3>1. on[c] \in Hubs /\ nextID[on[c]] \in 0..MaxEvents
      BY <2>1 DEF Types
    <3> HIDE DEF e
    <3>2. QED
      BY <2>1, <3>1, HubAssumption DEF Numbers
  <2>3. /\ got' = [got EXCEPT ![c] = Append(@, e)] /\ UNCHANGED <<hub, nextID, on, from>>
        /\ IF c \in Tabs THEN Show(c, e) ELSE UNCHANGED tabVars
    BY <2>1 DEF Deliver, hubVars
  <2>4. /\ got'[c] = Append(got[c], e)
        /\ \A t \in Clients \ {c} : got'[t] = got[t]
    BY <2>3 DEF Types
  <2>5. CASE c \notin Tabs
    <3>1. \A t \in Tabs : on'[t] = on[t] /\ got'[t] = got[t] /\ from'[t] = from[t]
      BY <1>1, <2>3, <2>4, <2>5
    <3>2. QED
      BY <2>3, <2>5, <3>1, ScreensKept
  <2>6. CASE c \in Tabs
    <3>1. Show(c, e)
      BY <2>3, <2>6
    <3>2. ScreenTypes /\ Screen(c)
      BY <2>6 DEF Screens
    <3> HIDE DEF e
    <3>3. /\ ScreenTypes'
          /\ \A t \in Tabs \ {c} : /\ shown'[t] = shown[t] /\ seen'[t] = seen[t]
                                   /\ everShown'[t] = everShown[t] /\ skipped'[t] = skipped[t]
      BY <2>2, <2>6, <3>1, <3>2, ShowTypes
    <3>4. Screen(c)' /\ \A h \in Hubs : OneHub(c, h)' => Steady(c, h)'
      BY <2>1, <2>2, <2>3, <2>4, <2>6, <3>1, ScreenShows DEF e
    <3>5. ASSUME NEW t \in Tabs, t # c
          PROVE  Screen(t)' /\ \A h \in Hubs : OneHub(t, h)' => Steady(t, h)'
      <4>1. /\ shown'[t] = shown[t] /\ seen'[t] = seen[t]
            /\ everShown'[t] = everShown[t] /\ skipped'[t] = skipped[t]
            /\ on'[t] = on[t] /\ got'[t] = got[t] /\ from'[t] = from[t]
        BY <1>1, <2>3, <2>4, <3>3, <3>5
      <4>2. QED
        BY <2>3, <4>1, ScreenKept
    <3>6. QED
      BY <3>3, <3>4, <3>5 DEF Screens
  <2>7. QED
    BY <2>5, <2>6
<1>6. ASSUME NEW S \in SUBSET Clients, Unsubscribe(S), UNCHANGED tabVars,
             UNCHANGED hubVars \/ NewHub
      PROVE  Screens'
  <2>1. \A t \in Tabs : \/ on'[t] = on[t] /\ got'[t] = got[t] /\ from'[t] = from[t]
                        \/ on'[t] = NoHub /\ got'[t] = <<>>
    BY <1>1, <1>6 DEF Unsubscribe
  <2>2. \/ hub' = hub /\ nextID'[hub] \in {nextID[hub], nextID[hub] + 1}
        \/ hub' = hub + 1 /\ hub' \in Hubs
    BY <1>6 DEF hubVars, NewHub, Types
  <2>3. QED
    BY <1>6, <2>1, <2>2, ScreensKept
<1>7. ASSUME NEW c \in Tabs, Reopen(c)
      PROVE  Screens'
  <2>1. ScreenTypes'
    BY <1>7, EmptySeq DEF Reopen, Screens, ScreenTypes
  <2>2. ASSUME NEW t \in Tabs
        PROVE  Screen(t)' /\ \A h \in Hubs : OneHub(t, h)' => Steady(t, h)'
    <3>1. CASE t = c
      BY <1>7, <3>1, ScreenReopens
    <3>2. CASE t # c
      <4>1. /\ shown'[t] = shown[t] /\ seen'[t] = seen[t]
            /\ everShown'[t] = everShown[t] /\ skipped'[t] = skipped[t]
            /\ on'[t] = on[t] /\ got'[t] = got[t] /\ from'[t] = from[t]
            /\ hub' = hub /\ nextID' = nextID
        BY <1>1, <1>7, <3>2 DEF Reopen, Unsubscribe, hubVars, Screens, ScreenTypes
      <4>2. QED
        BY <4>1, ScreenKept
    <3>3. QED
      BY <3>1, <3>2
  <2>3. QED
    BY <2>1, <2>2 DEF Screens
<1>8. ASSUME NEW t \in Tabs, Disconnect(t)
      PROVE  Screens'
  BY <1>1, <1>6, <1>8 DEF Disconnect
<1>9. ASSUME NEW c \in Clients, Dropped(c)
      PROVE  Screens'
  BY <1>6, <1>9 DEF Dropped
<1>10. CASE RuntimeReplaced \/ PanelRestarts
  <2>1. Listeners \in SUBSET Clients /\ UNCHANGED tabVars
    BY <1>10 DEF Clients, RuntimeReplaced, PanelRestarts, NewHub
  <2>2. QED
    BY <1>6, <1>10, <2>1 DEF RuntimeReplaced, PanelRestarts
<1>11. CASE UNCHANGED vars
  BY <1>11, ScreensKept DEF vars, hubVars, subVars
<1>12. QED
  BY <1>2, <1>3, <1>4, <1>5, <1>7, <1>8, <1>9, <1>10, <1>11 DEF Next

LEMMA InitFeed == Init => Feed
<1> SUFFICES ASSUME Init
             PROVE  Limits /\ Unused /\ Screens
  BY InitTypes DEF Feed
<1>1. /\ <<>> \in Seq(Hubs \X Numbers) /\ Len(<<>>) = 0 /\ 1..0 = {} /\ NoHub = 0
      /\ maxEvents \in Nat /\ eventsBacklog \in Nat /\ subscriberBuffer \in Nat
  BY HubAssumption, EmptySeq DEF NoHub
<1>2. Limits /\ Unused
  BY <1>1 DEF Init, Limits, Unused
<1>3. ScreenTypes
  BY <1>1 DEF Init, ScreenTypes
<1>4. ASSUME NEW t \in Tabs
      PROVE  Screen(t) /\ \A h \in Hubs : OneHub(t, h) => Steady(t, h)
  <2>1. /\ shown[t] = <<>> /\ seen[t] = {} /\ everShown[t] = {} /\ skipped[t] = {}
        /\ on[t] = 0 /\ got[t] = <<>> /\ hub = 1
    BY <1>1 DEF Init, Clients
  <2>2. Len(shown[t]) = 0 /\ Known(t) = {}
    BY <1>1, <2>1 DEF Known
  <2>3. seen[t] = {shown[t][i][2] : i \in 1..Len(shown[t])}
    BY <1>1, <2>1, <2>2
  <2>4. Screen(t)
    BY <1>1, <2>1, <2>2, <2>3 DEF Screen
  <2>5. Rising(shown[t])
    BY <1>1, <2>2 DEF Rising
  <2>6. \A e : Ahead(t, e)
    BY <2>1 DEF Ahead
  <2>7. QED
    BY <2>1, <2>4, <2>5, <2>6 DEF Steady
<1>5. QED
  BY <1>2, <1>3, <1>4 DEF Screens

LEMMA FeedAlways == Spec => []Feed
<1>1. Feed /\ [Next]_vars => Feed'
  BY TypesStep, ScrollbackStep, SeamStep, LimitsStep, UnusedStep, ScreensStep DEF Feed
<1>2. QED
  BY <1>1, InitFeed, PTL DEF Spec

-----------------------------------------------------------------------------
(***************************************************************************)
(* What the invariant says of screens and limits.                          *)
(***************************************************************************)

LEMMA BoundedBy ==
  ASSUME NEW S, NEW n \in Nat, NEW s \in Seq(S), Len(s) <= n
  PROVE  s \in BoundedSeq(S, n)
<1>1. Len(s) \in 0..n /\ s \in [1..Len(s) -> S]
  BY LenProperties
<1>2. QED
  BY <1>1 DEF BoundedSeq, SeqOf

\* events.go, hub.go, use-events.ts: rings, channels, backlogs and screens keep to
\* their limits, and numbers are numbers of hubs that have been; for any limits.
THEOREM TypeCorrect == Spec => []TypeOK
<1>1. Feed => TypeOK
  <2> SUFFICES ASSUME Feed
               PROVE  TypeOK
    OBVIOUS
  <2>1. /\ hub \in Hubs /\ nextID \in [Hubs -> 0..MaxEvents]
        /\ on \in [Clients -> Hubs \cup {NoHub}] /\ open \subseteq Clients
        /\ ringSize \in Nat /\ eventsBacklog \in Nat /\ subscriberBuffer \in Nat
        /\ maxEvents \in Nat /\ MaxEvents \in Nat
    BY HubAssumption DEF Feed, Types
  <2>2. ring \in BoundedSeq(Numbers, ringSize)
    <3>1. ring \in Seq(Numbers) /\ nextID[hub] \in Nat /\ Len(ring) = Upto(nextID[hub], ringSize)
      BY <2>1 DEF Feed, Types, Scrollback
    <3>2. Len(ring) <= ringSize
      BY <2>1, <3>1 DEF Upto
    <3>3. QED
      BY <2>1, <3>1, <3>2, BoundedBy
  <2>3. ASSUME NEW c \in Clients
        PROVE  /\ pending[c] \in BoundedSeq(Numbers, eventsBacklog)
               /\ buffer[c] \in BoundedSeq(Numbers, subscriberBuffer)
               /\ from[c] \in 1..(MaxEvents + 1)
               /\ got[c] \in BoundedSeq(Numbers, MaxEvents)
    <3>1. /\ pending[c] \in Seq(Numbers) /\ buffer[c] \in Seq(Numbers) /\ got[c] \in Seq(Numbers)
          /\ from[c] \in Nat \ {0}
          /\ Len(pending[c]) <= eventsBacklog /\ Len(buffer[c]) <= subscriberBuffer
      BY DEF Feed, Types, Limits
    <3>2. from[c] <= MaxEvents + 1 /\ Len(got[c]) <= MaxEvents
      <4>1. CASE on[c] = NoHub
        BY <2>1, <3>1, <4>1, EmptySeq DEF Feed, Seam, Apart, Unused
      <4>2. CASE on[c] # NoHub
        <5> DEFINE f == from[c]
                   g == Len(got[c])
                   p == Len(pending[c])
                   b == Len(buffer[c])
                   newest == nextID[on[c]]
        <5>1. f \in Nat \ {0} /\ g \in Nat /\ p \in Nat /\ b \in Nat
          BY <3>1, LenProperties
        <5>2. newest \in Nat /\ newest <= MaxEvents
          BY <2>1, <4>2
        <5>3. f + g + p + b <= newest + 1
          BY <4>2 DEF Feed, Seam, Joined, After
        <5> HIDE DEF f, g, p, b, newest
        <5>4. f <= MaxEvents + 1 /\ g <= MaxEvents
          BY <2>1, <5>1, <5>2, <5>3
        <5>5. QED
          BY <5>4 DEF f, g
      <4>3. QED
        BY <4>1, <4>2
    <3>3. QED
      BY <2>1, <3>1, <3>2, BoundedBy
  <2>4. ASSUME NEW t \in Tabs
        PROVE  /\ shown[t] \in BoundedSeq(Hubs \X Numbers, maxEvents)
               /\ seen[t] \subseteq Numbers
               /\ everShown[t] \subseteq Hubs \X Numbers
               /\ skipped[t] \subseteq Hubs \X Numbers
    <3>1. /\ shown[t] \in Seq(Hubs \X Numbers) /\ Len(shown[t]) <= maxEvents
          /\ seen[t] \subseteq Numbers /\ everShown[t] \subseteq Hubs \X Numbers
          /\ skipped[t] \subseteq Hubs \X Numbers
      BY DEF Feed, Screens, ScreenTypes, Screen
    <3>2. QED
      BY <2>1, <3>1, BoundedBy
  <2>5. QED
    BY <2>1, <2>2, <2>3, <2>4 DEF TypeOK
<1>2. QED
  BY <1>1, FeedAlways, PTL

\* use-events.ts: over any number of reconnects and replays a tab that has known one
\* hub shows no event twice and all of them in order; for any ring, backlog and limit.
THEOREM NoEventTwice == Spec => []ShownOnceInOrder
<1>1. Feed => ShownOnceInOrder
  <2> SUFFICES ASSUME Feed, NEW t \in Tabs, NEW h \in Hubs,
                      everShown[t] \cup skipped[t] \subseteq {h} \X Nat,
                      NEW i \in DOMAIN shown[t], NEW j \in DOMAIN shown[t], i < j
               PROVE  shown[t][i][2] < shown[t][j][2]
    BY DEF ShownOnceInOrder
  <2>1. OneHub(t, h)
    BY DEF OneHub, Known
  <2>2. Rising(shown[t])
    BY <2>1 DEF Feed, Screens, Steady
  <2>3. DOMAIN shown[t] = 1..Len(shown[t])
    BY LenProperties DEF Feed, Screens, ScreenTypes
  <2>4. QED
    BY <2>2, <2>3 DEF Rising
<1>2. QED
  BY <1>1, FeedAlways, PTL
=============================================================================
