------------------------------- MODULE EventLog -------------------------------
(***************************************************************************)
(* What the event feed promises: one ordered log per hub, and readers that *)
(* join near its end and are handed every later event in order, none       *)
(* skipped and none twice, until they leave or are cut off.  No buffer, no *)
(* ring, no lock.                                                          *)
(***************************************************************************)
EXTENDS Integers, Sequences

CONSTANTS Readers, Hubs

VARIABLES
  published,  \* per hub: how many events it has numbered
  on,         \* per reader: the hub it reads, NoHub if none
  from,       \* per reader: the first event it was promised
  got         \* per reader: the events it was handed since it joined

vars == <<published, on, from, got>>

NoHub == 0

Init ==
  /\ published = [h \in Hubs |-> 0]
  /\ on = [r \in Readers |-> NoHub]
  /\ from = [r \in Readers |-> 1]
  /\ got = [r \in Readers |-> <<>>]

Publish(h) ==
  /\ published' = [published EXCEPT ![h] = @ + 1]
  /\ UNCHANGED <<on, from, got>>

\* A reader may be promised some of the past, but always all of the future.
Join(r, h, first) ==
  /\ on[r] = NoHub
  /\ first \in 1..(published[h] + 1)
  /\ on' = [on EXCEPT ![r] = h]
  /\ from' = [from EXCEPT ![r] = first]
  /\ UNCHANGED <<published, got>>

Read(r) ==
  LET next == from[r] + Len(got[r]) IN
  /\ on[r] # NoHub
  /\ next <= published[on[r]]
  /\ got' = [got EXCEPT ![r] = Append(@, next)]
  /\ UNCHANGED <<published, on, from>>

\* Readers leave, all those of a stopped server at once.
Leave(S) ==
  /\ S # {}
  /\ on' = [r \in Readers |-> IF r \in S THEN NoHub ELSE on[r]]
  /\ from' = [r \in Readers |-> IF r \in S THEN 1 ELSE from[r]]
  /\ got' = [r \in Readers |-> IF r \in S THEN <<>> ELSE got[r]]
  /\ UNCHANGED published

Next ==
  \/ \E h \in Hubs : Publish(h)
  \/ \E r \in Readers, h \in Hubs :
       \E first \in 1..(published[h] + 1) : Join(r, h, first)
  \/ \E r \in Readers : Read(r)
  \/ \E S \in SUBSET Readers : Leave(S)

Spec == Init /\ [][Next]_vars
=============================================================================
