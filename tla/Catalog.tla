-------------------------------- MODULE Catalog --------------------------------
(***************************************************************************)
(* One of the four catalogues of a game server (internal/catalog): its     *)
(* commands, items, entity classes and buffs.  They are the same cache: a  *)
(* copy is good for ttl, whoever finds it older queues for the mutex       *)
(* inflight and looks again, and the last copy is better than none.        *)
(*                                                                         *)
(* A list is its version, a number that grows when the mods of the game    *)
(* server change.  Searching one reads it and changes nothing.             *)
(***************************************************************************)
EXTENDS Integers, FiniteSetsExt

CONSTANTS
  Readers,     \* goroutines that ask for the list
  TTL,         \* ttl, in units of the model's clock
  EndOfTime,   \* bound on the clock
  MaxChanged,  \* bound on the changes of the list
  MaxReads,    \* bound on the requests
  MaxMissed    \* bound on the fetches that fail

VARIABLES
  now,      \* the clock
  stocked,     \* the list the game server has
  copy,     \* items and fetchedAt, NoCopy
  holder,   \* who holds inflight, Nobody
  reading,  \* per goroutine what it is doing
  reads, missed,
  seen      \* history: the newest list an answer has shown

vars == <<now, stocked, copy, holder, reading, reads, missed, seen>>

NoCopy == [version |-> 0, at |-> -1]
Nobody == "nobody"
Idle == [at |-> "idle", version |-> 0, floor |-> 0]

Init ==
  /\ now = 0 /\ stocked = 1
  /\ copy = NoCopy
  /\ holder = Nobody
  /\ reading = [g \in Readers |-> Idle]
  /\ reads = 0 /\ missed = 0
  /\ seen = 0

TimePasses ==
  /\ now < EndOfTime
  /\ now' = now + 1
  /\ UNCHANGED <<stocked, copy, holder, reading, reads, missed, seen>>

\* The mods of the game server change.
ListChanges ==
  /\ stocked <= MaxChanged
  /\ stocked' = stocked + 1
  /\ UNCHANGED <<now, copy, holder, reading, reads, missed, seen>>

Fresh == copy # NoCopy /\ now - copy.at < TTL

\* An answer: the list, or with no version an error.
Shows(version) == seen' = Max({seen, version})
Answers(g, version) ==
  reading' = [reading EXCEPT ![g] = Idle] /\ Shows(version)

\* The copy, read under the lock, is good, or the mutex is queued for.
Asks(g) ==
  /\ reading[g].at = "idle" /\ reads < MaxReads
  /\ reads' = reads + 1
  /\ IF Fresh THEN Answers(g, copy.version)
     ELSE /\ reading' = [reading EXCEPT ![g] = [at |-> "queue", version |-> 0,
                                                floor |-> seen]]
          /\ UNCHANGED seen
  /\ UNCHANGED <<now, stocked, copy, holder, missed>>

\* Whose turn it is looks again before it fetches: another may have refreshed.
Enters(g) ==
  /\ reading[g].at = "queue" /\ holder = Nobody
  /\ IF Fresh THEN Answers(g, copy.version) /\ UNCHANGED holder
     ELSE /\ reading' = [reading EXCEPT ![g].at = "fetch"]
          /\ holder' = g /\ UNCHANGED seen
  /\ UNCHANGED <<now, stocked, copy, reads, missed>>

Fetches(g) ==
  /\ reading[g].at = "fetch"
  /\ reading' = [reading EXCEPT ![g].at = "store", ![g].version = stocked]
  /\ UNCHANGED <<now, stocked, copy, holder, reads, missed, seen>>

\* "A stale catalogue beats an empty picker"; without one it is an error.
FetchFails(g) ==
  /\ reading[g].at = "fetch" /\ missed < MaxMissed
  /\ missed' = missed + 1
  /\ Answers(g, copy.version)
  /\ holder' = Nobody
  /\ UNCHANGED <<now, stocked, copy, reads>>

\* It is as old as its answer's arrival; the mutex is free again.
Stores(g) ==
  /\ reading[g].at = "store"
  /\ copy' = [version |-> reading[g].version, at |-> now]
  /\ Answers(g, reading[g].version)
  /\ holder' = Nobody
  /\ UNCHANGED <<now, stocked, reads, missed>>

ReaderStep(g) == Enters(g) \/ Fetches(g) \/ Stores(g)

Next ==
  \/ TimePasses \/ ListChanges
  \/ \E g \in Readers : Asks(g) \/ ReaderStep(g) \/ FetchFails(g)
-----------------------------------------------------------------------------
(* Properties                                                              *)

\* Whoever fetches holds the mutex, and nothing is in the copy that was not on
\* the server.
TypeOK ==
  /\ \A g \in Readers : /\ reading[g].at \in {"idle", "queue", "fetch", "store"}
                        /\ reading[g].at \in {"fetch", "store"} <=> holder = g
  /\ copy.version <= stocked /\ copy.at <= now

\* One refresh at a time: no request, whether it refreshes, finds the refresh
\* of another or is served the old copy, is answered with an older list than
\* was shown before it was made.
NeverGoesBack ==
  /\ copy.version >= seen
  /\ \A g \in Readers :
       reading[g].at = "store" => reading[g].version >= reading[g].floor

\* The mutex is held by somebody who is at it.
NobodyIsStranded ==
  holder # Nobody => reading[holder].at \in {"fetch", "store"}
=============================================================================
