-------------------------------- MODULE Poller --------------------------------
(***************************************************************************)
(* One server's poller (internal/state): a goroutine that asks the game    *)
(* server a few questions every tick and keeps the panel's belief about    *)
(* it, the Snapshot every other part of the panel reads.                   *)
(*                                                                         *)
(* A tick is a sequence of requests, each answered and recorded in one     *)
(* step; the game server, the network and the token's permissions change   *)
(* between any two of them.  Time is counted in ticks: a resource is due   *)
(* when its last answer is Every[resource] ticks old or there is none, so  *)
(* an age saturates there.                                                 *)
(*                                                                         *)
(* A definition marked "Variant" is no part of the specification: it is    *)
(* the definition after it with one plausible mistake.                     *)
(***************************************************************************)
EXTENDS Integers, Sequences, SequencesExt

CONSTANTS
  FailureThreshold,  \* consecutive stats failures that mean offline
  Every,             \* ticks between two samples, per resource
  MaxBoots           \* bound on how often the game server process starts

Samples == {"info", "uptime", "bloodmoon"}
Resources == Samples \cup {"credentials"}

ASSUME PollerAssumption ==
  /\ FailureThreshold \in Nat \ {0}
  /\ Every \in [Resources -> Nat \ {0}]
  /\ MaxBoots \in Nat \ {0}

VARIABLES
  net,           \* whether requests get an answer
  tokenGood,     \* whether the game server accepts the panel's token
  boot,          \* which start of the game server process this is
  pc,            \* the request the tick makes next, idle between ticks
  status,        \* Snapshot.Status
  failures,      \* Snapshot.ConsecutiveFailures, saturating at the threshold
  everAnswered,  \* ~Snapshot.StatsAt.IsZero()
  tokenRefused,  \* Snapshot.TokenRefused
  lastError,     \* Snapshot.LastError: "none", or what it is about
  age,           \* per resource: ticks since its timestamp, saturating
  sampleOf,      \* per sample: the process it was taken from, 0 for none
  \* History, read by no action:
  lately,        \* the last FailureThreshold stats polls, newest last
  lastVerdict    \* the last conclusive answer about the token

env == <<net, tokenGood, boot>>
believed == <<status, failures, everAnswered, tokenRefused, lastError, age, sampleOf>>
history == <<lately, lastVerdict>>
vars == <<env, pc, believed, history>>

Statuses == {"unknown", "online", "degraded", "offline", "unauthorized"}
Locations == {"idle", "stats"} \cup Resources

Capped(n, bound) == IF n < bound THEN n ELSE bound

\* A request may succeed, may fail.
MaySucceed == net # "down"
MayFail == net # "answering"

\* Variant: New leaves the snapshot at its zero value.
ZeroStatus == ""

FirstStatus == "unknown"

Init ==
  /\ net \in {"answering", "flaky", "down"}
  /\ tokenGood \in BOOLEAN
  /\ boot = 1
  /\ pc = "idle"
  /\ status = FirstStatus
  /\ failures = 0
  /\ everAnswered = FALSE
  /\ tokenRefused = FALSE
  /\ lastError = "none"
  /\ age = Every
  /\ sampleOf = [s \in Samples |-> 0]
  /\ lately = <<>>
  /\ lastVerdict = "none"

Remember(answer) ==
  lately' = LET all == Append(lately, answer)
            IN  IF Len(all) > FailureThreshold THEN Tail(all) ELSE all

\* The ticker fires (the first tick comes at once).
Tick ==
  /\ pc = "idle"
  /\ pc' = "stats"
  /\ age' = [r \in Resources |-> Capped(age[r] + 1, Every[r])]
  /\ UNCHANGED <<env, status, failures, everAnswered, tokenRefused, lastError,
                 sampleOf, history>>
-----------------------------------------------------------------------------
\* Variant: an answer is not held against an earlier refusal.
StatsAnsweredTrustsStats ==
  /\ pc = "stats"
  /\ MaySucceed
  /\ failures' = 0
  /\ everAnswered' = TRUE
  /\ lastError' = "none"
  /\ status' = "online"
  /\ Remember("answered")
  /\ pc' = "credentials"
  /\ UNCHANGED <<env, tokenRefused, age, sampleOf, lastVerdict>>

\* Variant: the failures are not forgotten when the server answers.
StatsAnsweredKeepsFailures ==
  /\ pc = "stats"
  /\ MaySucceed
  /\ everAnswered' = TRUE
  /\ lastError' = IF tokenRefused THEN lastError ELSE "none"
  /\ status' = IF tokenRefused THEN "unauthorized" ELSE "online"
  /\ Remember("answered")
  /\ pc' = "credentials"
  /\ UNCHANGED <<env, failures, tokenRefused, age, sampleOf, lastVerdict>>

\* Variant: a tick that finds the token refused ends before the recheck.
StatsAnsweredSkipsRecheck ==
  /\ pc = "stats"
  /\ MaySucceed
  /\ failures' = 0
  /\ everAnswered' = TRUE
  /\ lastError' = IF tokenRefused THEN lastError ELSE "none"
  /\ status' = IF tokenRefused THEN "unauthorized" ELSE "online"
  /\ Remember("answered")
  /\ pc' = IF tokenRefused THEN "idle" ELSE "credentials"
  /\ UNCHANGED <<env, tokenRefused, age, sampleOf, lastVerdict>>

\* pollStats, answered.  The endpoint needs no token, so a refused one keeps
\* the status from being online.
StatsAnswered ==
  /\ pc = "stats"
  /\ MaySucceed
  /\ failures' = 0
  /\ everAnswered' = TRUE
  /\ lastError' = IF tokenRefused THEN lastError ELSE "none"
  /\ status' = IF tokenRefused THEN "unauthorized" ELSE "online"
  /\ Remember("answered")
  /\ pc' = "credentials"
  /\ UNCHANGED <<env, tokenRefused, age, sampleOf, lastVerdict>>

\* pollStats, failed.  A tick that finds the server offline stops here.
StatsFailed ==
  LET n == failures + 1
      s == IF ~everAnswered \/ n >= FailureThreshold
             THEN "offline" ELSE "degraded"
  IN  /\ pc = "stats"
      /\ MayFail
      /\ failures' = Capped(n, FailureThreshold)
      /\ lastError' = "failed"
      /\ status' = s
      /\ Remember("failed")
      /\ pc' = IF s = "offline" THEN "idle" ELSE "credentials"
      /\ UNCHANGED <<env, everAnswered, tokenRefused, age, sampleOf,
                     lastVerdict>>
-----------------------------------------------------------------------------
\* Past the credentials check the tick goes on unless the token is refused.
AfterCredentials(s) == IF s = "unauthorized" THEN "idle" ELSE "info"

CredentialsNotDue ==
  /\ pc = "credentials"
  /\ age["credentials"] < Every["credentials"]
  /\ pc' = AfterCredentials(status)
  /\ UNCHANGED <<env, believed, history>>

CheckCredentials ==
  /\ pc = "credentials"
  /\ age["credentials"] >= Every["credentials"]
  /\ age' = [age EXCEPT !["credentials"] = 0]
  /\ UNCHANGED <<env, failures, everAnswered, sampleOf, lately>>

\* pollCredentials, accepted: only a status this check had set is lifted.
TokenAccepted ==
  /\ CheckCredentials
  /\ MaySucceed
  /\ tokenGood
  /\ tokenRefused' = FALSE
  /\ lastVerdict' = "accepted"
  /\ status' = IF status = "unauthorized" THEN "online" ELSE status
  /\ UNCHANGED lastError
  /\ pc' = AfterCredentials(status')

\* pollCredentials, refused (401 or 403).
TokenRefused ==
  /\ CheckCredentials
  /\ MaySucceed
  /\ ~tokenGood
  /\ tokenRefused' = TRUE
  /\ lastVerdict' = "refused"
  /\ lastError' = "refused"
  /\ status' = "unauthorized"
  /\ pc' = "idle"

\* pollCredentials, any other error: only the time of the check is kept.
CredentialsInconclusive ==
  /\ CheckCredentials
  /\ MayFail
  /\ UNCHANGED <<status, tokenRefused, lastError, lastVerdict>>
  /\ pc' = AfterCredentials(status)
-----------------------------------------------------------------------------
NextRequest == [info |-> "uptime", uptime |-> "bloodmoon", bloodmoon |-> "idle"]

SampleNotDue(s) ==
  /\ pc = s
  /\ age[s] < Every[s]
  /\ pc' = NextRequest[s]
  /\ UNCHANGED <<env, believed, history>>

\* pollInfo, pollUptime, pollBloodmoon: the cached answer is replaced.
SampleTaken(s) ==
  /\ pc = s
  /\ age[s] >= Every[s]
  /\ MaySucceed
  /\ tokenGood
  /\ age' = [age EXCEPT ![s] = 0]
  /\ sampleOf' = [sampleOf EXCEPT ![s] = boot]
  /\ pc' = NextRequest[s]
  /\ UNCHANGED <<env, status, failures, everAnswered, tokenRefused, lastError,
                 history>>

\* They fail, or bring a log without a readable uptime: nothing is kept, and
\* the sample stays due.
SampleFailed(s) ==
  /\ pc = s
  /\ age[s] >= Every[s]
  /\ MayFail \/ ~tokenGood
  /\ pc' = NextRequest[s]
  /\ UNCHANGED <<env, believed, history>>
-----------------------------------------------------------------------------
(***************************************************************************)
(* The game server, outside the panel.                                     *)
(***************************************************************************)

NetChanges ==
  /\ net' \in {"answering", "flaky", "down"}
  /\ UNCHANGED <<tokenGood, boot, pc, believed, history>>

TokenChanges ==
  /\ tokenGood' = ~tokenGood
  /\ UNCHANGED <<net, boot, pc, believed, history>>

Reboots ==
  /\ boot < MaxBoots
  /\ boot' = boot + 1
  /\ UNCHANGED <<net, tokenGood, pc, believed, history>>

PollerStep ==
  \/ Tick
  \/ StatsAnswered \/ StatsFailed
  \/ CredentialsNotDue \/ TokenAccepted \/ TokenRefused
  \/ CredentialsInconclusive
  \/ \E s \in Samples : SampleNotDue(s) \/ SampleTaken(s) \/ SampleFailed(s)

Next == PollerStep \/ NetChanges \/ TokenChanges \/ Reboots

Spec == Init /\ [][Next]_vars

\* "While the server is answering, the last sample is extrapolated forward".
UptimeAt ==
  IF sampleOf["uptime"] = 0 THEN "none"
  ELSE IF status = "online" THEN "counting" ELSE "frozen"

\* What the dashboard makes of the snapshot: the figures are marked as old unless
\* the server is online.
Dashboard ==
  [stale |-> ~everAnswered \/ status # "online", uptime |-> UptimeAt, error |-> lastError]

\* What the health page makes of it: "a single blip is not worth alarming about".
Health ==
  [status |-> status,
   error |-> IF status \in {"offline", "unauthorized"} THEN lastError ELSE "none"]
-----------------------------------------------------------------------------
TypeOK ==
  /\ net \in {"answering", "flaky", "down"}
  /\ tokenGood \in BOOLEAN
  /\ boot \in 1..MaxBoots
  /\ pc \in Locations
  /\ status \in Statuses
  /\ failures \in 0..FailureThreshold
  /\ everAnswered \in BOOLEAN
  /\ tokenRefused \in BOOLEAN
  /\ lastError \in {"none", "failed", "refused"}
  /\ DOMAIN age = Resources /\ \A r \in Resources : age[r] \in 0..Every[r]
  /\ sampleOf \in [Samples -> 0..MaxBoots]
  /\ lately \in BoundedSeq({"answered", "failed"}, FailureThreshold)
  /\ lastVerdict \in {"none", "accepted", "refused"}

\* Offline is earned: a server that has ever answered is called offline just
\* while its last FailureThreshold polls all failed.
OfflineIsEarned ==
  everAnswered =>
    (status = "offline" <=> /\ Len(lately) = FailureThreshold
                            /\ \A i \in DOMAIN lately : lately[i] = "failed")

\* Online is honest: the last stats poll was answered, and the last answer
\* about the token was not a refusal, however often the network, the token
\* or the server changed in between.  So are the pages made of the snapshot:
\* figures that are not marked as old, or an uptime that goes on counting, are of
\* a server whose last poll was answered; who is called offline is so for the
\* reason that stands beside it, who is refused never stands there without one.
OnlineIsHonest ==
  /\ status = "online" => Last(lately) = "answered" /\ lastVerdict # "refused"
  /\ ~Dashboard.stale \/ Dashboard.uptime = "counting" => Last(lately) = "answered"
  /\ status = "offline" => Health.error = "failed" /\ Last(lately) = "failed"
  /\ status = "unauthorized" => Health.error # "none"

\* Once the world holds still the panel comes to believe what is so, and no
\* sample of an earlier server process survives.
Converges ==
  /\ <>[](net = "down") => <>[](status = "offline")
  /\ <>[](net = "answering" /\ ~tokenGood) => <>[](status = "unauthorized")
  /\ <>[](net = "answering" /\ tokenGood)
       => <>[](status = "online" /\ \A s \in Samples : sampleOf[s] = boot)
=============================================================================
