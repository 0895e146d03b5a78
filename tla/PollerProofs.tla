----------------------------- MODULE PollerProofs -----------------------------
(***************************************************************************)
(* What the poller's belief is worth for any threshold and any periods,    *)
(* and what a watch that reads it may say of the process.                  *)
(*                                                                         *)
(* The argument rests on two facts about the history of polls.  Trailing:  *)
(* failures is the length of the run of failures the history ends in.      *)
(* Standing: the flag of a refused token agrees with the last verdict, and *)
(* a tick gets to the credentials check only with a status that its own    *)
(* stats poll, or the refusal before it, has set.                          *)
(*                                                                         *)
(* The last part is about the poller with a power controller and a process *)
(* (PanelPower) in a steady world, and needs none of that.  Its invariant  *)
(* is Wired: until the process ends every poll is answered, so that a      *)
(* watch is shown nothing it could take for the end (Untroubled), and once *)
(* it ends, whose shutdown was sent is on record (Sent).                   *)
(***************************************************************************)
EXTENDS PanelPower, SequenceTheorems, TLAPS

Answers == {"answered", "failed"}

\* The failures are the last polls, and the one before them was answered.
Trailing ==
  /\ failures <= Len(lately)
  /\ \A i \in (Len(lately) - failures + 1)..Len(lately) : lately[i] = "failed"
  /\ failures < Len(lately) => lately[Len(lately) - failures] = "answered"

\* Offline is a matter of the count once there was an answer.
Counted ==
  /\ everAnswered => (status = "offline" <=> failures = FailureThreshold)
  /\ pc = "credentials" => everAnswered /\ status # "offline"

\* What status, flag and error say of the history.
Standing ==
  /\ tokenRefused <=> lastVerdict = "refused"
  /\ tokenRefused => lastError # "none"
  /\ status = "online" => everAnswered /\ Last(lately) = "answered" /\ ~tokenRefused
  /\ status = "offline" => lastError = "failed" /\ Last(lately) = "failed"
  /\ status = "unauthorized" => tokenRefused
  /\ pc = "credentials" /\ status = "unauthorized" => Last(lately) = "answered"

-----------------------------------------------------------------------------
(***************************************************************************)
(* The bounded history.                                                    *)
(***************************************************************************)

LEMMA BoundedIsSeq ==
  ASSUME NEW S, NEW n \in Nat, NEW s
  PROVE  s \in BoundedSeq(S, n) <=> s \in Seq(S) /\ Len(s) <= n
<1>1. ASSUME s \in BoundedSeq(S, n)
      PROVE  s \in Seq(S) /\ Len(s) <= n
  <2>1. PICK m \in 0..n : s \in [1..m -> S]
    BY <1>1 DEF BoundedSeq, SeqOf
  <2>2. s \in Seq(S)
    BY <2>1, SeqDef
  <2>3. Len(s) = m
    BY <2>1, <2>2, LenProperties
  <2>4. QED
    BY <2>1, <2>2, <2>3
<1>2. ASSUME s \in Seq(S), Len(s) <= n
      PROVE  s \in BoundedSeq(S, n)
  <2>1. Len(s) \in 0..n /\ s \in [1..Len(s) -> S]
    BY <1>2, LenProperties
  <2>2. QED
    BY <2>1 DEF BoundedSeq, SeqOf
<1>3. QED
  BY <1>1, <1>2

\* One more answer: it comes last, and what is kept of the others moves up.
LEMMA RememberStep ==
  ASSUME TypeOK, NEW answer \in Answers, Remember(answer)
  PROVE  /\ lately' \in BoundedSeq(Answers, FailureThreshold)
         /\ Len(lately') = Capped(Len(lately) + 1, FailureThreshold)
         /\ lately'[Len(lately')] = answer
         /\ \A i \in 1..(Len(lately') - 1) :
              lately'[i] = lately[i + Len(lately) + 1 - Len(lately')]
<1> DEFINE all == Append(lately, answer)
           keeps == Len(all) > FailureThreshold
<1>1. FailureThreshold \in Nat \ {0}
  BY PollerAssumption
<1>2. lately \in Seq(Answers) /\ Len(lately) \in Nat /\ Len(lately) <= FailureThreshold
  BY <1>1, BoundedIsSeq, LenProperties DEF TypeOK, Answers
<1>3. /\ all \in Seq(Answers)
      /\ Len(all) = Len(lately) + 1
      /\ all[Len(lately) + 1] = answer
      /\ \A i \in 1..Len(lately) : all[i] = lately[i]
  BY <1>2
<1>4. lately' = IF keeps THEN Tail(all) ELSE all
  BY DEF Remember
<1> HIDE DEF all
<1>5. CASE keeps
  <2>1. all # <<>>
    BY <1>2, <1>3
  <2>2. lately' = Tail(all)
    BY <1>4, <1>5
  <2>3. /\ lately' \in Seq(Answers)
        /\ Len(lately') = Len(lately)
        /\ \A i \in 1..Len(lately) : lately'[i] = all[i + 1]
    BY <1>2, <1>3, <2>1, <2>2, HeadTailProperties
  <2>4. Len(lately) = FailureThreshold
    BY <1>1, <1>2, <1>3, <1>5
  <2>5. lately' \in BoundedSeq(Answers, FailureThreshold)
    BY <1>1, <2>3, <2>4, BoundedIsSeq
  <2>6. Len(lately') = Capped(Len(lately) + 1, FailureThreshold)
    BY <1>1, <2>3, <2>4 DEF Capped
  <2>7. lately'[Len(lately')] = answer
    BY <1>1, <1>3, <2>3, <2>4
  <2>8. ASSUME NEW i \in 1..(Len(lately') - 1)
        PROVE  lately'[i] = lately[i + Len(lately) + 1 - Len(lately')]
    <3>1. i \in 1..Len(lately) /\ i + 1 \in 1..Len(lately)
      BY <1>2, <2>3, <2>8
    <3>2. i + Len(lately) + 1 - Len(lately') = i + 1
      BY <1>2, <2>3, <3>1
    <3>3. QED
      BY <1>3, <2>3, <3>1, <3>2
  <2>9. QED
    BY <2>5, <2>6, <2>7, <2>8
<1>6. CASE ~keeps
  <2>1. lately' = all
    BY <1>4, <1>6
  <2>2. lately' \in BoundedSeq(Answers, FailureThreshold)
    BY <1>1, <1>3, <1>6, <2>1, BoundedIsSeq
  <2>3. Len(lately') = Capped(Len(lately) + 1, FailureThreshold)
    BY <1>1, <1>2, <1>3, <1>6, <2>1 DEF Capped
  <2>4. QED
    BY <1>2, <1>3, <2>1, <2>2, <2>3
<1>7. QED
  BY <1>5, <1>6

-----------------------------------------------------------------------------
(***************************************************************************)
(* Types.                                                                  *)
(***************************************************************************)

LEMMA TypeInit == Init => TypeOK
<1> SUFFICES ASSUME Init
             PROVE  TypeOK
  OBVIOUS
<1>1. lately \in BoundedSeq(Answers, FailureThreshold)
  <2>1. FailureThreshold \in Nat /\ 0 <= FailureThreshold
    BY PollerAssumption
  <2>2. <<>> \in Seq(Answers) /\ Len(<<>>) = 0
    BY EmptySeq
  <2>3. <<>> \in BoundedSeq(Answers, FailureThreshold)
    BY <2>1, <2>2, BoundedIsSeq
  <2>4. QED
    BY <2>3 DEF Init
<1>2. DOMAIN age = Resources /\ \A r \in Resources : age[r] \in 0..Every[r]
  BY PollerAssumption DEF Init
<1>3. sampleOf \in [Samples -> 0..MaxBoots]
  BY PollerAssumption DEF Init
<1>4. boot \in 1..MaxBoots /\ failures \in 0..FailureThreshold
  BY PollerAssumption DEF Init
<1>5. QED
  BY <1>1, <1>2, <1>3, <1>4
     DEF Init, TypeOK, Locations, Statuses, FirstStatus, Answers

LEMMA TypeStep == TypeOK /\ [Next]_vars => TypeOK'
<1> SUFFICES ASSUME TypeOK, [Next]_vars
             PROVE  TypeOK'
  OBVIOUS
<1> USE PollerAssumption DEF Locations, Statuses
<1>1. CASE Tick
  <2>1. DOMAIN age' = Resources /\ \A r \in Resources : age'[r] \in 0..Every[r]
    BY <1>1 DEF Tick, TypeOK, Capped
  <2>2. QED
    BY <1>1, <2>1 DEF Tick, TypeOK, env, history
<1>2. CASE StatsAnswered
  <2>1. lately' \in BoundedSeq(Answers, FailureThreshold)
    BY <1>2, RememberStep DEF StatsAnswered, Answers
  <2>2. QED
    BY <1>2, <2>1 DEF StatsAnswered, TypeOK, env, Answers, Resources
<1>3. CASE StatsFailed
  <2>1. lately' \in BoundedSeq(Answers, FailureThreshold)
    BY <1>3, RememberStep DEF StatsFailed, Answers
  <2>2. failures' \in 0..FailureThreshold
    BY <1>3 DEF StatsFailed, TypeOK, Capped
  <2>3. QED
    BY <1>3, <2>1, <2>2 DEF StatsFailed, TypeOK, env, Answers, Resources
<1>4. CASE CredentialsNotDue
  BY <1>4 DEF CredentialsNotDue, AfterCredentials, TypeOK, env, believed, history,
              Resources, Samples
<1>5. ASSUME CheckCredentials
      PROVE  DOMAIN age' = Resources /\ \A r \in Resources : age'[r] \in 0..Every[r]
  BY <1>5 DEF CheckCredentials, TypeOK
<1>6. CASE TokenAccepted
  BY <1>5, <1>6 DEF TokenAccepted, CheckCredentials, AfterCredentials, TypeOK, env,
                    Resources, Samples
<1>7. CASE TokenRefused
  BY <1>5, <1>7 DEF TokenRefused, CheckCredentials, TypeOK, env
<1>8. CASE CredentialsInconclusive
  BY <1>5, <1>8 DEF CredentialsInconclusive, CheckCredentials, AfterCredentials,
                    TypeOK, env, Resources, Samples
<1>9. ASSUME NEW s \in Samples, SampleNotDue(s) \/ SampleTaken(s) \/ SampleFailed(s)
      PROVE  TypeOK'
  <2>1. NextRequest[s] \in Locations
    BY DEF NextRequest, Samples, Resources
  <2>2. CASE SampleTaken(s)
    <3>1. DOMAIN age' = Resources /\ \A r \in Resources : age'[r] \in 0..Every[r]
      BY <2>2 DEF SampleTaken, TypeOK
    <3>2. sampleOf' \in [Samples -> 0..MaxBoots]
      BY <2>2 DEF SampleTaken, TypeOK
    <3>3. QED
      BY <2>1, <2>2, <3>1, <3>2 DEF SampleTaken, TypeOK, env, history
  <2>3. CASE SampleNotDue(s) \/ SampleFailed(s)
    BY <2>1, <2>3 DEF SampleNotDue, SampleFailed, TypeOK, env, believed, history
  <2>4. QED
    BY <1>9, <2>2, <2>3
<1>10. CASE NetChanges \/ TokenChanges \/ Reboots
  <2>1. net' \in {"answering", "flaky", "down"} /\ boot' \in 1..MaxBoots
    BY <1>10 DEF NetChanges, TokenChanges, Reboots, TypeOK
  <2>2. tokenGood' \in BOOLEAN
    BY <1>10 DEF NetChanges, TokenChanges, Reboots, TypeOK
  <2>3. UNCHANGED <<pc, believed, history>>
    BY <1>10 DEF NetChanges, TokenChanges, Reboots
  <2>4. QED
    BY <2>1, <2>2, <2>3 DEF TypeOK, believed, history
<1>11. CASE UNCHANGED vars
  BY <1>11 DEF TypeOK, vars, env, believed, history
<1>12. QED
  BY <1>1, <1>2, <1>3, <1>4, <1>6, <1>7, <1>8, <1>9, <1>10, <1>11
     DEF Next, PollerStep

\* Every variable of the poller and of its history keeps its type.
THEOREM TypeCorrect == Spec => []TypeOK
<1>1. QED
  BY TypeInit, TypeStep, PTL DEF Spec

-----------------------------------------------------------------------------
(***************************************************************************)
(* The poller's own steps, by what they do to the history: two polls of    *)
(* the stats endpoint, two verdicts about the token, and the others.       *)
(***************************************************************************)

LatelyKept == UNCHANGED <<failures, everAnswered, lately>>

LEMMA LatelyIsSeq ==
  ASSUME TypeOK
  PROVE  /\ FailureThreshold \in Nat \ {0}
         /\ lately \in Seq(Answers)
         /\ Len(lately) \in 0..FailureThreshold
         /\ failures \in 0..FailureThreshold
<1>1. FailureThreshold \in Nat \ {0}
  BY PollerAssumption
<1>2. lately \in Seq(Answers) /\ Len(lately) <= FailureThreshold
  BY <1>1, BoundedIsSeq DEF TypeOK, Answers
<1>3. Len(lately) \in Nat
  BY <1>2, LenProperties
<1>4. QED
  BY <1>1, <1>2, <1>3 DEF TypeOK

\* Only the two polls and the two verdicts touch what is counted or believed; no
\* other step leads to the credentials check.
LEMMA WhatSteps ==
  ASSUME TypeOK, [Next]_vars
  PROVE  \/ StatsAnswered \/ StatsFailed
         \/ TokenAccepted \/ TokenRefused
         \/ /\ LatelyKept
            /\ UNCHANGED <<status, tokenRefused, lastError, lastVerdict>>
            /\ pc' = "credentials" => pc = "credentials"
<1> DEFINE Quiet == /\ LatelyKept
                    /\ UNCHANGED <<status, tokenRefused, lastError, lastVerdict>>
                    /\ pc' = "credentials" => pc = "credentials"
<1> USE DEF LatelyKept, env, believed, history
<1>1. CASE Tick
  BY <1>1 DEF Tick
<1>2. CASE CredentialsNotDue
  BY <1>2 DEF CredentialsNotDue
<1>3. CASE CredentialsInconclusive
  BY <1>3 DEF CredentialsInconclusive, CheckCredentials
<1>4. ASSUME NEW s \in Samples, SampleNotDue(s) \/ SampleTaken(s) \/ SampleFailed(s)
      PROVE  Quiet
  <2>1. NextRequest[s] # "credentials"
    BY DEF NextRequest, Samples
  <2>2. pc' = NextRequest[s]
    BY <1>4 DEF SampleNotDue, SampleTaken, SampleFailed
  <2>3. LatelyKept /\ UNCHANGED <<status, tokenRefused, lastError, lastVerdict>>
    BY <1>4 DEF SampleNotDue, SampleTaken, SampleFailed
  <2>4. QED
    BY <2>1, <2>2, <2>3
<1>5. CASE NetChanges \/ TokenChanges \/ Reboots
  BY <1>5 DEF NetChanges, TokenChanges, Reboots
<1>6. CASE UNCHANGED vars
  BY <1>6 DEF vars
<1>7. QED
  BY <1>1, <1>2, <1>3, <1>4, <1>5, <1>6 DEF Next, PollerStep

-----------------------------------------------------------------------------
(***************************************************************************)
(* Offline is earned.                                                      *)
(***************************************************************************)

\* One more failure, in numbers: of a history of L answers that ends in f failures
\* there are M left, of which the last g failed.
LEMMA OneMoreFailure ==
  ASSUME NEW T \in Nat \ {0}, NEW L \in 0..T, NEW f \in 0..L,
         NEW M, M = Capped(L + 1, T), NEW g, g = Capped(f + 1, T)
  PROVE  /\ M \in Nat /\ g \in Nat /\ g <= M
         /\ \A i \in (M - g + 1)..(M - 1) : i \in 1..(M - 1)
                                             /\ i + L + 1 - M \in (L - f + 1)..L
         /\ g < M => /\ f < L
                     /\ M - g \in 1..(M - 1)
                     /\ M - g + L + 1 - M = L - f
<1>1. CASE L + 1 < T
  BY <1>1 DEF Capped
<1>2. CASE ~(L + 1 < T) /\ f + 1 < T
  BY <1>2 DEF Capped
<1>3. CASE ~(L + 1 < T) /\ ~(f + 1 < T)
  BY <1>3 DEF Capped
<1>4. QED
  BY <1>1, <1>2, <1>3

LEMMA TrailingStep == TypeOK /\ Trailing /\ [Next]_vars => Trailing'
<1> SUFFICES ASSUME TypeOK, Trailing, [Next]_vars
             PROVE  Trailing'
  OBVIOUS
<1>1. CASE StatsAnswered
  <2>1. failures' = 0 /\ lately'[Len(lately')] = "answered"
    BY <1>1, RememberStep DEF StatsAnswered, Answers
  <2>2. Len(lately') \in Nat
    BY <1>1, RememberStep, LatelyIsSeq DEF StatsAnswered, Answers, Capped
  <2>3. QED
    BY <2>1, <2>2 DEF Trailing
<1>2. CASE StatsFailed
  <2>1. failures' = Capped(failures + 1, FailureThreshold)
    BY <1>2 DEF StatsFailed
  <2>2. /\ Len(lately') = Capped(Len(lately) + 1, FailureThreshold)
        /\ lately'[Len(lately')] = "failed"
        /\ \A i \in 1..(Len(lately') - 1) :
             lately'[i] = lately[i + Len(lately) + 1 - Len(lately')]
    BY <1>2, RememberStep DEF StatsFailed, Answers
  <2>3. FailureThreshold \in Nat \ {0} /\ Len(lately) \in 0..FailureThreshold
        /\ failures \in 0..Len(lately)
    BY LatelyIsSeq DEF Trailing
  <2>4. /\ Len(lately') \in Nat /\ failures' \in Nat /\ failures' <= Len(lately')
        /\ \A i \in (Len(lately') - failures' + 1)..(Len(lately') - 1) :
             /\ i \in 1..(Len(lately') - 1)
             /\ i + Len(lately) + 1 - Len(lately')
                  \in (Len(lately) - failures + 1)..Len(lately)
        /\ failures' < Len(lately') =>
             /\ failures < Len(lately)
             /\ Len(lately') - failures' \in 1..(Len(lately') - 1)
             /\ Len(lately') - failures' + Len(lately) + 1 - Len(lately')
                  = Len(lately) - failures
    BY <2>1, <2>2, <2>3, OneMoreFailure
  <2>5. ASSUME NEW i \in (Len(lately') - failures' + 1)..Len(lately')
        PROVE  lately'[i] = "failed"
    <3>1. CASE i = Len(lately')
      BY <2>2, <3>1
    <3>2. CASE i # Len(lately')
      <4>1. i \in (Len(lately') - failures' + 1)..(Len(lately') - 1)
        BY <2>4, <3>2
      <4>2. QED
        BY <2>2, <2>4, <4>1 DEF Trailing
    <3>3. QED
      BY <3>1, <3>2
  <2>6. ASSUME failures' < Len(lately')
        PROVE  lately'[Len(lately') - failures'] = "answered"
    <3> DEFINE at == Len(lately') - failures'
    <3>1. /\ failures < Len(lately)
          /\ at \in 1..(Len(lately') - 1)
          /\ at + Len(lately) + 1 - Len(lately') = Len(lately) - failures
      BY <2>4, <2>6
    <3>2. lately'[at] = lately[at + Len(lately) + 1 - Len(lately')]
      BY <2>2, <3>1
    <3>3. QED
      BY <3>1, <3>2 DEF Trailing
  <2>7. QED
    BY <2>4, <2>5, <2>6 DEF Trailing
<1>3. CASE UNCHANGED <<failures, lately>>
  BY <1>3 DEF Trailing
<1>4. QED
  BY <1>1, <1>2, <1>3, WhatSteps
     DEF LatelyKept, TokenAccepted, TokenRefused, CheckCredentials

LEMMA CountedStep == TypeOK /\ Counted /\ [Next]_vars => Counted'
<1> SUFFICES ASSUME TypeOK, Counted, [Next]_vars
             PROVE  Counted'
  OBVIOUS
<1> USE LatelyIsSeq DEF Counted
<1>1. CASE StatsAnswered
  BY <1>1 DEF StatsAnswered
<1>2. CASE StatsFailed
  BY <1>2 DEF StatsFailed, Capped
<1>3. CASE TokenAccepted
  BY <1>3 DEF TokenAccepted, CheckCredentials, AfterCredentials
<1>4. CASE TokenRefused
  BY <1>4 DEF TokenRefused, CheckCredentials
<1>5. CASE LatelyKept /\ UNCHANGED status /\ (pc' = "credentials" => pc = "credentials")
  BY <1>5 DEF LatelyKept
<1>6. QED
  BY <1>1, <1>2, <1>3, <1>4, <1>5, WhatSteps

\* state.go, pollStats: a server that has ever answered is called offline just
\* while its last FailureThreshold polls all failed, for every threshold.
THEOREM OfflineAlwaysEarned == Spec => []OfflineIsEarned
<1> DEFINE IInv == TypeOK /\ Trailing /\ Counted
<1>1. Init => IInv
  <2>1. Init => Trailing
    <3>1. Len(<<>>) = 0
      BY EmptySeq
    <3>2. QED
      BY <3>1 DEF Init, Trailing
  <2>2. Init => Counted
    BY DEF Init, Counted
  <2>3. QED
    BY <2>1, <2>2, TypeInit
<1>2. IInv /\ [Next]_vars => IInv'
  BY TypeStep, TrailingStep, CountedStep
<1>3. IInv => OfflineIsEarned
  <2> SUFFICES ASSUME TypeOK, Trailing, Counted, everAnswered
               PROVE  status = "offline"
                        <=> /\ Len(lately) = FailureThreshold
                            /\ \A i \in DOMAIN lately : lately[i] = "failed"
    BY DEF OfflineIsEarned
  <2>1. DOMAIN lately = 1..Len(lately)
    BY LatelyIsSeq, LenProperties
  <2>2. ASSUME failures = FailureThreshold
        PROVE  /\ Len(lately) = FailureThreshold
               /\ \A i \in DOMAIN lately : lately[i] = "failed"
    BY <2>1, <2>2, LatelyIsSeq DEF Trailing
  <2>3. ASSUME Len(lately) = FailureThreshold, failures # FailureThreshold
        PROVE  \E i \in DOMAIN lately : lately[i] = "answered"
    <3>1. Len(lately) - failures \in DOMAIN lately /\ failures < Len(lately)
      BY <2>1, <2>3, LatelyIsSeq
    <3>2. QED
      BY <3>1 DEF Trailing
  <2>4. QED
    BY <2>2, <2>3 DEF Counted
<1>4. QED
  BY <1>1, <1>2, <1>3, PTL DEF Spec

-----------------------------------------------------------------------------
(***************************************************************************)
(* Online is honest.                                                       *)
(***************************************************************************)

LEMMA StandingStep == TypeOK /\ Counted /\ Standing /\ [Next]_vars => Standing'
<1> SUFFICES ASSUME TypeOK, Counted, Standing, [Next]_vars
             PROVE  Standing'
  OBVIOUS
<1> USE DEF Standing, Last
<1>1. CASE StatsAnswered
  <2>1. Last(lately') = "answered"
    BY <1>1, RememberStep DEF StatsAnswered, Answers
  <2>2. QED
    BY <1>1, <2>1 DEF StatsAnswered
<1>2. CASE StatsFailed
  <2>1. Last(lately') = "failed"
    BY <1>2, RememberStep DEF StatsFailed, Answers
  <2>2. QED
    BY <1>2, <2>1 DEF StatsFailed
<1>3. CASE TokenAccepted
  BY <1>3 DEF TokenAccepted, CheckCredentials, AfterCredentials, Counted
<1>4. CASE TokenRefused
  BY <1>4 DEF TokenRefused, CheckCredentials
<1>5. CASE /\ LatelyKept
           /\ UNCHANGED <<status, tokenRefused, lastError, lastVerdict>>
           /\ pc' = "credentials" => pc = "credentials"
  BY <1>5 DEF LatelyKept
<1>6. QED
  BY <1>1, <1>2, <1>3, <1>4, <1>5, WhatSteps

\* state.go, dashboard.go, health.go: whatever the status and the pages made of
\* it claim about the last poll and the last verdict is so, for every threshold
\* and every period, however the world changes between two requests.
THEOREM OnlineAlwaysHonest == Spec => []OnlineIsHonest
<1> DEFINE IInv == TypeOK /\ Counted /\ Standing
<1>1. Init => IInv
  <2>1. Init => Counted /\ Standing
    BY DEF Init, Counted, Standing, FirstStatus
  <2>2. QED
    BY <2>1, TypeInit
<1>2. IInv /\ [Next]_vars => IInv'
  BY TypeStep, CountedStep, StandingStep
<1>3. IInv => OnlineIsHonest
  BY DEF Standing, OnlineIsHonest, Dashboard, Health, UptimeAt
<1>4. QED
  BY <1>1, <1>2, <1>3, PTL DEF Spec

-----------------------------------------------------------------------------
(***************************************************************************)
(* The controller wired to a poller and a process (PanelPower).            *)
(***************************************************************************)

\* Who sent a shutdown: whoever waits for its answer or had it carried out, and
\* whoever it is on account of that the process ended.
Sent ==
  /\ runPc = [r \in Power!Runs |-> runPc[r]]
  /\ \A r \in Power!Runs :
       /\ runPc[r] = "stopSent" => r \in sentStop
       /\ <<r, "shutdown">> \in carriedOut => r \in sentStop
  /\ went \subseteq sentStop /\ sentStop \subseteq Power!Runs

\* Whoever was started was started while the server was shown online.
Begun ==
  /\ starts \in Nat /\ (starts # 0 => starts \in Power!Runs)
  /\ starts = 0 => phase = "idle" /\ \A r \in Power!Runs : runPc[r] = "unborn"

\* Until the process ends nothing is amiss that a watch could take for its end:
\* every poll is answered, and once somebody saw the server online it stays so.
Untroubled ==
  /\ running /\ net = "answering" /\ tokenGood /\ ~tokenRefused
  /\ status \in {"unknown", "online"}
  /\ starts # 0 => status = "online"
  /\ sawItGo = {} /\ phase # "back" /\ (phase = "gone" => note = "neverWentDown")

Wired == Sent /\ Begun /\ (went = {} => Untroubled)

LEMMA WiredInit ==
  ASSUME PanelInit, steady
  PROVE  Wired
BY DEF PanelInit, Power!Init, Init, FirstStatus,
   Power!Runs, Wired, Sent, Begun, Untroubled

LEMMA SentStep ==
  ASSUME Sent, NEW r \in Power!Runs, Power!RunStep(r)
  PROVE  /\ runPc' = [s \in Power!Runs |-> runPc'[s]]
         /\ sentStop \subseteq sentStop' /\ sentStop' \subseteq Power!Runs
         /\ \A s \in Power!Runs :
              /\ runPc'[s] = "stopSent" => s \in sentStop'
              /\ <<s, "shutdown">> \in carriedOut' => s \in sentStop'
<1> USE DEF Sent, Power!Goto, Power!history, Power!status
<1>1. CASE Power!SendStop(r)
  BY <1>1 DEF Power!SendStop
<1>2. CASE Power!SaveAnswered(r)
  BY <1>2 DEF Power!SaveAnswered, Power!Answer
<1>3. CASE Power!StopAnswered(r)
  BY <1>3 DEF Power!StopAnswered, Power!Answer
<1>4. ASSUME UNCHANGED <<sentStop, carriedOut>>,
             \/ UNCHANGED runPc
             \/ \E there : runPc' = [runPc EXCEPT ![r] = there] /\ there # "stopSent"
      PROVE  /\ runPc' = [s \in Power!Runs |-> runPc'[s]]
             /\ sentStop \subseteq sentStop' /\ sentStop' \subseteq Power!Runs
             /\ \A s \in Power!Runs :
                  /\ runPc'[s] = "stopSent" => s \in sentStop'
                  /\ <<s, "shutdown">> \in carriedOut' => s \in sentStop'
  BY <1>4
<1>5. CASE Power!Sleep(r) \/ Power!SleepCutShort(r) \/ Power!Say(r)
  <2>1. UNCHANGED <<sentStop, carriedOut>>
    BY <1>5 DEF Power!Sleep, Power!SleepCutShort, Power!Say
  <2>2. \E there : runPc' = [runPc EXCEPT ![r] = there] /\ there # "stopSent"
    BY <1>5 DEF Power!Sleep, Power!SleepCutShort, Power!Say
  <2>3. QED
    BY <1>4, <2>1, <2>2
<1>6. CASE \/ Power!CallOff(r) \/ Power!SayOff(r) \/ Power!Return(r)
           \/ Power!Fail(r) \/ Power!SetWatching(r)
  <2>1. UNCHANGED <<sentStop, carriedOut>>
    BY <1>6 DEF Power!CallOff, Power!SayOff, Power!Return,
       Power!Fail, Power!SetWatching
  <2>2. \E there : runPc' = [runPc EXCEPT ![r] = there] /\ there # "stopSent"
    BY <1>6 DEF Power!CallOff, Power!SayOff, Power!Return,
       Power!Fail, Power!SetWatching
  <2>3. QED
    BY <1>4, <2>1, <2>2
<1>7. CASE Power!SetSaving(r) \/ Power!SendSave(r) \/ Power!SetStopping(r)
  <2>1. UNCHANGED <<sentStop, carriedOut>>
    BY <1>7 DEF Power!SetSaving, Power!SendSave, Power!SetStopping,
       Power!EnterPhase
  <2>2. \E there : runPc' = [runPc EXCEPT ![r] = there] /\ there # "stopSent"
    BY <1>7 DEF Power!SetSaving, Power!SendSave, Power!SetStopping,
       Power!EnterPhase
  <2>3. QED
    BY <1>4, <2>1, <2>2
<1>8. CASE Power!Look(r) \/ Power!SeeItBack(r) \/ Power!GiveUp(r)
  <2>1. UNCHANGED <<sentStop, carriedOut>>
    BY <1>8 DEF Power!Look, Power!SeeItBack, Power!GiveUp
  <2>2. UNCHANGED runPc \/ \E there : runPc' = [runPc EXCEPT ![r] = there] /\ there # "stopSent"
    BY <1>8 DEF Power!Look, Power!SeeItBack, Power!GiveUp
  <2>3. QED
    BY <1>4, <2>1, <2>2
<1>9. QED
  BY <1>1, <1>2, <1>3, <1>5, <1>6, <1>7, <1>8 DEF Power!RunStep

\* A run's step in an untroubled world: its watch sees nothing go, so that it says
\* nothing but that.
LEMMA UntroubledRun ==
  ASSUME Begun, Untroubled, NEW r \in Power!Runs, Power!RunStep(r)
  PROVE  /\ UNCHANGED starts /\ sawItGo' = {} /\ starts # 0
         /\ phase' # "back" /\ (phase' = "gone" => note' = "neverWentDown")
<1>1. runPc[r] # "unborn"
  BY DEF Power!RunStep, Power!Sleep, Power!SleepCutShort, Power!Say,
     Power!CallOff, Power!SayOff, Power!Return, Power!SetSaving,
     Power!SendSave, Power!SaveAnswered, Power!SetStopping,
     Power!SendStop, Power!StopAnswered, Power!Fail,
     Power!SetWatching, Power!Look, Power!SeeItBack, Power!GiveUp,
     Power!EnterPhase, Power!Answer
<1>2. starts # 0 /\ online
  BY <1>1 DEF Begun, Untroubled, online
<1>3. r \notin sawItGo /\ Power!Finding(r) = "neverWentDown"
  BY DEF Untroubled, Power!Finding
<1>4. ~Power!SeeItBack(r)
  BY <1>3 DEF Power!SeeItBack
<1>5. CASE Power!Look(r)
  BY <1>2, <1>5 DEF Power!Look, Power!status, Untroubled
<1>6. CASE Power!GiveUp(r)
  BY <1>2, <1>3, <1>6 DEF Power!GiveUp, Untroubled
<1>7. CASE \/ Power!Sleep(r) \/ Power!SleepCutShort(r) \/ Power!Say(r)
           \/ Power!CallOff(r) \/ Power!SayOff(r) \/ Power!Return(r)
           \/ Power!SetSaving(r) \/ Power!SendSave(r)
           \/ Power!SaveAnswered(r) \/ Power!SetStopping(r)
           \/ Power!SendStop(r) \/ Power!StopAnswered(r) \/ Power!Fail(r)
           \/ Power!SetWatching(r)
  BY <1>2, <1>7 DEF Untroubled, Power!Sleep, Power!SleepCutShort,
     Power!Say, Power!CallOff, Power!SayOff, Power!Return,
     Power!SetSaving, Power!SendSave, Power!SaveAnswered,
     Power!SetStopping, Power!SendStop, Power!StopAnswered,
     Power!Fail, Power!SetWatching, Power!EnterPhase, Power!Answer,
     Power!status
<1>8. QED
  BY <1>4, <1>5, <1>6, <1>7 DEF Power!RunStep

\* The controller's steps.
LEMMA WiredWhenItActs ==
  ASSUME Wired, PowerActs
  PROVE  Wired'
<1>1. /\ UNCHANGED <<net, tokenGood, tokenRefused, status, running, went>>
      /\ Power!ControllerStep /\ (starts' # starts => status = "online")
  BY DEF PowerActs, vars, processVars, env, believed, history, AskedWhenOnline, online
<1>2. ASSUME NEW i \in Power!Intents, NEW total \in Countdowns,
             Power!Start(i, total)
      PROVE  Wired'
  <2>1. /\ starts + 1 \in Power!Runs /\ starts' = starts + 1 /\ phase' = "countdown"
        /\ runPc' = [runPc EXCEPT ![starts + 1] = "sleeping"]
        /\ UNCHANGED <<sawItGo, carriedOut, sentStop>>
    BY <1>2 DEF Power!Start, Power!Goto, Power!history, Power!Runs
  <2>2. Sent' /\ Begun'
    BY <1>1, <2>1 DEF Wired, Sent, Begun
  <2>3. went' = {} => Untroubled'
    BY <1>1, <2>1 DEF Wired, Untroubled, Begun
  <2>4. QED
    BY <2>2, <2>3 DEF Wired
<1>3. ASSUME NEW c \in Callers, Power!CancelReads(c) \/ Power!CancelCalls(c)
      PROVE  Wired'
  <2>1. UNCHANGED <<starts, phase, note, runPc, sawItGo, carriedOut, sentStop>>
    BY <1>3 DEF Power!CancelReads, Power!CancelCalls, Power!status,
       Power!history
  <2>2. QED
    BY <1>1, <2>1 DEF Wired, Sent, Begun, Untroubled
<1>4. ASSUME NEW r \in Power!Runs, Power!RunStep(r)
      PROVE  Wired'
  <2>1. Sent'
    BY <1>1, <1>4, SentStep DEF Wired, Sent
  <2>2. UNCHANGED starts /\ starts # 0
    BY <1>4 DEF Wired, Begun, Power!RunStep, Power!Sleep,
       Power!SleepCutShort, Power!Say, Power!CallOff, Power!SayOff,
       Power!Return, Power!SetSaving, Power!SendSave,
       Power!SaveAnswered, Power!SetStopping, Power!SendStop,
       Power!StopAnswered, Power!Fail, Power!SetWatching,
       Power!Look, Power!SeeItBack, Power!GiveUp, Power!EnterPhase,
       Power!Answer
  <2>3. went' = {} => Untroubled'
    BY <1>1, <1>4, <2>2, UntroubledRun DEF Wired, Untroubled
  <2>4. QED
    BY <2>1, <2>2, <2>3 DEF Wired, Begun
<1>5. QED
  BY <1>1, <1>2, <1>3, <1>4 DEF Power!ControllerStep, Power!HandlerStep,
     Power!Runs

\* The poller's: in an untroubled world it is always answered, and never refused.
LEMMA WiredWhenItPolls ==
  ASSUME Wired, PollerActs
  PROVE  Wired'
<1>1. PollerStep /\ UNCHANGED <<running, went>>
  BY DEF PollerActs, processVars
<1>2. UNCHANGED <<phase, note, starts, runPc, sawItGo, carriedOut, sentStop>>
  BY DEF PollerActs, powerVars, Power!PollerReports, Power!status
<1>3. Sent' /\ Begun'
  BY <1>1, <1>2 DEF Wired, Sent, Begun
<1>4. ASSUME Untroubled PROVE Untroubled'
  <2> USE DEF Untroubled, env, believed, history,
              MayFail, MaySucceed
  <2>1. CASE Tick
    BY <1>1, <1>2, <1>4, <2>1 DEF Tick
  <2>2. CASE StatsAnswered
    BY <1>1, <1>2, <1>4, <2>2 DEF StatsAnswered
  <2>3. ~StatsFailed /\ ~TokenRefused
    BY <1>4 DEF StatsFailed, TokenRefused
  <2>4. CASE CredentialsNotDue
    BY <1>1, <1>2, <1>4, <2>4 DEF CredentialsNotDue
  <2>5. CASE TokenAccepted
    BY <1>1, <1>2, <1>4, <2>5 DEF TokenAccepted, CheckCredentials
  <2>6. ~CredentialsInconclusive
    BY <1>4 DEF CredentialsInconclusive
  <2>7. ASSUME NEW s, \/ SampleNotDue(s) \/ SampleTaken(s)
                      \/ SampleFailed(s)
        PROVE  Untroubled'
    <3>1. UNCHANGED <<net, tokenGood, status, tokenRefused>>
      BY <2>7 DEF SampleNotDue, SampleTaken, SampleFailed
    <3>2. QED
      BY <1>1, <1>2, <1>4, <3>1
  <2>8. QED
    BY <1>1, <2>1, <2>2, <2>3, <2>4, <2>5, <2>6, <2>7 DEF PollerStep
<1>5. QED
  BY <1>1, <1>3, <1>4 DEF Wired

LEMMA WiredStep ==
  ASSUME steady, Wired, [PanelNext]_panelVars
  PROVE  Wired'
<1>1. CASE ProcessEnds
  <2>1. /\ \E r \in Power!Runs \ went : <<r, "shutdown">> \in carriedOut
        /\ went' = went \cup sentStop
        /\ UNCHANGED <<phase, note, starts, runPc, carriedOut, sentStop, sawItGo>>
    BY <1>1 DEF ProcessEnds, powerVars, Power!Runs
  <2>2. Sent' /\ Begun' /\ went' # {}
    BY <2>1 DEF Wired, Sent, Begun
  <2>3. QED
    BY <2>2 DEF Wired
<1>2. CASE ProcessStarts
  <2>1. ~running /\ UNCHANGED <<phase, note, starts, runPc, carriedOut, sentStop, went>>
    BY <1>2 DEF ProcessStarts, powerVars
  <2>2. Sent' /\ Begun' /\ went' # {}
    BY <2>1 DEF Wired, Sent, Begun, Untroubled
  <2>3. QED
    BY <2>2 DEF Wired
<1>3. CASE NetworkChanges
  <2>1. /\ net' = "answering"
        /\ UNCHANGED <<tokenGood, tokenRefused, status, running, went, phase, note, starts,
                       runPc, carriedOut, sentStop, sawItGo>>
    BY <1>3 DEF NetworkChanges, NetChanges, believed, powerVars, processVars
  <2>2. QED
    BY <2>1 DEF Wired, Sent, Begun, Untroubled
<1>4. CASE UNCHANGED panelVars
  BY <1>4 DEF panelVars, powerVars, processVars, vars, env, believed, history, Wired, Sent,
              Begun, Untroubled
<1>5. ~PermissionsChange
  BY DEF PermissionsChange
<1>6. QED
  BY <1>1, <1>2, <1>3, <1>4, <1>5, WiredWhenItActs, WiredWhenItPolls DEF PanelNext

LEMMA WiredHolds ==
  ASSUME Wired, sentStop \subseteq {starts}
  PROVE  ClaimsOnlyWhatHappened
<1>1. CASE went = {}
  BY <1>1 DEF Wired, Untroubled, ClaimsOnlyWhatHappened
<1>2. CASE went # {}
  BY <1>2 DEF Wired, Sent, ClaimsOnlyWhatHappened
<1>3. QED
  BY <1>1, <1>2

LEMMA SteadyWired == PanelSpec => [](steady => Wired)
<1>1. PanelInit => (steady => Wired)
  BY WiredInit
<1>2. (steady => Wired) /\ [PanelNext]_panelVars => (steady => Wired)'
  <2> SUFFICES ASSUME steady => Wired, [PanelNext]_panelVars, steady'
               PROVE  Wired'
    OBVIOUS
  <2>1. steady
    BY DEF PanelNext, PowerActs, PollerActs, ProcessEnds, ProcessStarts, NetworkChanges,
           PermissionsChange, panelVars, processVars
  <2>2. QED
    BY <2>1, WiredStep
<1>3. QED
  BY <1>1, <1>2, PTL DEF PanelSpec

\* In a world where a process that runs answers every request, and ends only when
\* told to, the panel says of a server that it came back, was stopped or is gone
\* only if it did end after that sequence's shutdown was sent; unless an earlier
\* sequence sent one too, whose answer was lost and which took late.
THEOREM ClaimsAlwaysHappened ==
  PanelSpec => [](sentStop \subseteq {starts} => ClaimsOnlyWhatHappened)
<1>1. (steady => Wired) => (sentStop \subseteq {starts} => ClaimsOnlyWhatHappened)
  BY WiredHolds DEF ClaimsOnlyWhatHappened
<1>2. QED
  BY <1>1, SteadyWired, PTL

\* So it is of a panel's only sequence, with no exception.
THEOREM OneClaimAlwaysHappened ==
  ASSUME MaxRuns = 1
  PROVE  PanelSpec => []ClaimsOnlyWhatHappened
<1>1. (steady => Wired) => ClaimsOnlyWhatHappened
  <2> SUFFICES ASSUME Wired, starts # 0
               PROVE  ClaimsOnlyWhatHappened
    BY DEF Wired, Begun, ClaimsOnlyWhatHappened
  <2>1. starts = 1 /\ sentStop \subseteq {1}
    BY DEF Wired, Sent, Begun, Power!Runs
  <2>2. QED
    BY <2>1, WiredHolds
<1>2. QED
  BY <1>1, SteadyWired, PTL

-----------------------------------------------------------------------------
\* The panel runs the poller and the controller that were proved about: whatever a
\* sequence, a process and a network do beside it is the poller's own step, one of
\* the world it is ready for, or none, and so it is with the controller.  What is
\* proved of either alone is true of the panel.
THEOREM PanelRunsBoth == PanelSpec => Spec /\ Power!Spec
<1>1. PanelInit => Init /\ Power!Init
  BY DEF PanelInit
<1>2. [PanelNext]_panelVars => [Next]_vars
  BY DEF PanelNext, PowerActs, PollerActs, ProcessEnds, ProcessStarts, NetworkChanges,
         PermissionsChange, Next, NetChanges, TokenChanges, Reboots, vars, env, believed,
         history, panelVars
<1>3. [PanelNext]_panelVars => [Power!Next]_(Power!vars)
  <2> SUFFICES ASSUME [PanelNext]_panelVars
               PROVE  [Power!Next]_(Power!vars)
    OBVIOUS
  <2>1. CASE PowerActs
    BY <2>1 DEF PowerActs, Power!Next
  <2>2. CASE PollerActs
    BY <2>2 DEF PollerActs, Power!Next, powerVars, Power!vars, Power!status, Power!history, online
  <2>3. CASE UNCHANGED <<powerVars, status>>
    BY <2>3 DEF powerVars, Power!vars, Power!status, Power!history, online
  <2>4. QED
    BY <2>1, <2>2, <2>3
       DEF PanelNext, ProcessEnds, ProcessStarts, NetworkChanges, PermissionsChange, Reboots,
           NetChanges, TokenChanges, vars, believed, panelVars
<1>4. QED
  BY <1>1, <1>2, <1>3, PTL DEF PanelSpec, Spec, Power!Spec
=============================================================================
