----------------------------- MODULE PowerProofs -----------------------------
(***************************************************************************)
(* What the power controller guarantees for any number of runs, callers,   *)
(* countdown lengths and looks.                                            *)
(*                                                                         *)
(* The argument rests on Ownership: runs are created in order, only the    *)
(* newest can be in charge of the status, and the phase is a function of   *)
(* where that run is.  The other invariants follow one run at a time.      *)
(***************************************************************************)
EXTENDS PowerController, TLAPS

\* The phase a run leaves the status in, by where the run is.
PhaseFits(p, there) ==
  /\ there \in CountingDown => p = "countdown"
  /\ there \in Saving => p = "saving"
  /\ there \in Stopping => p = "stopping"
  /\ there = "failing" => p \in {"saving", "stopping"}
  /\ there = "watching" => p = "watching"
  /\ there \in Leaving => p \in Resting \ {"idle"}

Ownership ==
  /\ \A r \in Runs : /\ r > starts => pc[r] = "unborn"
                     /\ r < starts => pc[r] \in Leaving
                     /\ r = starts => pc[r] # "unborn"
  /\ starts = 0 => phase = "idle" /\ cancelFn = NoRun
  /\ starts # 0 => PhaseFits(phase, pc[starts])
  /\ cancelFn \in {NoRun, starts}

\* What a run has done to the server, by where it is.
SaidAndDone ==
  \A r \in Runs :
    /\ pc[r] \in {"counted"} \cup Saving \cup Stopping
         => due[r] = {} /\ remaining[r] = 0
    /\ pc[r] \in {"saved"} \cup Stopping => <<r, "saveworld">> \in carriedOut
    /\ r \in sentStop => pc[r] \notin {"unborn"} \cup CountingDown

Untouched(r) == r \notin sentStop /\ \A p \in carriedOut : p[1] # r

CalledOffUntouched ==
  /\ \A r \in Runs : pc[r] \in {"unborn"} \cup CountingDown => Untouched(r)
  /\ CancelledTouchedNothing

\* What a watch has seen, against what the snapshot really was.
SeenIsTrue ==
  /\ sawItGo \subseteq offAir
  /\ \A r \in Runs : pc[r] = "watching" /\ ~online => r \in offAir
  /\ OutcomeIsHonest

\* The type invariant is inductive as it stands.
LEMMA TypeInit == Init => TypeOK
  BY PowerAssumption
     DEF Init, TypeOK, Phases, Resting, Notes, Runs, NoRun, Intents,
         Locations, Leaving, CountingDown, Saving, Stopping, candidates

LEMMA LatestIsMember ==
  ASSUME NEW S \in SUBSET candidates, S # {}
  PROVE  Latest(S) \in S
<1> DEFINE IsLatest(m) == m \in S /\ \A n \in S : n <= m
<1> USE DEF candidates
<1>1. CASE 60 \in S
  <2>1. IsLatest(60)
    BY <1>1
  <2>2. QED
    BY <2>1 DEF Latest
<1>2. CASE 60 \notin S /\ 30 \in S
  <2>1. IsLatest(30)
    BY <1>2
  <2>2. QED
    BY <2>1 DEF Latest
<1>3. CASE S \subseteq {15, 10, 5, 1} /\ 15 \in S
  <2>1. IsLatest(15)
    BY <1>3
  <2>2. QED
    BY <2>1 DEF Latest
<1>4. CASE S \subseteq {10, 5, 1} /\ 10 \in S
  <2>1. IsLatest(10)
    BY <1>4
  <2>2. QED
    BY <2>1 DEF Latest
<1>5. CASE S \subseteq {5, 1} /\ 5 \in S
  <2>1. IsLatest(5)
    BY <1>5
  <2>2. QED
    BY <2>1 DEF Latest
<1>6. CASE S \subseteq {1}
  <2>1. PICK n \in S : TRUE
    OBVIOUS
  <2>2. n = 1
    BY <1>6
  <2>3. IsLatest(1)
    BY <1>6, <2>2
  <2>4. QED
    BY <2>3 DEF Latest
<1>7. QED
  BY <1>1, <1>2, <1>3, <1>4, <1>5, <1>6

LEMMA TypeStep == TypeOK /\ [Next]_vars => TypeOK'
<1> SUFFICES ASSUME TypeOK, [Next]_vars
             PROVE  TypeOK'
  OBVIOUS
<1> USE PowerAssumption
    DEF TypeOK, Phases, Resting, Notes, Runs, NoRun, Intents, Locations,
        Leaving, CountingDown, Saving, Stopping, Goto, status, history
<1>1. ASSUME NEW i \in Intents, NEW total \in Countdowns, Start(i, total)
      PROVE  TypeOK'
  BY <1>1 DEF Start, warningsFor, candidates
<1>2. ASSUME NEW c \in Callers, CancelReads(c)
      PROVE  TypeOK'
  BY <1>2 DEF CancelReads
<1>3. ASSUME NEW c \in Callers, CancelCalls(c)
      PROVE  TypeOK'
  <2>1. held[c] \in Runs
    BY <1>3 DEF CancelCalls
  <2>2. cancelled' \subseteq Runs
    BY <1>3, <2>1 DEF CancelCalls
  <2>3. QED
    BY <1>3, <2>2 DEF CancelCalls
<1>4. ASSUME NEW r \in Runs, Sleep(r)
      PROVE  TypeOK'
  <2>1. CASE due[r] # {}
    <3>1. Latest(due[r]) \in due[r]
      BY <2>1, LatestIsMember
    <3>2. Latest(due[r]) \in 0..60
      <4>1. due[r] \subseteq candidates
        OBVIOUS
      <4>2. QED
        BY <3>1, <4>1 DEF candidates
    <3>3. due' \in [Runs -> SUBSET candidates]
      BY <1>4, <2>1 DEF Sleep
    <3>4. remaining' \in [Runs -> 0..60]
      BY <1>4, <2>1, <3>2 DEF Sleep
    <3>5. QED
      BY <1>4, <2>1, <3>3, <3>4 DEF Sleep
  <2>2. CASE due[r] = {}
    <3>0. 0 \in 0..60
      OBVIOUS
    <3>1. remaining' \in [Runs -> 0..60]
      BY <1>4, <2>2, <3>0 DEF Sleep
    <3>2. QED
      BY <1>4, <2>2, <3>1 DEF Sleep
  <2>3. QED
    BY <2>1, <2>2
<1>5. ASSUME NEW r \in Runs, SleepCutShort(r) \/ Say(r) \/ SayOff(r)
      PROVE  TypeOK'
  <2>1. PICK there \in Locations : pc' = [pc EXCEPT ![r] = there]
    BY <1>5 DEF SleepCutShort, Say, SayOff
  <2>2. pc' \in [Runs -> Locations]
    BY <2>1
  <2>3. QED
    BY <1>5, <2>2 DEF SleepCutShort, Say, SayOff
<1>6. ASSUME NEW r \in Runs, CallOff(r) \/ Return(r)
      PROVE  TypeOK'
  <2>1. CASE CallOff(r)
    BY <2>1 DEF CallOff
  <2>2. CASE Return(r)
    BY <2>2 DEF Return
  <2>3. QED
    BY <1>6, <2>1, <2>2
<1>7. ASSUME NEW r \in Runs, SetSaving(r) \/ SetStopping(r) \/ SetWatching(r)
      PROVE  TypeOK'
  <2>1. PICK there \in {"saving", "stopping", "watching"} :
          phase' = there /\ pc' = [pc EXCEPT ![r] = there]
    BY <1>7 DEF SetSaving, SetStopping, SetWatching, EnterPhase
  <2>2. there \in Locations /\ there \in Phases
    OBVIOUS
  <2>3. pc' \in [Runs -> Locations]
    BY <2>1, <2>2
  <2>4. phase' \in Phases
    BY <2>1, <2>2
  <2>5. offAir' \in {offAir, offAir \cup {r}}
    BY <1>7 DEF SetSaving, SetStopping, SetWatching, EnterPhase
  <2>6. offAir' \subseteq Runs
    BY <2>5
  <2>7. UNCHANGED <<note, cancelFn, starts, intent, cancelled, remaining, due,
                    looks, sawItGo, held, online, carriedOut, sentStop>>
    BY <1>7 DEF SetSaving, SetStopping, SetWatching, EnterPhase
  <2>8. QED
    BY <2>3, <2>4, <2>6, <2>7
<1>8. ASSUME NEW r \in Runs, SendSave(r) \/ SendStop(r)
      PROVE  TypeOK'
  <2>1. PICK there \in {"saveSent", "stopSent", "failing"} :
          pc' = [pc EXCEPT ![r] = there]
    BY <1>8 DEF SendSave, SendStop
  <2>2. pc' \in [Runs -> Locations]
    BY <2>1
  <2>3. sentStop' \subseteq Runs
    BY <1>8 DEF SendSave, SendStop
  <2>4. QED
    BY <1>8, <2>2, <2>3 DEF SendSave, SendStop
<1>9. ASSUME NEW r \in Runs, SaveAnswered(r) \/ StopAnswered(r)
      PROVE  TypeOK'
  <2>1. carriedOut' \subseteq Runs \X {"saveworld", "shutdown"}
    BY <1>9 DEF SaveAnswered, StopAnswered, Answer
  <2>2. pc' \in [Runs -> Locations]
    BY <1>9 DEF SaveAnswered, StopAnswered, Answer
  <2>3. QED
    BY <1>9, <2>1, <2>2 DEF SaveAnswered, StopAnswered, Answer
<1>10. ASSUME NEW r \in Runs, Fail(r) \/ SeeItBack(r) \/ GiveUp(r)
       PROVE  TypeOK'
  <2>1. CASE Fail(r)
    BY <2>1 DEF Fail
  <2>2. CASE SeeItBack(r)
    BY <2>2 DEF SeeItBack
  <2>3. CASE GiveUp(r)
    BY <2>3 DEF GiveUp, Finding
  <2>4. QED
    BY <1>10, <2>1, <2>2, <2>3
<1>11. ASSUME NEW r \in Runs, Look(r)
       PROVE  TypeOK'
  <2>1. looks[r] + 1 \in 0..Looks
    BY <1>11 DEF Look
  <2>2. looks' \in [Runs -> 0..Looks]
    BY <1>11, <2>1 DEF Look
  <2>3. QED
    BY <1>11, <2>2 DEF Look
<1>12. CASE PollerReports
  BY <1>12 DEF PollerReports
<1>13. CASE UNCHANGED vars
  BY <1>13 DEF vars
<1>14. QED
  BY <1>1, <1>2, <1>3, <1>4, <1>5, <1>6, <1>7, <1>8, <1>9, <1>10, <1>11,
     <1>12, <1>13
     DEF Next, ControllerStep, HandlerStep, RunStep

\* The controller's state always has its type.
THEOREM TypeCorrect == Spec => []TypeOK
<1>1. Init => TypeOK
  BY TypeInit
<1>2. TypeOK /\ [Next]_vars => TypeOK'
  BY TypeStep
<1>3. QED
  BY <1>1, <1>2, PTL DEF Spec
-----------------------------------------------------------------------------
(***************************************************************************)
(* Ownership.                                                              *)
(***************************************************************************)

\* A run in charge is the newest one, and the phase is the one it set.
LEMMA DriverIsNewest ==
  ASSUME TypeOK, Ownership, NEW r \in Runs, Driving(r)
  PROVE  r = starts /\ starts # 0 /\ PhaseFits(phase, pc[r])
<1>1. r = starts
  BY DEF TypeOK, Ownership, Driving, Runs
<1>2. starts # 0
  BY <1>1 DEF Runs
<1>3. QED
  BY <1>1, <1>2 DEF Ownership

LEMMA OwnershipInit == Init => Ownership
  BY DEF Init, Ownership, Runs, NoRun

\* A step of a run in charge that leaves the phase where its new location
\* wants it keeps ownership.
LEMMA RunKeepsOwnership ==
  ASSUME TypeOK, Ownership, NEW r \in Runs, Driving(r),
         NEW there, pc' = [pc EXCEPT ![r] = there], there # "unborn",
         PhaseFits(phase', there),
         UNCHANGED <<starts, cancelFn>>
  PROVE  Ownership'
<1>1. r = starts /\ starts # 0
  BY DriverIsNewest
<1>2. pc'[r] = there /\ \A q \in Runs : q # r => pc'[q] = pc[q]
  BY DEF TypeOK
<1>3. QED
  BY <1>1, <1>2 DEF Ownership

\* A step of a run in its tail that leaves the status alone does, too.
LEMMA TailKeepsOwnership ==
  ASSUME TypeOK, Ownership, NEW r \in Runs, pc[r] \in Leaving,
         NEW there \in Leaving, pc' = [pc EXCEPT ![r] = there],
         UNCHANGED <<starts, phase>>,
         cancelFn' \in {NoRun, cancelFn}
  PROVE  Ownership'
<1>1. r <= starts
  BY DEF Ownership, Leaving, TypeOK, Runs
<1>2. pc'[r] = there /\ \A q \in Runs : q # r => pc'[q] = pc[q]
  BY DEF TypeOK
<1>3. starts # 0
  BY <1>1 DEF Runs, TypeOK
<1>4. \A q \in Runs : /\ q > starts => pc'[q] = "unborn"
                      /\ q < starts => pc'[q] \in Leaving
                      /\ q = starts => pc'[q] # "unborn"
  BY <1>1, <1>2 DEF Ownership, Leaving, Runs, TypeOK
<1>5. PhaseFits(phase, pc'[starts])
  <2>1. CASE r = starts
    <3>1. PhaseFits(phase, pc[starts])
      BY <1>3 DEF Ownership
    <3>2. PhaseFits(phase, there)
      BY <2>1, <3>1 DEF PhaseFits, Leaving, CountingDown, Saving, Stopping
    <3>3. QED
      BY <2>1, <3>1, <3>2, <1>2
  <2>2. CASE r # starts
    BY <2>2, <1>2, <1>3 DEF Ownership, TypeOK, Runs
  <2>3. QED
    BY <2>1, <2>2
<1>6. cancelFn' \in {NoRun, starts}
  BY DEF Ownership
<1>7. starts' = starts /\ phase' = phase
  OBVIOUS
<1>8. /\ \A q \in Runs : /\ q > starts' => pc'[q] = "unborn"
                         /\ q < starts' => pc'[q] \in Leaving
                         /\ q = starts' => pc'[q] # "unborn"
      /\ starts' # 0
      /\ PhaseFits(phase', pc'[starts'])
      /\ cancelFn' \in {NoRun, starts'}
  BY <1>3, <1>4, <1>5, <1>6, <1>7
<1>9. QED
  BY <1>8 DEF Ownership, Leaving

LEMMA OwnershipStep == TypeOK /\ Ownership /\ [Next]_vars => Ownership'
<1> SUFFICES ASSUME TypeOK, Ownership, [Next]_vars
             PROVE  Ownership'
  OBVIOUS
<1> USE DEF Goto
<1>1. ASSUME NEW i \in Intents, NEW total \in Countdowns, Start(i, total)
      PROVE  Ownership'
  <2> DEFINE new == starts + 1
  <2>1. new \in Runs /\ starts' = new /\ starts' # 0 /\ cancelFn' = new
    BY <1>1 DEF Start, Runs, TypeOK
  <2>2. pc'[new] = "sleeping" /\ \A q \in Runs : q # new => pc'[q] = pc[q]
    BY <1>1, <2>1 DEF Start, TypeOK
  <2>3. starts # 0 => pc[starts] \in Leaving
    <3>1. SUFFICES ASSUME starts # 0, pc[starts] \notin Leaving
                   PROVE  FALSE
      OBVIOUS
    <3>2. starts \in Runs
      BY <3>1 DEF TypeOK, Runs
    <3>3. Driving(starts)
      BY <3>1, <3>2 DEF Driving, Ownership
    <3>4. PhaseFits(phase, pc[starts]) /\ pc[starts] \in Locations
      BY <3>2, <3>3, DriverIsNewest DEF TypeOK
    <3>5. phase \notin Resting
      BY <3>1, <3>3, <3>4
         DEF Driving, PhaseFits, Resting, Locations, CountingDown, Saving,
             Stopping, Leaving
    <3>6. QED
      BY <1>1, <3>5 DEF Start
  <2>4. \A q \in Runs : /\ q > new => pc'[q] = "unborn"
                        /\ q < new => pc'[q] \in Leaving
                        /\ q = new => pc'[q] # "unborn"
    BY <2>1, <2>2, <2>3 DEF Ownership, TypeOK, Runs
  <2>5. PhaseFits(phase', pc'[new])
    BY <1>1, <2>2
       DEF Start, PhaseFits, CountingDown, Saving, Stopping, Leaving
  <2>6. /\ \A q \in Runs : /\ q > starts' => pc'[q] = "unborn"
                           /\ q < starts' => pc'[q] \in Leaving
                           /\ q = starts' => pc'[q] # "unborn"
        /\ starts' # 0
        /\ PhaseFits(phase', pc'[starts'])
        /\ cancelFn' \in {NoRun, starts'}
    BY <2>1, <2>4, <2>5
  <2>7. QED
    BY <2>6 DEF Ownership, Leaving
<1>2. ASSUME NEW c \in Callers, CancelReads(c) \/ CancelCalls(c)
      PROVE  Ownership'
  BY <1>2 DEF CancelReads, CancelCalls, Ownership, status
<1>3. ASSUME NEW r \in Runs, Sleep(r) \/ SleepCutShort(r) \/ Say(r)
      PROVE  Ownership'
  <2>1. PICK there \in CountingDown : pc' = [pc EXCEPT ![r] = there]
    BY <1>3 DEF Sleep, SleepCutShort, Say, CountingDown
  <2>2. pc[r] \in CountingDown /\ UNCHANGED <<phase, starts, cancelFn>>
    BY <1>3 DEF Sleep, SleepCutShort, Say, CountingDown, status
  <2>3. Driving(r)
    BY <2>2 DEF Driving, CountingDown, Leaving
  <2>4. PhaseFits(phase', there) /\ there # "unborn"
    <3>1. phase = "countdown"
      BY <2>2, <2>3, DriverIsNewest DEF PhaseFits, CountingDown
    <3>2. QED
      BY <3>1, <2>2
         DEF PhaseFits, CountingDown, Saving, Stopping, Leaving
  <2>5. QED
    BY <2>1, <2>2, <2>3, <2>4, RunKeepsOwnership
<1>4. ASSUME NEW r \in Runs, CallOff(r)
      PROVE  Ownership'
  <2>1. Driving(r)
    BY <1>4 DEF CallOff, Driving, Leaving
  <2>2. PhaseFits(phase', "sayingOff")
    BY <1>4 DEF CallOff, PhaseFits, CountingDown, Saving, Stopping, Leaving, Resting
  <2>3. QED
    BY <1>4, <2>1, <2>2, RunKeepsOwnership DEF CallOff
<1>5. ASSUME NEW r \in Runs, SayOff(r)
      PROVE  Ownership'
  BY <1>5, TailKeepsOwnership DEF SayOff, Leaving, status
<1>6. ASSUME NEW r \in Runs, Return(r)
      PROVE  Ownership'
  BY <1>6, TailKeepsOwnership DEF Return, Leaving, status
<1>7. ASSUME NEW r \in Runs, NEW from \in {"counted", "saved"},
             NEW to \in {"saving", "stopping"}, EnterPhase(r, from, to)
      PROVE  Ownership'
  <2>1. Driving(r)
    BY <1>7 DEF EnterPhase, Driving, Leaving
  <2>2. PhaseFits(phase', to)
    BY <1>7 DEF EnterPhase, PhaseFits, CountingDown, Saving, Stopping, Leaving
  <2>3. QED
    BY <1>7, <2>1, <2>2, RunKeepsOwnership DEF EnterPhase
<1>8. ASSUME NEW r \in Runs,
             SendSave(r) \/ SendStop(r) \/ SaveAnswered(r) \/ StopAnswered(r)
      PROVE  Ownership'
  <2>1. PICK there \in Saving \cup Stopping \cup {"failing"} :
          /\ pc' = [pc EXCEPT ![r] = there]
          /\ pc[r] \in Saving => there \in Saving \cup {"failing"}
          /\ pc[r] \in Stopping => there \in Stopping \cup {"failing"}
    BY <1>8 DEF SendSave, SendStop, SaveAnswered, StopAnswered, Answer,
                Saving, Stopping
  <2>2. /\ pc[r] \in Saving \cup Stopping
        /\ UNCHANGED <<phase, starts, cancelFn>>
    BY <1>8 DEF SendSave, SendStop, SaveAnswered, StopAnswered, Answer,
                Saving, Stopping, status
  <2>3. Driving(r)
    BY <2>2 DEF Driving, Saving, Stopping, Leaving
  <2>4. PhaseFits(phase, pc[r])
    BY <2>3, DriverIsNewest
  <2>5. PhaseFits(phase', there) /\ there # "unborn"
    <3>1. CASE pc[r] \in Saving
      <4>1. phase = "saving"
        BY <3>1, <2>4 DEF PhaseFits, CountingDown, Saving
      <4>2. QED
        BY <3>1, <4>1, <2>1, <2>2
           DEF PhaseFits, CountingDown, Saving, Stopping, Leaving
    <3>2. CASE pc[r] \in Stopping
      <4>1. phase = "stopping"
        BY <3>2, <2>4 DEF PhaseFits, CountingDown, Saving, Stopping
      <4>2. QED
        BY <3>2, <4>1, <2>1, <2>2
           DEF PhaseFits, CountingDown, Saving, Stopping, Leaving
    <3>3. QED
      BY <3>1, <3>2, <2>2
  <2>6. QED
    BY <2>1, <2>2, <2>3, <2>5, RunKeepsOwnership
<1>9. ASSUME NEW r \in Runs, Fail(r) \/ SeeItBack(r) \/ GiveUp(r)
      PROVE  Ownership'
  <2>1. Driving(r)
    BY <1>9 DEF Fail, SeeItBack, GiveUp, Driving, Leaving
  <2>2. PhaseFits(phase', "returning")
    BY <1>9 DEF Fail, SeeItBack, GiveUp, PhaseFits, CountingDown, Saving,
                Stopping, Leaving, Resting
  <2>3. /\ pc' = [pc EXCEPT ![r] = "returning"]
        /\ UNCHANGED <<starts, cancelFn>>
    BY <1>9 DEF Fail, SeeItBack, GiveUp
  <2>4. QED
    BY <2>1, <2>2, <2>3, RunKeepsOwnership
<1>10. ASSUME NEW r \in Runs, SetWatching(r)
       PROVE  Ownership'
  <2>1. Driving(r)
    BY <1>10 DEF SetWatching, Driving, Leaving
  <2>2. PhaseFits(phase', "watching")
    BY <1>10 DEF SetWatching, PhaseFits, CountingDown, Saving, Stopping, Leaving
  <2>3. QED
    BY <1>10, <2>1, <2>2, RunKeepsOwnership DEF SetWatching
<1>11. ASSUME NEW r \in Runs, Look(r)
       PROVE  Ownership'
  BY <1>11 DEF Look, Ownership, status
<1>12. CASE PollerReports
  BY <1>12 DEF PollerReports, Ownership, status
<1>13. CASE UNCHANGED vars
  BY <1>13 DEF vars, status, Ownership
<1>14. QED
  BY <1>1, <1>2, <1>3, <1>4, <1>5, <1>6, <1>7, <1>8, <1>9, <1>10, <1>11,
     <1>12, <1>13
     DEF Next, ControllerStep, HandlerStep, RunStep, SetSaving, SetStopping

LEMMA OwnershipGivesOne == TypeOK /\ Ownership => OneSequence
<1> SUFFICES ASSUME TypeOK, Ownership
             PROVE  OneSequence
  OBVIOUS
<1>1. ASSUME NEW r \in Runs, NEW s \in Runs, Driving(r), Driving(s)
      PROVE  r = s
  BY <1>1, DriverIsNewest
<1>2. ASSUME NEW r \in Runs, Driving(r)
      PROVE  phase \notin Resting
  <2>1. PhaseFits(phase, pc[r]) /\ pc[r] \in Locations
    BY <1>2, DriverIsNewest DEF TypeOK
  <2>2. QED
    BY <1>2, <2>1 DEF PhaseFits, Driving, Locations, Leaving, CountingDown,
                      Saving, Stopping, Resting
<1>3. ASSUME phase \notin Resting
      PROVE  \E r \in Runs : Driving(r)
  <2>1. starts # 0
    BY <1>3 DEF Ownership, Resting
  <2>2. starts \in Runs
    BY <2>1 DEF TypeOK, Runs
  <2>3. pc[starts] \notin Leaving
    BY <1>3, <2>1 DEF Ownership, PhaseFits
  <2>4. Driving(starts)
    BY <2>2, <2>3 DEF Ownership, Driving
  <2>5. QED
    BY <2>2, <2>4
<1>4. cancelFn \in {NoRun, starts}
  BY DEF Ownership
<1>5. QED
  BY <1>1, <1>2, <1>3, <1>4 DEF OneSequence

LEMMA OwnershipAlways == Spec => [](TypeOK /\ Ownership)
<1>1. Init => TypeOK /\ Ownership
  BY TypeInit, OwnershipInit
<1>2. TypeOK /\ Ownership /\ [Next]_vars => (TypeOK /\ Ownership)'
  BY TypeStep, OwnershipStep
<1>3. QED
  BY <1>1, <1>2, PTL DEF Spec

\* Only one sequence at a time owns the status, the phase is a busy one just
\* while one does, and a stored CancelFunc belongs to the newest run.
THEOREM OneSequenceAtATime == Spec => []OneSequence
  BY OwnershipAlways, OwnershipGivesOne, PTL

-----------------------------------------------------------------------------
(***************************************************************************)
(* What a run does to the server.                                          *)
(***************************************************************************)

LEMMA SaidAndDoneStep ==
  TypeOK /\ Ownership /\ SaidAndDone /\ [Next]_vars => SaidAndDone'
<1> SUFFICES ASSUME TypeOK, Ownership, SaidAndDone, [Next]_vars
             PROVE  SaidAndDone'
  OBVIOUS
<1> USE DEF Goto, status, history
<1>1. ASSUME NEW i \in Intents, NEW total \in Countdowns, Start(i, total)
      PROVE  SaidAndDone'
  <2> DEFINE new == starts + 1
  <2>1. new \in Runs /\ pc[new] = "unborn"
    BY <1>1 DEF Start, Ownership, TypeOK, Runs
  <2>2. SUFFICES ASSUME NEW q \in Runs
                 PROVE  /\ pc'[q] \in {"counted"} \cup Saving \cup Stopping
                             => due'[q] = {} /\ remaining'[q] = 0
                        /\ pc'[q] \in {"saved"} \cup Stopping
                             => <<q, "saveworld">> \in carriedOut'
                        /\ q \in sentStop'
                             => pc'[q] \notin {"unborn"} \cup CountingDown
    BY DEF SaidAndDone
  <2>3. CASE q = new
    BY <1>1, <2>1, <2>3
       DEF Start, SaidAndDone, Saving, Stopping, CountingDown, TypeOK
  <2>4. CASE q # new
    BY <1>1, <2>1, <2>4 DEF Start, SaidAndDone, TypeOK
  <2>5. QED
    BY <2>3, <2>4
<1>2. ASSUME NEW c \in Callers, CancelReads(c) \/ CancelCalls(c)
      PROVE  SaidAndDone'
  BY <1>2 DEF CancelReads, CancelCalls, SaidAndDone
<1>3. ASSUME NEW r \in Runs, Sleep(r)
      PROVE  SaidAndDone'
  <2>1. CASE due[r] # {}
    BY <1>3, <2>1
       DEF Sleep, SaidAndDone, TypeOK, Saving, Stopping, CountingDown
  <2>2. CASE due[r] = {}
    BY <1>3, <2>2
       DEF Sleep, SaidAndDone, TypeOK, Saving, Stopping, CountingDown
  <2>3. QED
    BY <2>1, <2>2
<1>4. ASSUME NEW r \in Runs,
             \/ SleepCutShort(r) \/ Say(r) \/ CallOff(r) \/ SayOff(r)
             \/ Return(r)
      PROVE  SaidAndDone'
  BY <1>4 DEF SleepCutShort, Say, CallOff, SayOff, Return, SaidAndDone,
              TypeOK, Saving, Stopping, CountingDown
<1>5. ASSUME NEW r \in Runs, SetSaving(r) \/ SetStopping(r) \/ SetWatching(r)
      PROVE  SaidAndDone'
  BY <1>5 DEF SetSaving, SetStopping, SetWatching, EnterPhase, SaidAndDone,
              TypeOK, Saving, Stopping, CountingDown
<1>6. ASSUME NEW r \in Runs, SendSave(r)
      PROVE  SaidAndDone'
  BY <1>6 DEF SendSave, SaidAndDone, TypeOK, Saving, Stopping, CountingDown
<1>7. ASSUME NEW r \in Runs, SendStop(r)
      PROVE  SaidAndDone'
  BY <1>7 DEF SendStop, SaidAndDone, TypeOK, Saving, Stopping, CountingDown
<1>8. ASSUME NEW r \in Runs, SaveAnswered(r) \/ StopAnswered(r)
      PROVE  SaidAndDone'
  BY <1>8 DEF SaveAnswered, StopAnswered, Answer, SaidAndDone, TypeOK,
              Saving, Stopping, CountingDown
<1>9. ASSUME NEW r \in Runs, Fail(r) \/ Look(r) \/ SeeItBack(r) \/ GiveUp(r)
      PROVE  SaidAndDone'
  BY <1>9 DEF Fail, Look, SeeItBack, GiveUp, SaidAndDone, TypeOK, Saving,
              Stopping, CountingDown
<1>10. CASE PollerReports
  BY <1>10 DEF PollerReports, SaidAndDone
<1>11. CASE UNCHANGED vars
  BY <1>11 DEF vars, SaidAndDone
<1>12. QED
  BY <1>1, <1>2, <1>3, <1>4, <1>5, <1>6, <1>7, <1>8, <1>9, <1>10, <1>11
     DEF Next, ControllerStep, HandlerStep, RunStep

LEMMA SaidAndDoneInit == Init => SaidAndDone /\ SavedBeforeStop
  BY DEF Init, SaidAndDone, SavedBeforeStop, Saving, Stopping

\* Once sent, a run's stop stays after its warnings and its save.
LEMMA SavedBeforeStopStep ==
  TypeOK /\ Ownership /\ SaidAndDone /\ SavedBeforeStop /\ [Next]_vars
    => SavedBeforeStop'
<1> SUFFICES ASSUME TypeOK, Ownership, SaidAndDone, SavedBeforeStop, [Next]_vars,
                    NEW q \in sentStop'
             PROVE  /\ due'[q] = {}
                    /\ remaining'[q] = 0
                    /\ <<q, "saveworld">> \in carriedOut'
  BY DEF SavedBeforeStop
<1> USE DEF Goto, status, history
<1>1. CASE q \notin sentStop
  <2>1. PICK r \in Runs : SendStop(r)
    BY <1>1 DEF Next, ControllerStep, HandlerStep, RunStep, Start,
                CancelReads, CancelCalls, Sleep, SleepCutShort, Say, CallOff,
                SayOff, Return, SetSaving, SetStopping, EnterPhase, SendSave,
                SaveAnswered, StopAnswered, Answer, Fail, SetWatching, Look,
                SeeItBack, GiveUp, PollerReports, vars
  <2>2. q = r /\ pc[q] \in Stopping
    BY <1>1, <2>1 DEF SendStop, Stopping
  <2>3. UNCHANGED <<due, remaining, carriedOut>>
    BY <2>1 DEF SendStop
  <2>4. QED
    BY <2>1, <2>2, <2>3 DEF SaidAndDone, Stopping
<1>2. CASE q \in sentStop
  <2>1. /\ due[q] = {} /\ remaining[q] = 0
        /\ <<q, "saveworld">> \in carriedOut
        /\ pc[q] \notin {"unborn"} \cup CountingDown
        /\ q \in Runs
    BY <1>2 DEF SavedBeforeStop, SaidAndDone, TypeOK
  <2>2. carriedOut \subseteq carriedOut'
    BY DEF Next, ControllerStep, HandlerStep, RunStep, Start,
           CancelReads, CancelCalls, Sleep, SleepCutShort, Say, CallOff,
           SayOff, Return, SetSaving, SetStopping, EnterPhase, SendSave,
           SendStop, SaveAnswered, StopAnswered, Answer, Fail, SetWatching,
           Look, SeeItBack, GiveUp, PollerReports, vars
  <2>3. ASSUME NEW i \in Intents, NEW total \in Countdowns, Start(i, total)
        PROVE  due'[q] = {} /\ remaining'[q] = 0
    <3>1. starts + 1 \in Runs /\ pc[starts + 1] = "unborn"
      BY <2>3 DEF Start, Ownership, TypeOK, Runs
    <3>2. q # starts + 1
      BY <2>1, <3>1
    <3>3. QED
      BY <2>1, <2>3, <3>2 DEF Start, TypeOK
  <2>4. ASSUME NEW r \in Runs, Sleep(r)
        PROVE  due'[q] = {} /\ remaining'[q] = 0
    <3>1. q # r
      BY <2>1, <2>4 DEF Sleep, CountingDown
    <3>2. QED
      BY <2>1, <2>4, <3>1 DEF Sleep, TypeOK
  <2>5. \/ \E i \in Intents, total \in Countdowns : Start(i, total)
        \/ \E r \in Runs : Sleep(r)
        \/ UNCHANGED <<due, remaining>>
    BY DEF Next, ControllerStep, HandlerStep, RunStep,
           CancelReads, CancelCalls, SleepCutShort, Say, CallOff,
           SayOff, Return, SetSaving, SetStopping, EnterPhase, SendSave,
           SendStop, SaveAnswered, StopAnswered, Answer, Fail, SetWatching,
           Look, SeeItBack, GiveUp, PollerReports, vars
  <2>6. QED
    BY <2>1, <2>2, <2>3, <2>4, <2>5
<1>3. QED
  BY <1>1, <1>2

LEMMA SaidAndDoneAlways ==
  Spec => [](TypeOK /\ Ownership /\ SaidAndDone /\ SavedBeforeStop)
<1> DEFINE IInv == TypeOK /\ Ownership /\ SaidAndDone /\ SavedBeforeStop
<1>1. Init => IInv
  BY TypeInit, OwnershipInit, SaidAndDoneInit
<1>2. IInv /\ [Next]_vars => IInv'
  BY TypeStep, OwnershipStep, SaidAndDoneStep, SavedBeforeStopStep
<1>3. QED
  BY <1>1, <1>2, PTL DEF Spec

\* No shutdown is sent before every warning was given, the announced time was
\* over and the game server had confirmed a saveworld of the same sequence.
THEOREM NoStopUnsaved == Spec => []SavedBeforeStop
  BY SaidAndDoneAlways, PTL
-----------------------------------------------------------------------------
(***************************************************************************)
(* What the status says of a run, against what the run did and saw.        *)
(***************************************************************************)

LEMMA CalledOffInit == Init => CalledOffUntouched
  BY DEF Init, CalledOffUntouched, Untouched, CancelledTouchedNothing

\* Only a run that is saving or stopping touches the game server.
LEMMA TouchedByWhom ==
  ASSUME TypeOK, [Next]_vars, NEW q \in Runs, Untouched(q), ~Untouched(q)'
  PROVE  pc[q] \in Saving \cup Stopping
<1> USE DEF Goto, status, history
<1>1. ASSUME NEW r \in Runs, SendStop(r)
      PROVE  pc[q] \in Saving \cup Stopping
  <2>1. sentStop' \subseteq sentStop \cup {r} /\ carriedOut' = carriedOut
    BY <1>1 DEF SendStop
  <2>2. q = r
    BY <2>1 DEF Untouched
  <2>3. QED
    BY <1>1, <2>2 DEF SendStop, Stopping
<1>2. ASSUME NEW r \in Runs, SaveAnswered(r) \/ StopAnswered(r)
      PROVE  pc[q] \in Saving \cup Stopping
  <2>1. sentStop' = sentStop /\ \A p \in carriedOut' : p \in carriedOut \/ p[1] = r
    BY <1>2 DEF SaveAnswered, StopAnswered, Answer
  <2>2. q = r
    BY <2>1 DEF Untouched
  <2>3. QED
    BY <1>2, <2>2 DEF SaveAnswered, StopAnswered, Answer, Saving, Stopping
<1>3. \/ \E r \in Runs : SendStop(r) \/ SaveAnswered(r) \/ StopAnswered(r)
      \/ UNCHANGED <<sentStop, carriedOut>>
  BY DEF Next, ControllerStep, HandlerStep, RunStep, Start, CancelReads,
         CancelCalls, Sleep, SleepCutShort, Say, CallOff, SayOff, Return,
         SetSaving, SetStopping, EnterPhase, SendSave, Fail, SetWatching,
         Look, SeeItBack, GiveUp, PollerReports, vars
<1>4. QED
  BY <1>1, <1>2, <1>3 DEF Untouched

LEMMA CalledOffStep ==
  TypeOK /\ Ownership /\ CalledOffUntouched /\ [Next]_vars
    => CalledOffUntouched'
<1> SUFFICES ASSUME TypeOK, Ownership, CalledOffUntouched, [Next]_vars
             PROVE  CalledOffUntouched'
  OBVIOUS
<1> USE DEF Goto, status, history
<1>1. ASSUME NEW q \in Runs, pc'[q] \in {"unborn"} \cup CountingDown
      PROVE  Untouched(q)'
  <2>1. pc[q] \in {"unborn"} \cup CountingDown
    <3>1. ASSUME NEW i \in Intents, NEW total \in Countdowns, Start(i, total)
          PROVE  pc[q] \in {"unborn"} \cup CountingDown
      <4>1. starts + 1 \in Runs /\ pc[starts + 1] = "unborn"
        BY <3>1 DEF Start, Ownership, TypeOK, Runs
      <4>2. q # starts + 1 => pc'[q] = pc[q]
        BY <3>1, <4>1 DEF Start, TypeOK
      <4>3. QED
        BY <1>1, <4>1, <4>2
    <3>2. ASSUME NEW r \in Runs, Sleep(r) \/ SleepCutShort(r) \/ Say(r)
          PROVE  pc[q] \in {"unborn"} \cup CountingDown
      BY <1>1, <3>2 DEF Sleep, SleepCutShort, Say, CountingDown, TypeOK
    <3>3. ASSUME NEW r \in Runs,
                 \/ CallOff(r) \/ SayOff(r) \/ Return(r) \/ Fail(r)
                 \/ SetSaving(r) \/ SendSave(r) \/ SaveAnswered(r)
                 \/ SetStopping(r) \/ SendStop(r) \/ StopAnswered(r)
                 \/ SetWatching(r) \/ SeeItBack(r) \/ GiveUp(r)
          PROVE  pc[q] \in {"unborn"} \cup CountingDown
      BY <1>1, <3>3
         DEF CallOff, SayOff, Return, Fail, SetSaving, SetStopping,
             EnterPhase, SendSave, SaveAnswered, SendStop, StopAnswered,
             Answer, SetWatching, SeeItBack, GiveUp, CountingDown, TypeOK
    <3>4. ASSUME pc' = pc
          PROVE  pc[q] \in {"unborn"} \cup CountingDown
      BY <1>1, <3>4
    <3>5. QED
      BY <3>1, <3>2, <3>3, <3>4
         DEF Next, ControllerStep, HandlerStep, RunStep, CancelReads,
             CancelCalls, Look, PollerReports, vars
  <2>2. Untouched(q)
    BY <2>1 DEF CalledOffUntouched
  <2>3. pc[q] \notin Saving \cup Stopping
    BY <2>1 DEF CountingDown, Saving, Stopping
  <2>4. QED
    BY <2>2, <2>3, TouchedByWhom
<1>2. ASSUME phase' = "cancelled"
      PROVE  Untouched(starts)'
  <2>1. starts' = starts
    BY <1>2 DEF Next, ControllerStep, HandlerStep, RunStep, Start,
                CancelReads, CancelCalls, Sleep, SleepCutShort, Say, CallOff,
                SayOff, Return, SetSaving, SetStopping, EnterPhase, SendSave,
                SendStop, SaveAnswered, StopAnswered, Answer, Fail,
                SetWatching, Look, SeeItBack, GiveUp, PollerReports, vars
  <2>2. phase = "cancelled" \/ \E r \in Runs : CallOff(r)
    BY <1>2 DEF Next, ControllerStep, HandlerStep, RunStep, Start,
                CancelReads, CancelCalls, Sleep, SleepCutShort, Say,
                SayOff, Return, SetSaving, SetStopping, EnterPhase, SendSave,
                SendStop, SaveAnswered, StopAnswered, Answer, Fail,
                SetWatching, Look, SeeItBack, GiveUp, PollerReports, vars
  <2>3. CASE phase = "cancelled"
    <3>1. starts # 0
      BY <2>3 DEF Ownership
    <3>2. starts \in Runs /\ pc[starts] \notin Saving \cup Stopping
      BY <2>3, <3>1 DEF Ownership, PhaseFits, TypeOK, Runs
    <3>3. Untouched(starts)
      BY <2>3 DEF CalledOffUntouched, CancelledTouchedNothing, Untouched
    <3>4. QED
      BY <2>1, <3>2, <3>3, TouchedByWhom DEF Untouched
  <2>4. ASSUME NEW r \in Runs, CallOff(r)
        PROVE  Untouched(starts)'
    <3>1. pc[r] \in CountingDown /\ UNCHANGED <<sentStop, carriedOut>>
      BY <2>4 DEF CallOff, CountingDown
    <3>2. r = starts
      BY <3>1, DriverIsNewest DEF Driving, CountingDown, Leaving
    <3>3. Untouched(r)
      BY <3>1 DEF CalledOffUntouched
    <3>4. QED
      BY <2>1, <3>1, <3>2, <3>3 DEF Untouched
  <2>5. QED
    BY <2>2, <2>3, <2>4
<1>3. QED
  BY <1>1, <1>2 DEF CalledOffUntouched, CancelledTouchedNothing, Untouched

\* A sequence reported as cancelled had sent nothing to the game server but
\* its announcements.
THEOREM CancelledMeansUntouched == Spec => []CancelledTouchedNothing
<1> DEFINE IInv == TypeOK /\ Ownership /\ CalledOffUntouched
<1>1. Init => IInv
  BY TypeInit, OwnershipInit, CalledOffInit
<1>2. IInv /\ [Next]_vars => IInv'
  BY TypeStep, OwnershipStep, CalledOffStep
<1>3. IInv => CancelledTouchedNothing
  BY DEF CalledOffUntouched
<1>4. QED
  BY <1>1, <1>2, <1>3, PTL DEF Spec

LEMMA SeenInit == Init => SeenIsTrue
  BY DEF Init, SeenIsTrue, OutcomeIsHonest

LEMMA SeenStep ==
  TypeOK /\ Ownership /\ SeenIsTrue /\ [Next]_vars => SeenIsTrue'
<1> SUFFICES ASSUME TypeOK, Ownership, SeenIsTrue, [Next]_vars
             PROVE  SeenIsTrue'
  OBVIOUS
<1> USE DEF Goto, status, history
<1>1. offAir \subseteq offAir'
  BY DEF Next, ControllerStep, HandlerStep, RunStep, Start, CancelReads,
         CancelCalls, Sleep, SleepCutShort, Say, CallOff, SayOff, Return,
         SetSaving, SetStopping, EnterPhase, SendSave, SendStop,
         SaveAnswered, StopAnswered, Answer, Fail, SetWatching, Look,
         SeeItBack, GiveUp, PollerReports, vars
<1>2. ASSUME NEW r \in Runs, Look(r)
      PROVE  SeenIsTrue'
  BY <1>2 DEF Look, SeenIsTrue, OutcomeIsHonest
<1>3. ASSUME NEW r \in Runs, SeeItBack(r) \/ GiveUp(r)
      PROVE  SeenIsTrue'
  <2>1. Driving(r)
    BY <1>3 DEF SeeItBack, GiveUp, Driving, Leaving
  <2>2. r = starts
    BY <2>1, DriverIsNewest
  <2>3. phase' = "gone" /\ note' # "neverWentDown" => r \in sawItGo
    BY <1>3 DEF SeeItBack, GiveUp, Finding
  <2>4. phase' = "back" => r \in sawItGo
    BY <1>3 DEF SeeItBack, GiveUp
  <2>5. OutcomeIsHonest'
    BY <1>3, <2>2, <2>3, <2>4 DEF SeeItBack, GiveUp, SeenIsTrue, OutcomeIsHonest
  <2>6. \A q \in Runs : pc'[q] = "watching" => pc[q] = "watching"
    BY <1>3 DEF SeeItBack, GiveUp, TypeOK
  <2>7. UNCHANGED <<sawItGo, offAir, online>>
    BY <1>3 DEF SeeItBack, GiveUp
  <2>8. QED
    BY <2>5, <2>6, <2>7 DEF SeenIsTrue
<1>4. ASSUME NEW r \in Runs, SetWatching(r)
      PROVE  SeenIsTrue'
  BY <1>4 DEF SetWatching, SeenIsTrue, OutcomeIsHonest, TypeOK
<1>5. CASE PollerReports
  BY <1>5 DEF PollerReports, SeenIsTrue, OutcomeIsHonest, TypeOK
<1>6. ASSUME UNCHANGED <<sawItGo, offAir, online>>,
             \A q \in Runs : pc'[q] = "watching" => pc[q] = "watching",
             OutcomeIsHonest'
      PROVE  SeenIsTrue'
  BY <1>6 DEF SeenIsTrue
<1>7. ASSUME NEW i \in Intents, NEW total \in Countdowns, Start(i, total)
      PROVE  SeenIsTrue'
  BY <1>6, <1>7 DEF Start, OutcomeIsHonest, TypeOK
<1>8. ASSUME NEW r \in Runs,
             \/ Sleep(r) \/ SleepCutShort(r) \/ Say(r)
             \/ CallOff(r) \/ SayOff(r) \/ Return(r)
             \/ SetSaving(r) \/ SendSave(r) \/ SaveAnswered(r)
             \/ SetStopping(r) \/ SendStop(r) \/ StopAnswered(r) \/ Fail(r)
      PROVE  SeenIsTrue'
  <2>1. UNCHANGED <<sawItGo, offAir, online, starts>>
    BY <1>8 DEF Sleep, SleepCutShort, Say, CallOff, SayOff, Return,
                SetSaving, SetStopping, EnterPhase, SendSave, SendStop,
                SaveAnswered, StopAnswered, Answer, Fail
  <2>2. \A q \in Runs : pc'[q] = "watching" => pc[q] = "watching"
    BY <1>8 DEF Sleep, SleepCutShort, Say, CallOff, SayOff, Return,
                SetSaving, SetStopping, EnterPhase, SendSave, SendStop,
                SaveAnswered, StopAnswered, Answer, Fail, TypeOK
  <2>3. phase' \in {"back", "gone"} => UNCHANGED <<phase, note>>
    BY <1>8 DEF Sleep, SleepCutShort, Say, CallOff, SayOff, Return,
                SetSaving, SetStopping, EnterPhase, SendSave, SendStop,
                SaveAnswered, StopAnswered, Answer, Fail
  <2>4. OutcomeIsHonest'
    BY <2>1, <2>3 DEF SeenIsTrue, OutcomeIsHonest
  <2>5. QED
    BY <1>6, <2>1, <2>2, <2>4
<1>9. ASSUME NEW c \in Callers, CancelReads(c) \/ CancelCalls(c)
      PROVE  SeenIsTrue'
  BY <1>9 DEF CancelReads, CancelCalls, SeenIsTrue, OutcomeIsHonest
<1>10. CASE UNCHANGED vars
  BY <1>10 DEF vars, SeenIsTrue, OutcomeIsHonest
<1>11. QED
  BY <1>2, <1>3, <1>4, <1>5, <1>7, <1>8, <1>9, <1>10
     DEF Next, ControllerStep, HandlerStep, RunStep

\* "Back", "stopped" and "nothing brought it back" are only said after the
\* snapshot really was off the air during that sequence's own watch.
THEOREM OutcomeAlwaysHonest == Spec => []OutcomeIsHonest
<1> DEFINE IInv == TypeOK /\ Ownership /\ SeenIsTrue
<1>1. Init => IInv
  BY TypeInit, OwnershipInit, SeenInit
<1>2. IInv /\ [Next]_vars => IInv'
  BY TypeStep, OwnershipStep, SeenStep
<1>3. IInv => OutcomeIsHonest
  BY DEF SeenIsTrue
<1>4. QED
  BY <1>1, <1>2, <1>3, PTL DEF Spec
=============================================================================
