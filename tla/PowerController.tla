--------------------------- MODULE PowerController ---------------------------
(***************************************************************************)
(* One server's power sequence (internal/power): warn the players, save,   *)
(* stop the server, then watch whether it comes back.                      *)
(*                                                                         *)
(* A sequence is a goroutine of its own, started under the controller's    *)
(* mutex and cancelled through a CancelFunc the controller stores.  The    *)
(* mutex covers single assignments only: between them the goroutine        *)
(* sleeps or waits on the network while Start and Cancel run, so every     *)
(* such gap is a separate action here.  Runs are numbered in the order     *)
(* Start created them.                                                     *)
(*                                                                         *)
(* A refused Start (destructive commands off, ErrBusy) and a refused       *)
(* Cancel change nothing and are not actions.  Times are minutes; the say  *)
(* of a warning takes no countdown time, exactly as in the code, where     *)
(* elapsed adds up the sleeps alone.                                       *)
(*                                                                         *)
(* A definition marked "Variant" is no part of the specification: it is    *)
(* the definition after it with one plausible mistake, kept to show that   *)
(* a property notices.                                                     *)
(***************************************************************************)
EXTENDS Integers, FiniteSets

CONSTANTS
  MaxRuns,          \* bound on how many sequences are ever started
  Callers,          \* HTTP requests that may be inside Cancel at once
  Countdowns,       \* the countdown lengths, in minutes, asked for
  Looks,            \* how many times watch looks before its deadline
  AllowDestructive  \* PANEL_ALLOW_DESTRUCTIVE

ASSUME PowerAssumption ==
  /\ MaxRuns \in Nat
  /\ Countdowns \subseteq 0..60       \* handlePowerStart's own bounds
  /\ Looks \in Nat \ {0}
  /\ AllowDestructive \in BOOLEAN

VARIABLES
  phase,       \* Controller.status.Phase
  note,        \* what Status.Note says
  cancelFn,    \* Controller.cancel: the run it cancels, NoRun for nil
  starts,      \* how many runs Start has created
  intent,      \* per run: restart or stop
  pc,          \* per run: where its goroutine is
  cancelled,   \* the runs whose context is cancelled
  remaining,   \* per run: minutes of countdown not yet slept
  due,         \* per run: the warnings countdown has still to give
  looks,       \* per run: looks watch has taken
  sawItGo,     \* the runs whose watch has seen the server not online
  held,        \* per caller in Cancel: the CancelFunc it read, NoRun if none
  online,      \* Snapshot().Status == StatusOnline, as the poller has it
  \* History, read by no action:
  carriedOut,  \* <<run, command>> pairs the game server executed
  sentStop,    \* the runs that have sent the shutdown command
  offAir       \* the runs during whose watch online was ever FALSE

status == <<phase, note>>
history == <<carriedOut, sentStop, offAir>>
vars == <<status, cancelFn, starts, intent, pc, cancelled, remaining, due,
          looks, sawItGo, held, online, history>>

Runs == 1..MaxRuns
NoRun == 0

Intents == {"restart", "stop"}
Resting == {"idle", "back", "gone", "failed", "cancelled"}
Phases == Resting \cup {"countdown", "saving", "stopping", "watching"}
Notes == {"none", "unsupervised", "stopped", "neverWentDown"}

\* Where a run's goroutine can be.  A run in the tail has written its last
\* status and has only its farewell and its deferred function left.
Leaving == {"sayingOff", "returning", "done"}
CountingDown == {"sleeping", "saying", "counted", "calledOff"}
Saving == {"saving", "saveSent", "saved"}
Stopping == {"stopping", "stopSent", "told"}
Locations == {"unborn", "failing", "watching"} \cup Leaving \cup CountingDown
               \cup Saving \cup Stopping

\* A run in charge of the status: created, and not yet in its tail.
Driving(r) == pc[r] \notin Leaving \cup {"unborn"}

Goto(r, there) == pc' = [pc EXCEPT ![r] = there]
-----------------------------------------------------------------------------
(***************************************************************************)
(* Start and Cancel, called by HTTP handlers.                              *)
(***************************************************************************)

\* When to tell people, given how long they have.
candidates == {60, 30, 15, 10, 5, 1}
warningsFor(total) == {c \in candidates : c <= total}

Latest(S) == CHOOSE m \in S : \A n \in S : n <= m

Init ==
  /\ phase = "idle"
  /\ note = "none"
  /\ cancelFn = NoRun
  /\ starts = 0
  /\ intent = [r \in Runs |-> "restart"]
  /\ pc = [r \in Runs |-> "unborn"]
  /\ cancelled = {}
  /\ remaining = [r \in Runs |-> 0]
  /\ due = [r \in Runs |-> {}]
  /\ looks = [r \in Runs |-> 0]
  /\ sawItGo = {}
  /\ held = [c \in Callers |-> NoRun]
  /\ online \in BOOLEAN
  /\ carriedOut = {}
  /\ sentStop = {}
  /\ offAir = {}

\* Variant: the busy test forgets that a sequence may be saving.
StartForgetsSaving(i, total) ==
  LET r == starts + 1 IN
  /\ AllowDestructive
  /\ phase \in Resting \cup {"saving"}
  /\ r \in Runs
  /\ starts' = r
  /\ cancelFn' = r
  /\ phase' = "countdown"
  /\ note' = "none"
  /\ intent' = [intent EXCEPT ![r] = i]
  /\ remaining' = [remaining EXCEPT ![r] = total]
  /\ due' = [due EXCEPT ![r] = warningsFor(total)]
  /\ Goto(r, "sleeping")
  /\ UNCHANGED <<cancelled, looks, sawItGo, held, online, history>>

\* Start: everything up to `go c.run` is under the lock.
Start(i, total) ==
  LET r == starts + 1 IN
  /\ AllowDestructive
  /\ phase \in Resting
  /\ r \in Runs
  /\ starts' = r
  /\ cancelFn' = r
  /\ phase' = "countdown"
  /\ note' = "none"
  /\ intent' = [intent EXCEPT ![r] = i]
  /\ remaining' = [remaining EXCEPT ![r] = total]
  /\ due' = [due EXCEPT ![r] = warningsFor(total)]
  /\ Goto(r, "sleeping")
  /\ UNCHANGED <<cancelled, looks, sawItGo, held, online, history>>

\* Cancel, first half: phase and CancelFunc are read under the lock and the
\* answer is decided from what was read.
CancelReads(c) ==
  /\ held[c] = NoRun
  /\ cancelFn # NoRun
  /\ phase \in {"countdown", "saving"}
  /\ held' = [held EXCEPT ![c] = cancelFn]
  /\ UNCHANGED <<status, cancelFn, starts, intent, pc, cancelled, remaining,
                 due, looks, sawItGo, online, history>>

\* Cancel, second half, after the unlock: call it, and answer true.
CancelCalls(c) ==
  /\ held[c] # NoRun
  /\ cancelled' = cancelled \cup {held[c]}
  /\ held' = [held EXCEPT ![c] = NoRun]
  /\ UNCHANGED <<status, cancelFn, starts, intent, pc, remaining, due, looks,
                 sawItGo, online, history>>
-----------------------------------------------------------------------------
(***************************************************************************)
(* The run's goroutine: the countdown.                                     *)
(***************************************************************************)

\* A sleep that ran its length.  With warnings left it ends at the next one;
\* with none left it was the last stretch and countdown returns nil.
Sleep(r) ==
  /\ pc[r] = "sleeping"
  /\ \/ /\ due[r] # {}
        /\ LET at == Latest(due[r]) IN
           /\ remaining' = [remaining EXCEPT ![r] = at]
           /\ due' = [due EXCEPT ![r] = @ \ {at}]
        /\ Goto(r, "saying")
     \/ /\ due[r] = {}
        /\ remaining' = [remaining EXCEPT ![r] = 0]
        /\ Goto(r, "counted")
        /\ UNCHANGED due
  /\ UNCHANGED <<status, cancelFn, starts, intent, cancelled, looks, sawItGo,
                 held, online, history>>

\* A sleep cut short: countdown returns context.Canceled.
SleepCutShort(r) ==
  /\ pc[r] = "sleeping"
  /\ r \in cancelled
  /\ Goto(r, "calledOff")
  /\ UNCHANGED <<status, cancelFn, starts, intent, cancelled, remaining, due,
                 looks, sawItGo, held, online, history>>

\* The warning's say returns, carried out or not (its error is dropped), on a
\* context of its own.  The next sleep on a dead context ends at once.
Say(r) ==
  /\ pc[r] = "saying"
  /\ Goto(r, IF r \in cancelled THEN "calledOff" ELSE "sleeping")
  /\ UNCHANGED <<status, cancelFn, starts, intent, cancelled, remaining, due,
                 looks, sawItGo, held, online, history>>

\* The countdown was called off: the whole status is replaced, then the
\* players are told, which takes up to ten seconds.
CallOff(r) ==
  /\ pc[r] = "calledOff"
  /\ phase' = "cancelled"
  /\ note' = "none"
  /\ Goto(r, "sayingOff")
  /\ UNCHANGED <<cancelFn, starts, intent, cancelled, remaining, due, looks,
                 sawItGo, held, online, history>>

SayOff(r) ==
  /\ pc[r] = "sayingOff"
  /\ Goto(r, "returning")
  /\ UNCHANGED <<status, cancelFn, starts, intent, cancelled, remaining, due,
                 looks, sawItGo, held, online, history>>

\* The deferred function: the stored CancelFunc is cleared whoever owns it.
Return(r) ==
  /\ pc[r] = "returning"
  /\ cancelFn' = NoRun
  /\ Goto(r, "done")
  /\ UNCHANGED <<status, starts, intent, cancelled, remaining, due, looks,
                 sawItGo, held, online, history>>
-----------------------------------------------------------------------------
(***************************************************************************)
(* The run's goroutine: saveworld and shutdown.  A request on a dead       *)
(* context is never sent; one in flight may fail (cancelled, timed out,    *)
(* refused) whether or not the game server carried the command out.        *)
(***************************************************************************)

EnterPhase(r, from, to) ==
  /\ pc[r] = from
  /\ phase' = to
  /\ Goto(r, to)
  /\ UNCHANGED <<note, cancelFn, starts, intent, cancelled, remaining, due,
                 looks, sawItGo, held, online, history>>

SetSaving(r) == EnterPhase(r, "counted", "saving")
SetStopping(r) == EnterPhase(r, "saved", "stopping")

SendSave(r) ==
  /\ pc[r] = "saving"
  /\ Goto(r, IF r \in cancelled THEN "failing" ELSE "saveSent")
  /\ UNCHANGED <<status, cancelFn, starts, intent, cancelled, remaining, due,
                 looks, sawItGo, held, online, history>>

SendStop(r) ==
  /\ pc[r] = "stopping"
  /\ \/ /\ r \in cancelled
        /\ Goto(r, "failing")
        /\ UNCHANGED sentStop
     \/ /\ r \notin cancelled
        /\ Goto(r, "stopSent")
        /\ sentStop' = sentStop \cup {r}
  /\ UNCHANGED <<status, cancelFn, starts, intent, cancelled, remaining, due,
                 looks, sawItGo, held, online, carriedOut, offAir>>

\* The answer to a command: success, or an error that says nothing about
\* whether the server carried it out.
Answer(r, sent, command, onSuccess) ==
  /\ pc[r] = sent
  /\ \/ /\ Goto(r, onSuccess)
        /\ carriedOut' = carriedOut \cup {<<r, command>>}
     \/ /\ Goto(r, "failing")
        /\ \E done \in SUBSET {<<r, command>>} :
             carriedOut' = carriedOut \cup done
  /\ UNCHANGED <<status, cancelFn, starts, intent, cancelled, remaining, due,
                 looks, sawItGo, held, online, sentStop, offAir>>

\* Variant: a failed save is passed over and the stop goes ahead.
SaveFailureIgnored(r) ==
  /\ pc[r] = "saveSent"
  /\ Goto(r, "saved")
  /\ \E done \in SUBSET {<<r, "saveworld">>} :
       carriedOut' = carriedOut \cup done
  /\ UNCHANGED <<status, cancelFn, starts, intent, cancelled, remaining, due,
                 looks, sawItGo, held, online, sentStop, offAir>>

SaveAnswered(r) == Answer(r, "saveSent", "saveworld", "saved")
StopAnswered(r) == Answer(r, "stopSent", "shutdown", "told")

\* Variant: any failure of a cancelled run is reported as called off.
FailAsCancelled(r) ==
  /\ pc[r] = "failing"
  /\ phase' = IF r \in cancelled THEN "cancelled" ELSE "failed"
  /\ Goto(r, "returning")
  /\ UNCHANGED <<note, cancelFn, starts, intent, cancelled, remaining, due,
                 looks, sawItGo, held, online, history>>

\* fail: the phase and the problem change, the rest of the status stays.
Fail(r) ==
  /\ pc[r] = "failing"
  /\ phase' = "failed"
  /\ Goto(r, "returning")
  /\ UNCHANGED <<note, cancelFn, starts, intent, cancelled, remaining, due,
                 looks, sawItGo, held, online, history>>
-----------------------------------------------------------------------------
(***************************************************************************)
(* The run's goroutine: watch.                                             *)
(***************************************************************************)

SetWatching(r) ==
  /\ pc[r] = "told"
  /\ phase' = "watching"
  /\ Goto(r, "watching")
  /\ offAir' = IF online THEN offAir ELSE offAir \cup {r}
  /\ UNCHANGED <<note, cancelFn, starts, intent, cancelled, remaining, due,
                 looks, sawItGo, held, online, carriedOut, sentStop>>

\* Variant: the loop's deadline test lets one turn too many through.
LookOnceMore(r) ==
  /\ pc[r] = "watching"
  /\ looks[r] <= Looks
  /\ ~(r \in sawItGo /\ online)
  /\ looks' = [looks EXCEPT ![r] = @ + 1]
  /\ sawItGo' = IF online THEN sawItGo ELSE sawItGo \cup {r}
  /\ UNCHANGED <<status, cancelFn, starts, intent, pc, cancelled, remaining,
                 due, held, online, history>>

\* One turn of the loop that does not end it.
Look(r) ==
  /\ pc[r] = "watching"
  /\ looks[r] < Looks
  /\ ~(r \in sawItGo /\ online)
  /\ looks' = [looks EXCEPT ![r] = @ + 1]
  /\ sawItGo' = IF online THEN sawItGo ELSE sawItGo \cup {r}
  /\ UNCHANGED <<status, cancelFn, starts, intent, pc, cancelled, remaining,
                 due, held, online, history>>

\* Variant: a server that is online is back, seen to go or not.
SeeItBackAtOnce(r) ==
  /\ pc[r] = "watching"
  /\ looks[r] < Looks
  /\ online
  /\ phase' = "back"
  /\ Goto(r, "returning")
  /\ UNCHANGED <<note, cancelFn, starts, intent, cancelled, remaining, due,
                 looks, sawItGo, held, online, history>>

\* The turn that finds it back.
SeeItBack(r) ==
  /\ pc[r] = "watching"
  /\ looks[r] < Looks
  /\ r \in sawItGo
  /\ online
  /\ phase' = "back"
  /\ Goto(r, "returning")
  /\ UNCHANGED <<note, cancelFn, starts, intent, cancelled, remaining, due,
                 looks, sawItGo, held, online, history>>

\* Variant: a stop is taken at its word before asking whether it was seen.
FindingTrustsTheStop(r) ==
  CASE intent[r] = "stop" -> "stopped"
    [] intent[r] = "restart" /\ r \notin sawItGo -> "neverWentDown"
    [] OTHER -> "unsupervised"

\* What the note says of a server that did not come back in time.
Finding(r) ==
  CASE r \notin sawItGo -> "neverWentDown"
    [] r \in sawItGo /\ intent[r] = "stop" -> "stopped"
    [] OTHER -> "unsupervised"

\* Variant: the deadline only counts once the server has been seen to go.
GiveUpOnceGone(r) ==
  /\ pc[r] = "watching"
  /\ looks[r] >= Looks
  /\ r \in sawItGo
  /\ phase' = "gone"
  /\ note' = Finding(r)
  /\ Goto(r, "returning")
  /\ UNCHANGED <<cancelFn, starts, intent, cancelled, remaining, due, looks,
                 sawItGo, held, online, history>>

GiveUp(r) ==
  /\ pc[r] = "watching"
  /\ looks[r] >= Looks
  /\ phase' = "gone"
  /\ note' = Finding(r)
  /\ Goto(r, "returning")
  /\ UNCHANGED <<cancelFn, starts, intent, cancelled, remaining, due, looks,
                 sawItGo, held, online, history>>
-----------------------------------------------------------------------------
\* The poller's snapshot changes under the watch.
PollerReports ==
  /\ online' = ~online
  /\ offAir' = IF online THEN offAir \cup {r \in Runs : pc[r] = "watching"}
               ELSE offAir
  /\ UNCHANGED <<status, cancelFn, starts, intent, pc, cancelled, remaining,
                 due, looks, sawItGo, held, carriedOut, sentStop>>

RunStep(r) ==
  \/ Sleep(r) \/ SleepCutShort(r) \/ Say(r)
  \/ CallOff(r) \/ SayOff(r) \/ Return(r)
  \/ SetSaving(r) \/ SendSave(r) \/ SaveAnswered(r)
  \/ SetStopping(r) \/ SendStop(r) \/ StopAnswered(r) \/ Fail(r)
  \/ SetWatching(r) \/ Look(r) \/ SeeItBack(r) \/ GiveUp(r)

HandlerStep ==
  \/ \E i \in Intents, total \in Countdowns : Start(i, total)
  \/ \E c \in Callers : CancelReads(c) \/ CancelCalls(c)

\* What the controller itself does, whatever the poller reports.
ControllerStep == HandlerStep \/ \E r \in Runs : RunStep(r)

Next == ControllerStep \/ PollerReports

Spec == Init /\ [][Next]_vars

\* The goroutine is scheduled, timers fire, and every request is bounded by
\* the client's timeout, so a run keeps moving.  Nobody has to call Start or
\* Cancel, and the poller may report anything.
Fairness == \A r \in Runs : WF_vars(RunStep(r))
FairSpec == Spec /\ Fairness
-----------------------------------------------------------------------------
TypeOK ==
  /\ phase \in Phases
  /\ note \in Notes
  /\ cancelFn \in Runs \cup {NoRun}
  /\ starts \in 0..MaxRuns
  /\ intent \in [Runs -> Intents]
  /\ pc \in [Runs -> Locations]
  /\ cancelled \subseteq Runs
  /\ remaining \in [Runs -> 0..60]
  /\ due \in [Runs -> SUBSET candidates]
  /\ looks \in [Runs -> 0..Looks]
  /\ sawItGo \subseteq Runs
  /\ held \in [Callers -> Runs \cup {NoRun}]
  /\ online \in BOOLEAN
  /\ carriedOut \subseteq Runs \X {"saveworld", "shutdown"}
  /\ sentStop \subseteq Runs
  /\ offAir \subseteq Runs

\* Only one at a time (Controller's own comment): two goroutines never both
\* own the status, although an old run's tail may overlap a new run, and a
\* stored CancelFunc is never that of an older run.
OneSequence ==
  /\ \A r, s \in Runs : Driving(r) /\ Driving(s) => r = s
  /\ (\E r \in Runs : Driving(r)) <=> phase \notin Resting
  /\ cancelFn \in {NoRun, starts}

\* The shutdown goes in only at the end of the announced countdown, every
\* warning given, and after a saveworld the server confirmed.
SavedBeforeStop ==
  \A r \in sentStop :
    /\ due[r] = {}
    /\ remaining[r] = 0
    /\ <<r, "saveworld">> \in carriedOut

\* "Cancelled" is only ever said of a sequence that touched nothing: no
\* saveworld, and above all no shutdown that may have arrived.
CancelledTouchedNothing ==
  phase = "cancelled" =>
    /\ starts \notin sentStop
    /\ \A p \in carriedOut : p[1] # starts

\* The outcome is honest: the panel says "back", "stopped" or "nothing
\* brought it back" only if the snapshot really was off the air at some
\* moment of that run's watch.
OutcomeIsHonest ==
  (phase = "back" \/ (phase = "gone" /\ note # "neverWentDown"))
    => starts \in offAir

\* Every sequence ends: the controller is never left busy for good.
SequenceEnds == (phase \notin Resting) ~> (phase \in Resting)

\* "Cancel calls off a sequence that has not stopped the server yet": while
\* one is counting down or saving, there is a CancelFunc to call.
CanBeCalledOff == phase \in {"countdown", "saving"} => cancelFn # NoRun
=============================================================================
