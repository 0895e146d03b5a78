------------------------------ MODULE PanelPower ------------------------------
(***************************************************************************)
(* The poller, the power controller whose watch reads its snapshot, and    *)
(* the game server's process they are both about, as New and newServer     *)
(* (internal/servers) wire them together: the watch never talks to the     *)
(* game server, it believes Snapshot().Status.  What Poller calls Init,    *)
(* Next, Spec and vars is the poller's alone.                              *)
(***************************************************************************)
EXTENDS Poller

CONSTANTS
  MaxRuns, Callers, Countdowns, Looks, AllowDestructive,  \* PowerController
  Worlds,  \* the worlds that are looked at, by whether they are steady
  AskedIn  \* a bound on the inputs: those in which people start sequences

VARIABLES
  \* PowerController; runPc is its pc
  phase, note, cancelFn, starts, intent, runPc, cancelled, remaining, due,
  looks, sawItGo, held, carriedOut, sentStop, offAir,
  \* The game server process
  steady,   \* the world behaves: every request to a running process is
            \* answered, and it ends only by a shutdown it was told to do
  running,  \* whether it is
  went      \* History: the runs after whose shutdown was sent it ended

online == status = "online"

Power == INSTANCE PowerController WITH pc <- runPc

powerVars == <<phase, note, cancelFn, starts, intent, runPc, cancelled,
               remaining, due, looks, sawItGo, held, carriedOut, sentStop,
               offAir>>
processVars == <<steady, running, went>>
panelVars == <<powerVars, vars, processVars>>

PanelInit ==
  /\ Init
  /\ Power!Init
  /\ steady \in Worlds \cap BOOLEAN
  /\ steady => tokenGood /\ net = "answering"
  /\ running = TRUE
  /\ went = {}

\* A command is only carried out by a process that runs, and one that runs
\* in a steady world refuses none: it fails only if it was called off.
AnswersFit ==
  /\ carriedOut' # carriedOut => running
  /\ steady /\ running =>
       \A r \in Power!Runs :
         runPc[r] # "failing" /\ runPc'[r] = "failing" => r \in cancelled

\* People ask while the panel shows the server online.
AskedWhenOnline == starts' # starts => online /\ steady \in AskedIn

PowerActs ==
  /\ UNCHANGED <<vars, processVars>>
  /\ Power!ControllerStep
  /\ AnswersFit
  /\ AskedWhenOnline

\* The watch's own history follows the status the poller sets.
PollerActs ==
  /\ PollerStep
  /\ UNCHANGED processVars
  /\ IF online' # online THEN Power!PollerReports ELSE UNCHANGED powerVars

\* The process ends, told to or (in an unsteady world) of its own accord.  A
\* stop that was carried out need not take.
ProcessEnds ==
  /\ running
  /\ steady => \E r \in Power!Runs \ went : <<r, "shutdown">> \in carriedOut
  /\ running' = FALSE
  /\ net' = "down"
  /\ went' = went \cup sentStop
  /\ UNCHANGED <<powerVars, tokenGood, boot, pc, believed, history, steady>>

\* Whatever supervises the process starts it again.
ProcessStarts ==
  /\ ~running
  /\ running' = TRUE
  /\ Reboots
  /\ UNCHANGED <<powerVars, steady, went>>

\* The network to the process: faithful once it is up in a steady world.
NetworkChanges ==
  /\ running
  /\ NetChanges
  /\ steady => net' = "answering"
  /\ UNCHANGED <<powerVars, processVars>>

\* The game server is given other tokens.
PermissionsChange ==
  /\ ~steady
  /\ TokenChanges
  /\ UNCHANGED <<powerVars, processVars>>

PanelNext ==
  PowerActs \/ PollerActs \/ ProcessEnds \/ ProcessStarts \/ NetworkChanges
  \/ PermissionsChange

PanelSpec == PanelInit /\ [][PanelNext]_panelVars

\* The poller's ticker fires and every request of it is bounded by the client's
\* timeout; nothing else need happen.
PanelFairSpec == PanelSpec /\ WF_panelVars(PollerActs)
-----------------------------------------------------------------------------
\* What the panel says of the outcome is true of the process, not only of the
\* snapshot, in a steady world: it is said to be back, to be stopped, or to be gone
\* with nothing to bring it back only if it really ended after the shutdown was sent.
ClaimsOnlyWhatHappened ==
  steady /\ (phase = "back" \/ (phase = "gone" /\ note # "neverWentDown"))
    => starts \in went

\* "It waits to see it actually go before it will believe it has returned": a
\* server that never went down is not reported as a successful restart.
BackMeansItWent == phase = "back" => starts \in went
=============================================================================
