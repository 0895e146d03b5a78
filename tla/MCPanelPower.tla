----------------------------- MODULE MCPanelPower -----------------------------
(***************************************************************************)
(* One sequence, one request inside Cancel, and a process that may be      *)
(* started twice.  The poller calls a server offline after three failures, *)
(* and the credentials check is due less often than the polls whose status *)
(* it may overrule; or, in short, all of it is due each tick.              *)
(***************************************************************************)
EXTENDS PanelPower

CONSTANT c1

MCCallers == {c1}
MCCountdowns == {0}
MCEvery == [credentials |-> 3, info |-> 2, uptime |-> 1, bloodmoon |-> 1]
MCEveryTick == [r \in {"credentials", "info", "uptime", "bloodmoon"} |-> 1]
=============================================================================
