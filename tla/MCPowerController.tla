-------------------------- MODULE MCPowerController --------------------------
(***************************************************************************)
(* The power controller on a small instance: two sequences one after the   *)
(* other, so the tail of the first overlaps the second, and two requests   *)
(* inside Cancel at once.                                                  *)
(***************************************************************************)
EXTENDS PowerController

CONSTANTS c1, c2

MCCallers == {c1, c2}
MCCountdowns == {0, 1, 7}
=============================================================================
