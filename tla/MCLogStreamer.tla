---------------------------- MODULE MCLogStreamer ----------------------------
(***************************************************************************)
(* The log stream on a small instance: the pages are shorter than the log, *)
(* so a gap can outgrow a query; a process may log as many lines as were   *)
(* seen of the one before it, fewer or more; and there is a third, so that *)
(* a restart can meet the repair after a restart.                          *)
(***************************************************************************)
EXTENDS LogStreamer

MCMaxLines == <<4, 2, 1>>
=============================================================================
