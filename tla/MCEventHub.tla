------------------------------ MODULE MCEventHub ------------------------------
(***************************************************************************)
(* One browser tab and one listener inside the panel on a hub whose ring,  *)
(* buffer and backlog all overflow within its three events, and a second    *)
(* hub that takes the first one's place.                                   *)
(***************************************************************************)
EXTENDS EventHub

CONSTANTS t1, bot

MCTabs == {t1}
MCListeners == {bot}
=============================================================================
