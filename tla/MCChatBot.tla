------------------------------- MODULE MCChatBot -------------------------------
(***************************************************************************)
(* The bot by itself, for TLC: one player, two slots, and a command whose  *)
(* cooldown is over before a request of it is given up.                    *)
(***************************************************************************)
EXTENDS ChatBot

CONSTANTS s1, s2

MCWorkers == {s1, s2}
MCRows ==
  [n \in Typings |-> {[enabled |-> TRUE, admins |-> FALSE, says |-> FALSE,
                       lines |-> <<"plain">>, cooldown |-> 1]}]
MCMaxTyped == [n \in Typings |-> 3]

Spec == Init /\ [][Next]_vars
=============================================================================
