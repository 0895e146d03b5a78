------------------------------ MODULE MCRegistry ------------------------------
(***************************************************************************)
(* Two servers, one of them named in the environment, and two requests.    *)
(***************************************************************************)
EXTENDS Registry, TLC

CONSTANTS r1, r2

MCRequests == {r1, r2}
MCIds == 1..2
MCEnvServers == <<2>>
Symmetry == Permutations(MCRequests)
=============================================================================
