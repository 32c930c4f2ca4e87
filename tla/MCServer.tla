------------------------------ MODULE MCServer ------------------------------
(***************************************************************************)
(* Server on a small instance.                                             *)
(***************************************************************************)
EXTENDS Server

CONSTANT MaxResets  \* bound: goroutines asleep in resetCount at a time

MCNext == ServerNext /\ \A a \in Addr : resets'[a] <= MaxResets

MCSpec     == ServerInit /\ [][MCNext]_serverVars
MCFairSpec == MCSpec /\ ServerFairness

=============================================================================
