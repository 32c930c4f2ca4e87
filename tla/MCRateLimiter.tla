--------------------------- MODULE MCRateLimiter ---------------------------
(***************************************************************************)
(* RateLimiter on a small instance.                                        *)
(***************************************************************************)
EXTENDS RateLimiter

CONSTANT MaxResets  \* bound: goroutines asleep in resetCount at a time

MCNext == LimiterNext /\ \A a \in Addr : resets'[a] <= MaxResets

(* time.Sleep returns.  No client is obliged to send a request.            *)
MCSpec     == LimiterInit /\ [][MCNext]_limiterVars
MCFairSpec == MCSpec /\ \A a \in Addr : WF_limiterVars(ResetCount(a))

=============================================================================
