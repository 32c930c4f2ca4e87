----------------------------- MODULE RateLimiter -----------------------------
(***************************************************************************)
(* internal/ratelimiter/fixed-window.go and the middleware in front of     *)
(* every route: Allow reads the count of a client under the read lock,     *)
(* decides without a lock, and increments under the write lock; the first  *)
(* request of a window starts a goroutine that deletes the entry one       *)
(* window later.  Requests run concurrently, one goroutine each.           *)
(*                                                                         *)
(* An entry is created by ++ and never holds zero, so clients[a] = 0       *)
(* stands for no entry in the map.                                         *)
(***************************************************************************)
EXTENDS Naturals, FiniteSets

CONSTANTS
  Addr,     \* values of r.RemoteAddr, the keys of the map
  Request,  \* goroutines that serve requests at the same time
  Limit     \* requests per window

ASSUME LimiterAssumption ==
  /\ IsFiniteSet(Request)
  /\ Limit \in Nat

VARIABLES
  clients,  \* clients[a]: the count of the entry of a, 0 when there is none
  resets,   \* resets[a]: the goroutines asleep in resetCount(a)
  pc,       \* pc[p]: where request p stands: "arrive", "allow" or "limited"
  addr,     \* addr[p]: its remote address
  exists    \* exists[p]: did Allow find an entry?

limiterVars == <<clients, resets, pc, addr, exists>>

-----------------------------------------------------------------------------

(* Mutant: the limit is compared one too late.                             *)
LookLate(p, a) ==
  /\ pc[p] = "arrive"
  /\ addr' = [addr EXCEPT ![p] = a]
  /\ exists' = [exists EXCEPT ![p] = clients[a] > 0]
  /\ pc' = [pc EXCEPT ![p] = IF clients[a] <= Limit THEN "allow" ELSE "limited"]
  /\ UNCHANGED <<clients, resets>>

(* Allow under the read lock, and the decision on what it read.            *)
Look(p, a) ==
  /\ pc[p] = "arrive"
  /\ addr' = [addr EXCEPT ![p] = a]
  /\ exists' = [exists EXCEPT ![p] = clients[a] > 0]
  /\ pc' = [pc EXCEPT ![p] = IF clients[a] = 0 \/ clients[a] < Limit
                             THEN "allow" ELSE "limited"]
  /\ UNCHANGED <<clients, resets>>

(* Allow under the write lock; the request is served.                      *)
Count(p) ==
  /\ pc[p] = "allow"
  /\ resets' = [resets EXCEPT ![addr[p]] = IF exists[p] THEN @ ELSE @ + 1]
  /\ clients' = [clients EXCEPT ![addr[p]] = @ + 1]
  /\ pc' = [pc EXCEPT ![p] = "arrive"]
  /\ UNCHANGED <<addr, exists>>

(* 429 with Retry-After; the goroutine is free for another request.        *)
Refuse(p) ==
  /\ pc[p] = "limited"
  /\ pc' = [pc EXCEPT ![p] = "arrive"]
  /\ UNCHANGED <<clients, resets, addr, exists>>

(* A resetCount goroutine wakes up.                                        *)
ResetCount(a) ==
  /\ resets[a] > 0
  /\ resets' = [resets EXCEPT ![a] = @ - 1]
  /\ clients' = [clients EXCEPT ![a] = 0]
  /\ UNCHANGED <<pc, addr, exists>>

-----------------------------------------------------------------------------

LimiterInit ==
  /\ clients = [a \in Addr |-> 0]
  /\ resets = [a \in Addr |-> 0]
  /\ pc = [p \in Request |-> "arrive"]
  /\ addr \in [Request -> Addr]
  /\ exists = [p \in Request |-> FALSE]

LimiterNext ==
  \/ \E p \in Request : (\E a \in Addr : Look(p, a)) \/ Count(p) \/ Refuse(p)
  \/ \E a \in Addr : ResetCount(a)

LimiterSpec == LimiterInit /\ [][LimiterNext]_limiterVars

-----------------------------------------------------------------------------
(* Properties *)

(* Every variable has its type.                                            *)
LimiterTypeOK ==
  /\ clients \in [Addr -> Nat]
  /\ resets \in [Addr -> Nat]
  /\ pc \in [Request -> {"arrive", "allow", "limited"}]
  /\ addr \in [Request -> Addr]
  /\ exists \in [Request -> BOOLEAN]

(* Requests between the look and the count: admitted, not yet counted.     *)
Admitted(a) == {p \in Request : pc[p] = "allow" /\ addr[p] = a}

(* How far the race between the two locks overshoots the limit: by no more *)
(* than the number of other requests in flight.  A limit of zero still     *)
(* lets the first request of a window through.                             *)
Overshoot == (IF Limit = 0 THEN 1 ELSE Limit) + Cardinality(Request)

OvershootBounded ==
  \A a \in Addr : clients[a] + Cardinality(Admitted(a)) < Overshoot

(* errors.go:56 tells a refused client "rate limit exceeded, retry after"  *)
(* one window: an entry at its limit goes away.                            *)
RetrySucceeds == \A a \in Addr : clients[a] >= Limit ~> clients[a] = 0

=============================================================================
