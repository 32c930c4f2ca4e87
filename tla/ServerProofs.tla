---------------------------- MODULE ServerProofs ----------------------------
(***************************************************************************)
(* The rate limiter and the server in front of which it stands.            *)
(*                                                                         *)
(* The overshoot of the limiter is bounded for every limit and every       *)
(* finite number of concurrent requests: a request that is admitted on a   *)
(* count of zero or below the limit leaves room for all requests at once.  *)
(* The server uses the limiter as RateLimiter allows, so the bound holds   *)
(* behind the connections; and for what the timers promise to a request    *)
(* that waits, the type invariant is all the two action properties need of *)
(* the state they start in.                                                *)
(***************************************************************************)
EXTENDS Server, FiniteSetTheorems, TLAPS

LEMMA RequestsFinite == IsFiniteSet(Request) /\ Cardinality(Request) \in Nat
BY LimiterAssumption, FS_CardinalityType

(* Admitted requests can be counted.                                       *)
LEMMA AdmittedFinite ==
  ASSUME NEW a \in Addr
  PROVE  /\ IsFiniteSet(Admitted(a))
         /\ Cardinality(Admitted(a)) \in Nat
         /\ Cardinality(Admitted(a)) <= Cardinality(Request)
<1>1. Admitted(a) \subseteq Request
  BY DEF Admitted
<1> QED BY <1>1, RequestsFinite, FS_Subset, FS_CardinalityType

-----------------------------------------------------------------------------
(* Type correctness *)

LEMMA TypeInit == LimiterInit => LimiterTypeOK
BY DEF LimiterInit, LimiterTypeOK

LEMMA TypeNext == LimiterTypeOK /\ [LimiterNext]_limiterVars => LimiterTypeOK'
<1> SUFFICES ASSUME LimiterTypeOK, [LimiterNext]_limiterVars PROVE LimiterTypeOK'
  OBVIOUS
<1> USE DEF LimiterTypeOK
<1>1. ASSUME NEW p \in Request, NEW a \in Addr, Look(p, a) PROVE LimiterTypeOK'
  BY <1>1 DEF Look
<1>2. ASSUME NEW p \in Request, Count(p) PROVE LimiterTypeOK'
  BY <1>2 DEF Count
<1>3. ASSUME NEW p \in Request, Refuse(p) PROVE LimiterTypeOK'
  BY <1>3 DEF Refuse
<1>4. ASSUME NEW a \in Addr, ResetCount(a) PROVE LimiterTypeOK'
  BY <1>4 DEF ResetCount
<1>5. CASE UNCHANGED limiterVars
  BY <1>5 DEF limiterVars
<1> QED BY <1>1, <1>2, <1>3, <1>4, <1>5 DEF LimiterNext

(* The variables keep their types: counts never leave the naturals.        *)
THEOREM LimiterTypeCorrect == LimiterSpec => []LimiterTypeOK
<1>1. LimiterInit => LimiterTypeOK BY TypeInit
<1>2. LimiterTypeOK /\ [LimiterNext]_limiterVars => LimiterTypeOK' BY TypeNext
<1> QED BY <1>1, <1>2, PTL DEF LimiterSpec

-----------------------------------------------------------------------------
(* The bound on the overshoot *)

LEMMA OvershootInit == LimiterInit => OvershootBounded
<1> SUFFICES ASSUME LimiterInit, NEW a \in Addr
             PROVE  clients[a] + Cardinality(Admitted(a)) < Overshoot
  BY DEF OvershootBounded
<1>1. clients[a] = 0
  BY DEF LimiterInit
<1> QED BY <1>1, AdmittedFinite, RequestsFinite, LimiterAssumption DEF Overshoot

LEMMA OvershootLook ==
  ASSUME LimiterTypeOK, OvershootBounded, NEW p \in Request, NEW a \in Addr, Look(p, a)
  PROVE  OvershootBounded'
<1> SUFFICES ASSUME NEW b \in Addr
             PROVE  clients'[b] + Cardinality(Admitted(b))' < Overshoot
  BY DEF OvershootBounded, Overshoot
<1>1. clients'[b] = clients[b] /\ clients[b] \in Nat
  BY DEF Look, LimiterTypeOK
<1>2. CASE b = a /\ pc'[p] = "allow"
  <2>1. clients[b] = 0 \/ clients[b] < Limit
    BY <1>2 DEF Look, LimiterTypeOK
  <2>2. Admitted(b)' \subseteq Request
    BY DEF Admitted
  <2>3. /\ Cardinality(Admitted(b)') \in Nat
        /\ Cardinality(Admitted(b)') <= Cardinality(Request)
    BY <2>2, RequestsFinite, FS_Subset, FS_CardinalityType
  <2> QED BY <1>1, <2>1, <2>3, RequestsFinite, LimiterAssumption DEF Overshoot
<1>3. CASE ~(b = a /\ pc'[p] = "allow")
  <2>1. Admitted(b)' \subseteq Admitted(b)
    BY <1>3 DEF Admitted, Look, LimiterTypeOK
  <2>2. /\ Cardinality(Admitted(b)') \in Nat
        /\ Cardinality(Admitted(b)') <= Cardinality(Admitted(b))
    BY <2>1, AdmittedFinite, FS_Subset, FS_CardinalityType
  <2>3. clients[b] + Cardinality(Admitted(b)) < Overshoot
    BY DEF OvershootBounded
  <2> QED BY <1>1, <2>2, <2>3, AdmittedFinite, RequestsFinite, LimiterAssumption
          DEF Overshoot
<1> QED BY <1>2, <1>3

LEMMA OvershootCount ==
  ASSUME LimiterTypeOK, OvershootBounded, NEW p \in Request, Count(p)
  PROVE  OvershootBounded'
<1> SUFFICES ASSUME NEW b \in Addr
             PROVE  clients'[b] + Cardinality(Admitted(b))' < Overshoot
  BY DEF OvershootBounded, Overshoot
<1>1. clients[b] \in Nat /\ clients[b] + Cardinality(Admitted(b)) < Overshoot
  BY DEF OvershootBounded, LimiterTypeOK
<1>2. CASE b = addr[p]
  <2>1. Admitted(b)' = Admitted(b) \ {p} /\ p \in Admitted(b)
    BY <1>2 DEF Admitted, Count, LimiterTypeOK
  <2>2. Cardinality(Admitted(b)') = Cardinality(Admitted(b)) - 1
    BY <2>1, AdmittedFinite, FS_RemoveElement
  <2>3. clients'[b] = clients[b] + 1
    BY <1>2 DEF Count, LimiterTypeOK
  <2> QED BY <1>1, <2>2, <2>3, AdmittedFinite
<1>3. CASE b # addr[p]
  <2>1. Admitted(b)' = Admitted(b)
    BY <1>3 DEF Admitted, Count, LimiterTypeOK
  <2>2. clients'[b] = clients[b]
    BY <1>3 DEF Count, LimiterTypeOK
  <2> QED BY <1>1, <2>1, <2>2
<1> QED BY <1>2, <1>3

LEMMA OvershootReset ==
  ASSUME LimiterTypeOK, OvershootBounded, NEW a \in Addr, ResetCount(a)
  PROVE  OvershootBounded'
<1> SUFFICES ASSUME NEW b \in Addr
             PROVE  clients'[b] + Cardinality(Admitted(b))' < Overshoot
  BY DEF OvershootBounded, Overshoot
<1>1. Admitted(b)' = Admitted(b)
  BY DEF Admitted, ResetCount
<1>2. clients'[b] = 0 \/ clients'[b] = clients[b]
  BY DEF ResetCount, LimiterTypeOK
<1>3. clients[b] \in Nat /\ clients[b] + Cardinality(Admitted(b)) < Overshoot
  BY DEF OvershootBounded, LimiterTypeOK
<1> QED BY <1>1, <1>2, <1>3, AdmittedFinite, RequestsFinite, LimiterAssumption
        DEF Overshoot

LEMMA OvershootRefuse ==
  ASSUME LimiterTypeOK, OvershootBounded, NEW p \in Request, Refuse(p)
  PROVE  OvershootBounded'
<1>1. \A b \in Addr : Admitted(b)' = Admitted(b)
  BY DEF Admitted, Refuse, LimiterTypeOK
<1> QED BY <1>1 DEF OvershootBounded, Overshoot, Refuse

(* Whatever the interleaving of the looks, the counts and the resets, an   *)
(* address is admitted at most Limit - 1 times and once more for every     *)
(* request in flight in the life of one entry.                             *)
THEOREM OvershootIsBounded == LimiterSpec => []OvershootBounded
<1>1. LimiterInit => LimiterTypeOK /\ OvershootBounded
  BY TypeInit, OvershootInit
<1>2. LimiterTypeOK /\ OvershootBounded /\ [LimiterNext]_limiterVars
        => LimiterTypeOK' /\ OvershootBounded'
  <2> SUFFICES ASSUME LimiterTypeOK, OvershootBounded, [LimiterNext]_limiterVars
               PROVE  LimiterTypeOK' /\ OvershootBounded'
    OBVIOUS
  <2>1. LimiterTypeOK'
    BY TypeNext
  <2>2. ASSUME NEW p \in Request, NEW a \in Addr, Look(p, a) PROVE OvershootBounded'
    BY <2>2, OvershootLook
  <2>3. ASSUME NEW p \in Request, Count(p) PROVE OvershootBounded'
    BY <2>3, OvershootCount
  <2>4. ASSUME NEW p \in Request, Refuse(p) PROVE OvershootBounded'
    BY <2>4, OvershootRefuse
  <2>5. ASSUME NEW a \in Addr, ResetCount(a) PROVE OvershootBounded'
    BY <2>5, OvershootReset
  <2>6. ASSUME UNCHANGED limiterVars PROVE OvershootBounded'
    BY <2>6 DEF limiterVars, OvershootBounded, Overshoot, Admitted
  <2> QED BY <2>1, <2>2, <2>3, <2>4, <2>5, <2>6 DEF LimiterNext
<1> QED BY <1>1, <1>2, PTL DEF LimiterSpec

-----------------------------------------------------------------------------
(* The server *)

(* What an action does to a request other than its own: nothing.           *)
Undisturbed(p) ==
  /\ stage'[p] = stage[p]
  /\ waitLeft'[p] = waitLeft[p]
  /\ writeLeft'[p] = writeLeft[p]

-----------------------------------------------------------------------------
(* Type correctness *)

LEMMA ConnectionTypeInit == ServerInit => ConnectionTypeOK
BY ServerAssumption DEF ServerInit, ConnectionTypeOK

LEMMA DownType ==
  ASSUME NEW n \in Nat, NEW m \in 0 .. n
  PROVE  Down(m) \in 0 .. n /\ (m = 0 => Down(m) = 0) /\ (m > 0 => Down(m) = m - 1)
BY DEF Down

LEMMA ReturnType ==
  ASSUME ConnectionTypeOK, NEW p \in Request, Return(p)
  PROVE  ConnectionTypeOK'
BY ServerAssumption DEF ConnectionTypeOK, Return, processVars

LEMMA RequestType ==
  ASSUME ConnectionTypeOK, NEW p \in Request,
         (\E a \in Addr : Arrive(p, a)) \/ Serve(p) \/ Outcome(p)
  PROVE  ConnectionTypeOK'
<1> USE ServerAssumption DEF processVars
<1>1. ASSUME NEW a \in Addr, Arrive(p, a) PROVE ConnectionTypeOK'
  BY <1>1 DEF Arrive, ConnectionTypeOK
<1>2. CASE Admit(p)
  BY <1>2 DEF Admit, ConnectionTypeOK
<1>3. CASE Limited(p)
  BY <1>3, ReturnType DEF Limited
<1>4. CASE Reject(p)
  BY <1>4, ReturnType DEF Reject
<1>5. CASE BeginWait(p)
  BY <1>5 DEF BeginWait, ConnectionTypeOK
<1>6. CASE Outcome(p) \/ WaitOver(p)
  BY <1>6, ReturnType DEF Outcome, WaitOver
<1> QED BY <1>1, <1>2, <1>3, <1>4, <1>5, <1>6 DEF Serve

LEMMA TimeType == ASSUME ConnectionTypeOK, TimePasses PROVE ConnectionTypeOK'
<1>1. graceLeft' \in 0 .. Grace
  BY DownType, ServerAssumption DEF TimePasses, ConnectionTypeOK
<1>2. waitLeft' \in [Request -> 0 .. CheckWait]
  BY DownType, ServerAssumption DEF TimePasses, ConnectionTypeOK
<1>3. writeLeft' \in [Request -> 0 .. WriteTimeout]
  BY DownType, ServerAssumption DEF TimePasses, ConnectionTypeOK
<1>4. \A p \in Request : stage'[p] # "waiting" => waitLeft'[p] = 0
  BY DownType, ServerAssumption DEF TimePasses, ConnectionTypeOK
<1> QED BY <1>1, <1>2, <1>3, <1>4 DEF TimePasses, ConnectionTypeOK

LEMMA ConnectionTypeNext == ConnectionTypeOK /\ [ServerNext]_serverVars => ConnectionTypeOK'
<1> SUFFICES ASSUME ConnectionTypeOK, [ServerNext]_serverVars PROVE ConnectionTypeOK'
  OBVIOUS
<1> USE ServerAssumption DEF requestVars, processVars
<1>1. ASSUME NEW p \in Request,
             (\E a \in Addr : Arrive(p, a)) \/ Serve(p) \/ Outcome(p)
      PROVE  ConnectionTypeOK'
  BY <1>1, RequestType
<1>2. ASSUME NEW a \in Addr, WindowEnds(a) PROVE ConnectionTypeOK'
  BY <1>2 DEF WindowEnds, ConnectionTypeOK
<1>3. CASE Signal
  BY <1>3 DEF Signal, ConnectionTypeOK
<1>4. CASE Drained
  BY <1>4 DEF Drained, ConnectionTypeOK
<1>5. CASE GraceOver
  BY <1>5 DEF GraceOver, ConnectionTypeOK
<1>6. CASE TimePasses
  BY <1>6, TimeType
<1>7. CASE UNCHANGED serverVars
  BY <1>7 DEF serverVars, ConnectionTypeOK
<1> QED BY <1>1, <1>2, <1>3, <1>4, <1>5, <1>6, <1>7 DEF ServerNext, End

LEMMA ConnectionTypeCorrect == ServerSpec => []ConnectionTypeOK
BY ConnectionTypeInit, ConnectionTypeNext, PTL DEF ServerSpec

-----------------------------------------------------------------------------
(* The limiter behind the connections *)

LEMMA ServerLimiterStep == [ServerNext]_serverVars => [LimiterNext]_limiterVars
<1> SUFFICES ASSUME [ServerNext]_serverVars, limiterVars' # limiterVars PROVE LimiterNext
  OBVIOUS
<1>1. ASSUME NEW p \in Request, NEW a \in Addr, Arrive(p, a) PROVE LimiterNext
  BY <1>1 DEF Arrive, LimiterNext
<1>2. ASSUME NEW p \in Request, Serve(p) \/ Outcome(p) PROVE LimiterNext
  <2>1. CASE Admit(p)
    BY <2>1 DEF Admit, LimiterNext
  <2>2. CASE Limited(p)
    BY <2>2 DEF Limited, LimiterNext
  <2> QED BY <1>2, <2>1, <2>2 DEF Serve, Reject, BeginWait, WaitOver, Outcome
<1>3. ASSUME NEW a \in Addr, WindowEnds(a) PROVE LimiterNext
  BY <1>3 DEF WindowEnds, LimiterNext
<1> QED BY <1>1, <1>2, <1>3
        DEF ServerNext, End, Signal, Drained, GraceOver, TimePasses, serverVars

(* Behind the connections the limiter behaves as it does alone             *)
(* (middleware.go:7-18): requests that wait, end late or are cut off make  *)
(* no difference to it.                                                    *)
THEOREM ServerUsesLimiter == ServerSpec => LimiterSpec
<1>1. ServerInit => LimiterInit
  BY DEF ServerInit
<1> QED BY <1>1, ServerLimiterStep, PTL DEF ServerSpec, LimiterSpec

(* The counts of the limiter, the timers and the stages keep their types,  *)
(* and only a handler that waits has a wait left.                          *)
THEOREM ServerTypeCorrect == ServerSpec => []ServerTypeOK
BY ConnectionTypeCorrect, ServerUsesLimiter, LimiterTypeCorrect, PTL DEF ServerTypeOK

(* So the race of Allow (fixed-window.go:23-40) overshoots by as little in *)
(* the server as it does alone.                                            *)
COROLLARY ServerOvershootIsBounded == ServerSpec => []OvershootBounded
BY ServerUsesLimiter, OvershootIsBounded, PTL

-----------------------------------------------------------------------------
(* Requests that wait *)

(* A step of the server ends the wait of p, counts it down, or does not    *)
(* touch it.                                                               *)
LEMMA WaitingStep ==
  ASSUME ConnectionTypeOK, [ServerNext]_serverVars, NEW p \in Request, stage[p] = "waiting"
  PROVE  Outcome(p) \/ TimePasses \/ Undisturbed(p)
<1> USE DEF ConnectionTypeOK, Undisturbed
<1>1. ASSUME NEW q \in Request, NEW a \in Addr, Arrive(q, a) PROVE Undisturbed(p)
  BY <1>1 DEF Arrive
<1>2. ASSUME NEW q \in Request, Serve(q) \/ Outcome(q), ~ Outcome(p) PROVE Undisturbed(p)
  <2>1. CASE Admit(q)
    BY <2>1 DEF Admit
  <2>2. CASE Limited(q)
    BY <2>2 DEF Limited, Return
  <2>3. CASE Reject(q)
    BY <2>3 DEF Reject, Return
  <2>4. CASE BeginWait(q)
    BY <2>4 DEF BeginWait
  <2>5. CASE Outcome(q) \/ WaitOver(q)
    BY <1>2, <2>5 DEF Outcome, WaitOver, Return
  <2> QED BY <1>2, <2>1, <2>2, <2>3, <2>4, <2>5 DEF Serve
<1>3. CASE \/ \E a \in Addr : WindowEnds(a)
           \/ Signal \/ End
           \/ UNCHANGED serverVars
  BY <1>3 DEF WindowEnds, Signal, End, Drained, GraceOver, serverVars, requestVars
<1> QED BY <1>1, <1>2, <1>3 DEF ServerNext

LEMMA InTimeStep ==
  ASSUME ConnectionTypeOK, [ServerNext]_serverVars, NEW p \in Request, InTime(p)
  PROVE  InTime(p)' \/ told'[p] \in {"answered", "killed"}
<1>1. stage[p] = "waiting" /\ waitLeft[p] < writeLeft[p]
  BY DEF InTime
<1>2. waitLeft[p] \in Nat /\ writeLeft[p] \in Nat /\ writeLeft[p] > 0
  BY <1>1, ServerAssumption DEF ConnectionTypeOK
<1>3. CASE Outcome(p)
  BY <1>2, <1>3 DEF Outcome, Return, ConnectionTypeOK
<1>4. CASE TimePasses
  BY <1>1, <1>2, <1>4 DEF TimePasses, InTime, Down
<1>5. CASE Undisturbed(p)
  BY <1>1, <1>5 DEF Undisturbed, InTime
<1> QED BY <1>1, <1>3, <1>4, <1>5, WaitingStep

(* For all timeouts: a wait that began early enough is answered before the *)
(* connection refuses the answer, whatever happens to the check.           *)
THEOREM AnswersAreInTime == ServerSpec => AnsweredInTime
<1>1. ConnectionTypeOK /\ [ServerNext]_serverVars =>
        \A p \in Request :
          InTime(p) => InTime(p)' \/ told'[p] \in {"answered", "killed"}
  BY InTimeStep
<1> QED BY <1>1, ConnectionTypeCorrect, PTL DEF ServerSpec, AnsweredInTime

LEMMA InGraceStep ==
  ASSUME ConnectionTypeOK, [ServerNext]_serverVars, NEW p \in Request, InGrace(p)
  PROVE  InGrace(p)' \/ told'[p] \in {"answered", "late"}
<1>1. process = "draining" /\ stage[p] = "waiting" /\ waitLeft[p] < graceLeft
  BY DEF InGrace
<1>2. waitLeft[p] \in Nat /\ graceLeft \in Nat /\ graceLeft > 0
  BY <1>1, ServerAssumption DEF ConnectionTypeOK
<1>3. CASE Outcome(p)
  BY <1>3 DEF Outcome, Return, ConnectionTypeOK
<1>4. CASE TimePasses
  BY <1>1, <1>2, <1>4 DEF TimePasses, InGrace, Down
<1>5. CASE Undisturbed(p) /\ ~ TimePasses
  <2>1. process' = process /\ graceLeft' = graceLeft
    <3>1. ASSUME NEW q \in Request,
                 (\E a \in Addr : Arrive(q, a)) \/ Serve(q) \/ Outcome(q)
          PROVE  UNCHANGED processVars
      BY <3>1 DEF Arrive, Serve, Admit, Limited, Reject, BeginWait, WaitOver,
                  Outcome, Return
    <3>2. ~ Signal /\ ~ Drained /\ ~ GraceOver
      BY <1>1, <1>2 DEF Signal, Drained, GraceOver, Active
    <3> QED BY <1>5, <3>1, <3>2
            DEF ServerNext, End, WindowEnds, serverVars, processVars
  <2> QED BY <1>1, <1>5, <2>1 DEF Undisturbed, InGrace
<1> QED BY <1>1, <1>3, <1>4, <1>5, WaitingStep

(* For all timeouts: Shutdown cuts off no wait that ends within the grace. *)
THEOREM ShutdownCutsNoneShort == ServerSpec => ShutdownWaits
<1>1. ConnectionTypeOK /\ [ServerNext]_serverVars =>
        \A p \in Request :
          InGrace(p) => InGrace(p)' \/ told'[p] \in {"answered", "late"}
  BY InGraceStep
<1> QED BY <1>1, ConnectionTypeCorrect, PTL DEF ServerSpec, ShutdownWaits

=============================================================================
