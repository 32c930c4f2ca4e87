------------------------------- MODULE Server -------------------------------
(***************************************************************************)
(* POST requests from the connection to the answer, and the end of the     *)
(* process (api.go): the rate limiter in front of the handler, the bounded *)
(* wait of CheckAddress (handlers.go:103-143) inside the write timeout of  *)
(* the connection, and a signal after which Shutdown waits for the         *)
(* handlers, but only so long.                                             *)
(*                                                                         *)
(* Times are what is left of them: timers run down together.  A request    *)
(* is a goroutine of RateLimiter that goes on after it was counted.        *)
(***************************************************************************)
EXTENDS RateLimiter

CONSTANTS
  CheckWait,     \* CHECK_WAIT_SECONDS
  WriteTimeout,  \* http.Server.WriteTimeout
  Grace          \* the context of Shutdown

ASSUME ServerAssumption ==
  {CheckWait, WriteTimeout, Grace} \subseteq Nat \ {0} /\ CheckWait <= WriteTimeout

VARIABLES
  process,    \* "up", "draining" after a signal, or "ended"
  graceLeft,  \* what Shutdown still waits
  stage,      \* stage[p]: "idle", "limiter", "initiating" or "waiting"
  waitLeft,   \* waitLeft[p]: what the handler still waits
  writeLeft,  \* writeLeft[p]: what the connection still takes an answer
  told        \* told[p]: how the last request of p ended

requestVars == <<stage, waitLeft, writeLeft, told>>
processVars == <<process, graceLeft>>
serverVars  == <<limiterVars, requestVars, processVars>>

Active == {p \in Request : stage[p] # "idle"}

-----------------------------------------------------------------------------
(* A request *)

Arrive(p, a) ==
  /\ process = "up"
  /\ stage[p] = "idle"
  /\ Look(p, a)
  /\ stage' = [stage EXCEPT ![p] = "limiter"]
  /\ writeLeft' = [writeLeft EXCEPT ![p] = WriteTimeout]
  /\ told' = [told EXCEPT ![p] = "nothing"]
  /\ UNCHANGED <<waitLeft, processVars>>

Admit(p) ==
  /\ process # "ended"
  /\ stage[p] = "limiter"
  /\ Count(p)
  /\ stage' = [stage EXCEPT ![p] = "initiating"]
  /\ UNCHANGED <<waitLeft, writeLeft, told, processVars>>

(* Mutant: the context of the wait is not cancelled.                       *)
ReturnUncancelled(p) ==
  /\ stage' = [stage EXCEPT ![p] = "idle"]
  /\ told' = [told EXCEPT ![p] = IF writeLeft[p] > 0 THEN "answered" ELSE "late"]
  /\ writeLeft' = [writeLeft EXCEPT ![p] = 0]
  /\ UNCHANGED <<waitLeft, processVars>>

(* The handler of p returns; what it writes after the write timeout is     *)
(* lost without an error it would see.                                     *)
Return(p) ==
  /\ stage' = [stage EXCEPT ![p] = "idle"]
  /\ told' = [told EXCEPT ![p] = IF writeLeft[p] > 0 THEN "answered" ELSE "late"]
  /\ waitLeft' = [waitLeft EXCEPT ![p] = 0]
  /\ writeLeft' = [writeLeft EXCEPT ![p] = 0]
  /\ UNCHANGED processVars

(* 429 *)
Limited(p) ==
  /\ process # "ended"
  /\ stage[p] = "limiter"
  /\ Refuse(p)
  /\ Return(p)

(* 400 or 500: no check was initiated.                                     *)
Reject(p) ==
  /\ process # "ended"
  /\ stage[p] = "initiating"
  /\ Return(p)
  /\ UNCHANGED limiterVars

(* The check is initiated, and the wait begins: not with the request.      *)
BeginWait(p) ==
  /\ process # "ended"
  /\ stage[p] = "initiating"
  /\ stage' = [stage EXCEPT ![p] = "waiting"]
  /\ waitLeft' = [waitLeft EXCEPT ![p] = CheckWait]
  /\ UNCHANGED <<writeLeft, told, limiterVars, processVars>>

(* A tick finds an outcome, or the client is gone and its context done.    *)
Outcome(p) ==
  /\ process # "ended"
  /\ stage[p] = "waiting"
  /\ Return(p)
  /\ UNCHANGED limiterVars

(* Mutant: every turn of the loop begins a wait of its own.                *)
WaitRenewed(p) ==
  /\ process # "ended"
  /\ stage[p] = "waiting"
  /\ waitLeft[p] = 0
  /\ waitLeft' = [waitLeft EXCEPT ![p] = CheckWait]
  /\ UNCHANGED <<stage, writeLeft, told, limiterVars, processVars>>

(* The wait is over: 202 with the URL to poll.                             *)
WaitOver(p) ==
  /\ waitLeft[p] = 0
  /\ Outcome(p)

-----------------------------------------------------------------------------
(* The process *)

(* SIGINT or SIGTERM: Shutdown closes the listener and waits.              *)
Signal ==
  /\ process = "up"
  /\ process' = "draining"
  /\ graceLeft' = Grace
  /\ UNCHANGED <<limiterVars, requestVars>>

Drained ==
  /\ process = "draining"
  /\ Active = {}
  /\ process' = "ended"
  /\ graceLeft' = 0
  /\ UNCHANGED <<limiterVars, requestVars>>

(* Mutant: the server is closed at once.                                   *)
CloseNow ==
  /\ process = "draining"
  /\ process' = "ended"
  /\ told' = [p \in Request |-> IF p \in Active THEN "killed" ELSE told[p]]
  /\ UNCHANGED <<graceLeft, stage, waitLeft, writeLeft, limiterVars>>

(* Shutdown gives up; main ends the process by logger.Fatal.               *)
GraceOver ==
  /\ process = "draining"
  /\ graceLeft = 0
  /\ Active # {}
  /\ process' = "ended"
  /\ told' = [p \in Request |-> IF p \in Active THEN "killed" ELSE told[p]]
  /\ UNCHANGED <<graceLeft, stage, waitLeft, writeLeft, limiterVars>>

Down(n) == IF n > 0 THEN n - 1 ELSE 0

(* Mutant: contexts without a timeout: neither wait nor grace run down.    *)
TimeStops ==
  /\ process # "ended"
  /\ process = "draining" => graceLeft > 0
  /\ \A p \in Request : stage[p] = "waiting" => waitLeft[p] > 0
  /\ writeLeft' = [p \in Request |-> Down(writeLeft[p])]
  /\ UNCHANGED <<waitLeft, graceLeft, process, stage, told, limiterVars>>

(* A timer that ran down fires before time goes on: the handler and main   *)
(* only wait.  Execute, in "initiating", may take any time.                *)
TimePasses ==
  /\ process # "ended"
  /\ process = "draining" => graceLeft > 0
  /\ \A p \in Request : stage[p] = "waiting" => waitLeft[p] > 0
  /\ waitLeft' = [p \in Request |-> Down(waitLeft[p])]
  /\ writeLeft' = [p \in Request |-> Down(writeLeft[p])]
  /\ graceLeft' = Down(graceLeft)
  /\ UNCHANGED <<process, stage, told, limiterVars>>

WindowEnds(a) ==
  /\ process # "ended"
  /\ ResetCount(a)
  /\ UNCHANGED <<requestVars, processVars>>

-----------------------------------------------------------------------------

ServerInit ==
  /\ LimiterInit
  /\ process = "up"
  /\ graceLeft = 0
  /\ stage = [p \in Request |-> "idle"]
  /\ waitLeft = [p \in Request |-> 0]
  /\ writeLeft = [p \in Request |-> 0]
  /\ told = [p \in Request |-> "nothing"]

(* What the goroutine of p does without an event from outside.             *)
Serve(p) == Admit(p) \/ Limited(p) \/ Reject(p) \/ BeginWait(p) \/ WaitOver(p)

End == Drained \/ GraceOver

ServerNext ==
  \/ \E p \in Request : (\E a \in Addr : Arrive(p, a)) \/ Serve(p) \/ Outcome(p)
  \/ \E a \in Addr : WindowEnds(a)
  \/ Signal
  \/ End
  \/ TimePasses

ServerSpec == ServerInit /\ [][ServerNext]_serverVars

(* Time goes on, handlers run, and main does when Shutdown returns.  No    *)
(* outcome need ever come, and nobody has to send a signal.                *)
ServerFairness ==
  /\ WF_serverVars(TimePasses)
  /\ \A p \in Request : WF_serverVars(Serve(p))
  /\ WF_serverVars(End)

-----------------------------------------------------------------------------
(* Properties *)

(* The process and the connections: a handler has time left only while it  *)
(* is at work.                                                             *)
ConnectionTypeOK ==
  /\ process \in {"up", "draining", "ended"}
  /\ graceLeft \in 0 .. Grace
  /\ stage \in [Request -> {"idle", "limiter", "initiating", "waiting"}]
  /\ waitLeft \in [Request -> 0 .. CheckWait]
  /\ writeLeft \in [Request -> 0 .. WriteTimeout]
  /\ told \in [Request -> {"nothing", "answered", "late", "killed"}]
  /\ \A p \in Request : stage[p] # "waiting" => waitLeft[p] = 0

(* Every variable has its type, those of the limiter included.             *)
ServerTypeOK == LimiterTypeOK /\ ConnectionTypeOK

(* A request that waits, with less of the wait left than of the write      *)
(* timeout.                                                                *)
InTime(p) == stage[p] = "waiting" /\ waitLeft[p] < writeLeft[p]

(* Once the wait began early enough the client gets its answer, an outcome *)
(* or 202, before the connection refuses it, whatever the providers and    *)
(* the bus do (handlers.go:104, api.go:105: 20 seconds in 30, of which     *)
(* reading the request may take 10).                                       *)
AnsweredInTime ==
  [][\A p \in Request :
       InTime(p) => InTime(p)' \/ told'[p] \in {"answered", "killed"}]_serverVars

(* A request that waits, with less of the wait left than of the grace.     *)
InGrace(p) ==
  process = "draining" /\ stage[p] = "waiting" /\ waitLeft[p] < graceLeft

(* The end of the process cuts off no request that can end within the      *)
(* grace of Shutdown (api.go:119-124): it waits for the handlers, and its  *)
(* context outlives theirs.                                                *)
ShutdownWaits ==
  [][\A p \in Request :
       InGrace(p) => InGrace(p)' \/ told'[p] \in {"answered", "late"}]_serverVars

(* After a signal the process ends, whatever its requests wait for: the    *)
(* grace, 5 seconds, is shorter than a POST may take.                      *)
SignalEndsProcess == process = "draining" ~> process = "ended"

(* Every request comes to an end, even when no worker ever decides its     *)
(* check: no goroutine is held for ever.                                   *)
RequestsEnd ==
  \A p \in Request : stage[p] # "idle" ~> (stage[p] = "idle" \/ process = "ended")

=============================================================================
