------------------------------ MODULE EventBus ------------------------------
(***************************************************************************)
(* The message bus of internal/infrastructure/rabbitmq/rabbitmq.go: one    *)
(* connection and one channel, a durable topic exchange aml.events, one    *)
(* durable queue and one consumer goroutine per Subscribe, and the fanout  *)
(* exchange aml.dlq with a dead letter queue per subscription.             *)
(*                                                                         *)
(* A consumer runs its handler and, when the handler returns an error,     *)
(* publishes a second copy of the message with a higher retry count        *)
(* before it acknowledges the first: two broker operations with a window   *)
(* between them.  The broker returns what is not acknowledged to its queue *)
(* when the connection drops, and the bus never connects again: only a     *)
(* restart of the process does.                                            *)
(*                                                                         *)
(* The handler is a parameter of Subscribe (rabbitmq.go:106): here its     *)
(* outcome is free, CheckPipeline composes this module with the real ones. *)
(***************************************************************************)
EXTENDS Naturals, Sequences

CONSTANTS
  Queue,       \* the queues of the Subscribe calls
  Message,     \* the events, as routing key and body
  Binding,     \* Binding[q]: the messages the routing keys of q select
  MaxRetries,  \* rabbitmq.go:17
  MaxLosses    \* bound: how often the connection is lost

(* No routing key is bound to two queues: aml_worker.go:38-42 binds one    *)
(* key, report_worker.go:41-45 two others.                                 *)
ASSUME BusAssumption ==
  /\ Binding \in [Queue -> SUBSET Message]
  /\ \A q, r \in Queue : q # r => Binding[q] \cap Binding[r] = {}
  /\ MaxRetries \in Nat
  /\ MaxLosses \in Nat

VARIABLES
  queue,      \* queue[q]: what the broker holds ready, oldest first
  job,        \* job[q]: the delivery the consumer of q works on, or << >>
  phase,      \* phase[q]: where the consumer goroutine of q stands
  dlq,        \* dlq[q]: the letters in the dead letter queue of q
  connected,  \* is the connection of this process up?
  losses,     \* how often it was lost
  failures,   \* history: failures[q][m], the handler's errors for m
  handled     \* history: handled[q], what the handler returned nil for

brokerVars  == <<queue, dlq, connected, losses>>
historyVars == <<failures, handled>>
busVars     == <<queue, job, phase, dlq, connected, losses, failures, handled>>

-----------------------------------------------------------------------------
(* Types and helpers *)

Delivery == [msg : Message, retry : Nat]
Letter   == [origin : Queue, msg : Message]
Phase    == {"idle", "handling", "ok", "err", "copied", "nack", "stopped"}

Entries(s) == {s[i] : i \in 1..Len(s)}

(* A delivery without the header x-retry-count counts zero retries.        *)
Fresh(m) == [msg |-> m, retry |-> 0]

Route(d) == [q \in Queue |-> IF d.msg \in Binding[q]
                             THEN Append(queue[q], d) ELSE queue[q]]

Goto(q, from, to) == phase[q] = from /\ phase' = [phase EXCEPT ![q] = to]

-----------------------------------------------------------------------------
(* What the process does *)

(* Publish hands one message to the exchange; it returns an error, and     *)
(* changes nothing, when the connection is down.                           *)
Publish(m) ==
  /\ connected
  /\ queue' = Route(Fresh(m))
  /\ UNCHANGED <<job, phase, dlq, connected, losses, failures, handled>>

(* The broker pushes one message, Qos(1), and the goroutine receives it.   *)
Deliver(q) ==
  /\ connected
  /\ Goto(q, "idle", "handling")
  /\ queue[q] # << >>
  /\ job' = [job EXCEPT ![q] = <<Head(queue[q])>>]
  /\ queue' = [queue EXCEPT ![q] = Tail(@)]
  /\ UNCHANGED <<dlq, connected, losses, failures, handled>>

HandlerOk(q) ==
  /\ Goto(q, "handling", "ok")
  /\ handled' = [handled EXCEPT ![q] = @ \cup {job[q][1].msg}]
  /\ UNCHANGED <<queue, job, dlq, connected, losses, failures>>

HandlerErr(q) ==
  /\ Goto(q, "handling", "err")
  /\ failures' = [failures EXCEPT ![q][job[q][1].msg] = @ + 1]
  /\ UNCHANGED <<queue, job, dlq, connected, losses, handled>>

(* Mutant: the copy does not count the attempt.                            *)
RetryUncounted(q) ==
  /\ connected
  /\ Goto(q, "err", "copied")
  /\ job[q][1].retry < MaxRetries
  /\ queue' = Route(job[q][1])
  /\ UNCHANGED <<job, dlq, connected, losses, failures, handled>>

(* A failed delivery goes back to the exchange with its own routing key.   *)
Retry(q) ==
  /\ connected
  /\ Goto(q, "err", "copied")
  /\ job[q][1].retry < MaxRetries
  /\ queue' = Route([job[q][1] EXCEPT !.retry = @ + 1])
  /\ UNCHANGED <<job, dlq, connected, losses, failures, handled>>

(* Mutants: the limit is compared one too early, and one too late; the     *)
(* letter is not published.                                                *)
DeadLetterEarly(q) ==
  /\ connected
  /\ Goto(q, "err", "copied")
  /\ job[q][1].retry + 1 >= MaxRetries
  /\ dlq' = [r \in Queue |-> dlq[r] \cup {[origin |-> q, msg |-> job[q][1].msg]}]
  /\ UNCHANGED <<queue, job, connected, losses, failures, handled>>

DeadLetterLate(q) ==
  /\ connected
  /\ Goto(q, "err", "copied")
  /\ job[q][1].retry > MaxRetries
  /\ dlq' = [r \in Queue |-> dlq[r] \cup {[origin |-> q, msg |-> job[q][1].msg]}]
  /\ UNCHANGED <<queue, job, connected, losses, failures, handled>>

DeadLetterDropped(q) ==
  /\ connected
  /\ Goto(q, "err", "copied")
  /\ job[q][1].retry >= MaxRetries
  /\ UNCHANGED <<queue, job, dlq, connected, losses, failures, handled>>

(* A delivery out of retries goes to aml.dlq, a fanout exchange: every     *)
(* dead letter queue gets it, whichever queue it comes from.               *)
DeadLetter(q) ==
  /\ connected
  /\ Goto(q, "err", "copied")
  /\ job[q][1].retry >= MaxRetries
  /\ dlq' = [r \in Queue |-> dlq[r] \cup {[origin |-> q, msg |-> job[q][1].msg]}]
  /\ UNCHANGED <<queue, job, connected, losses, failures, handled>>

(* Either publish fails when the connection is down.                       *)
PublishFails(q) ==
  /\ ~connected
  /\ Goto(q, "err", "nack")
  /\ UNCHANGED <<queue, job, dlq, connected, losses, failures, handled>>

(* Mutants: the delivery is kept, and it is requeued after its copy.       *)
AckKeeps(q) ==
  /\ Goto(q, "ok", "idle") \/ Goto(q, "copied", "idle")
  /\ UNCHANGED <<queue, job, dlq, connected, losses, failures, handled>>

AckRequeues(q) ==
  /\ Goto(q, "ok", "idle") \/ Goto(q, "copied", "idle")
  /\ job' = [job EXCEPT ![q] = << >>]
  /\ queue' = IF phase[q] = "copied" THEN [queue EXCEPT ![q] = job[q] \o @] ELSE queue
  /\ UNCHANGED <<dlq, connected, losses, failures, handled>>

(* While the connection is up the broker forgets an acknowledged delivery; *)
(* when it is down Ack returns an error nobody reads.                      *)
Ack(q) ==
  /\ Goto(q, "ok", "idle") \/ Goto(q, "copied", "idle")
  /\ job' = [job EXCEPT ![q] = << >>]
  /\ UNCHANGED <<queue, dlq, connected, losses, failures, handled>>

(* Nack follows a publish that failed because the connection is down, so   *)
(* it never reaches the broker, whether it asks to requeue or not.         *)
Nack(q) ==
  /\ Goto(q, "nack", "idle")
  /\ job' = [job EXCEPT ![q] = << >>]
  /\ UNCHANGED <<queue, dlq, connected, losses, failures, handled>>

(* The delivery channel is closed: the goroutine returns for good.         *)
Stop(q) ==
  /\ ~connected
  /\ Goto(q, "idle", "stopped")
  /\ UNCHANGED <<queue, job, dlq, connected, losses, failures, handled>>

-----------------------------------------------------------------------------
(* What happens to the process *)

(* The broker puts what is not acknowledged back at the head of its queue; *)
(* the goroutines keep their copy and go on.                               *)
ConnectionLost ==
  /\ connected
  /\ losses < MaxLosses
  /\ connected' = FALSE
  /\ losses' = losses + 1
  /\ queue' = [q \in Queue |-> job[q] \o queue[q]]
  /\ UNCHANGED <<job, phase, dlq, failures, handled>>

(* The process starts again, NewRabbitMQBus and Subscribe find the durable *)
(* queues.  A crash is ConnectionLost followed at once by Restart.         *)
Restart ==
  /\ ~connected
  /\ connected' = TRUE
  /\ job' = [q \in Queue |-> << >>]
  /\ phase' = [q \in Queue |-> "idle"]
  /\ UNCHANGED <<queue, dlq, losses, failures, handled>>

-----------------------------------------------------------------------------
(* Specification *)

BusInit ==
  /\ queue = [q \in Queue |-> << >>]
  /\ job = [q \in Queue |-> << >>]
  /\ phase = [q \in Queue |-> "idle"]
  /\ dlq = [q \in Queue |-> {}]
  /\ connected = TRUE
  /\ losses = 0
  /\ failures = [q \in Queue |-> [m \in Message |-> 0]]
  /\ handled = [q \in Queue |-> {}]

Handler(q)  == HandlerOk(q) \/ HandlerErr(q)
Settling(q) == \/ Retry(q) \/ DeadLetter(q) \/ PublishFails(q)
               \/ Ack(q) \/ Nack(q) \/ Stop(q)
Consumer(q) == Deliver(q) \/ Handler(q) \/ Settling(q)

BusNext ==
  \/ \E m \in Message : Publish(m)
  \/ \E q \in Queue : Consumer(q)
  \/ ConnectionLost
  \/ Restart

BusSpec == BusInit /\ [][BusNext]_busVars

-----------------------------------------------------------------------------
(* Properties *)

InQueue(q) == {d.msg : d \in Entries(queue[q])}
InHand(q)  == {d.msg : d \in Entries(job[q])}
Dead(q)    == {l.msg : l \in {k \in dlq[q] : k.origin = q}}

(* What the broker still holds for a queue, and what is finished with.     *)
Owed    == [q \in Queue |-> InQueue(q) \cup (IF connected THEN InHand(q) ELSE {})]
Settled == [q \in Queue |-> handled[q] \cup Dead(q)]

(* Every variable has its type; a consumer that holds no delivery is idle  *)
(* or has stopped.                                                         *)
BusTypeOK ==
  /\ queue \in [Queue -> Seq(Delivery)]
  /\ job \in [Queue -> Seq(Delivery)]
  /\ \A q \in Queue : Len(job[q]) <= 1
  /\ \A q \in Queue : (job[q] = << >>) <=> (phase[q] \in {"idle", "stopped"})
  /\ phase \in [Queue -> Phase]
  /\ dlq \in [Queue -> SUBSET Letter]
  /\ connected \in BOOLEAN
  /\ losses \in Nat
  /\ failures \in [Queue -> [Message -> Nat]]
  /\ handled \in [Queue -> SUBSET Message]

(* A message lies in a dead letter queue only after its handler failed on  *)
(* every attempt the retry limit allows, whatever copies a lost connection *)
(* made of it (rabbitmq.go:202-264).                                       *)
DeadAfterRetries ==
  \A q \in Queue : \A l \in dlq[q] : failures[l.origin][l.msg] > MaxRetries

(* The bus is a work ledger: what the exchange accepted stays owed until   *)
(* its handler succeeded or it is in the dead letter queue.                *)
Ledger == INSTANCE WorkLedger WITH owed <- Owed, settled <- Settled
LedgerSpec == Ledger!LedgerSpec

=============================================================================
