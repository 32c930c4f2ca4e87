----------------------------- MODULE WorkLedger -----------------------------
(***************************************************************************)
(* What the bus promises a publisher, without queues, deliveries, retry    *)
(* counts or acknowledgements: an accepted message is owed to the queue    *)
(* its routing key selects, it may be settled (handled, or given up to the *)
(* dead letter queue) while it is owed, more than once if need be, and it  *)
(* is forgotten only after it has been settled.  EventBus implements this. *)
(***************************************************************************)
CONSTANTS
  Queue,    \* the queues
  Message,  \* the messages
  Binding   \* Binding[q]: the messages queue q takes

VARIABLES
  owed,     \* owed[q]: accepted and not yet forgotten
  settled   \* settled[q]: handled or dead lettered at least once

ledgerVars == <<owed, settled>>

LedgerInit ==
  /\ owed = [q \in Queue |-> {}]
  /\ settled = [q \in Queue |-> {}]

(* rabbitmq.go:84: the exchange routes a published message. *)
Accept(q, m) ==
  /\ m \in Binding[q]
  /\ owed' = [owed EXCEPT ![q] = @ \cup {m}]
  /\ UNCHANGED settled

(* rabbitmq.go:200, 215: the handler returns nil or the letter is dead. *)
Settle(q, m) ==
  /\ m \in owed[q]
  /\ settled' = [settled EXCEPT ![q] = @ \cup {m}]
  /\ UNCHANGED owed

(* rabbitmq.go:238, 262, 266: the last copy is acknowledged. *)
Forget(q, m) ==
  /\ m \in owed[q] \cap settled[q]
  /\ owed' = [owed EXCEPT ![q] = @ \ {m}]
  /\ UNCHANGED settled

LedgerNext ==
  \E q \in Queue, m \in Message : Accept(q, m) \/ Settle(q, m) \/ Forget(q, m)

LedgerSpec == LedgerInit /\ [][LedgerNext]_ledgerVars

=============================================================================
