---------------------------- MODULE EventBusOnce ----------------------------
(***************************************************************************)
(* EventBus with publishers that publish every message at most once, as    *)
(* every call of Publish has a new event, with an ID of its own: how many  *)
(* copies the retries and the lost connections make of a message, and how  *)
(* often it is attempted.                                                  *)
(***************************************************************************)
EXTENDS EventBus, FiniteSets

VARIABLE sent  \* the messages published so far

onceVars == <<busVars, sent>>

PublishOnce(m) == Publish(m) /\ m \notin sent /\ sent' = sent \cup {m}

OnceConsumer(q) == Consumer(q) /\ UNCHANGED sent

OnceInit == BusInit /\ sent = {}

OnceNext ==
  \/ \E m \in Message : PublishOnce(m)
  \/ \E q \in Queue : OnceConsumer(q)
  \/ ConnectionLost /\ UNCHANGED sent
  \/ Restart /\ UNCHANGED sent

OnceSpec == OnceInit /\ [][OnceNext]_onceVars

(* The goroutines and the broker keep going; no fairness for publishers,   *)
(* for the loss of a connection or for a restart.                          *)
FairOnceSpec == OnceSpec /\ \A q \in Queue : WF_onceVars(OnceConsumer(q))

-----------------------------------------------------------------------------
(* Properties *)

(* Where a message stands in a sequence of deliveries.                     *)
Places(s, m) == {i \in 1..Len(s) : s[i].msg = m}

(* The copies the broker holds that are still to be handled or settled: a  *)
(* delivery that is copied only waits for its acknowledgement.             *)
Copies(q, m) ==
  Cardinality(Places(queue[q], m))
    + IF connected /\ phase[q] # "copied" /\ m \in InHand(q) THEN 1 ELSE 0

(* Only a lost connection duplicates work: a message published once is at  *)
(* the broker once, and once more for every loss, the copy of a retry      *)
(* included (rabbitmq.go:240-262 publishes it before the acknowledgement). *)
DuplicatesNeedLoss ==
  \A q \in Queue, m \in Message : Copies(q, m) <= 1 + losses

(* As long as the connection holds no message is attempted more often than *)
(* once and MaxRetries retries (rabbitmq.go:17, 212).                      *)
AttemptsBounded ==
  losses = 0 => \A q \in Queue, m \in Message :
                  failures[q][m] <= MaxRetries + 1

(* Nothing a queue owes waits for ever while the connection holds: behind  *)
(* other messages or after retries that go to the tail of the queue, it is *)
(* handled or given up to the dead letter queue.                           *)
EventuallySettled ==
  \A q \in Queue, m \in Message :
    m \in Owed[q] ~> (m \in Settled[q] \/ ~connected)

=============================================================================
