-------------------------- MODULE CheckOutcomeProofs --------------------------
(***************************************************************************)
(* What becomes of a check, for any number of checks, results, retries and *)
(* crashes: its outcome is final, its report is the one its answer speaks  *)
(* of, its dead letters tell the truth, and it is never forgotten.         *)
(*                                                                         *)
(* All of this rests on what is in flight about one check while the        *)
(* repository has it.  The request is there at most once and is worked on  *)
(* at most until one result has been announced; every announced failure is *)
(* ahead of that result, and none of them is ever put back.  A process     *)
(* that lost its connection may see copies of all of them, but it receives *)
(* nothing any more, and the next one does not have the check.             *)
(***************************************************************************)
EXTENDS CheckPipelineProofs

-----------------------------------------------------------------------------
(* What is in flight *)

ReqQueue == Facts!InQueue(QueueAMLRequests)
ReqHand  == Facts!InHand(QueueAMLRequests)
RepQueue == Facts!InQueue(QueueReportJobs)
RepHand  == Facts!InHand(QueueReportJobs)
RepDead  == Facts!Dead(QueueReportJobs)

ResultsOf(c) == {Completed(c, r) : r \in Result}
About(c)     == ResultsOf(c) \cup {Failed(c)}

(* The order in the two queues: the request of c is there once, and no     *)
(* event about c is behind a result of c.                                  *)
ReqOrder(c) == Facts!Sealed(queue[QueueAMLRequests], {Requested(c)}, {Requested(c)})
RepOrder(c) == Facts!Sealed(queue[QueueReportJobs], ResultsOf(c), About(c))

(* Deliveries that are neither copied nor given up.                        *)
Live == {"handling", "ok", "err"}

LEMMA EventsDiffer ==
  ASSUME NEW c \in Check, NEW d \in Check
  PROVE  /\ Requested(c) = Requested(d) => c = d
         /\ Failed(c) = Failed(d) => c = d
         /\ Failed(d) \notin ResultsOf(c)
         /\ Failed(d) \in About(c) <=> c = d
         /\ \A r \in Result : /\ Completed(d, r) \in ResultsOf(c) <=> c = d
                              /\ Completed(d, r) \in About(c) <=> c = d
                              /\ Completed(d, r) # Failed(c)
BY DEF Requested, Failed, Completed, ResultsOf, About

(* A report event is about its check: it announces the failure or a result.*)
LEMMA EventIsAbout ==
  ASSUME NEW e \in ReportEvent, NEW c \in Check
  PROVE  /\ e.check \in Check
         /\ e \in About(c) <=> e.check = c
         /\ e \in ResultsOf(c) <=> e.check = c /\ e.type # "aml.check.failed"
         /\ e = Failed(c) <=> e.check = c /\ e.type = "aml.check.failed"
<1>1. CASE \E d \in Check : e = Failed(d)
  BY <1>1, EventsDiffer DEF Failed
<1>2. CASE \E d \in Check, r \in Result : e = Completed(d, r)
  <2>1. PICK d \in Check, r \in Result : e = Completed(d, r)
    BY <1>2
  <2>2. e.check = d /\ e.type = "aml.check.completed"
    BY <2>1 DEF Completed
  <2> QED BY <2>1, <2>2, EventsDiffer
<1> QED BY <1>1, <1>2 DEF ReportEvent

LEMMA EventQueues ==
  /\ QueueAMLRequests \in Queues /\ QueueReportJobs \in Queues
  /\ EventBinding[QueueAMLRequests] = RequestEvent
  /\ EventBinding[QueueReportJobs] = ReportEvent
  /\ \A c \in Check : Requested(c) \in RequestEvent /\ About(c) \subseteq ReportEvent
BY TwoQueues DEF Queues, EventBinding, RequestEvent, ReportEvent, About, ResultsOf

LEMMA SameActions ==
  /\ \A m \in Event : Bus!Publish(m) => Facts!Publish(m)
  /\ Bus!ConnectionLost => Facts!ConnectionLost
  /\ \A q \in Queues : /\ Bus!Deliver(q) => Facts!Deliver(q)
                       /\ Bus!Retry(q) => Facts!Retry(q)
                       /\ Bus!DeadLetter(q) => Facts!DeadLetter(q)
                       /\ Bus!Ack(q) => Facts!Ack(q)
                       /\ Bus!Nack(q) => Facts!Nack(q)
BY Zenon DEF Bus!Publish, Facts!Publish, Bus!Route, Facts!Route, Bus!Fresh, Facts!Fresh,
   Bus!ConnectionLost, Facts!ConnectionLost, Bus!Deliver, Facts!Deliver, Bus!Retry,
   Facts!Retry, Bus!DeadLetter, Facts!DeadLetter, Bus!Ack, Facts!Ack, Bus!Nack, Facts!Nack,
   Bus!Goto, Facts!Goto

LEMMA TypedQueues ==
  ASSUME BusFacts
  PROVE  /\ \A q \in Queues : queue[q] \in Seq(Facts!Delivery)
         /\ DOMAIN phase = Queues /\ DOMAIN job = Queues
BY DEF BusFacts, Facts!BusTypeOK

-----------------------------------------------------------------------------
(* What a step of the bus does to what is in flight *)

(* A delivery that is put at the end of queue q.                           *)
LEMMA Routing ==
  ASSUME BusFacts, NEW d \in Facts!Delivery, queue' = Facts!Route(d),
         NEW q \in Queues, NEW p \in Queues, p # q, d.msg \in EventBinding[q]
  PROVE  /\ queue'[q] = Append(queue[q], d)
         /\ queue'[p] = queue[p]
         /\ Facts!InQueue(q)' = Facts!InQueue(q) \cup {d.msg}
         /\ Facts!InQueue(p)' = Facts!InQueue(p)
<1>1. d.msg \notin EventBinding[p]
  BY BusAssumptionHolds DEF Facts!BusAssumption
<1>2. queue'[q] = Append(queue[q], d) /\ queue'[p] = queue[p]
  BY <1>1 DEF Facts!Route
<1>3. /\ Facts!InQueue(q)' = Facts!InQueue(q) \cup {d.msg}
      /\ Facts!InQueue(p)' = Facts!InQueue(p)
  BY <1>1, Facts!InQueueRoute, BusAssumptionHolds DEF BusFacts
<1> QED BY <1>2, <1>3

(* What Publish leaves alone.                                              *)
Elsewhere == /\ ReqHand' = ReqHand /\ RepHand' = RepHand /\ RepDead' = RepDead
             /\ phase' = phase /\ connected' = connected

LEMMA RequestPublished ==
  ASSUME BusFacts, NEW d \in Check, Bus!Publish(Requested(d))
  PROVE  /\ connected /\ Elsewhere
         /\ ReqQueue' = ReqQueue \cup {Requested(d)}
         /\ RepQueue' = RepQueue
         /\ \A c \in Check :
              /\ ReqOrder(c) /\ (c # d \/ Requested(c) \notin ReqQueue) => ReqOrder(c)'
              /\ RepOrder(c)' = RepOrder(c)
<1>0. Facts!Publish(Requested(d))
  BY SameActions, EventsAreTyped
<1> DEFINE e == Facts!Fresh(Requested(d))
<1>1. e \in Facts!Delivery /\ e.msg = Requested(d)
  BY EventsAreTyped DEF Facts!Fresh, Facts!Delivery
<1>2. queue' = Facts!Route(e)
  BY <1>0 DEF Facts!Publish
<1> HIDE DEF e
<1>3. /\ queue'[QueueAMLRequests] = Append(queue[QueueAMLRequests], e)
      /\ queue'[QueueReportJobs] = queue[QueueReportJobs]
      /\ ReqQueue' = ReqQueue \cup {Requested(d)}
      /\ RepQueue' = RepQueue
  BY <1>1, <1>2, Routing, EventQueues, TwoQueues DEF ReqQueue, RepQueue
<1>4. connected /\ Elsewhere
  BY <1>0 DEF Facts!Publish, Elsewhere, ReqHand, RepHand, RepDead, Facts!InHand, Facts!Dead
<1>5. ASSUME NEW c \in Check, ReqOrder(c), c # d \/ Requested(c) \notin ReqQueue
      PROVE  ReqOrder(c)'
  <2>1. e.msg \notin {Requested(c)}
          \/ \A x \in Facts!Entries(queue[QueueAMLRequests]) : x.msg \notin {Requested(c)}
    BY <1>1, <1>5, EventsDiffer DEF ReqQueue, Facts!InQueue
  <2> QED BY <1>1, <1>3, <1>5, <2>1, TypedQueues, EventQueues, Facts!SealedAppend,
             BusAssumptionHolds DEF ReqOrder
<1>6. ASSUME NEW c \in Check PROVE RepOrder(c)' = RepOrder(c)
  BY <1>3 DEF RepOrder
<1> QED BY <1>3, <1>4, <1>5, <1>6

LEMMA ReportPublished ==
  ASSUME BusFacts, NEW e \in ReportEvent, Bus!Publish(e)
  PROVE  /\ connected /\ Elsewhere
         /\ ReqQueue' = ReqQueue
         /\ RepQueue' = RepQueue \cup {e}
         /\ \A c \in Check :
              /\ ReqOrder(c)' = ReqOrder(c)
              /\ RepOrder(c) /\ (e.check # c \/ ResultsOf(c) \cap RepQueue = {})
                   => RepOrder(c)'
<1>0. Facts!Publish(e) /\ e \in Event
  BY SameActions DEF Event
<1> DEFINE d == Facts!Fresh(e)
<1>1. d \in Facts!Delivery /\ d.msg = e
  BY <1>0 DEF Facts!Fresh, Facts!Delivery
<1>2. queue' = Facts!Route(d)
  BY <1>0 DEF Facts!Publish
<1> HIDE DEF d
<1>3. /\ queue'[QueueReportJobs] = Append(queue[QueueReportJobs], d)
      /\ queue'[QueueAMLRequests] = queue[QueueAMLRequests]
      /\ RepQueue' = RepQueue \cup {e}
      /\ ReqQueue' = ReqQueue
  BY <1>1, <1>2, Routing, EventQueues, TwoQueues DEF ReqQueue, RepQueue
<1>4. connected /\ Elsewhere
  BY <1>0 DEF Facts!Publish, Elsewhere, ReqHand, RepHand, RepDead, Facts!InHand, Facts!Dead
<1>5. ASSUME NEW c \in Check, RepOrder(c), e.check # c \/ ResultsOf(c) \cap RepQueue = {}
      PROVE  RepOrder(c)'
  <2>1. d.msg \notin About(c)
          \/ \A x \in Facts!Entries(queue[QueueReportJobs]) : x.msg \notin ResultsOf(c)
    BY <1>1, <1>5, EventIsAbout DEF RepQueue, Facts!InQueue
  <2> QED BY <1>1, <1>3, <1>5, <2>1, TypedQueues, EventQueues, Facts!SealedAppend,
             BusAssumptionHolds DEF RepOrder
<1>6. ASSUME NEW c \in Check PROVE ReqOrder(c)' = ReqOrder(c)
  BY <1>3 DEF ReqOrder
<1> QED BY <1>3, <1>4, <1>5, <1>6

(* What a step of the consumer of q leaves alone at the other queue p.     *)
Spared(p) == /\ queue'[p] = queue[p] /\ phase'[p] = phase[p]
             /\ Facts!InQueue(p)' = Facts!InQueue(p)
             /\ Facts!InHand(p)' = Facts!InHand(p)
             /\ Facts!Dead(p)' = Facts!Dead(p)

LEMMA Delivering ==
  ASSUME BusFacts, NEW q \in Queues, NEW p \in Queues, p # q, Bus!Deliver(q)
  PROVE  /\ connected /\ connected' = connected /\ Spared(p)
         /\ phase[q] = "idle" /\ phase'[q] = "handling"
         /\ Facts!InHand(q) = {}
         /\ Facts!Dead(q)' = Facts!Dead(q)
         /\ \E m \in EventBinding[q] :
              /\ Facts!InHand(q)' = {m}
              /\ Facts!InQueue(q) = {m} \cup Facts!InQueue(q)'
              /\ \A S, T : Facts!Sealed(queue[q], S, T) =>
                   /\ Facts!Sealed(queue'[q], S, T)
                   /\ m \in S => Facts!InQueue(q)' \cap T = {}
<1>0. Facts!Deliver(q)
  BY SameActions
<1> DEFINE m == Head(queue[q]).msg
<1>1. connected /\ connected' = connected /\ phase[q] = "idle" /\ phase'[q] = "handling"
  BY <1>0, TypedQueues DEF Facts!Deliver, Facts!Goto
<1>2. Facts!InHand(q) = {}
  BY <1>1, Facts!InHandIs, BusAssumptionHolds DEF BusFacts
<1>3. /\ Facts!InQueue(q) = {m} \cup Facts!InQueue(q)'
      /\ Facts!InHand(q)' = {m}
      /\ queue'[p] = queue[p] /\ job'[p] = job[p] /\ phase'[p] = phase[p]
  BY <1>0, Facts!InQueueDeliver, BusAssumptionHolds DEF BusFacts
<1>4. queue[q] \in Seq(Facts!Delivery) /\ queue[q] # << >> /\ queue'[q] = Tail(queue[q])
  BY <1>0, TypedQueues DEF Facts!Deliver, BusFacts, Facts!BusTypeOK
<1>5. dlq' = dlq
  BY <1>0 DEF Facts!Deliver
<1>6. Spared(p) /\ Facts!Dead(q)' = Facts!Dead(q)
  BY <1>3, <1>5 DEF Spared, Facts!InQueue, Facts!InHand, Facts!Dead
<1>7. m \in EventBinding[q]
  <2>1. PICK d \in Facts!Entries(queue[q]) : d.msg = m
    BY <1>3 DEF Facts!InQueue
  <2> QED BY <2>1 DEF BusFacts, Facts!Routed, Facts!Held
<1>8. ASSUME NEW S, NEW T, Facts!Sealed(queue[q], S, T)
      PROVE  /\ Facts!Sealed(queue'[q], S, T)
             /\ m \in S => Facts!InQueue(q)' \cap T = {}
  <2>1. /\ Facts!Sealed(Tail(queue[q]), S, T)
        /\ m \in S => \A e \in Facts!Entries(Tail(queue[q])) : e.msg \notin T
    BY <1>4, <1>8, Facts!SealedTail, BusAssumptionHolds
  <2> QED BY <1>4, <2>1 DEF Facts!InQueue
<1> HIDE DEF m
<1> QED BY <1>1, <1>2, <1>3, <1>6, <1>7, <1>8

(* The message a busy consumer of q has in hand.                           *)
LEMMA BusyHand ==
  ASSUME BusFacts, NEW q \in Queues
  PROVE  /\ phase[q] \in {"idle", "stopped"} => Facts!InHand(q) = {}
         /\ phase[q] \notin {"idle", "stopped"} =>
              /\ Facts!InHand(q) = {job[q][1].msg}
              /\ job[q][1].msg \in EventBinding[q]
<1>1. /\ phase[q] \in {"idle", "stopped"} => Facts!InHand(q) = {}
      /\ phase[q] \notin {"idle", "stopped"} => Facts!InHand(q) = {job[q][1].msg}
  BY Facts!InHandIs, BusAssumptionHolds DEF BusFacts
<1>2. phase[q] \notin {"idle", "stopped"} => job[q][1].msg \in EventBinding[q]
  BY Facts!JobHeld, BusAssumptionHolds DEF BusFacts, Facts!Routed
<1> QED BY <1>1, <1>2

LEMMA Retrying ==
  ASSUME BusFacts, NEW q \in Queues, NEW p \in Queues, p # q, Bus!Retry(q)
  PROVE  /\ connected /\ connected' = connected /\ Spared(p)
         /\ phase[q] = "err" /\ phase'[q] = "copied"
         /\ Facts!InHand(q)' = Facts!InHand(q)
         /\ Facts!Dead(q)' = Facts!Dead(q)
         /\ Facts!InQueue(q)' = Facts!InQueue(q) \cup Facts!InHand(q)
         /\ \A S, T : /\ Facts!Sealed(queue[q], S, T)
                      /\ Facts!InHand(q) \cap T = {} \/ Facts!InQueue(q) \cap S = {}
                      => Facts!Sealed(queue'[q], S, T)
<1>0. Facts!Retry(q)
  BY SameActions
<1> DEFINE m == job[q][1].msg
           e == [job[q][1] EXCEPT !.retry = @ + 1]
<1>1. connected /\ connected' = connected /\ phase[q] = "err" /\ phase'[q] = "copied"
      /\ phase'[p] = phase[p] /\ job' = job /\ dlq' = dlq /\ queue' = Facts!Route(e)
  BY <1>0, TypedQueues DEF Facts!Retry, Facts!Goto
<1>2. Facts!InHand(q) = {m} /\ m \in EventBinding[q]
  BY <1>1, BusyHand
<1>3. job[q][1] \in Facts!Delivery
  BY <1>1, Facts!JobHeld, BusAssumptionHolds DEF BusFacts
<1>4. e \in Facts!Delivery /\ e.msg = m
  BY <1>3 DEF Facts!Delivery
<1> HIDE DEF e, m
<1>5. /\ queue'[q] = Append(queue[q], e)
      /\ queue'[p] = queue[p]
      /\ Facts!InQueue(q)' = Facts!InQueue(q) \cup {m}
      /\ Facts!InQueue(p)' = Facts!InQueue(p)
  BY <1>1, <1>2, <1>4, Routing
<1>6. /\ Spared(p) /\ Facts!InHand(q)' = Facts!InHand(q)
      /\ Facts!Dead(q)' = Facts!Dead(q)
  BY <1>1, <1>5 DEF Spared, Facts!InHand, Facts!Dead
<1>7. ASSUME NEW S, NEW T, Facts!Sealed(queue[q], S, T),
             Facts!InHand(q) \cap T = {} \/ Facts!InQueue(q) \cap S = {}
      PROVE  Facts!Sealed(queue'[q], S, T)
  <2>1. e.msg \notin T \/ \A x \in Facts!Entries(queue[q]) : x.msg \notin S
    BY <1>2, <1>4, <1>7 DEF Facts!InQueue
  <2> QED BY <1>4, <1>5, <1>7, <2>1, TypedQueues, Facts!SealedAppend, BusAssumptionHolds
<1> QED BY <1>1, <1>2, <1>5, <1>6, <1>7

LEMMA DeadLettering ==
  ASSUME BusFacts, NEW q \in Queues, NEW p \in Queues, p # q, Bus!DeadLetter(q)
  PROVE  /\ connected /\ connected' = connected /\ Spared(p)
         /\ phase[q] = "err" /\ phase'[q] = "copied"
         /\ queue' = queue
         /\ Facts!InQueue(q)' = Facts!InQueue(q)
         /\ Facts!InHand(q)' = Facts!InHand(q)
         /\ Facts!Dead(q)' = Facts!Dead(q) \cup Facts!InHand(q)
<1>0. Facts!DeadLetter(q)
  BY SameActions
<1> DEFINE m == job[q][1].msg
           l == [origin |-> q, msg |-> job[q][1].msg]
<1>1. connected /\ connected' = connected /\ phase[q] = "err" /\ phase'[q] = "copied"
      /\ phase'[p] = phase[p] /\ job' = job /\ queue' = queue
      /\ \A r \in Queues : dlq'[r] = dlq[r] \cup {l}
  BY <1>0, TypedQueues DEF Facts!DeadLetter, Facts!Goto
<1>2. Facts!InHand(q) = {m}
  BY <1>1, BusyHand
<1>3. l.origin = q /\ l.msg = m
  OBVIOUS
<1> HIDE DEF l, m
<1>4. Facts!Dead(q)' = Facts!Dead(q) \cup {m}
  BY <1>1, <1>3 DEF Facts!Dead
<1>5. Facts!Dead(p)' = Facts!Dead(p)
  BY <1>1, <1>3 DEF Facts!Dead
<1> QED BY <1>1, <1>2, <1>4, <1>5 DEF Spared, Facts!InHand, Facts!InQueue

(* Dropping the delivery, or keeping it when nothing can be published.     *)
LEMMA Dropping ==
  ASSUME BusFacts, NEW q \in Queues, NEW p \in Queues, p # q,
         Bus!PublishFails(q) \/ Bus!Ack(q) \/ Bus!Nack(q) \/ Bus!Stop(q)
  PROVE  /\ connected' = connected /\ Spared(p)
         /\ queue' = queue
         /\ Facts!InQueue(q)' = Facts!InQueue(q)
         /\ Facts!Dead(q)' = Facts!Dead(q)
         /\ \/ /\ phase[q] = "err" /\ phase'[q] = "nack" /\ ~connected
               /\ Facts!InHand(q)' = Facts!InHand(q)
            \/ /\ phase[q] \in {"ok", "copied", "nack"} /\ phase'[q] = "idle"
               /\ Facts!InHand(q)' = {}
            \/ /\ phase[q] = "idle" /\ phase'[q] = "stopped" /\ ~connected
               /\ Facts!InHand(q)' = Facts!InHand(q)
<1>1. connected' = connected /\ queue' = queue /\ dlq' = dlq /\ phase'[p] = phase[p]
      /\ job'[p] = job[p]
  BY TypedQueues DEF Bus!PublishFails, Bus!Ack, Bus!Nack, Bus!Stop, Bus!Goto
<1>2. /\ Spared(p) /\ Facts!InQueue(q)' = Facts!InQueue(q)
      /\ Facts!Dead(q)' = Facts!Dead(q)
  BY <1>1 DEF Spared, Facts!InQueue, Facts!InHand, Facts!Dead
<1>3. CASE Bus!PublishFails(q) \/ Bus!Stop(q)
  BY <1>1, <1>2, <1>3, TypedQueues DEF Bus!PublishFails, Bus!Stop, Bus!Goto, Facts!InHand
<1>4. CASE Bus!Ack(q) \/ Bus!Nack(q)
  <2>1. phase[q] \in {"ok", "copied", "nack"} /\ phase'[q] = "idle" /\ job'[q] = << >>
    BY <1>4, TypedQueues DEF Bus!Ack, Bus!Nack, Bus!Goto
  <2>2. Facts!InHand(q)' = {}
    BY <2>1, Facts!EntriesEmpty, BusAssumptionHolds DEF Facts!InHand
  <2> QED BY <1>1, <1>2, <2>1, <2>2
<1> QED BY <1>3, <1>4

LEMMA Losing ==
  ASSUME BusFacts, Bus!ConnectionLost
  PROVE  /\ ~connected' /\ phase' = phase
         /\ ReqHand' = ReqHand /\ RepHand' = RepHand /\ RepDead' = RepDead
         /\ ReqQueue' = ReqQueue \cup ReqHand
         /\ RepQueue' = RepQueue \cup RepHand
<1>0. Facts!ConnectionLost
  BY SameActions
<1>1. /\ ReqQueue' = ReqQueue \cup ReqHand
      /\ RepQueue' = RepQueue \cup RepHand
  BY <1>0, Facts!InQueueLost, BusAssumptionHolds, EventQueues
     DEF BusFacts, ReqQueue, ReqHand, RepQueue, RepHand
<1> QED BY <1>0, <1>1 DEF Facts!ConnectionLost, ReqHand, RepHand, RepDead, Facts!InHand,
        Facts!Dead

-----------------------------------------------------------------------------
(* The invariant of a check *)

Unpublished == {"new", "publishing", "rejected"}

(* Nothing is in flight about a check whose request was never published.   *)
Untouched(c) ==
  client[c] \in Unpublished =>
    /\ Requested(c) \notin ReqQueue \cup ReqHand
    /\ About(c) \cap (RepQueue \cup RepHand \cup RepDead) = {}
    /\ status[c] = "processing" /\ ~keyed[c] /\ ~answer[c].keyed

(* A failure that the report worker has in hand comes before the result,   *)
(* and its handler does not fail: Get and Update find the check.           *)
FailureInHand(c) ==
  c \in repo /\ Failed(c) \in RepHand =>
    /\ phase[QueueReportJobs] \in {"handling", "ok"}
    /\ reppc # "retErr"
    /\ status[c] # "completed"

(* A result in hand has completed the check exactly from MarkStatus on; an *)
(* attempt that fails has not.                                             *)
Unmarked ==
  \/ phase[QueueReportJobs] \in {"err", "copied", "nack"}
  \/ phase[QueueReportJobs] = "handling" /\ reppc \in {"get", "put", "mark", "retErr"}
Marked ==
  \/ phase[QueueReportJobs] = "ok"
  \/ phase[QueueReportJobs] = "handling" /\ reppc \in {"result", "key", "update", "retOk"}

ResultInHand(c) ==
  c \in repo /\ ResultsOf(c) \cap RepHand # {} =>
    /\ Unmarked => status[c] # "completed"
    /\ Marked => status[c] = "completed"

(* What is given up is a result, was never delivered, and there is no      *)
(* other copy of it.                                                       *)
GivenUp(c) ==
  c \in repo =>
    /\ Failed(c) \notin RepDead
    /\ ResultsOf(c) \cap RepDead # {} => status[c] # "completed"
    /\ ResultsOf(c) \cap RepHand # {} /\ phase[QueueReportJobs] \in Live
         => ResultsOf(c) \cap RepDead = {}

Ordered(c) == c \in repo /\ connected => ReqOrder(c) /\ RepOrder(c)

(* The request is in the queue or in hand, not both.                       *)
OneRequest(c) ==
  c \in repo /\ connected /\ Requested(c) \in ReqHand /\ phase[QueueAMLRequests] \in Live
    => Requested(c) \notin ReqQueue

(* Nothing follows a result that is in hand or has done its work.          *)
LastResult(c) ==
  c \in repo /\ connected =>
    /\ ResultsOf(c) \cap RepHand # {} /\ phase[QueueReportJobs] \in Live
         => About(c) \cap RepQueue = {}
    /\ ResultsOf(c) \cap RepQueue # {} => ResultsOf(c) \cap RepDead = {}
    /\ status[c] = "completed" => About(c) \cap RepQueue = {}

(* No attempt is left for a request whose result was announced.            *)
ToDo(c) ==
  \/ Requested(c) \in ReqQueue
  \/ /\ Requested(c) \in ReqHand
     /\ \/ phase[QueueAMLRequests] = "err"
        \/ phase[QueueAMLRequests] = "handling" /\ amlpc # "retOk"

HasResult(c) ==
  \/ ResultsOf(c) \cap (RepQueue \cup RepHand \cup RepDead) # {}
  \/ status[c] = "completed"

OneResult(c) == c \in repo /\ connected => ~(ToDo(c) /\ HasResult(c))

CheckInv(c) == /\ Untouched(c) /\ FailureInHand(c) /\ ResultInHand(c) /\ GivenUp(c)
               /\ Ordered(c) /\ OneRequest(c) /\ LastResult(c) /\ OneResult(c)

-----------------------------------------------------------------------------
(* Where the two handlers stand *)

(* Outside its handler the AML worker starts afresh.                       *)
AMLPlace == amlpc # "call" => phase[QueueAMLRequests] = "handling"

(* What is known of every state before anything is said of one check.      *)
Known == BusFacts /\ OwnTypeOK /\ ServeInv /\ AMLPlace

LEMMA AMLHand ==
  ASSUME BusFacts, phase[QueueAMLRequests] = "handling"
  PROVE  /\ AMLEvent.check \in Check
         /\ ReqHand = {Requested(AMLEvent.check)}
<1>1. ReqHand = {AMLEvent} /\ AMLEvent \in RequestEvent
  BY BusyHand, EventQueues DEF ReqHand, AMLEvent
<1>2. PICK d \in Check : AMLEvent = Requested(d)
  BY <1>1 DEF RequestEvent
<1>3. AMLEvent.check = d
  BY <1>2 DEF Requested
<1> QED BY <1>1, <1>2, <1>3

LEMMA ReportHand ==
  ASSUME BusFacts, phase[QueueReportJobs] = "handling"
  PROVE  /\ ReportJob \in ReportEvent
         /\ RepHand = {ReportJob}
BY BusyHand, EventQueues DEF RepHand, ReportJob

LEMMA ReportHandling ==
  ASSUME ReportHandler
  PROVE  phase[QueueReportJobs] = "handling"
BY DEF ReportHandler, GetCheck, PutReport, ReportFails, MarkStatus, MarkResult,
   MarkKey, UpdateCheck, ReportReturns, ReportGoto, ReportAt

LEMMA AMLPlaceNext ==
  ASSUME BusFacts, AMLPlace, [PipelineNext]_pipelineVars
  PROVE  AMLPlace'
<1> USE TypedQueues, EventQueues DEF AMLPlace
<1>1. ASSUME NEW c \in Check, ClientStep(c) PROVE AMLPlace'
  BY <1>1 DEF ClientStep, CreateCheck, PublishRequest, PollTick, WaitTimeout, PollStatus,
     busVars, Bus!Publish, Bus!ConnectionLost
<1>2. CASE AMLHandler
  BY <1>2 DEF AMLHandler, ProviderFails, ProviderAnswers, AMLReturns, AMLAt, PublishBy,
     busVars, Bus!Publish, Bus!ConnectionLost
<1>3. CASE ReportHandler
  <2>1. amlpc' = amlpc /\ phase'[QueueAMLRequests] = phase[QueueAMLRequests]
    BY <1>3, TwoQueues DEF ReportHandler, GetCheck, PutReport, ReportFails, MarkStatus,
       MarkResult, MarkKey, UpdateCheck, ReportReturns, busVars, Bus!HandlerOk,
       Bus!HandlerErr, Bus!Goto
  <2> QED BY <2>1
<1>4. ASSUME NEW q \in Queues, Deliver(q) \/ Settling(q) PROVE AMLPlace'
  BY <1>4 DEF Deliver, Settling, Bus!Deliver, Bus!Settling, Bus!Retry, Bus!DeadLetter,
     Bus!PublishFails, Bus!Ack, Bus!Nack, Bus!Stop, Bus!Goto
<1>5. CASE ConnectionLost \/ Restart
  BY <1>5 DEF ConnectionLost, Restart, Bus!ConnectionLost
<1>6. CASE CleanupExpired \/ UNCHANGED pipelineVars \/ \E c \in Check : Expire(c)
  BY <1>6 DEF CleanupExpired, Expire, pipelineVars, busVars
<1> QED BY <1>1, <1>2, <1>3, <1>4, <1>5, <1>6 DEF PipelineNext, AMLWorker, ReportWorker

LEMMA KnownCorrect == PipelineSpec => []Known
<1>1. PipelineInit => AMLPlace
  BY DEF PipelineInit, AMLPlace
<1>2. BusFacts /\ AMLPlace /\ [PipelineNext]_pipelineVars => AMLPlace'
  BY AMLPlaceNext
<1> QED BY <1>1, <1>2, PipelineBusFacts, OwnTypeCorrect, ServeCorrect, PTL
        DEF PipelineSpec, Known

-----------------------------------------------------------------------------
(* Steps that do not concern a check *)

(* Nothing new is to be done for the request of c.                         *)
RequestKept(c) ==
  /\ connected' => connected
  /\ Requested(c) \in ReqQueue' \cup ReqHand' => Requested(c) \in ReqQueue \cup ReqHand
  /\ ToDo(c)' => ToDo(c)
  /\ OneRequest(c)'
  /\ c \in repo' /\ connected' => ReqOrder(c)'

(* Nothing changes of the events about c, or where their delivery stands.  *)
EventsKept(c) ==
  /\ About(c) \cap RepQueue' = About(c) \cap RepQueue
  /\ About(c) \cap RepHand' = About(c) \cap RepHand
  /\ About(c) \cap RepDead' = About(c) \cap RepDead
  /\ About(c) \cap RepHand # {} =>
       phase'[QueueReportJobs] = phase[QueueReportJobs] /\ reppc' = reppc
  /\ RepOrder(c) => RepOrder(c)'

(* Nothing changes of the object, or of what was said of it before its     *)
(* request was published.                                                  *)
ObjectKept(c) ==
  /\ c \in repo' => c \in repo
  /\ status'[c] = status[c]
  /\ client'[c] \in Unpublished =>
       client[c] \in Unpublished /\ keyed'[c] = keyed[c] /\ answer'[c] = answer[c]

LEMMA Kept ==
  ASSUME NEW c \in Check, CheckInv(c), RequestKept(c), EventsKept(c), ObjectKept(c)
  PROVE  CheckInv(c)'
<1>1. /\ ResultsOf(c) \cap RepQueue' = ResultsOf(c) \cap RepQueue
      /\ ResultsOf(c) \cap RepHand' = ResultsOf(c) \cap RepHand
      /\ ResultsOf(c) \cap RepDead' = ResultsOf(c) \cap RepDead
      /\ Failed(c) \in RepHand' <=> Failed(c) \in RepHand
      /\ Failed(c) \in RepDead' <=> Failed(c) \in RepDead
  BY DEF EventsKept, About
<1>2. Untouched(c)'
  BY DEF CheckInv, Untouched, RequestKept, EventsKept, ObjectKept
<1>3. FailureInHand(c)'
  BY <1>1 DEF CheckInv, FailureInHand, EventsKept, ObjectKept, About
<1>4. ResultInHand(c)'
  <2>1. ResultsOf(c) \cap RepHand # {} => (Unmarked' <=> Unmarked) /\ (Marked' <=> Marked)
    BY DEF EventsKept, About, Unmarked, Marked
  <2> QED BY <1>1, <2>1 DEF CheckInv, ResultInHand, ObjectKept
<1>5. GivenUp(c)'
  BY <1>1 DEF CheckInv, GivenUp, EventsKept, ObjectKept, About
<1>6. Ordered(c)' /\ OneRequest(c)'
  BY DEF CheckInv, Ordered, RequestKept, EventsKept, ObjectKept
<1>7. LastResult(c)'
  BY <1>1 DEF CheckInv, LastResult, RequestKept, EventsKept, ObjectKept, About
<1>8. OneResult(c)'
  <2>1. HasResult(c)' <=> HasResult(c)
    BY <1>1 DEF HasResult, ObjectKept
  <2> QED BY <2>1 DEF CheckInv, OneResult, RequestKept, ObjectKept
<1> QED BY <1>2, <1>3, <1>4, <1>5, <1>6, <1>7, <1>8 DEF CheckInv

(* The consumer of the requests does nothing.                              *)
RequestStill ==
  /\ connected' => connected
  /\ queue'[QueueAMLRequests] = queue[QueueAMLRequests]
  /\ ReqQueue' = ReqQueue /\ ReqHand' = ReqHand
  /\ phase'[QueueAMLRequests] = phase[QueueAMLRequests] /\ amlpc' = amlpc

LEMMA RequestLeft ==
  ASSUME NEW c \in Check, CheckInv(c), RequestStill, c \in repo' => c \in repo
  PROVE  RequestKept(c)
<1>1. (c \in repo' /\ connected' => ReqOrder(c)') /\ OneRequest(c)'
  BY DEF CheckInv, Ordered, OneRequest, ReqOrder, RequestStill
<1> QED BY <1>1 DEF RequestKept, RequestStill, ToDo

(* A step that does not touch the bus.                                     *)
StillBus == /\ queue' = queue /\ job' = job /\ phase' = phase /\ dlq' = dlq
            /\ connected' = connected

LEMMA Still ==
  ASSUME StillBus
  PROVE  /\ ReqQueue' = ReqQueue /\ RepQueue' = RepQueue
         /\ Elsewhere
         /\ \A c \in Check : ReqOrder(c)' = ReqOrder(c) /\ RepOrder(c)' = RepOrder(c)
BY DEF StillBus, Elsewhere, ReqQueue, RepQueue, ReqHand, RepHand, RepDead, ReqOrder,
       RepOrder, Facts!InQueue, Facts!InHand, Facts!Dead

LEMMA EventsStill ==
  ASSUME StillBus, NEW c \in Check, About(c) \cap RepHand # {} => reppc' = reppc
  PROVE  EventsKept(c)
BY Still DEF EventsKept, Elsewhere

LEMMA KeptStill ==
  ASSUME NEW c \in Check, CheckInv(c), StillBus, amlpc' = amlpc, ObjectKept(c),
         About(c) \cap RepHand # {} => reppc' = reppc
  PROVE  CheckInv(c)'
<1>1. RequestStill
  BY Still DEF RequestStill, StillBus, Elsewhere
<1> QED BY <1>1, RequestLeft, EventsStill, Kept DEF ObjectKept

(* When the connection is down, nothing is said of the queues: a consumer  *)
(* that lost its connection only works off what it has in hand.            *)
LEMMA KeptOffline ==
  ASSUME NEW c \in Check, CheckInv(c), ObjectKept(c), ~connected', phase' = phase,
         reppc' = reppc,
         ReqHand' = ReqHand, RepHand' = RepHand, RepDead' = RepDead,
         ReqQueue' \subseteq ReqQueue \cup ReqHand, RepQueue' \subseteq RepQueue \cup RepHand
  PROVE  CheckInv(c)'
<1>1. Untouched(c)'
  BY DEF CheckInv, Untouched, ObjectKept
<1>2. FailureInHand(c)' /\ ResultInHand(c)' /\ GivenUp(c)'
  BY DEF CheckInv, FailureInHand, ResultInHand, GivenUp, Unmarked, Marked, ObjectKept
<1>3. Ordered(c)' /\ OneRequest(c)' /\ LastResult(c)' /\ OneResult(c)'
  BY DEF Ordered, OneRequest, LastResult, OneResult
<1> QED BY <1>1, <1>2, <1>3 DEF CheckInv

(* When the connection drops, what is in hand is put back.                 *)
LEMMA KeptWhenLost ==
  ASSUME BusFacts, Bus!ConnectionLost, NEW c \in Check, CheckInv(c), ObjectKept(c),
         reppc' = reppc
  PROVE  CheckInv(c)'
BY Losing, KeptOffline

-----------------------------------------------------------------------------
(* What a request starts with *)

LEMMA ClientIsKept ==
  ASSUME OwnTypeOK, NEW c \in Check, NEW d \in Check, NEW at \in Client,
         client' = [client EXCEPT ![d] = at], at \notin Unpublished \/ c # d,
         status' = status, keyed' = keyed, answer' = answer \/ Respond200(d),
         c \in repo' => c \in repo
  PROVE  ObjectKept(c)
BY DEF ObjectKept, OwnTypeOK, Respond200, Unpublished

LEMMA NothingSealed ==
  ASSUME BusFacts, NEW c \in Check
  PROVE  /\ Requested(c) \notin ReqQueue => ReqOrder(c)
         /\ ResultsOf(c) \cap RepQueue = {} => RepOrder(c)
BY DEF ReqOrder, RepOrder, Facts!Sealed, ReqQueue, RepQueue, Facts!InQueue, Facts!Entries

LEMMA CheckCreate ==
  ASSUME Known, NEW c \in Check, CheckInv(c), NEW d \in Check, CreateCheck(d)
  PROVE  CheckInv(c)'
<1>1. StillBus /\ amlpc' = amlpc /\ reppc' = reppc
  BY DEF CreateCheck, busVars, StillBus
<1>2. CASE c # d
  <2>1. ObjectKept(c)
    BY <1>2 DEF CreateCheck, ObjectKept, objectVars, Known, OwnTypeOK
  <2> QED BY <1>1, <2>1, KeptStill
<1>3. CASE c = d
  <2>1. /\ Requested(c) \notin ReqQueue \cup ReqHand
        /\ About(c) \cap (RepQueue \cup RepHand \cup RepDead) = {}
        /\ status[c] = "processing" /\ ~keyed[c] /\ ~answer[c].keyed
    BY <1>3 DEF CreateCheck, CheckInv, Untouched, Unpublished
  <2>2. /\ status' = status /\ keyed' = keyed /\ answer' = answer
    BY DEF CreateCheck, objectVars
  <2>3. ReqOrder(c) /\ RepOrder(c)
    BY <2>1, NothingSealed DEF About, Known
  <2>4. /\ ReqQueue' = ReqQueue /\ RepQueue' = RepQueue
        /\ Elsewhere
        /\ ReqOrder(c)' = ReqOrder(c) /\ RepOrder(c)' = RepOrder(c)
    BY <1>1, Still
  <2>5. Untouched(c)' /\ FailureInHand(c)' /\ ResultInHand(c)' /\ GivenUp(c)'
    BY <2>1, <2>2, <2>4
       DEF Untouched, FailureInHand, ResultInHand, GivenUp, Elsewhere, About
  <2>6. Ordered(c)' /\ OneRequest(c)' /\ LastResult(c)' /\ OneResult(c)'
    BY <2>1, <2>2, <2>3, <2>4
       DEF Ordered, OneRequest, LastResult, OneResult, HasResult, Elsewhere, About
  <2> QED BY <2>5, <2>6 DEF CheckInv
<1> QED BY <1>2, <1>3

LEMMA CheckPublish ==
  ASSUME Known, NEW c \in Check, CheckInv(c), NEW d \in Check, PublishRequest(d)
  PROVE  CheckInv(c)'
<1>1. /\ repo' = repo /\ status' = status /\ keyed' = keyed /\ answer' = answer
      /\ amlpc' = amlpc /\ reppc' = reppc
  BY DEF PublishRequest, objectVars
<1>2. ObjectKept(c)
  BY <1>1 DEF PublishRequest, ObjectKept, Known, OwnTypeOK, Unpublished
<1>3. CASE Bus!ConnectionLost
  BY <1>1, <1>2, <1>3, KeptWhenLost DEF Known
<1>4. CASE UNCHANGED busVars
  <2>1. StillBus
    BY <1>4 DEF StillBus, busVars
  <2> QED BY <1>1, <1>2, <2>1, KeptStill
<1>5. CASE Bus!Publish(Requested(d)) /\ c # d
  <2>1. /\ connected /\ Elsewhere
        /\ ReqQueue' = ReqQueue \cup {Requested(d)}
        /\ RepQueue' = RepQueue
        /\ ReqOrder(c) => ReqOrder(c)'
        /\ RepOrder(c)' = RepOrder(c)
    BY <1>5, RequestPublished DEF Known
  <2>2. Requested(c) # Requested(d)
    BY <1>5, EventsDiffer
  <2>3. RequestKept(c)
    BY <1>1, <2>1, <2>2 DEF CheckInv, Ordered, OneRequest, RequestKept, ToDo, Elsewhere
  <2>4. EventsKept(c)
    BY <1>1, <2>1 DEF EventsKept, Elsewhere
  <2> QED BY <1>2, <2>3, <2>4, Kept
<1>6. CASE Bus!Publish(Requested(c)) /\ c = d
  <2>1. /\ Requested(c) \notin ReqQueue \cup ReqHand
        /\ About(c) \cap (RepQueue \cup RepHand \cup RepDead) = {}
        /\ status[c] = "processing"
    BY <1>6 DEF PublishRequest, CheckInv, Untouched, Unpublished
  <2>2. /\ connected /\ Elsewhere
        /\ RepQueue' = RepQueue
        /\ ReqOrder(c) => ReqOrder(c)'
        /\ RepOrder(c)' = RepOrder(c)
    BY <1>6, <2>1, RequestPublished DEF Known
  <2>3. client'[c] = "waiting"
    BY <1>6, <2>2 DEF PublishRequest, Known, OwnTypeOK
  <2>4. Untouched(c)' /\ FailureInHand(c)' /\ ResultInHand(c)' /\ GivenUp(c)'
    BY <1>1, <2>1, <2>2, <2>3
       DEF Untouched, Unpublished, FailureInHand, ResultInHand, GivenUp, Elsewhere, About
  <2>5. Ordered(c)' /\ OneRequest(c)' /\ LastResult(c)' /\ OneResult(c)'
    BY <1>1, <2>1, <2>2
       DEF CheckInv, Ordered, OneRequest, LastResult, OneResult, HasResult, Elsewhere, About
  <2> QED BY <2>4, <2>5 DEF CheckInv
<1> QED BY <1>3, <1>4, <1>5, <1>6 DEF PublishRequest

LEMMA CheckClient ==
  ASSUME Known, NEW c \in Check, CheckInv(c), NEW d \in Check, ClientStep(d)
  PROVE  CheckInv(c)'
<1>1. CASE PollTick(d) \/ WaitTimeout(d) \/ PollStatus(d)
  <2>1. /\ StillBus /\ amlpc' = amlpc /\ reppc' = reppc /\ repo' = repo
        /\ status' = status /\ keyed' = keyed /\ (answer' = answer \/ Respond200(d))
    BY <1>1 DEF PollTick, WaitTimeout, PollStatus, busVars, objectVars, StillBus
  <2>2. \E at \in Client \ Unpublished : client' = [client EXCEPT ![d] = at]
    BY <1>1 DEF PollTick, WaitTimeout, PollStatus, Told, Client, Unpublished
  <2>3. ObjectKept(c)
    BY <2>1, <2>2, ClientIsKept DEF Known
  <2> QED BY <2>1, <2>3, KeptStill
<1> QED BY <1>1, CheckCreate, CheckPublish DEF ClientStep

-----------------------------------------------------------------------------
(* What the AML worker announces *)

LEMMA CheckAnnounce ==
  ASSUME Known, NEW c \in Check, CheckInv(c), AMLAt("call"),
         NEW e \in ReportEvent, e.check = AMLEvent.check, Bus!Publish(e),
         (amlpc' = "retErr" /\ e = Failed(AMLEvent.check)) \/ amlpc' = "retOk",
         UNCHANGED <<repo, objectVars, expired, report, reppc, clientVars>>
  PROVE  CheckInv(c)'
<1>1. ReqHand = {Requested(AMLEvent.check)} /\ AMLEvent.check \in Check
  BY AMLHand DEF AMLAt, Known
<1>2. /\ connected /\ Elsewhere
      /\ ReqQueue' = ReqQueue
      /\ RepQueue' = RepQueue \cup {e}
      /\ ReqOrder(c)' = ReqOrder(c)
      /\ RepOrder(c) /\ (e.check # c \/ ResultsOf(c) \cap RepQueue = {}) => RepOrder(c)'
  BY ReportPublished DEF Known
<1>3. /\ repo' = repo /\ status' = status /\ keyed' = keyed /\ client' = client
      /\ answer' = answer /\ reppc' = reppc
  BY DEF objectVars, clientVars
<1>4. CASE c # AMLEvent.check
  <2>1. Requested(c) \notin ReqHand /\ e \notin About(c)
    BY <1>1, <1>4, EventsDiffer, EventIsAbout
  <2>2. RequestKept(c)
    BY <1>2, <1>3, <2>1 DEF CheckInv, Ordered, OneRequest, RequestKept, ToDo, Elsewhere
  <2>3. EventsKept(c) /\ ObjectKept(c)
    BY <1>2, <1>3, <1>4, <2>1 DEF EventsKept, ObjectKept, Elsewhere
  <2> QED BY <2>2, <2>3, Kept
<1>5. CASE c = AMLEvent.check
  <2>1. Requested(c) \in ReqHand /\ ToDo(c) /\ phase[QueueAMLRequests] \in Live
    BY <1>1, <1>5 DEF ToDo, AMLAt, Live
  <2>2. c \in repo => ~HasResult(c) /\ Requested(c) \notin ReqQueue
    BY <1>2, <2>1 DEF CheckInv, OneResult, OneRequest
  <2>3. Untouched(c)' /\ FailureInHand(c)' /\ ResultInHand(c)' /\ GivenUp(c)'
    BY <1>2, <1>3, <2>1 DEF CheckInv, Untouched, FailureInHand, ResultInHand, GivenUp,
       Unmarked, Marked, Elsewhere
  <2>4. Ordered(c)' /\ OneRequest(c)'
    BY <1>2, <1>3, <2>2 DEF CheckInv, Ordered, OneRequest, HasResult, Elsewhere
  <2>5. LastResult(c)'
    BY <1>2, <1>3, <2>2 DEF LastResult, HasResult, Elsewhere
  <2>6. OneResult(c)'
    <3>1. CASE amlpc' = "retErr" /\ e = Failed(AMLEvent.check)
      <4>1. e \notin ResultsOf(c)
        BY <1>1, <3>1, EventsDiffer
      <4>2. HasResult(c)' => HasResult(c)
        BY <1>2, <1>3, <4>1 DEF HasResult, Elsewhere
      <4> QED BY <1>3, <2>2, <4>2 DEF OneResult
    <3>2. CASE amlpc' = "retOk"
      <4>1. c \in repo => ~ToDo(c)'
        BY <1>2, <2>2, <3>2 DEF ToDo, AMLAt, Elsewhere
      <4> QED BY <1>3, <4>1 DEF OneResult
    <3> QED BY <3>1, <3>2
  <2> QED BY <2>3, <2>4, <2>5, <2>6 DEF CheckInv
<1> QED BY <1>4, <1>5

LEMMA CheckAML ==
  ASSUME Known, NEW c \in Check, CheckInv(c), AMLHandler
  PROVE  CheckInv(c)'
<1>1. /\ repo' = repo /\ status' = status /\ keyed' = keyed /\ client' = client
      /\ answer' = answer /\ reppc' = reppc
      /\ UNCHANGED <<repo, objectVars, expired, report, reppc, clientVars>>
  BY DEF AMLHandler, ProviderFails, ProviderAnswers, AMLReturns, objectVars, clientVars
<1>2. ObjectKept(c)
  BY <1>1 DEF ObjectKept
<1>3. CASE Bus!ConnectionLost
  BY <1>1, <1>2, <1>3, KeptWhenLost DEF Known
<1>4. CASE ~connected /\ UNCHANGED busVars
  <2>1. StillBus
    BY <1>4 DEF StillBus, busVars
  <2> QED BY <1>1, <1>2, <1>4, <2>1, Still, KeptOffline DEF StillBus, Elsewhere
<1>5. ASSUME AMLAt("call"), Bus!Publish(Failed(AMLEvent.check)), amlpc' = "retErr"
      PROVE  CheckInv(c)'
  <2>1. /\ Failed(AMLEvent.check) \in ReportEvent
        /\ Failed(AMLEvent.check).check = AMLEvent.check
    BY <1>5, AMLHand DEF AMLAt, Known, ReportEvent, Failed
  <2> QED BY <1>1, <1>5, <2>1, CheckAnnounce
<1>6. ASSUME NEW r \in Result, AMLAt("call"), Bus!Publish(Completed(AMLEvent.check, r)),
             amlpc' = "retOk"
      PROVE  CheckInv(c)'
  <2>1. /\ Completed(AMLEvent.check, r) \in ReportEvent
        /\ Completed(AMLEvent.check, r).check = AMLEvent.check
    BY <1>6, AMLHand DEF AMLAt, Known, ReportEvent, Completed
  <2> QED BY <1>1, <1>6, <2>1, CheckAnnounce
<1>7. CASE AMLReturns
  <2>1. /\ queue' = queue /\ job' = job /\ dlq' = dlq /\ connected' = connected
        /\ phase'[QueueReportJobs] = phase[QueueReportJobs]
        /\ \/ AMLAt("retOk") /\ phase'[QueueAMLRequests] = "ok"
           \/ AMLAt("retErr") /\ phase'[QueueAMLRequests] = "err"
    BY <1>7, TypedQueues, EventQueues, TwoQueues
       DEF AMLReturns, Bus!HandlerOk, Bus!HandlerErr, Bus!Goto, Known
  <2>2. /\ ReqQueue' = ReqQueue /\ RepQueue' = RepQueue
        /\ ReqHand' = ReqHand /\ RepHand' = RepHand /\ RepDead' = RepDead
        /\ ReqOrder(c)' = ReqOrder(c) /\ RepOrder(c)' = RepOrder(c)
    BY <2>1 DEF ReqQueue, RepQueue, ReqHand, RepHand, RepDead, ReqOrder,
       RepOrder, Facts!InQueue, Facts!InHand, Facts!Dead
  <2>3. ToDo(c)' => ToDo(c)
    BY <2>1, <2>2 DEF ToDo, AMLAt
  <2>4. OneRequest(c)'
    BY <1>1, <2>1, <2>2 DEF CheckInv, OneRequest, AMLAt, Live
  <2>5. RequestKept(c)
    BY <1>1, <2>1, <2>2, <2>3, <2>4 DEF RequestKept, CheckInv, Ordered
  <2>6. EventsKept(c)
    BY <1>1, <2>1, <2>2 DEF EventsKept
  <2> QED BY <1>2, <2>5, <2>6, Kept
<1> QED BY <1>3, <1>4, <1>5, <1>6, <1>7 DEF AMLHandler, ProviderFails, ProviderAnswers,
        PublishBy

-----------------------------------------------------------------------------
(* What the report worker does with an event *)

(* What a step of its handler does to the check of its event.              *)
LEMMA HandlerStep ==
  ASSUME Known, ReportHandler, ~ReportReturns
  PROVE  /\ StillBus /\ amlpc' = amlpc /\ repo' = repo /\ UNCHANGED clientVars
         /\ \A c \in Check : c # ReportJob.check =>
              /\ status'[c] = status[c] /\ keyed'[c] = keyed[c]
              /\ report'[c] = report[c] /\ result'[c] = result[c]
<1>1. StillBus /\ amlpc' = amlpc /\ repo' = repo /\ UNCHANGED clientVars
  BY DEF ReportHandler, GetCheck, PutReport, ReportFails, MarkStatus, MarkResult, MarkKey,
     UpdateCheck, busVars, StillBus
<1>2. ReportJob.check \in Check
  BY ReportHandling, ReportJobTyped DEF Known
<1>3. \A c \in Check : c # ReportJob.check =>
        /\ status'[c] = status[c] /\ keyed'[c] = keyed[c]
        /\ report'[c] = report[c] /\ result'[c] = result[c]
  BY <1>2 DEF ReportHandler, GetCheck, PutReport, ReportFails, MarkStatus, MarkResult,
     MarkKey, UpdateCheck, objectVars, Known, OwnTypeOK
<1> QED BY <1>1, <1>3

(* With a failure in hand, the check it names is never completed.          *)
LEMMA FailureStep ==
  ASSUME Known, ReportHandler, ~ReportReturns, ReportJob.type = "aml.check.failed",
         FailureInHand(ReportJob.check), ReportJob.check \in repo
  PROVE  reppc' # "retErr" /\ status'[ReportJob.check] # "completed"
<1>1. Outcome = "failed" /\ reppc \notin {"put", "result", "key"}
  BY DEF Outcome, Known, ServeInv
<1>2. /\ RepHand = {ReportJob} /\ ReportJob \in ReportEvent /\ ReportJob.check \in Check
  BY ReportHandling, ReportHand, ReportJobTyped DEF Known
<1>3. Failed(ReportJob.check) = ReportJob
  BY <1>2, EventIsAbout
<1>4. status[ReportJob.check] # "completed" /\ reppc # "retErr"
  BY <1>2, <1>3 DEF FailureInHand
<1>5. reppc' # "retErr"
  BY <1>1 DEF ReportHandler, GetCheck, PutReport, ReportFails, MarkStatus, MarkResult,
     MarkKey, UpdateCheck, ReportGoto, ReportAt
<1>6. status'[ReportJob.check] # "completed"
  BY <1>1, <1>2, <1>4 DEF ReportHandler, GetCheck, PutReport, ReportFails, MarkStatus,
     MarkResult, MarkKey, UpdateCheck, objectVars, Known, OwnTypeOK
<1> QED BY <1>5, <1>6

(* With a result in hand, it is completed by MarkStatus and stays so until *)
(* the handler returns nil.                                                *)
LEMMA ResultStep ==
  ASSUME Known, ReportHandler, ~ReportReturns, ReportJob.type # "aml.check.failed",
         ResultInHand(ReportJob.check), ReportJob.check \in repo
  PROVE  /\ Unmarked' => status'[ReportJob.check] # "completed"
         /\ Marked' => status'[ReportJob.check] = "completed"
<1>1. Outcome = "completed" /\ phase[QueueReportJobs] = "handling"
  BY ReportHandling DEF Outcome
<1>2. RepHand = {ReportJob} /\ ReportJob \in ReportEvent /\ ReportJob.check \in Check
  BY ReportHandling, ReportHand, ReportJobTyped DEF Known
<1>3. ResultsOf(ReportJob.check) \cap RepHand # {}
  BY <1>2, EventIsAbout
<1>4. /\ Unmarked => status[ReportJob.check] # "completed"
      /\ Marked => status[ReportJob.check] = "completed"
  BY <1>3 DEF ResultInHand
<1>5. phase' = phase
  BY HandlerStep DEF StillBus
<1>6. CASE MarkStatus
  <2>1. \/ /\ reppc = "mark" /\ reppc' = "marking"
        \/ /\ reppc = "marking" /\ reppc' = "result"
           /\ status'[ReportJob.check] = "completed"
    BY <1>1, <1>2, <1>6 DEF MarkStatus, ReportGoto, ReportAt, Known, OwnTypeOK
  <2> QED BY <1>1, <1>5, <2>1 DEF Unmarked, Marked
<1>7. CASE ~MarkStatus
  <2>1. status' = status
    BY <1>7 DEF ReportHandler, GetCheck, PutReport, ReportFails, MarkResult, MarkKey,
       UpdateCheck, objectVars
  <2>2. \/ reppc = "get" /\ reppc' \in {"retErr", "put"}
        \/ reppc = "put" /\ reppc' \in {"mark", "retErr"}
        \/ reppc \in {"result", "key"} /\ reppc' \in {"key", "update"}
        \/ reppc = "update" /\ reppc' = "retOk"
    BY <1>1, <1>7 DEF ReportHandler, GetCheck, PutReport, ReportFails, MarkResult, MarkKey,
       UpdateCheck, ReportGoto, ReportAt
  <2>3. (Unmarked' => Unmarked) /\ (Marked' => Marked)
    BY <1>1, <1>5, <2>2 DEF Unmarked, Marked
  <2> QED BY <1>4, <2>1, <2>3
<1> QED BY <1>6, <1>7

LEMMA CheckHandler ==
  ASSUME Known, NEW c \in Check, CheckInv(c), ReportHandler, ~ReportReturns
  PROVE  CheckInv(c)'
<1>1. /\ StillBus /\ amlpc' = amlpc /\ repo' = repo /\ client' = client
      /\ answer' = answer
      /\ c # ReportJob.check => status'[c] = status[c] /\ keyed'[c] = keyed[c]
  BY HandlerStep DEF clientVars
<1>2. RepHand = {ReportJob} /\ ReportJob \in ReportEvent /\ ReportJob.check \in Check
  BY ReportHandling, ReportHand, ReportJobTyped DEF Known
<1>3. CASE c # ReportJob.check
  <2>1. ReportJob \notin About(c)
    BY <1>2, <1>3, EventIsAbout
  <2>2. ObjectKept(c)
    BY <1>1, <1>3 DEF ObjectKept
  <2> QED BY <1>1, <1>2, <2>1, <2>2, KeptStill
<1>4. CASE c = ReportJob.check
  <2>1. /\ ReqQueue' = ReqQueue /\ RepQueue' = RepQueue
        /\ ReqHand' = ReqHand /\ RepHand' = RepHand /\ RepDead' = RepDead
        /\ phase' = phase /\ connected' = connected
        /\ ReqOrder(c)' = ReqOrder(c) /\ RepOrder(c)' = RepOrder(c)
    BY <1>1, Still DEF Elsewhere
  <2>2. phase[QueueReportJobs] = "handling" /\ phase[QueueReportJobs] \in Live
    BY ReportHandling DEF Live
  <2>3. Untouched(c)'
    <3>1. client'[c] \notin Unpublished
      BY <1>1, <1>2, <1>4, EventIsAbout DEF CheckInv, Untouched
    <3> QED BY <3>1 DEF Untouched
  <2>4. Ordered(c)' /\ OneRequest(c)'
    BY <1>1, <2>1 DEF CheckInv, Ordered, OneRequest
  <2>5. ToDo(c)' = ToDo(c)
    BY <1>1, <2>1 DEF ToDo
  <2>6. CASE ReportJob = Failed(c)
    <3>1. ResultsOf(c) \cap RepHand = {} /\ ReportJob.type = "aml.check.failed"
      BY <1>2, <1>4, <2>6, EventIsAbout
    <3>2. c \in repo => reppc' # "retErr" /\ status'[c] # "completed"
      BY <1>4, <3>1, FailureStep DEF CheckInv
    <3>3. FailureInHand(c)' /\ ResultInHand(c)' /\ GivenUp(c)' /\ LastResult(c)'
      BY <1>1, <2>1, <2>2, <3>1, <3>2
         DEF CheckInv, FailureInHand, ResultInHand, GivenUp, LastResult
    <3>4. OneResult(c)'
      BY <1>1, <2>1, <2>5, <3>2 DEF CheckInv, OneResult, HasResult
    <3> QED BY <2>3, <2>4, <3>3, <3>4 DEF CheckInv
  <2>7. CASE ReportJob # Failed(c)
    <3>1. /\ ResultsOf(c) \cap RepHand # {} /\ Failed(c) \notin RepHand
          /\ ReportJob.type # "aml.check.failed"
      BY <1>2, <1>4, <2>7, EventIsAbout
    <3>2. c \in repo => /\ Unmarked' => status'[c] # "completed"
                        /\ Marked' => status'[c] = "completed"
      BY <1>4, <3>1, ResultStep DEF CheckInv
    <3>3. FailureInHand(c)' /\ ResultInHand(c)' /\ GivenUp(c)' /\ LastResult(c)'
      BY <1>1, <2>1, <2>2, <3>1, <3>2
         DEF CheckInv, FailureInHand, ResultInHand, GivenUp, LastResult
    <3>4. OneResult(c)'
      BY <1>1, <2>1, <2>5, <3>1 DEF CheckInv, OneResult, HasResult
    <3> QED BY <2>3, <2>4, <3>3, <3>4 DEF CheckInv
  <2> QED BY <2>6, <2>7
<1> QED BY <1>3, <1>4

LEMMA CheckReturns ==
  ASSUME Known, NEW c \in Check, CheckInv(c), ReportReturns
  PROVE  CheckInv(c)'
<1>1. /\ queue' = queue /\ job' = job /\ dlq' = dlq /\ connected' = connected
      /\ phase'[QueueAMLRequests] = phase[QueueAMLRequests]
      /\ \/ ReportAt("retOk") /\ phase'[QueueReportJobs] = "ok"
         \/ ReportAt("retErr") /\ phase'[QueueReportJobs] = "err"
      /\ reppc' = "get" /\ amlpc' = amlpc /\ repo' = repo /\ status' = status
      /\ keyed' = keyed /\ client' = client /\ answer' = answer
  BY TypedQueues, EventQueues, TwoQueues DEF ReportReturns, Bus!HandlerOk,
     Bus!HandlerErr, Bus!Goto, Known, objectVars, clientVars
<1>2. /\ ReqQueue' = ReqQueue /\ RepQueue' = RepQueue
      /\ ReqHand' = ReqHand /\ RepHand' = RepHand /\ RepDead' = RepDead
      /\ RepOrder(c)' = RepOrder(c)
  BY <1>1 DEF ReqQueue, RepQueue, ReqHand, RepHand, RepDead, ReqOrder,
     RepOrder, Facts!InQueue, Facts!InHand, Facts!Dead
<1>3. RequestKept(c)
  BY <1>1, <1>2, RequestLeft DEF RequestStill
<1>4. phase[QueueReportJobs] = "handling" /\ phase[QueueReportJobs] \in Live
  BY <1>1 DEF ReportAt, Live
<1>5. Untouched(c)'
  BY <1>1, <1>2 DEF CheckInv, Untouched
<1>6. FailureInHand(c)'
  BY <1>1, <1>2, <1>4 DEF CheckInv, FailureInHand, ReportAt
<1>7. ResultInHand(c)'
  <2>1. (Unmarked' => Unmarked) /\ (Marked' => Marked)
    BY <1>1 DEF Unmarked, Marked, ReportAt
  <2> QED BY <1>1, <1>2, <2>1 DEF CheckInv, ResultInHand
<1>8. GivenUp(c)' /\ LastResult(c)'
  BY <1>1, <1>2, <1>4 DEF CheckInv, GivenUp, LastResult
<1>9. Ordered(c)' /\ OneRequest(c)' /\ OneResult(c)'
  BY <1>1, <1>2, <1>3 DEF CheckInv, Ordered, RequestKept, OneResult, HasResult
<1> QED BY <1>5, <1>6, <1>7, <1>8, <1>9 DEF CheckInv

-----------------------------------------------------------------------------
(* What the bus does with the request *)

(* A step of the bus at the other queue leaves this one alone.             *)
LEMMA EventsSpared ==
  ASSUME NEW c \in Check, Spared(QueueReportJobs), reppc' = reppc
  PROVE  EventsKept(c)
BY DEF Spared, EventsKept, RepQueue, RepHand, RepDead, RepOrder

LEMMA RequestSpared ==
  ASSUME NEW c \in Check, CheckInv(c), Spared(QueueAMLRequests), amlpc' = amlpc,
         connected' = connected, repo' = repo
  PROVE  RequestKept(c)
<1>1. RequestStill
  BY DEF Spared, RequestStill, ReqQueue, ReqHand
<1> QED BY <1>1, RequestLeft

LEMMA CheckRequestBus ==
  ASSUME Known, NEW c \in Check, CheckInv(c),
         Deliver(QueueAMLRequests) \/ Settling(QueueAMLRequests)
  PROVE  CheckInv(c)'
<1> DEFINE A == QueueAMLRequests
           R == QueueReportJobs
<1>1. /\ repo' = repo /\ status' = status /\ keyed' = keyed /\ client' = client
      /\ answer' = answer /\ amlpc' = amlpc /\ reppc' = reppc
  BY DEF Deliver, Settling, objectVars, clientVars
<1>2. ObjectKept(c)
  BY <1>1 DEF ObjectKept
<1>3. A \in Queues /\ R \in Queues /\ A # R /\ BusFacts
  BY EventQueues, TwoQueues DEF Known
<1> HIDE DEF A, R
<1>4. CASE Bus!Deliver(A)
  <2>1. /\ connected /\ connected' = connected /\ Spared(R)
        /\ phase[A] = "idle" /\ phase'[A] = "handling"
    BY <1>3, <1>4, Delivering
  <2>2. PICK m : /\ Facts!InHand(A)' = {m}
                 /\ Facts!InQueue(A) = {m} \cup Facts!InQueue(A)'
                 /\ \A S, T : Facts!Sealed(queue[A], S, T) =>
                      /\ Facts!Sealed(queue'[A], S, T)
                      /\ m \in S => Facts!InQueue(A)' \cap T = {}
    BY <1>3, <1>4, Delivering
  <2>3. amlpc = "call"
    BY <2>1 DEF Known, AMLPlace, A
  <2>4. ReqHand' = {m} /\ ReqQueue = {m} \cup ReqQueue'
    BY <2>2 DEF ReqHand, ReqQueue, A
  <2>5. ReqOrder(c) => ReqOrder(c)' /\ (m = Requested(c) => Requested(c) \notin ReqQueue')
    BY <2>2 DEF ReqOrder, ReqQueue, A
  <2>6. ToDo(c)' => ToDo(c)
    BY <2>4 DEF ToDo
  <2>7. RequestKept(c)
    BY <1>1, <2>1, <2>4, <2>5, <2>6 DEF CheckInv, Ordered, OneRequest, RequestKept
  <2>8. EventsKept(c)
    BY <1>1, <2>1, EventsSpared DEF R
  <2> QED BY <1>2, <2>7, <2>8, Kept
<1>5. CASE Bus!Retry(A)
  <2>1. /\ connected /\ connected' = connected /\ Spared(R)
        /\ phase[A] = "err" /\ phase'[A] = "copied"
        /\ Facts!InHand(A)' = Facts!InHand(A)
        /\ Facts!InQueue(A)' = Facts!InQueue(A) \cup Facts!InHand(A)
        /\ \A S, T : /\ Facts!Sealed(queue[A], S, T)
                     /\ Facts!InHand(A) \cap T = {} \/ Facts!InQueue(A) \cap S = {}
                     => Facts!Sealed(queue'[A], S, T)
    BY <1>3, <1>5, Retrying
  <2>2. ReqHand' = ReqHand /\ ReqQueue' = ReqQueue \cup ReqHand
    BY <2>1 DEF ReqHand, ReqQueue, A
  <2>3. ToDo(c)' => ToDo(c)
    BY <2>1, <2>2 DEF ToDo, A
  <2>4. c \in repo /\ Requested(c) \in ReqHand => Requested(c) \notin ReqQueue
    BY <2>1 DEF CheckInv, OneRequest, Live, A
  <2>5. c \in repo => ReqOrder(c)'
    BY <2>1, <2>4 DEF CheckInv, Ordered, ReqOrder, ReqHand, ReqQueue, A
  <2>6. RequestKept(c)
    BY <1>1, <2>1, <2>2, <2>3, <2>5 DEF OneRequest, RequestKept, Live, A
  <2>7. EventsKept(c)
    BY <1>1, <2>1, EventsSpared DEF R
  <2> QED BY <1>2, <2>6, <2>7, Kept
<1>6. CASE Bus!DeadLetter(A)
  <2>1. /\ connected' = connected /\ Spared(R) /\ queue' = queue
        /\ phase[A] = "err" /\ phase'[A] = "copied"
        /\ Facts!InQueue(A)' = Facts!InQueue(A)
        /\ Facts!InHand(A)' = Facts!InHand(A)
    BY <1>3, <1>6, DeadLettering
  <2>2. ReqHand' = ReqHand /\ ReqQueue' = ReqQueue /\ ReqOrder(c)' = ReqOrder(c)
    BY <2>1 DEF ReqHand, ReqQueue, ReqOrder, A
  <2>3. ToDo(c)' => ToDo(c)
    BY <2>1, <2>2 DEF ToDo, A
  <2>4. RequestKept(c)
    BY <1>1, <2>1, <2>2, <2>3 DEF CheckInv, Ordered, OneRequest, RequestKept, Live, A
  <2>5. EventsKept(c)
    BY <1>1, <2>1, EventsSpared DEF R
  <2> QED BY <1>2, <2>4, <2>5, Kept
<1>7. CASE Bus!PublishFails(A) \/ Bus!Ack(A) \/ Bus!Nack(A) \/ Bus!Stop(A)
  <2>1. /\ connected' = connected /\ Spared(R) /\ queue' = queue
        /\ Facts!InQueue(A)' = Facts!InQueue(A)
        /\ \/ /\ phase[A] = "err" /\ phase'[A] = "nack"
              /\ Facts!InHand(A)' = Facts!InHand(A)
           \/ /\ phase'[A] = "idle"
              /\ Facts!InHand(A)' = {}
           \/ /\ phase[A] = "idle" /\ phase'[A] = "stopped"
              /\ Facts!InHand(A)' = Facts!InHand(A)
    BY <1>3, <1>7, Dropping
  <2>2. ReqHand' \subseteq ReqHand /\ ReqQueue' = ReqQueue /\ ReqOrder(c)' = ReqOrder(c)
    BY <2>1 DEF ReqHand, ReqQueue, ReqOrder, A
  <2>3. /\ phase'[QueueAMLRequests] \notin Live
        /\ phase'[QueueAMLRequests] \notin {"err", "handling"}
    BY <2>1 DEF Live, A
  <2>4. ToDo(c)' => ToDo(c)
    BY <2>2, <2>3 DEF ToDo
  <2>5. RequestKept(c)
    BY <1>1, <2>1, <2>2, <2>3, <2>4 DEF CheckInv, Ordered, OneRequest, RequestKept
  <2>6. EventsKept(c)
    BY <1>1, <2>1, EventsSpared DEF R
  <2> QED BY <1>2, <2>5, <2>6, Kept
<1> QED BY <1>4, <1>5, <1>6, <1>7 DEF Deliver, Settling, Bus!Settling, A

-----------------------------------------------------------------------------
(* What the bus does with the events *)

LEMMA CheckEventDelivered ==
  ASSUME Known, NEW c \in Check, CheckInv(c), Deliver(QueueReportJobs)
  PROVE  CheckInv(c)'
<1> DEFINE R == QueueReportJobs
<1>1. /\ repo' = repo /\ status' = status /\ keyed' = keyed /\ client' = client
      /\ answer' = answer /\ amlpc' = amlpc /\ reppc' = reppc /\ Bus!Deliver(R)
  BY DEF Deliver, objectVars, clientVars
<1>2. R \in Queues /\ QueueAMLRequests \in Queues /\ R # QueueAMLRequests /\ BusFacts
  BY EventQueues, TwoQueues DEF Known
<1> HIDE DEF R
<1>3. /\ connected /\ connected' = connected /\ Spared(QueueAMLRequests)
      /\ phase[R] = "idle" /\ phase'[R] = "handling"
      /\ Facts!InHand(R) = {}
      /\ Facts!Dead(R)' = Facts!Dead(R)
  BY <1>1, <1>2, Delivering
<1>4. PICK m \in EventBinding[R] :
           /\ Facts!InHand(R)' = {m}
           /\ Facts!InQueue(R) = {m} \cup Facts!InQueue(R)'
           /\ \A S, T : Facts!Sealed(queue[R], S, T) =>
                /\ Facts!Sealed(queue'[R], S, T)
                /\ m \in S => Facts!InQueue(R)' \cap T = {}
  BY <1>1, <1>2, Delivering
<1>5. /\ RepHand = {} /\ RepHand' = {m} /\ RepQueue = {m} \cup RepQueue'
      /\ RepDead' = RepDead /\ m \in ReportEvent
  BY <1>3, <1>4, EventQueues DEF RepHand, RepQueue, RepDead, R
<1>6. RepOrder(c) => RepOrder(c)' /\ (m \in ResultsOf(c) => About(c) \cap RepQueue' = {})
  BY <1>4 DEF RepOrder, RepQueue, R
<1>7. RequestKept(c)
  BY <1>1, <1>3, RequestSpared
<1>8. CASE m \notin About(c)
  <2>1. EventsKept(c)
    BY <1>5, <1>6, <1>8 DEF EventsKept
  <2>2. ObjectKept(c)
    BY <1>1 DEF ObjectKept
  <2> QED BY <1>7, <2>1, <2>2, Kept
<1>9. CASE m \in About(c)
  <2>1. reppc = "get" /\ phase'[QueueReportJobs] = "handling"
    BY <1>3 DEF Known, ServeInv, R
  <2>2. client[c] \notin Unpublished
    BY <1>5, <1>9 DEF CheckInv, Untouched
  <2>3. c \in repo => status[c] # "completed"
    BY <1>3, <1>5, <1>9 DEF CheckInv, LastResult
  <2>4. c \in repo /\ m \in ResultsOf(c) => ResultsOf(c) \cap RepDead = {}
    BY <1>3, <1>5 DEF CheckInv, LastResult
  <2>5. Untouched(c)' /\ FailureInHand(c)' /\ ResultInHand(c)'
    BY <1>1, <2>1, <2>2, <2>3
       DEF Untouched, FailureInHand, ResultInHand, Unmarked, Marked
  <2>6. GivenUp(c)'
    BY <1>1, <1>5, <2>4 DEF CheckInv, GivenUp
  <2>7. Ordered(c)' /\ OneRequest(c)'
    BY <1>1, <1>3, <1>6, <1>7 DEF CheckInv, Ordered, RequestKept
  <2>8. LastResult(c)'
    BY <1>1, <1>3, <1>5, <1>6, <2>3 DEF CheckInv, Ordered, LastResult
  <2>9. OneResult(c)'
    BY <1>1, <1>3, <1>5, <1>7 DEF CheckInv, OneResult, HasResult, RequestKept
  <2> QED BY <2>5, <2>6, <2>7, <2>8, <2>9 DEF CheckInv
<1> QED BY <1>8, <1>9

LEMMA CheckEventSettled ==
  ASSUME Known, NEW c \in Check, CheckInv(c), Settling(QueueReportJobs)
  PROVE  CheckInv(c)'
<1> DEFINE R == QueueReportJobs
<1>1. /\ repo' = repo /\ status' = status /\ keyed' = keyed /\ client' = client
      /\ answer' = answer /\ amlpc' = amlpc /\ reppc' = reppc
      /\ \/ Bus!Retry(R) \/ Bus!DeadLetter(R) \/ Bus!PublishFails(R)
         \/ Bus!Ack(R) \/ Bus!Nack(R) \/ Bus!Stop(R)
  BY DEF Settling, Bus!Settling, objectVars, clientVars
<1>2. R \in Queues /\ QueueAMLRequests \in Queues /\ R # QueueAMLRequests /\ BusFacts
  BY EventQueues, TwoQueues DEF Known
<1>3. ObjectKept(c)
  BY <1>1 DEF ObjectKept
<1> HIDE DEF R
(* A failed attempt at a result has not completed the check; a failure is  *)
(* never attempted in vain while the repository has the check.             *)
<1>4. ASSUME phase[R] = "err", c \in repo
      PROVE  /\ Failed(c) \notin RepHand
             /\ ResultsOf(c) \cap RepHand # {} =>
                  /\ status[c] # "completed"
                  /\ ResultsOf(c) \cap RepDead = {}
                  /\ connected => About(c) \cap RepQueue = {}
  BY <1>4 DEF CheckInv, FailureInHand, ResultInHand, GivenUp, LastResult, Unmarked, Live, R
<1>5. CASE Bus!Retry(R)
  <2>1. /\ connected /\ connected' = connected /\ Spared(QueueAMLRequests)
        /\ phase[R] = "err" /\ phase'[R] = "copied"
        /\ Facts!InHand(R)' = Facts!InHand(R)
        /\ Facts!Dead(R)' = Facts!Dead(R)
        /\ Facts!InQueue(R)' = Facts!InQueue(R) \cup Facts!InHand(R)
        /\ \A S, T : /\ Facts!Sealed(queue[R], S, T)
                     /\ Facts!InHand(R) \cap T = {} \/ Facts!InQueue(R) \cap S = {}
                     => Facts!Sealed(queue'[R], S, T)
    BY <1>2, <1>5, Retrying
  <2>2. /\ RepHand' = RepHand /\ RepDead' = RepDead /\ RepQueue' = RepQueue \cup RepHand
        /\ phase'[QueueReportJobs] = "copied"
    BY <2>1 DEF RepHand, RepQueue, RepDead, R
  <2>3. RequestKept(c)
    BY <1>1, <2>1, RequestSpared
  <2>4. Untouched(c)' /\ FailureInHand(c)' /\ ResultInHand(c)' /\ GivenUp(c)'
    BY <1>1, <1>4, <2>1, <2>2, <2>3 DEF CheckInv, Untouched, FailureInHand, ResultInHand,
       GivenUp, Unmarked, Marked, Live, RequestKept
  <2>5. c \in repo => RepHand \cap About(c) = {} \/ RepQueue \cap ResultsOf(c) = {}
    BY <1>4, <2>1 DEF About
  <2>6. c \in repo => RepOrder(c)'
    BY <2>1, <2>5 DEF CheckInv, Ordered, RepOrder, RepHand, RepQueue, R
  <2>7. Ordered(c)' /\ OneRequest(c)'
    BY <1>1, <2>3, <2>6 DEF Ordered, RequestKept
  <2>8. LastResult(c)'
    <3>1. /\ connected => connected'
          /\ \A x : x \in RepQueue' => x \in RepQueue \/ x \in RepHand
      BY <2>1, <2>2
    <3>2. c \in repo /\ ResultsOf(c) \cap RepQueue' # {} => ResultsOf(c) \cap RepDead = {}
      BY <1>4, <2>1, <2>2 DEF CheckInv, LastResult
    <3>3. c \in repo /\ status[c] = "completed" => About(c) \cap RepQueue' = {}
      BY <1>4, <2>1, <2>2 DEF CheckInv, LastResult, About
    <3> QED BY <1>1, <2>2, <3>2, <3>3 DEF LastResult, Live
  <2>9. OneResult(c)'
    BY <1>1, <2>1, <2>2, <2>3 DEF CheckInv, OneResult, HasResult, RequestKept
  <2> QED BY <2>4, <2>7, <2>8, <2>9 DEF CheckInv
<1>6. CASE Bus!DeadLetter(R)
  <2>1. /\ connected /\ connected' = connected /\ Spared(QueueAMLRequests)
        /\ phase[R] = "err" /\ phase'[R] = "copied" /\ queue' = queue
        /\ Facts!InQueue(R)' = Facts!InQueue(R)
        /\ Facts!InHand(R)' = Facts!InHand(R)
        /\ Facts!Dead(R)' = Facts!Dead(R) \cup Facts!InHand(R)
    BY <1>2, <1>6, DeadLettering
  <2>2. /\ RepHand' = RepHand /\ RepDead' = RepDead \cup RepHand /\ RepQueue' = RepQueue
        /\ phase'[QueueReportJobs] = "copied" /\ RepOrder(c)' = RepOrder(c)
    BY <2>1 DEF RepHand, RepQueue, RepDead, RepOrder, R
  <2>3. RequestKept(c)
    BY <1>1, <2>1, RequestSpared
  <2>4. Untouched(c)' /\ FailureInHand(c)' /\ ResultInHand(c)' /\ GivenUp(c)'
    BY <1>1, <1>4, <2>1, <2>2, <2>3 DEF CheckInv, Untouched, FailureInHand, ResultInHand,
       GivenUp, Unmarked, Marked, Live, RequestKept
  <2>5. Ordered(c)' /\ OneRequest(c)'
    BY <1>1, <2>1, <2>2, <2>3 DEF CheckInv, Ordered, RequestKept
  <2>6. LastResult(c)'
    <3>1. c \in repo /\ ResultsOf(c) \cap RepQueue' # {} => ResultsOf(c) \cap RepDead' = {}
      BY <1>4, <2>1, <2>2 DEF CheckInv, LastResult, About
    <3> QED BY <1>1, <2>1, <2>2, <3>1 DEF CheckInv, LastResult, Live
  <2>7. OneResult(c)'
    BY <1>1, <2>1, <2>2, <2>3 DEF CheckInv, OneResult, HasResult, RequestKept
  <2> QED BY <2>4, <2>5, <2>6, <2>7 DEF CheckInv
<1>7. CASE Bus!PublishFails(R) \/ Bus!Ack(R) \/ Bus!Nack(R) \/ Bus!Stop(R)
  <2>1. /\ connected' = connected /\ Spared(QueueAMLRequests) /\ queue' = queue
        /\ Facts!InQueue(R)' = Facts!InQueue(R)
        /\ Facts!Dead(R)' = Facts!Dead(R)
        /\ \/ /\ phase[R] = "err" /\ phase'[R] = "nack"
              /\ Facts!InHand(R)' = Facts!InHand(R)
           \/ /\ phase'[R] = "idle"
              /\ Facts!InHand(R)' = {}
           \/ /\ phase[R] = "idle" /\ phase'[R] = "stopped"
              /\ Facts!InHand(R)' = Facts!InHand(R)
    BY <1>2, <1>7, Dropping
  <2>2. phase[R] = "idle" => Facts!InHand(R) = {}
    BY <1>2, BusyHand
  <2>3. /\ RepDead' = RepDead /\ RepQueue' = RepQueue /\ RepOrder(c)' = RepOrder(c)
        /\ \/ RepHand' = {}
           \/ /\ RepHand' = RepHand
              /\ phase[R] = "err" /\ phase'[QueueReportJobs] = "nack"
    BY <2>1, <2>2 DEF RepHand, RepQueue, RepDead, RepOrder, R
  <2>4. RequestKept(c)
    BY <1>1, <2>1, RequestSpared
  <2>5. Untouched(c)' /\ FailureInHand(c)' /\ ResultInHand(c)' /\ GivenUp(c)'
    BY <1>1, <1>4, <2>1, <2>3, <2>4 DEF CheckInv, Untouched, FailureInHand, ResultInHand,
       GivenUp, Unmarked, Marked, Live, RequestKept
  <2>6. Ordered(c)' /\ OneRequest(c)'
    BY <1>1, <2>1, <2>3, <2>4 DEF CheckInv, Ordered, RequestKept
  <2>7. LastResult(c)'
    BY <1>1, <2>1, <2>3 DEF CheckInv, LastResult, Live
  <2>8. OneResult(c)'
    BY <1>1, <2>1, <2>3, <2>4 DEF CheckInv, OneResult, HasResult, RequestKept
  <2> QED BY <2>5, <2>6, <2>7, <2>8 DEF CheckInv
<1> QED BY <1>1, <1>5, <1>6, <1>7

-----------------------------------------------------------------------------
(* Every step *)

LEMMA CheckRest ==
  ASSUME Known, NEW c \in Check, CheckInv(c),
         \/ ConnectionLost \/ Restart \/ CleanupExpired
         \/ (\E d \in Check : Expire(d)) \/ UNCHANGED pipelineVars
  PROVE  CheckInv(c)'
<1>1. CASE Restart
  <2>1. /\ queue' = queue /\ dlq' = dlq
        /\ \A q \in Queues : job'[q] = << >>
        /\ repo' = {} /\ status'[c] = "processing" /\ ~keyed'[c]
        /\ answer' = answer
        /\ client'[c] \in Unpublished => client[c] \in Unpublished
    BY <1>1 DEF Restart, Bus!Restart, Unpublished
  <2>2. /\ ReqQueue' = ReqQueue /\ RepQueue' = RepQueue /\ RepDead' = RepDead
        /\ ReqHand' = {} /\ RepHand' = {}
    BY <2>1, EventQueues, BusAssumptionHolds, Facts!EntriesEmpty
       DEF ReqQueue, ReqHand, RepQueue, RepHand, RepDead, Facts!InQueue,
       Facts!InHand, Facts!Dead
  <2>3. Untouched(c)'
    BY <2>1, <2>2 DEF CheckInv, Untouched
  <2> QED BY <2>1, <2>3 DEF CheckInv, FailureInHand, ResultInHand, GivenUp, Ordered,
          OneRequest, LastResult, OneResult
<1>2. CASE ConnectionLost
  <2>1. ObjectKept(c) /\ reppc' = reppc
    BY <1>2 DEF ConnectionLost, ObjectKept, objectVars, clientVars
  <2> QED BY <1>2, <2>1, KeptWhenLost DEF ConnectionLost, Known
<1>3. CASE CleanupExpired \/ (\E d \in Check : Expire(d)) \/ UNCHANGED pipelineVars
  <2>1. StillBus /\ amlpc' = amlpc /\ reppc' = reppc /\ ObjectKept(c)
    BY <1>3 DEF CleanupExpired, Expire, pipelineVars, busVars, objectVars, clientVars,
       StillBus, ObjectKept
  <2> QED BY <2>1, KeptStill
<1> QED BY <1>1, <1>2, <1>3

LEMMA CheckInvInit ==
  ASSUME PipelineInit, NEW c \in Check
  PROVE  CheckInv(c)
<1>1. /\ \A q \in Queues : queue[q] = << >> /\ job[q] = << >> /\ dlq[q] = {}
      /\ repo = {} /\ status[c] = "processing" /\ ~keyed[c] /\ ~answer[c].keyed
  BY DEF PipelineInit, Bus!BusInit, NoAnswer
<1>2. ReqQueue = {} /\ ReqHand = {} /\ RepQueue = {} /\ RepHand = {} /\ RepDead = {}
  BY <1>1, EventQueues, BusAssumptionHolds, Facts!EntriesEmpty
     DEF ReqQueue, ReqHand, RepQueue, RepHand, RepDead, Facts!InQueue, Facts!InHand,
     Facts!Dead
<1> QED BY <1>1, <1>2 DEF CheckInv, Untouched, FailureInHand, ResultInHand, GivenUp,
        Ordered, OneRequest, LastResult, OneResult

LEMMA CheckInvNext ==
  ASSUME Known, NEW c \in Check, CheckInv(c), [PipelineNext]_pipelineVars
  PROVE  CheckInv(c)'
<1>1. ASSUME NEW d \in Check, ClientStep(d) PROVE CheckInv(c)'
  BY <1>1, CheckClient
<1>2. CASE ReportHandler
  BY <1>2, CheckHandler, CheckReturns
<1> QED BY <1>1, <1>2, CheckAML, CheckRequestBus, CheckEventDelivered, CheckEventSettled,
        CheckRest DEF PipelineNext, AMLWorker, ReportWorker

ChecksInv == \A c \in Check : CheckInv(c)

(* The inductive invariant holds of every check.                           *)
LEMMA ChecksCorrect == PipelineSpec => []ChecksInv
<1>1. PipelineInit => ChecksInv
  BY CheckInvInit DEF ChecksInv
<1>2. Known /\ ChecksInv /\ [PipelineNext]_pipelineVars => ChecksInv'
  BY CheckInvNext DEF ChecksInv
<1> QED BY <1>1, <1>2, KnownCorrect, PTL DEF PipelineSpec

-----------------------------------------------------------------------------
(* The outcome is final, and dead letters tell the truth *)

(* Only the report worker stores a status; the others leave the object as  *)
(* it is, or take it away.                                                 *)
LEMMA StatusStays ==
  ASSUME [PipelineNext]_pipelineVars, ~MarkStatus
  PROVE  \/ status' = status
         \/ repo' = {}
BY DEF PipelineNext, ClientStep, CreateCheck, PublishRequest, PollTick, WaitTimeout,
   PollStatus, Expire, AMLWorker, AMLHandler, ProviderFails, ProviderAnswers, AMLReturns,
   ReportWorker, ReportHandler, GetCheck, PutReport, ReportFails, MarkResult, MarkKey,
   UpdateCheck, ReportReturns, Deliver, Settling, CleanupExpired, ConnectionLost, Restart,
   pipelineVars, objectVars

(* Whatever was announced of a check before, and however often an attempt  *)
(* was repeated: a completed check stays completed.                        *)
THEOREM CompletedStays == PipelineSpec => CompletedIsFinal
<1>1. ASSUME Known, ChecksInv, [PipelineNext]_pipelineVars,
             NEW c \in repo \cap repo', status[c] = "completed"
      PROVE  status'[c] = "completed"
  <2>1. c \in Check /\ CheckInv(c)
    BY <1>1 DEF ChecksInv, Known, OwnTypeOK
  <2>2. CASE ~MarkStatus
    BY <1>1, <2>2, StatusStays
  <2>3. CASE MarkStatus
    <3>1. ReportHandler /\ ~ReportReturns
      BY <2>3 DEF ReportHandler, MarkStatus, ReportReturns, ReportGoto, ReportAt
    <3>2. RepHand = {ReportJob} /\ ReportJob \in ReportEvent
      BY <1>1, <3>1, ReportHandling, ReportHand DEF Known
    <3>3. CASE c # ReportJob.check
      BY <1>1, <2>1, <3>1, <3>3, HandlerStep
    <3>4. CASE c = ReportJob.check /\ ReportJob.type = "aml.check.failed"
      <4>1. Failed(c) \in RepHand
        BY <2>1, <3>2, <3>4, EventIsAbout
      <4> QED BY <1>1, <2>1, <4>1 DEF CheckInv, FailureInHand
    <3>5. CASE c = ReportJob.check /\ ReportJob.type # "aml.check.failed"
      <4>1. ResultsOf(c) \cap RepHand # {} /\ phase[QueueReportJobs] = "handling"
        BY <2>1, <3>1, <3>2, <3>5, EventIsAbout, ReportHandling
      <4>2. ~Unmarked
        BY <1>1, <2>1, <4>1 DEF CheckInv, ResultInHand
      <4>3. reppc # "mark" /\ Outcome = "completed"
        BY <3>5, <4>1, <4>2 DEF Unmarked, Outcome
      <4> QED BY <1>1, <2>1, <2>3, <3>5, <4>3 DEF MarkStatus, ReportGoto, ReportAt, Known,
              OwnTypeOK
    <3> QED BY <3>3, <3>4, <3>5
  <2> QED BY <2>2, <2>3
<1>2. Known /\ ChecksInv /\ [PipelineNext]_pipelineVars =>
        [\A c \in repo \cap repo' : status[c] = "completed" => status'[c] = "completed"
          ]_pipelineVars
  BY <1>1
<1> QED BY <1>2, KnownCorrect, ChecksCorrect, PTL DEF PipelineSpec, CompletedIsFinal

(* However deliveries are copied by lost connections: a result in the dead *)
(* letter queue was not delivered as well, and a failure is never there    *)
(* while the repository has its check.                                     *)
THEOREM DeadLettersAreTrue == PipelineSpec => []DeadIsUndelivered
<1>1. Known /\ ChecksInv => DeadIsUndelivered
  <2> SUFFICES ASSUME Known, ChecksInv, NEW c \in repo
               PROVE  /\ Failed(c) \notin Bus!Dead(QueueReportJobs)
                      /\ \A r \in Result : Completed(c, r) \in Bus!Dead(QueueReportJobs)
                                             => status[c] # "completed"
    BY DEF DeadIsUndelivered
  <2>1. Bus!Dead(QueueReportJobs) = RepDead
    BY DEF RepDead, Bus!Dead, Facts!Dead
  <2>2. c \in Check /\ GivenUp(c)
    BY DEF ChecksInv, CheckInv, Known, OwnTypeOK
  <2> QED BY <2>1, <2>2 DEF GivenUp, ResultsOf
<1> QED BY <1>1, KnownCorrect, ChecksCorrect, PTL

-----------------------------------------------------------------------------
(* The report is the one the answer speaks of *)

(* Between Get and the end of MarkCompleted the worker is at a result of c.*)
Busy(c) == /\ reppc \in {"put", "mark", "marking", "result", "key"}
           /\ Outcome = "completed" /\ ReportJob.check = c

(* No key is set, or was handed out, before the report and the result of   *)
(* the one attempt that completes the check are in place; from then on     *)
(* they stay as they are.                                                  *)
ObjectInv(c) ==
  /\ Busy(c) => ~keyed[c] /\ ~answer[c].keyed
  /\ Busy(c) /\ reppc # "put" => report[c] = ReportJob.result
  /\ Busy(c) /\ reppc = "key" => result[c] = ReportJob.result
  /\ keyed[c] => report[c] = result[c]
  /\ answer[c].keyed => report[c] = answer[c].result
  /\ c \in repo /\ keyed[c] => status[c] = "completed"
  /\ c \in repo /\ answer[c].keyed => keyed[c]

LEMMA ObjectInvInit ==
  ASSUME PipelineInit, NEW c \in Check
  PROVE  ObjectInv(c)
BY DEF PipelineInit, ObjectInv, Busy, NoAnswer

(* A step that leaves the object, its report and its answer alone.         *)
LEMMA ObjectLeft ==
  ASSUME NEW c \in Check, ObjectInv(c), Busy(c)' => Busy(c) /\ reppc' = reppc,
         ReportJob' = ReportJob \/ ~Busy(c)', c \in repo' => c \in repo,
         status'[c] = status[c], keyed'[c] = keyed[c], result'[c] = result[c],
         report'[c] = report[c], answer'[c] = answer[c]
  PROVE  ObjectInv(c)'
BY DEF ObjectInv

LEMMA ObjectClient ==
  ASSUME Known, NEW c \in Check, CheckInv(c), ObjectInv(c), NEW d \in Check, ClientStep(d)
  PROVE  ObjectInv(c)'
<1>1. /\ status' = status /\ keyed' = keyed /\ result' = result /\ report' = report
      /\ reppc' = reppc /\ job' = job
  BY DEF ClientStep, CreateCheck, PublishRequest, PollTick, WaitTimeout, PollStatus,
     objectVars, busVars, Bus!Publish, Bus!ConnectionLost
<1>2. ReportJob' = ReportJob /\ (Busy(c)' <=> Busy(c))
  BY <1>1 DEF Busy, ReportJob, Outcome
<1>3. CASE Respond200(d) /\ repo' = repo
  <2>1. c # d => answer'[c] = answer[c]
    BY <1>3 DEF Respond200
  <2>2. c = d => answer'[c].keyed = keyed[c] /\ answer'[c].result = result[c]
    BY <1>3 DEF Respond200, Known, OwnTypeOK
  <2> QED BY <1>1, <1>2, <1>3, <2>1, <2>2 DEF ObjectInv
<1>4. CASE answer' = answer /\ repo' = repo
  BY <1>1, <1>2, <1>4, ObjectLeft
<1>5. CASE CreateCheck(d)
  <2>1. answer' = answer /\ repo' = repo \cup {d} /\ client[d] \in Unpublished
    BY <1>5 DEF CreateCheck, Unpublished
  <2>2. c = d => ~keyed[c] /\ ~answer[c].keyed
    BY <2>1 DEF CheckInv, Untouched
  <2> QED BY <1>1, <1>2, <2>1, <2>2 DEF ObjectInv
<1> QED BY <1>3, <1>4, <1>5 DEF ClientStep, PublishRequest, PollTick, WaitTimeout, PollStatus

LEMMA ObjectReport ==
  ASSUME Known, NEW c \in Check, CheckInv(c), ObjectInv(c), ReportHandler, ~ReportReturns
  PROVE  ObjectInv(c)'
<1>1. /\ ReportJob' = ReportJob /\ Outcome' = Outcome /\ repo' = repo /\ answer' = answer
      /\ phase[QueueReportJobs] = "handling"
  BY HandlerStep, ReportHandling DEF StillBus, ReportJob, Outcome, clientVars
<1>2. RepHand = {ReportJob} /\ ReportJob \in ReportEvent /\ ReportJob.check \in Check
  BY ReportHandling, ReportHand, ReportJobTyped DEF Known
<1>3. CASE c # ReportJob.check
  <2>1. ~Busy(c)'
    BY <1>1, <1>3 DEF Busy
  <2>2. /\ status'[c] = status[c] /\ keyed'[c] = keyed[c] /\ report'[c] = report[c]
        /\ result'[c] = result[c]
    BY <1>3, HandlerStep
  <2> QED BY <1>1, <2>1, <2>2, ObjectLeft
<1>4. CASE c = ReportJob.check
  <2>1. c \in repo =>
          /\ Outcome = "failed" => status[c] # "completed"
          /\ Outcome = "completed" /\ Unmarked => status[c] # "completed"
          /\ Outcome = "completed" /\ Marked => status[c] = "completed"
    BY <1>2, <1>4, EventIsAbout DEF CheckInv, FailureInHand, ResultInHand, Outcome
  <2>2. Busy(c) <=> /\ reppc \in {"put", "mark", "marking", "result", "key"}
                    /\ Outcome = "completed"
    BY <1>4 DEF Busy
  <2>3. Busy(c)' <=> /\ reppc' \in {"put", "mark", "marking", "result", "key"}
                     /\ Outcome = "completed"
    BY <1>1, <1>4 DEF Busy
  <2>4. reppc \in {"put", "result", "key"} => Outcome = "completed"
    BY DEF Known, ServeInv
  <2>5. CASE GetCheck
    <3>1. /\ status' = status /\ keyed' = keyed /\ result' = result /\ report' = report
          /\ reppc = "get" /\ (Busy(c)' => c \in repo /\ reppc' = "put")
      BY <1>4, <2>3, <2>5 DEF GetCheck, ReportGoto, ReportAt, objectVars
    <3>2. Busy(c)' => ~keyed[c] /\ ~answer[c].keyed
      BY <1>1, <2>1, <2>3, <3>1 DEF ObjectInv, Unmarked
    <3> QED BY <1>1, <3>1, <3>2 DEF ObjectInv
  <2>6. CASE PutReport
    <3>1. /\ status' = status /\ keyed' = keyed /\ result' = result
          /\ report'[c] = ReportJob.result /\ Busy(c) /\ reppc' = "mark"
      BY <1>4, <2>2, <2>4, <2>6
         DEF PutReport, ReportGoto, ReportAt, objectVars, Known, OwnTypeOK
    <3> QED BY <1>1, <3>1 DEF ObjectInv
  <2>7. CASE UpdateCheck
    <3>1. /\ status' = status /\ keyed' = keyed /\ result' = result /\ report' = report
          /\ ~Busy(c)'
      BY <2>3, <2>7 DEF UpdateCheck, ReportGoto, objectVars
    <3> QED BY <1>1, <3>1, ObjectLeft
  <2>11. CASE ReportFails
    <3>1. /\ status' = status /\ keyed' = keyed /\ result' = result
          /\ Busy(c) /\ ~Busy(c)'
      BY <2>2, <2>3, <2>4, <2>11 DEF ReportFails, ReportGoto, ReportAt, objectVars
    <3> QED BY <1>1, <3>1 DEF ObjectInv
  <2>8. CASE MarkStatus
    <3>1. /\ keyed' = keyed /\ result' = result /\ report' = report
          /\ reppc \in {"mark", "marking"} /\ reppc' # "key"
          /\ Busy(c)' => Busy(c) /\ reppc # "put"
      BY <2>2, <2>3, <2>8 DEF MarkStatus, ReportGoto, ReportAt
    <3>2. c \in repo => ~keyed[c] /\ ~answer[c].keyed
      BY <1>1, <1>2, <1>4, <2>1, <2>2, <3>1, ReportJobTyped DEF ObjectInv, Known
    <3> QED BY <1>1, <3>1, <3>2 DEF ObjectInv
  <2>9. CASE MarkResult
    <3>1. /\ status' = status /\ keyed' = keyed /\ report' = report
          /\ result'[c] = ReportJob.result /\ Busy(c) /\ reppc = "result" /\ reppc' = "key"
      BY <1>4, <2>2, <2>4, <2>9
         DEF MarkResult, ReportGoto, ReportAt, Known, OwnTypeOK
    <3> QED BY <1>1, <3>1 DEF ObjectInv
  <2>10. CASE MarkKey
    <3>1. /\ status' = status /\ result' = result /\ report' = report
          /\ keyed'[c] /\ Busy(c) /\ reppc = "key" /\ ~Busy(c)'
      BY <1>2, <1>4, <2>2, <2>3, <2>4, <2>10
         DEF MarkKey, ReportGoto, ReportAt, Known, OwnTypeOK
    <3>2. c \in repo => status[c] = "completed"
      BY <1>1, <2>1, <2>4, <3>1 DEF Marked
    <3> QED BY <1>1, <3>1, <3>2 DEF ObjectInv
  <2> QED BY <2>5, <2>6, <2>7, <2>8, <2>9, <2>10, <2>11 DEF ReportHandler
<1> QED BY <1>3, <1>4

(* What is neither a client nor the report worker's handler at work.       *)
OtherStep ==
  \/ AMLHandler \/ ReportReturns \/ ConnectionLost \/ CleanupExpired
  \/ (\E q \in Queues : Deliver(q) \/ Settling(q))
  \/ (\E d \in Check : Expire(d)) \/ UNCHANGED pipelineVars

LEMMA BusyStays ==
  ASSUME Known, NEW c \in Check, OtherStep
  PROVE  \/ reppc' = "get" /\ reppc \in {"get", "retOk", "retErr"}
         \/ reppc' = reppc /\ ReportJob' = ReportJob /\ (Busy(c)' <=> Busy(c))
<1>1. CASE ReportReturns
  BY <1>1 DEF ReportReturns, ReportAt
<1>2. CASE ~ReportReturns
  <2>1. reppc' = reppc
    BY <1>2 DEF OtherStep, AMLHandler, ProviderFails, ProviderAnswers, AMLReturns,
       ConnectionLost, CleanupExpired, Deliver, Settling, Expire, pipelineVars
  <2>2. CASE reppc # "get"
    <3>1. phase[QueueReportJobs] = "handling"
      BY <2>2 DEF Known, ServeInv
    <3>2. job'[QueueReportJobs] = job[QueueReportJobs]
      <4>1. CASE \E q \in Queues : Deliver(q) \/ Settling(q)
        BY <3>1, <4>1, TypedQueues, EventQueues DEF Known, Deliver, Settling, Bus!Deliver,
           Bus!Settling, Bus!Retry, Bus!DeadLetter, Bus!PublishFails, Bus!Ack, Bus!Nack,
           Bus!Stop, Bus!Goto
      <4>2. CASE ~(\E q \in Queues : Deliver(q) \/ Settling(q))
        BY <1>2, <4>2 DEF OtherStep, AMLHandler, ProviderFails, ProviderAnswers, PublishBy,
           AMLReturns, ConnectionLost, CleanupExpired, Expire, pipelineVars, busVars,
           Bus!Publish, Bus!ConnectionLost, Bus!HandlerOk, Bus!HandlerErr
      <4> QED BY <4>1, <4>2
    <3> QED BY <2>1, <3>2 DEF ReportJob, Busy, Outcome
  <2> QED BY <2>1, <2>2
<1> QED BY <1>1, <1>2

LEMMA ObjectRest ==
  ASSUME Known, NEW c \in Check, ObjectInv(c), OtherStep
  PROVE  ObjectInv(c)'
<1>1. /\ status' = status /\ keyed' = keyed /\ result' = result /\ report' = report
      /\ answer' = answer /\ (c \in repo' => c \in repo)
  BY DEF OtherStep, AMLHandler, ProviderFails, ProviderAnswers, AMLReturns, ReportReturns,
     ConnectionLost, CleanupExpired, Deliver, Settling, Expire, pipelineVars, objectVars,
     clientVars
<1>2. CASE reppc' = "get"
  BY <1>1, <1>2, ObjectLeft DEF Busy
<1>3. CASE reppc' # "get"
  <2>1. reppc' = reppc /\ ReportJob' = ReportJob /\ (Busy(c)' <=> Busy(c))
    BY <1>3, BusyStays
  <2> QED BY <1>1, <2>1, ObjectLeft
<1> QED BY <1>2, <1>3

LEMMA ObjectRestart ==
  ASSUME NEW c \in Check, ObjectInv(c), Restart
  PROVE  ObjectInv(c)'
BY DEF Restart, ObjectInv, Busy

ObjectsInv == \A c \in Check : ObjectInv(c)

LEMMA ObjectsCorrect == PipelineSpec => []ObjectsInv
<1>1. PipelineInit => ObjectsInv
  BY ObjectInvInit DEF ObjectsInv
<1>2. Known /\ ChecksInv /\ ObjectsInv /\ [PipelineNext]_pipelineVars => ObjectsInv'
  <2> SUFFICES ASSUME Known, NEW c \in Check, CheckInv(c), ObjectInv(c),
                      [PipelineNext]_pipelineVars
               PROVE  ObjectInv(c)'
    BY DEF ChecksInv, ObjectsInv
  <2>1. ASSUME NEW d \in Check, ClientStep(d) PROVE ObjectInv(c)'
    BY <2>1, ObjectClient
  <2>2. CASE ReportHandler
    BY <2>2, ObjectReport, ObjectRest DEF OtherStep
  <2> QED BY <2>1, <2>2, ObjectRest, ObjectRestart, EventQueues
          DEF PipelineNext, AMLWorker, ReportWorker, OtherStep
<1> QED BY <1>1, <1>2, KnownCorrect, ChecksCorrect, PTL DEF PipelineSpec

(* No later attempt, retry or redelivery replaces a report an answer led   *)
(* to by one that says something else.                                     *)
THEOREM ReportsMatchAnswers == PipelineSpec => []ReportMatchesAnswer
<1>1. ObjectsInv => ReportMatchesAnswer
  BY DEF ObjectsInv, ObjectInv, ReportMatchesAnswer
<1> QED BY <1>1, ObjectsCorrect, PTL

(* A client that was given a result and its report is never told of a      *)
(* failure, or to wait, afterwards.                                        *)
THEOREM ResultStays == PipelineSpec => ResultIsKept
<1>1. ASSUME Known, ObjectsInv, [PipelineNext]_pipelineVars, NEW c \in Check,
             client[c] = "toldOk", answer[c].keyed
      PROVE  client'[c] \in {"toldOk", "toldGone"}
  <2>1. CASE PollStatus(c)
    <3>1. c \in repo => status[c] = "completed"
      BY <1>1 DEF ObjectsInv, ObjectInv
    <3>2. CASE c \notin repo \ expired
      BY <1>1, <2>1, <3>2 DEF PollStatus, Told, Known, OwnTypeOK
    <3>3. CASE c \in repo \ expired
      <4>1. status[c] # "processing" /\ status[c] # "failed"
        BY <3>1, <3>3
      <4>2. Told(c) = "toldOk"
        BY <3>3, <4>1 DEF Told
      <4> QED BY <1>1, <2>1, <4>2 DEF PollStatus, Known, OwnTypeOK
    <3> QED BY <3>2, <3>3
  <2>2. ASSUME NEW d \in Check, ClientStep(d), c # d PROVE client'[c] = client[c]
    BY <1>1, <2>2 DEF ClientStep, CreateCheck, PublishRequest, PollTick, WaitTimeout,
       PollStatus, Known, OwnTypeOK
  <2>3. CASE ClientStep(c)
    BY <1>1, <2>1, <2>3 DEF ClientStep, CreateCheck, PublishRequest, PollTick, WaitTimeout
  <2>4. CASE Restart
    BY <1>1, <2>4 DEF Restart
  <2>5. CASE ~Restart /\ ~(\E d \in Check : ClientStep(d))
    <3>1. client' = client
      BY <1>1, <2>5 DEF PipelineNext, Expire, AMLWorker, AMLHandler, ProviderFails,
         ProviderAnswers, AMLReturns, ReportWorker, ReportHandler, GetCheck, PutReport,
         ReportFails, MarkStatus, MarkResult, MarkKey, UpdateCheck, ReportReturns, Deliver,
         Settling, CleanupExpired, ConnectionLost, pipelineVars, clientVars
    <3> QED BY <1>1, <3>1
  <2> QED BY <1>1, <2>2, <2>3, <2>4, <2>5
<1>2. Known /\ ObjectsInv /\ [PipelineNext]_pipelineVars =>
        [\A c \in Check : client[c] = "toldOk" /\ answer[c].keyed
                            => client'[c] \in {"toldOk", "toldGone"}]_pipelineVars
  BY <1>1
<1> QED BY <1>2, KnownCorrect, ObjectsCorrect, PTL DEF PipelineSpec, ResultIsKept

(* However often a result is retried or delivered again, the worker only   *)
(* comes to Put for a check without a key, which no client has a link to:  *)
(* no Put, even a failed one, touches a report that can be downloaded.     *)
THEOREM PutsPrecedeLinks == PipelineSpec => PutsBeforeLinks
<1>1. ASSUME Known, ObjectsInv, PutReport \/ ReportFails
      PROVE  ~keyed[ReportJob.check] /\ ~answer[ReportJob.check].keyed
  <2>1. ReportJob.check \in Check /\ reppc = "put" /\ Outcome = "completed"
    BY <1>1, ReportJobTyped DEF Known, ServeInv, PutReport, ReportFails, ReportGoto, ReportAt
  <2> QED BY <1>1, <2>1 DEF ObjectsInv, ObjectInv, Busy
<1>2. Known /\ ObjectsInv =>
        (PutReport \/ ReportFails =>
           ~keyed[ReportJob.check] /\ ~answer[ReportJob.check].keyed)
  BY <1>1
<1> QED BY <1>2, KnownCorrect, ObjectsCorrect, PTL DEF PipelineSpec, PutsBeforeLinks

-----------------------------------------------------------------------------
(* No check is forgotten *)

(* What the bus keeps of a delivery until it is settled.                   *)
LEMMA SettleCorrect == PipelineSpec => []Facts!SettleInv
<1>1. Facts!BusSpec => []Facts!LedgerInv
  BY BusAssumptionHolds, Facts!LedgerInvariant
<1>2. Facts!LedgerInv => Facts!SettleInv
  BY DEF Facts!LedgerInv
<1> QED BY <1>1, <1>2, PipelineUsesBus, SameSpec, PTL DEF UsesBus

(* The check has left "processing", or something will say why not.         *)
Tracked(c) == \/ status[c] # "processing"
              \/ About(c) \cap (RepQueue \cup RepHand \cup RepDead) # {}

(* The report worker has stored a status for the event in hand.            *)
Stored == \/ phase[QueueReportJobs] = "ok"
          \/ reppc \in {"marking", "result", "key", "update", "retOk"}

(* The request of c is in hand and the provider has been asked.            *)
Answered(c) == Requested(c) \in ReqHand /\ ~AMLAt("call")

Open == {"publishing", "rejected"}

TrackInv(c) ==
  c \in repo =>
    /\ About(c) \cap RepHand # {} /\ Stored => status[c] # "processing"
    /\ connected /\ Answered(c) => Tracked(c)
    /\ connected /\ client[c] \notin Open
         => Requested(c) \in ReqQueue \cup ReqHand \/ Tracked(c)

LEMMA TrackInit ==
  ASSUME PipelineInit
  PROVE  \A c \in Check : TrackInv(c)
BY DEF PipelineInit, TrackInv

(* A step keeps the invariant when it loses track of nothing.              *)
LEMMA TrackKept ==
  ASSUME NEW c \in Check, TrackInv(c), c \in repo' => c \in repo,
         connected' => connected,
         c \in repo' /\ About(c) \cap RepHand' # {} /\ Stored' => status'[c] # "processing",
         c \in repo' /\ connected' =>
           /\ Tracked(c) => Tracked(c)'
           /\ Answered(c)' => Answered(c) \/ Tracked(c)'
           /\ client'[c] \notin Open =>
                client[c] \notin Open \/ Requested(c) \in ReqQueue'
           /\ Requested(c) \in ReqQueue \cup ReqHand =>
                Requested(c) \in ReqQueue' \cup ReqHand' \/ Tracked(c)'
  PROVE  TrackInv(c)'
BY DEF TrackInv

LEMMA TrackStill ==
  ASSUME NEW c \in Check, TrackInv(c), c \in repo' => c \in repo, StillBus,
         amlpc' = amlpc, status[c] # "processing" => status'[c] # "processing",
         client'[c] \notin Open => client[c] \notin Open,
         c \in repo' /\ About(c) \cap RepHand # {} /\ Stored' => status'[c] # "processing"
  PROVE  TrackInv(c)'
<1>1. ReqQueue' = ReqQueue /\ RepQueue' = RepQueue /\ Elsewhere
  BY Still
<1>2. /\ Tracked(c) => Tracked(c)'
      /\ Answered(c)' => Answered(c)
  BY <1>1 DEF Tracked, Answered, AMLAt, Elsewhere
<1> QED BY <1>1, <1>2, TrackKept DEF Elsewhere

LEMMA TrackClient ==
  ASSUME Known, NEW c \in Check, CheckInv(c), TrackInv(c), NEW d \in Check, ClientStep(d)
  PROVE  TrackInv(c)'
<1>1. status' = status /\ amlpc' = amlpc /\ reppc' = reppc
  BY DEF ClientStep, CreateCheck, PublishRequest, PollTick, WaitTimeout, PollStatus,
     objectVars
<1>2. CASE PollTick(d) \/ WaitTimeout(d) \/ PollStatus(d)
  <2>1. StillBus /\ repo' = repo
    BY <1>2 DEF PollTick, WaitTimeout, PollStatus, StillBus, busVars
  <2>2. client'[c] \notin Open => client[c] \notin Open
    BY <1>2 DEF PollTick, WaitTimeout, PollStatus, Poller, Open, Known, OwnTypeOK
  <2>3. Stored' = Stored
    BY <1>1, <2>1 DEF Stored, StillBus
  <2> QED BY <1>1, <2>1, <2>2, <2>3, TrackStill DEF TrackInv
<1>3. CASE CreateCheck(d)
  <2>1. StillBus /\ repo' = repo \cup {d} /\ client' = [client EXCEPT ![d] = "publishing"]
    BY <1>3 DEF CreateCheck, StillBus, busVars
  <2>2. Stored' = Stored
    BY <1>1, <2>1 DEF Stored, StillBus
  <2>3. CASE c # d
    BY <1>1, <2>1, <2>2, <2>3, TrackStill DEF TrackInv, Known, OwnTypeOK
  <2>4. CASE c = d
    <3>1. Requested(c) \notin ReqHand /\ About(c) \cap RepHand = {}
      BY <1>3, <2>4 DEF CreateCheck, CheckInv, Untouched, Unpublished
    <3>2. Requested(c) \notin ReqHand' /\ About(c) \cap RepHand' = {}
      BY <2>1, <3>1, Still DEF Elsewhere
    <3>3. client'[c] \in Open
      BY <2>1, <2>4 DEF Known, OwnTypeOK, Open
    <3> QED BY <3>2, <3>3 DEF TrackInv, Answered
  <2> QED BY <2>3, <2>4
<1>4. CASE PublishRequest(d)
  <2>1. repo' = repo /\ phase' = phase
    BY <1>4 DEF PublishRequest, Bus!Publish, Bus!ConnectionLost, busVars
  <2>2. Stored' = Stored
    BY <1>1, <2>1 DEF Stored
  <2>3. CASE Bus!Publish(Requested(d))
    <3>1. /\ connected /\ Elsewhere
          /\ ReqQueue' = ReqQueue \cup {Requested(d)}
          /\ RepQueue' = RepQueue
      BY <2>3, RequestPublished DEF Known
    <3>2. Tracked(c)' = Tracked(c) /\ Answered(c)' = Answered(c)
      BY <1>1, <3>1 DEF Tracked, Answered, AMLAt, Elsewhere
    <3>3. client[c] \in Open /\ client'[c] \notin Open => c = d
      BY <1>4 DEF PublishRequest, Known, OwnTypeOK
    <3> QED BY <1>1, <2>1, <2>2, <3>1, <3>2, <3>3, TrackKept DEF Elsewhere, TrackInv
  <2>4. CASE Bus!ConnectionLost
    BY <1>1, <2>1, <2>2, <2>4, Losing, TrackKept DEF TrackInv, Known
  <2>5. CASE ~connected /\ UNCHANGED busVars
    <3>1. ~connected' /\ RepHand' = RepHand
      BY <2>5, Still DEF busVars, StillBus, Elsewhere
    <3> QED BY <1>1, <2>1, <2>2, <3>1 DEF TrackInv
  <2> QED BY <1>4, <2>3, <2>4, <2>5 DEF PublishRequest
<1> QED BY <1>2, <1>3, <1>4 DEF ClientStep

LEMMA TrackAML ==
  ASSUME Known, NEW c \in Check, TrackInv(c), AMLHandler
  PROVE  TrackInv(c)'
<1>1. status' = status /\ reppc' = reppc /\ repo' = repo /\ client' = client
  BY DEF AMLHandler, ProviderFails, ProviderAnswers, AMLReturns, objectVars, clientVars
<1>2. CASE AMLReturns
  <2>1. /\ queue' = queue /\ job' = job /\ dlq' = dlq /\ connected' = connected
        /\ phase'[QueueReportJobs] = phase[QueueReportJobs]
        /\ ~AMLAt("call")
    BY <1>2, TypedQueues, EventQueues, TwoQueues
       DEF AMLReturns, AMLAt, Bus!HandlerOk, Bus!HandlerErr, Bus!Goto, Known
  <2>2. /\ ReqQueue' = ReqQueue /\ RepQueue' = RepQueue
        /\ ReqHand' = ReqHand /\ RepHand' = RepHand /\ RepDead' = RepDead
    BY <2>1 DEF ReqQueue, RepQueue, ReqHand, RepHand, RepDead,
       Facts!InQueue, Facts!InHand, Facts!Dead
  <2>3. Stored' = Stored /\ Tracked(c)' = Tracked(c) /\ (Answered(c)' => Answered(c))
    BY <1>1, <2>1, <2>2 DEF Stored, Tracked, Answered
  <2> QED BY <1>1, <2>1, <2>2, <2>3, TrackKept DEF TrackInv
<1>3. CASE ~AMLReturns
  <2>1. PICK e \in ReportEvent :
          /\ e.check = AMLEvent.check
          /\ \/ Bus!Publish(e)
             \/ Bus!ConnectionLost
             \/ ~connected /\ UNCHANGED busVars
    <3>1. AMLEvent.check \in Check /\ AMLAt("call")
      BY <1>3, AMLHand DEF AMLHandler, ProviderFails, ProviderAnswers, AMLAt, Known
    <3>2. CASE ProviderFails
      <4>1. /\ Failed(AMLEvent.check) \in ReportEvent
            /\ Failed(AMLEvent.check).check = AMLEvent.check
        BY <3>1 DEF ReportEvent, Failed
      <4> QED BY <3>2, <4>1 DEF ProviderFails, PublishBy
    <3>3. ASSUME NEW r \in Result, ProviderAnswers(r)
          PROVE  \E e \in ReportEvent :
                   /\ e.check = AMLEvent.check
                   /\ \/ Bus!Publish(e)
                      \/ Bus!ConnectionLost
                      \/ ~connected /\ UNCHANGED busVars
      <4>1. /\ Completed(AMLEvent.check, r) \in ReportEvent
            /\ Completed(AMLEvent.check, r).check = AMLEvent.check
        BY <3>1 DEF ReportEvent, Completed
      <4> QED BY <3>3, <4>1 DEF ProviderAnswers, PublishBy
    <3> QED BY <1>3, <3>2, <3>3 DEF AMLHandler
  <2>2. ReqHand = {Requested(AMLEvent.check)} /\ AMLEvent.check \in Check
    BY <1>3, AMLHand DEF AMLHandler, ProviderFails, ProviderAnswers, AMLAt, Known
  <2>3. CASE Bus!Publish(e)
    <3>1. /\ connected /\ Elsewhere
          /\ ReqQueue' = ReqQueue
          /\ RepQueue' = RepQueue \cup {e}
      BY <2>3, ReportPublished DEF Known
    <3>2. Stored' = Stored /\ (Tracked(c) => Tracked(c)')
      BY <1>1, <3>1 DEF Stored, Tracked, Elsewhere
    <3>3. Answered(c)' => Tracked(c)'
      <4>1. Requested(c) \in ReqHand' => e \in About(c)
        BY <2>1, <2>2, <3>1, EventsDiffer, EventIsAbout DEF Elsewhere
      <4> QED BY <3>1, <4>1 DEF Answered, Tracked
    <3> QED BY <1>1, <3>1, <3>2, <3>3, TrackKept DEF TrackInv, Elsewhere
  <2>4. CASE Bus!ConnectionLost
    <3>1. Stored' = Stored
      BY <1>1, <2>4 DEF Stored, Bus!ConnectionLost
    <3> QED BY <1>1, <2>4, <3>1, Losing DEF TrackInv, Known
  <2>5. CASE ~connected /\ UNCHANGED busVars
    <3>1. ~connected' /\ RepHand' = RepHand /\ Stored' = Stored
      BY <1>1, <2>5, Still DEF busVars, StillBus, Elsewhere, Stored
    <3> QED BY <1>1, <3>1 DEF TrackInv
  <2> QED BY <2>1, <2>3, <2>4, <2>5
<1> QED BY <1>2, <1>3

LEMMA TrackReport ==
  ASSUME Known, NEW c \in Check, TrackInv(c), ReportHandler
  PROVE  TrackInv(c)'
<1>1. CASE ReportReturns
  <2>1. /\ queue' = queue /\ job' = job /\ dlq' = dlq /\ connected' = connected
        /\ phase'[QueueAMLRequests] = phase[QueueAMLRequests]
        /\ \/ ReportAt("retOk") /\ phase'[QueueReportJobs] = "ok"
           \/ ReportAt("retErr") /\ phase'[QueueReportJobs] = "err"
        /\ reppc' = "get" /\ amlpc' = amlpc /\ repo' = repo /\ status' = status
        /\ client' = client
    BY <1>1, TypedQueues, EventQueues, TwoQueues DEF ReportReturns, Bus!HandlerOk,
       Bus!HandlerErr, Bus!Goto, Known, objectVars, clientVars
  <2>2. /\ ReqQueue' = ReqQueue /\ RepQueue' = RepQueue
        /\ ReqHand' = ReqHand /\ RepHand' = RepHand /\ RepDead' = RepDead
    BY <2>1 DEF ReqQueue, RepQueue, ReqHand, RepHand, RepDead,
       Facts!InQueue, Facts!InHand, Facts!Dead
  <2>3. /\ Stored' => Stored
        /\ Tracked(c)' = Tracked(c) /\ Answered(c)' = Answered(c)
    BY <2>1, <2>2 DEF Stored, Tracked, Answered, AMLAt, ReportAt
  <2> QED BY <2>1, <2>2, <2>3, TrackKept DEF TrackInv
<1>2. CASE ~ReportReturns
  <2>1. /\ StillBus /\ amlpc' = amlpc /\ repo' = repo /\ client' = client
        /\ c # ReportJob.check => status'[c] = status[c]
    BY <1>2, HandlerStep DEF clientVars
  <2>2. /\ RepHand = {ReportJob} /\ ReportJob \in ReportEvent /\ ReportJob.check \in Check
        /\ Outcome \in {"completed", "failed"} /\ phase[QueueReportJobs] = "handling"
    BY ReportHandling, ReportHand, ReportJobTyped DEF Known
  <2>3. CASE c # ReportJob.check
    <3>1. ReportJob \notin About(c)
      BY <2>2, <2>3, EventIsAbout
    <3> QED BY <2>1, <2>2, <2>3, <3>1, TrackStill
  <2>4. CASE c = ReportJob.check /\ MarkStatus
    <3>1. status'[c] # "processing"
      BY <2>2, <2>4 DEF MarkStatus, Known, OwnTypeOK
    <3> QED BY <2>1, <3>1, TrackStill
  <2>5. CASE c = ReportJob.check /\ ~MarkStatus
    <3>1. status' = status
      BY <1>2, <2>5 DEF ReportHandler, GetCheck, PutReport, ReportFails, MarkResult,
         MarkKey, UpdateCheck, objectVars
    <3>2. phase' = phase
      BY <2>1 DEF StillBus
    <3>3. Stored' => Stored
      BY <1>2, <2>5, <3>2 DEF ReportHandler, GetCheck, PutReport, ReportFails, MarkResult,
         MarkKey, UpdateCheck, ReportGoto, ReportAt, Stored
    <3> QED BY <2>1, <3>1, <3>3, TrackStill DEF TrackInv
  <2> QED BY <2>3, <2>4, <2>5
<1> QED BY <1>1, <1>2

LEMMA TrackRequestBus ==
  ASSUME Known, Facts!SettleInv, NEW c \in Check, TrackInv(c),
         Deliver(QueueAMLRequests) \/ Settling(QueueAMLRequests)
  PROVE  TrackInv(c)'
<1> DEFINE A == QueueAMLRequests
           R == QueueReportJobs
<1>1. repo' = repo /\ status' = status /\ client' = client /\ amlpc' = amlpc
      /\ reppc' = reppc
  BY DEF Deliver, Settling, objectVars, clientVars
<1>2. A \in Queues /\ R \in Queues /\ A # R /\ BusFacts
  BY EventQueues, TwoQueues DEF Known
<1> HIDE DEF A, R
<1>3. ASSUME Spared(R) PROVE Stored' = Stored /\ Tracked(c)' = Tracked(c)
                             /\ RepHand' = RepHand
  BY <1>1, <1>3 DEF Stored, Tracked, Spared, RepQueue, RepHand, RepDead, R
<1>4. CASE Bus!Deliver(A)
  <2>1. /\ connected /\ connected' = connected /\ Spared(R)
        /\ phase[A] = "idle" /\ phase'[A] = "handling"
        /\ \E m : /\ Facts!InHand(A)' = {m}
                  /\ Facts!InQueue(A) = {m} \cup Facts!InQueue(A)'
        /\ Facts!InHand(A) = {}
    BY <1>2, <1>4, Delivering
  <2>2. ReqQueue \cup ReqHand = ReqQueue' \cup ReqHand'
    BY <2>1 DEF ReqHand, ReqQueue, A
  <2>3. ~Answered(c)'
    BY <1>1, <2>1 DEF Known, AMLPlace, Answered, AMLAt, A
  <2> QED BY <1>1, <1>3, <2>1, <2>2, <2>3, TrackKept DEF TrackInv
<1>5. CASE Bus!Retry(A) \/ Bus!DeadLetter(A)
  <2>1. /\ connected' = connected /\ Spared(R)
        /\ phase[A] = "err" /\ phase'[A] = "copied"
        /\ Facts!InHand(A)' = Facts!InHand(A)
        /\ Facts!InQueue(A) \subseteq Facts!InQueue(A)'
    BY <1>2, <1>5, Retrying, DeadLettering
  <2>2. ReqHand' = ReqHand /\ ReqQueue \subseteq ReqQueue' /\ (Answered(c)' => Answered(c))
    BY <2>1 DEF ReqHand, ReqQueue, Answered, AMLAt, A
  <2> QED BY <1>1, <1>3, <2>1, <2>2, TrackKept DEF TrackInv
<1>6. CASE Bus!PublishFails(A) \/ Bus!Ack(A) \/ Bus!Nack(A) \/ Bus!Stop(A)
  <2>1. /\ connected' = connected /\ Spared(R)
        /\ Facts!InQueue(A)' = Facts!InQueue(A)
        /\ \/ ~connected
           \/ /\ phase[A] \in {"ok", "copied", "nack"} /\ phase'[A] = "idle"
              /\ Facts!InHand(A)' = {}
    BY <1>2, <1>6, Dropping
  <2>2. CASE ~connected
    BY <1>1, <1>3, <2>1, <2>2 DEF TrackInv
  <2>3. CASE connected
    <3>1. /\ ReqHand' = {} /\ ReqQueue' = ReqQueue /\ ~Answered(c)'
          /\ ~AMLAt("call")
      BY <2>1, <2>3 DEF ReqHand, ReqQueue, Answered, AMLAt, A
    <3>2. Requested(c) \in ReqHand => Answered(c)
      BY <3>1 DEF Answered
    <3> QED BY <1>1, <1>3, <2>1, <3>1, <3>2, TrackKept DEF TrackInv
  <2> QED BY <2>2, <2>3
<1> QED BY <1>4, <1>5, <1>6 DEF Deliver, Settling, Bus!Settling, A

LEMMA TrackEventBus ==
  ASSUME Known, Facts!SettleInv, NEW c \in Check, TrackInv(c),
         Deliver(QueueReportJobs) \/ Settling(QueueReportJobs)
  PROVE  TrackInv(c)'
<1> DEFINE A == QueueAMLRequests
           R == QueueReportJobs
<1>1. repo' = repo /\ status' = status /\ client' = client /\ amlpc' = amlpc
      /\ reppc' = reppc
  BY DEF Deliver, Settling, objectVars, clientVars
<1>2. A \in Queues /\ R \in Queues /\ A # R /\ BusFacts
  BY EventQueues, TwoQueues DEF Known
<1>3. phase[R] # "handling" => reppc = "get"
  BY DEF Known, ServeInv
<1> HIDE DEF A, R
<1>4. ASSUME Spared(A) PROVE ReqHand' = ReqHand /\ ReqQueue' = ReqQueue
                             /\ Answered(c)' = Answered(c)
  BY <1>1, <1>4 DEF Answered, AMLAt, Spared, ReqQueue, ReqHand, A
<1>5. CASE Bus!Deliver(R)
  <2>1. /\ connected' = connected /\ Spared(A)
        /\ phase[R] = "idle" /\ phase'[R] = "handling"
        /\ \E m : /\ Facts!InHand(R)' = {m}
                  /\ Facts!InQueue(R) = {m} \cup Facts!InQueue(R)'
        /\ Facts!InHand(R) = {}
        /\ Facts!Dead(R)' = Facts!Dead(R)
    BY <1>2, <1>5, Delivering
  <2>2. RepQueue \cup RepHand = RepQueue' \cup RepHand' /\ RepDead' = RepDead
    BY <2>1 DEF RepHand, RepQueue, RepDead, R
  <2>3. ~Stored' /\ Tracked(c)' = Tracked(c)
    BY <1>1, <1>3, <2>1, <2>2 DEF Stored, Tracked, R
  <2> QED BY <1>1, <1>4, <2>1, <2>3, TrackKept
<1>6. CASE Bus!Retry(R) \/ Bus!DeadLetter(R)
  <2>1. /\ connected' = connected /\ Spared(A)
        /\ phase[R] = "err" /\ phase'[R] = "copied"
        /\ Facts!InHand(R)' = Facts!InHand(R)
        /\ Facts!InQueue(R) \subseteq Facts!InQueue(R)'
        /\ Facts!Dead(R) \subseteq Facts!Dead(R)'
    BY <1>2, <1>6, Retrying, DeadLettering
  <2>2. RepHand' = RepHand /\ RepQueue \subseteq RepQueue' /\ RepDead \subseteq RepDead'
    BY <2>1 DEF RepHand, RepQueue, RepDead, R
  <2>3. ~Stored' /\ (Tracked(c) => Tracked(c)')
    BY <1>1, <1>3, <2>1, <2>2 DEF Stored, Tracked, R
  <2> QED BY <1>1, <1>4, <2>1, <2>3, TrackKept
<1>7. CASE Bus!PublishFails(R) \/ Bus!Ack(R) \/ Bus!Nack(R) \/ Bus!Stop(R)
  <2>1. /\ connected' = connected /\ Spared(A)
        /\ Facts!InQueue(R)' = Facts!InQueue(R)
        /\ Facts!Dead(R)' = Facts!Dead(R)
        /\ \/ /\ ~connected /\ phase[R] \in {"err", "idle"}
              /\ phase'[R] \in {"nack", "stopped"}
           \/ /\ phase[R] \in {"ok", "copied", "nack"} /\ phase'[R] = "idle"
              /\ Facts!InHand(R)' = {}
    BY <1>2, <1>7, Dropping
  <2>2. /\ RepQueue' = RepQueue /\ RepDead' = RepDead /\ ~Stored'
    BY <1>1, <1>3, <2>1 DEF RepQueue, RepDead, Stored, R
  <2>3. CASE ~connected
    BY <1>1, <2>1, <2>2, <2>3 DEF TrackInv
  <2>4. CASE connected
    <3>1. /\ phase[R] \in {"ok", "copied"} /\ RepHand' = {}
          /\ phase[R] = "copied" => job[R][1].msg \in Facts!InQueue(R) \cup Facts!Dead(R)
      BY <1>2, <2>1, <2>4 DEF Facts!SettleInv, Facts!SettleInvOf, RepHand, R
    <3>2. Facts!InHand(R) = {job[R][1].msg}
      BY <1>2, <3>1, BusyHand
    <3>3. CASE phase[R] = "copied"
      <4>1. RepHand \subseteq RepQueue \cup RepDead
        BY <3>1, <3>2, <3>3 DEF RepHand, RepQueue, RepDead, R
      <4>2. Tracked(c) => Tracked(c)'
        BY <1>1, <2>2, <4>1 DEF Tracked
      <4> QED BY <1>1, <1>4, <2>1, <2>2, <4>2, TrackKept
    <3>4. CASE phase[R] = "ok"
      <4>1. c \in repo /\ About(c) \cap RepHand # {} => status[c] # "processing"
        BY <3>4 DEF TrackInv, Stored, R
      <4>2. c \in repo /\ Tracked(c) => Tracked(c)'
        BY <1>1, <2>2, <4>1 DEF Tracked
      <4> QED BY <1>1, <1>4, <2>1, <2>2, <4>2, TrackKept
    <3> QED BY <3>1, <3>3, <3>4
  <2> QED BY <2>3, <2>4
<1> QED BY <1>5, <1>6, <1>7 DEF Deliver, Settling, Bus!Settling, R

LEMMA TrackRest ==
  ASSUME Known, NEW c \in Check, TrackInv(c),
         \/ ConnectionLost \/ Restart \/ CleanupExpired
         \/ (\E d \in Check : Expire(d)) \/ UNCHANGED pipelineVars
  PROVE  TrackInv(c)'
<1>1. CASE Restart
  BY <1>1 DEF Restart, TrackInv
<1>2. CASE ConnectionLost
  <2>1. repo' = repo /\ status' = status /\ reppc' = reppc /\ phase' = phase
    BY <1>2 DEF ConnectionLost, objectVars, Bus!ConnectionLost
  <2>2. Stored' = Stored
    BY <2>1 DEF Stored
  <2> QED BY <1>2, <2>1, <2>2, Losing DEF ConnectionLost, TrackInv, Known
<1>3. CASE CleanupExpired \/ (\E d \in Check : Expire(d)) \/ UNCHANGED pipelineVars
  <2>1. StillBus /\ amlpc' = amlpc /\ reppc' = reppc /\ status' = status
        /\ client' = client /\ (c \in repo' => c \in repo)
    BY <1>3 DEF CleanupExpired, Expire, pipelineVars, busVars, objectVars, clientVars,
       StillBus
  <2>2. Stored' = Stored
    BY <2>1 DEF Stored, StillBus
  <2> QED BY <2>1, <2>2, TrackStill DEF TrackInv
<1> QED BY <1>1, <1>2, <1>3

TracksInv == \A c \in Check : TrackInv(c)

LEMMA TracksCorrect == PipelineSpec => []TracksInv
<1>1. PipelineInit => TracksInv
  BY TrackInit DEF TracksInv
<1>2. Known /\ Facts!SettleInv /\ ChecksInv /\ TracksInv /\ [PipelineNext]_pipelineVars
        => TracksInv'
  <2> SUFFICES ASSUME Known, Facts!SettleInv, NEW c \in Check, CheckInv(c), TrackInv(c),
                      [PipelineNext]_pipelineVars
               PROVE  TrackInv(c)'
    BY DEF ChecksInv, TracksInv
  <2>1. ASSUME NEW d \in Check, ClientStep(d) PROVE TrackInv(c)'
    BY <2>1, TrackClient
  <2> QED BY <2>1, TrackAML, TrackReport, TrackRequestBus, TrackEventBus, TrackRest
          DEF PipelineNext, AMLWorker, ReportWorker
<1> QED BY <1>1, <1>2, KnownCorrect, SettleCorrect, ChecksCorrect, PTL DEF PipelineSpec

(* A check that is still processing while the service is connected has its *)
(* request or an event about it owed to a worker, or in the dead letters.  *)
THEOREM ChecksAreAccounted == PipelineSpec => []Accounted
<1>1. Known /\ TracksInv => Accounted
  <2> SUFFICES ASSUME Known, TracksInv, connected, NEW c \in repo,
                      status[c] = "processing", client[c] \notin Open
               PROVE  \/ Requested(c) \in Bus!Owed[QueueAMLRequests]
                      \/ \E e \in Bus!Owed[QueueReportJobs] \cup Bus!Dead(QueueReportJobs) :
                           e.check = c
    BY DEF Accounted, Open
  <2>1. /\ Bus!Owed[QueueAMLRequests] = ReqQueue \cup ReqHand
        /\ Bus!Owed[QueueReportJobs] = RepQueue \cup RepHand
        /\ Bus!Dead(QueueReportJobs) = RepDead
    BY EventQueues DEF Bus!Owed, Bus!InQueue, Bus!InHand, Bus!Entries, Bus!Dead,
       Facts!InQueue, Facts!InHand, Facts!Entries, Facts!Dead, ReqQueue, ReqHand,
       RepQueue, RepHand, RepDead
  <2>2. c \in Check /\ TrackInv(c)
    BY DEF TracksInv, Known, OwnTypeOK
  <2>3. Requested(c) \in ReqQueue \cup ReqHand
          \/ About(c) \cap (RepQueue \cup RepHand \cup RepDead) # {}
    BY <2>2 DEF TrackInv, Tracked
  <2>4. \A e \in About(c) : e.check = c
    BY <2>2, EventQueues, EventIsAbout
  <2> QED BY <2>1, <2>3, <2>4
<1> QED BY <1>1, KnownCorrect, TracksCorrect, PTL

=============================================================================
