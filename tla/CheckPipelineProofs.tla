------------------------- MODULE CheckPipelineProofs -------------------------
(***************************************************************************)
(* What holds of the pipeline for any checks, results and retry limit, and *)
(* any number of crashes.  The pipeline only ever takes steps of the bus,  *)
(* so what EventBusProofs proves of the bus carries over (Facts), and on   *)
(* top of it: the types, and that a link in an answer leads to a stored    *)
(* report.                                                                 *)
(***************************************************************************)
EXTENDS CheckPipeline, TLAPS

Facts == INSTANCE EventBusProofs WITH
           Queue <- Queues, Message <- Event, Binding <- EventBinding

-----------------------------------------------------------------------------
(* The bus of the pipeline is the bus of the proofs *)

LEMMA TwoQueues == QueueAMLRequests # QueueReportJobs
BY DEF QueueAMLRequests, QueueReportJobs

LEMMA EventsAreTyped ==
  /\ \A c \in Check : Requested(c) \in Event /\ Failed(c) \in Event
  /\ \A c \in Check, r \in Result : Completed(c, r) \in Event
  /\ \A e \in Event : e.check \in Check /\ e.result \in Result \cup {NoResult}
  /\ \A e \in ReportEvent : e.type # "aml.check.failed" => e.result \in Result
<1>1. \A c \in Check : Requested(c) \in Event /\ Failed(c) \in Event
  BY DEF Event, RequestEvent, ReportEvent
<1>2. \A c \in Check, r \in Result : Completed(c, r) \in Event
  BY DEF Event, ReportEvent
<1>3. ASSUME NEW e \in Event PROVE e.check \in Check /\ e.result \in Result \cup {NoResult}
  BY DEF Event, RequestEvent, ReportEvent, Requested, Failed, Completed
<1>4. ASSUME NEW e \in ReportEvent, e.type # "aml.check.failed" PROVE e.result \in Result
  <2>1. \A c \in Check : e # Failed(c)
    BY <1>4 DEF Failed
  <2>2. PICK c \in Check, r \in Result : e = Completed(c, r)
    BY <2>1 DEF ReportEvent
  <2> QED BY <2>2 DEF Completed
<1> QED BY <1>1, <1>2, <1>3, <1>4

LEMMA BusAssumptionHolds == Facts!BusAssumption
<1>1. EventBinding \in [Queues -> SUBSET Event]
  BY DEF EventBinding, Event
<1>2. RequestEvent \cap ReportEvent = {}
  BY DEF RequestEvent, ReportEvent, Requested, Completed, Failed
<1>3. \A q, r \in Queues : q # r => EventBinding[q] \cap EventBinding[r] = {}
  BY <1>2, TwoQueues DEF EventBinding, Queues
<1> QED BY <1>1, <1>3, PipelineAssumption DEF Facts!BusAssumption

LEMMA SameInit == Bus!BusInit => Facts!BusInit
BY DEF Bus!BusInit, Facts!BusInit

LEMMA SameStep == [Bus!BusNext]_(Bus!busVars) => [Facts!BusNext]_(Facts!busVars)
<1>1. Bus!BusNext => Facts!BusNext
  BY Zenon DEF Bus!BusNext, Facts!BusNext,
     Bus!Publish, Facts!Publish, Bus!Route, Facts!Route, Bus!Fresh, Facts!Fresh,
     Bus!Consumer, Facts!Consumer, Bus!Deliver, Facts!Deliver,
     Bus!Handler, Facts!Handler, Bus!HandlerOk, Facts!HandlerOk,
     Bus!HandlerErr, Facts!HandlerErr, Bus!Settling, Facts!Settling,
     Bus!Retry, Facts!Retry, Bus!DeadLetter, Facts!DeadLetter,
     Bus!PublishFails, Facts!PublishFails, Bus!Ack, Facts!Ack,
     Bus!Nack, Facts!Nack, Bus!Stop, Facts!Stop, Bus!Goto, Facts!Goto,
     Bus!ConnectionLost, Facts!ConnectionLost, Bus!Restart, Facts!Restart
<1> QED BY <1>1 DEF Bus!busVars, Facts!busVars

LEMMA SameSpec == Bus!BusSpec => Facts!BusSpec
BY SameInit, SameStep, PTL DEF Bus!BusSpec, Facts!BusSpec

LEMMA SameType == Facts!BusTypeOK <=> Bus!BusTypeOK
BY DEF Bus!BusTypeOK, Facts!BusTypeOK, Bus!Phase, Facts!Phase,
       Bus!Delivery, Facts!Delivery, Bus!Letter, Facts!Letter

-----------------------------------------------------------------------------
(* Every step of the pipeline is a step of the bus, or leaves it alone *)

(* A consumer in its handler has an event in hand.                         *)
LEMMA EventInHand ==
  ASSUME Facts!BusTypeOK, NEW q \in Queues, phase[q] = "handling"
  PROVE  job[q][1] \in Facts!Delivery /\ job[q][1].msg \in Event
<1>1. job[q][1] \in Facts!Delivery
  BY Facts!OneJob, BusAssumptionHolds
<1> QED BY <1>1 DEF Facts!Delivery

LEMMA BusStep ==
  ASSUME Facts!BusTypeOK, [PipelineNext]_pipelineVars
  PROVE  [Bus!BusNext]_(Bus!busVars)
<1> USE DEF Queues
<1>1. ASSUME NEW c \in Check, ClientStep(c) PROVE [Bus!BusNext]_(Bus!busVars)
  BY <1>1, EventsAreTyped DEF ClientStep, CreateCheck, PublishRequest, PollTick,
     WaitTimeout, PollStatus, busVars, Bus!busVars, Bus!BusNext
<1>2. ASSUME AMLHandler PROVE [Bus!BusNext]_(Bus!busVars)
  <2>1. AMLAt("call") => AMLEvent.check \in Check
    BY EventInHand, EventsAreTyped DEF AMLAt, AMLEvent
  <2>2. CASE ProviderFails
    BY <2>1, <2>2, EventsAreTyped DEF ProviderFails, PublishBy, busVars, Bus!busVars,
       Bus!BusNext
  <2>3. ASSUME NEW r \in Result, ProviderAnswers(r) PROVE [Bus!BusNext]_(Bus!busVars)
    BY <2>1, <2>3, EventsAreTyped DEF ProviderAnswers, PublishBy, busVars, Bus!busVars,
       Bus!BusNext
  <2>4. CASE AMLReturns
    BY <2>4 DEF AMLReturns, Bus!BusNext, Bus!Consumer, Bus!Handler
  <2> QED BY <1>2, <2>2, <2>3, <2>4 DEF AMLHandler
<1>3. ASSUME ReportHandler PROVE [Bus!BusNext]_(Bus!busVars)
  <2>1. CASE ReportReturns
    BY <2>1 DEF ReportReturns, Bus!BusNext, Bus!Consumer, Bus!Handler
  <2>2. CASE ~ReportReturns
    BY <1>3, <2>2 DEF ReportHandler, GetCheck, PutReport, ReportFails, MarkStatus,
       MarkResult, MarkKey, UpdateCheck, busVars, Bus!busVars
  <2> QED BY <2>1, <2>2
<1>4. ASSUME NEW q \in Queues, Deliver(q) \/ Settling(q)
      PROVE  [Bus!BusNext]_(Bus!busVars)
  BY <1>4 DEF Deliver, Settling, Bus!BusNext, Bus!Consumer
<1>5. ASSUME ConnectionLost \/ Restart PROVE [Bus!BusNext]_(Bus!busVars)
  BY <1>5 DEF ConnectionLost, Restart, Bus!BusNext
<1>6. ASSUME CleanupExpired \/ UNCHANGED pipelineVars \/ \E c \in Check : Expire(c)
      PROVE  [Bus!BusNext]_(Bus!busVars)
  BY <1>6 DEF CleanupExpired, Expire, pipelineVars, busVars, Bus!busVars
<1> QED BY <1>1, <1>2, <1>3, <1>4, <1>5, <1>6
        DEF PipelineNext, AMLWorker, ReportWorker

(* The pipeline uses the bus as EventBus allows: no handler acts out of    *)
(* turn, and nothing but bus operations touches queues and deliveries.     *)
THEOREM PipelineUsesBus == PipelineSpec => UsesBus
<1>1. PipelineInit => Bus!BusInit /\ Facts!BusTypeOK
  BY SameInit, BusAssumptionHolds, Facts!BusTypeInit DEF PipelineInit
<1>2. Facts!BusTypeOK /\ [PipelineNext]_pipelineVars => Facts!BusTypeOK'
  BY BusStep, SameStep, BusAssumptionHolds, Facts!BusTypeNext
<1>3. Facts!BusTypeOK /\ [PipelineNext]_pipelineVars => [Bus!BusNext]_(Bus!busVars)
  BY BusStep
<1> QED BY <1>1, <1>2, <1>3, PTL DEF PipelineSpec, UsesBus, Bus!BusSpec

(* What is known of the bus in every state of the pipeline.                *)
BusFacts == Facts!BusTypeOK /\ Facts!Routed

LEMMA PipelineBusFacts == PipelineSpec => []BusFacts
<1>1. Facts!BusSpec => []Facts!BusTypeOK
  BY BusAssumptionHolds, Facts!BusTypeCorrect
<1>2. Facts!BusSpec => []Facts!Routed
  BY BusAssumptionHolds, Facts!OnlyRouted
<1> QED BY <1>1, <1>2, PipelineUsesBus, SameSpec, PTL DEF BusFacts, UsesBus

-----------------------------------------------------------------------------
(* Type correctness *)

(* The types of what the pipeline adds to the bus.                         *)
OwnTypeOK ==
  /\ repo \subseteq Check
  /\ status \in [Check -> Status]
  /\ result \in [Check -> Result \cup {NoResult}]
  /\ keyed \in [Check -> BOOLEAN]
  /\ expired \subseteq Check
  /\ report \in [Check -> Result \cup {NoResult}]
  /\ amlpc \in AMLPc
  /\ reppc \in RepPc
  /\ client \in [Check -> Client]
  /\ answer \in [Check -> [result : Result \cup {NoResult}, keyed : BOOLEAN]]

LEMMA OwnTypeInit == PipelineInit => OwnTypeOK
BY DEF PipelineInit, OwnTypeOK, Status, AMLPc, RepPc, Client, NoAnswer

LEMMA OwnTypeRespond ==
  ASSUME OwnTypeOK, NEW c \in Check, Respond200(c)
  PROVE  answer' \in [Check -> [result : Result \cup {NoResult}, keyed : BOOLEAN]]
<1>1. [result |-> result[c], keyed |-> keyed[c]]
        \in [result : Result \cup {NoResult}, keyed : BOOLEAN]
  BY DEF OwnTypeOK
<1> QED BY <1>1 DEF Respond200, OwnTypeOK

LEMMA OwnTypeClient ==
  ASSUME OwnTypeOK, NEW c \in Check, ClientStep(c)
  PROVE  OwnTypeOK'
<1>1. CASE CreateCheck(c)
  BY <1>1 DEF CreateCheck, OwnTypeOK, objectVars, Client
<1>2. CASE PublishRequest(c)
  BY <1>2 DEF PublishRequest, OwnTypeOK, objectVars, Client
<1>3. CASE PollTick(c)
  <2>1. answer' \in [Check -> [result : Result \cup {NoResult}, keyed : BOOLEAN]]
    BY <1>3, OwnTypeRespond DEF PollTick, OwnTypeOK
  <2>2. client' \in [Check -> Client]
    BY <1>3 DEF PollTick, OwnTypeOK, Client
  <2> QED BY <1>3, <2>1, <2>2 DEF PollTick, OwnTypeOK, objectVars
<1>4. CASE WaitTimeout(c)
  BY <1>4 DEF WaitTimeout, OwnTypeOK, objectVars, Client
<1>5. CASE PollStatus(c)
  <2>1. answer' \in [Check -> [result : Result \cup {NoResult}, keyed : BOOLEAN]]
    BY <1>5, OwnTypeRespond DEF PollStatus, OwnTypeOK
  <2>2. Told(c) \in Client
    BY DEF Told, Client
  <2>3. client' \in [Check -> Client]
    BY <1>5, <2>2 DEF PollStatus, OwnTypeOK
  <2> QED BY <1>5, <2>1, <2>3 DEF PollStatus, OwnTypeOK, objectVars
<1> QED BY <1>1, <1>2, <1>3, <1>4, <1>5 DEF ClientStep

LEMMA OwnTypeAML ==
  ASSUME OwnTypeOK, AMLHandler
  PROVE  OwnTypeOK'
<1>1. amlpc' \in AMLPc
  BY DEF AMLHandler, ProviderFails, ProviderAnswers, PublishBy, AMLReturns, AMLPc
<1>2. UNCHANGED <<repo, objectVars, expired, report, reppc, clientVars>>
  BY DEF AMLHandler, ProviderFails, ProviderAnswers, AMLReturns
<1> QED BY <1>1, <1>2 DEF OwnTypeOK, objectVars, clientVars

(* The report worker handles an event of its queue.                        *)
LEMMA ReportJobTyped ==
  ASSUME BusFacts, phase[QueueReportJobs] = "handling"
  PROVE  /\ ReportJob \in ReportEvent
         /\ ReportJob.check \in Check
         /\ ReportJob.result \in Result \cup {NoResult}
         /\ Outcome = "completed" => ReportJob.result \in Result
         /\ Outcome \in {"completed", "failed"}
<1>1. QueueReportJobs \in Queues
  BY DEF Queues
<1>2. job[QueueReportJobs][1] \in Facts!Held(QueueReportJobs) /\ ReportJob \in Event
  BY <1>1, BusAssumptionHolds, Facts!JobHeld, EventInHand DEF BusFacts, ReportJob
<1>3. ReportJob \in EventBinding[QueueReportJobs]
  BY <1>1, <1>2 DEF BusFacts, Facts!Routed, ReportJob
<1>4. ReportJob \in ReportEvent
  BY <1>1, <1>3, TwoQueues DEF EventBinding
<1> QED BY <1>2, <1>4, EventsAreTyped DEF Outcome

LEMMA OwnTypeReport ==
  ASSUME BusFacts, OwnTypeOK, ReportHandler
  PROVE  OwnTypeOK'
<1>0. phase[QueueReportJobs] = "handling"
  BY DEF ReportHandler, GetCheck, PutReport, ReportFails, MarkStatus, MarkResult,
     MarkKey, UpdateCheck, ReportReturns, ReportGoto, ReportAt
<1>1. /\ ReportJob.check \in Check /\ ReportJob.result \in Result \cup {NoResult}
      /\ Outcome \in {"completed", "failed"}
  BY <1>0, ReportJobTyped
<1>2. CASE GetCheck \/ UpdateCheck \/ ReportReturns
  BY <1>2 DEF GetCheck, UpdateCheck, ReportReturns, ReportGoto, OwnTypeOK,
     objectVars, clientVars, RepPc
<1>3. CASE PutReport \/ ReportFails
  BY <1>1, <1>3 DEF PutReport, ReportFails, ReportGoto, OwnTypeOK, objectVars, clientVars, RepPc
<1>4. CASE MarkStatus
  <2>1. status' \in [Check -> Status]
    BY <1>1, <1>4 DEF MarkStatus, OwnTypeOK, Status
  <2>2. reppc' \in RepPc
    BY <1>4 DEF MarkStatus, ReportGoto, RepPc
  <2> QED BY <1>4, <2>1, <2>2 DEF MarkStatus, OwnTypeOK, clientVars
<1>5. CASE MarkResult
  BY <1>1, <1>5 DEF MarkResult, ReportGoto, OwnTypeOK, clientVars, RepPc
<1>6. CASE MarkKey
  BY <1>1, <1>6 DEF MarkKey, ReportGoto, OwnTypeOK, clientVars, RepPc
<1> QED BY <1>2, <1>3, <1>4, <1>5, <1>6 DEF ReportHandler

LEMMA OwnTypeNext ==
  ASSUME BusFacts, OwnTypeOK, [PipelineNext]_pipelineVars
  PROVE  OwnTypeOK'
<1>1. ASSUME NEW c \in Check, ClientStep(c) PROVE OwnTypeOK'
  BY <1>1, OwnTypeClient
<1>2. ASSUME NEW q \in Queues, Deliver(q) \/ Settling(q) PROVE OwnTypeOK'
  BY <1>2 DEF Deliver, Settling, OwnTypeOK, objectVars, clientVars
<1>3. CASE ConnectionLost
  BY <1>3 DEF ConnectionLost, OwnTypeOK, objectVars, clientVars
<1>4. CASE Restart
  BY <1>4 DEF Restart, OwnTypeOK, Status, AMLPc, RepPc, Client
<1>5. CASE CleanupExpired \/ \E c \in Check : Expire(c)
  BY <1>5 DEF CleanupExpired, Expire, OwnTypeOK, objectVars, clientVars
<1>6. CASE UNCHANGED pipelineVars
  BY <1>6 DEF pipelineVars, OwnTypeOK, objectVars, clientVars
<1> QED BY <1>1, <1>2, <1>3, <1>4, <1>5, <1>6, OwnTypeAML, OwnTypeReport
        DEF PipelineNext, AMLWorker, ReportWorker, Queues

LEMMA OwnTypeCorrect == PipelineSpec => []OwnTypeOK
<1>1. PipelineInit => OwnTypeOK
  BY OwnTypeInit
<1>2. BusFacts /\ OwnTypeOK /\ [PipelineNext]_pipelineVars => OwnTypeOK'
  BY OwnTypeNext
<1> QED BY <1>1, <1>2, PipelineBusFacts, PTL DEF PipelineSpec

(* Every variable of the pipeline keeps its type.                          *)
THEOREM PipelineTypeCorrect == PipelineSpec => []PipelineTypeOK
<1>1. BusFacts /\ OwnTypeOK => PipelineTypeOK
  BY SameType DEF BusFacts, OwnTypeOK, PipelineTypeOK
<1> QED BY <1>1, PipelineBusFacts, OwnTypeCorrect, PTL

-----------------------------------------------------------------------------
(* A link leads to a stored report *)

(* The inductive invariant: outside its handler the report worker starts   *)
(* afresh; between Put and the end of MarkCompleted the report of its job  *)
(* is stored; and a check that has a key has a report.                     *)
ServeInv ==
  /\ reppc # "get" => phase[QueueReportJobs] = "handling"
  /\ reppc \in {"put", "result", "key"} => Outcome = "completed"
  /\ reppc \in {"mark", "marking", "result", "key"} /\ Outcome = "completed"
       => report[ReportJob.check] # NoResult
  /\ \A c \in Check : keyed[c] => report[c] # NoResult
  /\ LinkIsServed

(* A step that leaves the report worker at its place, and keys, reports    *)
(* and answers alone, keeps the invariant.                                 *)
LEMMA ServeKept ==
  ASSUME ServeInv, reppc' = reppc, report' = report, keyed' = keyed, answer' = answer,
         reppc # "get" => phase'[QueueReportJobs] = "handling"
                          /\ job'[QueueReportJobs] = job[QueueReportJobs]
  PROVE  ServeInv'
<1>1. reppc # "get" => ReportJob' = ReportJob /\ Outcome' = Outcome
  BY DEF ReportJob, Outcome
<1>2. LinkIsServed'
  BY DEF ServeInv, LinkIsServed
<1> QED BY <1>1, <1>2 DEF ServeInv

LEMMA ServeInit == PipelineInit => ServeInv
BY DEF PipelineInit, ServeInv, LinkIsServed, NoAnswer

LEMMA ServeClient ==
  ASSUME OwnTypeOK, ServeInv, NEW c \in Check, ClientStep(c)
  PROVE  ServeInv'
<1>1. /\ reppc' = reppc /\ report' = report /\ keyed' = keyed
      /\ phase' = phase /\ job' = job
  BY DEF ClientStep, CreateCheck, PublishRequest, PollTick, WaitTimeout, PollStatus,
     objectVars, busVars, Bus!Publish, Bus!ConnectionLost
<1>2. ASSUME NEW d \in Check, answer'[d].keyed PROVE answer[d].keyed \/ keyed[d]
  <2>1. CASE Respond200(c)
    BY <1>2, <2>1 DEF Respond200, OwnTypeOK
  <2>2. CASE answer' = answer
    BY <1>2, <2>2
  <2> QED BY <2>1, <2>2 DEF ClientStep, CreateCheck, PublishRequest, PollTick,
          WaitTimeout, PollStatus
<1>3. LinkIsServed'
  BY <1>1, <1>2 DEF ServeInv, LinkIsServed
<1>4. ReportJob' = ReportJob /\ Outcome' = Outcome
  BY <1>1 DEF ReportJob, Outcome
<1> QED BY <1>1, <1>3, <1>4 DEF ServeInv

LEMMA ServeAML ==
  ASSUME BusFacts, ServeInv, AMLHandler
  PROVE  ServeInv'
<1>1. /\ reppc' = reppc /\ report' = report /\ keyed' = keyed /\ answer' = answer
      /\ job' = job
  BY DEF AMLHandler, ProviderFails, ProviderAnswers, AMLReturns, PublishBy, objectVars,
     busVars, clientVars, Bus!Publish, Bus!ConnectionLost, Bus!HandlerOk, Bus!HandlerErr
<1>2. phase'[QueueReportJobs] = phase[QueueReportJobs]
  BY TwoQueues, SameType DEF AMLHandler, ProviderFails, ProviderAnswers, AMLReturns, PublishBy,
     busVars, Bus!Publish, Bus!ConnectionLost, Bus!HandlerOk, Bus!HandlerErr, Bus!Goto,
     BusFacts, Bus!BusTypeOK, Queues
<1> QED BY <1>1, <1>2, ServeKept DEF ServeInv

LEMMA ServeReport ==
  ASSUME BusFacts, OwnTypeOK, ServeInv, ReportHandler
  PROVE  ServeInv'
<1>0. phase[QueueReportJobs] = "handling"
  BY DEF ReportHandler, GetCheck, PutReport, ReportFails, MarkStatus, MarkResult,
     MarkKey, UpdateCheck, ReportReturns, ReportGoto, ReportAt
<1>1. CASE ReportReturns
  <2>1. /\ reppc' = "get" /\ report' = report /\ keyed' = keyed /\ answer' = answer
    BY <1>1 DEF ReportReturns, objectVars, clientVars
  <2> QED BY <2>1 DEF ServeInv, LinkIsServed
<1>2. CASE ~ReportReturns
  <2>1. phase' = phase /\ job' = job /\ answer' = answer
    BY <1>2 DEF ReportHandler, GetCheck, PutReport, ReportFails, MarkStatus, MarkResult,
       MarkKey, UpdateCheck, busVars, clientVars
  <2>2. ReportJob' = ReportJob /\ Outcome' = Outcome
    BY <2>1 DEF ReportJob, Outcome
  <2>3. CASE GetCheck \/ MarkStatus \/ MarkResult \/ UpdateCheck
    <3>1. report' = report /\ keyed' = keyed
      BY <2>3 DEF GetCheck, MarkStatus, MarkResult, UpdateCheck, objectVars
    <3>2. /\ reppc' \in {"put", "result", "key"} => Outcome = "completed"
          /\ reppc' \in {"mark", "marking", "result", "key"} /\ Outcome = "completed"
               => reppc \in {"mark", "marking", "result", "key"}
      BY <2>3 DEF GetCheck, MarkStatus, MarkResult, UpdateCheck, ReportGoto, ReportAt,
         ServeInv, Outcome
    <3> QED BY <1>0, <2>1, <2>2, <3>1, <3>2 DEF ServeInv, LinkIsServed
  <2>4. CASE PutReport \/ ReportFails
    <3>1. /\ Outcome = "completed" /\ keyed' = keyed
          /\ reppc' = "retErr" \/ (reppc' = "mark" /\ PutReport)
      BY <2>4 DEF PutReport, ReportFails, ReportGoto, ReportAt, ServeInv, objectVars
    <3>2. ReportJob.check \in Check /\ ReportJob.result # NoResult
      BY <1>0, <3>1, ReportJobTyped, PipelineAssumption
    <3>3. /\ PutReport => report'[ReportJob.check] # NoResult
          /\ \A c \in Check : report[c] # NoResult => report'[c] # NoResult
      BY <2>4, <3>2 DEF PutReport, ReportFails, OwnTypeOK
    <3> QED BY <1>0, <2>1, <2>2, <3>1, <3>3 DEF ServeInv, LinkIsServed
  <2>5. CASE MarkKey
    <3>1. report' = report /\ reppc' = "update" /\ report[ReportJob.check] # NoResult
      BY <2>5 DEF MarkKey, ReportGoto, ReportAt, ServeInv
    <3>2. \A c \in Check : keyed'[c] => keyed[c] \/ c = ReportJob.check
      BY <2>5 DEF MarkKey, OwnTypeOK
    <3> QED BY <1>0, <2>1, <2>2, <3>1, <3>2 DEF ServeInv, LinkIsServed
  <2> QED BY <1>2, <2>3, <2>4, <2>5 DEF ReportHandler
<1> QED BY <1>1, <1>2

LEMMA ServeBus ==
  ASSUME BusFacts, ServeInv, NEW q \in Queues, Deliver(q) \/ Settling(q)
  PROVE  ServeInv'
<1>1. reppc' = reppc /\ report' = report /\ keyed' = keyed /\ answer' = answer
  BY DEF Deliver, Settling, objectVars, clientVars
<1>2. phase[QueueReportJobs] = "handling" =>
        /\ phase'[QueueReportJobs] = "handling"
        /\ job'[QueueReportJobs] = job[QueueReportJobs]
  BY SameType DEF Deliver, Settling, Bus!Deliver, Bus!Settling, Bus!Retry, Bus!DeadLetter,
     Bus!PublishFails, Bus!Ack, Bus!Nack, Bus!Stop, Bus!Goto, BusFacts, Bus!BusTypeOK,
     Queues
<1> QED BY <1>1, <1>2, ServeKept DEF ServeInv

LEMMA ServeRest ==
  ASSUME ServeInv, \/ ConnectionLost \/ Restart \/ CleanupExpired
                   \/ (\E c \in Check : Expire(c)) \/ UNCHANGED pipelineVars
  PROVE  ServeInv'
<1>1. CASE Restart
  <2>1. reppc' = "get" /\ report' = report /\ answer' = answer
        /\ \A c \in Check : ~keyed'[c]
    BY <1>1 DEF Restart
  <2> QED BY <2>1 DEF ServeInv, LinkIsServed
<1>2. CASE ~Restart
  <2>1. /\ reppc' = reppc /\ report' = report /\ keyed' = keyed /\ answer' = answer
        /\ phase' = phase /\ job' = job
    BY <1>2 DEF ConnectionLost, CleanupExpired, Expire, pipelineVars, busVars, objectVars,
       clientVars, Bus!ConnectionLost
  <2> QED BY <2>1, ServeKept DEF ServeInv
<1> QED BY <1>1, <1>2

LEMMA ServeCorrect == PipelineSpec => []ServeInv
<1>1. PipelineInit => ServeInv
  BY ServeInit
<1>2. BusFacts /\ OwnTypeOK /\ ServeInv /\ [PipelineNext]_pipelineVars => ServeInv'
  <2> SUFFICES ASSUME BusFacts, OwnTypeOK, ServeInv, [PipelineNext]_pipelineVars
               PROVE  ServeInv'
    OBVIOUS
  <2>1. ASSUME NEW c \in Check, ClientStep(c) PROVE ServeInv'
    BY <2>1, ServeClient
  <2>2. ASSUME NEW q \in Queues, Deliver(q) \/ Settling(q) PROVE ServeInv'
    BY <2>2, ServeBus
  <2> QED BY <2>1, <2>2, ServeAML, ServeReport, ServeRest
          DEF PipelineNext, AMLWorker, ReportWorker, Queues
<1> QED BY <1>1, <1>2, PipelineBusFacts, OwnTypeCorrect, PTL DEF PipelineSpec

(* For any number of checks, retries and crashes, and for a reader that    *)
(* looks in the middle of MarkCompleted: a link that was handed out leads  *)
(* to a stored report.                                                     *)
THEOREM LinksAreServed == PipelineSpec => []LinkIsServed
<1>1. ServeInv => LinkIsServed
  BY DEF ServeInv
<1> QED BY <1>1, ServeCorrect, PTL

=============================================================================
