---------------------------- MODULE CheckPipeline ----------------------------
(***************************************************************************)
(* The life of an AML check: POST /v1/check-address creates it in memory   *)
(* and publishes aml.check.requested; the AML worker asks the providers    *)
(* and publishes aml.check.completed or aml.check.failed; the report       *)
(* worker stores the PDF and marks the check; the client of the POST looks *)
(* every 500 ms for up to 20 s and, when it was told 202, polls with GET.  *)
(*                                                                         *)
(* Handlers, workers and the cleanup loop share the AMLCheck objects: the  *)
(* repository returns its pointer (memory_check_repository.go:49) and its  *)
(* lock does not cover the fields.  So the stores of MarkCompleted and     *)
(* MarkFailed are steps of their own.  A status is a string, two words: a  *)
(* reader between their stores sees "torn", which equals none of the       *)
(* statuses it compares with.                                              *)
(*                                                                         *)
(* The bus is EventBus with the two handlers in place of its free ones.    *)
(* aml.report.ready is left out: no queue is bound to its routing key and  *)
(* the error of its publish is only logged (generate_report.go:87-89).     *)
(***************************************************************************)
EXTENDS Naturals, Sequences

CONSTANTS
  Check,       \* the checks, by the UUID that names them
  Result,      \* score, level, categories and sanctions of a check
  NoResult,    \* what a new check holds in these fields
  MaxRetries,  \* rabbitmq.go:17
  MaxLosses    \* bound: how often the connection or the process is lost

ASSUME PipelineAssumption ==
  /\ NoResult \notin Result
  /\ MaxRetries \in Nat
  /\ MaxLosses \in Nat

-----------------------------------------------------------------------------
(* Events and their routing *)

QueueAMLRequests == "q_aml_requests"
QueueReportJobs  == "q_report_jobs"
Queues == {QueueAMLRequests, QueueReportJobs}

Requested(c)    == [type |-> "aml.check.requested", check |-> c, result |-> NoResult]
Completed(c, r) == [type |-> "aml.check.completed", check |-> c, result |-> r]
Failed(c)       == [type |-> "aml.check.failed", check |-> c, result |-> NoResult]

RequestEvent == {Requested(c) : c \in Check}
ReportEvent  == {Completed(c, r) : c \in Check, r \in Result}
                  \cup {Failed(c) : c \in Check}
Event == RequestEvent \cup ReportEvent

EventBinding == [q \in Queues |-> IF q = QueueAMLRequests THEN RequestEvent
                                                          ELSE ReportEvent]

-----------------------------------------------------------------------------
(* State *)

VARIABLES
  queue, job, phase, dlq, connected, losses, failures, handled,  \* EventBus
  repo,     \* the checks the repository maps to an object
  status,   \* status[c]: the field Status of the object
  result,   \* result[c]: RiskScore, RiskLevel, Categories, Sanctions
  keyed,    \* keyed[c]: ReportKey is set, to "<ID>.pdf"
  expired,  \* the checks whose ExpiresAt has passed
  report,   \* report[c]: the content of the stored report "<ID>.pdf"
  amlpc,    \* where the AML worker's handler stands
  reppc,    \* where the report worker's handler stands
  client,   \* client[c]: where the client that asked for c stands
  answer    \* answer[c]: the last body a status 200 brought it

busVars    == <<queue, job, phase, dlq, connected, losses, failures, handled>>
objectVars == <<status, result, keyed>>
clientVars == <<client, answer>>
pipelineVars == <<busVars, repo, objectVars, expired, report, amlpc, reppc,
                  clientVars>>

Bus == INSTANCE EventBus WITH
         Queue <- Queues, Message <- Event, Binding <- EventBinding

Status == {"processing", "completed", "failed", "torn"}
AMLPc  == {"call", "retOk", "retErr"}
RepPc  == {"get", "put", "mark", "marking", "result", "key", "update",
           "retOk", "retErr"}
Client == {"new", "publishing", "rejected", "waiting", "ok", "failed",
           "accepted", "toldProcessing", "toldOk", "toldFailed", "toldGone",
           "disconnected"}

(* A client with a poll URL: only the answer 202 names the check.          *)
Poller == {"accepted", "toldProcessing", "toldOk", "toldFailed", "toldGone"}

NoAnswer == [result |-> NoResult, keyed |-> FALSE]

AMLEvent    == job[QueueAMLRequests][1].msg
ReportJob   == job[QueueReportJobs][1].msg
(* Mutant: the routing key is taken for the status.                        *)
OutcomeByType == ReportJob.type

Outcome     == IF ReportJob.type = "aml.check.failed" THEN "failed" ELSE "completed"
AMLAt(at)   == phase[QueueAMLRequests] = "handling" /\ amlpc = at
ReportAt(at) == phase[QueueReportJobs] = "handling" /\ reppc = at

-----------------------------------------------------------------------------
(* POST /v1/check-address *)

(* An address that is valid for its currency gets a check.                 *)
CreateCheck(c) ==
  /\ client[c] = "new"
  /\ repo' = repo \cup {c}
  /\ client' = [client EXCEPT ![c] = "publishing"]
  /\ UNCHANGED <<busVars, objectVars, expired, report, amlpc, reppc, answer>>

(* The publish succeeds; or it fails and the client is told 500 while the  *)
(* check stays; or, there being no publisher confirms, it succeeds and the *)
(* connection breaks before the broker has the message.                    *)
PublishRequest(c) ==
  /\ client[c] = "publishing"
  /\ \/ Bus!Publish(Requested(c)) /\ client' = [client EXCEPT ![c] = "waiting"]
     \/ Bus!ConnectionLost /\ client' = [client EXCEPT ![c] = "waiting"]
     \/ ~connected /\ client' = [client EXCEPT ![c] = "rejected"]
                   /\ UNCHANGED busVars
  /\ UNCHANGED <<repo, objectVars, expired, report, amlpc, reppc, answer>>

Respond200(c) == answer' = [answer EXCEPT ![c] = [result |-> result[c],
                                                  keyed |-> keyed[c]]]

(* A tick of the waiting POST that ends it; every other tick changes       *)
(* nothing: the check is expired or gone, or its status is another.        *)
PollTick(c) ==
  /\ client[c] = "waiting"
  /\ c \in repo \ expired
  /\ \/ /\ status[c] = "completed"
        /\ client' = [client EXCEPT ![c] = "ok"]
        /\ Respond200(c)
     \/ /\ status[c] = "failed"
        /\ client' = [client EXCEPT ![c] = "failed"]
        /\ UNCHANGED answer
  /\ UNCHANGED <<busVars, repo, objectVars, expired, report, amlpc, reppc>>

(* CHECK_WAIT_SECONDS are over: 202 with the poll URL.                     *)
WaitTimeout(c) ==
  /\ client[c] = "waiting"
  /\ client' = [client EXCEPT ![c] = "accepted"]
  /\ UNCHANGED <<busVars, repo, objectVars, expired, report, amlpc, reppc, answer>>

-----------------------------------------------------------------------------
(* GET /v1/check-address/{check_id} *)

Told(c) ==
  IF c \notin repo \ expired THEN "toldGone"
  ELSE CASE status[c] = "processing" -> "toldProcessing"
         [] status[c] = "failed"     -> "toldFailed"
         [] OTHER                    -> "toldOk"

(* A status that is neither processing nor failed is answered 200.         *)
PollStatus(c) ==
  /\ client[c] \in Poller
  /\ client' = [client EXCEPT ![c] = Told(c)]
  /\ IF Told(c) = "toldOk" THEN Respond200(c) ELSE UNCHANGED answer
  /\ UNCHANGED <<busVars, repo, objectVars, expired, report, amlpc, reppc>>

-----------------------------------------------------------------------------
(* The AML worker: handleAMLCheckRequested, ProcessAMLCheckUseCase *)

(* A publish by a handler: done, broken by the loss of the connection and  *)
(* still without an error, or refused.                                     *)
PublishBy(e, done, refused) ==
  \/ Bus!Publish(e) /\ amlpc' = done
  \/ Bus!ConnectionLost /\ amlpc' = done
  \/ ~connected /\ amlpc' = refused /\ UNCHANGED busVars

(* Mutant: the error of the provider is swallowed.                         *)
ProviderSilent ==
  /\ AMLAt("call")
  /\ amlpc' = "retOk"
  /\ UNCHANGED <<busVars, repo, objectVars, expired, report, reppc, clientVars>>

(* The provider fails: the failure is announced, and whether or not it     *)
(* could be, the handler returns an error and the request is tried again.  *)
ProviderFails ==
  /\ AMLAt("call")
  /\ PublishBy(Failed(AMLEvent.check), "retErr", "retErr")
  /\ UNCHANGED <<repo, objectVars, expired, report, reppc, clientVars>>

(* Mutant: the handler returns an error after it announced the result.     *)
AnswersThenFails(r) ==
  /\ AMLAt("call")
  /\ PublishBy(Completed(AMLEvent.check, r), "retErr", "retErr")
  /\ UNCHANGED <<repo, objectVars, expired, report, reppc, clientVars>>

(* The provider answers; a failure of the sanctions provider is only one   *)
(* of the results (process_aml_check.go:57-64).                            *)
ProviderAnswers(r) ==
  /\ AMLAt("call")
  /\ PublishBy(Completed(AMLEvent.check, r), "retOk", "retErr")
  /\ UNCHANGED <<repo, objectVars, expired, report, reppc, clientVars>>

(* Mutant: after an error the goroutine takes the next delivery.           *)
AMLReturnsUnsettled ==
  /\ \/ AMLAt("retOk") /\ Bus!HandlerOk(QueueAMLRequests)
     \/ /\ AMLAt("retErr")
        /\ phase' = [phase EXCEPT ![QueueAMLRequests] = "idle"]
        /\ UNCHANGED <<queue, job, dlq, connected, losses, failures, handled>>
  /\ amlpc' = "call"
  /\ UNCHANGED <<repo, objectVars, expired, report, reppc, clientVars>>

AMLReturns ==
  /\ \/ AMLAt("retOk") /\ Bus!HandlerOk(QueueAMLRequests)
     \/ AMLAt("retErr") /\ Bus!HandlerErr(QueueAMLRequests)
  /\ amlpc' = "call"
  /\ UNCHANGED <<repo, objectVars, expired, report, reppc, clientVars>>

-----------------------------------------------------------------------------
(* The report worker: GenerateReportUseCase and HandleCheckFailedUseCase *)

ReportGoto(from, to) == ReportAt(from) /\ reppc' = to

GetCheck ==
  /\ ReportGoto("get", IF ReportJob.check \notin repo THEN "retErr"
                       ELSE IF Outcome = "completed" THEN "put" ELSE "mark")
  /\ UNCHANGED <<busVars, repo, objectVars, expired, report, amlpc, clientVars>>

PutReport ==
  /\ ReportGoto("put", "mark")
  /\ report' = [report EXCEPT ![ReportJob.check] = ReportJob.result]
  /\ UNCHANGED <<busVars, repo, objectVars, expired, amlpc, clientVars>>

(* Mutant: the error of Put is ignored.                                    *)
ReportFailsUnseen ==
  /\ ReportGoto("put", "mark")
  /\ UNCHANGED <<busVars, repo, objectVars, expired, report, amlpc, clientVars>>

(* GeneratePDF or Put returns an error; MinIO may have stored the report   *)
(* all the same, when only its answer was lost (minio_storage.go:94-100).  *)
ReportFails ==
  /\ ReportGoto("put", "retErr")
  /\ \/ UNCHANGED report
     \/ report' = [report EXCEPT ![ReportJob.check] = ReportJob.result]
  /\ UNCHANGED <<busVars, repo, objectVars, expired, amlpc, clientVars>>

(* MarkCompleted and MarkFailed store the status first, in two words.      *)
MarkStatus ==
  /\ \/ /\ ReportGoto("mark", "marking")
        /\ status' = [status EXCEPT ![ReportJob.check] =
                        IF @ = Outcome THEN @ ELSE "torn"]
     \/ /\ ReportGoto("marking", IF Outcome = "completed" THEN "result" ELSE "update")
        /\ status' = [status EXCEPT ![ReportJob.check] = Outcome]
  /\ UNCHANGED <<busVars, repo, result, keyed, expired, report, amlpc, clientVars>>

MarkResult ==
  /\ ReportGoto("result", "key")
  /\ result' = [result EXCEPT ![ReportJob.check] = ReportJob.result]
  /\ UNCHANGED <<busVars, repo, status, keyed, expired, report, amlpc, clientVars>>

MarkKey ==
  /\ ReportGoto("key", "update")
  /\ keyed' = [keyed EXCEPT ![ReportJob.check] = TRUE]
  /\ UNCHANGED <<busVars, repo, status, result, expired, report, amlpc, clientVars>>

(* Mutant: Update refuses an expired check.                                *)
UpdateUnexpired ==
  /\ ReportGoto("update", IF ReportJob.check \in repo \ expired THEN "retOk" ELSE "retErr")
  /\ UNCHANGED <<busVars, repo, objectVars, expired, report, amlpc, clientVars>>

(* Mutant: an error of what follows Update, the event aml.report.ready or  *)
(* the billing hook, is returned.                                          *)
UpdateThenFails ==
  /\ \E to \in {"retOk", "retErr"} : ReportGoto("update", to)
  /\ UNCHANGED <<busVars, repo, objectVars, expired, report, amlpc, clientVars>>

(* Update puts the same pointer back: it only fails for a check that the   *)
(* cleanup has removed since it was read.                                  *)
UpdateCheck ==
  /\ ReportGoto("update", IF ReportJob.check \in repo THEN "retOk" ELSE "retErr")
  /\ UNCHANGED <<busVars, repo, objectVars, expired, report, amlpc, clientVars>>

ReportReturns ==
  /\ \/ ReportAt("retOk") /\ Bus!HandlerOk(QueueReportJobs)
     \/ ReportAt("retErr") /\ Bus!HandlerErr(QueueReportJobs)
  /\ reppc' = "get"
  /\ UNCHANGED <<repo, objectVars, expired, report, amlpc, clientVars>>

-----------------------------------------------------------------------------
(* The bus, time and the end of the process *)

Deliver(q) ==
  /\ Bus!Deliver(q)
  /\ UNCHANGED <<repo, objectVars, expired, report, amlpc, reppc, clientVars>>

Settling(q) ==
  /\ Bus!Settling(q)
  /\ UNCHANGED <<repo, objectVars, expired, report, amlpc, reppc, clientVars>>

ConnectionLost ==
  /\ Bus!ConnectionLost
  /\ UNCHANGED <<repo, objectVars, expired, report, amlpc, reppc, clientVars>>

(* Memory is gone, queues and reports stay; the open requests break.       *)
Restart ==
  /\ Bus!Restart
  /\ repo' = {}
  /\ status' = [c \in Check |-> "processing"]
  /\ result' = [c \in Check |-> NoResult]
  /\ keyed' = [c \in Check |-> FALSE]
  /\ expired' = {}
  /\ amlpc' = "call"
  /\ reppc' = "get"
  /\ client' = [c \in Check |-> IF client[c] \in {"publishing", "waiting"}
                                THEN "disconnected" ELSE client[c]]
  /\ UNCHANGED <<report, answer>>

Expire(c) ==
  /\ c \in repo \ expired
  /\ expired' = expired \cup {c}
  /\ UNCHANGED <<busVars, repo, objectVars, report, amlpc, reppc, clientVars>>

(* One tick of the cleanup loop, under the write lock.                     *)
CleanupExpired ==
  /\ repo \cap expired # {}
  /\ repo' = repo \ expired
  /\ UNCHANGED <<busVars, objectVars, expired, report, amlpc, reppc, clientVars>>

-----------------------------------------------------------------------------
(* Specification *)

PipelineInit ==
  /\ Bus!BusInit
  /\ repo = {}
  /\ status = [c \in Check |-> "processing"]
  /\ result = [c \in Check |-> NoResult]
  /\ keyed = [c \in Check |-> FALSE]
  /\ expired = {}
  /\ report = [c \in Check |-> NoResult]
  /\ amlpc = "call"
  /\ reppc = "get"
  /\ client = [c \in Check |-> "new"]
  /\ answer = [c \in Check |-> NoAnswer]

ClientStep(c) == CreateCheck(c) \/ PublishRequest(c) \/ PollTick(c)
                   \/ WaitTimeout(c) \/ PollStatus(c)

AMLHandler == ProviderFails \/ (\E r \in Result : ProviderAnswers(r)) \/ AMLReturns

ReportHandler == \/ GetCheck \/ PutReport \/ ReportFails
                 \/ MarkStatus \/ MarkResult \/ MarkKey
                 \/ UpdateCheck \/ ReportReturns

AMLWorker    == AMLHandler \/ Deliver(QueueAMLRequests) \/ Settling(QueueAMLRequests)
ReportWorker == ReportHandler \/ Deliver(QueueReportJobs) \/ Settling(QueueReportJobs)

PipelineNext ==
  \/ \E c \in Check : ClientStep(c) \/ Expire(c)
  \/ AMLWorker
  \/ ReportWorker
  \/ CleanupExpired
  \/ ConnectionLost
  \/ Restart

PipelineSpec == PipelineInit /\ [][PipelineNext]_pipelineVars

(* The consumer goroutines run on: handlers return, the HTTP clients of    *)
(* the providers have timeouts (amlbot.go:34, chainalysis.go:36).  Nothing *)
(* forces a client to act, a connection to break or a process to restart.  *)
FairPipelineSpec ==
  PipelineSpec /\ WF_pipelineVars(AMLWorker) /\ WF_pipelineVars(ReportWorker)

-----------------------------------------------------------------------------
(* Properties *)

(* Every variable has its type.                                            *)
PipelineTypeOK ==
  /\ Bus!BusTypeOK
  /\ repo \subseteq Check
  /\ status \in [Check -> Status]
  /\ result \in [Check -> Result \cup {NoResult}]
  /\ keyed \in [Check -> BOOLEAN]
  /\ expired \subseteq Check
  /\ report \in [Check -> Result \cup {NoResult}]
  /\ amlpc \in AMLPc
  /\ reppc \in RepPc
  /\ client \in [Check -> Client]
  /\ answer \in [Check -> [result : Result \cup {NoResult}, keyed : BOOLEAN]]

(* A link to a report in a 200 answer leads to a stored report, read in    *)
(* the middle of MarkCompleted or after any number of retries, crashes and *)
(* redeliveries (generate_report.go:69-76 stores the report before it      *)
(* marks the check).                                                       *)
LinkIsServed == \A c \in Check : answer[c].keyed => report[c] # NoResult

(* And that report says what the answer says: no later attempt replaces    *)
(* it, although every attempt writes the same key "<ID>.pdf" and may find  *)
(* another score.                                                          *)
ReportMatchesAnswer ==
  \A c \in Check : answer[c].keyed => report[c] = answer[c].result

(* Put is retried, but never once a check has its key or a client its      *)
(* link, through retries, redeliveries and restarts: a Put of the same key *)
(* then, failed or not, would truncate or replace a report that can be     *)
(* downloaded (generate_report.go:69-97, local_storage.go:56).             *)
PutsBeforeLinks ==
  [][PutReport \/ ReportFails =>
       ~keyed[ReportJob.check] /\ ~answer[ReportJob.check].keyed]_pipelineVars

(* No check is forgotten: one that is still processing while the service   *)
(* is connected has its request unpublished, or some event about it is     *)
(* still owed to a worker, or its report was given up to the dead letter   *)
(* queue.                                                                  *)
Accounted ==
  connected => \A c \in repo : status[c] = "processing" =>
    \/ client[c] \in {"publishing", "rejected"}
    \/ Requested(c) \in Bus!Owed[QueueAMLRequests]
    \/ \E e \in Bus!Owed[QueueReportJobs] \cup Bus!Dead(QueueReportJobs) : e.check = c

(* A dead letter of the report queue tells the truth: the check it names   *)
(* was not completed by a copy of it, and no failure of a check that the   *)
(* repository still has is given up (handle_check_failed.go:30-38 only     *)
(* fails for a check that is gone).                                        *)
DeadIsUndelivered ==
  \A c \in repo :
    /\ Failed(c) \notin Bus!Dead(QueueReportJobs)
    /\ \A r \in Result : Completed(c, r) \in Bus!Dead(QueueReportJobs)
                           => status[c] # "completed"

(* A completed check stays completed for as long as the repository has it: *)
(* a failure announced by an earlier attempt never overwrites it, although *)
(* both reach the report worker and either may be retried.                 *)
CompletedIsFinal ==
  [][\A c \in repo \cap repo' : status[c] = "completed" => status'[c] = "completed"
    ]_pipelineVars

(* A client that polled and got a result with its report is never told     *)
(* afterwards that the check failed or is still running.                   *)
ResultIsKept ==
  [][\A c \in Check : client[c] = "toldOk" /\ answer[c].keyed
                        => client'[c] \in {"toldOk", "toldGone"}]_pipelineVars

(* The workers and handlers use the bus as EventBus allows them to.        *)
UsesBus == Bus!BusSpec

(* A requested check is decided while the connection holds: it completes,  *)
(* it fails, it is cleaned up or its report is in the dead letter queue.   *)
Decided ==
  \A c \in Check :
    (connected /\ Requested(c) \in Bus!Owed[QueueAMLRequests]) ~>
      \/ status[c] \in {"completed", "failed"}
      \/ c \notin repo
      \/ ~connected
      \/ \E e \in Bus!Dead(QueueReportJobs) : e.check = c

(* README.md:42 promises an answer "Risk score, sanctions data, and signed *)
(* PDF URL": a 200 answer holds a result and the link to its report.       *)
SuccessIsWhole ==
  \A c \in Check : client[c] \in {"ok", "toldOk"} =>
    answer[c].keyed /\ answer[c].result # NoResult

=============================================================================
