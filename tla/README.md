# TLA+ models of bitpanda-aml

The service answers "is this cryptocurrency address risky?". `POST
/v1/check-address` creates a check in memory and publishes an event; one worker
asks the providers, another stores a PDF report and marks the check; clients poll
for the result and download the report. This directory holds TLA+ modules of the
parts in which something can go wrong between two steps, the TLC runs that check
them on small instances, and proofs for every size.

Paths below are relative to the repository; `rabbitmq.go` stands for
`internal/infrastructure/rabbitmq/rabbitmq.go`, and so on.

## The system

| Part | State | Operations | What makes it correct |
|---|---|---|---|
| Message bus (`rabbitmq.go`) | durable queues and dead letter queues at the broker; per subscription a goroutine with at most one delivery | `Publish`; `Subscribe` and its loop: handle, republish with a higher count, dead letter, ack, nack | nothing accepted is lost, nothing is given up before its retries, only a lost connection duplicates |
| Check pipeline (`application/`, `workers/`) | the `AMLCheck` objects; the steps of the two handlers | the use cases; `MarkCompleted`, `MarkFailed` | an outcome is final, a result has its report, no check is forgotten |
| Repository (`memory_check_repository.go`) | a map of pointers under a `RWMutex` | `Create`, `Get`, `Update`, `CleanupExpired` | the fields are not covered by the lock |
| HTTP handlers (`handlers.go`) | one goroutine per request | `CheckAddress` (waits up to 20 s, looks every 500 ms), `GetCheckStatus`, `GetReport` | clients see a consistent history of a check |
| Local storage (`local_storage.go`) | a file per report, a map of expiry times, `.metadata.json` | `Put`, `Get`, `CleanupExpired`, load and save | an unexpired entry has its file; expired files go away |
| Rate limiter (`fixed-window.go`, `middleware.go`) | a count per client, a sleeping goroutine per window | `Allow`, `resetCount` | the limit holds up to the race; windows end |
| MinIO storage (`minio_storage.go`) | objects under a day prefix, their metadata | `Put`, `Get`, `PresignGet`, `CleanupExpired` | a stored report is found until it expires |
| Tokens (`hmac.go`) | none | `Sign`, `Verify` | a link lives as long as what it links to |
| Screening (`asset.go`, `providers/`, `aml_check.go`, `pdf.go`) | none that survives a call | normalize and validate an address; ask AMLBot or the mock, then Chainalysis; derive the level; write the report and the response | only valid addresses are asked about; sanctions and risk stay apart; both documents agree |
| Server (`main.go`, `api.go`) | the HTTP server with its timeouts, the signal | `run`, `Shutdown` | answers come before the connection times out; the process ends |
| Billing, health, API description | none | | |

How they interact. The POST handler calls the repository and the bus directly.
The workers run inside the bus's consumer goroutines: their return value decides
between ack and retry. The report worker, the handlers and the cleanup loop share
the check objects through the repository. Handlers and the report worker meet
again in the storage. The limiter stands in front of every handler and shares
nothing with the rest; the timeouts of the server bound what a handler may wait.

Hard behaviours: two broker operations per retry with a window between them; a
connection that is never opened again (only a restart reconnects); durable queues
next to a repository that is only memory; a failure that is announced *and*
retried, so that contradictory events travel together; objects read without a
lock while they are written; a file, a map and a copy of the map changed one
after the other; a decision taken under one lock and applied under another;
three lifetimes (token, check, report) that begin at different times, and a storage
that finds reports by the day they were put; a wait inside a write timeout inside a
process that may be told to end.
`PROJECT.json` lists each of these hazards at its line with the properties about it.

## The modules

```
WorkLedger  <=implements=  EventBus  <--INSTANCE--  CheckPipeline <- MCCheckPipeline
                            ^    ^                       ^
                            |    |              CheckPipelineProofs <- CheckOutcomeProofs
                            |    |                       |
    MCEventBus -> EventBusOnce  EventBusProofs <--INSTANCE
                            ^    ^
                     EventBusOnceProofs

ReportStore <=implements=  LocalStorage <- LocalStorageProofs

RateLimiter <- Server <- ServerProofs                  ReportLinks <- MCReportLinks, ReportLinksProofs
     ^            ^
MCRateLimiter  MCServer                                Screening <- MCScreening, ScreeningProofs
```

**EventBus** models `Subscribe` for any set of queues. `phase[q]` is where the
consumer goroutine stands, `job[q]` its delivery, `queue[q]` what the broker has
ready. The handler's result is free (`HandlerOk`, `HandlerErr`). `Retry` and
`DeadLetter` are the two publishes of rabbitmq.go:212-257, `Ack` a step of its own.
`ConnectionLost` puts unacknowledged deliveries back at the head of their queues
while the goroutines keep their copy: their later `Ack` reaches nobody. `Stop`
is the closed delivery channel; only `Restart` connects again. A crash, and also
a termination by signal (`logger.Fatal` in main.go:206 skips every deferred
`Close` and `Stop`), is `ConnectionLost` followed by `Restart`. `aml.dlq` is a
fanout exchange, so every dead letter queue gets every letter; a letter carries
its origin as the header `x-original-queue` does. `failures` and `handled` are
history variables.

**WorkLedger** is what the bus promises: work is accepted, then owed until it is
settled. `EventBus` maps to it with `owed` = what is queued or, while connected,
in hand, and `settled` = handled or dead lettered. The dead letters of one queue
in another queue's dead letter queue do not count.

**EventBusOnce** is the bus with publishers that publish every message at most once:
each `Publish` of the code has a new event with an ID of its own (events.go:47). Here
one can count: how many copies of a message there are, how often it is attempted.

**CheckPipeline** puts the two handlers in the place of the free ones and adds the
repository (`repo`, `expired`), the fields of the checks (`status`, `result`,
`keyed`), the stored reports and one client per check. `amlpc` and `reppc` say
where the handlers stand. `MarkCompleted` is four steps: the fields are written
without a lock, and the status, a Go string, is two words. A `Put` that returns an
error may have stored the report all the same (`ReportFails`): MinIO's answer can get
lost, so a retry may put a report that is there already. A handler's publish may
also be the moment the connection breaks (`PublishBy`): there are no publisher
confirms, so the caller sees success. Clients: `new -> publishing -> waiting`, and
`ok`, `failed` or `accepted`; who was told 202 may poll at any time (`PollStatus`).

**RateLimiter** splits `Allow` at its two critical sections (`Look`, `Count`). `Addr` is
the set of values of `RemoteAddr`, which has the port in it: without a proxy that
sets a header for `middleware.RealIP`, what holds of an address here holds of a
connection, not of an IP as README.md:13 has it.

**LocalStorage** splits `Put`, `CleanupExpired` and `saveMetadata` at their file
operations, lets each of them, the read of a download and the read of
`.metadata.json` at the start fail (`Fault`), and the process end anywhere (`Crash`).

**ReportStore** is what a storage promises those who download: a report is kept once
and, when it expires or is lost, gone for good. In between it may be missing: a process
that could not read its list does not know of it, the next one finds it again unless it
expired or a save gave it up. A download that found the report is answered 200, or 500
only if it has gone since or the medium failed; one that did not find it is refused.
`LocalStorage` maps to it with `shelf[k]` = kept while the map has an unexpired entry,
none while `Put` of it has not succeeded, missing while only an intact
`.metadata.json` has the unexpired entry, gone otherwise; `faults` is itself.

**ReportLinks** puts the lifetimes on one clock of hours: `links` are the tokens
clients hold, `objects` the reports with the hour they were put, `config` one of the
configurations (storage, `CHECK_TTL_HOURS`, `REPORT_TTL_HOURS`). `GetReport` changes
nothing, so it is an operator and not an action: `Answers` is the set of answers a
link may get. With MinIO a found report is answered with a redirect, or with the
report itself or 410 when no URL can be signed and the handler falls back to `Get`.
`Served` says that every answer brings the report, `Reachable` that one may. With MinIO an object is
found under the prefixes of today and the six days before (`FoundByDay`), `PutObject`
may store a report although its answer is lost (`PutReport`), and the retry may
fall on another day. `ListedMetadata` is what minio-go returns for the options of
the cleanup: nothing. `Restart` forgets the checks, not the tokens.

**Screening** is one attempt at one address: `Request` or `Reject`, the AML
provider, Chainalysis, and the completed event: published (`Complete`) or not
(`PublishFails`, which fails the attempt after it was scored). `reply` is a history
variable, what the AML provider said: whether it named a level. Addresses are classes of strings, as fine as the
patterns of asset.go: head, kind of characters, length, surrounding spaces.

**Server** extends RateLimiter: a request `Arrive`s at the limiter, is counted or
refused, initiates its check, waits and returns. Timers are what is left of them and run
down together in `TimePasses`; a timer at zero fires before time goes on. What a
handler returns after the write timeout is lost (`told = "late"`). After `Signal`
nothing arrives; main ends when the handlers are done (`Drained`) or when the context
of Shutdown is (`GraceOver`), by `logger.Fatal` in either case. Requests on
other routes take the same way and return at once (`Reject`).

Operators whose comment starts with "Mutant" are plausible bugs. Each stands before
the definition it would replace and is used by nothing; replacing the definition
by it violates the property `PROJECT.json` names.

## The runs

| Run | Instance | Shows |
|---|---|---|
| EventBusSafety | 2 queues, 3 messages (two overtake one another, one unbound), the 3 retries of the code, 2 losses, fairness; 106 thousand states | `DeadAfterRetries`, `DuplicatesNeedLoss`, `AttemptsBounded`, `EventuallySettled` (retries that go to the tail of the queue do not starve), and that the bus implements `WorkLedger` |
| PipelineSafety | 1 check, 2 results, 1 retry, 1 loss; 523 thousand states | `LinkIsServed`, `ReportMatchesAnswer`, `Accounted`, `DeadIsUndelivered`, `CompletedIsFinal`, `ResultIsKept`, `PutsBeforeLinks`, `UsesBus` |
| PipelineLoad | 2 checks, the second only posts and waits, 1 retry, fairness; 397 thousand states | `Decided`, with retries between the events of another check |
| PipelineTorn | 1 check | **violated** `SuccessIsWhole` |
| Server | 2 requests, 1 address, limit 1, at most 2 sleeping resets, wait 4, write timeout 6, grace 2, fairness; 48 thousand states | `OvershootBounded`, `AnsweredInTime`, `ShutdownWaits`, `SignalEndsProcess`, `RequestsEnd` |
| RateLimiterLostReset | 1 address, 1 request, fairness | **violated** `RetrySucceeds` |
| StorageSafety | 2 reports, 1 download, 2 crashes, 2 file system errors, fairness; 40 thousand states | `LiveHasFile`, `NoHalfReport`, `CopyIsCurrent`, `ReadBringsReport`, `DeletedUnlessFailed`, and that the storage implements `ReportStore` |
| StorageCrash | 1 report, 1 crash, fairness | **violated** `DeletedAfterExpiry` |
| StorageRace | 1 report, 1 download, no crash, no error | **violated** `DeletedIsNotFound` |
| ReportLinks | 1 report, 2 links, 7 configurations, 203 hours in steps of 12 from 23:00; 1.5 million states | `FoundUntilExpiry`, `NothingServedLate`, `FreshLinkWorks` |
| ReportsKept | MinIO with the default TTLs, fairness | **violated** `ReportsDeleted` |
| Screening | 10 lengths, 9 scores, 1 category, 2 identifications; 75 thousand states | `CheckedIsValid`, `MockIsMiddling`, `LevelIsNamedOrDerived`, `ReportMatchesResponse`, `SanctionsAreSeparate`, `ScoredIsScreened` |

Bounds. `MaxRetries` is 3 in the code and in `EventBusSafety`; one retry already has
a first, a retried and a last attempt, and the pipeline runs use 1. `MaxLosses` bounds how often the
connection is lost; two losses give a copy of a copy. Each message is published
once in `EventBusOnce`, and as often as the handlers publish it in the pipeline. `MaxResets`, `MaxCrashes`
and `MaxFaults` bound sleeping goroutines, crashes and file system errors. The second
queue of `EventBusSafety` only receives dead letters; both queues work in
the pipeline runs. `Horizon` stops the clock of ReportLinks after the eighth
midnight, past the lookback and every lifetime in `MCConfig`; the lifetimes lie at the
edges (144 hours, 120 + 24) and beyond them. Hours of the day other than 23 and 11, and
steps other than 12 hours, are left to the proofs. `MCLength` and `MCScore` have both
sides of every boundary. In the Server run the timers keep the order of the code,
grace < wait < write timeout with 5 < 20 < 30 seconds, but not the scale: a grace of 2
units lets a request be within it with time to spare. In
`PipelineSafety` results are interchangeable, hence the symmetry; no liveness is
checked under it. `CHECK_DEADLOCK FALSE` stands where the system may stop: all
messages settled, or the connection lost for the last time.

Why `CompletedIsFinal` holds is not obvious, as failure and result of the same
check do travel together: every announced failure precedes the one result, the
report worker never fails on a check the repository has except for `Put`, and the
request is settled once its result was published, unless the connection is lost.
Then the request is delivered again, but only to a new process, whose repository
no longer has the check. A bus that reconnected, or a repository that survived
a restart, would break it. `CheckOutcomeProofs` is this argument, checked.

### What the violated runs show

- *PipelineTorn*: `MarkCompleted` stores the status first. A GET in between is
  answered 200 with score 0 and a link signed for an empty key.
- *RateLimiterLostReset*: a request that saw an entry and counts after the reset
  makes an entry nobody deletes; at the limit the address is refused for good.
- *ReportsKept*: the cleanup of the MinIO storage asks each listed object for
  metadata that the listing does not carry. A report stays until someone removes it;
  `NothingServedLate` says what bounds its exposure all the same: the tokens.
- *StorageCrash*: a report whose entry did not reach `.metadata.json` before the
  process ended is never deleted. A failing `os.Remove` has the same effect.
- *StorageRace*: a download looks at the entry, the report expires, the cleanup removes
  the file, and the read that follows fails: 500 where README.md:86 has 404. A token
  signed after `Put` with the default 24 hours outlives the report, so it is valid then.

### Fairness

`FairOnceSpec` of the bus and `FairPipelineSpec`: each consumer goroutine goes on.
Handlers return: the provider clients have timeouts of 30 s, the rest does not
block. Nothing obliges clients to act, a connection to drop, a process to restart
or a check to expire, so liveness is stated up to the loss of the connection.
The limiter: `time.Sleep` returns. Storage: whoever holds the lock goes on, and the
cleanup, which ticks for ever, gets the lock (strong fairness, `sync.RWMutex`
does not starve writers). ReportsKept: the cleanup runs whenever it could remove
something. Screening: an attempt goes on, since both HTTP clients time out. Server: time
goes on, a handler does what needs no event from outside (an outcome is not among
this), and main continues when Shutdown returns.

## What is proved

For every value of the constants that satisfies the modules' `ASSUME`s: retry limits,
numbers of losses, crashes and errors are naturals; bindings of different queues are
disjoint (aml_worker.go:40, report_worker.go:43); the set of concurrent requests
is finite; lifetimes, lengths and timeouts are naturals, and the wait is no longer than
the write timeout. The lifetimes of ReportLinks are any set of configurations.

- `BusTypeCorrect`, `DeadOnlyAfterRetries`, `OnlyRouted` (**EventBusProofs**).
  `DeadAfterRetries` is not inductive: a letter is written when the *delivery* has used
  its retries, while the property counts failures of the *message*. `RetryInv` adds
  that a delivery with count n, queued or in hand, stands for at least n failures,
  and n + 1 once its handler has failed. Failures only grow, so the copies a
  lost connection makes do not matter.
- `BusImplementsLedger` (**EventBusProofs**). What is owed changes its place
  in most steps: the proof follows a message from queue to hand and back. The
  invariant says that in the phases `ok` and `copied` the message is handled,
  copied or dead lettered already: that is why `Ack` forgets nothing.
- `PipelineUsesBus`, `PipelineTypeCorrect`, `LinksAreServed` (**CheckPipelineProofs**).
  The pipeline's steps are bus steps or leave it alone, so the bus theorems carry
  over by instantiation. For `LinkIsServed`, `ServeInv` says that a report is
  stored for every keyed check and for the job of a report handler past `put`.
- `CopiesCostLosses`, `AttemptsAreBounded` (**EventBusOnceProofs**). Both count the
  deliveries of a message in a queue; the lemmas say what appending, removing
  the head and putting a delivery back at the head do to the count. `DuplicatesNeedLoss`
  is not inductive alone: publishing a message that is already in flight would add a
  copy. `SentInv` excludes it, as nothing is in flight before it was published. For the
  attempts, `TallyInv` says that, until the connection is lost, the retry count of the
  one delivery is the number of failures of its handler: the header and the
  attempts cannot drift apart.
- `CompletedStays`, `DeadLettersAreTrue`, `ReportsMatchAnswers`, `ResultStays`,
  `PutsPrecedeLinks`, `ChecksAreAccounted` (**CheckOutcomeProofs**). They share
  `CheckInv`, what is in flight about one check while the repository has it:
  its request is there at most once and is worked on only until one result was
  announced; every announced failure is ahead of that result; nothing about the check is
  put back while the process that knows it receives. None of the properties is
  inductive without this order: a state with a failure behind the result
  satisfies all of them, and its next step completes and then fails the check.
  On top of it, `ObjectInv` follows the fields of the check while the report worker
  writes them (so a worker that may put has a check without a link), and `TrackInv` says where the one event is that will end a check still processing.
- `LimiterTypeCorrect`, `OvershootIsBounded` (**ServerProofs**): by counting
  the requests between their look and their count.
- `StorageTypeCorrect`, `LiveEntriesHaveFiles`, `DownloadsAreWhole`
  (**LocalStorageProofs**): an entry due in memory is not live on disk, the batch of
  a cleanup stays due, and a key that waits for its report has neither entry nor reader.
  `ReadsBringReports` follows from it; `CopiesAreCurrent` extends the property to
  the time in which Put writes a report, and holds for any number of restarts.
  `StorageIsStore`: the refinement of `ReportStore`. It needs in addition that a
  write is of one report that waits for it (`PutsOne`); then each of the storage's steps
  keeps, expires, finds, delivers or loses reports, is a fault of the medium, or is
  invisible. The start of a save is what gives up the missing reports; a restart
  brings back those and no others.
- `LinksTypeCorrect`, `ReportsAreFound`, `ReportsGoOutOfReach`, `FreshLinksWork`
  (**ReportLinksProofs**), for all lifetimes, any number of reports and links, and every
  step of the clock. The invariant relates three times: a stored report of a
  completed check is there unless it expired, was put after the check was created and
  before any link, and a link expires at most a token lifetime after its check.
  The rest is arithmetic of days: 144 hours are always within six midnights. Where no
  URL can be signed, the fallback takes the copy put last, which expires last.
- `ServerTypeCorrect`, `AnswersAreInTime`, `ShutdownCutsNoneShort` and
  `ServerUsesLimiter` (**ServerProofs**): a step ends the wait of a request, counts it
  down together with the other timers, or does not touch it. By `ServerUsesLimiter`
  the bound on the overshoot, and the types of the limiter, hold behind the connections too.
- `ScreeningTypeCorrect`, `CheckedAreValid`, `MockStaysMiddling`, `LevelsAreNamedOrDerived`,
  `SanctionsStaySeparate`, `ReportsMatchResponses` (**ScreeningProofs**), for addresses
  of all lengths and all scores. The invariant follows the stages, and keeps the score equal
  to that of `reply`, so that a level none named is the derived one; the lemmas are about
  the operators (normalizing is idempotent, the derived level is the reference).

With this every safety property the passing runs check is a theorem. Only
model-checked is liveness, which is outside the prover's reach like every formula
with ENABLED: `EventuallySettled`, `Decided`, `DeletedUnlessFailed`,
`SignalEndsProcess`, `RequestsEnd`, `ScoredIsScreened`; and the violated runs, whose
counterexamples are TLC's.

## What is not modelled

- An outage of MinIO during a lookup (minio_storage.go:116, 159 take any error for a
  missing object, so the client reads 404), and the five minutes a presigned URL
  outlives its redirect.
- Tokens the service did not sign, and the suffix `.pdf`: README.md:84 and the API
  description have `/v1/report/{token}.pdf`, the route is `/v1/report/{token}` and the
  links the service hands out have no suffix.
- How much of the write timeout reading the request takes: Server leaves it
  open, up to the whole of it.
- In CheckPipeline a report, once stored, stays: its expiry is LocalStorage's.
  In LocalStorage a key is put until `Put` succeeds and never again, which
  CheckPipeline guarantees (`PutsBeforeLinks`); the two are not composed in one module.
- The race detector's view: besides a torn status, a torn slice header or
  string of the *other* fields of a check is not modelled.
- Malformed events: `json.Unmarshal` fails in the same way on every attempt; both
  workers only receive what the service itself published.
- The wire format of the providers, PDF layout, logging, counters, CORS, the health
  check, parsing of environment variables, the billing hook (a log line), the generated
  API description.
- Cancellation of the consumers' context and `Close`: they only occur in deferred calls
  that `logger.Fatal` never runs.

## Plan

Done: (1) EventBus and WorkLedger, (2) CheckPipeline on top, (3) RateLimiter,
(4) LocalStorage, (5) ReportLinks with both storages and the tokens, (6) Screening,
(7) Server on top of RateLimiter, each with its run, (8) a theorem for every safety
property of these runs, (9) ReportStore, implemented by LocalStorage.

Next, in this order:

1. An abstract specification of what a client sees of a check (pending, then one
   outcome, or gone) and the refinement of CheckPipeline to it; `CheckInv` and
   `ObjectInv` carry most of the proof.
2. ReportLinks as an implementation of the same ReportStore, with its objects
   in place of the map.
3. CheckPipeline with ReportStore in place of its own `report`, so that a report may
   expire between an answer and its download.
