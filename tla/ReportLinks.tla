----------------------------- MODULE ReportLinks -----------------------------
(***************************************************************************)
(* Links to reports over time: the token of a link (hmac.go), the check    *)
(* that hands it out (respondCheckResult), the report it leads to in one   *)
(* of the two storages (minio_storage.go, local_storage.go), each with a   *)
(* lifetime of its own, on one clock that counts hours.                    *)
(*                                                                         *)
(* Put, the marking of the check and the saving of .metadata.json are      *)
(* taken apart in CheckPipeline and LocalStorage; here a report is one     *)
(* object, its file and entry or what PutObject stores.                    *)
(***************************************************************************)
EXTENDS Integers

CONSTANTS
  Key,     \* report keys; the key of a report is the ID of its check
  Config,  \* configurations: the storage, CHECK_TTL_HOURS, REPORT_TTL_HOURS
  Tick     \* hours that pass at a time

ConfigType == [backend : {"local", "minio"}, checkTTL : Nat, reportTTL : Nat]

ASSUME LinksAssumption == Config \subseteq ConfigType /\ Tick \subseteq Nat

VARIABLES
  config,   \* the configuration, read once by main
  now,      \* hours since some midnight UTC
  check,    \* check[k]: "new", or what the repository says of it
  created,  \* created[k]: when the check was created
  objects,  \* reports in the storage: the key and when they were put
  links     \* links clients hold: the key and when the token expires

linksVars == <<config, now, check, created, objects, links>>

InRepository == {"processing", "stored", "completed"}

TokenHours == 24

Day(t) == t \div 24

-----------------------------------------------------------------------------
(* The storages *)

Expired(o) == now > o.at + config.reportTTL

(* PutObject replaces an object of the same day, os.WriteFile any.         *)
Stored(k) ==
  {o \in objects : ~ /\ o.key = k
                     /\ config.backend = "minio" => Day(o.at) = Day(now)}
    \cup {[key |-> k, at |-> now]}

(* Mutant: the lookback is one day short.                                  *)
FoundSixDays(k) == {o \in objects : o.key = k /\ Day(now) - Day(o.at) \in 0 .. 5}

(* Today's prefix and those of the six days before.                        *)
FoundByDay(k) == {o \in objects : o.key = k /\ Day(now) - Day(o.at) \in 0 .. 6}

(* The user metadata that ListObjects returns with the options of          *)
(* minio_storage.go:182-185, which do not ask for any (WithMetadata).      *)
ListedMetadata == {}

Removable ==
  {o \in objects : /\ Expired(o)
                   /\ config.backend = "minio" => "expire-at" \in ListedMetadata}

-----------------------------------------------------------------------------
(* GET /v1/report/{token} changes nothing: the answers it may give are a   *)
(* function of the state.                                                  *)

(* Get tries the days in the same order as PresignGet: what was put last   *)
(* is found first.  MinIO itself answers: a lookup it fails is taken for a *)
(* report that is not there, which no property here is about.              *)
LastPut(k) == {o \in FoundByDay(k) : \A p \in FoundByDay(k) : p.at <= o.at}

(* PresignGet does not look at the expiry.  When the URL cannot be signed  *)
(* the handler falls back to Get, which does.                              *)
MinIOAnswers(k) ==
  IF FoundByDay(k) = {} THEN {"404"}
  ELSE {"302"} \cup {IF Expired(o) THEN "410" ELSE "200" : o \in LastPut(k)}

LocalAnswer(k) ==
  LET entry == {o \in objects : o.key = k}
  IN  IF entry = {} THEN "404"
      ELSE IF \A o \in entry : Expired(o) THEN "410"
      ELSE "200"

TokenExpired(l) == now > l.expires

(* Mutant: the time in the token is not compared.                          *)
UnverifiedAnswers(l) ==
  IF config.backend = "minio" THEN MinIOAnswers(l.key) ELSE {LocalAnswer(l.key)}

Answers(l) ==
  IF TokenExpired(l) THEN {"410"}
  ELSE IF config.backend = "minio" THEN MinIOAnswers(l.key)
  ELSE {LocalAnswer(l.key)}

(* A link surely leads to its report, or does so if the URL can be signed. *)
Served(l)    == Answers(l) \subseteq {"200", "302"}
Reachable(l) == Answers(l) \cap {"200", "302"} # {}

-----------------------------------------------------------------------------

CreateCheck(k) ==
  /\ check[k] = "new"
  /\ check' = [check EXCEPT ![k] = "processing"]
  /\ created' = [created EXCEPT ![k] = now]
  /\ UNCHANGED <<config, now, objects, links>>

(* The report worker puts the report.  MinIO may store it although the     *)
(* answer is lost: then the handler fails and puts it again, perhaps under *)
(* the prefix of another day.                                              *)
PutReport(k) ==
  /\ check[k] = "processing"
  /\ objects' = Stored(k)
  /\ \/ check' = [check EXCEPT ![k] = "stored"]
     \/ config.backend = "minio" /\ UNCHANGED check
  /\ UNCHANGED <<config, now, created, links>>

MarkCompleted(k) ==
  /\ check[k] = "stored"
  /\ check' = [check EXCEPT ![k] = "completed"]
  /\ UNCHANGED <<config, now, created, objects, links>>

CheckExpired(k) == now > created[k] + config.checkTTL

(* Mutant: the lifetime of a token is subtracted.                          *)
SignBackwards(k) ==
  /\ check[k] = "completed"
  /\ ~ CheckExpired(k)
  /\ links' = links \cup {[key |-> k, expires |-> now - TokenHours]}
  /\ UNCHANGED <<config, now, check, created, objects>>

(* Mutant: the status of an expired check is given as long as it is there. *)
SignExpired(k) ==
  /\ check[k] = "completed"
  /\ links' = links \cup {[key |-> k, expires |-> now + TokenHours]}
  /\ UNCHANGED <<config, now, check, created, objects>>

(* A 200 answer of POST or GET: every one signs a link of its own.         *)
SignLink(k) ==
  /\ check[k] = "completed"
  /\ ~ CheckExpired(k)
  /\ links' = links \cup {[key |-> k, expires |-> now + TokenHours]}
  /\ UNCHANGED <<config, now, check, created, objects>>

CleanupChecks ==
  /\ check' = [k \in Key |-> IF check[k] \in InRepository /\ CheckExpired(k)
                             THEN "gone" ELSE check[k]]
  /\ UNCHANGED <<config, now, created, objects, links>>

CleanupReports ==
  /\ Removable # {}
  /\ objects' = objects \ Removable
  /\ UNCHANGED <<config, now, check, created, links>>

(* The repository is memory.  A .metadata.json that is torn or behind      *)
(* costs entries (LocalStorage).  Tokens carry all they need.              *)
Restart ==
  /\ check' = [k \in Key |-> IF check[k] \in InRepository THEN "gone" ELSE check[k]]
  /\ \/ UNCHANGED objects
     \/ config.backend = "local" /\ objects' \in SUBSET objects
  /\ UNCHANGED <<config, now, created, links>>

TimePasses ==
  /\ \E h \in Tick : now' = now + h
  /\ UNCHANGED <<config, check, created, objects, links>>

-----------------------------------------------------------------------------

LinksInit ==
  /\ config \in Config
  /\ now \in 0 .. 23
  /\ check = [k \in Key |-> "new"]
  /\ created = [k \in Key |-> 0]
  /\ objects = {}
  /\ links = {}

LinksNext ==
  \/ \E k \in Key : CreateCheck(k) \/ PutReport(k) \/ MarkCompleted(k) \/ SignLink(k)
  \/ CleanupChecks
  \/ CleanupReports
  \/ Restart
  \/ TimePasses

LinksSpec == LinksInit /\ [][LinksNext]_linksVars

-----------------------------------------------------------------------------
(* Properties *)

(* Every variable has its type.                                            *)
LinksTypeOK ==
  /\ config \in ConfigType
  /\ now \in Nat
  /\ check \in [Key -> InRepository \cup {"new", "gone"}]
  /\ created \in [Key -> Nat]
  /\ objects \subseteq [key : Key, at : Nat]
  /\ links \subseteq [key : Key, expires : Nat]

(* Six days, counted in hours, always lie within the seven day prefixes.   *)
LookbackHours == 144

(* A link that has not expired leads to its report until that expires.     *)
(* With MinIO (minio_storage.go:111, 153) this needs lifetimes the         *)
(* lookback covers: reports of six days at most, not seven, or checks that *)
(* expire a day earlier still, so that no link is left.                    *)
LookbackCovers ==
  config.backend = "minio" =>
    config.reportTTL <= LookbackHours \/ config.checkTTL + TokenHours <= LookbackHours

FoundUntilExpiry ==
  LookbackCovers =>
    \A l \in links, o \in objects :
      o.key = l.key /\ ~ Expired(o) /\ now <= l.expires => Served(l)

(* However often a client renews its link by asking for the check          *)
(* (handlers.go:260), a report is out of reach one token lifetime after    *)
(* its check expired, even in a storage that never deletes it.             *)
NothingServedLate ==
  \A l \in links :
    Reachable(l) => now <= created[l.key] + config.checkTTL + TokenHours

(* A link works when it is handed out, however late after the report was   *)
(* put and through cleanups, lost answers and renewals, if the report      *)
(* outlives the check and, with MinIO, the lookback does too.              *)
ReportOutlivesCheck ==
  /\ config.checkTTL <= config.reportTTL
  /\ config.backend = "minio" => config.checkTTL <= LookbackHours

FreshLinkWorks ==
  [][ReportOutlivesCheck => \A l \in links' \ links : Served(l)']_linksVars

(* README.md:78 "Reports are physically deleted after REPORT_TTL_HOURS":   *)
(* no expired report stays in the storage, given a cleanup that runs.      *)
ReportsDeleted ==
  \A k \in Key :
    (\E o \in objects : o.key = k /\ Expired(o))
      ~> (\A o \in objects : o.key = k => ~ Expired(o))

=============================================================================
