-------------------------- MODULE ReportLinksProofs --------------------------
(***************************************************************************)
(* The lifetimes of links, for any set of keys, configurations and steps   *)
(* of the clock.                                                           *)
(***************************************************************************)
EXTENDS ReportLinks, TLAPS

(* The configurations and the hours a behaviour starts with are typed.     *)
LEMMA LinksTypeInit == LinksInit => LinksTypeOK
BY LinksAssumption DEF LinksInit, LinksTypeOK, InRepository

(* A put, by either storage, adds one report of now and keeps only others. *)
LEMMA StoredReports ==
  ASSUME NEW k \in Key
  PROVE  /\ [key |-> k, at |-> now] \in Stored(k)
         /\ Stored(k) \subseteq objects \cup {[key |-> k, at |-> now]}
         /\ \A o \in objects : o.key # k => o \in Stored(k)
BY DEF Stored

(* Every step keeps the types.                                             *)
LEMMA LinksTypeStep == LinksTypeOK /\ [LinksNext]_linksVars => LinksTypeOK'
<1> SUFFICES ASSUME LinksTypeOK, [LinksNext]_linksVars PROVE LinksTypeOK'
  OBVIOUS
<1> USE DEF LinksTypeOK, InRepository
<1>1. ASSUME NEW k \in Key, CreateCheck(k) PROVE LinksTypeOK'
  BY <1>1 DEF CreateCheck
<1>2. ASSUME NEW k \in Key, PutReport(k) PROVE LinksTypeOK'
  <2>1. Stored(k) \subseteq [key : Key, at : Nat]
    <3>1. [key |-> k, at |-> now] \in [key : Key, at : Nat]
      OBVIOUS
    <3> QED
      BY <3>1, StoredReports
  <2>2. objects' \subseteq [key : Key, at : Nat]
    BY <1>2, <2>1 DEF PutReport
  <2>3. check' \in [Key -> InRepository \cup {"new", "gone"}]
    BY <1>2 DEF PutReport
  <2> QED
    BY <1>2, <2>2, <2>3 DEF PutReport
<1>3. ASSUME NEW k \in Key, MarkCompleted(k) PROVE LinksTypeOK'
  BY <1>3 DEF MarkCompleted
<1>4. ASSUME NEW k \in Key, SignLink(k) PROVE LinksTypeOK'
  BY <1>4 DEF SignLink, TokenHours
<1>5. CASE CleanupChecks
  BY <1>5 DEF CleanupChecks
<1>6. CASE CleanupReports
  BY <1>6 DEF CleanupReports
<1>7. CASE Restart
  BY <1>7 DEF Restart
<1>8. CASE TimePasses
  BY <1>8, LinksAssumption DEF TimePasses
<1>9. CASE UNCHANGED linksVars
  BY <1>9 DEF linksVars
<1> QED
  BY <1>1, <1>2, <1>3, <1>4, <1>5, <1>6, <1>7, <1>8, <1>9 DEF LinksNext

(* The variables keep their types.                                         *)
THEOREM LinksTypeCorrect == LinksSpec => []LinksTypeOK
BY LinksTypeInit, LinksTypeStep, PTL DEF LinksSpec

-----------------------------------------------------------------------------
(* The inductive invariant                                                 *)

(* What is in the storage was put since its check was created; a link was  *)
(* signed before its check expired.                                        *)
PastInv ==
  /\ \A k \in Key : check[k] # "new" => created[k] <= now
  /\ \A o \in objects :
       check[o.key] # "new" /\ created[o.key] <= o.at /\ o.at <= now
  /\ \A l \in links :
       /\ check[l.key] # "new"
       /\ l.expires <= created[l.key] + config.checkTTL + TokenHours

(* A check that has its report, or is about to say so, has it still, or    *)
(* the local cleanup took it after its lifetime.                           *)
HasReport(k) ==
  \/ \E o \in objects : o.key = k
  \/ config.backend = "local" /\ now > created[k] + config.reportTTL

ReportInv == \A k \in Key : check[k] \in {"stored", "completed"} => HasReport(k)

LinksInv == LinksTypeOK /\ PastInv /\ ReportInv

(* It holds before the first check.                                        *)
LEMMA LinksInvInit == LinksInit => LinksInv
BY LinksTypeInit DEF LinksInit, LinksInv, PastInv, ReportInv

(* Time only moves forward, checks are created once, and the storage only  *)
(* takes what is put now.                                                  *)
LEMMA PastStep ==
  ASSUME LinksInv, [LinksNext]_linksVars
  PROVE  PastInv'
<1> USE DEF LinksInv, LinksTypeOK, PastInv, InRepository, ConfigType, TokenHours
<1>1. ASSUME NEW k \in Key, CreateCheck(k) PROVE PastInv'
  BY <1>1 DEF CreateCheck
<1>2. ASSUME NEW k \in Key, PutReport(k) PROVE PastInv'
  <2>1. objects' \subseteq objects \cup {[key |-> k, at |-> now]}
    BY <1>2, StoredReports DEF PutReport
  <2>2. check' \in [Key -> InRepository \cup {"new", "gone"}]
        /\ \A c \in Key : check'[c] = "new" <=> check[c] = "new"
    BY <1>2 DEF PutReport
  <2>3. created[k] <= now /\ check[k] # "new"
    BY <1>2 DEF PutReport
  <2> QED
    BY <1>2, <2>1, <2>2, <2>3 DEF PutReport
<1>3. ASSUME NEW k \in Key, MarkCompleted(k) PROVE PastInv'
  BY <1>3 DEF MarkCompleted
<1>4. ASSUME NEW k \in Key, SignLink(k) PROVE PastInv'
  BY <1>4 DEF SignLink, CheckExpired
<1>5. CASE CleanupChecks
  BY <1>5 DEF CleanupChecks
<1>6. CASE CleanupReports
  BY <1>6 DEF CleanupReports
<1>7. CASE Restart
  BY <1>7 DEF Restart
<1>8. CASE TimePasses
  <2>1. now' \in Nat /\ now <= now'
    BY <1>8, LinksAssumption DEF TimePasses
  <2> QED
    BY <1>8, <2>1 DEF TimePasses
<1>9. CASE UNCHANGED linksVars
  BY <1>9 DEF linksVars
<1> QED
  BY <1>1, <1>2, <1>3, <1>4, <1>5, <1>6, <1>7, <1>8, <1>9 DEF LinksNext

(* A report leaves the storage while its check is there only when it       *)
(* expired: a put of the same check replaces it by a newer one, MinIO      *)
(* removes nothing, a restart takes the checks too.                        *)
LEMMA ReportStep ==
  ASSUME LinksInv, [LinksNext]_linksVars
  PROVE  ReportInv'
<1> USE DEF LinksInv, LinksTypeOK, ReportInv, HasReport, InRepository, ConfigType
<1>1. ASSUME NEW k \in Key, CreateCheck(k) PROVE ReportInv'
  BY <1>1 DEF CreateCheck
<1>2. ASSUME NEW k \in Key, PutReport(k) PROVE ReportInv'
  <2> SUFFICES ASSUME NEW c \in Key, check'[c] \in {"stored", "completed"}
               PROVE  HasReport(c)'
    OBVIOUS
  <2>1. objects' = Stored(k) /\ UNCHANGED <<config, now, created>>
    BY <1>2 DEF PutReport
  <2>2. CASE c = k
    <3>1. [key |-> k, at |-> now] \in objects'
      BY <2>1, StoredReports
    <3> QED
      BY <3>1, <2>2
  <2>3. CASE c # k
    <3>1. check'[c] = check[c]
      BY <1>2, <2>3 DEF PutReport
    <3>2. \A o \in objects : o.key = c => o \in objects'
      BY <2>1, <2>3, StoredReports
    <3> QED
      BY <2>1, <3>1, <3>2
  <2> QED
    BY <2>2, <2>3
<1>3. ASSUME NEW k \in Key, MarkCompleted(k) PROVE ReportInv'
  BY <1>3 DEF MarkCompleted
<1>4. ASSUME NEW k \in Key, SignLink(k) PROVE ReportInv'
  BY <1>4 DEF SignLink
<1>5. CASE CleanupChecks
  BY <1>5 DEF CleanupChecks
<1>6. CASE CleanupReports
  <2> SUFFICES ASSUME NEW c \in Key, check'[c] \in {"stored", "completed"}
               PROVE  HasReport(c)'
    OBVIOUS
  <2>1. UNCHANGED <<config, now, check, created>> /\ objects' = objects \ Removable
    BY <1>6 DEF CleanupReports
  <2>2. CASE config.backend = "local" /\ now > created[c] + config.reportTTL
    BY <2>1, <2>2
  <2>3. CASE \E o \in objects : o.key = c
    <3>1. PICK o \in objects : o.key = c
      BY <2>3
    <3>2. CASE o \in Removable
      <4>1. config.backend = "local" /\ now > o.at + config.reportTTL
        BY <3>2 DEF Removable, ListedMetadata, Expired
      <4>2. created[c] <= o.at
        BY <3>1 DEF PastInv
      <4>3. created[c] \in Nat /\ o.at \in Nat /\ now \in Nat /\ config.reportTTL \in Nat
        BY <3>1
      <4> QED
        BY <2>1, <4>1, <4>2, <4>3
    <3>3. CASE o \notin Removable
      BY <2>1, <3>1, <3>3
    <3> QED
      BY <3>2, <3>3
  <2> QED
    BY <2>1, <2>2, <2>3
<1>7. CASE Restart
  BY <1>7 DEF Restart
<1>8. CASE TimePasses
  <2>1. now' \in Nat /\ now <= now'
    BY <1>8, LinksAssumption DEF TimePasses
  <2> QED
    BY <1>8, <2>1 DEF TimePasses
<1>9. CASE UNCHANGED linksVars
  BY <1>9 DEF linksVars
<1> QED
  BY <1>1, <1>2, <1>3, <1>4, <1>5, <1>6, <1>7, <1>8, <1>9 DEF LinksNext

(* The invariant is inductive.                                             *)
LEMMA LinksInvStep == LinksInv /\ [LinksNext]_linksVars => LinksInv'
BY LinksTypeStep, PastStep, ReportStep DEF LinksInv

LEMMA LinksInvariant == LinksSpec => []LinksInv
BY LinksInvInit, LinksInvStep, PTL DEF LinksSpec

-----------------------------------------------------------------------------
(* What the invariant is for                                               *)

(* A report put within the last 144 hours lies under one of the prefixes   *)
(* that are tried.                                                         *)
LEMMA WithinLookback ==
  ASSUME NEW a \in Nat, NEW t \in Nat, a <= t, t <= a + LookbackHours
  PROVE  Day(t) - Day(a) \in 0 .. 6
BY DEF LookbackHours, Day

(* A report in the storage that has not expired, and that a lookback       *)
(* finds, is served to an unexpired link, whether its URL can be signed or *)
(* not: what Get finds first was put no earlier.                           *)
LEMMA ServedWhen ==
  ASSUME LinksTypeOK,
         NEW l \in [key : Key, expires : Nat], NEW o \in objects,
         o.key = l.key, now <= l.expires, ~ Expired(o),
         config.backend = "minio" => Day(now) - Day(o.at) \in 0 .. 6
  PROVE  Served(l)
<1>1. ~ TokenExpired(l)
  BY DEF LinksTypeOK, TokenExpired
<1>2. CASE config.backend = "minio"
  <2>1. o \in FoundByDay(l.key)
    BY <1>2 DEF FoundByDay
  <2>2. ASSUME NEW p \in LastPut(l.key) PROVE ~ Expired(p)
    <3>1. o.at <= p.at /\ p \in objects
      BY <2>1 DEF LastPut, FoundByDay
    <3>2. o.at \in Nat /\ p.at \in Nat /\ now \in Nat /\ config.reportTTL \in Nat
      BY <3>1 DEF LinksTypeOK, ConfigType
    <3> QED
      BY <3>1, <3>2 DEF Expired
  <2>3. MinIOAnswers(l.key) \subseteq {"200", "302"}
    BY <2>1, <2>2 DEF MinIOAnswers
  <2> QED
    BY <1>1, <1>2, <2>3 DEF Served, Answers
<1>3. CASE config.backend = "local"
  <2>1. LocalAnswer(l.key) = "200"
    BY DEF LocalAnswer
  <2> QED
    BY <1>1, <1>3, <2>1 DEF Served, Answers
<1> QED
  BY <1>2, <1>3 DEF LinksTypeOK, ConfigType

(* Under the invariant a link that has not expired leads to its report     *)
(* until that expires.                                                     *)
LEMMA FoundByInv == LinksInv => FoundUntilExpiry
<1> SUFFICES ASSUME LinksInv, LookbackCovers,
                    NEW l \in links, NEW o \in objects,
                    o.key = l.key, ~ Expired(o), now <= l.expires
             PROVE  Served(l)
  BY DEF FoundUntilExpiry
<1> USE DEF LinksInv, LinksTypeOK, ConfigType
<1>1. /\ now \in Nat /\ o.at \in Nat /\ created[o.key] \in Nat
      /\ config.checkTTL \in Nat /\ config.reportTTL \in Nat
  OBVIOUS
<1>2. o.at <= now /\ created[o.key] <= o.at
  BY DEF PastInv
<1>3. now <= o.at + config.reportTTL
  BY <1>1 DEF Expired
<1>4. now <= o.at + config.checkTTL + TokenHours
  <2>1. l.expires \in Nat /\ l.expires <= created[o.key] + config.checkTTL + TokenHours
    BY DEF PastInv
  <2> QED
    BY <1>1, <1>2, <2>1 DEF TokenHours
<1>5. CASE config.backend = "local"
  BY <1>1, <1>5, ServedWhen
<1>6. CASE config.backend = "minio"
  <2>1. now <= o.at + LookbackHours
    BY <1>1, <1>3, <1>4, <1>6 DEF LookbackCovers, TokenHours, LookbackHours
  <2>2. Day(now) - Day(o.at) \in 0 .. 6
    BY <1>1, <1>2, <2>1, WithinLookback
  <2> QED
    BY <1>6, <2>2, ServedWhen
<1> QED
  BY <1>5, <1>6

(* An unexpired link leads to its report until that expires, for all       *)
(* lifetimes the lookback covers: 144 hours is the bound, whatever the     *)
(* hour of the day, and 168 is not.                                        *)
THEOREM ReportsAreFound == LinksSpec => []FoundUntilExpiry
BY LinksInvariant, FoundByInv, PTL

(* No report is served later than a token's lifetime after the expiry of   *)
(* its check, in any configuration.                                        *)
THEOREM ReportsGoOutOfReach == LinksSpec => []NothingServedLate
<1>1. LinksInv => NothingServedLate
  <2> SUFFICES ASSUME LinksInv, NEW l \in links, Reachable(l)
               PROVE  now <= created[l.key] + config.checkTTL + TokenHours
    BY DEF NothingServedLate
  <2>1. ~ now > l.expires
    BY DEF Reachable, Answers, TokenExpired
  <2>2. l.expires <= created[l.key] + config.checkTTL + TokenHours
    BY DEF LinksInv, PastInv
  <2>3. /\ now \in Nat /\ l.expires \in Nat
        /\ created[l.key] \in Nat /\ config.checkTTL \in Nat
    BY DEF LinksInv, LinksTypeOK, ConfigType
  <2> QED
    BY <2>1, <2>2, <2>3 DEF TokenHours
<1> QED
  BY <1>1, LinksInvariant, PTL

(* The step that signs a link finds the report of its check.               *)
LEMMA SignedIsServed ==
  ASSUME LinksInv, LinksInv', NEW k \in Key, SignLink(k), ReportOutlivesCheck,
         NEW l \in links', l \notin links
  PROVE  Served(l)'
<1> USE DEF LinksInv, LinksTypeOK, ConfigType
<1>1. l = [key |-> k, expires |-> now + TokenHours] /\ l.key = k
  BY DEF SignLink
<1>2. UNCHANGED <<config, now, check, created, objects>>
  BY DEF SignLink
<1>3. /\ now \in Nat /\ created[k] \in Nat
      /\ config.checkTTL \in Nat /\ config.reportTTL \in Nat
  OBVIOUS
<1>4. now <= created[k] + config.checkTTL
  BY <1>3 DEF SignLink, CheckExpired
<1>5. PICK o \in objects : o.key = k
  <2>1. HasReport(k)
    BY DEF SignLink, ReportInv
  <2> QED
    BY <1>3, <1>4, <2>1 DEF HasReport, ReportOutlivesCheck
<1>6. o.at \in Nat /\ created[k] <= o.at /\ o.at <= now
  BY <1>5 DEF PastInv
<1>7. l \in [key : Key, expires : Nat] /\ now <= l.expires
  BY <1>1, <1>3 DEF TokenHours
<1>8. ~ Expired(o)
  BY <1>3, <1>4, <1>6 DEF ReportOutlivesCheck, Expired
<1>9. config.backend = "minio" => Day(now) - Day(o.at) \in 0 .. 6
  <2> SUFFICES ASSUME config.backend = "minio" PROVE Day(now) - Day(o.at) \in 0 .. 6
    OBVIOUS
  <2>1. now <= o.at + LookbackHours
    BY <1>3, <1>4, <1>6 DEF ReportOutlivesCheck, LookbackHours
  <2> QED
    BY <1>3, <1>6, <2>1, WithinLookback
<1>10. Served(l)
  BY <1>1, <1>5, <1>7, <1>8, <1>9, ServedWhen
<1> QED
  BY <1>2, <1>10
     DEF Served, Answers, TokenExpired, MinIOAnswers, LastPut, LocalAnswer, FoundByDay,
         Expired, Day

(* A link works at the moment it is handed out, if the report outlives the *)
(* check.                                                                  *)
THEOREM FreshLinksWork == LinksSpec => FreshLinkWorks
<1>1. ASSUME LinksInv, LinksInv', [LinksNext]_linksVars, ReportOutlivesCheck,
             NEW l \in links' \ links
      PROVE  Served(l)'
  <2>1. PICK k \in Key : SignLink(k)
    BY <1>1 DEF LinksNext, CreateCheck, PutReport, MarkCompleted, CleanupChecks,
                CleanupReports, Restart, TimePasses, linksVars
  <2> QED
    BY <1>1, <2>1, SignedIsServed
<1>2. LinksInv /\ LinksInv' /\ [LinksNext]_linksVars
        => [ReportOutlivesCheck => \A l \in links' \ links : Served(l)']_linksVars
  BY <1>1
<1> QED
  BY <1>2, LinksInvariant, PTL DEF LinksSpec, FreshLinkWorks


=============================================================================
