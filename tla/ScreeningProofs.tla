-------------------------- MODULE ScreeningProofs --------------------------
(***************************************************************************)
(* What reaches the providers and what leaves the service, for addresses   *)
(* of every length and every score.  The invariant follows the stages of   *)
(* an attempt: what a stage has was made by the step before it.            *)
(***************************************************************************)
EXTENDS Screening, FiniteSetTheorems, TLAPS

(* The payload, once there is one.                                         *)
Sent ==
  /\ payload = None <=> stage \in {"arrived", "rejected"}
  /\ payload # None =>
       /\ payload \in [currency : Currency, address : Address]
       /\ \E a \in Address : payload.address = Normalize(payload.currency, a)
       /\ Valid(payload.currency, payload.address)

(* The result of the AML provider, once there is one.                      *)
Scored ==
  /\ stage \in {"scored", "screened", "completed"} => aml # None
  /\ stage \in {"arrived", "rejected", "requested"} => aml = None
  /\ aml # None => aml = Said /\ (config.amlbot => reply \in AMLReply)

(* The sanctions, and what is shown of them.                               *)
Screened ==
  /\ stage \in {"screened", "completed"} =>
       \E ids \in SUBSET Ident : sanctions = SanctionsResult(ids)
  /\ shown # None =>
       /\ stage = "completed" /\ aml # None
       /\ shown = [report |-> ReportContent, response |-> Response]

Asked ==
  /\ config.amlbot \in BOOLEAN
  /\ request.address \in Address
  /\ stage \in {"arrived", "rejected", "requested", "failed", "scored", "screened",
                "completed"}

ScreeningInv == Asked /\ Sent /\ Scored /\ Screened

-----------------------------------------------------------------------------
(* Operators *)

(* None is told from the records it stands in for by its only field.       *)
LEMMA NoneDiffers ==
  /\ \A c, a : [currency |-> c, address |-> a] # None
  /\ \A s, l, k : [score |-> s, level |-> l, categories |-> k] # None
  /\ \A r, s : [report |-> r, response |-> s] # None
BY DEF None

(* A normalized address is an address.                                     *)
LEMMA NormalizeIn ==
  ASSUME NEW c, NEW a \in Address
  PROVE  Normalize(c, a) \in Address
BY DEF Normalize, Lower, Trim, Address

(* Normalizing twice is normalizing once.                                  *)
LEMMA NormalizeTwice ==
  ASSUME NEW c, NEW a \in Address
  PROVE  Normalize(c, Normalize(c, a)) = Normalize(c, a)
BY DEF Normalize, Lower, Trim, Address

(* The lengths of valid addresses.                                         *)
LEMMA ValidLength ==
  ASSUME NEW c, NEW a, Valid(c, a)
  PROVE  a.length \in 26 .. 35 \cup 42 .. 62
BY DEF Valid

LEMMA MockScore ==
  ASSUME NEW a, a.length \in 26 .. 35 \cup 42 .. 62
  PROVE  /\ MockResult(a).score \in 36 .. 72
         /\ MockResult(a).level \in {"Medium", "High"}
<1>1. a.length % 80 = a.length
  OBVIOUS
<1>2. 10 + (a.length % 80) \in 36 .. 72
  BY <1>1
<1>3. MockResult(a).score = 10 + (a.length % 80)
  BY DEF MockResult
<1>4. MockResult(a).level = DeriveRiskLevel(10 + (a.length % 80))
  BY DEF MockResult
<1> QED BY <1>2, <1>3, <1>4 DEF DeriveRiskLevel

(* DeriveRiskLevel is the reference for every score, negative ones and     *)
(* those above 100 included.                                               *)
LEMMA DeriveIsReference ==
  ASSUME NEW score \in Int
  PROVE  DeriveRiskLevel(score) = ReferenceLevel(score)
<1> DEFINE Reached == {b \in {30, 60, 80} : score >= b}
<1>1. /\ Cardinality({}) = 0
      /\ Cardinality({30}) = 1
      /\ Cardinality({30, 60}) = 2
      /\ Cardinality({30, 60, 80}) = 3
  <2>1. IsFiniteSet({}) /\ Cardinality({}) = 0
    BY FS_EmptySet
  <2>2. IsFiniteSet({30}) /\ Cardinality({30}) = 1
    BY FS_Singleton
  <2>3. {30, 60} = {30} \cup {60} /\ {30, 60, 80} = {30, 60} \cup {80}
    OBVIOUS
  <2>4. IsFiniteSet({30, 60}) /\ Cardinality({30, 60}) = 2
    BY <2>2, <2>3, FS_AddElement
  <2>5. Cardinality({30, 60, 80}) = 3
    BY <2>3, <2>4, FS_AddElement
  <2> QED BY <2>1, <2>2, <2>4, <2>5
<1>2. ReferenceLevel(score) = <<"Low", "Medium", "High", "Critical">>[1 + Cardinality(Reached)]
  BY DEF ReferenceLevel
<1>3. CASE score < 30
  <2>1. Reached = {} BY <1>3
  <2> HIDE DEF Reached
  <2>2. Cardinality(Reached) = 0 BY <1>1, <2>1
  <2> QED BY <1>2, <1>3, <2>2 DEF DeriveRiskLevel
<1>4. CASE score >= 30 /\ score < 60
  <2>1. Reached = {30} BY <1>4
  <2> HIDE DEF Reached
  <2>2. Cardinality(Reached) = 1 BY <1>1, <2>1
  <2> QED BY <1>2, <1>4, <2>2 DEF DeriveRiskLevel
<1>5. CASE score >= 60 /\ score < 80
  <2>1. Reached = {30, 60} BY <1>5
  <2> HIDE DEF Reached
  <2>2. Cardinality(Reached) = 2 BY <1>1, <2>1
  <2> QED BY <1>2, <1>5, <2>2 DEF DeriveRiskLevel
<1>6. CASE score >= 80
  <2>1. Reached = {30, 60, 80} BY <1>6
  <2> HIDE DEF Reached
  <2>2. Cardinality(Reached) = 3 BY <1>1, <2>1
  <2> QED BY <1>2, <1>6, <2>2 DEF DeriveRiskLevel
<1> QED BY <1>3, <1>4, <1>5, <1>6

-----------------------------------------------------------------------------
(* The invariant *)

LEMMA ScreeningInvInit == ScreeningInit => ScreeningInv
BY DEF ScreeningInit, ScreeningInv, Asked, Sent, Scored, Screened

LEMMA RequestKeeps ==
  ASSUME ScreeningInv, Request
  PROVE  ScreeningInv'
<1> DEFINE a == Normalize(request.currency, request.address)
<1>1. payload' = [currency |-> request.currency, address |-> a]
  BY DEF Request
<1>2. payload' # None /\ payload'.currency = request.currency /\ payload'.address = a
  BY <1>1, NoneDiffers
<1>3. Sent'
  <2>1. a \in Address
    BY NormalizeIn DEF ScreeningInv, Asked
  <2>2. payload' \in [currency : Currency, address : Address]
    BY <1>1, <2>1 DEF Request
  <2> QED BY <1>2, <2>2 DEF ScreeningInv, Asked, Sent, Request
<1>4. Asked' /\ Scored' /\ Screened'
  BY DEF ScreeningInv, Asked, Scored, Screened, Request
<1> QED BY <1>3, <1>4 DEF ScreeningInv

LEMMA ScoreKeeps ==
  ASSUME ScreeningInv, ScoreMock \/ ScoreAMLBot
  PROVE  ScreeningInv'
<1>1. stage = "requested" /\ stage' = "scored" /\ aml = None
  BY DEF ScreeningInv, Scored, ScoreMock, ScoreAMLBot
<1>2. UNCHANGED <<config, request, payload, sanctions, shown>>
  BY DEF ScoreMock, ScoreAMLBot
<1>3. aml' # None /\ aml' = Said' /\ (config.amlbot => reply' \in AMLReply)
  <2>1. CASE ScoreMock
    <3>1. aml' = MockResult(payload.address) /\ ~ config.amlbot
      BY <2>1 DEF ScoreMock
    <3>2. aml' # None
      BY <3>1, NoneDiffers DEF MockResult
    <3> QED BY <1>2, <3>1, <3>2 DEF Said
  <2>2. CASE ScoreAMLBot
    <3>1. config.amlbot /\ reply' \in AMLReply /\ aml' = AMLBotResult(reply')
      BY <2>2 DEF ScoreAMLBot
    <3>2. aml' \in [score : Score, level : Level \cup RiskLevel, categories : SUBSET Category]
      BY <3>1 DEF AMLBotResult, AMLReply, DeriveRiskLevel, RiskLevel
    <3>3. aml' # None
      BY <3>2, NoneDiffers
    <3> QED BY <1>2, <3>1, <3>3 DEF Said
  <2> QED BY <2>1, <2>2
<1> QED BY <1>1, <1>2, <1>3 DEF ScreeningInv, Asked, Sent, Scored, Screened

LEMMA ScreenKeeps ==
  ASSUME ScreeningInv, Screen \/ ScreenNothing
  PROVE  ScreeningInv'
<1>1. \E ids \in SUBSET Ident : sanctions' = SanctionsResult(ids)
  BY DEF Screen, ScreenNothing
<1>2. /\ stage = "scored" /\ stage' = "screened"
      /\ UNCHANGED <<config, request, payload, aml, shown, reply>>
  BY DEF Screen, ScreenNothing
<1> QED BY <1>1, <1>2 DEF ScreeningInv, Asked, Sent, Scored, Screened, Said

LEMMA CompleteKeeps ==
  ASSUME ScreeningInv, Complete
  PROVE  ScreeningInv'
<1>1. /\ stage = "screened" /\ stage' = "completed"
      /\ UNCHANGED <<config, request, payload, aml, sanctions, reply>>
  BY DEF Complete
<1>2. shown' = [report |-> ReportContent, response |-> Response]'
  BY <1>1 DEF Complete, ReportContent, Response
<1> QED BY <1>1, <1>2 DEF ScreeningInv, Asked, Sent, Scored, Screened, Said

LEMMA ScreeningInvNext == ScreeningInv /\ [ScreeningNext]_screeningVars => ScreeningInv'
<1> SUFFICES ASSUME ScreeningInv, [ScreeningNext]_screeningVars PROVE ScreeningInv'
  OBVIOUS
<1>1. CASE Reject
  BY <1>1 DEF Reject, ScreeningInv, Asked, Sent, Scored, Screened
<1>2. CASE AMLBotFails
  BY <1>2 DEF AMLBotFails, ScreeningInv, Asked, Sent, Scored, Screened
<1>3. CASE PublishFails
  BY <1>3 DEF PublishFails, ScreeningInv, Asked, Sent, Scored, Screened, Said
<1>4. CASE UNCHANGED screeningVars
  BY <1>4 DEF screeningVars, ScreeningInv, Asked, Sent, Scored, Screened, Said,
              ReportContent, Response
<1> QED BY <1>1, <1>2, <1>3, <1>4, RequestKeeps, ScoreKeeps, ScreenKeeps, CompleteKeeps
        DEF ScreeningNext, Attempt

LEMMA ScreeningInvariant == ScreeningSpec => []ScreeningInv
BY ScreeningInvInit, ScreeningInvNext, PTL DEF ScreeningSpec

-----------------------------------------------------------------------------
(* The properties *)

(* For addresses of every length and every score: what a stage has is      *)
(* there, and of its type.                                                 *)
THEOREM ScreeningTypeCorrect == ScreeningSpec => []ScreeningTypeOK
<1>1. ASSUME ScreeningInv, aml # None
      PROVE  aml.score \in Int /\ aml.level \in RiskLevel \cup {"Severe"}
  <2>1. CASE ~ config.amlbot
    <3>0. aml = MockResult(payload.address)
      BY <1>1, <2>1 DEF ScreeningInv, Scored, Said
    <3>1. payload \in [currency : Currency, address : Address]
      BY <1>1 DEF ScreeningInv, Asked, Sent, Scored
    <3>2. payload.address.length \in Int
      <4>1. payload.address \in Address
        BY <3>1
      <4>2. payload.address.length \in Length
        BY <4>1 DEF Address
      <4>3. \A n \in Length : n \in Int
        BY ScreeningAssumption
      <4> QED BY <4>2, <4>3, Zenon
    <3>3. aml.score = 10 + (payload.address.length % 80)
          /\ aml.level = DeriveRiskLevel(aml.score)
      BY <3>0 DEF MockResult
    <3>4. aml.level \in RiskLevel
      BY <3>3 DEF DeriveRiskLevel, RiskLevel
    <3> QED BY <3>2, <3>3, <3>4
  <2>2. CASE config.amlbot
    <3>0. reply \in AMLReply /\ aml = AMLBotResult(reply)
      BY <1>1, <2>2 DEF ScreeningInv, Scored, Said
    <3>1. aml.score = reply.score /\ reply.score \in Int
      BY <3>0, ScreeningAssumption DEF AMLBotResult, AMLReply
    <3>2. aml.level = IF reply.level = "" THEN DeriveRiskLevel(reply.score) ELSE reply.level
      BY <3>0 DEF AMLBotResult, AMLReply
    <3>3. reply.level \in Level /\ DeriveRiskLevel(reply.score) \in RiskLevel
      BY <3>0 DEF AMLReply, DeriveRiskLevel, RiskLevel
    <3> QED BY <3>1, <3>2, <3>3 DEF Level, RiskLevel
  <2> QED BY <2>1, <2>2
<1>2. ScreeningInv => ScreeningTypeOK
  <2> SUFFICES ASSUME ScreeningInv PROVE ScreeningTypeOK
    OBVIOUS
  <2>1. stage \in {"screened", "completed"} =>
          sanctions \in [hit : BOOLEAN, identifications : SUBSET Ident]
    <3>1. \A ids \in SUBSET Ident :
            SanctionsResult(ids) \in [hit : BOOLEAN, identifications : SUBSET Ident]
      BY Zenon DEF SanctionsResult
    <3> QED BY <3>1 DEF ScreeningInv, Screened
  <2> QED BY <1>1, <2>1 DEF ScreeningInv, Asked, Sent, Scored, ScreeningTypeOK
<1> QED BY <1>2, ScreeningInvariant, PTL

(* For addresses of every length: what the providers are asked about is    *)
(* valid, and the one spelling of its account.                             *)
THEOREM CheckedAreValid == ScreeningSpec => []CheckedIsValid
<1>1. ScreeningInv => CheckedIsValid
  BY NormalizeTwice DEF ScreeningInv, Sent, CheckedIsValid
<1> QED BY <1>1, ScreeningInvariant, PTL

(* Without AMLBot no check is ever Low or Critical: the formula of the     *)
(* mock does not reach them from the length of a valid address.            *)
THEOREM MockStaysMiddling == ScreeningSpec => []MockIsMiddling
<1>1. ASSUME ScreeningInv, aml # None, ~ config.amlbot
      PROVE  aml.score \in 36 .. 72 /\ aml.level \in {"Medium", "High"}
  <2>1. aml = MockResult(payload.address)
    BY <1>1 DEF ScreeningInv, Scored, Said
  <2>2. stage \in {"failed", "scored", "screened", "completed"}
    BY <1>1 DEF ScreeningInv, Asked, Scored
  <2>3. Valid(payload.currency, payload.address)
    BY <1>1, <2>2 DEF ScreeningInv, Sent
  <2> QED BY <2>1, <2>3, ValidLength, MockScore
<1>2. ScreeningInv => MockIsMiddling
  BY <1>1 DEF MockIsMiddling
<1> QED BY <1>2, ScreeningInvariant, PTL

(* For every score: the level is the one AMLBot named, and one nobody      *)
(* named is the one the thresholds of the tests give for the score.        *)
THEOREM LevelsAreNamedOrDerived == ScreeningSpec => []LevelIsNamedOrDerived
<1>1. ASSUME ScreeningInv, aml # None, ~ config.amlbot
      PROVE  aml.level = ReferenceLevel(aml.score)
  <2>1. aml = MockResult(payload.address)
    BY <1>1 DEF ScreeningInv, Scored, Said
  <2>2. stage \in {"failed", "scored", "screened", "completed"}
    BY <1>1 DEF ScreeningInv, Asked, Scored
  <2>3. payload.address.length \in Nat
    <3>1. Valid(payload.currency, payload.address)
      BY <1>1, <2>2 DEF ScreeningInv, Sent
    <3>2. payload.address.length \in 26 .. 35 \cup 42 .. 62
      BY <3>1, ValidLength
    <3> QED BY <3>2
  <2>4. 10 + (payload.address.length % 80) \in Int
    BY <2>3
  <2> QED BY <2>1, <2>4, DeriveIsReference DEF MockResult
<1>2. ASSUME ScreeningInv, aml # None, config.amlbot
      PROVE  /\ aml.score = reply.score
             /\ aml.level = IF reply.level # "" THEN reply.level
                           ELSE ReferenceLevel(aml.score)
  <2>1. reply \in AMLReply /\ aml = AMLBotResult(reply)
    BY <1>2 DEF ScreeningInv, Scored, Said
  <2>2. reply.score \in Int
    BY <2>1, ScreeningAssumption DEF AMLReply
  <2>3. aml.score = reply.score
    BY <2>1 DEF AMLBotResult, AMLReply
  <2>4. aml.level = IF reply.level = "" THEN DeriveRiskLevel(reply.score) ELSE reply.level
    BY <2>1 DEF AMLBotResult, AMLReply
  <2> QED BY <2>2, <2>3, <2>4, DeriveIsReference
<1>3. ScreeningInv => LevelIsNamedOrDerived
  BY <1>1, <1>2 DEF LevelIsNamedOrDerived
<1> QED BY <1>3, ScreeningInvariant, PTL

(* Nothing Chainalysis answers changes what the AML provider said, up to   *)
(* what the report and the response show of it.                            *)
THEOREM SanctionsStaySeparate == ScreeningSpec => []SanctionsAreSeparate
<1>1. ASSUME ScreeningInv, aml # None
      PROVE  aml = [score |-> aml.score, level |-> aml.level, categories |-> aml.categories]
  <2>1. aml = Said /\ (config.amlbot => reply \in AMLReply)
    BY <1>1 DEF ScreeningInv, Scored
  <2>2. CASE config.amlbot
    <3>1. aml = AMLBotResult(reply) /\ reply \in AMLReply
      BY <2>1, <2>2 DEF Said
    <3>2. aml \in [score : Score, level : Level \cup RiskLevel, categories : SUBSET Category]
      BY <3>1 DEF AMLBotResult, AMLReply, DeriveRiskLevel, RiskLevel
    <3> QED BY <3>2
  <2>3. CASE ~ config.amlbot
    <3>1. aml = MockResult(payload.address)
      BY <2>1, <2>3 DEF Said
    <3> QED BY <3>1 DEF MockResult
  <2> QED BY <2>2, <2>3
<1>2. ASSUME ScreeningInv, shown # None
      PROVE  Verdict(shown.report) = Said /\ Verdict(shown.response) = Said
  <2>1. /\ aml # None /\ aml = Said
        /\ shown.report = ReportContent /\ shown.response = Response
    BY <1>2 DEF ScreeningInv, Screened, Scored
  <2>2. Verdict(ReportContent)
          = [score |-> aml.score, level |-> aml.level, categories |-> aml.categories]
    BY DEF Verdict, ReportContent
  <2>3. Verdict(Response)
          = [score |-> aml.score, level |-> aml.level, categories |-> aml.categories]
    BY DEF Verdict, Response
  <2> QED BY <1>1, <1>2, <2>1, <2>2, <2>3
<1>3. ScreeningInv => SanctionsAreSeparate
  BY <1>2 DEF SanctionsAreSeparate, ScreeningInv, Scored
<1> QED BY <1>3, ScreeningInvariant, PTL

(* The report details exactly the identifications of the response.         *)
THEOREM ReportsMatchResponses == ScreeningSpec => []ReportMatchesResponse
<1>1. ASSUME ScreeningInv, shown # None
      PROVE  /\ shown.report.detected = shown.response.identifications
             /\ shown.response.hit <=> shown.report.detected # {}
  <2>1. PICK ids \in SUBSET Ident : sanctions = SanctionsResult(ids)
    BY <1>1 DEF ScreeningInv, Screened
  <2>2. sanctions.hit = (ids # {}) /\ sanctions.identifications = ids
    BY <2>1 DEF SanctionsResult
  <2>3. shown.report = ReportContent /\ shown.response = Response
    BY <1>1 DEF ScreeningInv, Screened
  <2>4. ReportContent.detected = ids
    BY <2>2 DEF ReportContent
  <2>5. Response.identifications = ids /\ Response.hit = (ids # {})
    BY <2>2 DEF Response
  <2> QED BY <2>3, <2>4, <2>5
<1>2. ScreeningInv => ReportMatchesResponse
  BY <1>1 DEF ReportMatchesResponse
<1> QED BY <1>2, ScreeningInvariant, PTL

=============================================================================
