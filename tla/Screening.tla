------------------------------ MODULE Screening ------------------------------
(***************************************************************************)
(* What is decided about one address: validation and normalization         *)
(* (handlers.go, check_address.go, asset.go), the AML provider (amlbot.go  *)
(* or mock_aml.go), the sanctions provider (chainalysis.go), how           *)
(* process_aml_check.go puts their answers together, and what the PDF      *)
(* (pdf.go) and the response (respondCheckResult) say in the end.          *)
(*                                                                         *)
(* One attempt: retries, and what travels where, are CheckPipeline's.      *)
(* Addresses are classes of strings, told apart as far as the patterns of  *)
(* asset.go tell them apart.                                               *)
(***************************************************************************)
EXTENDS Integers, FiniteSets

CONSTANTS
  Length,    \* lengths of addresses without the spaces around them
  Score,     \* risk scores AMLBot may answer
  Category,  \* its categories
  Ident      \* identifications of Chainalysis

ASSUME ScreeningAssumption == Length \subseteq Nat /\ Score \subseteq Int

VARIABLES
  config,     \* which providers have credentials
  request,    \* the body of the POST
  stage,      \* how far it came
  payload,    \* what aml.check.requested carries
  aml,        \* the AML provider's result
  sanctions,  \* the sanctions provider's result
  shown,      \* what the report and the response say
  reply       \* history: what AMLBot answered, for the properties

screeningVars == <<config, request, stage, payload, aml, sanctions, shown, reply>>

None == [none |-> TRUE]

-----------------------------------------------------------------------------
(* Addresses                                                               *)

(* How the address starts, which characters follow, its length, and        *)
(* whether there are spaces around it.  The characters: "hex" are digits   *)
(* and a-f with a 0, "HEX" is hex with an upper case letter, "bech32" are  *)
(* lower case letters and digits with a 0, not all hex, "base58" mixes     *)
(* cases without 0, O, I and l, "other" is anything else.                  *)
Address ==
  {a \in [head : {"1", "3", "bc1", "BC1", "0x", "0X", ""},
          body : {"hex", "HEX", "bech32", "base58", "other"},
          length : Length, padded : BOOLEAN] :
     a.length >= IF a.head = "" THEN 0 ELSE IF a.head \in {"bc1", "BC1"} THEN 3 ELSE 2}

Currency == {"BTC", "ETH", "USDT"}

Lower(a) ==
  [a EXCEPT !.head = IF @ = "0X" THEN "0x" ELSE IF @ = "BC1" THEN "bc1" ELSE @,
            !.body = IF @ = "HEX" THEN "hex" ELSE IF @ = "base58" THEN "bech32" ELSE @]

Trim(a) == [a EXCEPT !.padded = FALSE]

Normalize(c, a) == IF c = "BTC" THEN Trim(a) ELSE Lower(Trim(a))

(* Mutant: the lengths BIP 173 allows any witness program.                 *)
ValidShort(c, a) ==
  /\ ~ a.padded
  /\ IF c = "BTC"
     THEN \/ a.head \in {"1", "3"} /\ a.body = "base58" /\ a.length \in 26 .. 35
          \/ a.head = "bc1" /\ a.body \in {"hex", "bech32"} /\ a.length \in 14 .. 74
     ELSE a.head = "0x" /\ a.body \in {"hex", "HEX"} /\ a.length = 42

Valid(c, a) ==
  /\ ~ a.padded
  /\ IF c = "BTC"
     THEN \/ a.head \in {"1", "3"} /\ a.body = "base58" /\ a.length \in 26 .. 35
          \/ a.head = "bc1" /\ a.body \in {"hex", "bech32"} /\ a.length \in 42 .. 62
     ELSE a.head = "0x" /\ a.body \in {"hex", "HEX"} /\ a.length = 42

-----------------------------------------------------------------------------
(* Risk                                                                    *)

(* Mutant: the boundaries belong to the level below.                       *)
DeriveAbove(score) ==
  IF score > 80 THEN "Critical"
  ELSE IF score > 60 THEN "High"
  ELSE IF score > 30 THEN "Medium" ELSE "Low"

DeriveRiskLevel(score) ==
  IF score >= 80 THEN "Critical"
  ELSE IF score >= 60 THEN "High"
  ELSE IF score >= 30 THEN "Medium" ELSE "Low"

RiskLevel == {"Low", "Medium", "High", "Critical"}

(* The levels AMLBot may name; "" is none, "Severe" one the service does   *)
(* not know.                                                               *)
Level == {"Low", "Critical", "Severe", ""}

AMLReply == [score : Score, level : Level, categories : SUBSET Category]

(* Mutant: the level is taken as it comes.                                 *)
AMLBotAsIs(r) == r

(* AMLBot: a level of its own wins, a missing list is an empty one.        *)
AMLBotResult(r) ==
  [r EXCEPT !.level = IF @ = "" THEN DeriveRiskLevel(r.score) ELSE @]

MockResult(a) ==
  LET score == 10 + (a.length % 80)
  IN  [score |-> score,
       level |-> DeriveRiskLevel(score),
       categories |-> (IF score >= 60 THEN {"High Risk Exchange"} ELSE {})
                        \cup (IF score >= 80 THEN {"Darknet", "Mixer"} ELSE {})]

(* Mutant: one identification is not yet a hit.                            *)
SanctionsOfMany(ids) == [hit |-> Cardinality(ids) > 1, identifications |-> ids]

SanctionsResult(ids) == [hit |-> ids # {}, identifications |-> ids]

-----------------------------------------------------------------------------
(* The steps                                                               *)

(* Mutant: the address is checked before it is normalized, and sent as is. *)
RequestAsIs ==
  /\ stage = "arrived"
  /\ request.currency \in Currency
  /\ Valid(request.currency, Normalize(request.currency, request.address))
  /\ payload' = request
  /\ stage' = "requested"
  /\ UNCHANGED <<config, reply, request, aml, sanctions, shown>>

Request ==
  /\ stage = "arrived"
  /\ request.currency \in Currency
  /\ LET a == Normalize(request.currency, request.address)
     IN  /\ Valid(request.currency, a)
         /\ payload' = [currency |-> request.currency, address |-> a]
  /\ stage' = "requested"
  /\ UNCHANGED <<config, reply, request, aml, sanctions, shown>>

(* 400.  The validator of the handler compares the currency as it stands,  *)
(* so the upper casing of the registry never matters.                      *)
Reject ==
  /\ stage = "arrived"
  /\ request.currency \in Currency =>
       ~ Valid(request.currency, Normalize(request.currency, request.address))
  /\ stage' = "rejected"
  /\ UNCHANGED <<config, reply, request, payload, aml, sanctions, shown>>

ScoreMock ==
  /\ stage = "requested"
  /\ ~ config.amlbot
  /\ aml' = MockResult(payload.address)
  /\ stage' = "scored"
  /\ UNCHANGED <<config, reply, request, payload, sanctions, shown>>

ScoreAMLBot ==
  /\ stage = "requested"
  /\ config.amlbot
  /\ \E r \in AMLReply : reply' = r /\ aml' = AMLBotResult(r)
  /\ stage' = "scored"
  /\ UNCHANGED <<config, request, payload, sanctions, shown>>

(* No connection, a status other than 200, or a body that does not decode: *)
(* the attempt fails.                                                      *)
AMLBotFails ==
  /\ stage = "requested"
  /\ config.amlbot
  /\ stage' = "failed"
  /\ UNCHANGED <<config, reply, request, payload, aml, sanctions, shown>>

(* Mutant: what Chainalysis found raises the level.                        *)
ScreenMerged ==
  /\ stage = "scored"
  /\ config.chainalysis
  /\ \E ids \in SUBSET Ident :
       /\ sanctions' = SanctionsResult(ids)
       /\ aml' = [aml EXCEPT !.level = IF ids # {} THEN "Critical" ELSE @]
  /\ stage' = "screened"
  /\ UNCHANGED <<config, reply, request, payload, shown>>

(* Chainalysis answers; a 404 is an answer, without identifications.       *)
Screen ==
  /\ stage = "scored"
  /\ config.chainalysis
  /\ \E ids \in SUBSET Ident : sanctions' = SanctionsResult(ids)
  /\ stage' = "screened"
  /\ UNCHANGED <<config, reply, request, payload, aml, shown>>

(* Mutant: an error of Chainalysis fails the attempt.                      *)
ScreenOrFail ==
  /\ stage = "scored"
  /\ stage' = "failed"
  /\ UNCHANGED <<config, reply, request, payload, aml, sanctions, shown>>

(* No key, no connection, another status or a body that does not decode:   *)
(* the attempt goes on with no hit.                                        *)
ScreenNothing ==
  /\ stage = "scored"
  /\ sanctions' = SanctionsResult({})
  /\ stage' = "screened"
  /\ UNCHANGED <<config, reply, request, payload, aml, shown>>

(* aml.check.completed is not published: the attempt fails, with its score *)
(* in hand.                                                                *)
PublishFails ==
  /\ stage = "screened"
  /\ stage' = "failed"
  /\ UNCHANGED <<config, reply, request, payload, aml, sanctions, shown>>

(* The PDF lists identifications under a hit only.                         *)
ReportContent ==
  [score |-> aml.score, level |-> aml.level, categories |-> aml.categories,
   detected |-> IF sanctions.hit THEN sanctions.identifications ELSE {}]

Response ==
  [score |-> aml.score, level |-> aml.level, categories |-> aml.categories,
   hit |-> sanctions.hit, identifications |-> sanctions.identifications]

Complete ==
  /\ stage = "screened"
  /\ shown' = [report |-> ReportContent, response |-> Response]
  /\ stage' = "completed"
  /\ UNCHANGED <<config, reply, request, payload, aml, sanctions>>

-----------------------------------------------------------------------------

ScreeningInit ==
  /\ config \in [amlbot : BOOLEAN, chainalysis : BOOLEAN]
  /\ request \in [currency : Currency \cup {"btc", "DOGE", ""}, address : Address]
  /\ stage = "arrived"
  /\ payload = None
  /\ aml = None
  /\ sanctions = None
  /\ shown = None
  /\ reply = None

Attempt == \/ ScoreMock \/ ScoreAMLBot \/ AMLBotFails
           \/ Screen \/ ScreenNothing
           \/ PublishFails \/ Complete

ScreeningNext == Request \/ Reject \/ Attempt

ScreeningSpec == ScreeningInit /\ [][ScreeningNext]_screeningVars

(* The HTTP clients of the providers have timeouts of 30 seconds.          *)
FairScreeningSpec == ScreeningSpec /\ WF_screeningVars(Attempt)

-----------------------------------------------------------------------------
(* Properties *)

(* What a stage has is there, and of its type.                             *)
ScreeningTypeOK ==
  /\ stage \in {"arrived", "rejected", "requested", "failed", "scored", "screened",
                "completed"}
  /\ stage \in {"requested", "failed", "scored", "screened", "completed"} =>
       payload \in [currency : Currency, address : Address]
  /\ stage \in {"scored", "screened", "completed"} =>
       /\ aml.score \in Int
       /\ aml.level \in RiskLevel \cup {"Severe"}
  /\ stage \in {"screened", "completed"} =>
       sanctions \in [hit : BOOLEAN, identifications : SUBSET Ident]

(* The providers are asked about valid, normalized addresses only, so that *)
(* all spellings of one account are one address to them (check_address.go  *)
(* 37-56); normalizing twice would change nothing.                         *)
CheckedIsValid ==
  payload # None =>
    /\ Valid(payload.currency, payload.address)
    /\ Normalize(payload.currency, payload.address) = payload.address

(* The mock (mock_aml.go:24) scores by the length of the address: for the  *)
(* addresses that reach it the score is 36 to 72 and never overflows into  *)
(* the Low and Critical of other lengths.                                  *)
MockIsMiddling ==
  aml # None /\ ~ config.amlbot =>
    aml.score \in 36 .. 72 /\ aml.level \in {"Medium", "High"}

(* The level is the one AMLBot named; one nobody named is the one the      *)
(* thresholds the tests list give for the score (aml_check_test.go:14-22): *)
(* 30, 60 and 80 belong to the level above.                                *)
ReferenceLevel(score) ==
  LET reached == Cardinality({b \in {30, 60, 80} : score >= b})
  IN  <<"Low", "Medium", "High", "Critical">>[1 + reached]

LevelIsNamedOrDerived ==
  aml # None =>
    IF config.amlbot /\ reply.level # "" THEN aml.level = reply.level
    ELSE /\ aml.level = ReferenceLevel(aml.score)
         /\ config.amlbot => aml.score = reply.score

(* README.md:49: the sanctions are not merged into score, level and        *)
(* categories: whatever Chainalysis found, what the AML provider said is   *)
(* what the report and the client's response say.                          *)
Said       == IF config.amlbot THEN AMLBotResult(reply) ELSE MockResult(payload.address)
Verdict(r) == [score |-> r.score, level |-> r.level, categories |-> r.categories]

SanctionsAreSeparate ==
  /\ aml # None => aml = Said
  /\ shown # None => Verdict(shown.report) = Said /\ Verdict(shown.response) = Said

(* README.md:50-52: the service works without Chainalysis: whatever comes  *)
(* of the sanctions provider, an attempt that has its score goes on to be  *)
(* published; only the bus can still fail it.                              *)
ScoredIsScreened == stage = "scored" ~> stage = "screened"

(* The report and the response tell the same story: a hit is what the PDF  *)
(* details (pdf.go:91-98), no hit has nothing to detail.                   *)
ReportMatchesResponse ==
  shown # None =>
    /\ shown.report.detected = shown.response.identifications
    /\ shown.response.hit <=> shown.report.detected # {}

=============================================================================
