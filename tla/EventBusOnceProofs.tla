------------------------- MODULE EventBusOnceProofs -------------------------
(***************************************************************************)
(* How often a message published once is at the broker and is attempted,   *)
(* for any queues, messages and retry limit: the bus makes no copy of its  *)
(* own, only a lost connection does.                                       *)
(***************************************************************************)
EXTENDS EventBusOnce, EventBusProofs, FiniteSetTheorems, FunctionTheorems

-----------------------------------------------------------------------------
(* Counting deliveries *)

Count(s, m) == Cardinality(Places(s, m))

LEMMA PlacesFinite ==
  ASSUME NEW D, NEW s \in Seq(D), NEW m
  PROVE  IsFiniteSet(Places(s, m)) /\ Count(s, m) \in Nat
<1>1. Len(s) \in Nat /\ 1 \in Int
  BY LenProperties
<1>2. IsFiniteSet(1..Len(s))
  BY <1>1, FS_Interval
<1>3. Places(s, m) \in SUBSET (1..Len(s))
  BY DEF Places
<1> QED BY <1>2, <1>3, FS_Subset, FS_CardinalityType DEF Count

LEMMA CountEmpty == \A m : Count(<< >>, m) = 0
<1>1. ASSUME NEW m PROVE Places(<< >>, m) = {}
  BY DEF Places
<1> QED BY <1>1, FS_EmptySet DEF Count

(* A message is in a sequence exactly when it is there once or more.       *)
LEMMA CountEntries ==
  ASSUME NEW D, NEW s \in Seq(D), NEW m
  PROVE  Count(s, m) = 0 <=> \A d \in Entries(s) : d.msg # m
<1>1. Count(s, m) = 0 <=> Places(s, m) = {}
  BY PlacesFinite, FS_EmptySet DEF Count
<1> QED BY <1>1 DEF Places, Entries

LEMMA CountAppend ==
  ASSUME NEW D, NEW s \in Seq(D), NEW d \in D, NEW m
  PROVE  Count(Append(s, d), m) = Count(s, m) + IF d.msg = m THEN 1 ELSE 0
<1>1. /\ Len(s) \in Nat
      /\ Len(Append(s, d)) = Len(s) + 1
      /\ \A i \in 1..Len(s) : Append(s, d)[i] = s[i]
      /\ Append(s, d)[Len(s) + 1] = d
  BY AppendProperties, LenProperties
<1>2. Len(s) + 1 \notin Places(s, m)
  BY <1>1 DEF Places
<1>3. IsFiniteSet(Places(s, m)) /\ Count(s, m) \in Nat
  BY PlacesFinite
<1>4. CASE d.msg = m
  <2>1. Places(Append(s, d), m) = Places(s, m) \cup {Len(s) + 1}
    BY <1>1, <1>4 DEF Places
  <2>2. Count(Append(s, d), m) = Count(s, m) + 1
    BY <1>2, <1>3, <2>1, FS_AddElement DEF Count
  <2> QED BY <1>4, <2>2
<1>5. CASE d.msg # m
  <2>1. Places(Append(s, d), m) = Places(s, m)
    BY <1>1, <1>5 DEF Places
  <2> QED BY <1>3, <1>5, <2>1 DEF Count
<1> QED BY <1>4, <1>5

(* Behind one more delivery every place is one further.                    *)
LEMMA CountBehind ==
  ASSUME NEW D, NEW s \in Seq(D), NEW t \in Seq(D), NEW m, Len(s) = Len(t) + 1,
         \A i \in 1..Len(t) : s[i + 1] = t[i]
  PROVE  Count(s, m) = Count(t, m) + IF s[1].msg = m THEN 1 ELSE 0
<1> DEFINE P == Places(t, m)
           R == Places(s, m) \ {1}
           f == [i \in P |-> i + 1]
<1>1. Len(t) \in Nat
  BY LenProperties
<1>2. f \in Bijection(P, R)
  <2>1. ASSUME NEW i \in P PROVE i + 1 \in R
    BY <1>1 DEF Places
  <2>2. ASSUME NEW n \in R PROVE n - 1 \in P /\ f[n - 1] = n
    BY <1>1 DEF Places
  <2>3. \A i, n \in P : f[i] = f[n] => i = n
    BY <1>1 DEF Places
  <2>4. f \in [P -> R]
    BY <2>1
  <2> HIDE DEF P, R, f
  <2> QED BY <2>2, <2>3, <2>4, Fun_IsBij
<1>3. IsFiniteSet(P) /\ Count(t, m) \in Nat /\ IsFiniteSet(Places(s, m))
      /\ Count(s, m) \in Nat
  BY PlacesFinite
<1>4. Cardinality(R) = Count(t, m)
  <2>1. ExistsBijection(P, R)
    BY <1>2, Fun_ExistsBij
  <2> HIDE DEF R
  <2> QED BY <1>3, <2>1, FS_Bijection DEF Count
<1>5. Cardinality(R) = IF 1 \in Places(s, m) THEN Count(s, m) - 1 ELSE Count(s, m)
  BY <1>3, FS_RemoveElement DEF Count
<1>6. 1 \in Places(s, m) <=> s[1].msg = m
  BY <1>1 DEF Places
<1> HIDE DEF R, P, f
<1> QED BY <1>3, <1>4, <1>5, <1>6

LEMMA CountHeadTail ==
  ASSUME NEW D, NEW s \in Seq(D), s # << >>, NEW m
  PROVE  Count(s, m) = Count(Tail(s), m) + IF Head(s).msg = m THEN 1 ELSE 0
<1>1. /\ Len(s) \in Nat /\ Len(s) > 0
      /\ Tail(s) \in Seq(D)
      /\ Len(Tail(s)) = Len(s) - 1
      /\ \A i \in 1..(Len(s) - 1) : Tail(s)[i] = s[i + 1]
      /\ Head(s) = s[1]
  BY HeadTailProperties, LenProperties, EmptySeq
<1> DEFINE t == Tail(s)
<1>2. t \in Seq(D) /\ Len(s) = Len(t) + 1 /\ \A i \in 1..Len(t) : s[i + 1] = t[i]
  BY <1>1
<1> HIDE DEF t
<1>3. Count(s, m) = Count(t, m) + IF s[1].msg = m THEN 1 ELSE 0
  BY <1>2, CountBehind
<1> QED BY <1>1, <1>3 DEF t

LEMMA CountPutBack ==
  ASSUME NEW D, NEW d \in D, NEW t \in Seq(D), NEW m
  PROVE  Count(<<d>> \o t, m) = Count(t, m) + IF d.msg = m THEN 1 ELSE 0
<1>1. <<d>> \in Seq(D) /\ Len(<<d>>) = 1 /\ <<d>>[1] = d
  OBVIOUS
<1> DEFINE s == <<d>> \o t
<1>2. /\ s \in Seq(D) /\ Len(t) \in Nat
      /\ Len(s) = 1 + Len(t)
      /\ \A i \in 1..(1 + Len(t)) :
           s[i] = IF i <= 1 THEN <<d>>[i] ELSE t[i - 1]
  BY <1>1, ConcatProperties, LenProperties
<1>3. \A i \in 1..Len(t) : s[i + 1] = t[i]
  <2> SUFFICES ASSUME NEW i \in 1..Len(t) PROVE s[i + 1] = t[i]
    OBVIOUS
  <2>1. i + 1 \in 1..(1 + Len(t)) /\ ~(i + 1 <= 1) /\ (i + 1) - 1 = i
    BY <1>2
  <2> QED BY <1>2, <2>1
<1>4. s[1] = d
  BY <1>1, <1>2
<1>5. s \in Seq(D) /\ Len(s) = Len(t) + 1
  BY <1>2
<1> HIDE DEF s
<1>6. Count(s, m) = Count(t, m) + IF s[1].msg = m THEN 1 ELSE 0
  BY <1>3, <1>5, CountBehind
<1> QED BY <1>4, <1>6 DEF s

-----------------------------------------------------------------------------
(* Copies *)

Hand(q, m) == IF connected /\ phase[q] # "copied" /\ m \in InHand(q) THEN 1 ELSE 0

(* Nothing is in flight, and no handler has failed on a message, before    *)
(* the message is published: what a first publication relies on.           *)
SentInv ==
  \A q \in Queue :
    /\ InQueue(q) \cup InHand(q) \subseteq sent
    /\ \A m \in Message \ sent : failures[q][m] = 0

CopyInv == LedgerInv /\ SentInv /\ DuplicatesNeedLoss

LEMMA CopiesIs ==
  ASSUME BusTypeOK, NEW q \in Queue, NEW m
  PROVE  /\ Copies(q, m) = Count(queue[q], m) + Hand(q, m)
         /\ Count(queue[q], m) \in Nat
         /\ Hand(q, m) \in {0, 1}
         /\ Count(queue[q], m) = 0 <=> m \notin InQueue(q)
<1>1. queue[q] \in Seq(Delivery)
  BY DEF BusTypeOK
<1>2. Count(queue[q], m) \in Nat
  BY <1>1, PlacesFinite
<1>3. Count(queue[q], m) = 0 <=> m \notin InQueue(q)
  BY <1>1, CountEntries DEF InQueue
<1> QED BY <1>2, <1>3 DEF Copies, Count, Hand

LEMMA RouteCount ==
  ASSUME BusTypeOK, NEW d \in Delivery, queue' = Route(d), NEW q \in Queue, NEW m
  PROVE  Count(queue'[q], m) =
           Count(queue[q], m) + IF d.msg \in Binding[q] /\ d.msg = m THEN 1 ELSE 0
<1>1. queue[q] \in Seq(Delivery) /\ Count(queue[q], m) \in Nat
  BY CopiesIs DEF BusTypeOK
<1>2. CASE d.msg \in Binding[q]
  <2>1. queue'[q] = Append(queue[q], d)
    BY <1>2 DEF Route
  <2>2. Count(Append(queue[q], d), m) = Count(queue[q], m) + IF d.msg = m THEN 1 ELSE 0
    BY <1>1, CountAppend
  <2> QED BY <1>2, <2>1, <2>2
<1>3. CASE d.msg \notin Binding[q]
  BY <1>1, <1>3 DEF Route
<1> QED BY <1>2, <1>3

(* What a retry puts back: the delivery in hand, into the queue it is from.*)
LEMMA RetryRoutes ==
  ASSUME LedgerInv, NEW p \in Queue, Retry(p)
  PROVE  \E e \in Delivery :
           /\ e = [job[p][1] EXCEPT !.retry = @ + 1]
           /\ e.msg = job[p][1].msg
           /\ e.retry = job[p][1].retry + 1
           /\ queue' = Route(e)
           /\ InHand(p) = {e.msg}
           /\ \A q \in Queue : e.msg \in Binding[q] <=> q = p
<1> DEFINE j == job[p][1]
           e == [j EXCEPT !.retry = @ + 1]
<1>1. j \in Delivery /\ j \in Held(p) /\ InHand(p) = {j.msg}
  BY JobHeld, InHandIs DEF LedgerInv, Retry, Goto
<1>2. e \in Delivery /\ e.msg = j.msg /\ e.retry = j.retry + 1
  BY <1>1 DEF Delivery
<1>3. j.msg \in Binding[p]
  BY <1>1 DEF LedgerInv, RetryInv, Routed
<1>4. \A q \in Queue : j.msg \in Binding[q] <=> q = p
  BY <1>3, BusAssumption
<1>5. queue' = Route(e)
  BY DEF Retry
<1> HIDE DEF e
<1> QED BY <1>1, <1>2, <1>4, <1>5 DEF e

(* A consumer brings nothing new into flight and makes no copy of its own: *)
(* a retry trades the delivery in hand for its copy, and only the handler  *)
(* of the message counts a failure.                                        *)
QuietStep ==
  \A q \in Queue :
    /\ InQueue(q)' \cup InHand(q)' \subseteq InQueue(q) \cup InHand(q)
    /\ \A m \in Message : Copies(q, m)' <= Copies(q, m)
    /\ \A m \in Message : failures'[q][m] = failures[q][m] \/ m \in InHand(q)

LEMMA QuietDeliver ==
  ASSUME LedgerInv, NEW p \in Queue, Deliver(p)
  PROVE  QuietStep
<1> USE DEF LedgerInv
<1> SUFFICES ASSUME NEW q \in Queue
             PROVE  /\ InQueue(q)' \cup InHand(q)' \subseteq InQueue(q) \cup InHand(q)
                    /\ \A m \in Message : Copies(q, m)' <= Copies(q, m)
  BY DEF QuietStep, Deliver
<1>1. CASE q = p
  <2>1. InQueue(q)' \cup InHand(q)' \subseteq InQueue(q) \cup InHand(q)
    BY <1>1, InQueueDeliver
  <2>2. ASSUME NEW m \in Message PROVE Copies(q, m)' <= Copies(q, m)
    <3>1. queue[q] \in Seq(Delivery) /\ queue[q] # << >> /\ queue'[q] = Tail(queue[q])
      BY <1>1 DEF BusTypeOK, Deliver
    <3>2. Tail(queue[q]) \in Seq(Delivery)
      BY <3>1, HeadTailProperties
    <3>3. Count(queue[q], m) = Count(queue'[q], m) + IF Head(queue[q]).msg = m THEN 1 ELSE 0
      BY <3>1, CountHeadTail
    <3>4. Hand(q, m)' = IF Head(queue[q]).msg = m THEN 1 ELSE 0
      <4>1. InHand(q)' = {Head(queue[q]).msg}
        BY <1>1, InQueueDeliver
      <4>2. connected' /\ phase'[q] # "copied"
        BY <1>1 DEF Deliver, Goto, BusTypeOK
      <4> QED BY <4>1, <4>2 DEF Hand
    <3>5. Count(queue'[q], m) \in Nat
      BY <3>1, <3>2, PlacesFinite
    <3>6. Copies(q, m)' = Count(queue'[q], m) + Hand(q, m)'
      BY DEF Copies, Count, Hand
    <3>7. Copies(q, m) >= Count(queue[q], m)
      BY CopiesIs
    <3> QED BY <3>3, <3>4, <3>5, <3>6, <3>7
  <2> QED BY <2>1, <2>2
<1>2. CASE q # p
  <2>1. queue'[q] = queue[q] /\ job'[q] = job[q] /\ phase'[q] = phase[q]
    BY <1>2, InQueueDeliver
  <2>2. connected' = connected
    BY DEF Deliver
  <2>3. InQueue(q)' = InQueue(q) /\ InHand(q)' = InHand(q)
    BY <2>1 DEF InQueue, InHand
  <2>4. ASSUME NEW m \in Message PROVE Copies(q, m)' = Copies(q, m)
    BY <2>1, <2>2, <2>3 DEF Copies
  <2>5. \A m \in Message : Copies(q, m) \in Nat
    BY CopiesIs
  <2> QED BY <2>3, <2>4, <2>5
<1> QED BY <1>1, <1>2

LEMMA QuietRetry ==
  ASSUME LedgerInv, NEW p \in Queue, Retry(p)
  PROVE  QuietStep
<1> USE DEF LedgerInv
<1> SUFFICES ASSUME NEW q \in Queue
             PROVE  /\ InQueue(q)' \cup InHand(q)' \subseteq InQueue(q) \cup InHand(q)
                    /\ \A m \in Message : Copies(q, m)' <= Copies(q, m)
  BY DEF QuietStep, Retry
<1>1. PICK e \in Delivery : /\ queue' = Route(e)
                            /\ InHand(p) = {e.msg}
                            /\ \A r \in Queue : e.msg \in Binding[r] <=> r = p
  BY RetryRoutes
<1>2. connected /\ connected' = connected /\ job' = job /\ phase[p] = "err"
      /\ phase' = [phase EXCEPT ![p] = "copied"]
  BY DEF Retry, Goto
<1>3. InHand(q)' = InHand(q)
  BY <1>2 DEF InHand
<1>4. InQueue(q)' = InQueue(q) \cup (IF q = p THEN {e.msg} ELSE {})
  BY <1>1, InQueueRoute
<1>5. ASSUME NEW m \in Message PROVE Copies(q, m)' <= Copies(q, m)
  <2>1. Count(queue'[q], m) = Count(queue[q], m) + IF q = p /\ e.msg = m THEN 1 ELSE 0
    BY <1>1, RouteCount
  <2>2. Copies(q, m)' = Count(queue'[q], m) + Hand(q, m)'
    BY DEF Copies, Count, Hand
  <2>3. CASE q = p
    <3>1. Hand(q, m)' = 0
      BY <1>2, <2>3 DEF Hand, BusTypeOK
    <3>2. Hand(q, m) = IF e.msg = m THEN 1 ELSE 0
      BY <1>1, <1>2, <2>3 DEF Hand
    <3> QED BY <2>1, <2>2, <2>3, <3>1, <3>2, CopiesIs
  <2>4. CASE q # p
    <3>1. Hand(q, m)' = Hand(q, m)
      BY <1>2, <1>3, <2>4 DEF Hand, BusTypeOK
    <3> QED BY <2>1, <2>2, <2>4, <3>1, CopiesIs
  <2> QED BY <2>3, <2>4
<1> QED BY <1>1, <1>3, <1>4, <1>5

LEMMA QuietRest ==
  ASSUME LedgerInv, NEW p \in Queue,
         Handler(p) \/ DeadLetter(p) \/ PublishFails(p) \/ Ack(p) \/ Nack(p) \/ Stop(p)
  PROVE  QuietStep
<1> USE DEF LedgerInv
<1> SUFFICES ASSUME NEW q \in Queue
             PROVE  /\ InQueue(q)' \cup InHand(q)' \subseteq InQueue(q) \cup InHand(q)
                    /\ \A m \in Message : Copies(q, m)' <= Copies(q, m)
                    /\ \A m \in Message : failures'[q][m] = failures[q][m] \/ m \in InHand(q)
  BY DEF QuietStep
<1>1. queue' = queue /\ connected' = connected
  BY DEF Handler, HandlerOk, HandlerErr, DeadLetter, PublishFails, Ack, Nack, Stop
<1>2. InQueue(q)' = InQueue(q)
  BY <1>1 DEF InQueue
<1>3. InHand(q)' \subseteq InHand(q)
  <2>1. CASE Ack(p) \/ Nack(p)
    <3>1. job'[q] = << >> \/ job'[q] = job[q]
      BY <2>1 DEF Ack, Nack, BusTypeOK
    <3> QED BY <3>1, EntriesEmpty DEF InHand
  <2>2. CASE ~(Ack(p) \/ Nack(p))
    BY <2>2 DEF InHand, Handler, HandlerOk, HandlerErr, DeadLetter, PublishFails, Stop
  <2> QED BY <2>1, <2>2
<1>4. phase[q] = "copied" => phase'[q] = "copied" \/ InHand(q)' = {}
  <2>1. CASE Ack(p) /\ p = q
    <3>1. job'[q] = << >>
      BY <2>1 DEF Ack, BusTypeOK
    <3> QED BY <3>1, EntriesEmpty DEF InHand
  <2>2. CASE ~(Ack(p) /\ p = q)
    BY <2>2 DEF Handler, HandlerOk, HandlerErr, DeadLetter, PublishFails, Ack, Nack, Stop,
                Goto, BusTypeOK
  <2> QED BY <2>1, <2>2
<1>5. ASSUME NEW m \in Message PROVE Copies(q, m)' <= Copies(q, m)
  <2>1. Copies(q, m)' = Count(queue[q], m) + Hand(q, m)'
    BY <1>1 DEF Copies, Count, Hand
  <2>2. Hand(q, m)' = 1 => Hand(q, m) = 1
    BY <1>1, <1>3, <1>4 DEF Hand
  <2>3. Hand(q, m)' \in {0, 1}
    BY DEF Hand
  <2> QED BY <2>1, <2>2, <2>3, CopiesIs
<1>6. ASSUME NEW m \in Message PROVE failures'[q][m] = failures[q][m] \/ m \in InHand(q)
  <2>1. CASE HandlerErr(p)
    <3>1. InHand(p) = {job[p][1].msg}
      BY <2>1, InHandIs DEF HandlerErr, Goto
    <3> QED BY <2>1, <3>1 DEF HandlerErr, BusTypeOK
  <2>2. CASE ~HandlerErr(p)
    BY <2>2 DEF Handler, HandlerOk, DeadLetter, PublishFails, Ack, Nack, Stop
  <2> QED BY <2>1, <2>2
<1> QED BY <1>2, <1>3, <1>5, <1>6

LEMMA QuietConsumer ==
  ASSUME LedgerInv, NEW p \in Queue, Consumer(p)
  PROVE  QuietStep
BY QuietDeliver, QuietRetry, QuietRest DEF Consumer, Settling

LEMMA CopiesPublish ==
  ASSUME CopyInv, NEW m \in Message, PublishOnce(m)
  PROVE  SentInv' /\ DuplicatesNeedLoss'
<1> USE DEF CopyInv, LedgerInv
<1>1. /\ m \notin sent /\ sent' = sent \cup {m}
      /\ queue' = Route(Fresh(m)) /\ job' = job /\ phase' = phase
      /\ connected' = connected /\ losses' = losses /\ failures' = failures
  BY DEF PublishOnce, Publish
<1>2. Fresh(m) \in Delivery /\ Fresh(m).msg = m
  BY DEF Fresh, Delivery
<1>3. ASSUME NEW q \in Queue PROVE InHand(q)' = InHand(q)
  BY <1>1 DEF InHand
<1>4. SentInv'
  <2> SUFFICES ASSUME NEW q \in Queue
               PROVE  /\ InQueue(q)' \cup InHand(q)' \subseteq sent'
                      /\ \A n \in Message \ sent' : failures'[q][n] = 0
    BY DEF SentInv
  <2>1. InQueue(q)' \subseteq InQueue(q) \cup {m}
    BY <1>1, <1>2, InQueueRoute
  <2> QED BY <1>1, <1>3, <2>1 DEF SentInv
<1>5. DuplicatesNeedLoss'
  <2> SUFFICES ASSUME NEW q \in Queue, NEW n \in Message
               PROVE  Copies(q, n)' <= 1 + losses
    BY <1>1 DEF DuplicatesNeedLoss
  <2>1. Copies(q, n)' = Count(queue'[q], n) + Hand(q, n)'
    BY DEF Copies, Count, Hand
  <2>2. Hand(q, n)' = Hand(q, n)
    BY <1>1, <1>3 DEF Hand
  <2>3. Count(queue'[q], n) =
          Count(queue[q], n) + IF m \in Binding[q] /\ m = n THEN 1 ELSE 0
    BY <1>1, <1>2, RouteCount
  <2>4. CASE n = m
    <3>1. m \notin InQueue(q) /\ m \notin InHand(q)
      BY <1>1 DEF SentInv
    <3>2. Count(queue[q], m) = 0 /\ Hand(q, m) = 0
      BY <3>1, CopiesIs DEF Hand
    <3> QED BY <2>1, <2>2, <2>3, <2>4, <3>2 DEF BusTypeOK
  <2>5. CASE n # m
    <3>1. Copies(q, n) <= 1 + losses
      BY DEF DuplicatesNeedLoss
    <3> QED BY <2>1, <2>2, <2>3, <2>5, <3>1, CopiesIs
  <2> QED BY <2>4, <2>5
<1> QED BY <1>4, <1>5

LEMMA CopiesConsumer ==
  ASSUME CopyInv, NEW p \in Queue, OnceConsumer(p)
  PROVE  SentInv' /\ DuplicatesNeedLoss'
<1> USE DEF CopyInv
<1>1. Consumer(p) /\ sent' = sent
  BY DEF OnceConsumer
<1>2. QuietStep
  BY <1>1, QuietConsumer
<1>3. losses' = losses
  BY <1>1 DEF Consumer, Handler, Settling, Deliver, HandlerOk, HandlerErr, Retry,
              DeadLetter, PublishFails, Ack, Nack, Stop
<1>4. SentInv'
  <2> SUFFICES ASSUME NEW q \in Queue
               PROVE  /\ InQueue(q)' \cup InHand(q)' \subseteq sent
                      /\ \A m \in Message \ sent : failures'[q][m] = 0
    BY <1>1 DEF SentInv
  <2> QED BY <1>2 DEF QuietStep, SentInv
<1>5. DuplicatesNeedLoss'
  <2> SUFFICES ASSUME NEW q \in Queue, NEW m \in Message
               PROVE  Copies(q, m)' <= 1 + losses
    BY <1>3 DEF DuplicatesNeedLoss
  <2>1. Copies(q, m)' <= Copies(q, m) /\ Copies(q, m) <= 1 + losses
    BY <1>2 DEF QuietStep, DuplicatesNeedLoss
  <2>2. Copies(q, m) \in Nat
    BY CopiesIs DEF LedgerInv
  <2>3. losses \in Nat
    BY DEF LedgerInv, BusTypeOK
  <2>4. Copies(q, m)' \in Nat
    <3>1. BusTypeOK'
      BY <1>1, BusTypeNext DEF LedgerInv, BusNext
    <3>2. queue'[q] \in Seq(Delivery)
      BY <3>1 DEF BusTypeOK
    <3>3. Count(queue'[q], m) \in Nat
      BY <3>2, PlacesFinite
    <3> QED BY <3>3 DEF Copies, Count
  <2> QED BY <2>1, <2>2, <2>3, <2>4
<1> QED BY <1>4, <1>5

(* A lost connection gives every delivery in hand back to its queue: one   *)
(* copy more of a message whose copy is already published.                 *)
LEMMA CopiesLost ==
  ASSUME CopyInv, ConnectionLost, UNCHANGED sent
  PROVE  SentInv' /\ DuplicatesNeedLoss'
<1> USE DEF CopyInv, LedgerInv
<1>1. /\ connected /\ ~connected' /\ losses' = losses + 1 /\ losses \in Nat
      /\ job' = job /\ phase' = phase /\ failures' = failures
      /\ queue' = [q \in Queue |-> job[q] \o queue[q]]
  BY DEF ConnectionLost, BusTypeOK
<1>2. SentInv'
  BY <1>1, InQueueLost DEF SentInv, InHand
<1>3. DuplicatesNeedLoss'
  <2> SUFFICES ASSUME NEW q \in Queue, NEW m \in Message
               PROVE  Copies(q, m)' <= 1 + (losses + 1)
    BY <1>1 DEF DuplicatesNeedLoss
  <2>1. Copies(q, m) <= 1 + losses
    BY DEF DuplicatesNeedLoss
  <2>2. Copies(q, m)' = Count(job[q] \o queue[q], m)
    <3>1. Copies(q, m)' = Count(queue'[q], m) + Hand(q, m)'
      BY DEF Copies, Count, Hand
    <3>2. Hand(q, m)' = 0
      BY <1>1 DEF Hand
    <3>3. queue'[q] \in Seq(Delivery)
      BY <1>1, ConcatProperties DEF BusTypeOK
    <3>4. Count(queue'[q], m) \in Nat
      BY <3>3, PlacesFinite
    <3> QED BY <1>1, <3>1, <3>2, <3>4
  <2>3. Count(job[q] \o queue[q], m) <= Count(queue[q], m) + 1
    <3>1. queue[q] \in Seq(Delivery) /\ Count(queue[q], m) \in Nat
      BY CopiesIs DEF BusTypeOK
    <3>2. CASE job[q] = << >>
      <4>1. job[q] \o queue[q] = queue[q]
        BY <3>1, <3>2
      <4> QED BY <3>1, <4>1
    <3>3. CASE job[q] = <<job[q][1]>> /\ job[q][1] \in Delivery
      <4> DEFINE d == job[q][1]
      <4>1. d \in Delivery /\ job[q] = <<d>>
        BY <3>3
      <4> HIDE DEF d
      <4>2. Count(<<d>> \o queue[q], m) = Count(queue[q], m) + IF d.msg = m THEN 1 ELSE 0
        BY <3>1, <4>1, CountPutBack
      <4> QED BY <3>1, <4>1, <4>2
    <3> QED BY <3>2, <3>3, OneJob
  <2>4. Count(job[q] \o queue[q], m) \in Nat
    <3>1. job[q] \o queue[q] \in Seq(Delivery)
      BY ConcatProperties DEF BusTypeOK
    <3> QED BY <3>1, PlacesFinite
  <2> QED BY <1>1, <2>1, <2>2, <2>3, <2>4, CopiesIs
<1> QED BY <1>2, <1>3

LEMMA CopiesRestart ==
  ASSUME CopyInv, Restart, UNCHANGED sent
  PROVE  SentInv' /\ DuplicatesNeedLoss'
<1> USE DEF CopyInv, LedgerInv
<1>1. /\ ~connected /\ queue' = queue /\ failures' = failures /\ losses' = losses
      /\ job' = [q \in Queue |-> << >>]
  BY DEF Restart
<1>2. \A q \in Queue : InHand(q)' = {} /\ InQueue(q)' = InQueue(q)
  BY <1>1, EntriesEmpty DEF InHand, InQueue
<1>3. SentInv'
  BY <1>1, <1>2 DEF SentInv
<1>4. ASSUME NEW q \in Queue, NEW m \in Message PROVE Copies(q, m)' = Copies(q, m)
  BY <1>1, <1>2 DEF Copies
<1> QED BY <1>1, <1>3, <1>4 DEF DuplicatesNeedLoss

LEMMA CopyInvInit == OnceInit => CopyInv
<1> SUFFICES ASSUME OnceInit PROVE CopyInv
  OBVIOUS
<1>1. LedgerInv
  BY BusTypeInit, RetryInvInit, SettleInit DEF OnceInit, LedgerInv
<1>2. /\ queue = [q \in Queue |-> << >>] /\ job = [q \in Queue |-> << >>] /\ losses = 0
      /\ failures = [q \in Queue |-> [m \in Message |-> 0]]
  BY DEF OnceInit, BusInit
<1>3. \A q \in Queue : InHand(q) = {} /\ InQueue(q) = {}
  BY <1>2, EntriesEmpty DEF InHand, InQueue
<1>4. SentInv
  BY <1>2, <1>3 DEF SentInv
<1>5. ASSUME NEW q \in Queue, NEW m \in Message PROVE Copies(q, m) = 0
  BY <1>2, <1>3, CountEmpty DEF Copies, Count
<1> QED BY <1>1, <1>2, <1>4, <1>5 DEF CopyInv, DuplicatesNeedLoss

LEMMA OnceIsBusStep == [OnceNext]_onceVars => [BusNext]_busVars
BY DEF OnceNext, onceVars, PublishOnce, OnceConsumer, BusNext

LEMMA CopyInvNext == CopyInv /\ [OnceNext]_onceVars => CopyInv'
<1> SUFFICES ASSUME CopyInv, [OnceNext]_onceVars PROVE CopyInv'
  OBVIOUS
<1>0. LedgerInv'
  BY LedgerInvNext, OnceIsBusStep DEF CopyInv
<1>1. ASSUME NEW m \in Message, PublishOnce(m) PROVE SentInv' /\ DuplicatesNeedLoss'
  BY <1>1, CopiesPublish
<1>2. ASSUME NEW p \in Queue, OnceConsumer(p) PROVE SentInv' /\ DuplicatesNeedLoss'
  BY <1>2, CopiesConsumer
<1>3. CASE ConnectionLost /\ UNCHANGED sent
  BY <1>0, <1>3, CopiesLost DEF CopyInv
<1>4. CASE Restart /\ UNCHANGED sent
  BY <1>0, <1>4, CopiesRestart DEF CopyInv
<1>5. CASE UNCHANGED onceVars
  <2>1. SentInv'
    BY <1>5 DEF CopyInv, onceVars, busVars, SentInv, InQueue, InHand
  <2>2. \A q, m : Copies(q, m)' = Copies(q, m)
    BY <1>5 DEF onceVars, busVars, Copies, InHand
  <2>3. DuplicatesNeedLoss'
    BY <1>5, <2>2 DEF CopyInv, onceVars, busVars, DuplicatesNeedLoss
  <2> QED BY <1>0, <2>1, <2>3 DEF CopyInv
<1> QED BY <1>0, <1>1, <1>2, <1>3, <1>4, <1>5 DEF CopyInv, OnceNext

(* The broker holds one copy of a message published once, and at most one  *)
(* more for every time the connection was lost.                            *)
THEOREM CopiesCostLosses == OnceSpec => []DuplicatesNeedLoss
<1>1. OnceInit => CopyInv
  BY CopyInvInit
<1>2. CopyInv /\ [OnceNext]_onceVars => CopyInv'
  BY CopyInvNext
<1>3. CopyInv => DuplicatesNeedLoss
  BY DEF CopyInv
<1> QED BY <1>1, <1>2, <1>3, PTL DEF OnceSpec

-----------------------------------------------------------------------------
(* Attempts *)

(* As long as the connection holds, the retry count of the one copy of a   *)
(* message is the number of failures of its handler: what the next copy    *)
(* carries, and what the limit is compared with, counts every attempt.     *)
TallyOf(q) ==
  /\ \A d \in Entries(queue[q]) :
       d.retry = failures[q][d.msg] /\ d.retry <= MaxRetries
  /\ phase[q] = "handling" => /\ job[q][1].retry = failures[q][job[q][1].msg]
                              /\ job[q][1].retry <= MaxRetries
  /\ phase[q] = "err" => job[q][1].retry + 1 = failures[q][job[q][1].msg]
  /\ \A m \in Message : failures[q][m] <= MaxRetries + 1

TallyInv == losses = 0 => connected /\ \A q \in Queue : TallyOf(q)

LEMMA TallyKept ==
  ASSUME NEW q \in Queue, TallyOf(q), queue'[q] = queue[q], job'[q] = job[q],
         phase'[q] = phase[q], failures'[q] = failures[q]
  PROVE  TallyOf(q)'
BY DEF TallyOf

LEMMA TallyPublish ==
  ASSUME CopyInv, NEW m \in Message, PublishOnce(m), NEW q \in Queue, TallyOf(q)
  PROVE  TallyOf(q)'
<1> USE DEF CopyInv, LedgerInv
<1>1. /\ m \notin sent /\ queue' = Route(Fresh(m)) /\ job' = job /\ phase' = phase
      /\ failures' = failures
  BY DEF PublishOnce, Publish
<1>2. Fresh(m) \in Delivery /\ Fresh(m).msg = m /\ Fresh(m).retry = 0
  BY DEF Fresh, Delivery
<1>3. Entries(queue'[q]) \subseteq Entries(queue[q]) \cup {Fresh(m)}
  BY <1>1, <1>2, RouteEntries
<1>4. failures[q][m] = 0
  BY <1>1 DEF SentInv
<1>5. 0 <= MaxRetries
  BY BusAssumption
<1> QED BY <1>1, <1>2, <1>3, <1>4, <1>5 DEF TallyOf

LEMMA TallyDeliver ==
  ASSUME CopyInv, NEW q \in Queue, Deliver(q), TallyOf(q)
  PROVE  TallyOf(q)'
<1> USE DEF CopyInv, LedgerInv
<1>1. queue[q] \in Seq(Delivery) /\ queue[q] # << >>
  BY DEF BusTypeOK, Deliver
<1>2. Entries(queue[q]) = {Head(queue[q])} \cup Entries(Tail(queue[q]))
  BY <1>1, EntriesHeadTail
<1>3. queue'[q] = Tail(queue[q]) /\ phase'[q] = "handling" /\ failures' = failures
  BY DEF Deliver, Goto, BusTypeOK
<1>4. job'[q][1] = Head(queue[q])
  BY InQueueDeliver
<1> QED BY <1>2, <1>3, <1>4 DEF TallyOf

(* The message in hand has no second copy in the queue, whose retry count  *)
(* would be one failure behind.                                            *)
LEMMA TallyHandlerErr ==
  ASSUME CopyInv, losses = 0, connected, NEW q \in Queue, HandlerErr(q), TallyOf(q)
  PROVE  TallyOf(q)'
<1> USE DEF CopyInv, LedgerInv
<1> DEFINE j == job[q][1]
<1>1. j \in Delivery /\ j.msg \in Message /\ InHand(q) = {j.msg}
  BY JobHeld, HeldDelivery, InHandIs DEF HandlerErr, Goto
<1>2. /\ phase[q] = "handling" /\ phase'[q] = "err"
      /\ queue' = queue /\ job' = job
  BY DEF HandlerErr, Goto, BusTypeOK
<1>3. \A m \in Message : /\ failures[q][m] \in Nat
                         /\ failures'[q][m] = IF m = j.msg THEN failures[q][m] + 1
                                                           ELSE failures[q][m]
  BY <1>1 DEF HandlerErr, BusTypeOK
<1>4. j.msg \notin InQueue(q)
  <2>1. Hand(q, j.msg) = 1
    BY <1>1, <1>2 DEF Hand
  <2>2. Copies(q, j.msg) <= 1
    BY <1>1 DEF DuplicatesNeedLoss
  <2> QED BY <1>1, <2>1, <2>2, CopiesIs
<1>5. \A d \in Entries(queue[q]) : d.msg \in Message /\ d.msg # j.msg
  <2>1. \A d \in Entries(queue[q]) : d.msg # j.msg
    BY <1>4 DEF InQueue
  <2>2. \A d \in Entries(queue[q]) : d.msg \in Message
    BY HeldDelivery DEF Held
  <2> QED BY <2>1, <2>2
<1>6. j.retry = failures[q][j.msg] /\ j.retry <= MaxRetries /\ j.retry \in Nat
  BY <1>1, <1>2 DEF TallyOf, Delivery
<1>7. \A d \in Entries(queue'[q]) : d.retry = failures'[q][d.msg] /\ d.retry <= MaxRetries
  BY <1>2, <1>3, <1>5 DEF TallyOf
<1>8. job'[q][1].retry + 1 = failures'[q][job'[q][1].msg]
  BY <1>1, <1>2, <1>3, <1>6
<1>9. ASSUME NEW m \in Message PROVE failures'[q][m] <= MaxRetries + 1
  BY <1>3, <1>6, BusAssumption DEF TallyOf
<1> HIDE DEF j
<1> QED BY <1>2, <1>7, <1>8, <1>9 DEF TallyOf

LEMMA TallyRetry ==
  ASSUME CopyInv, NEW p \in Queue, Retry(p), NEW q \in Queue, TallyOf(q), TallyOf(p)
  PROVE  TallyOf(q)'
<1> USE DEF CopyInv, LedgerInv
<1>1. PICK e \in Delivery : /\ e.msg = job[p][1].msg
                            /\ e.retry = job[p][1].retry + 1
                            /\ queue' = Route(e)
                            /\ \A r \in Queue : e.msg \in Binding[r] <=> r = p
  BY RetryRoutes
<1>2. /\ phase[p] = "err" /\ phase' = [phase EXCEPT ![p] = "copied"]
      /\ job[p][1].retry < MaxRetries /\ job' = job /\ failures' = failures
  BY DEF Retry, Goto
<1>3. Entries(queue'[q]) = Entries(queue[q]) \cup (IF q = p THEN {e} ELSE {})
  BY <1>1, RouteEntries
<1>4. CASE q = p
  <2>1. phase'[q] = "copied"
    BY <1>2, <1>4 DEF BusTypeOK
  <2>2. e.retry = failures[p][e.msg]
    BY <1>1, <1>2 DEF TallyOf
  <2>3. e.retry <= MaxRetries
    <3>1. job[p][1].retry \in Nat
      BY <1>2, JobHeld DEF Delivery
    <3> QED BY <1>1, <1>2, <3>1, BusAssumption
  <2> QED BY <1>2, <1>3, <1>4, <2>1, <2>2, <2>3 DEF TallyOf
<1>5. CASE q # p
  BY <1>2, <1>3, <1>5 DEF TallyOf, BusTypeOK
<1> QED BY <1>4, <1>5

LEMMA TallyConsumer ==
  ASSUME CopyInv, losses = 0, connected, NEW p \in Queue, Consumer(p),
         NEW q \in Queue, TallyOf(q), TallyOf(p)
  PROVE  TallyOf(q)'
<1> USE DEF CopyInv, LedgerInv
<1>1. CASE Retry(p)
  BY <1>1, TallyRetry
<1>2. CASE q # p /\ ~Retry(p)
  BY <1>2, TallyKept
     DEF Consumer, Handler, Settling, Deliver, HandlerOk, HandlerErr, DeadLetter,
         PublishFails, Ack, Nack, Stop, Goto, BusTypeOK
<1>3. CASE q = p /\ Deliver(p)
  BY <1>3, TallyDeliver
<1>4. CASE q = p /\ HandlerErr(p)
  BY <1>4, TallyHandlerErr
<1>5. CASE q = p /\ (HandlerOk(p) \/ DeadLetter(p) \/ Ack(p) \/ Nack(p))
  <2>1. queue' = queue /\ failures' = failures /\ phase'[q] \notin {"handling", "err"}
    BY <1>5 DEF HandlerOk, DeadLetter, Ack, Nack, Goto, BusTypeOK
  <2> QED BY <2>1 DEF TallyOf
<1>6. ~PublishFails(p) /\ ~Stop(p)
  BY DEF PublishFails, Stop
<1> QED BY <1>1, <1>2, <1>3, <1>4, <1>5, <1>6 DEF Consumer, Handler, Settling

LEMMA TallyNext == CopyInv /\ TallyInv /\ [OnceNext]_onceVars => TallyInv'
<1> SUFFICES ASSUME CopyInv, TallyInv, [OnceNext]_onceVars, losses' = 0
             PROVE  connected' /\ \A q \in Queue : TallyOf(q)'
  BY DEF TallyInv
<1>1. ASSUME NEW m \in Message, PublishOnce(m)
      PROVE  connected' /\ \A q \in Queue : TallyOf(q)'
  BY <1>1, TallyPublish DEF TallyInv, PublishOnce, Publish
<1>2. ASSUME NEW p \in Queue, OnceConsumer(p)
      PROVE  connected' /\ \A q \in Queue : TallyOf(q)'
  <2>1. Consumer(p)
    BY <1>2 DEF OnceConsumer
  <2>2. losses' = losses /\ connected' = connected
    BY <2>1 DEF Consumer, Handler, Settling, Deliver, HandlerOk, HandlerErr, Retry,
                DeadLetter, PublishFails, Ack, Nack, Stop
  <2> QED BY <2>1, <2>2, TallyConsumer DEF TallyInv
<1>3. ~ConnectionLost
  BY DEF ConnectionLost, CopyInv, LedgerInv, BusTypeOK
<1>4. ~Restart
  BY DEF Restart, TallyInv
<1>5. CASE UNCHANGED onceVars
  BY <1>5, TallyKept DEF TallyInv, onceVars, busVars
<1> QED BY <1>1, <1>2, <1>3, <1>4, <1>5 DEF OnceNext

LEMMA TallyInit == OnceInit => TallyInv
<1> SUFFICES ASSUME OnceInit PROVE connected /\ \A q \in Queue : TallyOf(q)
  BY DEF TallyInv
<1>1. connected
  BY DEF OnceInit, BusInit
<1>2. ASSUME NEW q \in Queue PROVE TallyOf(q)
  <2>1. /\ queue[q] = << >> /\ phase[q] = "idle"
        /\ \A m \in Message : failures[q][m] = 0
    BY DEF OnceInit, BusInit
  <2>2. 0 <= MaxRetries + 1
    BY BusAssumption
  <2> QED BY <2>1, <2>2, EntriesEmpty DEF TallyOf
<1> QED BY <1>1, <1>2

(* While the connection holds the handler sees a message at most once and  *)
(* MaxRetries times again, then it is in the dead letter queue.            *)
THEOREM AttemptsAreBounded == OnceSpec => []AttemptsBounded
<1>1. OnceInit => CopyInv /\ TallyInv
  BY CopyInvInit, TallyInit
<1>2. CopyInv /\ TallyInv /\ [OnceNext]_onceVars => (CopyInv /\ TallyInv)'
  BY CopyInvNext, TallyNext
<1>3. TallyInv => AttemptsBounded
  BY DEF TallyInv, TallyOf, AttemptsBounded
<1> QED BY <1>1, <1>2, <1>3, PTL DEF OnceSpec

=============================================================================
