--------------------------- MODULE EventBusProofs ---------------------------
(***************************************************************************)
(* What the bus guarantees for any queues, messages and retry limit and    *)
(* however often the connection is lost: its types, that nothing is given  *)
(* up before its retries are used up, and that it implements the work      *)
(* ledger.                                                                 *)
(***************************************************************************)
EXTENDS EventBus, SequenceTheorems, TLAPS

-----------------------------------------------------------------------------
(* The entries of a sequence *)

LEMMA EntriesEmpty == Entries(<< >>) = {}
BY DEF Entries

LEMMA EntriesOne == ASSUME NEW e PROVE Entries(<<e>>) = {e}
BY DEF Entries

LEMMA EntriesIn ==
  ASSUME NEW S, NEW s \in Seq(S)
  PROVE  Entries(s) \subseteq S
BY ElementOfSeq DEF Entries

LEMMA EntriesAppend ==
  ASSUME NEW S, NEW s \in Seq(S), NEW e \in S
  PROVE  Entries(Append(s, e)) = Entries(s) \cup {e}
<1>1. /\ Append(s, e) \in Seq(S)
      /\ Len(s) \in Nat
      /\ Len(Append(s, e)) = Len(s) + 1
      /\ \A i \in 1..Len(s) : Append(s, e)[i] = s[i]
      /\ Append(s, e)[Len(s) + 1] = e
  BY AppendProperties, LenProperties
<1>2. 1..(Len(s) + 1) = (1..Len(s)) \cup {Len(s) + 1}
  BY <1>1
<1> QED BY <1>1, <1>2 DEF Entries

LEMMA EntriesConcat ==
  ASSUME NEW S, NEW s \in Seq(S), NEW t \in Seq(S)
  PROVE  Entries(s \o t) = Entries(s) \cup Entries(t)
<1>1. /\ Len(s) \in Nat /\ Len(t) \in Nat
      /\ Len(s \o t) = Len(s) + Len(t)
      /\ \A i \in 1..(Len(s) + Len(t)) :
           (s \o t)[i] = IF i <= Len(s) THEN s[i] ELSE t[i - Len(s)]
  BY ConcatProperties, LenProperties
<1>2. ASSUME NEW x \in Entries(s) PROVE x \in Entries(s \o t)
  <2>1. PICK i \in 1..Len(s) : x = s[i]
    BY DEF Entries
  <2> QED BY <1>1, <2>1 DEF Entries
<1>3. ASSUME NEW x \in Entries(t) PROVE x \in Entries(s \o t)
  <2>1. PICK i \in 1..Len(t) : x = t[i]
    BY DEF Entries
  <2>2. /\ i + Len(s) \in 1..(Len(s) + Len(t))
        /\ ~(i + Len(s) <= Len(s))
        /\ (i + Len(s)) - Len(s) = i
    BY <1>1, <2>1
  <2>3. (s \o t)[i + Len(s)] = x
    BY <1>1, <2>1, <2>2
  <2> QED BY <1>1, <2>2, <2>3 DEF Entries
<1>4. ASSUME NEW x \in Entries(s \o t) PROVE x \in Entries(s) \cup Entries(t)
  <2>1. PICK i \in 1..(Len(s) + Len(t)) : x = (s \o t)[i]
    BY <1>1 DEF Entries
  <2>2. CASE i <= Len(s)
    BY <1>1, <2>1, <2>2 DEF Entries
  <2>3. CASE ~(i <= Len(s))
    BY <1>1, <2>1, <2>3 DEF Entries
  <2> QED BY <2>2, <2>3
<1> QED BY <1>2, <1>3, <1>4

LEMMA EntriesHeadTail ==
  ASSUME NEW S, NEW s \in Seq(S), s # << >>
  PROVE  Entries(s) = {Head(s)} \cup Entries(Tail(s))
<1>1. /\ Len(s) \in Nat /\ Len(s) > 0
      /\ Tail(s) \in Seq(S)
      /\ Len(Tail(s)) = Len(s) - 1
      /\ \A i \in 1..(Len(s) - 1) : Tail(s)[i] = s[i + 1]
      /\ Head(s) = s[1]
  BY HeadTailProperties, LenProperties, EmptySeq
<1>2. ASSUME NEW x \in Entries(s) PROVE x \in {Head(s)} \cup Entries(Tail(s))
  <2>1. PICK i \in 1..Len(s) : x = s[i]
    BY DEF Entries
  <2>2. CASE i = 1
    BY <1>1, <2>1, <2>2
  <2>3. CASE i # 1
    <3>1. i - 1 \in 1..(Len(s) - 1) /\ (i - 1) + 1 = i
      BY <1>1, <2>1, <2>3
    <3>2. Tail(s)[i - 1] = x
      BY <1>1, <2>1, <3>1
    <3> QED BY <1>1, <3>1, <3>2 DEF Entries
  <2> QED BY <2>2, <2>3
<1>3. ASSUME NEW x \in Entries(Tail(s)) PROVE x \in Entries(s)
  <2>1. PICK i \in 1..(Len(s) - 1) : x = Tail(s)[i]
    BY <1>1 DEF Entries
  <2>2. i + 1 \in 1..Len(s) /\ x = s[i + 1]
    BY <1>1, <2>1
  <2> QED BY <2>2 DEF Entries
<1>4. Head(s) \in Entries(s)
  BY <1>1 DEF Entries
<1> QED BY <1>2, <1>3, <1>4

(* No delivery of a message in S has one of a message in T behind it: what *)
(* is published last is delivered last.                                    *)
Sealed(s, S, T) ==
  \A i, j \in 1..Len(s) : i < j /\ s[i].msg \in S => s[j].msg \notin T

LEMMA SealedAppend ==
  ASSUME NEW D, NEW s \in Seq(D), NEW d \in D, NEW S, NEW T, Sealed(s, S, T),
         d.msg \notin T \/ \A e \in Entries(s) : e.msg \notin S
  PROVE  Sealed(Append(s, d), S, T)
<1>1. /\ Len(s) \in Nat
      /\ Len(Append(s, d)) = Len(s) + 1
      /\ \A i \in 1..Len(s) : Append(s, d)[i] = s[i]
      /\ Append(s, d)[Len(s) + 1] = d
  BY AppendProperties, LenProperties
<1> SUFFICES ASSUME NEW i \in 1..(Len(s) + 1), NEW j \in 1..(Len(s) + 1), i < j,
                    Append(s, d)[i].msg \in S
             PROVE  Append(s, d)[j].msg \notin T
  BY <1>1 DEF Sealed
<1>2. i \in 1..Len(s) /\ s[i].msg \in S
  BY <1>1
<1>3. CASE j = Len(s) + 1
  <2>1. s[i] \in Entries(s)
    BY <1>2 DEF Entries
  <2> QED BY <1>1, <1>2, <1>3, <2>1
<1>4. CASE j \in 1..Len(s)
  BY <1>1, <1>2, <1>4 DEF Sealed
<1> QED BY <1>1, <1>3, <1>4

LEMMA SealedTail ==
  ASSUME NEW D, NEW s \in Seq(D), s # << >>, NEW S, NEW T, Sealed(s, S, T)
  PROVE  /\ Sealed(Tail(s), S, T)
         /\ Head(s).msg \in S => \A e \in Entries(Tail(s)) : e.msg \notin T
<1>1. /\ Len(s) \in Nat /\ Len(s) > 0
      /\ Len(Tail(s)) = Len(s) - 1
      /\ \A i \in 1..(Len(s) - 1) : Tail(s)[i] = s[i + 1]
      /\ Head(s) = s[1]
  BY HeadTailProperties, LenProperties, EmptySeq
<1>2. \A i \in 1..(Len(s) - 1) : i + 1 \in 1..Len(s) /\ 1 < i + 1
  BY <1>1
<1>3. Sealed(Tail(s), S, T)
  <2> SUFFICES ASSUME NEW i \in 1..(Len(s) - 1), NEW j \in 1..(Len(s) - 1), i < j,
                      s[i + 1].msg \in S
               PROVE  s[j + 1].msg \notin T
    BY <1>1 DEF Sealed
  <2>1. i + 1 < j + 1
    BY <1>1
  <2> QED BY <1>2, <2>1 DEF Sealed
<1>4. ASSUME Head(s).msg \in S, NEW e \in Entries(Tail(s)) PROVE e.msg \notin T
  <2>1. PICK i \in 1..(Len(s) - 1) : e = s[i + 1]
    BY <1>1 DEF Entries
  <2>2. 1 \in 1..Len(s)
    BY <1>1
  <2> QED BY <1>1, <1>2, <1>4, <2>1, <2>2 DEF Sealed
<1> QED BY <1>3, <1>4

-----------------------------------------------------------------------------
(* Type correctness *)

(* A busy consumer holds exactly one delivery.                             *)
LEMMA OneJob ==
  ASSUME BusTypeOK, NEW q \in Queue
  PROVE  \/ /\ phase[q] \in {"idle", "stopped"}
            /\ job[q] = << >>
         \/ /\ phase[q] \notin {"idle", "stopped"}
            /\ job[q] = <<job[q][1]>>
            /\ job[q][1] \in Delivery
<1>1. job[q] \in Seq(Delivery) /\ Len(job[q]) <= 1 /\ Len(job[q]) \in Nat
  BY LenProperties DEF BusTypeOK
<1>2. CASE job[q] = << >>
  BY <1>2 DEF BusTypeOK
<1>3. CASE job[q] # << >>
  <2>1. Len(job[q]) = 1
    <3>1. Len(job[q]) \in Nat \ {0}
      BY <1>1, <1>3, EmptySeq, Zenon
    <3>2. \A n \in Nat \ {0} : n <= 1 => n = 1
      OBVIOUS
    <3> QED BY <1>1, <3>1, <3>2, Zenon
  <2>2. job[q][1] \in Delivery /\ job[q] = <<job[q][1]>>
    BY <1>1, <2>1, ElementOfSeq
  <2> QED BY <1>3, <2>2 DEF BusTypeOK
<1> QED BY <1>2, <1>3

LEMMA RouteType ==
  ASSUME BusTypeOK, NEW d \in Delivery
  PROVE  Route(d) \in [Queue -> Seq(Delivery)]
BY AppendProperties DEF Route, BusTypeOK

LEMMA BusTypeInit == BusInit => BusTypeOK
BY BusAssumption, EmptySeq DEF BusInit, BusTypeOK, Phase

(* Most consumer steps touch the phase and the job only.                   *)
LEMMA BusTypeJob ==
  ASSUME BusTypeOK, NEW q \in Queue, NEW to \in Phase,
         phase' = [phase EXCEPT ![q] = to],
         \/ job' = job /\ phase[q] \notin {"idle", "stopped"}
                       /\ to \notin {"idle", "stopped"}
         \/ job' = job /\ phase[q] = "idle" /\ to = "stopped"
         \/ job' = [job EXCEPT ![q] = << >>] /\ to = "idle"
  PROVE  /\ phase' \in [Queue -> Phase]
         /\ job' \in [Queue -> Seq(Delivery)]
         /\ \A r \in Queue : Len(job'[r]) <= 1
         /\ \A r \in Queue : (job'[r] = << >>) <=> (phase'[r] \in {"idle", "stopped"})
<1>1. phase' \in [Queue -> Phase]
  BY DEF BusTypeOK
<1>2. CASE job' = job
  <2>1. \A r \in Queue : (job'[r] = << >>) <=> (phase'[r] \in {"idle", "stopped"})
    BY <1>2 DEF BusTypeOK
  <2> QED BY <1>1, <1>2, <2>1 DEF BusTypeOK
<1>3. CASE job' = [job EXCEPT ![q] = << >>] /\ to = "idle"
  <2>1. \A r \in Queue : job'[r] = IF r = q THEN << >> ELSE job[r]
    BY <1>3 DEF BusTypeOK
  <2>2. job' \in [Queue -> Seq(Delivery)] /\ \A r \in Queue : Len(job'[r]) <= 1
    BY <1>3, <2>1, EmptySeq DEF BusTypeOK
  <2>3. \A r \in Queue : (job'[r] = << >>) <=> (phase'[r] \in {"idle", "stopped"})
    BY <1>3, <2>1 DEF BusTypeOK
  <2> QED BY <1>1, <2>2, <2>3
<1> QED BY <1>2, <1>3

LEMMA BusTypeDeliver ==
  ASSUME BusTypeOK, NEW q \in Queue, Deliver(q)
  PROVE  BusTypeOK'
<1>1. /\ Head(queue[q]) \in Delivery
      /\ Tail(queue[q]) \in Seq(Delivery)
  BY HeadTailProperties DEF BusTypeOK, Deliver
<1>2. queue' \in [Queue -> Seq(Delivery)]
  BY <1>1 DEF BusTypeOK, Deliver
<1>3. /\ <<Head(queue[q])>> \in Seq(Delivery)
      /\ Len(<<Head(queue[q])>>) = 1
      /\ <<Head(queue[q])>> # << >>
  BY <1>1
<1>4. /\ job' \in [Queue -> Seq(Delivery)]
      /\ \A r \in Queue : Len(job'[r]) <= 1
      /\ \A r \in Queue : (job'[r] = << >>) <=> (phase'[r] \in {"idle", "stopped"})
  BY <1>3 DEF BusTypeOK, Deliver, Goto
<1>5. phase' \in [Queue -> Phase]
  BY DEF BusTypeOK, Deliver, Goto, Phase
<1> QED BY <1>2, <1>4, <1>5 DEF BusTypeOK, Deliver

LEMMA BusTypeHandler ==
  ASSUME BusTypeOK, NEW q \in Queue, Handler(q)
  PROVE  BusTypeOK'
<1>1. job[q][1].msg \in Message
  BY OneJob DEF Handler, HandlerOk, HandlerErr, Goto, Delivery
<1>2. CASE HandlerOk(q)
  <2>1. handled' \in [Queue -> SUBSET Message]
    BY <1>1, <1>2 DEF BusTypeOK, HandlerOk
  <2> QED BY <1>2, <2>1, BusTypeJob DEF BusTypeOK, HandlerOk, Goto, Phase
<1>3. CASE HandlerErr(q)
  <2>1. failures' \in [Queue -> [Message -> Nat]]
    BY <1>1, <1>3 DEF BusTypeOK, HandlerErr
  <2> QED BY <1>3, <2>1, BusTypeJob DEF BusTypeOK, HandlerErr, Goto, Phase
<1> QED BY <1>2, <1>3 DEF Handler

LEMMA BusTypeSettling ==
  ASSUME BusTypeOK, NEW q \in Queue, Settling(q)
  PROVE  BusTypeOK'
<1>1. CASE Retry(q)
  <2>1. job[q][1] \in Delivery
    BY <1>1, OneJob DEF Retry, Goto
  <2>2. [job[q][1] EXCEPT !.retry = @ + 1] \in Delivery
    BY <2>1 DEF Delivery
  <2>3. queue' \in [Queue -> Seq(Delivery)]
    BY <1>1, <2>2, RouteType DEF Retry
  <2> QED BY <1>1, <2>3, BusTypeJob DEF BusTypeOK, Retry, Goto, Phase
<1>2. CASE DeadLetter(q)
  <2>1. job[q][1].msg \in Message
    BY <1>2, OneJob DEF DeadLetter, Goto, Delivery
  <2>2. dlq' \in [Queue -> SUBSET Letter]
    BY <1>2, <2>1 DEF BusTypeOK, DeadLetter, Letter
  <2> QED BY <1>2, <2>2, BusTypeJob DEF BusTypeOK, DeadLetter, Goto, Phase
<1>3. CASE PublishFails(q)
  BY <1>3, BusTypeJob DEF BusTypeOK, PublishFails, Goto, Phase
<1>4. CASE Ack(q)
  BY <1>4, BusTypeJob DEF BusTypeOK, Ack, Goto, Phase
<1>5. CASE Nack(q)
  BY <1>5, BusTypeJob DEF BusTypeOK, Nack, Goto, Phase
<1>6. CASE Stop(q)
  BY <1>6, BusTypeJob DEF BusTypeOK, Stop, Goto, Phase
<1> QED BY <1>1, <1>2, <1>3, <1>4, <1>5, <1>6 DEF Settling

LEMMA BusTypeNext == BusTypeOK /\ [BusNext]_busVars => BusTypeOK'
<1> SUFFICES ASSUME BusTypeOK, [BusNext]_busVars PROVE BusTypeOK'
  OBVIOUS
<1>1. ASSUME NEW m \in Message, Publish(m) PROVE BusTypeOK'
  <2>1. queue' \in [Queue -> Seq(Delivery)]
    BY <1>1, RouteType DEF Publish, Fresh, Delivery
  <2> QED BY <1>1, <2>1 DEF BusTypeOK, Publish
<1>2. ASSUME NEW q \in Queue, Consumer(q) PROVE BusTypeOK'
  BY <1>2, BusTypeDeliver, BusTypeHandler, BusTypeSettling DEF Consumer
<1>3. ASSUME ConnectionLost PROVE BusTypeOK'
  <2>1. queue' \in [Queue -> Seq(Delivery)]
    BY <1>3, ConcatProperties DEF BusTypeOK, ConnectionLost
  <2>2. losses' \in Nat
    BY <1>3 DEF BusTypeOK, ConnectionLost
  <2>3. connected' \in BOOLEAN
    BY <1>3, Zenon DEF ConnectionLost
  <2> QED BY <1>3, <2>1, <2>2, <2>3, Zenon DEF BusTypeOK, ConnectionLost
<1>4. ASSUME Restart PROVE BusTypeOK'
  BY <1>4, EmptySeq DEF BusTypeOK, Restart, Phase
<1>5. ASSUME UNCHANGED busVars PROVE BusTypeOK'
  BY <1>5 DEF BusTypeOK, busVars
<1> QED BY <1>1, <1>2, <1>3, <1>4, <1>5 DEF BusNext

(* The variables keep their types, and a consumer holds a delivery exactly *)
(* while it is working on one.                                             *)
THEOREM BusTypeCorrect == BusSpec => []BusTypeOK
<1>1. BusInit => BusTypeOK BY BusTypeInit
<1>2. BusTypeOK /\ [BusNext]_busVars => BusTypeOK' BY BusTypeNext
<1> QED BY <1>1, <1>2, PTL DEF BusSpec

-----------------------------------------------------------------------------
(* Retries and dead letters *)

(* What is in flight for a queue, and the inductive invariant of retries:  *)
(* it was routed there, its retry count is a lower bound of the failures   *)
(* of its handler, and an error has been counted before it is acted on.    *)
Held(q) == Entries(queue[q]) \cup Entries(job[q])

Routed    == \A q \in Queue : \A d \in Held(q) : d.msg \in Binding[q]
Counted   == \A q \in Queue : \A d \in Held(q) : d.retry <= failures[q][d.msg]
Attempted == \A q \in Queue : phase[q] = "err" =>
               job[q][1].retry < failures[q][job[q][1].msg]

RetryInv == Routed /\ Counted /\ Attempted /\ DeadAfterRetries

LEMMA HeldDelivery ==
  ASSUME BusTypeOK, NEW q \in Queue, NEW d \in Held(q)
  PROVE  d \in Delivery /\ d.msg \in Message /\ d.retry \in Nat
         /\ failures[q][d.msg] \in Nat
<1>1. queue[q] \in Seq(Delivery) /\ job[q] \in Seq(Delivery)
  BY DEF BusTypeOK
<1>2. d \in Delivery
  BY <1>1, EntriesIn DEF Held
<1> QED BY <1>2 DEF Delivery, BusTypeOK

LEMMA JobHeld ==
  ASSUME BusTypeOK, NEW q \in Queue, phase[q] \notin {"idle", "stopped"}
  PROVE  /\ Entries(job[q]) = {job[q][1]}
         /\ job[q][1] \in Held(q)
         /\ job[q][1] \in Delivery
<1>1. job[q] = <<job[q][1]>> /\ job[q][1] \in Delivery
  BY OneJob
<1>2. Entries(job[q]) = {job[q][1]}
  BY <1>1, EntriesOne
<1> QED BY <1>1, <1>2 DEF Held

LEMMA RouteEntries ==
  ASSUME BusTypeOK, NEW d \in Delivery, NEW q \in Queue
  PROVE  Entries(Route(d)[q]) =
           Entries(queue[q]) \cup (IF d.msg \in Binding[q] THEN {d} ELSE {})
<1>1. queue[q] \in Seq(Delivery)
  BY DEF BusTypeOK
<1>2. Entries(Append(queue[q], d)) = Entries(queue[q]) \cup {d}
  BY <1>1, EntriesAppend
<1> QED BY <1>2 DEF Route

(* Steps that bring nothing new into flight keep the invariant.            *)
LEMMA RetryInvKept ==
  ASSUME BusTypeOK, BusTypeOK', RetryInv,
         \A q \in Queue : Held(q)' \subseteq Held(q),
         failures' = failures, dlq' = dlq,
         \A q \in Queue : phase'[q] = "err" => phase[q] = "err" /\ job'[q] = job[q]
  PROVE  RetryInv'
<1>1. Routed' /\ Counted'
  BY DEF RetryInv, Routed, Counted
<1>2. Attempted'
  BY DEF RetryInv, Attempted
<1>3. DeadAfterRetries'
  BY DEF RetryInv, DeadAfterRetries
<1> QED BY <1>1, <1>2, <1>3 DEF RetryInv

LEMMA RetryInvPublish ==
  ASSUME BusTypeOK, BusTypeOK', RetryInv, NEW m \in Message, Publish(m)
  PROVE  RetryInv'
<1>1. Fresh(m) \in Delivery /\ Fresh(m).msg = m /\ Fresh(m).retry = 0
  BY DEF Fresh, Delivery
<1>2. ASSUME NEW q \in Queue, NEW d \in Held(q)'
      PROVE  d \in Held(q) \/ (d = Fresh(m) /\ m \in Binding[q])
  BY <1>1, RouteEntries DEF Held, Publish
<1>3. Routed'
  BY <1>1, <1>2 DEF RetryInv, Routed
<1>4. Counted'
  <2> SUFFICES ASSUME NEW q \in Queue, NEW d \in Held(q)'
               PROVE  d.retry <= failures[q][d.msg]
    BY DEF Counted, Publish
  <2>1. CASE d \in Held(q)
    BY <2>1 DEF RetryInv, Counted
  <2>2. CASE d = Fresh(m)
    BY <1>1, <2>2 DEF BusTypeOK
  <2> QED BY <1>2, <2>1, <2>2
<1>5. Attempted' /\ DeadAfterRetries'
  BY DEF RetryInv, Attempted, DeadAfterRetries, Publish
<1> QED BY <1>3, <1>4, <1>5 DEF RetryInv

LEMMA RetryInvDeliver ==
  ASSUME BusTypeOK, BusTypeOK', RetryInv, NEW q \in Queue, Deliver(q)
  PROVE  RetryInv'
<1>1. queue[q] \in Seq(Delivery) /\ queue[q] # << >>
  BY DEF BusTypeOK, Deliver
<1>2. Entries(queue[q]) = {Head(queue[q])} \cup Entries(Tail(queue[q]))
  BY <1>1, EntriesHeadTail
<1>3. Entries(<<Head(queue[q])>>) = {Head(queue[q])}
  BY EntriesOne
<1>4. Held(q)' \subseteq Held(q)
  <2>1. queue'[q] = Tail(queue[q]) /\ job'[q] = <<Head(queue[q])>>
    BY DEF Deliver, BusTypeOK
  <2> QED BY <1>2, <1>3, <2>1 DEF Held
<1>5. ASSUME NEW r \in Queue, r # q PROVE Held(r)' \subseteq Held(r)
  BY <1>5 DEF Held, Deliver, BusTypeOK
<1>6. \A r \in Queue : phase'[r] = "err" => phase[r] = "err" /\ job'[r] = job[r]
  BY DEF Deliver, Goto, BusTypeOK
<1> QED BY <1>4, <1>5, <1>6, RetryInvKept DEF Deliver

LEMMA LetterFields ==
  ASSUME dlq \in [Queue -> SUBSET Letter], NEW r \in Queue, NEW l \in dlq[r]
  PROVE  l.origin \in Queue /\ l.msg \in Message
BY DEF Letter

LEMMA RetryInvHandlerErr ==
  ASSUME BusTypeOK, BusTypeOK', RetryInv, NEW q \in Queue, HandlerErr(q)
  PROVE  RetryInv'
<1> DEFINE j == job[q][1]
<1>1. j \in Held(q) /\ j.msg \in Message
  BY JobHeld, HeldDelivery DEF HandlerErr, Goto
<1>2. ASSUME NEW r \in Queue, NEW m \in Message
      PROVE  /\ failures[r][m] \in Nat
             /\ failures'[r][m] = IF r = q /\ m = j.msg THEN failures[r][m] + 1
                                                        ELSE failures[r][m]
  BY <1>1 DEF HandlerErr, BusTypeOK
<1>3. \A r \in Queue : Held(r)' = Held(r)
  BY DEF Held, HandlerErr
<1>4. Routed'
  BY <1>3 DEF RetryInv, Routed
<1>5. Counted'
  <2> SUFFICES ASSUME NEW r \in Queue, NEW d \in Held(r)
               PROVE  d.retry <= failures'[r][d.msg]
    BY <1>3 DEF Counted
  <2>1. d.retry <= failures[r][d.msg] /\ d.msg \in Message /\ d.retry \in Nat
    BY HeldDelivery DEF RetryInv, Counted
  <2> QED BY <1>2, <2>1
<1>6. Attempted'
  <2> SUFFICES ASSUME NEW r \in Queue, phase'[r] = "err"
               PROVE  job[r][1].retry < failures'[r][job[r][1].msg]
    BY DEF Attempted, HandlerErr
  <2>1. CASE r = q
    <3>1. j.retry <= failures[q][j.msg] /\ j.retry \in Nat
      BY <1>1, HeldDelivery DEF RetryInv, Counted
    <3> QED BY <1>1, <1>2, <2>1, <3>1
  <2>2. CASE r # q
    <3>1. phase[r] = "err"
      BY <2>2 DEF HandlerErr, Goto, BusTypeOK
    <3>2. job[r][1].msg \in Message /\ job[r][1].retry < failures[r][job[r][1].msg]
      BY <3>1, JobHeld, HeldDelivery DEF RetryInv, Attempted
    <3> QED BY <1>2, <2>2, <3>2
  <2> QED BY <2>1, <2>2
<1>7. DeadAfterRetries'
  <2> SUFFICES ASSUME NEW r \in Queue, NEW l \in dlq[r]
               PROVE  failures'[l.origin][l.msg] > MaxRetries
    BY DEF DeadAfterRetries, HandlerErr
  <2>1. l.origin \in Queue /\ l.msg \in Message
    BY LetterFields DEF BusTypeOK
  <2>2. failures[l.origin][l.msg] > MaxRetries
    BY DEF RetryInv, DeadAfterRetries
  <2> QED BY <1>2, <2>1, <2>2, BusAssumption
<1> QED BY <1>4, <1>5, <1>6, <1>7 DEF RetryInv

LEMMA RetryInvRetry ==
  ASSUME BusTypeOK, BusTypeOK', RetryInv, NEW q \in Queue, Retry(q)
  PROVE  RetryInv'
<1> DEFINE j == job[q][1]
           e == [j EXCEPT !.retry = @ + 1]
<1>1. j \in Held(q) /\ j \in Delivery /\ j.msg \in Message /\ j.retry \in Nat
  BY JobHeld, HeldDelivery DEF Retry, Goto
<1>2. e \in Delivery /\ e.msg = j.msg /\ e.retry = j.retry + 1
  BY <1>1 DEF Delivery
<1>3. j.msg \in Binding[q] /\ j.retry < failures[q][j.msg]
  BY <1>1 DEF RetryInv, Routed, Attempted, Retry, Goto
<1> HIDE DEF e
<1>4. queue' = Route(e)
  BY DEF Retry, e
<1>5. ASSUME NEW r \in Queue, NEW d \in Held(r)'
      PROVE  d \in Held(r) \/ (d = e /\ r = q)
  <2>1. e.msg \in Binding[r] => r = q
    BY <1>2, <1>3, BusAssumption
  <2> QED BY <1>2, <1>4, <2>1, RouteEntries DEF Held, Retry
<1>6. Routed'
  BY <1>2, <1>3, <1>5 DEF RetryInv, Routed
<1>7. Counted'
  <2> SUFFICES ASSUME NEW r \in Queue, NEW d \in Held(r)'
               PROVE  d.retry <= failures[r][d.msg]
    BY DEF Counted, Retry
  <2>1. CASE d \in Held(r)
    BY <2>1 DEF RetryInv, Counted
  <2>2. CASE d = e /\ r = q
    <3>1. failures[q][j.msg] \in Nat
      BY <1>1 DEF BusTypeOK
    <3> QED BY <1>1, <1>2, <1>3, <2>2, <3>1
  <2> QED BY <1>5, <2>1, <2>2
<1>8. Attempted' /\ DeadAfterRetries'
  <2>1. \A r \in Queue : phase'[r] = "err" => phase[r] = "err"
    BY DEF Retry, Goto, BusTypeOK
  <2> QED BY <2>1 DEF RetryInv, Attempted, DeadAfterRetries, Retry
<1> QED BY <1>6, <1>7, <1>8 DEF RetryInv

LEMMA RetryInvDeadLetter ==
  ASSUME BusTypeOK, BusTypeOK', RetryInv, NEW q \in Queue, DeadLetter(q)
  PROVE  RetryInv'
<1> DEFINE j == job[q][1]
<1>1. j \in Held(q) /\ j.msg \in Message /\ j.retry \in Nat
      /\ failures[q][j.msg] \in Nat
  BY JobHeld, HeldDelivery DEF DeadLetter, Goto
<1>2. j.retry < failures[q][j.msg] /\ j.retry >= MaxRetries
  BY DEF RetryInv, Attempted, DeadLetter, Goto
<1>3. failures[q][j.msg] > MaxRetries
  BY <1>1, <1>2, BusAssumption
<1>4. DeadAfterRetries'
  <2> SUFFICES ASSUME NEW r \in Queue, NEW l \in dlq'[r]
               PROVE  failures[l.origin][l.msg] > MaxRetries
    BY DEF DeadAfterRetries, DeadLetter
  <2>1. l \in dlq[r] \/ (l.origin = q /\ l.msg = j.msg)
    BY DEF DeadLetter
  <2> QED BY <1>3, <2>1 DEF RetryInv, DeadAfterRetries
<1>5. Routed' /\ Counted'
  BY DEF RetryInv, Routed, Counted, Held, DeadLetter
<1>6. Attempted'
  <2>1. \A r \in Queue : phase'[r] = "err" => phase[r] = "err"
    BY DEF DeadLetter, Goto, BusTypeOK
  <2> QED BY <2>1 DEF RetryInv, Attempted, DeadLetter
<1> QED BY <1>4, <1>5, <1>6 DEF RetryInv

(* The remaining steps of a consumer keep or drop its delivery.            *)
LEMMA RetryInvRest ==
  ASSUME BusTypeOK, BusTypeOK', RetryInv, NEW q \in Queue,
         HandlerOk(q) \/ PublishFails(q) \/ Ack(q) \/ Nack(q) \/ Stop(q)
  PROVE  RetryInv'
<1>1. ASSUME NEW r \in Queue PROVE Held(r)' \subseteq Held(r)
  <2>1. queue' = queue /\ (job'[r] = job[r] \/ job'[r] = << >>)
    BY DEF HandlerOk, PublishFails, Ack, Nack, Stop, BusTypeOK
  <2> QED BY <2>1, EntriesEmpty DEF Held
<1>2. \A r \in Queue : phase'[r] = "err" => phase[r] = "err" /\ job'[r] = job[r]
  BY DEF HandlerOk, PublishFails, Ack, Nack, Stop, Goto, BusTypeOK
<1>3. failures' = failures /\ dlq' = dlq
  BY DEF HandlerOk, PublishFails, Ack, Nack, Stop
<1> QED BY <1>1, <1>2, <1>3, RetryInvKept

LEMMA RetryInvConnection ==
  ASSUME BusTypeOK, BusTypeOK', RetryInv, ConnectionLost \/ Restart
  PROVE  RetryInv'
<1>1. CASE ConnectionLost
  <2>1. ASSUME NEW r \in Queue PROVE Held(r)' \subseteq Held(r)
    <3>1. queue[r] \in Seq(Delivery) /\ job[r] \in Seq(Delivery)
      BY DEF BusTypeOK
    <3>2. Entries(queue'[r]) = Entries(job[r]) \cup Entries(queue[r])
      BY <1>1, <3>1, EntriesConcat DEF ConnectionLost
    <3> QED BY <1>1, <3>2 DEF Held, ConnectionLost
  <2> QED BY <1>1, <2>1, RetryInvKept DEF ConnectionLost
<1>2. CASE Restart
  <2>1. ASSUME NEW r \in Queue PROVE Held(r)' \subseteq Held(r)
    BY <1>2, EntriesEmpty DEF Held, Restart
  <2> QED BY <1>2, <2>1, RetryInvKept DEF Restart
<1> QED BY <1>1, <1>2

LEMMA RetryInvInit == BusInit => RetryInv
BY EntriesEmpty DEF BusInit, RetryInv, Routed, Counted, Attempted,
                    DeadAfterRetries, Held

LEMMA RetryInvNext == BusTypeOK /\ RetryInv /\ [BusNext]_busVars => RetryInv'
<1> SUFFICES ASSUME BusTypeOK, RetryInv, [BusNext]_busVars PROVE RetryInv'
  OBVIOUS
<1>0. BusTypeOK'
  BY BusTypeNext
<1>1. ASSUME NEW m \in Message, Publish(m) PROVE RetryInv'
  BY <1>0, <1>1, RetryInvPublish
<1>2. ASSUME NEW q \in Queue, Consumer(q) PROVE RetryInv'
  BY <1>0, <1>2, RetryInvDeliver, RetryInvHandlerErr, RetryInvRetry,
     RetryInvDeadLetter, RetryInvRest DEF Consumer, Handler, Settling
<1>3. ASSUME ConnectionLost \/ Restart PROVE RetryInv'
  BY <1>0, <1>3, RetryInvConnection
<1>4. ASSUME UNCHANGED busVars PROVE RetryInv'
  BY <1>4 DEF busVars, RetryInv, Routed, Counted, Attempted, DeadAfterRetries, Held
<1> QED BY <1>1, <1>2, <1>3, <1>4 DEF BusNext

(* Nothing is in a dead letter queue before its handler failed on the      *)
(* first attempt and on every retry, for any retry limit and any number of *)
(* lost connections.                                                       *)
THEOREM DeadOnlyAfterRetries == BusSpec => []DeadAfterRetries
<1>1. BusInit => BusTypeOK /\ RetryInv
  BY BusTypeInit, RetryInvInit
<1>2. (BusTypeOK /\ RetryInv) /\ [BusNext]_busVars => (BusTypeOK /\ RetryInv)'
  BY BusTypeNext, RetryInvNext
<1>3. BusTypeOK /\ RetryInv => DeadAfterRetries
  BY DEF RetryInv
<1> QED BY <1>1, <1>2, <1>3, PTL DEF BusSpec

(* A queue and its consumer only ever have messages that are routed there. *)
THEOREM OnlyRouted == BusSpec => []Routed
<1>1. BusInit => BusTypeOK /\ RetryInv
  BY BusTypeInit, RetryInvInit
<1>2. (BusTypeOK /\ RetryInv) /\ [BusNext]_busVars => (BusTypeOK /\ RetryInv)'
  BY BusTypeNext, RetryInvNext
<1>3. BusTypeOK /\ RetryInv => Routed
  BY DEF RetryInv
<1> QED BY <1>1, <1>2, <1>3, PTL DEF BusSpec

-----------------------------------------------------------------------------
(* The ledger *)

(* What the phase of a consumer means for the delivery it holds: it only   *)
(* runs Nack or stops when the connection is down, it acknowledges only    *)
(* what is handled, dead or copied, and when the connection is down the    *)
(* broker has the message back.                                            *)
SettleInvOf(q) ==
  /\ phase[q] \in {"nack", "stopped"} => ~connected
  /\ phase[q] = "ok" => job[q][1].msg \in handled[q]
  /\ phase[q] = "copied" /\ connected => job[q][1].msg \in InQueue(q) \cup Dead(q)
  /\ phase[q] \notin {"idle", "stopped"} /\ ~connected => job[q][1].msg \in InQueue(q)

SettleInv == \A q \in Queue : SettleInvOf(q)

-----------------------------------------------------------------------------
(* What the broker has for a queue after each broker operation *)

LEMMA InHandIs ==
  ASSUME BusTypeOK, NEW q \in Queue
  PROVE  /\ phase[q] \in {"idle", "stopped"} => InHand(q) = {}
         /\ phase[q] \notin {"idle", "stopped"} => InHand(q) = {job[q][1].msg}
<1>1. CASE phase[q] \in {"idle", "stopped"}
  BY <1>1, EntriesEmpty DEF InHand, BusTypeOK
<1>2. CASE phase[q] \notin {"idle", "stopped"}
  BY <1>2, JobHeld DEF InHand
<1> QED BY <1>1, <1>2

LEMMA InQueueRoute ==
  ASSUME BusTypeOK, NEW d \in Delivery, queue' = Route(d), NEW q \in Queue
  PROVE  InQueue(q)' = InQueue(q) \cup (IF d.msg \in Binding[q] THEN {d.msg} ELSE {})
BY RouteEntries DEF InQueue

LEMMA InQueueDeliver ==
  ASSUME BusTypeOK, NEW q \in Queue, Deliver(q)
  PROVE  /\ InQueue(q) = {Head(queue[q]).msg} \cup InQueue(q)'
         /\ InHand(q)' = {Head(queue[q]).msg}
         /\ job'[q][1] = Head(queue[q])
         /\ \A r \in Queue \ {q} : queue'[r] = queue[r] /\ job'[r] = job[r]
                                   /\ phase'[r] = phase[r]
<1>1. queue[q] \in Seq(Delivery) /\ queue[q] # << >>
  BY DEF BusTypeOK, Deliver
<1>2. Entries(queue[q]) = {Head(queue[q])} \cup Entries(Tail(queue[q]))
  BY <1>1, EntriesHeadTail
<1>3. Entries(<<Head(queue[q])>>) = {Head(queue[q])}
  BY EntriesOne
<1>4. queue'[q] = Tail(queue[q]) /\ job'[q] = <<Head(queue[q])>>
  BY DEF Deliver, BusTypeOK
<1>5. InQueue(q) = {Head(queue[q]).msg} \cup InQueue(q)'
  BY <1>2, <1>4 DEF InQueue
<1>6. InHand(q)' = {Head(queue[q]).msg}
  BY <1>3, <1>4 DEF InHand
<1>7. job'[q][1] = Head(queue[q])
  BY <1>4
<1>8. \A r \in Queue \ {q} : queue'[r] = queue[r] /\ job'[r] = job[r]
                             /\ phase'[r] = phase[r]
  BY DEF Deliver, Goto, BusTypeOK
<1> QED BY <1>5, <1>6, <1>7, <1>8

LEMMA InQueueLost ==
  ASSUME BusTypeOK, ConnectionLost, NEW q \in Queue
  PROVE  InQueue(q)' = InQueue(q) \cup InHand(q)
<1>1. queue[q] \in Seq(Delivery) /\ job[q] \in Seq(Delivery)
  BY DEF BusTypeOK
<1>2. Entries(queue'[q]) = Entries(job[q]) \cup Entries(queue[q])
  BY <1>1, EntriesConcat DEF ConnectionLost
<1> QED BY <1>2 DEF InQueue, InHand

-----------------------------------------------------------------------------
(* The invariant *)

(* A step that leaves a consumer alone and only adds to what its queue     *)
(* owes and has settled keeps the invariant of that consumer.              *)
LEMMA SettleKept ==
  ASSUME NEW q \in Queue, SettleInvOf(q),
         phase'[q] = phase[q], job'[q] = job[q], connected' = connected,
         InQueue(q) \subseteq InQueue(q)', Dead(q) \subseteq Dead(q)',
         handled[q] \subseteq handled'[q]
  PROVE  SettleInvOf(q)'
BY Zenon DEF SettleInvOf

LEMMA SettlePublish ==
  ASSUME BusTypeOK, SettleInv, NEW m \in Message, Publish(m)
  PROVE  SettleInv'
<1> SUFFICES ASSUME NEW q \in Queue PROVE SettleInvOf(q)'
  BY DEF SettleInv
<1>1. Fresh(m) \in Delivery
  BY DEF Fresh, Delivery
<1>2. InQueue(q) \subseteq InQueue(q)'
  BY <1>1, InQueueRoute DEF Publish
<1>3. Dead(q)' = Dead(q)
  BY DEF Dead, Publish
<1>4. SettleInvOf(q)
  BY DEF SettleInv
<1> QED BY <1>2, <1>3, <1>4, SettleKept DEF Publish

LEMMA SettleConsumer ==
  ASSUME BusTypeOK, BusTypeOK', RetryInv, SettleInv, NEW q \in Queue, Consumer(q)
  PROVE  SettleInv'
<1>1. ASSUME NEW r \in Queue, r # q PROVE SettleInvOf(r)'
  <2>1. /\ phase'[r] = phase[r] /\ job'[r] = job[r] /\ connected' = connected
        /\ handled'[r] = handled[r]
    BY <1>1, SMTT(40) DEF Consumer, Handler, Settling, Deliver, HandlerOk, HandlerErr, Retry,
       DeadLetter, PublishFails, Ack, Nack, Stop, Goto, BusTypeOK
  <2>2. InQueue(r) \subseteq InQueue(r)'
    <3>1. CASE Retry(q)
      <4>1. job[q][1] \in Delivery
        BY <3>1, JobHeld DEF Retry, Goto
      <4>2. [job[q][1] EXCEPT !.retry = @ + 1] \in Delivery
        BY <4>1 DEF Delivery
      <4> QED BY <3>1, <4>2, InQueueRoute DEF Retry
    <3>2. CASE ~Retry(q)
      <4>1. queue'[r] = queue[r]
        BY <1>1, <3>2 DEF Consumer, Handler, Settling, Deliver, HandlerOk, HandlerErr,
           DeadLetter, PublishFails, Ack, Nack, Stop, BusTypeOK
      <4> QED BY <4>1 DEF InQueue
    <3> QED BY <3>1, <3>2
  <2>3. dlq[r] \subseteq dlq'[r]
    BY DEF Consumer, Handler, Settling, Deliver, HandlerOk, HandlerErr, Retry,
       DeadLetter, PublishFails, Ack, Nack, Stop
  <2>4. Dead(r) \subseteq Dead(r)'
    BY <2>3 DEF Dead
  <2>5. SettleInvOf(r)
    BY DEF SettleInv
  <2> QED BY <2>1, <2>2, <2>4, <2>5, SettleKept
<1>2. SettleInvOf(q)'
  <2>0. SettleInvOf(q) /\ (connected' = connected)
    BY DEF SettleInv, Consumer, Handler, Settling, Deliver, HandlerOk, HandlerErr,
       Retry, DeadLetter, PublishFails, Ack, Nack, Stop
  <2>1. CASE Deliver(q)
    BY <2>0, <2>1 DEF SettleInvOf, Deliver, Goto, BusTypeOK
  <2>2. CASE HandlerOk(q)
    <3>1. phase'[q] = "ok" /\ job' = job /\ job[q][1].msg \in handled'[q]
          /\ phase[q] = "handling"
      BY <2>2 DEF HandlerOk, Goto, BusTypeOK
    <3>2. InQueue(q)' = InQueue(q)
      BY <2>2 DEF HandlerOk, InQueue
    <3> QED BY <2>0, <3>1, <3>2 DEF SettleInvOf
  <2>3. CASE HandlerErr(q)
    <3>1. phase'[q] = "err" /\ job' = job /\ phase[q] = "handling"
      BY <2>3 DEF HandlerErr, Goto, BusTypeOK
    <3>2. InQueue(q)' = InQueue(q)
      BY <2>3 DEF HandlerErr, InQueue
    <3> QED BY <2>0, <3>1, <3>2 DEF SettleInvOf
  <2>4. CASE Retry(q)
    <3> DEFINE e == [job[q][1] EXCEPT !.retry = @ + 1]
    <3>1. job[q][1] \in Delivery /\ job[q][1] \in Held(q)
      BY <2>4, JobHeld DEF Retry, Goto
    <3>2. e \in Delivery /\ e.msg = job[q][1].msg
      BY <3>1 DEF Delivery
    <3>3. job[q][1].msg \in Binding[q]
      BY <3>1 DEF RetryInv, Routed
    <3>4. queue' = Route(e)
      BY <2>4 DEF Retry
    <3> HIDE DEF e
    <3>5. job[q][1].msg \in InQueue(q)'
      BY <3>2, <3>3, <3>4, InQueueRoute
    <3>6. phase'[q] = "copied" /\ job' = job /\ connected
      BY <2>4 DEF Retry, Goto, BusTypeOK
    <3> QED BY <2>0, <3>5, <3>6 DEF SettleInvOf
  <2>5. CASE DeadLetter(q)
    <3>1. [origin |-> q, msg |-> job[q][1].msg] \in dlq'[q]
      BY <2>5 DEF DeadLetter
    <3>2. job[q][1].msg \in Dead(q)'
      BY <3>1 DEF Dead
    <3>3. phase'[q] = "copied" /\ job' = job /\ connected
      BY <2>5 DEF DeadLetter, Goto, BusTypeOK
    <3> QED BY <2>0, <3>2, <3>3 DEF SettleInvOf
  <2>6. CASE PublishFails(q)
    <3>1. phase'[q] = "nack" /\ job' = job /\ phase[q] = "err" /\ ~connected
      BY <2>6 DEF PublishFails, Goto, BusTypeOK
    <3>2. InQueue(q)' = InQueue(q)
      BY <2>6 DEF PublishFails, InQueue
    <3> QED BY <2>0, <3>1, <3>2 DEF SettleInvOf
  <2>7. CASE Ack(q) \/ Nack(q)
    <3>1. phase'[q] = "idle"
      BY <2>7 DEF Ack, Nack, Goto, BusTypeOK
    <3> QED BY <3>1 DEF SettleInvOf
  <2>8. CASE Stop(q)
    <3>1. phase'[q] = "stopped" /\ ~connected
      BY <2>8 DEF Stop, Goto, BusTypeOK
    <3> QED BY <2>0, <3>1 DEF SettleInvOf
  <2> QED BY <2>1, <2>2, <2>3, <2>4, <2>5, <2>6, <2>7, <2>8
          DEF Consumer, Handler, Settling
<1> QED BY <1>1, <1>2 DEF SettleInv

LEMMA SettleConnection ==
  ASSUME BusTypeOK, SettleInv, ConnectionLost \/ Restart
  PROVE  SettleInv'
<1> SUFFICES ASSUME NEW q \in Queue PROVE SettleInvOf(q)'
  BY DEF SettleInv
<1>1. CASE ConnectionLost
  <2>1. phase[q] \notin {"idle", "stopped"} => job[q][1].msg \in InQueue(q)'
    BY <1>1, InQueueLost, InHandIs
  <2>2. SettleInvOf(q) /\ phase' = phase /\ job' = job /\ handled' = handled
    BY <1>1 DEF SettleInv, ConnectionLost
  <2>3. ~connected'
    BY <1>1 DEF ConnectionLost
  <2> QED BY <2>1, <2>2, <2>3 DEF SettleInvOf
<1>2. CASE Restart
  <2>1. phase'[q] = "idle"
    BY <1>2 DEF Restart
  <2> QED BY <2>1 DEF SettleInvOf
<1> QED BY <1>1, <1>2

LEMMA SettleInit == BusInit => SettleInv
BY DEF BusInit, SettleInv, SettleInvOf

LedgerInv == BusTypeOK /\ RetryInv /\ SettleInv

LEMMA LedgerInvNext == LedgerInv /\ [BusNext]_busVars => LedgerInv'
<1> SUFFICES ASSUME LedgerInv, [BusNext]_busVars PROVE LedgerInv'
  OBVIOUS
<1> USE DEF LedgerInv
<1>0. BusTypeOK' /\ RetryInv'
  BY BusTypeNext, RetryInvNext
<1>1. ASSUME NEW m \in Message, Publish(m) PROVE SettleInv'
  BY <1>1, SettlePublish
<1>2. ASSUME NEW q \in Queue, Consumer(q) PROVE SettleInv'
  BY <1>0, <1>2, SettleConsumer
<1>3. ASSUME ConnectionLost \/ Restart PROVE SettleInv'
  BY <1>3, SettleConnection
<1>4. ASSUME UNCHANGED busVars PROVE SettleInv'
  BY <1>4 DEF busVars, SettleInv, SettleInvOf, InQueue, Dead
<1> QED BY <1>0, <1>1, <1>2, <1>3, <1>4 DEF BusNext

-----------------------------------------------------------------------------
(* Every step of the bus is a step of the ledger *)

LedgerStep == Ledger!LedgerNext \/ (Owed' = Owed /\ Settled' = Settled)

LEMMA OwedIs ==
  ASSUME NEW q \in Queue
  PROVE  /\ Owed[q] = InQueue(q) \cup (IF connected THEN InHand(q) ELSE {})
         /\ Settled[q] = handled[q] \cup Dead(q)
BY DEF Owed, Settled

LEMMA SameLedger ==
  ASSUME \A q \in Queue : Owed'[q] = Owed[q] /\ Settled'[q] = Settled[q]
  PROVE  LedgerStep
<1>1. Owed' = Owed
  BY DEF Owed
<1>2. Settled' = Settled
  BY DEF Settled
<1> QED BY <1>1, <1>2 DEF LedgerStep

LEMMA AcceptStep ==
  ASSUME NEW q \in Queue, NEW m \in Binding[q], m \in Message,
         Owed'[q] = Owed[q] \cup {m}, Settled' = Settled,
         \A r \in Queue \ {q} : Owed'[r] = Owed[r]
  PROVE  LedgerStep
<1>1. Owed' = [Owed EXCEPT ![q] = @ \cup {m}]
  BY DEF Owed
<1>2. Ledger!Accept(q, m)
  BY <1>1 DEF Ledger!Accept
<1> QED BY <1>2 DEF LedgerStep, Ledger!LedgerNext

LEMMA SettleStep ==
  ASSUME NEW q \in Queue, NEW m \in Message, m \in Owed[q], Owed' = Owed,
         Settled'[q] = Settled[q] \cup {m},
         \A r \in Queue \ {q} : Settled'[r] = Settled[r]
  PROVE  LedgerStep
<1>1. Settled' = [Settled EXCEPT ![q] = @ \cup {m}]
  BY DEF Settled
<1>2. Ledger!Settle(q, m)
  BY <1>1 DEF Ledger!Settle
<1> QED BY <1>2 DEF LedgerStep, Ledger!LedgerNext

LEMMA ForgetStep ==
  ASSUME NEW q \in Queue, NEW m \in Message, m \in Owed[q], m \in Settled[q],
         Owed'[q] = Owed[q] \ {m}, Settled' = Settled,
         \A r \in Queue \ {q} : Owed'[r] = Owed[r]
  PROVE  LedgerStep
<1>1. Owed' = [Owed EXCEPT ![q] = @ \ {m}]
  BY DEF Owed
<1>2. Ledger!Forget(q, m)
  BY <1>1 DEF Ledger!Forget
<1> QED BY <1>2 DEF LedgerStep, Ledger!LedgerNext

LEMMA LedgerPublish ==
  ASSUME LedgerInv, NEW m \in Message, Publish(m)
  PROVE  LedgerStep
<1>1. Fresh(m) \in Delivery /\ Fresh(m).msg = m
  BY DEF Fresh, Delivery
<1>2. ASSUME NEW q \in Queue
      PROVE  InQueue(q)' = InQueue(q) \cup (IF m \in Binding[q] THEN {m} ELSE {})
  BY <1>1, InQueueRoute DEF Publish, LedgerInv
<1>3. ASSUME NEW q \in Queue
      PROVE  Owed'[q] = Owed[q] \cup (IF m \in Binding[q] THEN {m} ELSE {})
  BY <1>2 DEF Owed, InHand, Publish
<1>4. Settled' = Settled
  BY DEF Settled, Dead, Publish
<1>5. CASE \E q \in Queue : m \in Binding[q]
  <2>1. PICK q \in Queue : m \in Binding[q]
    BY <1>5
  <2>2. \A r \in Queue \ {q} : m \notin Binding[r]
    BY <2>1, BusAssumption
  <2> QED BY <1>3, <1>4, <2>1, <2>2, AcceptStep
<1>6. CASE \A q \in Queue : m \notin Binding[q]
  BY <1>3, <1>4, <1>6, SameLedger
<1> QED BY <1>5, <1>6

(* Delivering, failing, copying and giving back leave the ledger alone.    *)
LEMMA LedgerQuiet ==
  ASSUME LedgerInv, NEW q \in Queue,
         Deliver(q) \/ HandlerErr(q) \/ Retry(q) \/ PublishFails(q) \/ Nack(q) \/ Stop(q)
  PROVE  LedgerStep
<1> USE DEF LedgerInv
<1>1. Settled' = Settled
  BY DEF Settled, Dead, Deliver, HandlerErr, Retry, PublishFails, Nack, Stop
<1>2. ASSUME NEW r \in Queue PROVE Owed'[r] = Owed[r]
  <2>1. CASE Deliver(q)
    <3>1. connected /\ connected'
      BY <2>1 DEF Deliver
    <3>2. CASE r = q
      <4>1. InHand(q) = {}
        BY <2>1, InHandIs DEF Deliver, Goto
      <4> QED BY <2>1, <3>1, <3>2, <4>1, InQueueDeliver DEF Owed
    <3>3. CASE r # q
      <4>1. queue'[r] = queue[r] /\ job'[r] = job[r]
        BY <2>1, <3>3, InQueueDeliver
      <4>2. InQueue(r)' = InQueue(r) /\ InHand(r)' = InHand(r)
        BY <4>1 DEF InQueue, InHand
      <4> QED BY <3>1, <4>2 DEF Owed
    <3> QED BY <3>2, <3>3
  <2>2. CASE HandlerErr(q) \/ PublishFails(q) \/ Stop(q)
    BY <2>2 DEF Owed, InQueue, InHand, HandlerErr, PublishFails, Stop
  <2>3. CASE Retry(q)
    <3> DEFINE e == [job[q][1] EXCEPT !.retry = @ + 1]
    <3>1. job[q][1] \in Delivery /\ job[q][1] \in Held(q) /\ InHand(q) = {job[q][1].msg}
      BY <2>3, JobHeld, InHandIs DEF Retry, Goto
    <3>2. e \in Delivery /\ e.msg = job[q][1].msg
      BY <3>1 DEF Delivery
    <3>3. job[q][1].msg \in Binding[q]
      BY <3>1 DEF RetryInv, Routed
    <3>4. queue' = Route(e) /\ connected /\ connected' = connected /\ job' = job
      BY <2>3 DEF Retry
    <3> HIDE DEF e
    <3>5. InQueue(r)' = InQueue(r) \cup (IF e.msg \in Binding[r] THEN {e.msg} ELSE {})
      BY <3>2, <3>4, InQueueRoute
    <3>6. e.msg \in Binding[r] => r = q
      BY <3>2, <3>3, BusAssumption
    <3>7. InHand(r)' = InHand(r)
      BY <3>4 DEF InHand
    <3> QED BY <3>1, <3>2, <3>4, <3>5, <3>6, <3>7 DEF Owed
  <2>4. CASE Nack(q)
    <3>1. ~connected /\ ~connected'
      BY <2>4 DEF Nack, Goto, SettleInv, SettleInvOf
    <3>2. InQueue(r)' = InQueue(r)
      BY <2>4 DEF Nack, InQueue
    <3> QED BY <3>1, <3>2 DEF Owed
  <2> QED BY <2>1, <2>2, <2>3, <2>4
<1> QED BY <1>1, <1>2, SameLedger

LEMMA LedgerHandlerOk ==
  ASSUME LedgerInv, NEW q \in Queue, HandlerOk(q)
  PROVE  LedgerStep
<1> USE DEF LedgerInv
<1>1. job[q][1].msg \in Message /\ InHand(q) = {job[q][1].msg}
  BY JobHeld, HeldDelivery, InHandIs DEF HandlerOk, Goto
<1>2. ~connected => job[q][1].msg \in InQueue(q)
  BY DEF SettleInv, SettleInvOf, HandlerOk, Goto
<1>3. job[q][1].msg \in Owed[q]
  BY <1>1, <1>2 DEF Owed
<1>4. Owed' = Owed
  BY DEF Owed, InQueue, InHand, HandlerOk
<1>5. \A r \in Queue : Dead(r)' = Dead(r)
  BY DEF Dead, HandlerOk
<1>6. Settled'[q] = Settled[q] \cup {job[q][1].msg}
  BY <1>5 DEF Settled, HandlerOk, BusTypeOK
<1>7. \A r \in Queue \ {q} : Settled'[r] = Settled[r]
  BY <1>5 DEF Settled, HandlerOk, BusTypeOK
<1> QED BY <1>1, <1>3, <1>4, <1>6, <1>7, SettleStep

LEMMA LedgerDeadLetter ==
  ASSUME LedgerInv, NEW q \in Queue, DeadLetter(q)
  PROVE  LedgerStep
<1> USE DEF LedgerInv
<1> DEFINE l == [origin |-> q, msg |-> job[q][1].msg]
<1>1. job[q][1].msg \in Message /\ InHand(q) = {job[q][1].msg}
  BY JobHeld, HeldDelivery, InHandIs DEF DeadLetter, Goto
<1>2. job[q][1].msg \in Owed[q]
  BY <1>1 DEF Owed, DeadLetter
<1>3. Owed' = Owed
  BY DEF Owed, InQueue, InHand, DeadLetter
<1>4. l.origin = q /\ l.msg = job[q][1].msg
  OBVIOUS
<1>5. \A r \in Queue : dlq'[r] = dlq[r] \cup {l}
  BY DEF DeadLetter
<1> HIDE DEF l
<1>6. Dead(q)' = Dead(q) \cup {job[q][1].msg}
  BY <1>4, <1>5 DEF Dead
<1>7. ASSUME NEW r \in Queue \ {q} PROVE Dead(r)' = Dead(r)
  BY <1>4, <1>5 DEF Dead
<1>8. handled' = handled
  BY DEF DeadLetter
<1>9. /\ Settled'[q] = Settled[q] \cup {job[q][1].msg}
      /\ \A r \in Queue \ {q} : Settled'[r] = Settled[r]
  BY <1>6, <1>7, <1>8 DEF Settled
<1> QED BY <1>1, <1>2, <1>3, <1>9, SettleStep

LEMMA LedgerAck ==
  ASSUME LedgerInv, NEW q \in Queue, Ack(q)
  PROVE  LedgerStep
<1> USE DEF LedgerInv
<1> DEFINE m == job[q][1].msg
<1>1. m \in Message /\ InHand(q) = {m}
  BY JobHeld, HeldDelivery, InHandIs DEF Ack, Goto
<1>2. \A r \in Queue : InQueue(r)' = InQueue(r)
  BY DEF InQueue, Ack
<1>3. InHand(q)' = {}
  BY EntriesEmpty DEF InHand, Ack, BusTypeOK
<1>4. ASSUME NEW r \in Queue \ {q} PROVE InHand(r)' = InHand(r)
  BY DEF InHand, Ack, BusTypeOK
<1>5. Settled' = Settled /\ connected' = connected
  BY DEF Settled, Dead, Ack
<1>6. \A r \in Queue \ {q} : Owed'[r] = Owed[r]
  BY <1>2, <1>4, <1>5 DEF Owed
<1>7. CASE connected /\ m \notin InQueue(q)
  <2>1. Owed[q] = InQueue(q) \cup {m} /\ Owed'[q] = InQueue(q)
    BY <1>1, <1>2, <1>3, <1>5, <1>7 DEF Owed
  <2>2. m \in Settled[q]
    BY <1>7 DEF Ack, Goto, SettleInv, SettleInvOf, Settled
  <2> QED BY <1>1, <1>5, <1>6, <1>7, <2>1, <2>2, ForgetStep
<1>8. CASE ~(connected /\ m \notin InQueue(q))
  <2>1. Owed'[q] = Owed[q]
    BY <1>1, <1>2, <1>3, <1>5, <1>8 DEF Owed
  <2> QED BY <1>5, <1>6, <2>1, SameLedger
<1> QED BY <1>7, <1>8

LEMMA LedgerConnection ==
  ASSUME LedgerInv, ConnectionLost \/ Restart
  PROVE  LedgerStep
<1> USE DEF LedgerInv
<1>1. Settled' = Settled
  BY DEF Settled, Dead, ConnectionLost, Restart
<1>2. ASSUME NEW r \in Queue PROVE Owed'[r] = Owed[r]
  <2>1. CASE ConnectionLost
    BY <2>1, InQueueLost DEF Owed, ConnectionLost
  <2>2. CASE Restart
    <3>1. InHand(r)' = {} /\ InQueue(r)' = InQueue(r)
      BY <2>2, EntriesEmpty DEF InHand, InQueue, Restart
    <3> QED BY <2>2, <3>1 DEF Owed, Restart
  <2> QED BY <2>1, <2>2
<1> QED BY <1>1, <1>2, SameLedger

LEMMA BusStepIsLedgerStep == LedgerInv /\ [BusNext]_busVars => LedgerStep
<1> SUFFICES ASSUME LedgerInv, [BusNext]_busVars PROVE LedgerStep
  OBVIOUS
<1>1. ASSUME NEW m \in Message, Publish(m) PROVE LedgerStep
  BY <1>1, LedgerPublish
<1>2. ASSUME NEW q \in Queue, Consumer(q) PROVE LedgerStep
  BY <1>2, LedgerQuiet, LedgerHandlerOk, LedgerDeadLetter, LedgerAck
     DEF Consumer, Handler, Settling
<1>3. ASSUME ConnectionLost \/ Restart PROVE LedgerStep
  BY <1>3, LedgerConnection
<1>4. ASSUME UNCHANGED busVars PROVE LedgerStep
  BY <1>4 DEF busVars, LedgerStep, Owed, Settled, InQueue, InHand, Dead
<1> QED BY <1>1, <1>2, <1>3, <1>4 DEF BusNext

(* The invariant of the ledger holds, for whoever composes the bus.        *)
LEMMA LedgerInvariant == BusSpec => []LedgerInv
<1>1. BusInit => LedgerInv
  BY BusTypeInit, RetryInvInit, SettleInit DEF LedgerInv
<1>2. LedgerInv /\ [BusNext]_busVars => LedgerInv'
  BY LedgerInvNext
<1> QED BY <1>1, <1>2, PTL DEF BusSpec

(* The bus implements the ledger: no accepted message is lost before it    *)
(* has been handled or is in the dead letter queue.                        *)
THEOREM BusImplementsLedger == BusSpec => LedgerSpec
<1>1. BusInit => Ledger!LedgerInit
  <2> SUFFICES ASSUME BusInit PROVE Ledger!LedgerInit
    OBVIOUS
  <2>1. \A q \in Queue : InQueue(q) = {} /\ InHand(q) = {} /\ Dead(q) = {}
    BY EntriesEmpty DEF BusInit, InQueue, InHand, Dead
  <2>2. Owed = [q \in Queue |-> {}]
    BY <2>1 DEF Owed
  <2>3. Settled = [q \in Queue |-> {}]
    BY <2>1 DEF Settled, BusInit
  <2> QED BY <2>2, <2>3 DEF Ledger!LedgerInit
<1>2. LedgerInv /\ [BusNext]_busVars => [Ledger!LedgerNext]_(Ledger!ledgerVars)
  BY BusStepIsLedgerStep DEF LedgerStep, Ledger!ledgerVars
<1> QED BY <1>1, <1>2, LedgerInvariant, PTL
        DEF BusSpec, LedgerSpec, Ledger!LedgerSpec

=============================================================================
