--------------------------- MODULE MmsClient_proofs ---------------------------
(***************************************************************************)
(* Proofs about the client's end of an association, for any number of      *)
(* requests and reports, any number of invokeIDs and any room for reports: *)
(* the table of requests that wait is exact at every step, so that an      *)
(* answer goes to the request it is for; and no report is lost on the way  *)
(* to an application that reads them.                                      *)
(***************************************************************************)
EXTENDS MmsClient, SequenceTheorems, TLAPS

RequestPhases == {"waiting", "answered", "closed", "failed", "timeout"}
Request == [id : Nat, phase : RequestPhases, of : Nat]
Message == [kind : {"answer"}, id : Nat, of : Nat] \cup [kind : {"report"}, of : Nat]

ClientTyped ==
  /\ nextInvoke \in Nat
  /\ asked \in Seq(Request)
  /\ wireOut \in Seq(Nat)
  /\ wireIn \in Seq(Message)
  /\ reader \in {"running", "sending", "ended"}
  /\ reports \in Seq(Nat) /\ Len(reports) <= ReportSlots
  /\ receiver \in {"unread", "read", "dropped"}
  /\ reported \in Nat
  /\ seen \in Seq(Nat)

(* What is in `pending' waits, under its own id ...                        *)
PendingWait ==
  \A id \in DOMAIN pending :
    /\ pending[id] \in RequestNumbers
    /\ asked[pending[id]].id = id
    /\ Waiting(pending[id])

(* ... and what waits is in `pending'.                                     *)
WaitersPend ==
  \A n \in RequestNumbers : Waiting(n) =>
    asked[n].id \in DOMAIN pending /\ pending[asked[n].id] = n

(* An answer carries the id of the request that it answers.                *)
AnswersAreLabelled ==
  /\ \A k \in DOMAIN wireOut : wireOut[k] \in RequestNumbers
  /\ \A k \in DOMAIN wireIn : wireIn[k].kind = "answer" =>
       wireIn[k].of \in RequestNumbers /\ wireIn[k].id = asked[wireIn[k].of].id

(* A request was answered under its id.                                    *)
AnsweredUnderItsId ==
  \A n \in RequestNumbers : asked[n].phase = "answered" =>
    asked[n].of \in RequestNumbers /\ asked[asked[n].of].id = asked[n].id

(* The reader waits with a report before it.                               *)
ReaderHoldsReport ==
  reader = "sending" => wireIn # <<>> /\ wireIn[1].kind = "report"

ClientIInv ==
  /\ ClientTyped
  /\ PendingWait
  /\ WaitersPend
  /\ AnswersAreLabelled
  /\ AnsweredUnderItsId
  /\ ReaderHoldsReport

-----------------------------------------------------------------------------
USE ClientAssumption

(* Waking requests changes the phase of those that wait, and nothing else. *)
LEMMA WakeChangesPhases ==
  ASSUME asked \in Seq(Request), NEW ns, NEW phase \in RequestPhases
  PROVE  /\ Wake(ns, phase) \in Seq(Request)
         /\ Len(Wake(ns, phase)) = Len(asked)
         /\ \A k \in 1..Len(asked) :
              /\ Wake(ns, phase)[k] \in Request
              /\ Wake(ns, phase)[k].id = asked[k].id
              /\ Wake(ns, phase)[k].of = asked[k].of
              /\ k \in ns /\ asked[k].phase = "waiting" => Wake(ns, phase)[k].phase = phase
              /\ ~(k \in ns /\ asked[k].phase = "waiting") =>
                   Wake(ns, phase)[k].phase = asked[k].phase
<1> DEFINE w == Wake(ns, phase)
<1>1. w = [k \in 1..Len(asked) |->
             IF k \in ns /\ asked[k].phase = "waiting" THEN [asked[k] EXCEPT !.phase = phase]
                                                       ELSE asked[k]]
  BY DEF Wake, RequestNumbers, Waiting
<1>2. \A k \in 1..Len(asked) : asked[k] \in Request
  OBVIOUS
<1>3. \A k \in 1..Len(asked) : w[k] \in Request
  BY <1>1, <1>2 DEF Request
<1>4. w \in Seq(Request) /\ Len(w) = Len(asked)
  <2> HIDE DEF w
  <2>1. Len(asked) \in Nat
    OBVIOUS
  <2>2. w \in [1..Len(asked) -> Request]
    BY <1>1, <1>3
  <2> QED BY <2>1, <2>2
<1>5. ASSUME NEW k \in 1..Len(asked)
      PROVE  /\ w[k].id = asked[k].id
             /\ w[k].of = asked[k].of
             /\ k \in ns /\ asked[k].phase = "waiting" => w[k].phase = phase
             /\ ~(k \in ns /\ asked[k].phase = "waiting") => w[k].phase = asked[k].phase
  BY <1>1, <1>2, <1>5 DEF Request
<1> QED BY <1>3, <1>4, <1>5

LEMMA ClientInitIInv == ClientInit => ClientIInv
  BY DEF ClientInit, ClientIInv, ClientTyped, PendingWait, WaitersPend, AnswersAreLabelled,
         AnsweredUnderItsId, ReaderHoldsReport, RequestNumbers

(* What was sent stays labelled while the requests keep their ids.         *)
LEMMA LabelsAreKept ==
  ASSUME ClientTyped, AnswersAreLabelled, UNCHANGED wireIn,
         asked' \in Seq(Request), Len(asked) <= Len(asked'),
         \A k \in 1..Len(asked) : asked'[k].id = asked[k].id,
         \A k \in DOMAIN wireOut' : wireOut'[k] \in 1..Len(asked')
  PROVE  AnswersAreLabelled'
<1>1. Len(asked) \in Nat /\ DOMAIN asked = 1..Len(asked)
  BY DEF ClientTyped
<1>2. Len(asked') \in Nat /\ DOMAIN asked' = 1..Len(asked')
  OBVIOUS
<1>3. ASSUME NEW k \in DOMAIN wireIn', wireIn'[k].kind = "answer"
      PROVE  wireIn'[k].of \in 1..Len(asked') /\ wireIn'[k].id = asked'[wireIn'[k].of].id
  <2>1. wireIn[k].of \in 1..Len(asked) /\ wireIn[k].id = asked[wireIn[k].of].id
    BY <1>1, <1>3 DEF AnswersAreLabelled, RequestNumbers
  <2>2. asked'[wireIn[k].of].id = asked[wireIn[k].of].id
    BY <2>1
  <2>3. wireIn[k].of \in 1..Len(asked')
    BY <1>1, <1>2, <2>1
  <2> QED BY <2>1, <2>2, <2>3
<1> QED BY <1>2, <1>3 DEF AnswersAreLabelled, RequestNumbers

(* The same of the requests that were answered.                            *)
LEMMA AnsweredStaysUnderItsId ==
  ASSUME ClientTyped, AnsweredUnderItsId,
         asked' \in Seq(Request), Len(asked) <= Len(asked'),
         \A k \in 1..Len(asked) :
           /\ asked'[k].id = asked[k].id
           /\ asked'[k].phase = "answered" =>
                asked[k].phase = "answered" /\ asked'[k].of = asked[k].of,
         \A k \in Len(asked) + 1 .. Len(asked') : asked'[k].phase # "answered"
  PROVE  AnsweredUnderItsId'
<1>1. Len(asked) \in Nat /\ DOMAIN asked = 1..Len(asked)
  BY DEF ClientTyped
<1>2. Len(asked') \in Nat /\ DOMAIN asked' = 1..Len(asked')
  OBVIOUS
<1>3. ASSUME NEW n \in 1..Len(asked'), asked'[n].phase = "answered"
      PROVE  asked'[n].of \in 1..Len(asked') /\ asked'[asked'[n].of].id = asked'[n].id
  <2>1. n \in 1..Len(asked)
    BY <1>1, <1>2, <1>3
  <2>2. asked[n].phase = "answered" /\ asked'[n].of = asked[n].of
    BY <1>3, <2>1
  <2>3. asked[n].of \in 1..Len(asked) /\ asked[asked[n].of].id = asked[n].id
    BY <1>1, <2>1, <2>2 DEF AnsweredUnderItsId, RequestNumbers
  <2> QED BY <1>1, <1>2, <2>1, <2>2, <2>3
<1> QED BY <1>2, <1>3 DEF AnsweredUnderItsId, RequestNumbers

-----------------------------------------------------------------------------
(* One request stops waiting and its id leaves `pending': TimeOut and       *)
(* ReadAnswer.                                                             *)
LEMMA WokenAreOver ==
  ASSUME ClientIInv, NEW n \in RequestNumbers, Waiting(n), NEW a \in Seq(Request),
         Len(a) = Len(asked),
         \A k \in 1..Len(asked) :
           /\ a[k].id = asked[k].id
           /\ k # n => a[k].phase = asked[k].phase
           /\ a[n].phase # "waiting",
         asked' = a, pending' = Without(pending, asked[n].id)
  PROVE  PendingWait' /\ WaitersPend'
<1>1. Len(asked) \in Nat /\ DOMAIN asked = 1..Len(asked) /\ DOMAIN asked' = 1..Len(asked)
  BY DEF ClientIInv, ClientTyped
<1>2. n \in 1..Len(asked) /\ asked[n].phase = "waiting"
  BY <1>1 DEF RequestNumbers, Waiting
<1>3. asked[n].id \in DOMAIN pending /\ pending[asked[n].id] = n
  BY <1>2 DEF ClientIInv, WaitersPend, RequestNumbers, Waiting
<1>4. /\ DOMAIN pending' = DOMAIN pending \ {asked[n].id}
      /\ \A id \in DOMAIN pending' : pending'[id] = pending[id]
  BY DEF Without
<1>5. ASSUME NEW id \in DOMAIN pending'
      PROVE  /\ pending'[id] \in 1..Len(asked)
             /\ asked'[pending'[id]].id = id
             /\ asked'[pending'[id]].phase = "waiting"
  <2>1. /\ pending[id] \in 1..Len(asked)
        /\ asked[pending[id]].id = id
        /\ asked[pending[id]].phase = "waiting"
        /\ id # asked[n].id
    BY <1>1, <1>4 DEF ClientIInv, PendingWait, RequestNumbers, Waiting
  <2>2. pending[id] # n
    BY <2>1
  <2> QED BY <1>4, <2>1, <2>2
<1>6. ASSUME NEW k \in 1..Len(asked), asked'[k].phase = "waiting"
      PROVE  asked'[k].id \in DOMAIN pending' /\ pending'[asked'[k].id] = k
  <2>1. k # n /\ asked[k].phase = "waiting"
    BY <1>2, <1>6
  <2>2. asked[k].id \in DOMAIN pending /\ pending[asked[k].id] = k
    BY <1>1, <2>1 DEF ClientIInv, WaitersPend, RequestNumbers, Waiting
  <2>3. asked[k].id # asked[n].id
    BY <1>3, <2>1, <2>2
  <2> QED BY <1>4, <2>2, <2>3
<1> QED BY <1>1, <1>5, <1>6 DEF PendingWait, WaitersPend, RequestNumbers, Waiting

LEMMA TimeOutKeepsIInv ==
  ASSUME ClientIInv, NEW n \in RequestNumbers, TimeOut(n)
  PROVE  ClientIInv'
<1> DEFINE a == Wake({n}, "timeout")
<1> USE DEF ClientIInv
<1>1. /\ asked \in Seq(Request) /\ Len(asked) \in Nat
      /\ DOMAIN asked = 1..Len(asked) /\ n \in 1..Len(asked)
      /\ asked[n].phase = "waiting" /\ Waiting(n)
  BY DEF ClientTyped, RequestNumbers, TimeOut, Waiting
<1>2. /\ a \in Seq(Request) /\ Len(a) = Len(asked)
      /\ \A k \in 1..Len(asked) :
           /\ a[k].id = asked[k].id /\ a[k].of = asked[k].of
           /\ k \in {n} /\ asked[k].phase = "waiting" => a[k].phase = "timeout"
           /\ ~(k \in {n} /\ asked[k].phase = "waiting") => a[k].phase = asked[k].phase
  <2> HIDE DEF a, ClientIInv
  <2>1. "timeout" \in RequestPhases
    BY DEF RequestPhases
  <2> QED BY <1>1, <2>1, WakeChangesPhases DEF a
<1>3. asked' = a /\ pending' = Without(pending, asked[n].id)
  BY DEF TimeOut
<1> HIDE DEF a
<1>4. ClientTyped'
  BY <1>2, <1>3 DEF ClientTyped, TimeOut
<1>5. PendingWait' /\ WaitersPend'
  <2>1. \A k \in 1..Len(asked) :
           /\ a[k].id = asked[k].id
           /\ k # n => a[k].phase = asked[k].phase
           /\ a[n].phase # "waiting"
    BY <1>1, <1>2
  <2> QED BY <1>1, <1>2, <1>3, <2>1, WokenAreOver
<1>6. AnswersAreLabelled'
  <2>1. \A k \in DOMAIN wireOut' : wireOut'[k] \in 1..Len(asked')
    BY <1>1, <1>2, <1>3 DEF AnswersAreLabelled, RequestNumbers, TimeOut
  <2>2. UNCHANGED wireIn
    BY DEF TimeOut
  <2> QED BY <1>1, <1>2, <1>3, <2>1, <2>2, LabelsAreKept
<1>7. AnsweredUnderItsId'
  <2>1. \A k \in 1..Len(asked) :
           /\ asked'[k].id = asked[k].id
           /\ asked'[k].phase = "answered" =>
                asked[k].phase = "answered" /\ asked'[k].of = asked[k].of
    BY <1>1, <1>2, <1>3
  <2>2. \A k \in Len(asked) + 1 .. Len(asked') : asked'[k].phase # "answered"
    BY <1>1, <1>2, <1>3
  <2> QED BY <1>1, <1>2, <1>3, <2>1, <2>2, AnsweredStaysUnderItsId
<1>8. ReaderHoldsReport'
  BY DEF ReaderHoldsReport, TimeOut
<1> QED BY <1>4, <1>5, <1>6, <1>7, <1>8

(* request: the request that had the id, if any, stops waiting, and the new *)
(* one takes its place in `pending' or fails.                              *)
LEMMA AskKeepsIInv == ASSUME ClientIInv, Ask PROVE ClientIInv'
<1> DEFINE n == Len(asked) + 1
           displaced == IF NextId \in DOMAIN pending THEN {pending[NextId]} ELSE {}
           a == Wake(displaced, "closed")
           Fresh(phase) == [id |-> NextId, phase |-> phase, of |-> 0]
           Accepted ==
             /\ asked' = Append(a, Fresh("waiting"))
             /\ pending' = [k \in DOMAIN pending \cup {NextId} |->
                              IF k = NextId THEN n ELSE pending[k]]
             /\ wireOut' = IF link THEN Append(wireOut, n) ELSE wireOut
           Failed ==
             /\ asked' = Append(a, Fresh("failed"))
             /\ pending' = Without(pending, NextId)
             /\ wireOut' = wireOut
<1> USE DEF ClientIInv
<1>1. /\ asked \in Seq(Request) /\ Len(asked) \in Nat
      /\ DOMAIN asked = 1..Len(asked) /\ n \in Nat /\ NextId \in Nat
  BY DEF ClientTyped, NextId
<1>2. /\ a \in Seq(Request) /\ Len(a) = Len(asked)
      /\ \A k \in 1..Len(asked) :
           /\ a[k].id = asked[k].id /\ a[k].of = asked[k].of
           /\ k \in displaced /\ asked[k].phase = "waiting" => a[k].phase = "closed"
           /\ ~(k \in displaced /\ asked[k].phase = "waiting") => a[k].phase = asked[k].phase
  <2> HIDE DEF a, ClientIInv, displaced
  <2>1. "closed" \in RequestPhases
    BY DEF RequestPhases
  <2> QED BY <1>1, <2>1, WakeChangesPhases DEF a
<1>3. /\ nextInvoke' = (nextInvoke + 1) % IdSpace
      /\ UNCHANGED <<wireIn, reader, reports, receiver, reported, seen>>
      /\ Accepted \/ Failed
  BY DEF Ask
<1>4. \A k \in 1..Len(asked) : a[k].phase = "waiting" <=>
        asked[k].phase = "waiting" /\ asked[k].id # NextId
  <2> SUFFICES ASSUME NEW k \in 1..Len(asked)
               PROVE  a[k].phase = "waiting" <=>
                        asked[k].phase = "waiting" /\ asked[k].id # NextId
    OBVIOUS
  <2>1. asked[k].phase = "waiting" =>
          asked[k].id \in DOMAIN pending /\ pending[asked[k].id] = k
    BY <1>1 DEF WaitersPend, RequestNumbers, Waiting
  <2>2. NextId \in DOMAIN pending => asked[pending[NextId]].id = NextId
    BY DEF PendingWait
  <2>3. asked[k].phase = "waiting" => (k \in displaced <=> asked[k].id = NextId)
    BY <2>1, <2>2
  <2> HIDE DEF a, displaced
  <2> QED BY <1>2, <2>3
<1>5. \A phase \in {"waiting", "failed"} :
        /\ Fresh(phase) \in Request
        /\ Fresh(phase).id = NextId /\ Fresh(phase).phase = phase
  BY <1>1 DEF Request, RequestPhases
<1>6. PICK new \in Request :
        /\ asked' = Append(a, new)
        /\ new.id = NextId
        /\ new.phase # "answered"
        /\ new.phase = "waiting" => Accepted
        /\ new.phase # "waiting" => Failed
  <2>1. CASE Accepted
    <3> HIDE DEF a, displaced
    <3>1. asked' = Append(a, Fresh("waiting"))
      BY <2>1
    <3> HIDE DEF Accepted, Failed
    <3> QED BY <1>5, <2>1, <3>1
  <2>2. CASE Failed
    <3> HIDE DEF a, displaced
    <3>1. asked' = Append(a, Fresh("failed"))
      BY <2>2
    <3> HIDE DEF Accepted, Failed
    <3> QED BY <1>5, <2>2, <3>1
  <2> QED BY <1>3, <2>1, <2>2
<1> HIDE DEF a, displaced, Fresh, Accepted, Failed
<1>7. /\ asked' \in Seq(Request) /\ Len(asked') = n /\ DOMAIN asked' = 1..n
      /\ asked'[n] = new
      /\ \A k \in 1..Len(asked) : asked'[k] = a[k]
  <2> QED BY <1>1, <1>2, <1>6
<1>8. /\ wireOut' \in Seq(Nat)
      /\ \A k \in DOMAIN wireOut' : wireOut'[k] \in 1..Len(asked')
  <2>1. wireOut \in Seq(Nat) /\ \A k \in DOMAIN wireOut : wireOut[k] \in 1..Len(asked)
    BY <1>1 DEF ClientTyped, AnswersAreLabelled, RequestNumbers
  <2>2. \A i \in 1..Len(asked) : i \in 1..n
    BY <1>1
  <2>3. \A k \in DOMAIN wireOut : wireOut[k] \in 1..n
    BY <2>1, <2>2
  <2>4. wireOut' = wireOut \/ wireOut' = Append(wireOut, n)
    BY <1>3 DEF Accepted, Failed
  <2>5. n \in 1..n
    BY <1>1
  <2> HIDE DEF n
  <2>6. CASE wireOut' = wireOut
    BY <1>7, <2>1, <2>3, <2>6
  <2>7. CASE wireOut' = Append(wireOut, n)
    BY <1>1, <1>7, <2>1, <2>3, <2>5, <2>7
  <2> QED BY <2>4, <2>6, <2>7
<1>9. ClientTyped'
  <2>1. nextInvoke' \in Nat
    BY <1>3 DEF ClientTyped
  <2> QED BY <1>3, <1>7, <1>8, <2>1 DEF ClientTyped
<1>10. PendingWait' /\ WaitersPend'
  <2>1. ASSUME NEW k \in 1..Len(asked)
        PROVE  /\ asked'[k].id = asked[k].id
               /\ asked'[k].phase = "waiting" <=> asked[k].phase = "waiting" /\ asked[k].id # NextId
    BY <1>2, <1>4, <1>7
  <2>2. \A id \in DOMAIN pending : /\ pending[id] \in 1..Len(asked)
                                   /\ asked[pending[id]].id = id
                                   /\ asked[pending[id]].phase = "waiting"
    BY <1>1 DEF PendingWait, RequestNumbers, Waiting
  <2>3. \A k \in 1..Len(asked) : asked[k].phase = "waiting" =>
          asked[k].id \in DOMAIN pending /\ pending[asked[k].id] = k
    BY <1>1 DEF WaitersPend, RequestNumbers, Waiting
  <2>4. /\ \A id \in DOMAIN pending' : id # NextId => id \in DOMAIN pending /\ pending'[id] = pending[id]
        /\ \A id \in DOMAIN pending : id # NextId => id \in DOMAIN pending' /\ pending'[id] = pending[id]
        /\ NextId \in DOMAIN pending' <=> new.phase = "waiting"
        /\ new.phase = "waiting" => pending'[NextId] = n
    <3>1. CASE new.phase = "waiting"
      <4>1. pending' = [k \in DOMAIN pending \cup {NextId} |-> IF k = NextId THEN n ELSE pending[k]]
        BY <1>6, <3>1 DEF Accepted
      <4> HIDE DEF n
      <4> QED BY <3>1, <4>1
    <3>2. CASE new.phase # "waiting"
      <4>1. pending' = [k \in DOMAIN pending \ {NextId} |-> pending[k]]
        BY <1>6, <3>2 DEF Failed, Without
      <4> HIDE DEF n
      <4> QED BY <3>2, <4>1
    <3> QED BY <3>1, <3>2
  <2>8. \A k \in 1..n : k \in 1..Len(asked) \/ k = n
    BY <1>1
  <2>9. \A i \in 1..Len(asked) : i \in 1..n
    BY <1>1
  <2>10. n \in 1..n
    BY <1>1
  <2>5. asked'[n] = new /\ new.id = NextId
    BY <1>6, <1>7
  <2> HIDE DEF n
  <2>11. ASSUME NEW id \in DOMAIN pending'
         PROVE  /\ pending'[id] \in 1..n
                /\ asked'[pending'[id]].id = id
                /\ asked'[pending'[id]].phase = "waiting"
    <3>1. CASE id = NextId
      BY <2>4, <2>5, <2>10, <3>1
    <3>2. CASE id # NextId
      BY <2>1, <2>2, <2>4, <2>9, <3>2
    <3> QED BY <3>1, <3>2
  <2>12. ASSUME NEW k \in 1..n, asked'[k].phase = "waiting"
         PROVE  asked'[k].id \in DOMAIN pending' /\ pending'[asked'[k].id] = k
    <3>1. CASE k = n
      BY <2>4, <2>5, <2>12, <3>1
    <3>2. CASE k \in 1..Len(asked)
      <4>1. asked'[k].id = asked[k].id /\ asked[k].phase = "waiting" /\ asked[k].id # NextId
        BY <2>1, <2>12, <3>2
      <4> QED BY <2>3, <2>4, <3>2, <4>1
    <3> QED BY <2>8, <3>1, <3>2
  <2> QED BY <1>7, <2>11, <2>12 DEF PendingWait, WaitersPend, RequestNumbers, Waiting
<1>11. \A k \in 1..Len(asked) :
          /\ asked'[k].id = asked[k].id
          /\ asked'[k].phase = "answered" => asked[k].phase = "answered" /\ asked'[k].of = asked[k].of
  <2> QED BY <1>2, <1>7
<1>12. Len(asked) <= Len(asked')
  BY <1>1, <1>7
<1>13. AnswersAreLabelled'
  BY <1>3, <1>7, <1>8, <1>11, <1>12, LabelsAreKept
<1>14. AnsweredUnderItsId'
  <2>1. \A k \in Len(asked) + 1 .. Len(asked') : asked'[k].phase # "answered"
    <3>1. \A k \in Len(asked) + 1 .. n : k = n
      BY <1>1
    <3>2. asked'[n].phase # "answered"
      BY <1>6, <1>7
    <3> HIDE DEF n
    <3> QED BY <1>7, <3>1, <3>2
  <2> QED BY <1>7, <1>11, <1>12, <2>1, AnsweredStaysUnderItsId
<1>15. ReaderHoldsReport'
  BY <1>3 DEF ReaderHoldsReport
<1> QED BY <1>9, <1>10, <1>13, <1>14, <1>15

(* reader_loop: the request in `pending' under the id of the answer.       *)
LEMMA ReadAnswerKeepsIInv == ASSUME ClientIInv, ReadAnswer PROVE ClientIInv'
<1> USE DEF ClientIInv
<1>1. /\ asked \in Seq(Request) /\ Len(asked) \in Nat /\ DOMAIN asked = 1..Len(asked)
      /\ wireIn \in Seq(Message) /\ wireIn # <<>>
      /\ wireIn' = Tail(wireIn)
      /\ UNCHANGED <<link, nextInvoke, wireOut, reader, reports, receiver, reported, seen>>
  BY DEF ClientTyped, ReadAnswer
<1>2. PICK m \in Message : m = wireIn[1] /\ m.kind = "answer"
  BY <1>1 DEF ReadAnswer
<1>3. m.of \in 1..Len(asked) /\ m.id = asked[m.of].id /\ m.of \in Nat
  BY <1>1, <1>2 DEF AnswersAreLabelled, RequestNumbers
<1>4. /\ wireIn' \in Seq(Message)
      /\ \A k \in DOMAIN wireIn' : wireIn'[k] = wireIn[k + 1] /\ k + 1 \in DOMAIN wireIn
  BY <1>1
<1>5. /\ reader = "running" /\ reader' = "running"
      /\ \/ UNCHANGED <<asked, pending>>
         \/ \E n \in Addressee(m) :
              /\ asked' = [asked EXCEPT ![n].phase = "answered", ![n].of = m.of]
              /\ pending' = Without(pending, asked[n].id)
  <2>1. Head(wireIn) = m
    BY <1>1, <1>2
  <2> QED BY <2>1 DEF ReadAnswer
<1>6. CASE UNCHANGED <<asked, pending>>
  <2>1. ClientTyped' /\ PendingWait' /\ WaitersPend' /\ AnsweredUnderItsId' /\ ReaderHoldsReport'
    BY <1>1, <1>4, <1>5, <1>6
       DEF ClientTyped, PendingWait, WaitersPend, AnsweredUnderItsId, ReaderHoldsReport,
           RequestNumbers, Waiting
  <2>2. AnswersAreLabelled'
    BY <1>1, <1>4, <1>6 DEF AnswersAreLabelled, RequestNumbers
  <2> QED BY <2>1, <2>2
<1>7. ASSUME NEW n \in Addressee(m),
             asked' = [asked EXCEPT ![n].phase = "answered", ![n].of = m.of],
             pending' = Without(pending, asked[n].id)
      PROVE  ClientIInv'
  <2>1. n \in 1..Len(asked) /\ asked[n].id = m.id /\ asked[n].phase = "waiting"
    BY <1>1 DEF Addressee, PendingWait, RequestNumbers, Waiting
  <2>2. PICK r \in Request : /\ r.id = asked[n].id /\ r.phase = "answered" /\ r.of = m.of
                             /\ asked' = [asked EXCEPT ![n] = r]
    <3> DEFINE r0 == [asked[n] EXCEPT !.phase = "answered", !.of = m.of]
    <3>1. asked[n] \in Request
      BY <1>1, <2>1
    <3>2. r0 \in Request /\ r0.id = asked[n].id /\ r0.phase = "answered" /\ r0.of = m.of
      BY <1>3, <3>1 DEF Request, RequestPhases
    <3>3. asked' = [asked EXCEPT ![n] = r0]
      BY <1>1, <1>7, <2>1
    <3> HIDE DEF r0
    <3> QED BY <3>2, <3>3
  <2>3. /\ asked' \in Seq(Request) /\ Len(asked') = Len(asked) /\ asked'[n] = r
        /\ \A k \in 1..Len(asked) : k # n => asked'[k] = asked[k]
    BY <1>1, <2>1, <2>2
  <2>4. \A k \in 1..Len(asked) :
          /\ asked'[k].id = asked[k].id
          /\ k # n => asked'[k].phase = asked[k].phase
          /\ asked'[n].phase # "waiting"
    BY <2>2, <2>3
  <2>5. PendingWait' /\ WaitersPend'
    <3>1. n \in RequestNumbers /\ Waiting(n)
      BY <1>1, <2>1 DEF RequestNumbers, Waiting
    <3> HIDE DEF ClientIInv
    <3> QED BY <1>7, <2>3, <2>4, <3>1, WokenAreOver
  <2>6. ClientTyped'
    BY <1>1, <1>4, <1>5, <2>3 DEF ClientTyped
  <2>7. AnswersAreLabelled'
    <3>1. \A k \in DOMAIN wireOut' : wireOut'[k] \in DOMAIN asked'
      BY <1>1, <2>3 DEF AnswersAreLabelled, RequestNumbers
    <3>2. ASSUME NEW k \in DOMAIN wireIn', wireIn'[k].kind = "answer"
          PROVE  wireIn'[k].of \in DOMAIN asked' /\ wireIn'[k].id = asked'[wireIn'[k].of].id
      <4>1. PICK w : w = wireIn[k + 1] /\ wireIn'[k] = w
        BY <1>4
      <4>2. w.kind = "answer" /\ w.of \in 1..Len(asked) /\ w.id = asked[w.of].id
        BY <1>1, <1>4, <3>2, <4>1 DEF AnswersAreLabelled, RequestNumbers
      <4> QED BY <2>3, <2>4, <4>1, <4>2
    <3> QED BY <3>1, <3>2 DEF AnswersAreLabelled, RequestNumbers
  <2>8. AnsweredUnderItsId'
    <3>1. ASSUME NEW k \in 1..Len(asked), asked'[k].phase = "answered"
          PROVE  asked'[k].of \in 1..Len(asked) /\ asked'[asked'[k].of].id = asked'[k].id
      <4>1. CASE k = n
        BY <1>3, <2>1, <2>2, <2>3, <2>4, <4>1
      <4>2. CASE k # n
        <5>1. asked[k].of \in 1..Len(asked) /\ asked[asked[k].of].id = asked[k].id
          BY <1>1, <2>3, <3>1, <4>2 DEF AnsweredUnderItsId, RequestNumbers
        <5> QED BY <2>3, <2>4, <4>2, <5>1
      <4> QED BY <4>1, <4>2
    <3> QED BY <2>3, <3>1 DEF AnsweredUnderItsId, RequestNumbers
  <2>9. ReaderHoldsReport'
    BY <1>5 DEF ReaderHoldsReport
  <2> QED BY <2>5, <2>6, <2>7, <2>8, <2>9
<1> QED BY <1>5, <1>6, <1>7

(* The end of the stream wakes everything that waits.                      *)
LEMMA ReaderEndsKeepsIInv == ASSUME ClientIInv, ReaderEnds PROVE ClientIInv'
<1> DEFINE ns == {pending[k] : k \in DOMAIN pending}
           a == Wake(ns, "closed")
<1> USE DEF ClientIInv
<1>1. /\ asked \in Seq(Request) /\ Len(asked) \in Nat /\ DOMAIN asked = 1..Len(asked)
      /\ asked' = a /\ pending' = <<>> /\ reader' = "ended"
      /\ UNCHANGED <<link, nextInvoke, wireOut, wireIn, reports, receiver, reported, seen>>
  BY DEF ClientTyped, ReaderEnds, Drained
<1>2. /\ a \in Seq(Request) /\ Len(a) = Len(asked)
      /\ \A k \in 1..Len(asked) :
           /\ a[k].id = asked[k].id /\ a[k].of = asked[k].of
           /\ k \in ns /\ asked[k].phase = "waiting" => a[k].phase = "closed"
           /\ ~(k \in ns /\ asked[k].phase = "waiting") => a[k].phase = asked[k].phase
  <2> HIDE DEF a, ClientIInv, ns
  <2>1. "closed" \in RequestPhases
    BY DEF RequestPhases
  <2> QED BY <1>1, <2>1, WakeChangesPhases DEF a
<1>3. \A k \in 1..Len(asked) : asked[k].phase = "waiting" => k \in ns
  BY <1>1 DEF WaitersPend, RequestNumbers, Waiting
<1> HIDE DEF a, ns
<1>4. \A k \in 1..Len(asked) :
        /\ asked'[k].id = asked[k].id
        /\ asked'[k].phase # "waiting"
        /\ asked'[k].phase = "answered" => asked[k].phase = "answered" /\ asked'[k].of = asked[k].of
  BY <1>1, <1>2, <1>3
<1>5. ClientTyped' /\ ReaderHoldsReport'
  BY <1>1, <1>2 DEF ClientTyped, ReaderHoldsReport
<1>6. PendingWait' /\ WaitersPend'
  BY <1>1, <1>2, <1>4 DEF PendingWait, WaitersPend, RequestNumbers, Waiting
<1>7. AnswersAreLabelled'
  <2>1. \A k \in DOMAIN wireOut' : wireOut'[k] \in 1..Len(asked')
    BY <1>1, <1>2 DEF AnswersAreLabelled, RequestNumbers
  <2> QED BY <1>1, <1>2, <1>4, <2>1, LabelsAreKept
<1>8. AnsweredUnderItsId'
  <2>1. \A k \in Len(asked) + 1 .. Len(asked') : asked'[k].phase # "answered"
    BY <1>1, <1>2
  <2> QED BY <1>1, <1>2, <1>4, <2>1, AnsweredStaysUnderItsId
<1> QED BY <1>5, <1>6, <1>7, <1>8

(* The steps that leave the requests alone.                                *)
LEMMA TableIsKept ==
  ASSUME ClientIInv, UNCHANGED <<asked, pending>>
  PROVE  PendingWait' /\ WaitersPend' /\ AnsweredUnderItsId'
  BY DEF ClientIInv, PendingWait, WaitersPend, AnsweredUnderItsId, RequestNumbers, Waiting

(* The server's steps, the loss of the link and the steps of the reader     *)
(* that are about reports.                                                 *)
LEMMA WireStepKeepsIInv ==
  ASSUME ClientIInv,
         ServerAnswers \/ ServerReports \/ LinkLost \/ ReadReport \/ PassReport
  PROVE  ClientIInv'
<1> USE DEF ClientIInv
<1>1. /\ asked \in Seq(Request) /\ Len(asked) \in Nat /\ DOMAIN asked = 1..Len(asked)
      /\ wireOut \in Seq(Nat) /\ wireIn \in Seq(Message)
      /\ reported \in Nat
      /\ UNCHANGED <<nextInvoke, asked, pending, seen, receiver>>
  BY DEF ClientTyped, ServerAnswers, ServerReports, LinkLost, ReadReport, PassReport
<1>2. PendingWait' /\ WaitersPend' /\ AnsweredUnderItsId'
  <2> HIDE DEF ClientIInv
  <2> QED BY <1>1, TableIsKept
<1>3. /\ \A k \in DOMAIN wireOut : wireOut[k] \in 1..Len(asked)
      /\ \A k \in DOMAIN wireIn : wireIn[k].kind = "answer" =>
           wireIn[k].of \in 1..Len(asked) /\ wireIn[k].id = asked[wireIn[k].of].id
  BY <1>1 DEF AnswersAreLabelled, RequestNumbers
<1>4. CASE ServerAnswers
  <2>1. PICK n : n = wireOut[1]
    OBVIOUS
  <2>2. n \in 1..Len(asked) /\ n \in Nat /\ asked[n] \in Request
    BY <1>1, <1>3, <1>4, <2>1 DEF ServerAnswers
  <2>3. PICK m \in Message : m.kind = "answer" /\ m.of = n /\ m.id = asked[n].id
                             /\ wireIn' = Append(wireIn, m)
    <3>1. AnswerTo(n) \in Message /\ AnswerTo(n).kind = "answer" /\ AnswerTo(n).of = n
          /\ AnswerTo(n).id = asked[n].id
      BY <2>2 DEF AnswerTo, Message, Request
    <3>2. wireIn' = Append(wireIn, AnswerTo(n))
      BY <1>1, <1>4, <2>1 DEF ServerAnswers
    <3> QED BY <3>1, <3>2
  <2>4. /\ wireOut' \in Seq(Nat) /\ wireIn' \in Seq(Message)
        /\ \A k \in DOMAIN wireOut' : wireOut'[k] \in 1..Len(asked)
    BY <1>1, <1>3, <1>4, <2>3 DEF ServerAnswers
  <2>5. \A k \in DOMAIN wireIn' : wireIn'[k].kind = "answer" =>
          wireIn'[k].of \in 1..Len(asked) /\ wireIn'[k].id = asked[wireIn'[k].of].id
    BY <1>1, <1>3, <2>2, <2>3
  <2>6. AnswersAreLabelled'
    BY <1>1, <2>4, <2>5 DEF AnswersAreLabelled, RequestNumbers
  <2>7. ClientTyped'
    BY <1>1, <1>4, <2>4 DEF ClientTyped, ServerAnswers
  <2>8. ReaderHoldsReport'
    BY <1>1, <1>4, <2>3 DEF ReaderHoldsReport, ServerAnswers
  <2> QED BY <1>2, <2>6, <2>7, <2>8
<1>5. CASE ServerReports
  <2>1. PICK m \in Message : m.kind = "report" /\ wireIn' = Append(wireIn, m)
    <3>1. ReportPdu(reported + 1) \in Message /\ ReportPdu(reported + 1).kind = "report"
      BY <1>1 DEF ReportPdu, Message
    <3> QED BY <1>5, <3>1 DEF ServerReports
  <2>2. wireIn' \in Seq(Message) /\ \A k \in DOMAIN wireIn' : wireIn'[k].kind = "answer" =>
          wireIn'[k].of \in 1..Len(asked) /\ wireIn'[k].id = asked[wireIn'[k].of].id
    BY <1>1, <1>3, <2>1
  <2>3. AnswersAreLabelled'
    BY <1>1, <1>3, <1>5, <2>2 DEF AnswersAreLabelled, RequestNumbers, ServerReports
  <2>4. ClientTyped'
    BY <1>1, <1>5, <2>2 DEF ClientTyped, ServerReports
  <2>5. ReaderHoldsReport'
    BY <1>1, <1>5, <2>1 DEF ReaderHoldsReport, ServerReports
  <2> QED BY <1>2, <2>3, <2>4, <2>5
<1>6. CASE LinkLost
  <2>1. PICK k \in (IF reader = "sending" THEN 1 ELSE 0)..Len(wireIn) : wireIn' = SubSeq(wireIn, 1, k)
    BY <1>6 DEF LinkLost
  <2>2. k \in 0..Len(wireIn) /\ (reader = "sending" => k \in 1..Len(wireIn))
    BY <1>1, <2>1
  <2>3. /\ wireIn' \in Seq(Message) /\ Len(wireIn') = k
        /\ \A j \in 1..k : wireIn'[j] = wireIn[j] /\ j \in DOMAIN wireIn
    BY <1>1, <2>1, <2>2
  <2>4. wireOut' = <<>> /\ UNCHANGED <<reader, reports, reported>>
    BY <1>6 DEF LinkLost
  <2>5. AnswersAreLabelled'
    BY <1>1, <1>3, <2>2, <2>3, <2>4 DEF AnswersAreLabelled, RequestNumbers
  <2>6. ClientTyped'
    BY <1>1, <2>3, <2>4 DEF ClientTyped
  <2>7. ReaderHoldsReport'
    BY <1>1, <2>2, <2>3, <2>4 DEF ReaderHoldsReport
  <2> QED BY <1>2, <2>5, <2>6, <2>7
<1>7. CASE ReadReport
  <2>1. wireIn # <<>> /\ wireIn[1].kind = "report" /\ reader' = "sending"
        /\ UNCHANGED <<wireOut, wireIn, reports, reported>>
    BY <1>1, <1>7 DEF ReadReport
  <2> QED BY <1>1, <1>2, <1>3, <2>1
          DEF ClientTyped, AnswersAreLabelled, ReaderHoldsReport, RequestNumbers
<1>8. CASE PassReport
  <2>1. /\ wireIn # <<>> /\ wireIn[1] \in Message /\ wireIn[1].kind = "report"
        /\ wireIn' = Tail(wireIn) /\ reader' = "running" /\ HasRoom
        /\ reports' = Queued(wireIn[1].of)
        /\ UNCHANGED <<wireOut, reported>>
    BY <1>1, <1>8 DEF PassReport, ReaderHoldsReport
  <2>2. wireIn[1].of \in Nat
    BY <2>1 DEF Message
  <2>3. reports' \in Seq(Nat) /\ Len(reports') <= ReportSlots
    BY <2>1, <2>2 DEF ClientTyped, Queued, HasRoom
  <2>4. /\ wireIn' \in Seq(Message)
        /\ \A k \in DOMAIN wireIn' : wireIn'[k] = wireIn[k + 1] /\ k + 1 \in DOMAIN wireIn
    BY <1>1, <2>1
  <2>5. AnswersAreLabelled'
    BY <1>1, <1>3, <2>1, <2>4 DEF AnswersAreLabelled, RequestNumbers
  <2>6. ClientTyped'
    BY <1>1, <2>1, <2>3, <2>4 DEF ClientTyped
  <2>7. ReaderHoldsReport'
    BY <2>1 DEF ReaderHoldsReport
  <2> QED BY <1>2, <2>5, <2>6, <2>7
<1> QED BY <1>4, <1>5, <1>6, <1>7, <1>8

(* The application's steps.                                                *)
LEMMA ReceiverStepKeepsIInv ==
  ASSUME ClientIInv, UseReceiver \/ TakeReport \/ UNCHANGED clientVars
  PROVE  ClientIInv'
<1>1. UNCHANGED <<link, nextInvoke, pending, asked, wireOut, wireIn, reader, reported>>
  BY DEF UseReceiver, TakeReport, clientVars
<1>2. PendingWait' /\ WaitersPend' /\ AnsweredUnderItsId'
  BY <1>1, TableIsKept
<1>3. AnswersAreLabelled' /\ ReaderHoldsReport'
  BY <1>1 DEF ClientIInv, AnswersAreLabelled, ReaderHoldsReport, RequestNumbers
<1>4. /\ reports' \in Seq(Nat) /\ Len(reports') <= ReportSlots /\ seen' \in Seq(Nat)
      /\ receiver' \in {"unread", "read", "dropped"}
  <2>1. /\ reports \in Seq(Nat) /\ Len(reports) <= ReportSlots /\ seen \in Seq(Nat)
        /\ receiver \in {"unread", "read", "dropped"}
    BY DEF ClientIInv, ClientTyped
  <2>2. CASE UseReceiver \/ UNCHANGED clientVars
    BY <2>1, <2>2 DEF UseReceiver, clientVars
  <2>3. CASE TakeReport
    BY <2>1, <2>3 DEF TakeReport
  <2> QED BY <2>2, <2>3
<1>5. ClientTyped'
  BY <1>1, <1>4 DEF ClientIInv, ClientTyped
<1> QED BY <1>2, <1>3, <1>5 DEF ClientIInv

LEMMA ClientNextIInv == ASSUME ClientIInv, [ClientNext]_clientVars PROVE ClientIInv'
  BY AskKeepsIInv, TimeOutKeepsIInv, WireStepKeepsIInv, ReadAnswerKeepsIInv,
     ReaderEndsKeepsIInv, ReceiverStepKeepsIInv
     DEF ClientNext

(* The table of requests that wait is exact in every state of a client      *)
(* (Shared::pending): what it holds waits, what waits is in it, and every   *)
(* answer on the way carries the id of the request that it answers.        *)
THEOREM ClientInvariance == ClientSpec => []ClientIInv
  BY ClientInitIInv, ClientNextIInv, PTL DEF ClientSpec

(* The state of the client keeps its types, and no more reports lie in the  *)
(* channel than it has room for.                                           *)
THEOREM ClientTypeCorrect == ClientSpec => []ClientTypeOK
<1>1. ClientIInv => ClientTypeOK
  <2> SUFFICES ASSUME ClientIInv PROVE ClientTypeOK
    OBVIOUS
  <2>1. \A n \in DOMAIN asked : asked[n] \in Request
    BY DEF ClientIInv, ClientTyped
  <2>2. \A n \in RequestNumbers :
          asked[n].phase \in {"waiting", "answered", "closed", "failed", "timeout"}
    BY <2>1 DEF Request, RequestPhases, RequestNumbers
  <2> QED BY <2>2 DEF ClientIInv, ClientTyped, PendingWait, ClientTypeOK
<1> QED BY <1>1, ClientInvariance, PTL

(* While no two requests have had the same id, a request is answered with   *)
(* its own answer and with no other, whatever times out, comes late or is   *)
(* lost, and what waits can be answered (request, reader_loop).            *)
THEOREM RequestsGetTheirOwnAnswers == ClientSpec => []OwnAnswer
<1>1. ClientIInv => OwnAnswer
  <2> SUFFICES ASSUME ClientIInv, ~Wrapped, NEW n \in RequestNumbers
               PROVE  /\ asked[n].phase = "answered" => asked[n].of = n
                      /\ Waiting(n) => asked[n].id \in DOMAIN pending /\ pending[asked[n].id] = n
    BY DEF OwnAnswer
  <2>1. asked[n].phase = "answered" => asked[n].of = n
    BY DEF ClientIInv, AnsweredUnderItsId, Wrapped
  <2>2. Waiting(n) => asked[n].id \in DOMAIN pending /\ pending[asked[n].id] = n
    BY DEF ClientIInv, WaitersPend
  <2> QED BY <2>1, <2>2
<1> QED BY <1>1, ClientInvariance, PTL

-----------------------------------------------------------------------------
(* What a task was told is never changed.                                  *)
OutcomesAreFinal ==
  [][\A n \in RequestNumbers : ~Waiting(n) => n \in RequestNumbers' /\ asked'[n] = asked[n]]_clientVars

LEMMA WakeLeavesTheOthers ==
  ASSUME asked \in Seq(Request), NEW ns, NEW phase, NEW n \in RequestNumbers, ~Waiting(n)
  PROVE  n \in DOMAIN Wake(ns, phase) /\ Wake(ns, phase)[n] = asked[n]
  BY DEF Wake, RequestNumbers, Waiting

(* A request that is over stays as it is: no late answer, no reuse of its   *)
(* id and no end of the stream changes what the task was told.             *)
THEOREM AnsweredOnceForAll == ClientSpec => OutcomesAreFinal
<1>1. ASSUME ClientIInv, ClientNext, NEW n \in RequestNumbers, ~Waiting(n)
      PROVE  n \in RequestNumbers' /\ asked'[n] = asked[n]
  <2>1. /\ asked \in Seq(Request) /\ Len(asked) \in Nat /\ DOMAIN asked = 1..Len(asked)
        /\ n \in 1..Len(asked)
    BY <1>1 DEF ClientIInv, ClientTyped, RequestNumbers
  <2>2. \A k \in DOMAIN pending : pending[k] # n
    BY <1>1 DEF ClientIInv, PendingWait
  <2>3. CASE Ask
    <3> DEFINE displaced == IF NextId \in DOMAIN pending THEN {pending[NextId]} ELSE {}
               a == Wake(displaced, "closed")
    <3>1. PICK new : asked' = Append(a, new)
      BY <2>3 DEF Ask
    <3>2. a \in Seq(Request) /\ Len(a) = Len(asked)
      <4> HIDE DEF a, displaced
      <4>1. "closed" \in RequestPhases
        BY DEF RequestPhases
      <4> QED BY <2>1, <4>1, WakeChangesPhases DEF a
    <3>3. a[n] = asked[n]
      <4> HIDE DEF a, displaced
      <4> QED BY <1>1, <2>1, WakeLeavesTheOthers DEF a
    <3> HIDE DEF a
    <3>4. n \in DOMAIN asked' /\ asked'[n] = a[n]
      BY <2>1, <3>1, <3>2
    <3> QED BY <3>3, <3>4 DEF RequestNumbers
  <2>4. CASE \E m \in RequestNumbers : TimeOut(m)
    <3>1. PICK m \in RequestNumbers : asked' = Wake({m}, "timeout")
      BY <2>4 DEF TimeOut
    <3> QED BY <1>1, <2>1, <3>1, WakeLeavesTheOthers DEF RequestNumbers
  <2>5. CASE ReadAnswer
    <3>1. PICK m : \/ UNCHANGED asked
                   \/ \E k \in Addressee(m) :
                        asked' = [asked EXCEPT ![k].phase = "answered", ![k].of = m.of]
      BY <2>5 DEF ReadAnswer
    <3>2. n \notin Addressee(m)
      BY <2>2 DEF Addressee
    <3> QED BY <2>1, <3>1, <3>2 DEF RequestNumbers
  <2>6. CASE ReaderEnds
    <3>1. asked' = Wake({pending[k] : k \in DOMAIN pending}, "closed")
      BY <2>6 DEF ReaderEnds, Drained
    <3> QED BY <1>1, <2>1, <3>1, WakeLeavesTheOthers DEF RequestNumbers
  <2>7. CASE UNCHANGED asked
    BY <1>1, <2>7 DEF RequestNumbers
  <2>8. ClientNext => \/ Ask \/ (\E m \in RequestNumbers : TimeOut(m)) \/ ReadAnswer
                      \/ ReaderEnds \/ UNCHANGED asked
    BY DEF ClientNext, ServerAnswers, ServerReports, LinkLost, ReadReport, PassReport,
           UseReceiver, TakeReport
  <2> QED BY <1>1, <2>3, <2>4, <2>5, <2>6, <2>7, <2>8
<1>2. ClientIInv /\ [ClientNext]_clientVars =>
        [\A n \in RequestNumbers : ~Waiting(n) => n \in RequestNumbers' /\ asked'[n] = asked[n]]_clientVars
  BY <1>1
<1> QED BY <1>2, ClientInvariance, PTL DEF ClientSpec, OutcomesAreFinal

-----------------------------------------------------------------------------
(* The beginning t of n reports was taken, the wire w goes on with what is  *)
(* left, and if the link is up, to the end.                                *)
Kept(t, w, n, up) ==
  LET on == {k \in DOMAIN w : w[k].kind = "report"}
  IN  /\ \A k \in DOMAIN t : t[k] = k
      /\ Len(t) <= n
      /\ \A k \in on : w[k].of \in Len(t) + 1 .. n
      /\ \A j, k \in on : j < k => w[j].of < w[k].of
      /\ \A r \in Len(t) + 1 .. n :
           (up \/ \E k \in on : r < w[k].of) => \E k \in on : w[k].of = r

LEMMA KeptIsTheInvariant ==
  ReportsAreKept <=> (receiver # "dropped" => Kept(Taken, wireIn, reported, link))
  BY DEF ReportsAreKept, Kept, OnTheWire

(* A report more.                                                          *)
LEMMA KeptWithOneMore ==
  ASSUME NEW t \in Seq(Nat), NEW w \in Seq(Message), NEW n \in Nat, Kept(t, w, n, TRUE),
         NEW m \in Message, m.kind = "report", m.of = n + 1
  PROVE  Kept(t, Append(w, m), n + 1, TRUE)
<1> DEFINE x == Append(w, m)
<1>1. /\ Len(w) \in Nat /\ Len(t) \in Nat /\ DOMAIN w = 1..Len(w)
      /\ DOMAIN x = 1..Len(w) + 1 /\ x[Len(w) + 1] = m
      /\ \A k \in 1..Len(w) : x[k] = w[k]
  OBVIOUS
<1> HIDE DEF x
<1>2. /\ \A k \in DOMAIN t : t[k] = k
      /\ Len(t) <= n
      /\ \A k \in 1..Len(w) : w[k].kind = "report" => w[k].of \in Len(t) + 1 .. n
      /\ \A j, k \in 1..Len(w) : w[j].kind = "report" /\ w[k].kind = "report" =>
           (j < k => w[j].of < w[k].of)
      /\ \A r \in Len(t) + 1 .. n : \E k \in 1..Len(w) : w[k].kind = "report" /\ w[k].of = r
  BY <1>1 DEF Kept
<1>3. \A k \in DOMAIN x : k \in 1..Len(w) \/ k = Len(w) + 1
  BY <1>1
<1>4. ASSUME NEW k \in DOMAIN x, x[k].kind = "report"
      PROVE  x[k].of \in Len(t) + 1 .. n + 1
  BY <1>1, <1>2, <1>3, <1>4
<1>5. ASSUME NEW j \in DOMAIN x, NEW k \in DOMAIN x, x[j].kind = "report", x[k].kind = "report", j < k
      PROVE  x[j].of < x[k].of
  <2>1. j \in 1..Len(w)
    BY <1>1, <1>5
  <2>2. x[j] = w[j] /\ w[j].of \in Len(t) + 1 .. n
    BY <1>1, <1>2, <1>5, <2>1
  <2>3. CASE k = Len(w) + 1
    BY <1>1, <2>2, <2>3
  <2>4. CASE k \in 1..Len(w)
    BY <1>1, <1>2, <1>5, <2>1, <2>4
  <2> QED BY <1>3, <2>3, <2>4
<1>6. ASSUME NEW r \in Len(t) + 1 .. n + 1
      PROVE  \E k \in DOMAIN x : x[k].kind = "report" /\ x[k].of = r
  <2>1. CASE r = n + 1
    <3>1. Len(w) + 1 \in DOMAIN x
      BY <1>1
    <3> QED BY <1>1, <2>1, <3>1
  <2>2. CASE r # n + 1
    <3>1. r \in Len(t) + 1 .. n
      BY <1>1, <2>2
    <3>2. PICK k \in 1..Len(w) : w[k].kind = "report" /\ w[k].of = r
      BY <1>2, <3>1
    <3>3. k \in DOMAIN x /\ x[k] = w[k]
      BY <1>1
    <3> QED BY <3>2, <3>3
  <2> QED BY <2>1, <2>2
<1>7. Len(t) <= n + 1
  BY <1>1, <1>2
<1>8. Kept(t, x, n + 1, TRUE)
  BY <1>2, <1>4, <1>5, <1>6, <1>7 DEF Kept
<1> QED BY <1>8 DEF x

(* Another message more.                                                   *)
LEMMA KeptWithAnAnswer ==
  ASSUME NEW t \in Seq(Nat), NEW w \in Seq(Message), NEW n \in Nat, NEW up, Kept(t, w, n, up),
         NEW m \in Message, m.kind # "report"
  PROVE  Kept(t, Append(w, m), n, up)
<1> DEFINE x == Append(w, m)
           on == {k \in DOMAIN w : w[k].kind = "report"}
<1>1. /\ Len(w) \in Nat /\ DOMAIN w = 1..Len(w)
      /\ DOMAIN x = 1..Len(w) + 1 /\ x[Len(w) + 1] = m
      /\ \A k \in 1..Len(w) : x[k] = w[k]
  OBVIOUS
<1> HIDE DEF x
<1>2. \A k \in DOMAIN x : k \in 1..Len(w) \/ k = Len(w) + 1
  BY <1>1
<1>3. \A k \in 1..Len(w) : k \in DOMAIN x
  BY <1>1
<1>4. /\ {k \in DOMAIN x : x[k].kind = "report"} = on
      /\ \A k \in on : x[k] = w[k]
  BY <1>1, <1>2, <1>3
<1>5. Kept(t, x, n, up)
  BY <1>4 DEF Kept
<1> QED BY <1>5 DEF x

(* A beginning of the wire.                                                *)
LEMMA KeptOnAPrefix ==
  ASSUME NEW t \in Seq(Nat), NEW w \in Seq(Message), NEW n \in Nat, NEW up, Kept(t, w, n, up),
         NEW x \in Seq(Message), Len(x) <= Len(w), \A k \in 1..Len(x) : x[k] = w[k]
  PROVE  Kept(t, x, n, FALSE)
<1>1. /\ Len(w) \in Nat /\ Len(x) \in Nat /\ Len(t) \in Nat
      /\ DOMAIN w = 1..Len(w) /\ DOMAIN x = 1..Len(x)
  OBVIOUS
<1>2. \A k \in 1..Len(x) : k \in 1..Len(w)
  BY <1>1
<1>3. /\ \A k \in DOMAIN t : t[k] = k
      /\ Len(t) <= n
      /\ \A k \in 1..Len(w) : w[k].kind = "report" => w[k].of \in Len(t) + 1 .. n
      /\ \A j, k \in 1..Len(w) : w[j].kind = "report" /\ w[k].kind = "report" =>
           (j < k => w[j].of < w[k].of)
      /\ \A r \in Len(t) + 1 .. n :
           (\E k \in 1..Len(w) : w[k].kind = "report" /\ r < w[k].of) =>
             \E k \in 1..Len(w) : w[k].kind = "report" /\ w[k].of = r
  BY <1>1 DEF Kept
<1>4. ASSUME NEW r \in Len(t) + 1 .. n, NEW k \in 1..Len(x), x[k].kind = "report", r < x[k].of
      PROVE  \E j \in 1..Len(x) : x[j].kind = "report" /\ x[j].of = r
  <2>1. k \in 1..Len(w) /\ x[k] = w[k]
    BY <1>2
  <2>2. PICK j \in 1..Len(w) : w[j].kind = "report" /\ w[j].of = r
    BY <1>3, <1>4, <2>1
  <2>3. w[k].of \in Nat /\ w[j].of \in Nat
    BY <1>1, <1>3, <1>4, <2>1, <2>2
  <2>4. w[j].of < w[k].of
    BY <1>4, <2>1, <2>2
  <2>5. ~(k < j) /\ k # j
    <3>1. k < j => w[k].of < w[j].of
      BY <1>3, <1>4, <2>1, <2>2
    <3> QED BY <2>3, <2>4, <3>1
  <2>6. j \in 1..Len(x)
    BY <1>1, <2>5
  <2> QED BY <2>2, <2>6
<1>5. \A k \in 1..Len(x) : x[k].kind = "report" => x[k].of \in Len(t) + 1 .. n
  BY <1>2, <1>3
<1>6. \A j, k \in 1..Len(x) : x[j].kind = "report" /\ x[k].kind = "report" =>
        (j < k => x[j].of < x[k].of)
  BY <1>2, <1>3
<1> QED BY <1>1, <1>3, <1>4, <1>5, <1>6 DEF Kept

(* The wire without its first message, an answer, or a report that is taken. *)
LEMMA KeptWithoutTheFirst ==
  ASSUME NEW t \in Seq(Nat), NEW w \in Seq(Message), NEW n \in Nat, NEW up \in BOOLEAN,
         Kept(t, w, n, up), w # <<>>
  PROVE  /\ w[1].kind # "report" => Kept(t, Tail(w), n, up)
         /\ w[1].kind = "report" => Kept(Append(t, w[1].of), Tail(w), n, up)
<1> DEFINE x == Tail(w)
<1>1. /\ Len(w) \in Nat \ {0} /\ Len(t) \in Nat /\ DOMAIN w = 1..Len(w) /\ DOMAIN t = 1..Len(t)
      /\ DOMAIN x = 1..Len(w) - 1 /\ x \in Seq(Message)
      /\ \A k \in 1..Len(w) - 1 : x[k] = w[k + 1]
  OBVIOUS
<1> HIDE DEF x
<1>2. /\ \A k \in DOMAIN t : t[k] = k
      /\ Len(t) <= n
      /\ \A k \in 1..Len(w) : w[k].kind = "report" => w[k].of \in Len(t) + 1 .. n
      /\ \A j, k \in 1..Len(w) : w[j].kind = "report" /\ w[k].kind = "report" =>
           (j < k => w[j].of < w[k].of)
      /\ \A r \in Len(t) + 1 .. n :
           (up \/ \E k \in 1..Len(w) : w[k].kind = "report" /\ r < w[k].of) =>
             \E k \in 1..Len(w) : w[k].kind = "report" /\ w[k].of = r
  BY <1>1 DEF Kept
<1>3. \A k \in 1..Len(w) - 1 : k + 1 \in 1..Len(w)
  BY <1>1
<1>4. \A k \in 1..Len(w) : k = 1 \/ k - 1 \in 1..Len(w) - 1
  BY <1>1
<1>5. \A j, k \in 1..Len(w) - 1 : x[j].kind = "report" /\ x[k].kind = "report" =>
        (j < k => x[j].of < x[k].of)
  <2> SUFFICES ASSUME NEW j \in 1..Len(w) - 1, NEW k \in 1..Len(w) - 1,
                      x[j].kind = "report", x[k].kind = "report", j < k
               PROVE  x[j].of < x[k].of
    OBVIOUS
  <2>1. x[j] = w[j + 1] /\ x[k] = w[k + 1]
    BY <1>1
  <2>2. j + 1 \in 1..Len(w) /\ k + 1 \in 1..Len(w) /\ j + 1 < k + 1
    BY <1>1
  <2>3. w[j + 1].kind = "report" /\ w[k + 1].kind = "report"
    BY <2>1
  <2>4. w[j + 1].of < w[k + 1].of
    BY <1>2, <2>2, <2>3
  <2> QED BY <2>1, <2>4
<1>6. ASSUME NEW r \in Len(t) + 1 .. n, up \/ \E k \in 1..Len(w) - 1 : x[k].kind = "report" /\ r < x[k].of
      PROVE  \E k \in 1..Len(w) : w[k].kind = "report" /\ w[k].of = r
  BY <1>1, <1>2, <1>3, <1>6
<1>7. ASSUME NEW k \in 1..Len(w), k # 1, w[k].kind = "report"
      PROVE  k - 1 \in 1..Len(w) - 1 /\ x[k - 1].kind = "report" /\ x[k - 1].of = w[k].of
  BY <1>1, <1>4, <1>7
<1>8. ASSUME w[1].kind # "report" PROVE Kept(t, x, n, up)
  <2>1. \A k \in 1..Len(w) - 1 : x[k].kind = "report" => x[k].of \in Len(t) + 1 .. n
    BY <1>1, <1>2, <1>3
  <2>2. ASSUME NEW r \in Len(t) + 1 .. n, up \/ \E k \in 1..Len(w) - 1 : x[k].kind = "report" /\ r < x[k].of
        PROVE  \E k \in 1..Len(w) - 1 : x[k].kind = "report" /\ x[k].of = r
    <3>1. PICK k \in 1..Len(w) : w[k].kind = "report" /\ w[k].of = r
      BY <1>6, <2>2
    <3>2. k # 1
      BY <1>8, <3>1
    <3> QED BY <1>7, <3>1, <3>2
  <2> QED BY <1>1, <1>2, <1>5, <2>1, <2>2 DEF Kept
<1>9. ASSUME w[1].kind = "report" PROVE Kept(Append(t, w[1].of), x, n, up)
  <2>1. 1 \in 1..Len(w)
    BY <1>1
  <2>2. w[1].of \in Len(t) + 1 .. n /\ w[1].of \in Nat
    BY <1>1, <1>2, <1>9, <2>1
  <2>3. \A k \in 1..Len(w) : k # 1 /\ w[k].kind = "report" => w[1].of < w[k].of
    <3>1. \A k \in 1..Len(w) : k # 1 => 1 < k
      BY <1>1
    <3> QED BY <1>2, <1>9, <2>1, <3>1
  <2>4. w[1].of = Len(t) + 1
    <3>1. SUFFICES ASSUME w[1].of # Len(t) + 1 PROVE FALSE
      OBVIOUS
    <3>2. Len(t) + 1 \in Len(t) + 1 .. n /\ Len(t) + 1 < w[1].of
      BY <1>1, <2>2, <3>1
    <3>3. PICK k \in 1..Len(w) : w[k].kind = "report" /\ w[k].of = Len(t) + 1
      BY <1>2, <1>9, <2>1, <3>2
    <3>4. k # 1
      BY <3>1, <3>3
    <3> QED BY <1>1, <2>2, <2>3, <3>2, <3>3, <3>4
  <2> DEFINE u == Append(t, w[1].of)
  <2>5. /\ Len(u) = Len(t) + 1 /\ DOMAIN u = 1..Len(t) + 1
        /\ u[Len(t) + 1] = Len(t) + 1
        /\ \A k \in 1..Len(t) : u[k] = t[k]
    BY <2>2, <2>4
  <2> HIDE DEF u
  <2>6. \A k \in DOMAIN u : u[k] = k
    <3>1. \A k \in 1..Len(t) + 1 : k \in 1..Len(t) \/ k = Len(t) + 1
      BY <1>1
    <3> QED BY <1>1, <1>2, <2>5, <3>1
  <2>7. Len(u) <= n
    BY <1>1, <2>2, <2>4, <2>5
  <2>8. ASSUME NEW k \in 1..Len(w) - 1, x[k].kind = "report"
        PROVE  x[k].of \in Len(u) + 1 .. n
    <3>1. k + 1 \in 1..Len(w) /\ k + 1 # 1 /\ x[k] = w[k + 1]
      BY <1>1
    <3>2. w[k + 1].of \in Len(t) + 1 .. n /\ Len(t) + 1 < w[k + 1].of
      BY <1>2, <2>3, <2>4, <2>8, <3>1
    <3> QED BY <1>1, <2>5, <3>1, <3>2
  <2>9. ASSUME NEW r \in Len(u) + 1 .. n, up \/ \E k \in 1..Len(w) - 1 : x[k].kind = "report" /\ r < x[k].of
        PROVE  \E k \in 1..Len(w) - 1 : x[k].kind = "report" /\ x[k].of = r
    <3>1. r \in Len(t) + 1 .. n /\ r # Len(t) + 1
      BY <1>1, <2>5
    <3>2. PICK k \in 1..Len(w) : w[k].kind = "report" /\ w[k].of = r
      BY <1>6, <2>9, <3>1
    <3>3. k # 1
      BY <2>4, <3>1, <3>2
    <3> QED BY <1>7, <3>2, <3>3
  <2>10. Kept(u, x, n, up)
    BY <1>1, <1>5, <2>6, <2>7, <2>8, <2>9 DEF Kept
  <2> QED BY <2>10 DEF u
<1> QED BY <1>8, <1>9 DEF x

LinkIsUpOrDown == link \in BOOLEAN

LEMMA ReportsInitKept == ClientInit => ReportsAreKept
  BY DEF ClientInit, ReportsAreKept, OnTheWire, Taken

LEMMA ReportsNextKept ==
  ASSUME ClientIInv, link \in BOOLEAN, ReportsAreKept, [ClientNext]_clientVars
  PROVE  ReportsAreKept'
<1> SUFFICES ASSUME receiver' # "dropped"
             PROVE  Kept(Taken, wireIn, reported, link)'
  BY DEF ReportsAreKept, Kept, OnTheWire
<1>1. receiver # "dropped"
  BY DEF ClientNext, Ask, TimeOut, ServerAnswers, ServerReports, LinkLost, ReadAnswer,
         ReadReport, PassReport, ReaderEnds, UseReceiver, TakeReport, clientVars
<1>2. Kept(Taken, wireIn, reported, link)
  BY <1>1, KeptIsTheInvariant
<1>3. /\ seen \in Seq(Nat) /\ reports \in Seq(Nat) /\ wireIn \in Seq(Message) /\ reported \in Nat
      /\ asked \in Seq(Request) /\ Taken \in Seq(Nat)
  BY DEF ClientIInv, ClientTyped, Taken
<1>4. CASE UNCHANGED <<wireIn, reported, link, seen, reports>>
  <2>1. Taken' = Taken
    BY <1>4 DEF Taken
  <2> QED BY <1>2, <1>4, <2>1 DEF Kept
<1>5. CASE ServerAnswers
  <2>1. PICK n : n = wireOut[1]
    OBVIOUS
  <2>2. n \in DOMAIN asked /\ asked[n] \in Request /\ n \in Nat
    BY <1>3, <1>5, <2>1 DEF ClientIInv, ClientTyped, AnswersAreLabelled, RequestNumbers, ServerAnswers
  <2>3. AnswerTo(n) \in Message /\ AnswerTo(n).kind # "report"
    BY <2>2 DEF AnswerTo, Message, Request
  <2>4. wireOut \in Seq(Nat) /\ wireOut # <<>>
    BY <1>5 DEF ClientIInv, ClientTyped, ServerAnswers
  <2>5. /\ wireIn' = Append(wireIn, AnswerTo(n))
        /\ UNCHANGED <<reported, link, seen, reports>>
    BY <1>5, <2>1, <2>4 DEF ServerAnswers
  <2>6. Kept(Taken, Append(wireIn, AnswerTo(n)), reported, link)
    BY <1>2, <1>3, <2>3, KeptWithAnAnswer
  <2>7. Taken' = Taken
    BY <2>5 DEF Taken
  <2> QED BY <2>5, <2>6, <2>7 DEF Kept
<1>6. CASE ServerReports
  <2>1. /\ wireIn' = Append(wireIn, ReportPdu(reported + 1))
        /\ reported' = reported + 1 /\ link = TRUE /\ link' = link
        /\ UNCHANGED <<seen, reports>>
    BY <1>6 DEF ServerReports
  <2>2. /\ ReportPdu(reported + 1) \in Message /\ ReportPdu(reported + 1).kind = "report"
        /\ ReportPdu(reported + 1).of = reported + 1
    BY <1>3 DEF ReportPdu, Message
  <2>3. Kept(Taken, wireIn, reported, TRUE)
    BY <1>2, <2>1
  <2>4. Kept(Taken, Append(wireIn, ReportPdu(reported + 1)), reported + 1, TRUE)
    BY <1>3, <2>2, <2>3, KeptWithOneMore
  <2>5. Taken' = Taken
    BY <2>1 DEF Taken
  <2> QED BY <2>1, <2>4, <2>5 DEF Kept
<1>7. CASE LinkLost
  <2>1. PICK k \in (IF reader = "sending" THEN 1 ELSE 0)..Len(wireIn) : wireIn' = SubSeq(wireIn, 1, k)
    BY <1>7 DEF LinkLost
  <2>2. k \in 0..Len(wireIn)
    BY <1>3, <2>1
  <2>3. PICK x \in Seq(Message) : /\ x = wireIn' /\ Len(x) <= Len(wireIn)
                                  /\ \A j \in 1..Len(x) : x[j] = wireIn[j]
    <3>1. /\ wireIn' \in Seq(Message) /\ Len(wireIn') = k
          /\ \A j \in 1..k : wireIn'[j] = wireIn[j]
      BY <1>3, <2>1, <2>2
    <3>2. k <= Len(wireIn)
      BY <1>3, <2>2
    <3> QED BY <3>1, <3>2
  <2>4. Kept(Taken, x, reported, FALSE)
    BY <1>2, <1>3, <2>3, KeptOnAPrefix
  <2>5. link' = FALSE /\ UNCHANGED <<reported, seen, reports>>
    BY <1>7 DEF LinkLost
  <2>6. Taken' = Taken
    BY <2>5 DEF Taken
  <2> QED BY <2>3, <2>4, <2>5, <2>6 DEF Kept
<1>8. CASE ReadAnswer
  <2>1. /\ wireIn # <<>> /\ wireIn[1].kind # "report" /\ wireIn' = Tail(wireIn)
        /\ UNCHANGED <<link, reported, seen, reports>>
    BY <1>3, <1>8 DEF ReadAnswer
  <2>2. Kept(Taken, Tail(wireIn), reported, link)
    BY <1>2, <1>3, <2>1, KeptWithoutTheFirst
  <2>3. Taken' = Taken
    BY <2>1 DEF Taken
  <2> QED BY <2>1, <2>2, <2>3 DEF Kept
<1>9. CASE PassReport
  <2>1. /\ wireIn # <<>> /\ wireIn[1].kind = "report" /\ wireIn' = Tail(wireIn)
        /\ reports' = Append(reports, wireIn[1].of)
        /\ UNCHANGED <<link, reported, seen>>
    BY <1>1, <1>3, <1>9 DEF PassReport, Queued, ClientIInv, ReaderHoldsReport
  <2>2. Kept(Append(Taken, wireIn[1].of), Tail(wireIn), reported, link)
    BY <1>2, <1>3, <2>1, KeptWithoutTheFirst
  <2>3. Taken' = Append(Taken, wireIn[1].of)
    <3>1. wireIn[1] \in Message /\ wireIn[1].of \in Nat
      BY <1>3, <2>1 DEF Message
    <3> QED BY <1>3, <2>1, <3>1 DEF Taken
  <2> QED BY <2>1, <2>2, <2>3 DEF Kept
<1>10. CASE TakeReport
  <2>1. /\ reports # <<>> /\ reports' = Tail(reports) /\ seen' = Append(seen, reports[1])
        /\ UNCHANGED <<link, wireIn, reported>>
    BY <1>3, <1>10 DEF TakeReport
  <2>2. Taken' = Taken
    BY <1>3, <2>1 DEF Taken
  <2> QED BY <1>2, <2>1, <2>2 DEF Kept
<1>11. \/ UNCHANGED <<wireIn, reported, link, seen, reports>>
       \/ ServerAnswers \/ ServerReports \/ LinkLost \/ ReadAnswer \/ PassReport \/ TakeReport
  BY DEF ClientNext, Ask, TimeOut, ReadReport, ReaderEnds, UseReceiver, clientVars
<1> QED BY <1>4, <1>5, <1>6, <1>7, <1>8, <1>9, <1>10, <1>11

(* While the application reads them, every report that the server sent is   *)
(* taken, queued or on the wire, once and in order, and only the loss of    *)
(* the link loses an end of them (reader_loop waits for room).             *)
THEOREM NoReportIsLost == ClientSpec => []ReportsAreKept
<1>1. ClientInit => LinkIsUpOrDown
  BY DEF ClientInit, LinkIsUpOrDown
<1>2. LinkIsUpOrDown /\ [ClientNext]_clientVars => LinkIsUpOrDown'
  <2> SUFFICES ASSUME link \in BOOLEAN, [ClientNext]_clientVars
               PROVE  link' \in BOOLEAN
    BY DEF LinkIsUpOrDown
  <2>1. CASE LinkLost
    BY <2>1 DEF LinkLost
  <2>2. CASE link' = link
    BY <2>2
  <2>3. LinkLost \/ link' = link
    BY DEF ClientNext, Ask, TimeOut, ServerAnswers, ServerReports, ReadAnswer,
           ReadReport, PassReport, ReaderEnds, UseReceiver, TakeReport, clientVars
  <2> QED BY <2>1, <2>2, <2>3
<1>3. ClientIInv /\ LinkIsUpOrDown /\ ReportsAreKept /\ [ClientNext]_clientVars => ReportsAreKept'
  BY ReportsNextKept DEF LinkIsUpOrDown
<1> QED BY <1>1, <1>2, <1>3, ReportsInitKept, ClientInvariance, PTL DEF ClientSpec
=============================================================================
