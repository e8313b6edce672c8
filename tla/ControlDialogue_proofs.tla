------------------------ MODULE ControlDialogue_proofs ------------------------
(***************************************************************************)
(* Proofs about the control of objects over one connection, for any        *)
(* objects, items and number of calls: nothing is operated more often than *)
(* it was selected, and a call that has its item for itself tells what the *)
(* server did.                                                             *)
(***************************************************************************)
EXTENDS ControlDialogue, FiniteSetTheorems, SequenceTheorems, TLAPS

Verdicts == {"none", "granted", "not supported", "cancelled", "applied", "interlocking",
             "not selected", "time limit over", "denied", "no status"}
Kinds == {"error", "answer", "termination"}
Dos == Selects \cup Operates \cup {"cancel"}

Heard == [of : Nat, ok : BOOLEAN, explained : SUBSET Nat]
Message == [kind : Kinds, call : Nat, ok : BOOLEAN]
CallRecord ==
  [do : Dos, obj : Objects, phase : Phases, heard : Seq(Heard), by : Nat,
   cause : Verdicts \cup {"unknown"}, alone : BOOLEAN]

ControlTyped ==
  /\ calls \in Seq(CallRecord)
  /\ verdicts \in Seq(Verdicts) /\ Len(verdicts) = Len(calls)
  /\ selections \in [Objects -> {"none", "held", "over"}]
  /\ requests \in Seq(Nat) /\ replies \in Seq(Message)
  /\ lastError \subseteq Nat
  /\ \A e, f \in lastError : e = f

(* Everything on the way or kept is about a call that was made.            *)
NumbersAreCalls ==
  /\ \A k \in DOMAIN requests : requests[k] \in CallNumbers
  /\ \A k \in DOMAIN replies : replies[k].call \in CallNumbers
  /\ lastError \subseteq CallNumbers
  /\ \A n \in CallNumbers : \A i \in DOMAIN calls[n].heard :
       calls[n].heard[i].of \in CallNumbers /\ calls[n].heard[i].explained \subseteq CallNumbers

(* A request on the way was not served, and is there once.                 *)
RequestsAreUnserved ==
  /\ \A k \in DOMAIN requests : verdicts[requests[k]] = "none"
  /\ \A j, k \in DOMAIN requests : requests[j] = requests[k] => j = k

(* A selection that was not used up is one that no operation has used.     *)
Tally(o, verdict) == {n \in CallNumbers : calls[n].obj = o /\ verdicts[n] = verdict}
SelectionsAreUnused ==
  \A o \in Objects : WithSelection(o) =>
    Cardinality(Tally(o, "applied")) + (IF selections[o] = "none" THEN 0 ELSE 1)
      <= Cardinality(Tally(o, "granted"))

ServedIInv == ControlTyped /\ NumbersAreCalls /\ RequestsAreUnserved

-----------------------------------------------------------------------------
(* In a state with the calls c and the verdicts v.                         *)
Refused(v, n) == v[n] \notin {"none", "applied"}
IsOver(c, n) == c[n].phase \in {"ok", "failed", "terminated", "timeout"}


(* What is said of a call, or was heard, is what the server did with it.   *)
MessageIsTrue(c, v, m) ==
  /\ v[m.call] # "none"
  /\ m.kind = "error" => Refused(v, m.call)
  /\ m.kind = "termination" => IF m.ok THEN v[m.call] = "applied" ELSE Refused(v, m.call)
  /\ m.kind = "answer" /\ c[m.call].do \in Operates =>
       IF m.ok THEN v[m.call] = "applied" \/ Enhanced(c[m.call].obj) ELSE Refused(v, m.call)

HeardIsTrue(v, t) ==
  /\ IF t.ok THEN v[t.of] = "applied" ELSE Refused(v, t.of)
  /\ \A e \in t.explained : v[e] # "none"

MessagesAreTrue ==
  /\ \A k \in DOMAIN replies : MessageIsTrue(calls, verdicts, replies[k])
  /\ \A e \in lastError : verdicts[e] # "none"
  /\ \A n \in CallNumbers : \A i \in DOMAIN calls[n].heard :
       HeardIsTrue(verdicts, calls[n].heard[i])

(* Calls of which one's item ends with the other's, and the calls that have *)
(* theirs for themselves.                                                  *)
ItemIn(c, n) == Item(c[n].do, c[n].obj)
SameItem(c, m, n) == EndsWith(ItemIn(c, m), ItemIn(c, n)) \/ EndsWith(ItemIn(c, n), ItemIn(c, m))
HasItemForItself(c, n) == c[n].alone /\ ~IsOver(c, n)

(* Nothing that could be taken for a message to such a call is about another. *)
ItemIsItsOwn ==
  \A n \in CallNumbers : HasItemForItself(calls, n) =>
    /\ \A m \in CallNumbers : SameItem(calls, m, n) => m = n \/ IsOver(calls, m)
    /\ \A k \in DOMAIN requests : SameItem(calls, requests[k], n) => requests[k] = n
    /\ \A k \in DOMAIN replies : SameItem(calls, replies[k].call, n) => replies[k].call = n
    /\ \A e \in lastError : SameItem(calls, e, n) => e = n
    /\ \A i \in DOMAIN calls[n].heard :
         LET t == calls[n].heard[i]
         IN  SameItem(calls, t.of, n) => t.of = n /\ (~t.ok => t.explained = {n})

(* The error comes right before the termination that it explains.          *)
ErrorsComeFirst ==
  \A k \in DOMAIN replies :
    replies[k].kind = "termination" /\ ~replies[k].ok =>
      /\ k > 1 => replies[k - 1].kind = "error" /\ replies[k - 1].call = replies[k].call
      /\ k = 1 => replies[k].call \in lastError \/ ~HasItemForItself(calls, replies[k].call)

(* ResultsAreTrue for a call, with what keeps the verdict from changing.   *)
ResultIsTrue(c, v, n) ==
  /\ c[n].phase = "refused" => Refused(v, n)
  /\ c[n].phase = "waiting" => c[n].do = "operateEnhanced"
  /\ c[n].phase = "ok" /\ c[n].do = "operate" => v[n] = "applied" \/ Enhanced(c[n].obj)
  /\ c[n].phase = "ok" /\ c[n].do = "operateEnhanced" /\ c[n].alone => v[n] = "applied"
  /\ c[n].phase = "terminated" /\ c[n].alone =>
       c[n].by = n /\ c[n].cause = v[n] /\ v[n] # "none"

ResultsStayTrue ==
  \A n \in CallNumbers : calls[n].do \in Operates => ResultIsTrue(calls, verdicts, n)

TruthIInv == MessagesAreTrue /\ ItemIsItsOwn /\ ErrorsComeFirst /\ ResultsStayTrue

-----------------------------------------------------------------------------
USE ControlAssumption

LEMMA FunctionIsSequence ==
  ASSUME NEW S, NEW n \in Nat, NEW f \in [1..n -> S]
  PROVE  f \in Seq(S) /\ Len(f) = n /\ DOMAIN f = 1..n
  OBVIOUS

LEMMA CallsAreRecords ==
  ASSUME ControlTyped
  PROVE  /\ Len(calls) \in Nat /\ CallNumbers = 1..Len(calls)
         /\ DOMAIN verdicts = 1..Len(calls)
         /\ \A n \in 1..Len(calls) : calls[n] \in CallRecord /\ verdicts[n] \in Verdicts
  BY DEF ControlTyped, CallNumbers

LEMMA RecordFields ==
  ASSUME NEW c \in CallRecord
  PROVE  /\ c.do \in Dos /\ c.obj \in Objects /\ c.phase \in Phases /\ c.heard \in Seq(Heard)
         /\ c.by \in Nat /\ c.cause \in Verdicts \cup {"unknown"} /\ c.alone \in BOOLEAN
  BY DEF CallRecord

(* An item ends with itself: what is about a call is taken for it.         *)
LEMMA EveryWholeIsAnEnd ==
  ASSUME NEW T, NEW item \in Seq(T)
  PROVE  EndsWith(item, item)
<1>1. Len(item) \in Nat
  OBVIOUS
<1>2. item = SubSeq(item, 0 + 1, Len(item)) /\ 0 \in 0..Len(item)
  BY <1>1
<1> QED BY <1>2 DEF EndsWith

LEMMA WholesEndWithThemselves ==
  ASSUME NEW S, NEW s \in Seq(S), NEW c
  PROVE  EndsWith(Append(s, c), Append(s, c))
<1>1. PICK T : T = S \cup {c}
  OBVIOUS
<1>2. s \in Seq(T) /\ c \in T
  <2>1. Len(s) \in Nat /\ s \in [1..Len(s) -> T]
    BY <1>1
  <2> QED BY <1>1, <2>1, FunctionIsSequence
<1>3. \A t \in Seq(T), d \in T : Append(t, d) \in Seq(T)
  OBVIOUS
<1> QED BY <1>2, <1>3, EveryWholeIsAnEnd

LEMMA ItemsEndWithThemselves ==
  ASSUME ControlTyped, NEW n \in 1..Len(calls)
  PROVE  EndsWith(CallItem(n), CallItem(n))
<1>1. PICK o \in Objects : o = calls[n].obj
  BY CallsAreRecords, RecordFields
<1>2. ItemOf[o] \in Seq(STRING)
  BY DEF ControlAssumption
<1> QED BY <1>1, <1>2, WholesEndWithThemselves DEF CallItem, Item

(* What a step after the call does to the calls: their number, operation    *)
(* and object stay, and a call that has ended stays as it is.              *)
CallsGoOn ==
  /\ calls' \in Seq(CallRecord) /\ Len(calls') = Len(calls)
  /\ \A k \in 1..Len(calls) :
       /\ calls'[k].do = calls[k].do
       /\ calls'[k].obj = calls[k].obj
       /\ calls'[k].alone = calls[k].alone
       /\ IsOver(calls, k) => calls'[k] = calls[k]

(* Call n, which has not ended, and no other one gets another phase.       *)
OnlyPhase(n, phase, by, cause) ==
  /\ \A k \in 1..Len(calls) : k # n => calls'[k] = calls[k]
  /\ calls'[n].heard = calls[n].heard
  /\ calls'[n].phase = phase
  /\ calls'[n].by = by
  /\ calls'[n].cause = cause

LEMMA EndingACall ==
  ASSUME ControlTyped, NEW n \in 1..Len(calls), ~IsOver(calls, n), NEW phase \in Phases, NEW by \in Nat,
         NEW cause \in Verdicts \cup {"unknown"}, End(n, phase, by, cause)
  PROVE  CallsGoOn /\ OnlyPhase(n, phase, by, cause)
<1>1. Len(calls) \in Nat /\ DOMAIN calls = 1..Len(calls) /\ calls \in Seq(CallRecord)
  BY DEF ControlTyped
<1>2. calls[n] \in CallRecord
  BY <1>1
<1> DEFINE r0 == [calls[n] EXCEPT !.phase = phase, !.by = by, !.cause = cause]
<1>3. r0 \in CallRecord /\ r0.do = calls[n].do /\ r0.obj = calls[n].obj /\ r0.alone = calls[n].alone
      /\ r0.heard = calls[n].heard /\ r0.phase = phase /\ r0.by = by /\ r0.cause = cause
  BY <1>2 DEF CallRecord
<1>4. calls' = [calls EXCEPT ![n] = r0]
  BY <1>1, <1>2 DEF End, CallRecord
<1>5. /\ calls' \in Seq(CallRecord) /\ Len(calls') = Len(calls) /\ calls'[n] = r0
      /\ \A k \in 1..Len(calls) : k # n => calls'[k] = calls[k]
  <2> HIDE DEF r0
  <2> QED BY <1>1, <1>3, <1>4
<1> HIDE DEF r0
<1>6. CallsGoOn
  <2>1. ASSUME NEW k \in 1..Len(calls)
        PROVE  /\ calls'[k].do = calls[k].do /\ calls'[k].obj = calls[k].obj
               /\ calls'[k].alone = calls[k].alone
               /\ IsOver(calls, k) => calls'[k] = calls[k]
    <3>1. CASE k = n
      BY <1>3, <1>5, <3>1
    <3>2. CASE k # n
      BY <1>5, <3>2
    <3> QED BY <3>1, <3>2
  <2> QED BY <1>5, <2>1 DEF CallsGoOn
<1>7. OnlyPhase(n, phase, by, cause)
  BY <1>3, <1>5 DEF OnlyPhase
<1> QED BY <1>6, <1>7

(* The answer to a call that waits for it.                                 *)
LEMMA AnsweringACall ==
  ASSUME ControlTyped, NEW n \in 1..Len(calls), ~IsOver(calls, n), NEW phase \in Phases,
         calls' = [calls EXCEPT ![n].phase = phase]
  PROVE  CallsGoOn /\ OnlyPhase(n, phase, calls[n].by, calls[n].cause)
<1>1. Len(calls) \in Nat /\ DOMAIN calls = 1..Len(calls) /\ calls \in Seq(CallRecord)
  BY DEF ControlTyped
<1>2. calls[n] \in CallRecord
  BY <1>1
<1>3. calls[n].by \in Nat /\ calls[n].cause \in Verdicts \cup {"unknown"}
  BY <1>2, RecordFields
<1>4. [calls[n] EXCEPT !.phase = phase, !.by = calls[n].by, !.cause = calls[n].cause]
        = [calls[n] EXCEPT !.phase = phase]
  BY <1>2 DEF CallRecord
<1>5. End(n, phase, calls[n].by, calls[n].cause)
  BY <1>1, <1>2, <1>4 DEF End, CallRecord
<1> QED BY <1>3, <1>5, EndingACall

LEMMA HearingIsRecorded ==
  ASSUME NEW c \in CallRecord, NEW h \in Seq(Heard), NEW d, d = [c EXCEPT !.heard = h]
  PROVE  /\ d \in CallRecord
         /\ d.do = c.do /\ d.obj = c.obj /\ d.alone = c.alone /\ d.phase = c.phase
         /\ d.by = c.by /\ d.cause = c.cause /\ d.heard = h
  BY DEF CallRecord

(* The calls `who' change what they heard to `what', and nothing else.     *)
LEMMA Hearing ==
  ASSUME ControlTyped, NEW who, NEW what,
         \A k \in who : k \in 1..Len(calls) /\ ~IsOver(calls, k) /\ what[k] \in Seq(Heard),
         calls' = [k \in CallNumbers |-> IF k \in who THEN [calls[k] EXCEPT !.heard = what[k]]
                                                      ELSE calls[k]]
  PROVE  /\ CallsGoOn
         /\ \A k \in 1..Len(calls) :
              /\ calls'[k].phase = calls[k].phase
              /\ calls'[k].by = calls[k].by
              /\ calls'[k].cause = calls[k].cause
              /\ k \in who => calls'[k].heard = what[k]
              /\ k \notin who => calls'[k] = calls[k]
<1>1. Len(calls) \in Nat /\ CallNumbers = 1..Len(calls)
      /\ \A k \in 1..Len(calls) : calls[k] \in CallRecord
  BY CallsAreRecords
<1>2. ASSUME NEW k \in 1..Len(calls)
      PROVE  /\ calls'[k] \in CallRecord
             /\ calls'[k].do = calls[k].do /\ calls'[k].obj = calls[k].obj
             /\ calls'[k].alone = calls[k].alone
             /\ calls'[k].phase = calls[k].phase
             /\ calls'[k].by = calls[k].by /\ calls'[k].cause = calls[k].cause
             /\ k \in who => calls'[k].heard = what[k]
             /\ k \notin who => calls'[k] = calls[k]
  <2>1. calls[k] \in CallRecord
    BY <1>1
  <2>2. CASE k \in who
    <3>1. calls'[k] = [calls[k] EXCEPT !.heard = what[k]]
      BY <1>1, <2>2
    <3>2. what[k] \in Seq(Heard)
      BY <2>2
    <3> QED BY <2>1, <2>2, <3>1, <3>2, HearingIsRecorded
  <2>3. CASE k \notin who
    BY <1>1, <2>1, <2>3
  <2> QED BY <2>2, <2>3
<1>3. calls' \in [1..Len(calls) -> CallRecord]
  <2>1. calls' = [k \in 1..Len(calls) |-> calls'[k]]
    BY <1>1
  <2> QED BY <1>2, <2>1
<1>4. calls' \in Seq(CallRecord) /\ Len(calls') = Len(calls)
  BY <1>1, <1>3, FunctionIsSequence
<1>5. CallsGoOn
  BY <1>2, <1>4 DEF CallsGoOn
<1> QED BY <1>2, <1>5

LEMMA CallsKeepTheirItems ==
  ASSUME ControlTyped, CallsGoOn
  PROVE  /\ CallNumbers' = 1..Len(calls)
         /\ \A k \in 1..Len(calls) :
              /\ IsOver(calls, k) => IsOver(calls', k)
              /\ HasItemForItself(calls', k) => HasItemForItself(calls, k)
         /\ \A k, n \in 1..Len(calls) : SameItem(calls', k, n) <=> SameItem(calls, k, n)
<1>1. Len(calls) \in Nat /\ CallNumbers' = 1..Len(calls)
  BY DEF ControlTyped, CallsGoOn, CallNumbers
<1>2. \A k \in 1..Len(calls) :
        /\ calls'[k].do = calls[k].do /\ calls'[k].obj = calls[k].obj
        /\ calls'[k].alone = calls[k].alone
        /\ IsOver(calls, k) => calls'[k] = calls[k]
  BY DEF CallsGoOn
<1>3. \A k \in 1..Len(calls) : IsOver(calls, k) => IsOver(calls', k)
  BY <1>2 DEF IsOver
<1>4. \A k \in 1..Len(calls) : HasItemForItself(calls', k) => HasItemForItself(calls, k)
  BY <1>2, <1>3 DEF HasItemForItself
<1>5. \A k, n \in 1..Len(calls) : SameItem(calls', k, n) <=> SameItem(calls, k, n)
  BY <1>2 DEF SameItem, ItemIn
<1> QED BY <1>1, <1>3, <1>4, <1>5

(* The steps that neither make a call nor serve one: the client reads what  *)
(* was sent, ends calls, or the connection is lost.                        *)
NothingNewIsSaid ==
  /\ CallsGoOn
  /\ verdicts' = verdicts
  /\ selections' \in [Objects -> {"none", "held", "over"}]
  /\ requests' \in Seq(Nat) /\ replies' \in Seq(Message)
  /\ \A k \in DOMAIN requests' : k \in DOMAIN requests /\ requests'[k] = requests[k]
  /\ \A k \in DOMAIN replies' : \E j \in DOMAIN replies : replies'[k] = replies[j]
  /\ \A e, f \in lastError' : e = f
  /\ \A e \in lastError' : e \in lastError \/ \E j \in DOMAIN replies : e = replies[j].call

(* A call heard nothing it had not heard before.                           *)
NothingNewIsHeard ==
  \A n \in 1..Len(calls) : \A i \in DOMAIN calls'[n].heard :
    \E j \in DOMAIN calls[n].heard : calls'[n].heard[i] = calls[n].heard[j]

LEMMA ServedIInvGoesOn ==
  ASSUME ServedIInv, NothingNewIsSaid,
         \A n \in 1..Len(calls) : \A i \in DOMAIN calls'[n].heard :
           /\ calls'[n].heard[i].of \in 1..Len(calls)
           /\ calls'[n].heard[i].explained \subseteq 1..Len(calls)
  PROVE  ServedIInv'
<1>1. /\ Len(calls) \in Nat /\ CallNumbers = 1..Len(calls) /\ CallNumbers' = 1..Len(calls)
      /\ Len(calls') = Len(calls)
  BY CallsAreRecords, CallsKeepTheirItems DEF ServedIInv, NothingNewIsSaid, CallsGoOn
<1>2. /\ \A k \in DOMAIN requests' : requests'[k] \in 1..Len(calls)
      /\ \A k \in DOMAIN replies' : replies'[k].call \in 1..Len(calls)
      /\ lastError' \subseteq 1..Len(calls)
  BY <1>1 DEF ServedIInv, NumbersAreCalls, NothingNewIsSaid
<1>3. ControlTyped'
  <2>1. \A e \in lastError' : e \in Nat
    <3>1. \A e \in 1..Len(calls) : e \in Nat
      BY <1>1
    <3> QED BY <1>2, <3>1
  <2> QED BY <1>1, <2>1 DEF ServedIInv, ControlTyped, NothingNewIsSaid, CallsGoOn
<1>4. NumbersAreCalls'
  BY <1>1, <1>2 DEF NumbersAreCalls
<1>5. RequestsAreUnserved'
  BY DEF ServedIInv, RequestsAreUnserved, NothingNewIsSaid
<1> QED BY <1>3, <1>4, <1>5 DEF ServedIInv

LEMMA HeardBeforeIsCalls ==
  ASSUME ServedIInv, NothingNewIsSaid, NothingNewIsHeard
  PROVE  \A n \in 1..Len(calls) : \A i \in DOMAIN calls'[n].heard :
           /\ calls'[n].heard[i].of \in 1..Len(calls)
           /\ calls'[n].heard[i].explained \subseteq 1..Len(calls)
<1>1. CallNumbers = 1..Len(calls)
  BY CallsAreRecords DEF ServedIInv
<1> QED BY <1>1 DEF ServedIInv, NumbersAreCalls, NothingNewIsHeard

LEMMA MessagesStayTrue ==
  ASSUME ServedIInv, NothingNewIsSaid, MessagesAreTrue,
         \A n \in 1..Len(calls) : \A i \in DOMAIN calls'[n].heard :
           HeardIsTrue(verdicts, calls'[n].heard[i])
  PROVE  MessagesAreTrue'
<1>1. CallNumbers = 1..Len(calls) /\ CallNumbers' = 1..Len(calls)
  BY CallsAreRecords, CallsKeepTheirItems DEF ServedIInv, NothingNewIsSaid
<1>2. verdicts' = verdicts
  BY DEF NothingNewIsSaid
<1>3. ASSUME NEW k \in DOMAIN replies'
      PROVE  MessageIsTrue(calls', verdicts', replies'[k])
  <2>1. PICK j \in DOMAIN replies : replies'[k] = replies[j]
    BY DEF NothingNewIsSaid
  <2>2. PICK m : m = replies[j]
    OBVIOUS
  <2>3. m.call \in 1..Len(calls)
    BY <1>1, <2>2 DEF ServedIInv, NumbersAreCalls
  <2>4. calls'[m.call].do = calls[m.call].do /\ calls'[m.call].obj = calls[m.call].obj
    BY <2>3 DEF NothingNewIsSaid, CallsGoOn
  <2>5. MessageIsTrue(calls, verdicts, m)
    BY <2>2 DEF MessagesAreTrue
  <2>6. MessageIsTrue(calls', verdicts, m)
    BY <2>4, <2>5 DEF MessageIsTrue
  <2> QED BY <1>2, <2>1, <2>2, <2>6
<1>4. \A e \in lastError' : verdicts'[e] # "none"
  <2> SUFFICES ASSUME NEW e \in lastError'
               PROVE  verdicts[e] # "none"
    BY <1>2
  <2>1. CASE e \in lastError
    BY <2>1 DEF MessagesAreTrue
  <2>2. CASE \E j \in DOMAIN replies : e = replies[j].call
    BY <2>2 DEF MessagesAreTrue, MessageIsTrue
  <2> QED BY <2>1, <2>2 DEF NothingNewIsSaid
<1>5. \A n \in CallNumbers' : \A i \in DOMAIN calls'[n].heard :
        HeardIsTrue(verdicts', calls'[n].heard[i])
  BY <1>1, <1>2
<1> QED BY <1>3, <1>4, <1>5 DEF MessagesAreTrue

LEMMA ItemsStayTheirOwn ==
  ASSUME ServedIInv, NothingNewIsSaid, ItemIsItsOwn,
         \A n \in 1..Len(calls) : HasItemForItself(calls', n) => \A i \in DOMAIN calls'[n].heard :
           LET t == calls'[n].heard[i]
           IN  SameItem(calls, t.of, n) => t.of = n /\ (~t.ok => t.explained = {n}),
         \A n \in 1..Len(calls) : \A i \in DOMAIN calls'[n].heard :
           calls'[n].heard[i].of \in 1..Len(calls)
  PROVE  ItemIsItsOwn'
<1>1. /\ CallNumbers = 1..Len(calls) /\ CallNumbers' = 1..Len(calls)
      /\ \A k \in 1..Len(calls) :
              /\ IsOver(calls, k) => IsOver(calls', k)
              /\ HasItemForItself(calls', k) => HasItemForItself(calls, k)
      /\ \A k, n \in 1..Len(calls) : SameItem(calls', k, n) <=> SameItem(calls, k, n)
  BY CallsAreRecords, CallsKeepTheirItems DEF ServedIInv, NothingNewIsSaid
<1>2. SUFFICES ASSUME NEW n \in 1..Len(calls), HasItemForItself(calls', n)
               PROVE  /\ \A m \in 1..Len(calls) : SameItem(calls', m, n) => m = n \/ IsOver(calls', m)
                      /\ \A k \in DOMAIN requests' : SameItem(calls', requests'[k], n) => requests'[k] = n
                      /\ \A k \in DOMAIN replies' : SameItem(calls', replies'[k].call, n) => replies'[k].call = n
                      /\ \A e \in lastError' : SameItem(calls', e, n) => e = n
                      /\ \A i \in DOMAIN calls'[n].heard :
                           LET t == calls'[n].heard[i]
                           IN  SameItem(calls', t.of, n) => t.of = n /\ (~t.ok => t.explained = {n})
  BY <1>1 DEF ItemIsItsOwn
<1>3. HasItemForItself(calls, n)
  BY <1>1, <1>2
<1>4. /\ \A m \in 1..Len(calls) : SameItem(calls, m, n) => m = n \/ IsOver(calls, m)
      /\ \A k \in DOMAIN requests : SameItem(calls, requests[k], n) => requests[k] = n
      /\ \A k \in DOMAIN replies : SameItem(calls, replies[k].call, n) => replies[k].call = n
      /\ \A e \in lastError : SameItem(calls, e, n) => e = n
  BY <1>1, <1>3 DEF ItemIsItsOwn
<1>5. /\ \A k \in DOMAIN requests : requests[k] \in 1..Len(calls)
      /\ \A k \in DOMAIN replies : replies[k].call \in 1..Len(calls)
      /\ \A e \in lastError : e \in 1..Len(calls)
  BY <1>1 DEF ServedIInv, NumbersAreCalls
<1>6. \A k \in DOMAIN requests' : SameItem(calls', requests'[k], n) => requests'[k] = n
  BY <1>1, <1>4, <1>5 DEF NothingNewIsSaid
<1>7. \A k \in DOMAIN replies' : SameItem(calls', replies'[k].call, n) => replies'[k].call = n
  <2> SUFFICES ASSUME NEW k \in DOMAIN replies', SameItem(calls', replies'[k].call, n)
               PROVE  replies'[k].call = n
    OBVIOUS
  <2>1. PICK j \in DOMAIN replies : replies'[k] = replies[j]
    BY DEF NothingNewIsSaid
  <2> QED BY <1>1, <1>4, <1>5, <2>1
<1>8. \A e \in lastError' : SameItem(calls', e, n) => e = n
  BY <1>1, <1>4, <1>5 DEF NothingNewIsSaid
<1>9. \A m \in 1..Len(calls) : SameItem(calls', m, n) => m = n \/ IsOver(calls', m)
  BY <1>1, <1>4
<1>10. \A i \in DOMAIN calls'[n].heard :
         LET t == calls'[n].heard[i]
         IN  SameItem(calls', t.of, n) => t.of = n /\ (~t.ok => t.explained = {n})
  BY <1>1, <1>2
<1> QED BY <1>6, <1>7, <1>8, <1>9, <1>10

(* ... which is so for what was heard before.                              *)
LEMMA HeardBeforeIsTrue ==
  ASSUME ServedIInv, NothingNewIsSaid, NothingNewIsHeard
  PROVE  /\ ServedIInv'
         /\ MessagesAreTrue => MessagesAreTrue'
         /\ ItemIsItsOwn => ItemIsItsOwn'
<1>1. CallNumbers = 1..Len(calls)
  BY CallsAreRecords DEF ServedIInv
<1>2. ServedIInv'
  BY HeardBeforeIsCalls, ServedIInvGoesOn
<1>3. ASSUME MessagesAreTrue PROVE MessagesAreTrue'
  <2>1. ASSUME NEW n \in 1..Len(calls), NEW i \in DOMAIN calls'[n].heard
        PROVE  HeardIsTrue(verdicts, calls'[n].heard[i])
    <3>1. PICK j \in DOMAIN calls[n].heard : calls'[n].heard[i] = calls[n].heard[j]
      BY DEF NothingNewIsHeard
    <3> QED BY <1>1, <1>3, <3>1 DEF MessagesAreTrue
  <2> QED BY <1>3, <2>1, MessagesStayTrue
<1>4. ASSUME ItemIsItsOwn PROVE ItemIsItsOwn'
  <2>1. ASSUME NEW n \in 1..Len(calls), HasItemForItself(calls', n), NEW i \in DOMAIN calls'[n].heard
        PROVE  LET t == calls'[n].heard[i]
               IN  SameItem(calls, t.of, n) => t.of = n /\ (~t.ok => t.explained = {n})
    <3>1. PICK j \in DOMAIN calls[n].heard : calls'[n].heard[i] = calls[n].heard[j]
      BY DEF NothingNewIsHeard
    <3>2. HasItemForItself(calls, n)
      BY <2>1, CallsKeepTheirItems DEF ServedIInv, NothingNewIsSaid
    <3> QED BY <1>1, <1>4, <3>1, <3>2 DEF ItemIsItsOwn
  <2> QED BY <1>4, <2>1, HeardBeforeIsCalls, ItemsStayTheirOwn
<1> QED BY <1>2, <1>3, <1>4

LEMMA ErrorsStayFirst ==
  ASSUME ServedIInv, CallsGoOn, ErrorsComeFirst, UNCHANGED replies, lastError \subseteq lastError'
  PROVE  ErrorsComeFirst'
<1>1. /\ \A k \in DOMAIN replies : replies[k].call \in 1..Len(calls)
      /\ \A k \in 1..Len(calls) : HasItemForItself(calls', k) => HasItemForItself(calls, k)
  BY CallsAreRecords, CallsKeepTheirItems DEF ServedIInv, NumbersAreCalls
<1> QED BY <1>1 DEF ErrorsComeFirst

LEMMA ResultsGoOn ==
  ASSUME ServedIInv, CallsGoOn, ResultsStayTrue, UNCHANGED verdicts, NEW n \in 1..Len(calls),
         \A k \in 1..Len(calls) : k # n => calls'[k] = calls[k],
         calls[n].do \in Operates => ResultIsTrue(calls', verdicts, n)
  PROVE  ResultsStayTrue'
<1>1. CallNumbers = 1..Len(calls) /\ CallNumbers' = 1..Len(calls)
  BY CallsAreRecords, CallsKeepTheirItems DEF ServedIInv
<1>2. ASSUME NEW k \in 1..Len(calls), calls'[k].do \in Operates
      PROVE  ResultIsTrue(calls', verdicts, k)
  <2>1. CASE k = n
    BY <1>2, <2>1 DEF CallsGoOn
  <2>2. CASE k # n
    <3>1. calls'[k] = calls[k]
      BY <2>2
    <3>2. ResultIsTrue(calls, verdicts, k)
      BY <1>1, <1>2, <3>1 DEF ResultsStayTrue
    <3> QED BY <3>1, <3>2 DEF ResultIsTrue
  <2> QED BY <2>1, <2>2
<1> QED BY <1>1, <1>2 DEF ResultsStayTrue

(* A call that ends: nothing new is said or heard.                         *)
LEMMA EndingSaysNothing ==
  ASSUME ServedIInv, NEW n \in 1..Len(calls), NEW phase, NEW by, NEW cause,
         CallsGoOn, OnlyPhase(n, phase, by, cause),
         UNCHANGED <<requests, replies, selections, verdicts>>,
         lastError' \subseteq lastError
  PROVE  /\ ServedIInv'
         /\ MessagesAreTrue => MessagesAreTrue'
         /\ ItemIsItsOwn => ItemIsItsOwn'
<1>1. NothingNewIsSaid
  BY DEF ServedIInv, ControlTyped, NothingNewIsSaid
<1>2. NothingNewIsHeard
  <2>1. \A k \in 1..Len(calls) : calls'[k].heard = calls[k].heard
    <3>1. \A k \in 1..Len(calls) : k # n => calls'[k] = calls[k]
      BY DEF OnlyPhase
    <3>2. calls'[n].heard = calls[n].heard
      BY DEF OnlyPhase
    <3> QED BY <3>1, <3>2
  <2> QED BY <2>1 DEF NothingNewIsHeard
<1> QED BY <1>1, <1>2, HeardBeforeIsTrue

(* map_control_failure.                                                    *)
LEMMA MapFailureKeepsIInv ==
  ASSUME ServedIInv, NEW n \in CallNumbers, MapFailure(n)
  PROVE  CallsGoOn /\ ServedIInv' /\ (TruthIInv => TruthIInv')
<1>1. /\ n \in 1..Len(calls) /\ n \in Nat /\ CallNumbers = 1..Len(calls) /\ ControlTyped
      /\ calls[n].phase = "refused" /\ ~IsOver(calls, n)
      /\ UNCHANGED <<up, requests, replies, selections, site, verdicts>>
  <2>1. CallNumbers = 1..Len(calls) /\ Len(calls) \in Nat
    BY CallsAreRecords DEF ServedIInv
  <2> QED BY <2>1 DEF ServedIInv, MapFailure, IsOver
<1>2. CASE calls[n].do \notin {"select", "cancel"} /\ About(n) # {}
  <2>1. PICK e \in About(n) : End(n, "terminated", e, verdicts[e]) /\ lastError' = {}
    BY <1>2 DEF MapFailure
  <2>2. e \in lastError /\ SameItem(calls, e, n) /\ e \in 1..Len(calls) /\ e \in Nat
    BY <1>1 DEF About, SameItem, ItemIn, CallItem, ServedIInv, NumbersAreCalls
  <2>3. verdicts[e] \in Verdicts
    BY <1>1, <2>2, CallsAreRecords
  <2>4. CallsGoOn /\ OnlyPhase(n, "terminated", e, verdicts[e])
    BY <1>1, <2>1, <2>2, <2>3, EndingACall DEF Phases
  <2>5. /\ ServedIInv'
        /\ MessagesAreTrue => MessagesAreTrue'
        /\ ItemIsItsOwn => ItemIsItsOwn'
    BY <1>1, <2>1, <2>4, EndingSaysNothing
  <2>6. ASSUME TruthIInv PROVE ErrorsComeFirst'
    <3>1. ASSUME NEW m \in lastError, m \in 1..Len(calls), HasItemForItself(calls', m)
          PROVE  FALSE
      <4>1. m = e
        BY <1>1, <2>2, <3>1 DEF ControlTyped
      <4>2. HasItemForItself(calls, m)
        BY <1>1, <2>4, <3>1, CallsKeepTheirItems
      <4>3. n = m
        BY <1>1, <2>2, <2>6, <4>1, <4>2 DEF TruthIInv, ItemIsItsOwn, SameItem
      <4>4. IsOver(calls', n)
        BY <2>4 DEF OnlyPhase, IsOver
      <4> QED BY <3>1, <4>3, <4>4 DEF HasItemForItself
    <3>2. \A k \in DOMAIN replies : replies[k].call \in 1..Len(calls)
      BY <1>1 DEF ServedIInv, NumbersAreCalls
    <3>3. \A m \in 1..Len(calls) : HasItemForItself(calls', m) => HasItemForItself(calls, m)
      BY <1>1, <2>4, CallsKeepTheirItems
    <3>4. ASSUME NEW k \in DOMAIN replies, replies[k].kind = "termination", ~replies[k].ok
          PROVE  /\ k > 1 => replies[k - 1].kind = "error" /\ replies[k - 1].call = replies[k].call
                 /\ k = 1 => ~HasItemForItself(calls', replies[k].call)
      <4>1. /\ k > 1 => replies[k - 1].kind = "error" /\ replies[k - 1].call = replies[k].call
            /\ k = 1 => replies[k].call \in lastError \/ ~HasItemForItself(calls, replies[k].call)
        BY <2>6, <3>4 DEF TruthIInv, ErrorsComeFirst
      <4> QED BY <3>1, <3>2, <3>3, <4>1
    <3> QED BY <1>1, <3>4 DEF ErrorsComeFirst
  <2>7. ASSUME TruthIInv PROVE ResultsStayTrue'
    <3>1. ASSUME calls[n].alone PROVE e = n /\ verdicts[n] # "none"
      <4>1. HasItemForItself(calls, n)
        BY <1>1, <3>1 DEF HasItemForItself
      <4> QED BY <1>1, <2>2, <2>7, <4>1 DEF TruthIInv, ItemIsItsOwn, MessagesAreTrue
    <3>2. ResultIsTrue(calls', verdicts, n)
      <4>1. calls'[n].alone = calls[n].alone
        BY <1>1, <2>4 DEF CallsGoOn
      <4>2. calls'[n].phase = "terminated" /\ calls'[n].by = e /\ calls'[n].cause = verdicts[e]
        BY <2>4 DEF OnlyPhase
      <4> QED BY <3>1, <4>1, <4>2 DEF ResultIsTrue
    <3> QED BY <1>1, <2>4, <2>7, <3>2, ResultsGoOn DEF OnlyPhase, TruthIInv
  <2> QED BY <2>4, <2>5, <2>6, <2>7 DEF TruthIInv
<1>3. CASE ~(calls[n].do \notin {"select", "cancel"} /\ About(n) # {})
  <2>1. End(n, "failed", n, "none") /\ UNCHANGED lastError
    BY <1>3 DEF MapFailure
  <2>2. CallsGoOn /\ OnlyPhase(n, "failed", n, "none")
    BY <1>1, <2>1, EndingACall DEF Phases, Verdicts
  <2>3. /\ ServedIInv'
        /\ MessagesAreTrue => MessagesAreTrue'
        /\ ItemIsItsOwn => ItemIsItsOwn'
    BY <1>1, <2>1, <2>2, EndingSaysNothing
  <2>4. ErrorsComeFirst => ErrorsComeFirst'
    BY <1>1, <2>1, <2>2, ErrorsStayFirst
  <2>5. ResultsStayTrue => ResultsStayTrue'
    <3>1. ResultIsTrue(calls', verdicts, n)
      BY <2>2 DEF ResultIsTrue, OnlyPhase
    <3> QED BY <1>1, <2>2, <3>1, ResultsGoOn DEF OnlyPhase
  <2> QED BY <2>2, <2>3, <2>4, <2>5 DEF TruthIInv
<1> QED BY <1>2, <1>3

(* request_timeout and select_timeout.                                     *)
LEMMA GiveUpKeepsIInv ==
  ASSUME ServedIInv, NEW n \in CallNumbers, GiveUp(n)
  PROVE  CallsGoOn /\ ServedIInv' /\ (TruthIInv => TruthIInv')
<1>1. /\ n \in 1..Len(calls) /\ n \in Nat /\ ControlTyped /\ ~IsOver(calls, n)
      /\ UNCHANGED <<up, requests, replies, selections, site, lastError, verdicts>>
  <2>1. CallNumbers = 1..Len(calls) /\ Len(calls) \in Nat
    BY CallsAreRecords DEF ServedIInv
  <2> QED BY <2>1 DEF ServedIInv, GiveUp, IsOver
<1>2. End(n, "timeout", n, "none")
  BY DEF GiveUp
<1>3. CallsGoOn /\ OnlyPhase(n, "timeout", n, "none")
  BY <1>1, <1>2, EndingACall DEF Phases, Verdicts
<1>4. /\ ServedIInv'
      /\ MessagesAreTrue => MessagesAreTrue'
      /\ ItemIsItsOwn => ItemIsItsOwn'
  BY <1>1, <1>3, EndingSaysNothing
<1>5. ErrorsComeFirst => ErrorsComeFirst'
  BY <1>1, <1>3, ErrorsStayFirst
<1>6. ResultsStayTrue => ResultsStayTrue'
  <2>1. ResultIsTrue(calls', verdicts, n)
    BY <1>3 DEF ResultIsTrue, OnlyPhase
  <2> QED BY <1>1, <1>3, <2>1, ResultsGoOn DEF OnlyPhase
<1> QED BY <1>3, <1>4, <1>5, <1>6 DEF TruthIInv

(* The loop of operate_enhanced.                                           *)
LEMMA TakeTerminationKeepsIInv ==
  ASSUME ServedIInv, NEW n \in CallNumbers, TakeTermination(n)
  PROVE  CallsGoOn /\ ServedIInv' /\ (TruthIInv => TruthIInv')
<1>1. /\ n \in 1..Len(calls) /\ n \in Nat /\ ControlTyped /\ ~IsOver(calls, n)
      /\ CallNumbers = 1..Len(calls) /\ calls[n] \in CallRecord
      /\ calls[n].phase = "waiting" /\ calls[n].heard # <<>>
      /\ UNCHANGED <<up, requests, replies, selections, site, lastError, verdicts>>
  <2>1. CallNumbers = 1..Len(calls) /\ Len(calls) \in Nat
        /\ \A k \in 1..Len(calls) : calls[k] \in CallRecord
    BY CallsAreRecords DEF ServedIInv
  <2> QED BY <2>1 DEF ServedIInv, TakeTermination, IsOver
<1>2. PICK heard \in Seq(Heard) : heard = calls[n].heard
  BY <1>1, RecordFields
<1>3. heard # <<>> /\ 1 \in DOMAIN heard
  BY <1>1, <1>2
<1>4. PICK t \in Heard : t = heard[1] /\ t = Head(heard)
  BY <1>2, <1>3
<1>5. /\ t.of \in 1..Len(calls) /\ t.of \in Nat /\ t.explained \subseteq 1..Len(calls)
      /\ t.ok \in BOOLEAN
  <2>1. t.of \in Nat /\ t.ok \in BOOLEAN
    BY <1>4 DEF Heard
  <2> QED BY <1>1, <1>2, <1>3, <1>4, <2>1 DEF ServedIInv, NumbersAreCalls
<1>6. CASE CallItem(t.of) # CallItem(n)
  <2>1. calls' = [calls EXCEPT ![n].heard = Tail(@)]
    BY <1>2, <1>4, <1>6 DEF TakeTermination
  <2>2. PICK rest \in Seq(Heard) : /\ rest = Tail(heard)
                                   /\ \A i \in DOMAIN rest : i + 1 \in DOMAIN heard /\ rest[i] = heard[i + 1]
    <3>1. /\ Tail(heard) \in Seq(Heard)
          /\ \A i \in DOMAIN Tail(heard) : i + 1 \in DOMAIN heard /\ Tail(heard)[i] = heard[i + 1]
      BY <1>3
    <3> QED BY <3>1
  <2>3. calls' = [k \in CallNumbers |-> IF k \in {n} THEN [calls[k] EXCEPT !.heard = [j \in {n} |-> rest][k]]
                                                     ELSE calls[k]]
    BY <1>1, <1>2, <2>1, <2>2 DEF CallNumbers
  <2>4. /\ CallsGoOn
        /\ \A k \in 1..Len(calls) :
              /\ calls'[k].phase = calls[k].phase
              /\ calls'[k].by = calls[k].by
              /\ calls'[k].cause = calls[k].cause
              /\ k \in {n} => calls'[k].heard = [j \in {n} |-> rest][k]
              /\ k \notin {n} => calls'[k] = calls[k]
    <3>1. \A k \in {n} : k \in 1..Len(calls) /\ ~IsOver(calls, k) /\ [j \in {n} |-> rest][k] \in Seq(Heard)
      BY <1>1
    <3> QED BY <1>1, <2>3, <3>1, Hearing
  <2>5. /\ calls'[n].heard = rest /\ calls'[n].phase = "waiting"
        /\ \A k \in 1..Len(calls) : k # n => calls'[k] = calls[k]
    BY <1>1, <2>4
  <2>6. NothingNewIsHeard
    <3>1. ASSUME NEW k \in 1..Len(calls), NEW i \in DOMAIN calls'[k].heard
          PROVE  \E j \in DOMAIN calls[k].heard : calls'[k].heard[i] = calls[k].heard[j]
      <4>1. CASE k = n
        BY <1>2, <2>2, <2>5, <4>1
      <4>2. CASE k # n
        BY <2>5, <4>2
      <4> QED BY <4>1, <4>2
    <3> QED BY <3>1 DEF NothingNewIsHeard
  <2>7. NothingNewIsSaid
    BY <1>1, <2>4 DEF ControlTyped, NothingNewIsSaid
  <2>8. ErrorsComeFirst => ErrorsComeFirst'
    BY <1>1, <2>4, ErrorsStayFirst
  <2>9. ResultsStayTrue => ResultsStayTrue'
    <3>1. ASSUME ResultsStayTrue, calls[n].do \in Operates PROVE ResultIsTrue(calls', verdicts, n)
      <4>1. ResultIsTrue(calls, verdicts, n)
        BY <1>1, <3>1 DEF ResultsStayTrue
      <4>2. calls'[n].do = calls[n].do
        BY <1>1, <2>4 DEF CallsGoOn
      <4> QED BY <1>1, <2>5, <4>1, <4>2 DEF ResultIsTrue
    <3> QED BY <1>1, <2>4, <2>5, <3>1, ResultsGoOn
  <2> QED BY <2>4, <2>6, <2>7, <2>8, <2>9, HeardBeforeIsTrue DEF TruthIInv
<1>7. CASE CallItem(t.of) = CallItem(n)
  <2>1. PICK phase \in {"ok", "terminated"}, cause \in Verdicts \cup {"unknown"} :
          /\ End(n, phase, t.of, cause)
          /\ t.ok <=> phase = "ok"
          /\ ~t.ok => t.explained = {} \/ \E e \in t.explained : cause = verdicts[e]
    <3>1. CASE t.ok
      <4>1. End(n, "ok", t.of, "none")
        BY <1>2, <1>4, <1>7, <3>1 DEF TakeTermination
      <4> QED BY <3>1, <4>1 DEF Verdicts
    <3>2. CASE ~t.ok /\ t.explained = {}
      <4>1. End(n, "terminated", t.of, "unknown")
        BY <1>2, <1>4, <1>7, <3>2 DEF TakeTermination
      <4> QED BY <3>2, <4>1
    <3>3. CASE ~t.ok /\ t.explained # {}
      <4>1. PICK e \in t.explained : End(n, "terminated", t.of, verdicts[e])
        BY <1>2, <1>4, <1>7, <3>3 DEF TakeTermination
      <4>2. verdicts[e] \in Verdicts
        BY <1>1, <1>5, CallsAreRecords
      <4> QED BY <3>3, <4>1, <4>2
    <3> QED BY <3>1, <3>2, <3>3
  <2>2. CallsGoOn /\ OnlyPhase(n, phase, t.of, cause)
    <3>1. phase \in Phases
      BY DEF Phases
    <3> QED BY <1>1, <1>5, <2>1, <3>1, EndingACall
  <2>3. /\ ServedIInv'
        /\ MessagesAreTrue => MessagesAreTrue'
        /\ ItemIsItsOwn => ItemIsItsOwn'
    BY <1>1, <2>2, EndingSaysNothing
  <2>4. ErrorsComeFirst => ErrorsComeFirst'
    BY <1>1, <2>2, ErrorsStayFirst
  <2>5. ASSUME TruthIInv PROVE ResultsStayTrue'
    <3>1. ASSUME calls[n].do \in Operates PROVE ResultIsTrue(calls', verdicts, n)
      <4>1. calls'[n].do = "operateEnhanced"
        <5>1. calls[n].do = "operateEnhanced"
          BY <1>1, <2>5, <3>1 DEF TruthIInv, ResultsStayTrue, ResultIsTrue
        <5> QED BY <1>1, <2>2, <5>1 DEF CallsGoOn
      <4>2. calls'[n].alone = calls[n].alone
        BY <1>1, <2>2 DEF CallsGoOn
      <4>3. calls'[n].phase = phase /\ calls'[n].by = t.of /\ calls'[n].cause = cause
        BY <2>2 DEF OnlyPhase
      <4>4. ASSUME calls[n].alone PROVE t.of = n /\ (~t.ok => t.explained = {n})
        <5>1. HasItemForItself(calls, n)
          BY <1>1, <4>4 DEF HasItemForItself
        <5>2. 1 \in DOMAIN calls[n].heard /\ calls[n].heard[1] = t
          BY <1>2, <1>3, <1>4
        <5>3. n \in CallNumbers /\ SameItem(calls, t.of, n)
          <6>1. EndsWith(CallItem(n), CallItem(n))
            BY <1>1, ItemsEndWithThemselves
          <6> QED BY <1>1, <1>7, <6>1 DEF SameItem, ItemIn, CallItem
        <5>4. ItemIsItsOwn
          BY <2>5 DEF TruthIInv
        <5> QED BY <5>1, <5>2, <5>3, <5>4 DEF ItemIsItsOwn
      <4>5. HeardIsTrue(verdicts, t)
        BY <1>1, <1>2, <1>3, <1>4, <2>5 DEF TruthIInv, MessagesAreTrue
      <4>6. ASSUME phase = "ok", calls[n].alone PROVE verdicts[n] = "applied"
        BY <2>1, <4>4, <4>5, <4>6 DEF HeardIsTrue
      <4>7. ASSUME phase = "terminated", calls[n].alone
            PROVE  t.of = n /\ cause = verdicts[n] /\ verdicts[n] # "none"
        <5>1. ~t.ok
          BY <2>1, <4>7
        <5> QED BY <2>1, <4>4, <4>5, <4>7, <5>1 DEF HeardIsTrue
      <4> QED BY <4>1, <4>2, <4>3, <4>6, <4>7 DEF ResultIsTrue
    <3> QED BY <1>1, <2>2, <2>5, <3>1, ResultsGoOn DEF OnlyPhase, TruthIInv
  <2> QED BY <2>2, <2>3, <2>4, <2>5 DEF TruthIInv
<1> QED BY <1>6, <1>7

(* The reader takes the first message, and keeps it if it is an error.     *)
LEMMA ReadingKeepsTheOrder ==
  ASSUME ServedIInv, CallsGoOn, ErrorsComeFirst, replies # <<>>, replies' = Tail(replies),
         replies[1].kind = "error" => replies[1].call \in lastError'
  PROVE  ErrorsComeFirst'
<1>1. /\ replies \in Seq(Message) /\ Len(replies) \in Nat
      /\ DOMAIN replies = 1..Len(replies) /\ DOMAIN replies' = 1..Len(replies) - 1
      /\ \A k \in 1..Len(replies) - 1 : replies'[k] = replies[k + 1]
  BY DEF ServedIInv, ControlTyped
<1>2. ASSUME NEW k \in 1..Len(replies) - 1, replies'[k].kind = "termination", ~replies'[k].ok
      PROVE  /\ k > 1 => replies'[k - 1].kind = "error" /\ replies'[k - 1].call = replies'[k].call
             /\ k = 1 => replies'[k].call \in lastError'
  <2>1. k + 1 \in 1..Len(replies) /\ k + 1 > 1 /\ (k + 1) - 1 = k /\ k \in Nat
    BY <1>1
  <2>2. PICK m : m = replies[k + 1] /\ m = replies'[k]
    BY <1>1
  <2>3. replies[(k + 1) - 1].kind = "error" /\ replies[(k + 1) - 1].call = m.call
    BY <1>1, <1>2, <2>1, <2>2 DEF ErrorsComeFirst
  <2>4. replies[k].kind = "error" /\ replies[k].call = m.call
    BY <2>1, <2>3
  <2>5. CASE k = 1
    BY <2>2, <2>4, <2>5
  <2>6. CASE k > 1
    <3>1. k - 1 \in 1..Len(replies) - 1 /\ (k - 1) + 1 = k
      BY <1>1, <2>6
    <3>2. replies'[k - 1] = replies[k]
      BY <1>1, <3>1
    <3> QED BY <2>1, <2>2, <2>4, <2>6, <3>2
  <2> QED BY <2>1, <2>5, <2>6
<1> QED BY <1>1, <1>2 DEF ErrorsComeFirst

(* reader_loop.                                                            *)
LEMMA ReadKeepsIInv ==
  ASSUME ServedIInv, Read
  PROVE  CallsGoOn /\ ServedIInv' /\ (TruthIInv => TruthIInv')
<1>1. /\ ControlTyped /\ CallNumbers = 1..Len(calls) /\ Len(calls) \in Nat
      /\ replies \in Seq(Message) /\ replies # <<>> /\ replies' = Tail(replies)
      /\ UNCHANGED <<up, requests, selections, site, verdicts>>
      /\ \A k \in 1..Len(calls) : calls[k] \in CallRecord
  BY CallsAreRecords DEF ServedIInv, ControlTyped, Read
<1>2. PICK m \in Message : m = replies[1] /\ m = Head(replies)
  BY <1>1
<1>3. PICK n \in 1..Len(calls) : n = m.call /\ n \in Nat
  BY <1>1, <1>2 DEF ServedIInv, NumbersAreCalls, Message
<1>4. /\ replies' \in Seq(Message)
      /\ \A k \in DOMAIN replies' : \E j \in DOMAIN replies : replies'[k] = replies[j]
  <2>1. \A k \in DOMAIN replies' : k + 1 \in DOMAIN replies /\ replies'[k] = replies[k + 1]
    BY <1>1
  <2> QED BY <1>1, <2>1
<1>5. \E j \in DOMAIN replies : n = replies[j].call
  BY <1>1, <1>2, <1>3
<1>6. MessagesAreTrue => MessageIsTrue(calls, verdicts, m)
  BY <1>1, <1>2 DEF MessagesAreTrue
<1>7. ASSUME ItemIsItsOwn, NEW k \in 1..Len(calls), HasItemForItself(calls, k), SameItem(calls, n, k)
      PROVE  n = k
  BY <1>1, <1>5, <1>7 DEF ItemIsItsOwn
<1>8. m.kind \in Kinds /\ m.ok \in BOOLEAN
  BY DEF Message
<1>9. CASE m.kind = "error"
  <2>1. lastError' = {n} /\ calls' = calls
    BY <1>2, <1>3, <1>9 DEF Read, Noted
  <2>2. CallsGoOn /\ NothingNewIsHeard
    BY <1>1, <2>1 DEF CallsGoOn, NothingNewIsHeard, ControlTyped
  <2>3. NothingNewIsSaid
    BY <1>1, <1>4, <1>5, <2>1, <2>2 DEF NothingNewIsSaid, ControlTyped
  <2>4. ErrorsComeFirst => ErrorsComeFirst'
    BY <1>1, <1>2, <1>3, <2>1, <2>2, ReadingKeepsTheOrder
  <2>5. ResultsStayTrue => ResultsStayTrue'
    BY <1>1, <2>1 DEF ResultsStayTrue, ResultIsTrue, CallNumbers
  <2> QED BY <2>2, <2>3, <2>4, <2>5, HeardBeforeIsTrue DEF TruthIInv
<1>10. CASE m.kind = "termination"
  <2> DEFINE explained == IF m.ok THEN {} ELSE About(n)
  <2>1. PICK t \in Heard : /\ t.of = n /\ t.ok = m.ok /\ t.explained = explained
                           /\ lastError' = lastError \ explained
                           /\ calls' = [k \in CallNumbers |->
                                IF calls[k].do = "operateEnhanced" /\ ~IsOver(calls, k)
                                  THEN [calls[k] EXCEPT !.heard = Append(@, t)] ELSE calls[k]]
    <3> DEFINE t0 == [of |-> n, ok |-> m.ok, explained |-> explained]
    <3>1. t0 \in Heard /\ t0.of = n /\ t0.ok = m.ok /\ t0.explained = explained
      BY <1>1, <1>3, <1>8 DEF Heard, About, ControlTyped
    <3>2. /\ lastError' = lastError \ explained
          /\ calls' = [k \in CallNumbers |->
                                IF calls[k].do = "operateEnhanced" /\ ~IsOver(calls, k)
                                  THEN [calls[k] EXCEPT !.heard = Append(@, t0)] ELSE calls[k]]
      BY <1>2, <1>3, <1>10 DEF Read, IsOver, Ended
    <3> HIDE DEF t0
    <3> QED BY <3>1, <3>2
  <2>2. /\ explained \subseteq lastError
        /\ \A e \in explained : SameItem(calls, e, n)
        /\ ~m.ok /\ n \in lastError => n \in explained
    <3>1. EndsWith(CallItem(n), CallItem(n))
      BY <1>1, ItemsEndWithThemselves
    <3> QED BY <3>1 DEF About, SameItem, ItemIn, CallItem
  <2>3. \A e \in lastError : e \in 1..Len(calls)
    BY <1>1 DEF ServedIInv, NumbersAreCalls
  <2> HIDE DEF explained
  <2> DEFINE who == {k \in 1..Len(calls) : calls[k].do = "operateEnhanced" /\ ~IsOver(calls, k)}
             what == [k \in who |-> Append(calls[k].heard, t)]
  <2>4. /\ CallsGoOn
        /\ \A k \in 1..Len(calls) :
              /\ calls'[k].phase = calls[k].phase
              /\ calls'[k].by = calls[k].by
              /\ calls'[k].cause = calls[k].cause
              /\ k \in who => calls'[k].heard = what[k]
              /\ k \notin who => calls'[k] = calls[k]
    <3>1. ASSUME NEW k \in who PROVE k \in 1..Len(calls) /\ ~IsOver(calls, k) /\ what[k] \in Seq(Heard)
      <4>1. calls[k].heard \in Seq(Heard)
        BY <1>1, RecordFields
      <4> QED BY <4>1
    <3>2. calls' = [k \in CallNumbers |-> IF k \in who THEN [calls[k] EXCEPT !.heard = what[k]]
                                                      ELSE calls[k]]
      BY <1>1, <2>1
    <3> HIDE DEF who, what
    <3> QED BY <1>1, <3>1, <3>2, Hearing
  <2>5. ASSUME NEW k \in 1..Len(calls), NEW i \in DOMAIN calls'[k].heard
        PROVE  calls'[k].heard[i] = t \/ \E j \in DOMAIN calls[k].heard : calls'[k].heard[i] = calls[k].heard[j]
    <3>1. calls[k].heard \in Seq(Heard)
      BY <1>1, RecordFields
    <3>2. CASE k \in who
      <4>1. calls'[k].heard = Append(calls[k].heard, t)
        BY <2>4, <3>2
      <4>2. PICK h \in Seq(Heard) : h = calls[k].heard
        BY <3>1
      <4>3. i \in DOMAIN Append(h, t)
        BY <2>5, <4>1, <4>2
      <4>4. i \in DOMAIN h \/ Append(h, t)[i] = t
        BY <4>3
      <4>5. i \in DOMAIN h => Append(h, t)[i] = h[i]
        OBVIOUS
      <4> QED BY <4>1, <4>2, <4>4, <4>5
    <3>3. CASE k \notin who
      BY <2>4, <3>3
    <3> QED BY <3>2, <3>3
  <2> HIDE DEF who, what
  <2>6. NothingNewIsSaid
    BY <1>1, <1>4, <2>1, <2>4 DEF NothingNewIsSaid, ControlTyped
  <2>7. \A k \in 1..Len(calls) : \A i \in DOMAIN calls'[k].heard :
           /\ calls'[k].heard[i].of \in 1..Len(calls)
           /\ calls'[k].heard[i].explained \subseteq 1..Len(calls)
    <3>1. t.of \in 1..Len(calls) /\ t.explained \subseteq 1..Len(calls)
      BY <2>1, <2>2, <2>3
    <3>2. \A k \in 1..Len(calls) : \A j \in DOMAIN calls[k].heard :
             /\ calls[k].heard[j].of \in 1..Len(calls)
             /\ calls[k].heard[j].explained \subseteq 1..Len(calls)
      BY <1>1 DEF ServedIInv, NumbersAreCalls
    <3> SUFFICES ASSUME NEW k \in 1..Len(calls), NEW i \in DOMAIN calls'[k].heard
                 PROVE  /\ calls'[k].heard[i].of \in 1..Len(calls)
                        /\ calls'[k].heard[i].explained \subseteq 1..Len(calls)
      OBVIOUS
    <3>3. CASE calls'[k].heard[i] = t
      BY <3>1, <3>3
    <3>4. ASSUME NEW j \in DOMAIN calls[k].heard, calls'[k].heard[i] = calls[k].heard[j]
          PROVE  /\ calls'[k].heard[i].of \in 1..Len(calls)
                 /\ calls'[k].heard[i].explained \subseteq 1..Len(calls)
      BY <3>2, <3>4
    <3> QED BY <2>5, <3>3, <3>4
  <2>8. ServedIInv'
    BY <2>6, <2>7, ServedIInvGoesOn
  <2>9. ASSUME TruthIInv PROVE MessagesAreTrue'
    <3>1. HeardIsTrue(verdicts, t)
      <4>1. IF t.ok THEN verdicts[t.of] = "applied" ELSE Refused(verdicts, t.of)
        BY <1>3, <1>6, <1>10, <2>1, <2>9 DEF TruthIInv, MessageIsTrue
      <4>2. \A e \in t.explained : verdicts[e] # "none"
        BY <2>1, <2>2, <2>9 DEF TruthIInv, MessagesAreTrue
      <4> QED BY <4>1, <4>2 DEF HeardIsTrue
    <3>2. \A k \in 1..Len(calls) : \A i \in DOMAIN calls'[k].heard :
            HeardIsTrue(verdicts, calls'[k].heard[i])
      BY <1>1, <2>5, <2>9, <3>1 DEF TruthIInv, MessagesAreTrue
    <3> QED BY <2>6, <2>9, <3>2, MessagesStayTrue DEF TruthIInv
  <2>10. ASSUME TruthIInv PROVE ItemIsItsOwn'
    <3>1. ASSUME NEW k \in 1..Len(calls), HasItemForItself(calls', k), NEW i \in DOMAIN calls'[k].heard
          PROVE  LET u == calls'[k].heard[i]
                 IN  SameItem(calls, u.of, k) => u.of = k /\ (~u.ok => u.explained = {k})
      <4>1. HasItemForItself(calls, k)
        BY <1>1, <2>4, <3>1, CallsKeepTheirItems
      <4>2. SameItem(calls, n, k) => n = k /\ (~m.ok => explained = {k})
        <5>1. SUFFICES ASSUME SameItem(calls, n, k) PROVE n = k /\ (~m.ok => explained = {k})
          OBVIOUS
        <5>2. n = k
          BY <1>7, <2>10, <4>1, <5>1 DEF TruthIInv
        <5>3. ASSUME ~m.ok PROVE n \in lastError
          BY <1>1, <1>2, <1>3, <1>10, <2>10, <4>1, <5>2, <5>3 DEF TruthIInv, ErrorsComeFirst
        <5>4. ASSUME ~m.ok PROVE explained = {k}
          <6>1. n \in explained
            BY <2>2, <5>3, <5>4
          <6>2. \A e \in explained : e = n
            BY <1>1, <2>2, <6>1 DEF ControlTyped
          <6> QED BY <5>2, <6>1, <6>2
        <5> QED BY <5>2, <5>4
      <4>3. CASE calls'[k].heard[i] = t
        BY <2>1, <4>2, <4>3
      <4>4. CASE \E j \in DOMAIN calls[k].heard : calls'[k].heard[i] = calls[k].heard[j]
        BY <1>1, <2>10, <4>1, <4>4 DEF TruthIInv, ItemIsItsOwn
      <4> QED BY <2>5, <4>3, <4>4
    <3> QED BY <2>6, <2>7, <2>10, <3>1, ItemsStayTheirOwn DEF TruthIInv
  <2>11. ErrorsComeFirst => ErrorsComeFirst'
    BY <1>1, <1>2, <1>10, <2>4, ReadingKeepsTheOrder
  <2>12. ResultsStayTrue => ResultsStayTrue'
    <3>1. ASSUME ResultsStayTrue, NEW k \in 1..Len(calls), calls'[k].do \in Operates
          PROVE  ResultIsTrue(calls', verdicts', k)
      <4>1. /\ calls'[k].phase = calls[k].phase /\ calls'[k].by = calls[k].by
            /\ calls'[k].cause = calls[k].cause /\ calls'[k].do = calls[k].do
            /\ calls'[k].obj = calls[k].obj /\ calls'[k].alone = calls[k].alone
        BY <2>4 DEF CallsGoOn
      <4>2. ResultIsTrue(calls, verdicts, k)
        BY <1>1, <3>1, <4>1 DEF ResultsStayTrue
      <4> QED BY <1>1, <4>1, <4>2 DEF ResultIsTrue, Refused
    <3>2. CallNumbers' = 1..Len(calls)
      BY <1>1, <2>4, CallsKeepTheirItems
    <3> QED BY <3>1, <3>2 DEF ResultsStayTrue
  <2> QED BY <2>4, <2>8, <2>9, <2>10, <2>11, <2>12 DEF TruthIInv
<1>11. CASE m.kind = "answer"
  <2>1. /\ UNCHANGED lastError
        /\ IF calls[n].phase # "asked" THEN UNCHANGED calls
                   ELSE calls' = [calls EXCEPT ![n].phase =
                                    IF ~m.ok THEN "refused"
                                    ELSE IF @ = "asked" /\ calls[n].do = "operateEnhanced"
                                           THEN "waiting" ELSE "ok"]
    BY <1>2, <1>3, <1>11 DEF Read
  <2>2. ErrorsComeFirst /\ CallsGoOn => ErrorsComeFirst'
    BY <1>1, <1>2, <1>11, ReadingKeepsTheOrder
  <2>3. CASE calls[n].phase # "asked"
    <3>1. UNCHANGED calls
      BY <2>1, <2>3
    <3>2. CallsGoOn /\ NothingNewIsHeard
      BY <1>1, <3>1 DEF CallsGoOn, NothingNewIsHeard, ControlTyped
    <3>3. NothingNewIsSaid
      BY <1>1, <1>4, <2>1, <3>2 DEF NothingNewIsSaid, ControlTyped
    <3>4. ResultsStayTrue => ResultsStayTrue'
      BY <1>1, <3>1 DEF ResultsStayTrue, ResultIsTrue, CallNumbers
    <3> QED BY <2>2, <3>2, <3>3, <3>4, HeardBeforeIsTrue DEF TruthIInv
  <2>4. CASE calls[n].phase = "asked"
    <3>1. PICK phase \in {"refused", "waiting", "ok"} :
            /\ calls' = [calls EXCEPT ![n].phase = phase]
            /\ phase = "refused" <=> ~m.ok
            /\ phase = "waiting" => calls[n].do = "operateEnhanced"
            /\ phase = "ok" => calls[n].do # "operateEnhanced"
      <4> DEFINE p == IF ~m.ok THEN "refused"
                      ELSE IF calls[n].phase = "asked" /\ calls[n].do = "operateEnhanced"
                                           THEN "waiting" ELSE "ok"
      <4>1. calls' = [calls EXCEPT ![n].phase = p]
        BY <2>1, <2>4
      <4>2. /\ p \in {"refused", "waiting", "ok"}
            /\ p = "refused" <=> ~m.ok
            /\ p = "waiting" => calls[n].do = "operateEnhanced"
            /\ p = "ok" => calls[n].do # "operateEnhanced"
        BY <2>4
      <4> HIDE DEF p
      <4> QED BY <4>1, <4>2
    <3>2. CallsGoOn /\ OnlyPhase(n, phase, calls[n].by, calls[n].cause)
      <4>1. ~IsOver(calls, n) /\ phase \in Phases
        BY <2>4 DEF IsOver, Phases
      <4> QED BY <1>1, <3>1, <4>1, AnsweringACall
    <3>3. NothingNewIsHeard
      <4>1. \A k \in 1..Len(calls) : calls'[k].heard = calls[k].heard
        <5>1. ASSUME NEW k \in 1..Len(calls) PROVE calls'[k].heard = calls[k].heard
          <6>1. CASE k = n
            BY <3>2, <6>1 DEF OnlyPhase
          <6>2. CASE k # n
            BY <3>2, <6>2 DEF OnlyPhase
          <6> QED BY <6>1, <6>2
        <5> QED BY <5>1
      <4> QED BY <4>1 DEF NothingNewIsHeard
    <3>4. NothingNewIsSaid
      BY <1>1, <1>4, <2>1, <3>2 DEF NothingNewIsSaid, ControlTyped
    <3>5. ASSUME TruthIInv PROVE ResultsStayTrue'
      <4>1. ASSUME calls[n].do \in Operates PROVE ResultIsTrue(calls', verdicts, n)
        <5>1. /\ calls'[n].phase = phase
              /\ calls'[n].do = calls[n].do /\ calls'[n].obj = calls[n].obj
          BY <3>2 DEF OnlyPhase, CallsGoOn
        <5>2. IF m.ok THEN verdicts[n] = "applied" \/ Enhanced(calls[n].obj) ELSE Refused(verdicts, n)
          BY <1>3, <1>6, <1>11, <3>5, <4>1 DEF TruthIInv, MessageIsTrue
        <5> QED BY <3>1, <5>1, <5>2 DEF ResultIsTrue
      <4> QED BY <1>1, <3>2, <3>5, <4>1, ResultsGoOn DEF OnlyPhase, TruthIInv
    <3> QED BY <2>2, <3>2, <3>3, <3>4, <3>5, HeardBeforeIsTrue DEF TruthIInv
  <2> QED BY <2>3, <2>4
<1> QED BY <1>8, <1>9, <1>10, <1>11 DEF Kinds

(* The connection is lost.                                                 *)
LEMMA LoseConnectionKeepsIInv ==
  ASSUME ServedIInv, LoseConnection
  PROVE  CallsGoOn /\ ServedIInv' /\ (TruthIInv => TruthIInv')
<1>1. /\ ControlTyped /\ CallNumbers = 1..Len(calls) /\ Len(calls) \in Nat
      /\ requests' = <<>> /\ replies' = <<>>
      /\ selections' = [o \in Objects |-> "none"]
      /\ UNCHANGED <<lastError, verdicts>>
      /\ \A k \in 1..Len(calls) : calls[k] \in CallRecord
  BY CallsAreRecords DEF ServedIInv, LoseConnection
<1>2. ASSUME NEW k \in 1..Len(calls)
      PROVE  /\ calls'[k] \in CallRecord
             /\ calls'[k].do = calls[k].do /\ calls'[k].obj = calls[k].obj
             /\ calls'[k].alone = calls[k].alone /\ calls'[k].heard = calls[k].heard
             /\ calls[k].phase = "asked" => calls'[k].phase = "failed"
             /\ calls[k].phase # "asked" => calls'[k] = calls[k]
  <2>1. calls[k] \in CallRecord
    BY <1>1
  <2>2. calls'[k] = IF calls[k].phase = "asked" THEN [calls[k] EXCEPT !.phase = "failed"] ELSE calls[k]
    BY <1>1 DEF LoseConnection
  <2>3. CASE calls[k].phase = "asked"
    BY <2>1, <2>2, <2>3 DEF CallRecord, Phases
  <2>4. CASE calls[k].phase # "asked"
    BY <2>1, <2>2, <2>4
  <2> QED BY <2>3, <2>4
<1>3. calls' \in Seq(CallRecord) /\ Len(calls') = Len(calls)
  <2>1. calls' = [k \in 1..Len(calls) |-> calls'[k]]
    BY <1>1 DEF LoseConnection
  <2>2. calls' \in [1..Len(calls) -> CallRecord]
    BY <1>2, <2>1
  <2> QED BY <1>1, <2>2, FunctionIsSequence
<1>4. CallsGoOn
  <2>1. \A k \in 1..Len(calls) : IsOver(calls, k) => calls'[k] = calls[k]
    BY <1>2 DEF IsOver
  <2> QED BY <1>2, <1>3, <2>1 DEF CallsGoOn
<1>5. NothingNewIsHeard
  BY <1>2 DEF NothingNewIsHeard
<1>6. NothingNewIsSaid
  <2>1. requests' \in Seq(Nat) /\ replies' \in Seq(Message)
    BY <1>1
  <2>2. DOMAIN requests' = {} /\ DOMAIN replies' = {}
    BY <1>1
  <2>3. selections' \in [Objects -> {"none", "held", "over"}]
    BY <1>1
  <2>4. \A e, f \in lastError' : e = f
    BY <1>1 DEF ControlTyped
  <2> QED BY <1>1, <1>4, <2>1, <2>2, <2>3, <2>4 DEF NothingNewIsSaid
<1>7. ErrorsComeFirst'
  BY <1>1 DEF ErrorsComeFirst
<1>8. ResultsStayTrue => ResultsStayTrue'
  <2>1. ASSUME ResultsStayTrue, NEW k \in 1..Len(calls), calls'[k].do \in Operates
        PROVE  ResultIsTrue(calls', verdicts, k)
    <3>1. CASE calls[k].phase = "asked"
      BY <1>2, <3>1 DEF ResultIsTrue
    <3>2. CASE calls[k].phase # "asked"
      <4>1. calls'[k] = calls[k]
        BY <1>2, <3>2
      <4>2. ResultIsTrue(calls, verdicts, k)
        BY <1>1, <2>1, <4>1 DEF ResultsStayTrue
      <4> QED BY <4>1, <4>2 DEF ResultIsTrue
    <3> QED BY <3>1, <3>2
  <2>2. CallNumbers' = 1..Len(calls)
    BY <1>1, <1>4, CallsKeepTheirItems
  <2> QED BY <1>1, <2>1, <2>2 DEF ResultsStayTrue
<1> QED BY <1>4, <1>5, <1>6, <1>7, <1>8, HeardBeforeIsTrue DEF TruthIInv

LEMMA ExpireKeepsIInv ==
  ASSUME ServedIInv, (\E o \in Objects : Expire(o)) \/ UNCHANGED controlVars
  PROVE  CallsGoOn /\ ServedIInv' /\ (TruthIInv => TruthIInv')
<1>1. UNCHANGED <<requests, replies, lastError, calls, verdicts>>
  BY DEF Expire, controlVars
<1>2. selections' \in [Objects -> {"none", "held", "over"}]
  BY DEF Expire, controlVars, ServedIInv, ControlTyped
<1>3. CallNumbers' = CallNumbers
  BY <1>1 DEF CallNumbers
<1>4. ServedIInv'
  <2>1. ControlTyped'
    BY <1>1, <1>2 DEF ServedIInv, ControlTyped
  <2>2. NumbersAreCalls' /\ RequestsAreUnserved'
    BY <1>1, <1>3 DEF ServedIInv, NumbersAreCalls, RequestsAreUnserved
  <2> QED BY <2>1, <2>2 DEF ServedIInv
<1>5. MessagesAreTrue => MessagesAreTrue'
  BY <1>1, <1>3 DEF MessagesAreTrue
<1>6. ItemIsItsOwn => ItemIsItsOwn'
  BY <1>1, <1>3 DEF ItemIsItsOwn
<1>7. ErrorsComeFirst => ErrorsComeFirst'
  BY <1>1 DEF ErrorsComeFirst
<1>8. ResultsStayTrue => ResultsStayTrue'
  BY <1>1, <1>3 DEF ResultsStayTrue
<1>9. CallsGoOn
  BY <1>1 DEF CallsGoOn, ServedIInv, ControlTyped
<1> QED BY <1>4, <1>5, <1>6, <1>7, <1>8, <1>9 DEF TruthIInv

-----------------------------------------------------------------------------
(* What the server says of a call that it has served, an error before the  *)
(* termination that it explains.                                           *)
SaysOfACall(n, verdict, m) ==
  /\ m.call = n
  /\ m.kind = "error" => verdict # "applied"
  /\ m.kind = "termination" => IF m.ok THEN verdict = "applied" ELSE verdict # "applied"
  /\ m.kind = "answer" /\ calls[n].do \in Operates =>
       IF m.ok THEN verdict = "applied" \/ Enhanced(calls[n].obj) ELSE verdict # "applied"

NegativeTermination(m) == m.kind = "termination" /\ ~m.ok

AboutOneCall(n, verdict, messages) ==
  /\ messages \in Seq(Message)
  /\ \A i \in DOMAIN messages :
       /\ SaysOfACall(n, verdict, messages[i])
       /\ NegativeTermination(messages[i]) => i > 1 /\ messages[i - 1].kind = "error"

LEMMA ServedMessages ==
  ASSUME NEW n \in Nat
  PROVE  /\ Error(n) \in Message /\ Error(n).kind = "error" /\ Error(n).call = n
         /\ \A ok \in BOOLEAN :
              /\ Answer(n, ok) \in Message /\ Answer(n, ok).kind = "answer"
              /\ Answer(n, ok).call = n /\ Answer(n, ok).ok = ok
              /\ Termination(n, ok) \in Message /\ Termination(n, ok).kind = "termination"
              /\ Termination(n, ok).call = n /\ Termination(n, ok).ok = ok
  BY DEF Error, Answer, Termination, Message, Kinds

LEMMA ShapesOfReplies ==
  ASSUME NEW n \in Nat, NEW verdict
  PROVE  /\ calls[n].do \notin Operates =>
              \A ok \in BOOLEAN : AboutOneCall(n, verdict, <<Answer(n, ok)>>)
         /\ verdict # "applied" => AboutOneCall(n, verdict, <<Answer(n, FALSE)>>)
         /\ verdict = "applied" => AboutOneCall(n, verdict, <<Answer(n, TRUE)>>)
         /\ verdict # "applied" => AboutOneCall(n, verdict, <<Error(n), Answer(n, FALSE)>>)
         /\ verdict # "applied" /\ Enhanced(calls[n].obj) =>
              AboutOneCall(n, verdict, <<Answer(n, TRUE), Error(n), Termination(n, FALSE)>>)
         /\ verdict = "applied" =>
              AboutOneCall(n, verdict, <<Answer(n, TRUE), Termination(n, TRUE)>>)
<1>1. PICK e \in Message : e = Error(n) /\ e.kind = "error" /\ e.call = n
  <2>1. LET w == Error(n) IN w \in Message /\ w.kind = "error" /\ w.call = n
    BY ServedMessages
  <2> QED BY <2>1
<1>2. PICK y \in Message : y = Answer(n, TRUE) /\ y.kind = "answer" /\ y.call = n /\ y.ok = TRUE
  <2>1. LET w == Answer(n, TRUE) IN w \in Message /\ w.kind = "answer" /\ w.call = n /\ w.ok = TRUE
    BY ServedMessages
  <2> QED BY <2>1
<1>3. PICK x \in Message : x = Answer(n, FALSE) /\ x.kind = "answer" /\ x.call = n /\ x.ok = FALSE
  <2>1. LET w == Answer(n, FALSE) IN w \in Message /\ w.kind = "answer" /\ w.call = n /\ w.ok = FALSE
    BY ServedMessages
  <2> QED BY <2>1
<1>4. PICK t \in Message : t = Termination(n, TRUE) /\ t.kind = "termination" /\ t.call = n /\ t.ok = TRUE
  <2>1. LET w == Termination(n, TRUE) IN w \in Message /\ w.kind = "termination" /\ w.call = n /\ w.ok = TRUE
    BY ServedMessages
  <2> QED BY <2>1
<1>5. PICK f \in Message : f = Termination(n, FALSE) /\ f.kind = "termination" /\ f.call = n /\ f.ok = FALSE
  <2>1. LET w == Termination(n, FALSE) IN w \in Message /\ w.kind = "termination" /\ w.call = n /\ w.ok = FALSE
    BY ServedMessages
  <2> QED BY <2>1
<1>6. /\ verdict # "applied" => SaysOfACall(n, verdict, e)
      /\ verdict = "applied" \/ calls[n].do \notin Operates \/ Enhanced(calls[n].obj) =>
           SaysOfACall(n, verdict, y)
      /\ verdict # "applied" \/ calls[n].do \notin Operates => SaysOfACall(n, verdict, x)
      /\ verdict = "applied" => SaysOfACall(n, verdict, t)
      /\ verdict # "applied" => SaysOfACall(n, verdict, f)
  BY <1>1, <1>2, <1>3, <1>4, <1>5 DEF SaysOfACall
<1>7. ~NegativeTermination(e) /\ ~NegativeTermination(y) /\ ~NegativeTermination(x)
      /\ ~NegativeTermination(t)
  BY <1>1, <1>2, <1>3, <1>4 DEF NegativeTermination
<1>8. ASSUME NEW m \in Message, SaysOfACall(n, verdict, m), ~NegativeTermination(m)
      PROVE  AboutOneCall(n, verdict, <<m>>)
  BY <1>8 DEF AboutOneCall
<1>9. ASSUME NEW l \in Message, SaysOfACall(n, verdict, l), ~NegativeTermination(l),
             NEW m \in Message, SaysOfACall(n, verdict, m), ~NegativeTermination(m)
      PROVE  AboutOneCall(n, verdict, <<l, m>>)
  <2> DEFINE s == <<l, m>>
  <2>1. s \in Seq(Message) /\ DOMAIN s = 1..2 /\ s[1] = l /\ s[2] = m
    OBVIOUS
  <2> HIDE DEF s
  <2>2. \A i \in 1..2 : i = 1 \/ i = 2
    OBVIOUS
  <2>3. \A i \in DOMAIN s :
          SaysOfACall(n, verdict, s[i]) /\ ~NegativeTermination(s[i])
    BY <1>9, <2>1, <2>2
  <2>4. AboutOneCall(n, verdict, s)
    BY <2>1, <2>3 DEF AboutOneCall
  <2> QED BY <2>4 DEF s
<1>10. ASSUME verdict # "applied", Enhanced(calls[n].obj) PROVE AboutOneCall(n, verdict, <<y, e, f>>)
  <2>1. SaysOfACall(n, verdict, y) /\ SaysOfACall(n, verdict, e) /\ SaysOfACall(n, verdict, f)
    BY <1>6, <1>10
  <2> DEFINE s == <<y, e, f>>
  <2>2. s \in Seq(Message) /\ DOMAIN s = 1..3 /\ s[1] = y /\ s[2] = e /\ s[3] = f
    OBVIOUS
  <2> HIDE DEF s
  <2>3. \A i \in 1..3 : i = 1 \/ i = 2 \/ i = 3
    OBVIOUS
  <2>4. s[3 - 1] = e /\ 3 > 1
    BY <2>2
  <2>5. \A i \in DOMAIN s :
          /\ SaysOfACall(n, verdict, s[i])
          /\ NegativeTermination(s[i]) => i > 1 /\ s[i - 1].kind = "error"
    BY <1>1, <1>7, <2>1, <2>2, <2>3, <2>4
  <2>6. AboutOneCall(n, verdict, s)
    BY <2>2, <2>5 DEF AboutOneCall
  <2> QED BY <2>6 DEF s
<1> QED BY <1>1, <1>2, <1>3, <1>4, <1>5, <1>6, <1>7, <1>8, <1>9, <1>10

(* The server serves the first request: with which verdict, with which      *)
(* messages and what becomes of the selection of its object.               *)
ServedWith(n, verdict, messages) ==
  /\ Reply(n, verdict, messages)
  /\ AboutOneCall(n, verdict, messages)
  /\ \A o \in Objects : o # calls[n].obj => selections'[o] = selections[o]
  /\ WithSelection(calls[n].obj) =>
       /\ verdict = "applied" => selections[calls[n].obj] = "held"
       /\ verdict \notin {"granted", "denied", "no status"} => selections'[calls[n].obj] = "none"
       /\ verdict \in {"denied", "no status"} => selections' = selections

LEMMA ServingACall ==
  ASSUME ServedIInv, Serve
  PROVE  \E n \in 1..Len(calls), verdict \in Verdicts \ {"none"}, messages \in Seq(Message) :
           /\ n = requests[1] /\ requests # <<>>
           /\ ServedWith(n, verdict, messages)
           /\ selections' \in [Objects -> {"none", "held", "over"}]
           /\ UNCHANGED <<up, site, lastError, calls>>
<1>1. /\ ControlTyped /\ CallNumbers = 1..Len(calls) /\ Len(calls) \in Nat
      /\ requests \in Seq(Nat) /\ requests # <<>>
      /\ selections \in [Objects -> {"none", "held", "over"}]
      /\ UNCHANGED <<up, site, lastError, calls>>
  BY CallsAreRecords DEF ServedIInv, ControlTyped, Serve
<1>2. PICK n \in 1..Len(calls) : n = requests[1] /\ n = Head(requests) /\ n \in Nat
  BY <1>1 DEF ServedIInv, NumbersAreCalls
<1>3. PICK o \in Objects : o = calls[n].obj
  BY <1>1, CallsAreRecords, RecordFields
<1>9. ASSUME NEW verdict \in {"denied", "no status"}, Reply(n, verdict, <<Answer(n, FALSE)>>),
             UNCHANGED selections
      PROVE  AboutOneCall(n, verdict, <<Answer(n, FALSE)>>) /\ ServedWith(n, verdict, <<Answer(n, FALSE)>>)
  <2>1. AboutOneCall(n, verdict, <<Answer(n, FALSE)>>)
    BY <1>2, ShapesOfReplies
  <2> QED BY <1>9, <2>1 DEF ServedWith
<1>7. CASE ServeDenied(n)
  <2>1. Reply(n, "denied", <<Answer(n, FALSE)>>) /\ UNCHANGED selections
    BY <1>7 DEF ServeDenied
  <2>2. AboutOneCall(n, "denied", <<Answer(n, FALSE)>>) /\ ServedWith(n, "denied", <<Answer(n, FALSE)>>)
    BY <1>9, <2>1
  <2> QED BY <1>1, <1>2, <2>1, <2>2 DEF AboutOneCall, Verdicts
<1>8. CASE ServeStatusless(n, o)
  <2>1. Reply(n, "no status", <<Answer(n, FALSE)>>) /\ UNCHANGED selections
    BY <1>8 DEF ServeStatusless
  <2>2. AboutOneCall(n, "no status", <<Answer(n, FALSE)>>) /\ ServedWith(n, "no status", <<Answer(n, FALSE)>>)
    BY <1>9, <2>1
  <2> QED BY <1>1, <1>2, <2>1, <2>2 DEF AboutOneCall, Verdicts
<1>4. CASE ServeSelect(n, o)
  <2>1. calls[n].do \notin Operates
    BY <1>4 DEF ServeSelect, Selects, Operates
  <2>2. CASE WithSelection(o)
    <3>1. /\ selections' = [selections EXCEPT ![o] = "held"]
          /\ Reply(n, "granted", <<Answer(n, TRUE)>>)
      BY <1>4, <2>2 DEF ServeSelect
    <3>2. AboutOneCall(n, "granted", <<Answer(n, TRUE)>>)
      BY <1>2, <2>1, ShapesOfReplies
    <3>3. selections' \in [Objects -> {"none", "held", "over"}]
      BY <1>1, <3>1
    <3>4. ServedWith(n, "granted", <<Answer(n, TRUE)>>)
      BY <1>1, <1>3, <3>1, <3>2 DEF ServedWith
    <3> QED BY <1>1, <1>2, <3>2, <3>3, <3>4 DEF AboutOneCall, Verdicts
  <2>3. CASE ~WithSelection(o)
    <3>1. PICK messages : /\ UNCHANGED selections
                          /\ messages \in {<<Answer(n, FALSE)>>, <<Error(n), Answer(n, FALSE)>>}
                          /\ Reply(n, "not supported", messages)
      BY <1>4, <2>3 DEF ServeSelect
    <3>2. AboutOneCall(n, "not supported", messages)
      BY <1>2, <3>1, ShapesOfReplies
    <3>3. ServedWith(n, "not supported", messages)
      BY <1>3, <2>3, <3>1, <3>2 DEF ServedWith
    <3> QED BY <1>1, <1>2, <3>1, <3>2, <3>3 DEF AboutOneCall, Verdicts
  <2> QED BY <2>2, <2>3
<1>5. CASE ServeCancel(n, o)
  <2>1. /\ selections' = [selections EXCEPT ![o] = "none"]
        /\ Reply(n, "cancelled", <<Answer(n, TRUE)>>)
        /\ calls[n].do \notin Operates
    BY <1>5 DEF ServeCancel, Operates
  <2>2. AboutOneCall(n, "cancelled", <<Answer(n, TRUE)>>)
    BY <1>2, <2>1, ShapesOfReplies
  <2>3. /\ selections' \in [Objects -> {"none", "held", "over"}]
        /\ selections'[o] = "none"
        /\ \A q \in Objects : q # o => selections'[q] = selections[q]
    BY <1>1, <2>1
  <2>4. ServedWith(n, "cancelled", <<Answer(n, TRUE)>>)
    BY <1>3, <2>1, <2>2, <2>3 DEF ServedWith
  <2> QED BY <1>1, <1>2, <2>2, <2>3, <2>4 DEF AboutOneCall, Verdicts
<1>6. CASE ServeOperate(n, o)
  <2>1. /\ selections' \in [Objects -> {"none", "held", "over"}]
        /\ WithSelection(o) => selections'[o] = "none"
        /\ \A q \in Objects : q # o => selections'[q] = selections[q]
    BY <1>1, <1>6 DEF ServeOperate, Spent
  <2>2. WithSelection(o) /\ Refusal(o) = {} => selections[o] = "held"
    <3>1. selections[o] \in {"none", "held", "over"}
      BY <1>1
    <3> QED BY <3>1 DEF Refusal
  <2>3. CASE Refusal(o) # {}
    <3>1. PICK cause \in Refusal(o) : Reply(n, cause, <<Error(n), Answer(n, FALSE)>>)
      BY <1>6, <2>3 DEF ServeOperate
    <3>2. cause \in Verdicts \ {"none"} /\ cause \notin {"applied", "granted", "denied", "no status"}
      BY DEF Refusal, Verdicts
    <3>3. AboutOneCall(n, cause, <<Error(n), Answer(n, FALSE)>>)
      BY <1>2, <3>2, ShapesOfReplies
    <3>4. ServedWith(n, cause, <<Error(n), Answer(n, FALSE)>>)
      BY <1>3, <2>1, <3>1, <3>2, <3>3 DEF ServedWith
    <3> QED BY <1>1, <1>2, <2>1, <3>2, <3>3, <3>4 DEF AboutOneCall
  <2>4. CASE Refusal(o) = {} /\ ~(Enhanced(o) /\ o \in site.blocked)
    <3>1. PICK messages : /\ messages \in {<<Answer(n, TRUE)>>, <<Answer(n, TRUE), Termination(n, TRUE)>>}
                          /\ Reply(n, "applied", messages)
      BY <1>6, <2>4 DEF ServeOperate
    <3>2. AboutOneCall(n, "applied", messages)
      BY <1>2, <3>1, ShapesOfReplies
    <3>3. ServedWith(n, "applied", messages)
      BY <1>3, <2>1, <2>2, <2>4, <3>1, <3>2 DEF ServedWith
    <3> QED BY <1>1, <1>2, <2>1, <3>2, <3>3 DEF AboutOneCall, Verdicts
  <2>5. CASE Refusal(o) = {} /\ Enhanced(o) /\ o \in site.blocked
    <3>1. Reply(n, "interlocking", <<Answer(n, TRUE), Error(n), Termination(n, FALSE)>>)
      BY <1>6, <2>5 DEF ServeOperate
    <3>2. AboutOneCall(n, "interlocking", <<Answer(n, TRUE), Error(n), Termination(n, FALSE)>>)
      BY <1>2, <1>3, <2>5, ShapesOfReplies
    <3>3. ServedWith(n, "interlocking", <<Answer(n, TRUE), Error(n), Termination(n, FALSE)>>)
      BY <1>3, <2>1, <3>1, <3>2 DEF ServedWith
    <3> QED BY <1>1, <1>2, <2>1, <3>2, <3>3 DEF AboutOneCall, Verdicts
  <2> QED BY <2>3, <2>4, <2>5
<1> QED BY <1>2, <1>3, <1>4, <1>5, <1>6, <1>7, <1>8 DEF Serve

(* The first request is served: a call about which nothing was said before. *)
LEMMA ServedForTheFirstTime ==
  ASSUME ServedIInv, NEW n \in 1..Len(calls), NEW verdict \in Verdicts \ {"none"},
         NEW messages \in Seq(Message), requests # <<>>, n = requests[1],
         ServedWith(n, verdict, messages), UNCHANGED calls
  PROVE  /\ verdicts[n] = "none" /\ verdicts' \in Seq(Verdicts) /\ Len(verdicts') = Len(calls)
         /\ verdicts'[n] = verdict
         /\ \A k \in 1..Len(calls) : k # n => verdicts'[k] = verdicts[k]
         /\ \A k \in 1..Len(calls) : verdicts[k] # "none" => verdicts'[k] = verdicts[k]
         /\ requests' \in Seq(Nat) /\ 1 \in DOMAIN requests
         /\ \A k \in DOMAIN requests' : /\ k + 1 \in DOMAIN requests
                                        /\ requests'[k] = requests[k + 1]
                                        /\ requests'[k] # n
         /\ replies' \in Seq(Message) /\ Len(replies) \in Nat
         /\ \A k \in DOMAIN replies' :
              \/ k \in DOMAIN replies /\ replies'[k] = replies[k]
              \/ \E i \in DOMAIN messages : k = Len(replies) + i /\ replies'[k] = messages[i]
         /\ \A i \in DOMAIN messages : /\ Len(replies) + i \in DOMAIN replies'
                                       /\ replies'[Len(replies) + i] = messages[i]
<1>1. /\ Len(calls) \in Nat /\ CallNumbers = 1..Len(calls) /\ n \in Nat
      /\ verdicts \in Seq(Verdicts) /\ Len(verdicts) = Len(calls) /\ DOMAIN verdicts = 1..Len(calls)
      /\ requests \in Seq(Nat) /\ replies \in Seq(Message) /\ Len(replies) \in Nat
  BY CallsAreRecords DEF ServedIInv, ControlTyped
<1>2. /\ requests' = Tail(requests)
      /\ replies' = replies \o messages
      /\ verdicts' = [verdicts EXCEPT ![n] = verdict]
  BY DEF ServedWith, Reply
<1>3. 1 \in DOMAIN requests
  BY <1>1
<1>4. verdicts[n] = "none"
  BY <1>3 DEF ServedIInv, RequestsAreUnserved
<1>5. /\ verdicts' \in Seq(Verdicts) /\ Len(verdicts') = Len(calls) /\ verdicts'[n] = verdict
      /\ \A k \in 1..Len(calls) : k # n => verdicts'[k] = verdicts[k]
  BY <1>1, <1>2
<1>6. \A k \in 1..Len(calls) : verdicts[k] # "none" => verdicts'[k] = verdicts[k]
  BY <1>4, <1>5
<1>7. /\ requests' \in Seq(Nat)
      /\ \A k \in DOMAIN requests' : /\ k + 1 \in DOMAIN requests
                                     /\ requests'[k] = requests[k + 1]
                                     /\ k + 1 # 1
  BY <1>1, <1>2
<1>8. \A k \in DOMAIN requests' : requests'[k] # n
  BY <1>3, <1>7 DEF ServedIInv, RequestsAreUnserved
<1>9. /\ replies' \in Seq(Message)
      /\ \A k \in DOMAIN replies' :
           \/ k \in DOMAIN replies /\ replies'[k] = replies[k]
           \/ \E i \in DOMAIN messages : k = Len(replies) + i /\ replies'[k] = messages[i]
  <2>1. /\ replies' \in Seq(Message) /\ Len(replies') = Len(replies) + Len(messages)
        /\ \A k \in 1..Len(replies') : replies'[k] = IF k <= Len(replies) THEN replies[k]
                                                      ELSE messages[k - Len(replies)]
    BY <1>1, <1>2
  <2>2. Len(messages) \in Nat /\ DOMAIN messages = 1..Len(messages) /\ DOMAIN replies = 1..Len(replies)
        /\ DOMAIN replies' = 1..Len(replies')
    BY <1>1, <2>1
  <2>3. ASSUME NEW k \in DOMAIN replies'
        PROVE  \/ k \in DOMAIN replies /\ replies'[k] = replies[k]
               \/ \E i \in DOMAIN messages : k = Len(replies) + i /\ replies'[k] = messages[i]
    <3>1. CASE k <= Len(replies)
      BY <1>1, <2>1, <2>2, <3>1
    <3>2. CASE ~(k <= Len(replies))
      <4>1. PICK i \in Nat : i = k - Len(replies)
        BY <1>1, <2>1, <2>2, <3>2
      <4>2. i \in DOMAIN messages /\ k = Len(replies) + i
        BY <1>1, <2>1, <2>2, <3>2, <4>1
      <4>3. replies'[k] = messages[i]
        BY <1>1, <2>1, <2>2, <3>2, <4>1
      <4> QED BY <4>2, <4>3
    <3> QED BY <3>1, <3>2
  <2> QED BY <2>1, <2>3
<1>10. \A i \in DOMAIN messages : /\ Len(replies) + i \in DOMAIN replies'
                                  /\ replies'[Len(replies) + i] = messages[i]
  BY <1>1, <1>2
<1> QED BY <1>1, <1>3, <1>4, <1>5, <1>6, <1>7, <1>8, <1>9, <1>10

(* What was said before the call was served is about other calls.          *)
LEMMA ServeKeepsIInv ==
  ASSUME ServedIInv, Serve
  PROVE  ServedIInv' /\ (TruthIInv => TruthIInv')
<1>1. PICK n \in 1..Len(calls), verdict \in Verdicts \ {"none"}, messages \in Seq(Message) :
           /\ n = requests[1] /\ requests # <<>>
           /\ ServedWith(n, verdict, messages)
           /\ selections' \in [Objects -> {"none", "held", "over"}]
           /\ UNCHANGED <<up, site, lastError, calls>>
  BY ServingACall
<1>2. /\ verdicts[n] = "none" /\ verdicts' \in Seq(Verdicts) /\ Len(verdicts') = Len(calls)
      /\ verdicts'[n] = verdict
      /\ \A k \in 1..Len(calls) : k # n => verdicts'[k] = verdicts[k]
      /\ \A k \in 1..Len(calls) : verdicts[k] # "none" => verdicts'[k] = verdicts[k]
      /\ requests' \in Seq(Nat) /\ 1 \in DOMAIN requests
      /\ \A k \in DOMAIN requests' : /\ k + 1 \in DOMAIN requests
                                     /\ requests'[k] = requests[k + 1]
                                     /\ requests'[k] # n
      /\ replies' \in Seq(Message) /\ Len(replies) \in Nat
      /\ \A k \in DOMAIN replies' :
           \/ k \in DOMAIN replies /\ replies'[k] = replies[k]
           \/ \E i \in DOMAIN messages : k = Len(replies) + i /\ replies'[k] = messages[i]
      /\ \A i \in DOMAIN messages : /\ Len(replies) + i \in DOMAIN replies'
                                    /\ replies'[Len(replies) + i] = messages[i]
  BY <1>1, ServedForTheFirstTime
<1>3. \A i \in DOMAIN messages :
       /\ SaysOfACall(n, verdict, messages[i])
       /\ messages[i].call = n
       /\ NegativeTermination(messages[i]) => i > 1 /\ messages[i - 1].kind = "error"
  BY <1>1 DEF ServedWith, AboutOneCall, SaysOfACall
<1>4. /\ Len(calls) \in Nat /\ CallNumbers = 1..Len(calls) /\ CallNumbers' = CallNumbers /\ n \in Nat
      /\ UNCHANGED <<calls, lastError>>
      /\ \A k \in 1..Len(calls) : verdicts[k] \in Verdicts
  BY <1>1, CallsAreRecords DEF ServedIInv, CallNumbers
<1>5. /\ \A k \in DOMAIN requests : requests[k] \in 1..Len(calls)
      /\ \A k \in DOMAIN replies : replies[k].call \in 1..Len(calls)
      /\ \A e \in lastError : e \in 1..Len(calls)
      /\ \A k \in 1..Len(calls) : \A i \in DOMAIN calls[k].heard :
            calls[k].heard[i].of \in 1..Len(calls) /\ calls[k].heard[i].explained \subseteq 1..Len(calls)
  BY <1>4 DEF ServedIInv, NumbersAreCalls
<1>6. ServedIInv'
  <2>1. ControlTyped'
    BY <1>1, <1>2, <1>4 DEF ServedIInv, ControlTyped
  <2>2. \A k \in DOMAIN requests' : requests'[k] \in 1..Len(calls)
    BY <1>2, <1>5
  <2>3. ASSUME NEW k \in DOMAIN replies' PROVE replies'[k].call \in 1..Len(calls)
    <3>1. CASE k \in DOMAIN replies /\ replies'[k] = replies[k]
      BY <1>5, <3>1
    <3>2. CASE \E i \in DOMAIN messages : k = Len(replies) + i /\ replies'[k] = messages[i]
      BY <1>3, <3>2
    <3> QED BY <1>2, <3>1, <3>2
  <2>4. NumbersAreCalls'
    BY <1>4, <1>5, <2>2, <2>3 DEF NumbersAreCalls
  <2>5. \A k \in DOMAIN requests' : verdicts'[requests'[k]] = "none"
    <3> SUFFICES ASSUME NEW k \in DOMAIN requests' PROVE verdicts'[requests'[k]] = "none"
      OBVIOUS
    <3>1. requests'[k] # n /\ k + 1 \in DOMAIN requests /\ requests'[k] = requests[k + 1]
      BY <1>2
    <3>2. verdicts[requests[k + 1]] = "none"
      BY <3>1 DEF ServedIInv, RequestsAreUnserved
    <3>3. verdicts'[requests'[k]] = verdicts[requests'[k]]
      BY <1>2, <2>2, <3>1
    <3> QED BY <3>1, <3>2, <3>3
  <2>6. \A j, k \in DOMAIN requests' : requests'[j] = requests'[k] => j = k
    <3> SUFFICES ASSUME NEW j \in DOMAIN requests', NEW k \in DOMAIN requests', requests'[j] = requests'[k]
                 PROVE  j = k
      OBVIOUS
    <3>1. /\ j + 1 \in DOMAIN requests /\ requests'[j] = requests[j + 1]
          /\ k + 1 \in DOMAIN requests /\ requests'[k] = requests[k + 1]
      BY <1>2
    <3>2. j + 1 = k + 1
      BY <3>1 DEF ServedIInv, RequestsAreUnserved
    <3>3. j \in Nat /\ k \in Nat
      BY <1>2
    <3> QED BY <3>2, <3>3
  <2> QED BY <2>1, <2>4, <2>5, <2>6 DEF ServedIInv, RequestsAreUnserved
<1>7. ASSUME TruthIInv PROVE MessagesAreTrue'
  <2>1. ASSUME NEW k \in DOMAIN replies'
        PROVE  MessageIsTrue(calls, verdicts', replies'[k])
    <3>1. CASE k \in DOMAIN replies /\ replies'[k] = replies[k]
      <4>1. MessageIsTrue(calls, verdicts, replies[k])
        BY <1>7, <3>1 DEF TruthIInv, MessagesAreTrue
      <4>2. verdicts'[replies[k].call] = verdicts[replies[k].call]
        BY <1>2, <1>5, <3>1, <4>1 DEF MessageIsTrue
      <4> QED BY <3>1, <4>1, <4>2 DEF MessageIsTrue, Refused
    <3>2. ASSUME NEW i \in DOMAIN messages, replies'[k] = messages[i]
          PROVE  MessageIsTrue(calls, verdicts', replies'[k])
      <4>1. SaysOfACall(n, verdict, messages[i])
        BY <1>3
      <4>2. verdicts'[n] = verdict /\ verdict # "none"
        BY <1>2
      <4>3. verdict # "applied" => Refused(verdicts', n)
        BY <4>2 DEF Refused
      <4> QED BY <3>2, <4>1, <4>2, <4>3 DEF MessageIsTrue, SaysOfACall
    <3> QED BY <1>2, <3>1, <3>2
  <2>2. \A e \in lastError : verdicts'[e] # "none"
    BY <1>2, <1>5, <1>7 DEF TruthIInv, MessagesAreTrue
  <2>3. ASSUME NEW k \in 1..Len(calls), NEW i \in DOMAIN calls[k].heard
        PROVE  HeardIsTrue(verdicts', calls[k].heard[i])
    <3>1. PICK t : t = calls[k].heard[i]
      OBVIOUS
    <3>2. HeardIsTrue(verdicts, t)
      BY <1>4, <1>7, <3>1 DEF TruthIInv, MessagesAreTrue
    <3>3. t.of \in 1..Len(calls) /\ t.explained \subseteq 1..Len(calls)
      BY <1>5, <3>1
    <3>4. verdicts'[t.of] = verdicts[t.of]
      BY <1>2, <3>2, <3>3 DEF HeardIsTrue, Refused
    <3>5. \A e \in t.explained : verdicts'[e] # "none"
      BY <1>2, <3>2, <3>3 DEF HeardIsTrue
    <3> QED BY <3>1, <3>2, <3>4, <3>5 DEF HeardIsTrue, Refused
  <2> QED BY <1>4, <2>1, <2>2, <2>3 DEF MessagesAreTrue
<1>8. ASSUME TruthIInv PROVE ItemIsItsOwn'
  <2> SUFFICES ASSUME NEW m \in 1..Len(calls), HasItemForItself(calls, m)
               PROVE  /\ \A k \in 1..Len(calls) : SameItem(calls, k, m) => k = m \/ IsOver(calls, k)
                      /\ \A k \in DOMAIN requests' : SameItem(calls, requests'[k], m) => requests'[k] = m
                      /\ \A k \in DOMAIN replies' : SameItem(calls, replies'[k].call, m) => replies'[k].call = m
                      /\ \A e \in lastError : SameItem(calls, e, m) => e = m
                      /\ \A i \in DOMAIN calls[m].heard :
                           LET t == calls[m].heard[i]
                           IN  SameItem(calls, t.of, m) => t.of = m /\ (~t.ok => t.explained = {m})
    BY <1>4 DEF ItemIsItsOwn
  <2>1. /\ \A k \in 1..Len(calls) : SameItem(calls, k, m) => k = m \/ IsOver(calls, k)
        /\ \A k \in DOMAIN requests : SameItem(calls, requests[k], m) => requests[k] = m
        /\ \A k \in DOMAIN replies : SameItem(calls, replies[k].call, m) => replies[k].call = m
        /\ \A e \in lastError : SameItem(calls, e, m) => e = m
        /\ \A i \in DOMAIN calls[m].heard :
             LET t == calls[m].heard[i]
             IN  SameItem(calls, t.of, m) => t.of = m /\ (~t.ok => t.explained = {m})
    BY <1>4, <1>8 DEF TruthIInv, ItemIsItsOwn
  <2>2. \A k \in DOMAIN requests' : SameItem(calls, requests'[k], m) => requests'[k] = m
    BY <1>2, <2>1
  <2>3. SameItem(calls, n, m) => n = m
    BY <1>1, <1>2, <2>1
  <2>4. ASSUME NEW k \in DOMAIN replies', SameItem(calls, replies'[k].call, m)
        PROVE  replies'[k].call = m
    <3>1. CASE k \in DOMAIN replies /\ replies'[k] = replies[k]
      BY <2>1, <2>4, <3>1
    <3>2. ASSUME NEW i \in DOMAIN messages, replies'[k] = messages[i]
          PROVE  replies'[k].call = m
      <4>1. replies'[k].call = n
        BY <1>3, <3>2
      <4> QED BY <2>3, <2>4, <4>1
    <3> QED BY <1>2, <3>1, <3>2
  <2> QED BY <2>1, <2>2, <2>4
<1>9. ASSUME TruthIInv PROVE ErrorsComeFirst'
  <2> SUFFICES ASSUME NEW k \in DOMAIN replies', replies'[k].kind = "termination", ~replies'[k].ok
               PROVE  /\ k > 1 => replies'[k - 1].kind = "error" /\ replies'[k - 1].call = replies'[k].call
                      /\ k = 1 => replies'[k].call \in lastError \/ ~HasItemForItself(calls, replies'[k].call)
    BY <1>4 DEF ErrorsComeFirst
  <2>1. CASE k \in DOMAIN replies /\ replies'[k] = replies[k]
    <3>1. /\ k > 1 => replies[k - 1].kind = "error" /\ replies[k - 1].call = replies[k].call
          /\ k = 1 => replies[k].call \in lastError \/ ~HasItemForItself(calls, replies[k].call)
      BY <1>9, <2>1 DEF TruthIInv, ErrorsComeFirst
    <3>2. ASSUME k > 1 PROVE replies'[k - 1] = replies[k - 1]
      <4>1. k - 1 \in DOMAIN replies' /\ k \in 1..Len(replies) /\ DOMAIN replies = 1..Len(replies)
        <5>1. replies \in Seq(Message)
          BY DEF ServedIInv, ControlTyped
        <5>2. k \in 1..Len(replies') /\ DOMAIN replies' = 1..Len(replies') /\ Len(replies') \in Nat
          BY <1>2
        <5> QED BY <2>1, <3>2, <5>1, <5>2
      <4>2. \A i \in DOMAIN messages : i \in Nat /\ i > 0
        OBVIOUS
      <4>3. ~ \E i \in DOMAIN messages : k - 1 = Len(replies) + i
        BY <1>2, <4>1, <4>2
      <4> QED BY <1>2, <4>1, <4>3
    <3> QED BY <2>1, <3>1, <3>2
  <2>2. ASSUME NEW i \in DOMAIN messages, k = Len(replies) + i, replies'[k] = messages[i]
        PROVE  /\ k > 1 => replies'[k - 1].kind = "error" /\ replies'[k - 1].call = replies'[k].call
               /\ k = 1 => replies'[k].call \in lastError \/ ~HasItemForItself(calls, replies'[k].call)
    <3>1. i > 1 /\ messages[i - 1].kind = "error" /\ messages[i].call = n
      BY <1>3, <2>2 DEF NegativeTermination
    <3>2. i \in Nat /\ i - 1 \in DOMAIN messages
      BY <3>1
    <3>3. replies'[Len(replies) + (i - 1)] = messages[i - 1] /\ messages[i - 1].call = n
      BY <1>2, <1>3, <3>2
    <3>4. k - 1 = Len(replies) + (i - 1) /\ k > 1
      BY <1>2, <2>2, <3>1, <3>2
    <3> QED BY <2>2, <3>1, <3>3, <3>4
  <2> QED BY <1>2, <2>1, <2>2
<1>10. ASSUME TruthIInv PROVE ResultsStayTrue'
  <2> SUFFICES ASSUME NEW k \in 1..Len(calls), calls[k].do \in Operates
               PROVE  ResultIsTrue(calls, verdicts', k)
    BY <1>4 DEF ResultsStayTrue
  <2>1. ResultIsTrue(calls, verdicts, k)
    BY <1>4, <1>10 DEF TruthIInv, ResultsStayTrue
  <2>2. CASE verdicts[k] = "none"
    BY <2>1, <2>2 DEF ResultIsTrue, Refused
  <2>3. CASE verdicts[k] # "none"
    <3>1. verdicts'[k] = verdicts[k]
      BY <1>2, <2>3
    <3> QED BY <2>1, <3>1 DEF ResultIsTrue, Refused
  <2> QED BY <2>2, <2>3
<1> QED BY <1>6, <1>7, <1>8, <1>9, <1>10 DEF TruthIInv

(* A new call: it is alone only if nothing on the item of its object is     *)
(* under way, and whoever was alone on that item no longer is.             *)
LEMMA CallingAnew ==
  ASSUME ServedIInv, NEW do \in Dos, NEW o \in Objects, Call(do, o)
  PROVE  LET N == Len(calls) + 1
         IN  /\ calls' \in Seq(CallRecord) /\ Len(calls') = N /\ CallNumbers' = 1..N
             /\ calls'[N].do = do /\ calls'[N].obj = o
             /\ calls'[N].phase = "asked" /\ calls'[N].heard = <<>>
             /\ calls'[N].alone => ~Unsettled(Item(do, o))
             /\ \A k \in 1..Len(calls) :
                  /\ calls'[k].do = calls[k].do /\ calls'[k].obj = calls[k].obj
                  /\ calls'[k].phase = calls[k].phase /\ calls'[k].heard = calls[k].heard
                  /\ calls'[k].by = calls[k].by /\ calls'[k].cause = calls[k].cause
                  /\ calls'[k].alone =>
                       calls[k].alone /\ (Alike(k, Item(do, o)) => IsOver(calls, k))
<1>1. /\ Len(calls) \in Nat /\ CallNumbers = 1..Len(calls) /\ DOMAIN calls = 1..Len(calls)
      /\ calls \in Seq(CallRecord)
      /\ \A k \in 1..Len(calls) : calls[k] \in CallRecord
  BY CallsAreRecords DEF ServedIInv, ControlTyped
<1> DEFINE old == [n \in CallNumbers |->
                        IF Alike(n, Item(do, o)) /\ ~Ended(n)
                          THEN [calls[n] EXCEPT !.alone = FALSE] ELSE calls[n]]
           new == [do |-> do, obj |-> o, phase |-> "asked", heard |-> <<>>,
                      by |-> 0, cause |-> "none", alone |-> ~Unsettled(Item(do, o))]
<1>2. ASSUME NEW k \in 1..Len(calls)
      PROVE  /\ old[k] \in CallRecord
             /\ old[k].do = calls[k].do /\ old[k].obj = calls[k].obj
             /\ old[k].phase = calls[k].phase /\ old[k].heard = calls[k].heard
             /\ old[k].by = calls[k].by /\ old[k].cause = calls[k].cause
             /\ old[k].alone =>
                  calls[k].alone /\ (Alike(k, Item(do, o)) => IsOver(calls, k))
  <2>1. calls[k] \in CallRecord
    BY <1>1
  <2>2. CASE Alike(k, Item(do, o)) /\ ~Ended(k)
    <3>1. old[k] = [calls[k] EXCEPT !.alone = FALSE]
      BY <1>1, <2>2
    <3> HIDE DEF old
    <3> QED BY <2>1, <3>1 DEF CallRecord
  <2>3. CASE ~(Alike(k, Item(do, o)) /\ ~Ended(k))
    <3>1. old[k] = calls[k]
      BY <1>1, <2>3
    <3>2. Alike(k, Item(do, o)) => IsOver(calls, k)
      BY <2>3 DEF Ended, IsOver
    <3> HIDE DEF old
    <3> QED BY <2>1, <3>1, <3>2
  <2> QED BY <2>2, <2>3
<1>3. old \in Seq(CallRecord) /\ Len(old) = Len(calls)
  <2>1. old = [k \in 1..Len(calls) |-> old[k]]
    BY <1>1
  <2>2. old \in [1..Len(calls) -> CallRecord]
    <3> HIDE DEF old
    <3> QED BY <1>2, <2>1
  <2> HIDE DEF old
  <2> QED BY <1>1, <2>2, FunctionIsSequence
<1>4. /\ new \in CallRecord /\ new.do = do /\ new.obj = o /\ new.phase = "asked" /\ new.heard = <<>>
      /\ new.alone => ~Unsettled(Item(do, o))
  <2>1. PICK b \in BOOLEAN : new.alone = b /\ (b => ~Unsettled(Item(do, o)))
    <3>1. CASE Unsettled(Item(do, o))
      BY <3>1
    <3>2. CASE ~Unsettled(Item(do, o))
      BY <3>2
    <3> QED BY <3>1, <3>2
  <2>2. new = [do |-> do, obj |-> o, phase |-> "asked", heard |-> <<>>,
               by |-> 0, cause |-> "none", alone |-> b]
    BY <2>1
  <2> HIDE DEF new
  <2>3. <<>> \in Seq(Heard) /\ "asked" \in Phases /\ "none" \in Verdicts /\ 0 \in Nat
    BY DEF Phases, Verdicts
  <2> QED BY <2>1, <2>2, <2>3 DEF CallRecord
<1>5. calls' = Append(old, new)
  BY DEF Call
<1> HIDE DEF old, new
<1>6. /\ calls' \in Seq(CallRecord) /\ Len(calls') = Len(calls) + 1
      /\ calls'[Len(calls) + 1] = new
      /\ \A k \in 1..Len(calls) : calls'[k] = old[k]
  BY <1>1, <1>3, <1>4, <1>5
<1>7. CallNumbers' = 1..(Len(calls) + 1)
  BY <1>6 DEF CallNumbers
<1> QED BY <1>2, <1>4, <1>6, <1>7

LEMMA CallKeepsIInv ==
  ASSUME ServedIInv, NEW do \in Dos, NEW o \in Objects, Call(do, o)
  PROVE  ServedIInv' /\ (TruthIInv => TruthIInv')
<1> DEFINE N == Len(calls) + 1
<1>1. /\ Len(calls) \in Nat /\ CallNumbers = 1..Len(calls)
      /\ UNCHANGED <<up, replies, selections, site, lastError>>
      /\ verdicts' = Append(verdicts, "none")
      /\ requests' = Append(requests, N)
      /\ verdicts \in Seq(Verdicts) /\ Len(verdicts) = Len(calls) /\ requests \in Seq(Nat)
  BY CallsAreRecords DEF ServedIInv, ControlTyped, Call
<1>2. /\ calls' \in Seq(CallRecord) /\ Len(calls') = N /\ CallNumbers' = 1..N
      /\ calls'[N].do = do /\ calls'[N].obj = o
      /\ calls'[N].phase = "asked" /\ calls'[N].heard = <<>>
      /\ calls'[N].alone => ~Unsettled(Item(do, o))
      /\ \A k \in 1..Len(calls) :
           /\ calls'[k].do = calls[k].do /\ calls'[k].obj = calls[k].obj
           /\ calls'[k].phase = calls[k].phase /\ calls'[k].heard = calls[k].heard
           /\ calls'[k].by = calls[k].by /\ calls'[k].cause = calls[k].cause
           /\ calls'[k].alone =>
                calls[k].alone /\ (Alike(k, Item(do, o)) => IsOver(calls, k))
  BY CallingAnew
<1>3. /\ \A k \in DOMAIN requests : requests[k] \in 1..Len(calls)
      /\ \A k \in DOMAIN replies : replies[k].call \in 1..Len(calls)
      /\ \A e \in lastError : e \in 1..Len(calls)
      /\ \A k \in 1..Len(calls) : \A i \in DOMAIN calls[k].heard :
            calls[k].heard[i].of \in 1..Len(calls) /\ calls[k].heard[i].explained \subseteq 1..Len(calls)
  BY <1>1 DEF ServedIInv, NumbersAreCalls
<1>4. /\ N \in Nat /\ N \notin 1..Len(calls) /\ \A k \in 1..N : k = N \/ k \in 1..Len(calls)
      /\ \A k \in 1..Len(calls) : k \in 1..N /\ k # N
  BY <1>1
<1>5. /\ verdicts' \in Seq(Verdicts) /\ Len(verdicts') = N /\ verdicts'[N] = "none"
      /\ \A k \in 1..Len(calls) : verdicts'[k] = verdicts[k]
  <2>1. "none" \in Verdicts
    BY DEF Verdicts
  <2> QED BY <1>1, <2>1
<1>6. /\ requests' \in Seq(Nat)
      /\ \A k \in DOMAIN requests' : \/ k \in DOMAIN requests /\ requests'[k] = requests[k]
                                     \/ k = Len(requests) + 1 /\ requests'[k] = N
  <2> HIDE DEF N
  <2> QED BY <1>1, <1>4
<1> HIDE DEF N
<1>7. ServedIInv'
  <2>1. ControlTyped'
    BY <1>1, <1>2, <1>5, <1>6 DEF ServedIInv, ControlTyped
  <2>2. ASSUME NEW k \in CallNumbers', NEW i \in DOMAIN calls'[k].heard
        PROVE  calls'[k].heard[i].of \in 1..N /\ calls'[k].heard[i].explained \subseteq 1..N
    <3>1. k # N
      <4>1. DOMAIN calls'[N].heard = {}
        BY <1>2
      <4> QED BY <2>2, <4>1
    <3>2. k \in 1..Len(calls) /\ calls'[k].heard = calls[k].heard
      BY <1>2, <1>4, <3>1
    <3>3. calls[k].heard[i].of \in 1..Len(calls) /\ calls[k].heard[i].explained \subseteq 1..Len(calls)
      BY <1>3, <3>2
    <3> QED BY <1>4, <3>2, <3>3
  <2>3. \A k \in DOMAIN requests' : requests'[k] \in 1..N
    <3>1. N \in 1..N
      BY <1>1, <1>4 DEF N
    <3> QED BY <1>3, <1>4, <1>6, <3>1
  <2>4. NumbersAreCalls'
    <3>1. \A k \in DOMAIN replies' : replies'[k].call \in 1..N
      BY <1>1, <1>3, <1>4
    <3>2. lastError' \subseteq 1..N
      BY <1>1, <1>3, <1>4
    <3> QED BY <1>2, <2>2, <2>3, <3>1, <3>2 DEF NumbersAreCalls
  <2>5. \A k \in DOMAIN requests' : verdicts'[requests'[k]] = "none"
    BY <1>3, <1>5, <1>6 DEF ServedIInv, RequestsAreUnserved
  <2>6. \A j, k \in DOMAIN requests' : requests'[j] = requests'[k] => j = k
    BY <1>3, <1>4, <1>6 DEF ServedIInv, RequestsAreUnserved
  <2> QED BY <2>1, <2>4, <2>5, <2>6 DEF ServedIInv, RequestsAreUnserved
<1>8. /\ \A k \in 1..Len(calls) : IsOver(calls', k) <=> IsOver(calls, k)
      /\ \A k \in 1..Len(calls) : HasItemForItself(calls', k) =>
            HasItemForItself(calls, k) /\ ~Alike(k, Item(do, o))
      /\ \A j, k \in 1..Len(calls) : SameItem(calls', j, k) <=> SameItem(calls, j, k)
      /\ \A k \in 1..Len(calls) : /\ SameItem(calls', N, k) <=> Alike(k, Item(do, o))
                                  /\ SameItem(calls', k, N) <=> Alike(k, Item(do, o))
  <2>1. \A k \in 1..Len(calls) : IsOver(calls', k) <=> IsOver(calls, k)
    BY <1>2 DEF IsOver
  <2>2. \A k \in 1..Len(calls) : HasItemForItself(calls', k) =>
            HasItemForItself(calls, k) /\ ~Alike(k, Item(do, o))
    BY <1>2, <2>1 DEF HasItemForItself
  <2>3. ItemIn(calls', N) = Item(do, o) /\ \A k \in 1..Len(calls) : ItemIn(calls', k) = ItemIn(calls, k)
    BY <1>2 DEF ItemIn
  <2>4. \A k \in 1..Len(calls) : ItemIn(calls, k) = CallItem(k)
    BY DEF ItemIn, CallItem
  <2> QED BY <2>1, <2>2, <2>3, <2>4 DEF SameItem, Alike
<1>9. ASSUME TruthIInv PROVE MessagesAreTrue'
  <2>1. ASSUME NEW k \in DOMAIN replies
        PROVE  MessageIsTrue(calls', verdicts', replies[k])
    <3>1. MessageIsTrue(calls, verdicts, replies[k])
      BY <1>9 DEF TruthIInv, MessagesAreTrue
    <3>2. PICK c \in 1..Len(calls) : c = replies[k].call
      BY <1>3
    <3>3. /\ calls'[c].do = calls[c].do /\ calls'[c].obj = calls[c].obj
          /\ verdicts'[c] = verdicts[c]
      BY <1>2, <1>5
    <3> QED BY <3>1, <3>2, <3>3 DEF MessageIsTrue, Refused
  <2>2. \A e \in lastError : verdicts'[e] # "none"
    BY <1>3, <1>5, <1>9 DEF TruthIInv, MessagesAreTrue
  <2>3. ASSUME NEW k \in 1..N, NEW i \in DOMAIN calls'[k].heard
        PROVE  HeardIsTrue(verdicts', calls'[k].heard[i])
    <3>1. k # N
      <4>1. DOMAIN calls'[N].heard = {}
        BY <1>2
      <4> QED BY <2>3, <4>1
    <3>2. k \in 1..Len(calls) /\ calls'[k].heard = calls[k].heard
      BY <1>2, <1>4, <3>1
    <3>3. PICK t : t = calls[k].heard[i]
      OBVIOUS
    <3>4. HeardIsTrue(verdicts, t) /\ t.of \in 1..Len(calls) /\ t.explained \subseteq 1..Len(calls)
      BY <1>1, <1>3, <1>9, <3>2, <3>3 DEF TruthIInv, MessagesAreTrue
    <3>5. verdicts'[t.of] = verdicts[t.of] /\ \A e \in t.explained : verdicts'[e] = verdicts[e]
      BY <1>5, <3>4
    <3>6. HeardIsTrue(verdicts', t)
      BY <3>4, <3>5 DEF HeardIsTrue, Refused
    <3> QED BY <3>2, <3>3, <3>6
  <2> QED BY <1>1, <1>2, <2>1, <2>2, <2>3 DEF MessagesAreTrue
<1>10. ASSUME TruthIInv PROVE ItemIsItsOwn'
  <2>1. ASSUME NEW n \in 1..Len(calls), HasItemForItself(calls', n)
        PROVE  /\ \A m \in 1..N : SameItem(calls', m, n) => m = n \/ IsOver(calls', m)
               /\ \A k \in DOMAIN requests' : SameItem(calls', requests'[k], n) => requests'[k] = n
               /\ \A k \in DOMAIN replies : SameItem(calls', replies[k].call, n) => replies[k].call = n
               /\ \A e \in lastError : SameItem(calls', e, n) => e = n
               /\ \A i \in DOMAIN calls'[n].heard :
                    LET t == calls'[n].heard[i]
                    IN  SameItem(calls', t.of, n) => t.of = n /\ (~t.ok => t.explained = {n})
    <3>1. HasItemForItself(calls, n) /\ ~SameItem(calls', N, n)
      <4>1. HasItemForItself(calls, n) /\ ~Alike(n, Item(do, o))
        BY <1>8, <2>1
      <4>2. ~SameItem(calls', N, n)
        BY <1>8, <4>1
      <4> QED BY <4>1, <4>2
    <3>2. /\ \A m \in 1..Len(calls) : SameItem(calls, m, n) => m = n \/ IsOver(calls, m)
          /\ \A k \in DOMAIN requests : SameItem(calls, requests[k], n) => requests[k] = n
          /\ \A k \in DOMAIN replies : SameItem(calls, replies[k].call, n) => replies[k].call = n
          /\ \A e \in lastError : SameItem(calls, e, n) => e = n
          /\ \A i \in DOMAIN calls[n].heard :
               LET t == calls[n].heard[i]
               IN  SameItem(calls, t.of, n) => t.of = n /\ (~t.ok => t.explained = {n})
      BY <1>1, <1>10, <3>1 DEF TruthIInv, ItemIsItsOwn
    <3>3. \A m \in 1..N : SameItem(calls', m, n) => m = n \/ IsOver(calls', m)
      BY <1>4, <1>8, <3>1, <3>2
    <3>4. \A k \in DOMAIN requests' : SameItem(calls', requests'[k], n) => requests'[k] = n
      BY <1>3, <1>6, <1>8, <3>1, <3>2
    <3>5. /\ \A k \in DOMAIN replies : SameItem(calls', replies[k].call, n) => replies[k].call = n
          /\ \A e \in lastError : SameItem(calls', e, n) => e = n
      BY <1>3, <1>8, <3>2
    <3>6. ASSUME NEW i \in DOMAIN calls'[n].heard
          PROVE  LET t == calls'[n].heard[i]
                 IN  SameItem(calls', t.of, n) => t.of = n /\ (~t.ok => t.explained = {n})
      <4>1. i \in DOMAIN calls[n].heard /\ calls'[n].heard[i] = calls[n].heard[i]
        BY <1>2, <3>6
      <4> QED BY <1>3, <1>8, <3>2, <4>1
    <3> QED BY <3>3, <3>4, <3>5, <3>6
  <2>2. ASSUME HasItemForItself(calls', N)
        PROVE  /\ \A m \in 1..N : SameItem(calls', m, N) => m = N \/ IsOver(calls', m)
               /\ \A k \in DOMAIN requests' : SameItem(calls', requests'[k], N) => requests'[k] = N
               /\ \A k \in DOMAIN replies : ~SameItem(calls', replies[k].call, N)
               /\ \A e \in lastError : ~SameItem(calls', e, N)
    <3>1. ~Unsettled(Item(do, o))
      BY <1>2, <2>2 DEF HasItemForItself
    <3>2. /\ \A m \in 1..Len(calls) : Alike(m, Item(do, o)) => IsOver(calls, m)
          /\ \A k \in DOMAIN requests : ~Alike(requests[k], Item(do, o))
          /\ \A k \in DOMAIN replies : ~Alike(replies[k].call, Item(do, o))
          /\ \A e \in lastError : ~Alike(e, Item(do, o))
      BY <1>1, <3>1 DEF Unsettled, Ended, IsOver
    <3>3. \A m \in 1..N : SameItem(calls', m, N) => m = N \/ IsOver(calls', m)
      BY <1>4, <1>8, <3>2
    <3>4. \A k \in DOMAIN requests' : SameItem(calls', requests'[k], N) => requests'[k] = N
      BY <1>3, <1>6, <1>8, <3>2
    <3>5. /\ \A k \in DOMAIN replies : ~SameItem(calls', replies[k].call, N)
          /\ \A e \in lastError : ~SameItem(calls', e, N)
      BY <1>3, <1>8, <3>2
    <3> QED BY <3>3, <3>4, <3>5
  <2>3. calls'[N].heard = <<>> /\ DOMAIN calls'[N].heard = {}
    BY <1>2
  <2> SUFFICES ASSUME NEW n \in 1..N, HasItemForItself(calls', n)
               PROVE  /\ \A m \in 1..N : SameItem(calls', m, n) => m = n \/ IsOver(calls', m)
                      /\ \A k \in DOMAIN requests' : SameItem(calls', requests'[k], n) => requests'[k] = n
                      /\ \A k \in DOMAIN replies : SameItem(calls', replies[k].call, n) => replies[k].call = n
                      /\ \A e \in lastError : SameItem(calls', e, n) => e = n
                      /\ \A i \in DOMAIN calls'[n].heard :
                           LET t == calls'[n].heard[i]
                           IN  SameItem(calls', t.of, n) => t.of = n /\ (~t.ok => t.explained = {n})
    BY <1>1, <1>2 DEF ItemIsItsOwn
  <2>4. CASE n = N
    BY <2>2, <2>3, <2>4
  <2>5. CASE n # N
    <3>1. n \in 1..Len(calls)
      BY <1>4, <2>5
    <3> QED BY <2>1, <3>1
  <2> QED BY <2>4, <2>5
<1>11. ASSUME TruthIInv PROVE ErrorsComeFirst'
  <2>1. \A k \in DOMAIN replies : HasItemForItself(calls', replies[k].call) =>
                                  HasItemForItself(calls, replies[k].call)
    BY <1>3, <1>8
  <2> QED BY <1>1, <1>11, <2>1 DEF TruthIInv, ErrorsComeFirst
<1>12. ASSUME TruthIInv PROVE ResultsStayTrue'
  <2>1. ASSUME NEW k \in 1..N, calls'[k].do \in Operates
        PROVE  ResultIsTrue(calls', verdicts', k)
    <3>1. CASE k = N
      BY <1>2, <3>1 DEF ResultIsTrue
    <3>2. CASE k # N
      <4>1. k \in 1..Len(calls)
        BY <1>4, <3>2
      <4>2. /\ calls'[k].do = calls[k].do /\ calls'[k].obj = calls[k].obj
            /\ calls'[k].phase = calls[k].phase
            /\ calls'[k].by = calls[k].by /\ calls'[k].cause = calls[k].cause
            /\ calls'[k].alone => calls[k].alone
            /\ verdicts'[k] = verdicts[k]
        BY <1>2, <1>5, <4>1
      <4>3. ResultIsTrue(calls, verdicts, k)
        BY <1>1, <1>12, <2>1, <4>1, <4>2 DEF TruthIInv, ResultsStayTrue
      <4> QED BY <4>2, <4>3 DEF ResultIsTrue, Refused
    <3> QED BY <3>1, <3>2
  <2> QED BY <1>2, <2>1 DEF ResultsStayTrue
<1> QED BY <1>7, <1>9, <1>10, <1>11, <1>12 DEF TruthIInv

-----------------------------------------------------------------------------
(* How often an object was selected and operated.                          *)
LEMMA TalliesAreFinite ==
  ASSUME ServedIInv, NEW o, NEW verdict
  PROVE  IsFiniteSet(Tally(o, verdict)) /\ Cardinality(Tally(o, verdict)) \in Nat
<1>1. Len(calls) \in Nat /\ CallNumbers = 1..Len(calls)
  BY CallsAreRecords DEF ServedIInv
<1>2. IsFiniteSet(1..Len(calls))
  BY <1>1, FS_Interval
<1>3. Tally(o, verdict) \subseteq 1..Len(calls)
  BY <1>1 DEF Tally
<1> QED BY <1>2, <1>3, FS_Subset, FS_CardinalityType

(* Nothing is served, and no selection comes from nowhere.                 *)
LEMMA SelectionsStayUnused ==
  ASSUME ServedIInv, SelectionsAreUnused,
         \A o \in Objects, v \in {"applied", "granted"} : Tally(o, v)' = Tally(o, v),
         \A o \in Objects : selections[o] = "none" => selections'[o] = "none"
  PROVE  SelectionsAreUnused'
<1> SUFFICES ASSUME NEW o \in Objects, WithSelection(o)
             PROVE  Cardinality(Tally(o, "applied")') + (IF selections'[o] = "none" THEN 0 ELSE 1)
                      <= Cardinality(Tally(o, "granted")')
  BY DEF SelectionsAreUnused
<1>1. Tally(o, "applied")' = Tally(o, "applied") /\ Tally(o, "granted")' = Tally(o, "granted")
  OBVIOUS
<1>2. Cardinality(Tally(o, "applied")) \in Nat /\ Cardinality(Tally(o, "granted")) \in Nat
  BY TalliesAreFinite
<1>3. Cardinality(Tally(o, "applied")) + (IF selections[o] = "none" THEN 0 ELSE 1)
        <= Cardinality(Tally(o, "granted"))
  BY DEF SelectionsAreUnused
<1> QED BY <1>1, <1>2, <1>3

LEMMA TalliesGoOn ==
  ASSUME ServedIInv, CallsGoOn, UNCHANGED verdicts
  PROVE  \A o, v : Tally(o, v)' = Tally(o, v)
<1>1. CallNumbers = 1..Len(calls) /\ CallNumbers' = 1..Len(calls)
  BY CallsAreRecords, CallsKeepTheirItems DEF ServedIInv
<1>2. \A k \in 1..Len(calls) : calls'[k].obj = calls[k].obj
  BY DEF CallsGoOn
<1> QED BY <1>1, <1>2 DEF Tally

LEMMA CallKeepsSelections ==
  ASSUME ServedIInv, SelectionsAreUnused, NEW do \in Dos, NEW o \in Objects, Call(do, o)
  PROVE  SelectionsAreUnused'
<1>1. /\ Len(calls) \in Nat /\ CallNumbers = 1..Len(calls) /\ CallNumbers' = 1..(Len(calls) + 1)
      /\ \A k \in 1..Len(calls) : calls'[k].obj = calls[k].obj
  BY CallsAreRecords, CallingAnew DEF ServedIInv
<1>2. /\ verdicts' = Append(verdicts, "none") /\ UNCHANGED selections
      /\ verdicts \in Seq(Verdicts) /\ Len(verdicts) = Len(calls)
  BY DEF ServedIInv, ControlTyped, Call
<1>3. verdicts'[Len(calls) + 1] = "none" /\ \A k \in 1..Len(calls) : verdicts'[k] = verdicts[k]
  BY <1>1, <1>2
<1>4. \A k \in 1..(Len(calls) + 1) : k \in 1..Len(calls) \/ k = Len(calls) + 1
  BY <1>1
<1>5. \A k \in 1..Len(calls) : k \in 1..(Len(calls) + 1)
  BY <1>1
<1>6. ASSUME NEW q \in Objects, NEW v \in {"applied", "granted"} PROVE Tally(q, v)' = Tally(q, v)
  BY <1>1, <1>3, <1>4, <1>5 DEF Tally
<1> QED BY <1>2, <1>6, SelectionsStayUnused

(* An operation that is applied uses up the selection that it found; only a *)
(* granted selection holds the object.                                     *)
LEMMA ServeKeepsSelections ==
  ASSUME ServedIInv, SelectionsAreUnused, Serve
  PROVE  SelectionsAreUnused'
<1>1. PICK n \in 1..Len(calls), verdict \in Verdicts \ {"none"}, messages \in Seq(Message) :
           /\ n = requests[1] /\ requests # <<>>
           /\ ServedWith(n, verdict, messages)
           /\ selections' \in [Objects -> {"none", "held", "over"}]
           /\ UNCHANGED <<up, site, lastError, calls>>
  BY ServingACall
<1>2. /\ verdicts[n] = "none" /\ verdicts'[n] = verdict
      /\ \A k \in 1..Len(calls) : k # n => verdicts'[k] = verdicts[k]
      /\ CallNumbers = 1..Len(calls) /\ CallNumbers' = 1..Len(calls) /\ UNCHANGED calls
  BY <1>1, ServedForTheFirstTime, CallsAreRecords DEF ServedIInv, CallNumbers
<1>3. ASSUME NEW o, NEW v \in {"applied", "granted"}
      PROVE  Tally(o, v)' = IF o = calls[n].obj /\ v = verdict THEN Tally(o, v) \cup {n} ELSE Tally(o, v)
  <2>1. ASSUME NEW k \in 1..Len(calls)
        PROVE  k \in Tally(o, v)' <=> k \in Tally(o, v) \/ (k = n /\ o = calls[n].obj /\ v = verdict)
    <3>1. k \in Tally(o, v)' <=> calls[k].obj = o /\ verdicts'[k] = v
      BY <1>2 DEF Tally
    <3>2. k \in Tally(o, v) <=> calls[k].obj = o /\ verdicts[k] = v
      BY <1>2 DEF Tally
    <3> QED BY <1>2, <3>1, <3>2
  <2>2. Tally(o, v)' \subseteq 1..Len(calls) /\ Tally(o, v) \subseteq 1..Len(calls)
    BY <1>2 DEF Tally
  <2> QED BY <2>1, <2>2
<1> SUFFICES ASSUME NEW o \in Objects, WithSelection(o)
             PROVE  Cardinality(Tally(o, "applied")') + (IF selections'[o] = "none" THEN 0 ELSE 1)
                      <= Cardinality(Tally(o, "granted")')
  BY DEF SelectionsAreUnused
<1>4. /\ Cardinality(Tally(o, "applied")) \in Nat /\ Cardinality(Tally(o, "granted")) \in Nat
      /\ IsFiniteSet(Tally(o, "applied")) /\ IsFiniteSet(Tally(o, "granted"))
  BY TalliesAreFinite
<1>5. Cardinality(Tally(o, "applied")) + (IF selections[o] = "none" THEN 0 ELSE 1)
        <= Cardinality(Tally(o, "granted"))
  BY DEF SelectionsAreUnused
<1>6. CASE o # calls[n].obj
  <2>1. selections'[o] = selections[o]
    BY <1>1, <1>6 DEF ServedWith
  <2>2. Tally(o, "applied")' = Tally(o, "applied") /\ Tally(o, "granted")' = Tally(o, "granted")
    BY <1>3, <1>6
  <2> QED BY <1>4, <1>5, <2>1, <2>2
<1>7. CASE o = calls[n].obj
  <2>1. /\ verdict = "applied" => selections[o] = "held"
        /\ verdict \notin {"granted", "denied", "no status"} => selections'[o] = "none"
        /\ verdict \in {"denied", "no status"} => selections'[o] = selections[o]
    BY <1>1, <1>7 DEF ServedWith
  <2>2. n \notin Tally(o, "applied") /\ n \notin Tally(o, "granted")
    BY <1>2 DEF Tally
  <2>3. CASE verdict = "granted"
    <3>1. Tally(o, "applied")' = Tally(o, "applied") /\ Tally(o, "granted")' = Tally(o, "granted") \cup {n}
      BY <1>3, <1>7, <2>3
    <3>2. Cardinality(Tally(o, "granted") \cup {n}) = Cardinality(Tally(o, "granted")) + 1
      BY <1>4, <2>2, FS_AddElement
    <3>3. /\ Cardinality(Tally(o, "applied")') = Cardinality(Tally(o, "applied"))
          /\ Cardinality(Tally(o, "granted")') = Cardinality(Tally(o, "granted")) + 1
      BY <3>1, <3>2
    <3> QED BY <1>4, <1>5, <3>3
  <2>4. CASE verdict = "applied"
    <3>1. Tally(o, "applied")' = Tally(o, "applied") \cup {n} /\ Tally(o, "granted")' = Tally(o, "granted")
      BY <1>3, <1>7, <2>4
    <3>2. Cardinality(Tally(o, "applied") \cup {n}) = Cardinality(Tally(o, "applied")) + 1
      BY <1>4, <2>2, FS_AddElement
    <3>3. /\ Cardinality(Tally(o, "applied")') = Cardinality(Tally(o, "applied")) + 1
          /\ Cardinality(Tally(o, "granted")') = Cardinality(Tally(o, "granted"))
      BY <3>1, <3>2
    <3> QED BY <1>4, <1>5, <2>1, <2>4, <3>3
  <2>5. CASE verdict \notin {"granted", "applied"}
    <3>1. Tally(o, "applied")' = Tally(o, "applied") /\ Tally(o, "granted")' = Tally(o, "granted")
      BY <1>3, <2>5
    <3>2. (IF selections'[o] = "none" THEN 0 ELSE 1) <= (IF selections[o] = "none" THEN 0 ELSE 1)
      <4>1. CASE verdict \in {"denied", "no status"}
        <5>1. selections'[o] = selections[o]
          BY <2>1, <4>1
        <5> QED BY <5>1
      <4>2. CASE verdict \notin {"denied", "no status"}
        <5>1. selections'[o] = "none"
          BY <2>1, <2>5, <4>2
        <5> QED BY <5>1
      <4> QED BY <4>1, <4>2
    <3> QED BY <1>4, <1>5, <3>1, <3>2
  <2> QED BY <2>3, <2>4, <2>5
<1> QED BY <1>6, <1>7

-----------------------------------------------------------------------------
ControlIInv == ServedIInv /\ SelectionsAreUnused /\ TruthIInv

LEMMA ControlStarts ==
  ASSUME ControlInit
  PROVE  ControlIInv
<1>1. /\ calls = <<>> /\ verdicts = <<>> /\ requests = <<>> /\ replies = <<>> /\ lastError = {}
      /\ selections = [o \in Objects |-> "none"]
      /\ CallNumbers = {} /\ DOMAIN requests = {} /\ DOMAIN replies = {}
  BY DEF ControlInit, CallNumbers
<1>2. ServedIInv
  BY <1>1 DEF ServedIInv, ControlTyped, NumbersAreCalls, RequestsAreUnserved
<1>3. SelectionsAreUnused
  <2>1. \A o, v : Tally(o, v) = {}
    BY <1>1 DEF Tally
  <2>2. Cardinality({}) = 0
    BY FS_EmptySet
  <2>3. \A o \in Objects : selections[o] = "none"
    BY <1>1
  <2>4. \A o, v : Cardinality(Tally(o, v)) = 0
    BY <2>1, <2>2
  <2> QED BY <2>3, <2>4 DEF SelectionsAreUnused
<1>4. TruthIInv
  BY <1>1 DEF TruthIInv, MessagesAreTrue, ItemIsItsOwn, ErrorsComeFirst, ResultsStayTrue
<1> QED BY <1>2, <1>3, <1>4 DEF ControlIInv

LEMMA ControlStepKeepsIInv ==
  ASSUME ControlIInv, [ControlNext]_controlVars
  PROVE  ControlIInv'
<1> USE DEF ControlIInv
<1>1. ASSUME NEW do \in Selects \cup Operates \cup {"cancel"}, NEW o \in Objects, Call(do, o)
      PROVE  ControlIInv'
  BY <1>1, CallKeepsIInv, CallKeepsSelections DEF Dos
<1>2. CASE Serve
  BY <1>2, ServeKeepsIInv, ServeKeepsSelections
<1>3. ASSUME CallsGoOn, UNCHANGED verdicts,
             \A o \in Objects : selections[o] = "none" => selections'[o] = "none"
      PROVE  SelectionsAreUnused'
  BY <1>3, TalliesGoOn, SelectionsStayUnused
<1>4. CASE Read
  <2>1. UNCHANGED <<selections, verdicts>>
    BY <1>4 DEF Read
  <2> QED BY <1>3, <1>4, <2>1, ReadKeepsIInv
<1>5. ASSUME NEW n \in CallNumbers, MapFailure(n) \/ TakeTermination(n) \/ GiveUp(n)
      PROVE  ControlIInv'
  <2>1. UNCHANGED <<selections, verdicts>>
    BY <1>5 DEF MapFailure, TakeTermination, GiveUp
  <2> QED BY <1>3, <1>5, <2>1, MapFailureKeepsIInv, TakeTerminationKeepsIInv, GiveUpKeepsIInv
<1>6. CASE (\E o \in Objects : Expire(o)) \/ UNCHANGED controlVars
  <2>1. UNCHANGED verdicts /\ \A o \in Objects : selections[o] = "none" => selections'[o] = "none"
    <3>1. selections \in [Objects -> {"none", "held", "over"}]
      BY DEF ServedIInv, ControlTyped
    <3> QED BY <1>6, <3>1 DEF Expire, controlVars
  <2> QED BY <1>3, <1>6, <2>1, ExpireKeepsIInv
<1>7. CASE LoseConnection
  <2>1. UNCHANGED verdicts /\ \A o \in Objects : selections'[o] = "none"
    BY <1>7 DEF LoseConnection
  <2> QED BY <1>3, <1>7, <2>1, LoseConnectionKeepsIInv
<1> QED BY <1>1, <1>2, <1>4, <1>5, <1>6, <1>7 DEF ControlNext

(* Control of objects keeps its invariant: what is on the way is about      *)
(* calls that were made, and what is said of a call is what was done.      *)
THEOREM ControlInvariance == ControlSpec => []ControlIInv
<1>1. ControlInit => ControlIInv
  BY ControlStarts
<1>2. ControlIInv /\ [ControlNext]_controlVars => ControlIInv'
  BY ControlStepKeepsIInv
<1> QED BY <1>1, <1>2, PTL DEF ControlSpec

(* The server's selections, the one LastApplError the client keeps and the  *)
(* phases of the calls stay within their types.                            *)
THEOREM ControlTypeCorrect == ControlSpec => []ControlTypeOK
<1>1. ControlIInv => ControlTypeOK
  <2> SUFFICES ASSUME ControlIInv PROVE ControlTypeOK
    OBVIOUS
  <2>1. ControlTyped /\ lastError \subseteq CallNumbers
    BY DEF ControlIInv, ServedIInv, NumbersAreCalls
  <2>2. Cardinality(lastError) <= 1
    <3>1. CASE lastError = {}
      BY <3>1, FS_EmptySet
    <3>2. CASE lastError # {}
      <4>1. PICK e \in lastError : TRUE
        BY <3>2
      <4>2. lastError = {e}
        BY <2>1 DEF ControlTyped
      <4>3. Cardinality(lastError) = 1
        BY <4>2, FS_Singleton
      <4> QED BY <4>3
    <3> QED BY <3>1, <3>2
  <2>3. \A n \in CallNumbers : calls[n].phase \in Phases
    BY <2>1, CallsAreRecords, RecordFields
  <2>4. DOMAIN verdicts = CallNumbers
    BY <2>1, CallsAreRecords
  <2> QED BY <2>1, <2>2, <2>3, <2>4 DEF ControlTypeOK, ControlTyped
<1> QED BY <1>1, ControlInvariance, PTL

(* Nothing is operated more often than it was selected, whoever selects,    *)
(* cancels, operates or lets the time run out, and in whatever order.      *)
THEOREM OperatedNoMoreThanSelected == ControlSpec => []OperatedAsOftenAsSelected
<1>1. ControlIInv => OperatedAsOftenAsSelected
  <2> SUFFICES ASSUME ControlIInv, NEW o \in Objects, WithSelection(o)
               PROVE  Cardinality(Tally(o, "applied")) <= Cardinality(Tally(o, "granted"))
    BY DEF OperatedAsOftenAsSelected, Tally
  <2>1. Cardinality(Tally(o, "applied")) \in Nat /\ Cardinality(Tally(o, "granted")) \in Nat
    BY TalliesAreFinite DEF ControlIInv
  <2>2. Cardinality(Tally(o, "applied")) + (IF selections[o] = "none" THEN 0 ELSE 1)
          <= Cardinality(Tally(o, "granted"))
    BY DEF ControlIInv, SelectionsAreUnused
  <2> QED BY <2>1, <2>2
<1> QED BY <1>1, ControlInvariance, PTL

(* A call that has its item for itself reports what the server did with it, *)
(* although errors and terminations reach it without the call's number.    *)
THEOREM AloneCallsTellTheTruth == ControlSpec => []ResultsAreTrue
<1>1. ControlIInv => ResultsAreTrue
  <2> SUFFICES ASSUME ControlIInv, NEW n \in CallNumbers, calls[n].alone, calls[n].do \in Operates
               PROVE  /\ calls[n].phase = "ok" => verdicts[n] = "applied" \/ Enhanced(calls[n].obj)
                      /\ calls[n].phase = "ok" /\ calls[n].do = "operateEnhanced" => verdicts[n] = "applied"
                      /\ calls[n].phase = "terminated" => calls[n].by = n /\ calls[n].cause = verdicts[n]
                      /\ calls[n].phase = "refused" => verdicts[n] # "applied"
    BY DEF ResultsAreTrue
  <2>1. ResultIsTrue(calls, verdicts, n)
    BY DEF ControlIInv, TruthIInv, ResultsStayTrue
  <2>2. calls[n].do = "operate" \/ calls[n].do = "operateEnhanced"
    BY DEF Operates
  <2> QED BY <2>1, <2>2 DEF ResultIsTrue, Refused
<1> QED BY <1>1, ControlInvariance, PTL

=============================================================================
