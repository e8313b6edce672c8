------------------------------ MODULE MmsClient ------------------------------
(***************************************************************************)
(* The client's end of an association: tasks that send requests, and the   *)
(* reader task that hands every answer to the task that waits for it, by   *)
(* invokeID, and every report to a channel of bounded size, on which it    *)
(* waits while the channel is full.                                        *)
(*                                                                         *)
(*   request --> pending --> socket --> server                             *)
(*      ^           |                      |                               *)
(*      +--oneshot--+<-- reader_loop <-----+                               *)
(*                           +--report_tx--> consumer                      *)
(***************************************************************************)
EXTENDS Integers, Sequences

CONSTANTS
  IdSpace,     \* number of invokeIDs: 2^32
  FirstId,     \* where the counter starts
  ReportSlots, \* capacity of the channel of reports
  MaxRequests, \* bound on the number of requests
  MaxReports   \* bound on the number of reports

ASSUME ClientAssumption ==
  /\ IdSpace \in Nat \ {0} /\ FirstId \in 0..IdSpace - 1
  /\ ReportSlots \in Nat \ {0} /\ MaxRequests \in Nat /\ MaxReports \in Nat

VARIABLES
  link,       \* the socket is open
  nextInvoke, \* the counter of invokeIDs
  pending,    \* Shared::pending: the request that waits for each invokeID
  asked,      \* the requests made, by number
  wireOut,    \* from client to server
  wireIn,     \* from server to client
  reader,     \* the reader task: running, sending a report, or ended
  reports,    \* the channel of reports
  receiver,   \* its receiver: unread, read or dropped
  reported,   \* history: how many reports the server sent
  seen        \* history: the reports the consumer took

clientVars == <<link, nextInvoke, pending, asked, wireOut, wireIn, reader,
                reports, receiver, reported, seen>>

RequestNumbers == DOMAIN asked
Waiting(n) == asked[n].phase = "waiting"

(* Messages of the server, as peek_invoke_and_kind tells them apart.        *)
AnswerTo(n) == [kind |-> "answer", id |-> asked[n].id, of |-> n]
ReportPdu(k) == [kind |-> "report", of |-> k]

ClientInit ==
  /\ link = TRUE
  /\ nextInvoke = FirstId
  /\ pending = <<>>
  /\ asked = <<>>
  /\ wireOut = <<>> /\ wireIn = <<>>
  /\ reader = "running"
  /\ reports = <<>>
  /\ receiver = "unread"
  /\ reported = 0
  /\ seen = <<>>

-----------------------------------------------------------------------------
(* next_id: the counter wraps around, and 0 is replaced by 1.               *)
NextId == IF nextInvoke = 0 THEN 1 ELSE nextInvoke

Without(table, id) == [k \in DOMAIN table \ {id} |-> table[k]]

(* The tasks of the requests in `ns' are woken with an outcome.             *)
Wake(ns, phase) ==
  [k \in RequestNumbers |-> IF k \in ns /\ Waiting(k) THEN [asked[k] EXCEPT !.phase = phase]
                                                      ELSE asked[k]]

(* request up to the write: an insertion under an id in use drops the       *)
(* sender of the request that had it, which ends as if the link were gone.  *)
Ask ==
  LET n == Len(asked) + 1
      displaced == IF NextId \in DOMAIN pending THEN {pending[NextId]} ELSE {}
  IN  /\ n <= MaxRequests
      /\ nextInvoke' = (nextInvoke + 1) % IdSpace
      /\ \/ /\ asked' = Append(Wake(displaced, "closed"), [id |-> NextId, phase |-> "waiting", of |-> 0])
            /\ pending' = [k \in DOMAIN pending \cup {NextId} |-> IF k = NextId THEN n ELSE pending[k]]
            /\ wireOut' = IF link THEN Append(wireOut, n) ELSE wireOut
         \/ /\ ~link
            /\ asked' = Append(Wake(displaced, "closed"), [id |-> NextId, phase |-> "failed", of |-> 0])
            /\ pending' = Without(pending, NextId)
            /\ UNCHANGED wireOut
      /\ UNCHANGED <<link, wireIn, reader, reports, receiver, reported, seen>>

(* request_timeout.                                                         *)
TimeOut(n) ==
  /\ Waiting(n)
  /\ asked' = Wake({n}, "timeout")
  /\ pending' = Without(pending, asked[n].id)
  /\ UNCHANGED <<link, nextInvoke, wireOut, wireIn, reader, reports, receiver, reported, seen>>

-----------------------------------------------------------------------------
(* The server answers requests in order and reports when it likes.          *)
ServerAnswers ==
  /\ link /\ wireOut # <<>>
  /\ wireOut' = Tail(wireOut)
  /\ wireIn' = Append(wireIn, AnswerTo(Head(wireOut)))
  /\ UNCHANGED <<link, nextInvoke, pending, asked, reader, reports, receiver, reported, seen>>

ServerReports ==
  /\ link /\ reported < MaxReports
  /\ reported' = reported + 1
  /\ wireIn' = Append(wireIn, ReportPdu(reported + 1))
  /\ UNCHANGED <<link, nextInvoke, pending, asked, wireOut, reader, reports, receiver, seen>>

(* The link goes down: requests are lost, and what the socket did not hold. *)
LinkLost ==
  /\ link
  /\ link' = FALSE
  /\ wireOut' = <<>>
  /\ \E k \in (IF reader = "sending" THEN 1 ELSE 0)..Len(wireIn) : wireIn' = SubSeq(wireIn, 1, k)
  /\ UNCHANGED <<nextInvoke, pending, asked, reader, reports, receiver, reported, seen>>

-----------------------------------------------------------------------------
(* The request that an answer is for.                                       *)
OldestAddressee(m) ==
  LET waiting == {pending[k] : k \in DOMAIN pending}
  IN  {n \in waiting : \A k \in waiting : n <= k}

Addressee(m) == IF m.id \in DOMAIN pending THEN {pending[m.id]} ELSE {}

(* reader_loop. An answer without a request that waits for it is dropped.   *)
ReadAnswer ==
  /\ reader = "running"
  /\ wireIn # <<>> /\ Head(wireIn).kind = "answer"
  /\ wireIn' = Tail(wireIn)
  /\ LET m == Head(wireIn)
     IN  IF Addressee(m) = {} THEN UNCHANGED <<asked, pending>>
         ELSE \E n \in Addressee(m) :
           /\ asked' = [asked EXCEPT ![n].phase = "answered", ![n].of = m.of]
           /\ pending' = Without(pending, asked[n].id)
  /\ UNCHANGED <<link, nextInvoke, wireOut, reader, reports, receiver, reported, seen>>

(* A report waits for room in the channel, and the reader with it.          *)
ReadReport ==
  /\ reader = "running"
  /\ wireIn # <<>> /\ Head(wireIn).kind = "report"
  /\ reader' = "sending"
  /\ UNCHANGED <<link, nextInvoke, pending, asked, wireOut, wireIn, reports, receiver, reported, seen>>

HasRoomAlways == TRUE
HasRoom == receiver = "dropped" \/ Len(reports) < ReportSlots

QueuedIfRead(k) == IF receiver = "read" THEN Append(reports, k) ELSE reports
Queued(k) == IF receiver = "dropped" THEN reports ELSE Append(reports, k)

PassReport ==
  /\ reader = "sending"
  /\ HasRoom
  /\ reader' = "running"
  /\ wireIn' = Tail(wireIn)
  /\ reports' = Queued(Head(wireIn).of)
  /\ UNCHANGED <<link, nextInvoke, pending, asked, wireOut, receiver, reported, seen>>

DrainedSilently == asked
Drained == Wake({pending[k] : k \in DOMAIN pending}, "closed")

(* The end of the stream: every request that waits is told, and no other.   *)
ReaderEnds ==
  /\ reader = "running" /\ ~link /\ wireIn = <<>>
  /\ reader' = "ended"
  /\ asked' = Drained
  /\ pending' = <<>>
  /\ UNCHANGED <<link, nextInvoke, wireOut, wireIn, reports, receiver, reported, seen>>

-----------------------------------------------------------------------------
(* take_report_rx and what the application does with the receiver.          *)
UseReceiver ==
  /\ receiver = "unread"
  /\ receiver' \in {"read", "dropped"}
  /\ UNCHANGED <<link, nextInvoke, pending, asked, wireOut, wireIn, reader, reports, reported, seen>>

TakeReport ==
  /\ receiver = "read" /\ reports # <<>>
  /\ reports' = Tail(reports)
  /\ seen' = Append(seen, Head(reports))
  /\ UNCHANGED <<link, nextInvoke, pending, asked, wireOut, wireIn, reader, receiver, reported>>

ClientNext ==
  \/ Ask
  \/ \E n \in RequestNumbers : TimeOut(n)
  \/ ServerAnswers
  \/ ServerReports
  \/ LinkLost
  \/ ReadAnswer
  \/ ReadReport
  \/ PassReport
  \/ ReaderEnds
  \/ UseReceiver
  \/ TakeReport

ClientSpec == ClientInit /\ [][ClientNext]_clientVars

(* The server and the tasks run; timers are not needed, the application is  *)
(* not bound to look at the reports.                                        *)
ClientFairness ==
  /\ WF_clientVars(ServerAnswers)
  /\ WF_clientVars(ReadAnswer) /\ WF_clientVars(ReadReport)
  /\ WF_clientVars(PassReport) /\ WF_clientVars(ReaderEnds)
  /\ WF_clientVars(TakeReport)

ClientFairSpec == ClientSpec /\ ClientFairness

-----------------------------------------------------------------------------
ClientTypeOK ==
  /\ \A id \in DOMAIN pending : pending[id] \in RequestNumbers
  /\ Len(reports) <= ReportSlots
  /\ reader \in {"running", "sending", "ended"}
  /\ \A n \in RequestNumbers :
       asked[n].phase \in {"waiting", "answered", "closed", "failed", "timeout"}

(* The counter has come round, so that two requests may have had one id.    *)
Wrapped == \E m, n \in RequestNumbers : m # n /\ asked[m].id = asked[n].id

(* A request is answered with its own answer, and waits in `pending' for as *)
(* long as it waits: late answers, reports, timeouts and a lost link lie    *)
(* between.                                                                 *)
OwnAnswer ==
  ~Wrapped => \A n \in RequestNumbers :
    /\ asked[n].phase = "answered" => asked[n].of = n
    /\ Waiting(n) => asked[n].id \in DOMAIN pending /\ pending[asked[n].id] = n

(* While the application reads them, no report is lost or reordered, however *)
(* far it falls behind: the reader waits. What was taken or queued is a      *)
(* beginning of what the server sent, the wire goes on from there, and what  *)
(* is lost with the link is an end of it.                                    *)
Taken == seen \o reports
OnTheWire == {k \in DOMAIN wireIn : wireIn[k].kind = "report"}

ReportsAreKept ==
  receiver # "dropped" =>
    /\ \A k \in DOMAIN Taken : Taken[k] = k
    /\ Len(Taken) <= reported
    /\ \A k \in OnTheWire : wireIn[k].of \in Len(Taken) + 1 .. reported
    /\ \A j, k \in OnTheWire : j < k => wireIn[j].of < wireIn[k].of
    /\ \A r \in Len(Taken) + 1 .. reported :
         (link \/ \E k \in OnTheWire : r < wireIn[k].of) => \E k \in OnTheWire : wireIn[k].of = r

(* Without any timer, every request ends if the link stays or was lost      *)
(* after it was made, and the application reads its reports or drops the    *)
(* receiver: an unread channel stops the reader, and with it every request. *)
RequestsEnd ==
  \A n \in 1..MaxRequests :
    (n \in RequestNumbers /\ link) ~> (receiver = "unread" \/ (n \in RequestNumbers /\ ~Waiting(n)))
=============================================================================
