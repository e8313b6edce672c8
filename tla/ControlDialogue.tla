--------------------------- MODULE ControlDialogue ---------------------------
(***************************************************************************)
(* Control of an object over one connection: the server's select, operate  *)
(* and cancel, and the calls of the client that share that connection.     *)
(*                                                                         *)
(*   call --Write/Read--> connection task --LastApplError, answer,         *)
(*     ^                                      CommandTermination--> reader *)
(*     +------- answer by invokeID, last_appl_error, terminations <------+ *)
(*                                                                         *)
(* An answer finds its call by invokeID (here the call's number). The      *)
(* other two have none: the reader keeps one LastApplError for all calls,  *)
(* and gives every termination to every waiting call. A call recognises    *)
(* both by the item that it wrote, without the domain: a termination has   *)
(* the same item, the reference in a LastApplError ends with it, as that   *)
(* of Q1CSWI1$CO$Pos$Oper does with CSWI1$CO$Pos$Oper.                     *)
(***************************************************************************)
EXTENDS Integers, Sequences, FiniteSets

CONSTANTS
  Objects,  \* control objects
  ItemOf,   \* the item of each, up to what is written: objects of two domains
            \* may have the same, and one may end with another
  CtlModel, \* ctlModel of each: 1, 2 normal, 3, 4 enhanced, 2, 4 with selection
  Sites,    \* what may be given: the objects whose interlocking blocks them
            \* (intlckBlk), those without a status, the rights of the role
  MaxCalls  \* bound on the number of calls

Rights == {"DATA_READ", "CONTROL"}

ASSUME ControlAssumption ==
  /\ CtlModel \in [Objects -> 0..4]
  /\ DOMAIN ItemOf = Objects /\ \A o \in Objects : ItemOf[o] \in Seq(STRING)
  /\ Sites \subseteq [blocked : SUBSET Objects, absent : SUBSET Objects, rights : SUBSET Rights]
  /\ MaxCalls \in Nat

VARIABLES
  up,         \* the connection is there
  requests,   \* from client to server
  replies,    \* from server to client
  selections, \* Connection::selections, with those whose time is over
  site,       \* one of Sites, which stays
  lastError,  \* Shared::last_appl_error, at most one
  calls,      \* the calls made, by number
  verdicts    \* history: what the server did with each call, and why not

controlVars == <<up, requests, replies, selections, site, lastError, calls, verdicts>>

Selects == {"select", "selectWithValue"}
Operates == {"operate", "operateEnhanced"}

(* What each call reads or writes of its object (control_item).             *)
Component(do) ==
  CASE do = "select" -> "SBO" [] do = "selectWithValue" -> "SBOw"
    [] do \in Operates -> "Oper" [] do = "cancel" -> "Cancel"
Phases == {"asked", "refused", "waiting", "ok", "failed", "terminated", "timeout"}

Enhanced(o) == CtlModel[o] \in {3, 4}
WithSelection(o) == CtlModel[o] \in {2, 4}

Ended(n) == calls[n].phase \in {"ok", "failed", "terminated", "timeout"}
CallNumbers == DOMAIN calls

ControlInit ==
  /\ up = TRUE
  /\ requests = <<>> /\ replies = <<>>
  /\ selections = [o \in Objects |-> "none"]
  /\ site \in Sites
  /\ lastError = {}
  /\ calls = <<>>
  /\ verdicts = <<>>

-----------------------------------------------------------------------------
(* The client.                                                              *)

Item(do, o) == Append(ItemOf[o], Component(do))
CallItem(n) == Item(calls[n].do, calls[n].obj)
EndsWith(whole, item) == \E k \in 0..Len(whole) : item = SubSeq(whole, k + 1, Len(whole))

(* Whether a message about call n may be taken for one about the item, or   *)
(* the other way round.                                                     *)
Alike(n, item) == EndsWith(CallItem(n), item) \/ EndsWith(item, CallItem(n))

(* Something about such a call is still to come, or is kept.                *)
Unsettled(item) ==
  \/ \E n \in CallNumbers : Alike(n, item) /\ ~Ended(n)
  \/ \E k \in DOMAIN requests : Alike(requests[k], item)
  \/ \E k \in DOMAIN replies : Alike(replies[k].call, item)
  \/ \E e \in lastError : Alike(e, item)

(* select, select_with_value, operate_with, operate_enhanced, cancel: the   *)
(* subscription to terminations comes before the request.                   *)
(* `alone' is history: no call with such an item is under way.              *)
Call(do, o) ==
  /\ up
  /\ Len(calls) < MaxCalls
  /\ calls' = Append([n \in CallNumbers |->
                        IF Alike(n, Item(do, o)) /\ ~Ended(n)
                          THEN [calls[n] EXCEPT !.alone = FALSE] ELSE calls[n]],
                     [do |-> do, obj |-> o, phase |-> "asked", heard |-> <<>>,
                      by |-> 0, cause |-> "none", alone |-> ~Unsettled(Item(do, o))])
  /\ verdicts' = Append(verdicts, "none")
  /\ requests' = Append(requests, Len(calls) + 1)
  /\ UNCHANGED <<up, replies, selections, site, lastError>>

End(n, phase, by, cause) ==
  calls' = [calls EXCEPT ![n].phase = phase, ![n].by = by, ![n].cause = cause]

(* The errors whose reference ends with the item of call n, and the one     *)
(* kept after an error came.                                                *)
AboutAnything(n) == lastError
About(n) == {e \in lastError : EndsWith(CallItem(e), CallItem(n))}

Noted(n) == {n}

(* reader_loop for one message.                                             *)
Read ==
  /\ up /\ replies # <<>>
  /\ replies' = Tail(replies)
  /\ LET m == Head(replies)
         n == m.call
     IN  CASE m.kind = "error" ->
                lastError' = Noted(n) /\ UNCHANGED calls
           [] m.kind = "termination" ->
                LET explained == IF m.ok THEN {} ELSE About(n)
                    heard == [of |-> n, ok |-> m.ok, explained |-> explained]
                IN  /\ lastError' = lastError \ explained
                    /\ calls' = [k \in CallNumbers |->
                         IF calls[k].do = "operateEnhanced" /\ ~Ended(k)
                           THEN [calls[k] EXCEPT !.heard = Append(@, heard)]
                           ELSE calls[k]]
           [] m.kind = "answer" ->
                /\ UNCHANGED lastError
                /\ IF calls[n].phase # "asked" THEN UNCHANGED calls
                   ELSE calls' = [calls EXCEPT ![n].phase =
                                    IF ~m.ok THEN "refused"
                                    ELSE IF @ = "asked" /\ calls[n].do = "operateEnhanced"
                                           THEN "waiting" ELSE "ok"]
  /\ UNCHANGED <<up, requests, selections, site, verdicts>>

(* map_control_failure: a refused call takes an error that seems to be      *)
(* about it. select and cancel look for none.                               *)
MapFailure(n) ==
  /\ calls[n].phase = "refused"
  /\ IF calls[n].do \notin {"select", "cancel"} /\ About(n) # {}
       THEN /\ \E e \in About(n) : End(n, "terminated", e, verdicts[e])
            /\ lastError' = {}
       ELSE End(n, "failed", n, "none") /\ UNCHANGED lastError
  /\ UNCHANGED <<up, requests, replies, selections, site, verdicts>>

(* The loop of operate_enhanced: a termination of another item is passed    *)
(* over.                                                                    *)
TakeTermination(n) ==
  /\ calls[n].phase = "waiting" /\ calls[n].heard # <<>>
  /\ LET t == Head(calls[n].heard)
     IN  IF CallItem(t.of) # CallItem(n)
           THEN calls' = [calls EXCEPT ![n].heard = Tail(@)]
         ELSE IF t.ok THEN End(n, "ok", t.of, "none")
         ELSE IF t.explained = {} THEN End(n, "terminated", t.of, "unknown")
         ELSE \E e \in t.explained : End(n, "terminated", t.of, verdicts[e])
  /\ UNCHANGED <<up, requests, replies, selections, site, lastError, verdicts>>

(* request_timeout before the answer, select_timeout before a termination.  *)
GiveUp(n) ==
  /\ \/ calls[n].phase = "asked"
     \/ calls[n].phase = "waiting" /\ calls[n].heard = <<>>
  /\ End(n, "timeout", n, "none")
  /\ UNCHANGED <<up, requests, replies, selections, site, lastError, verdicts>>

-----------------------------------------------------------------------------
(* The server, one request at a time.                                       *)

Error(n) == [kind |-> "error", call |-> n, ok |-> FALSE]
Answer(n, ok) == [kind |-> "answer", call |-> n, ok |-> ok]
Termination(n, ok) == [kind |-> "termination", call |-> n, ok |-> ok]

Reply(n, verdict, messages) ==
  /\ requests' = Tail(requests)
  /\ replies' = replies \o messages
  /\ verdicts' = [verdicts EXCEPT ![n] = verdict]

(* handle_read and handle_write: the role may read, or may not control.     *)
RoleAllows(n) == (IF calls[n].do = "select" THEN "DATA_READ" ELSE "CONTROL") \in site.rights

ServeDenied(n) ==
  /\ ~RoleAllows(n)
  /\ Reply(n, "denied", <<Answer(n, FALSE)>>)
  /\ UNCHANGED selections

(* A read of SBO and a write of SBOw: granted or renewed, on the model of   *)
(* the object alone.                                                        *)
ServeSelect(n, o) ==
  /\ calls[n].do \in Selects /\ RoleAllows(n)
  /\ IF WithSelection(o)
       THEN /\ selections' = [selections EXCEPT ![o] = "held"]
            /\ Reply(n, "granted", <<Answer(n, TRUE)>>)
       ELSE /\ UNCHANGED selections
            /\ Reply(n, "not supported",
                     IF calls[n].do = "select" THEN <<Answer(n, FALSE)>>
                     ELSE <<Error(n), Answer(n, FALSE)>>)

ServeCancel(n, o) ==
  /\ calls[n].do = "cancel" /\ RoleAllows(n)
  /\ selections' = [selections EXCEPT ![o] = "none"]
  /\ Reply(n, "cancelled", <<Answer(n, TRUE)>>)

(* operate: a selection is used up by an attempt, whatever comes of it,     *)
(* unless there is no status to operate, which no error explains.           *)
SpentNever(o) == selections
Spent(o) == IF WithSelection(o) THEN [selections EXCEPT ![o] = "none"] ELSE selections

Refusal(o) ==
  IF CtlModel[o] = 0 THEN {"not supported"}
  ELSE IF WithSelection(o) /\ selections[o] = "none" THEN {"not selected"}
  ELSE IF WithSelection(o) /\ selections[o] = "over" THEN {"time limit over"}
  ELSE IF ~Enhanced(o) /\ o \in site.blocked THEN {"interlocking"}
  ELSE {}

ServeStatusless(n, o) ==
  /\ calls[n].do \in Operates /\ RoleAllows(n) /\ o \in site.absent
  /\ Reply(n, "no status", <<Answer(n, FALSE)>>)
  /\ UNCHANGED selections

ServeOperate(n, o) ==
  /\ calls[n].do \in Operates /\ RoleAllows(n) /\ o \notin site.absent
  /\ selections' = Spent(o)
  /\ IF Refusal(o) # {}
       THEN \E cause \in Refusal(o) : Reply(n, cause, <<Error(n), Answer(n, FALSE)>>)
     ELSE IF ~Enhanced(o) THEN Reply(n, "applied", <<Answer(n, TRUE)>>)
     ELSE IF o \in site.blocked
       THEN Reply(n, "interlocking", <<Answer(n, TRUE), Error(n), Termination(n, FALSE)>>)
     ELSE Reply(n, "applied", <<Answer(n, TRUE), Termination(n, TRUE)>>)

Serve ==
  /\ up /\ requests # <<>>
  /\ LET n == Head(requests)
         o == calls[n].obj
     IN  \/ ServeDenied(n) \/ ServeSelect(n, o) \/ ServeCancel(n, o)
         \/ ServeStatusless(n, o) \/ ServeOperate(n, o)
  /\ UNCHANGED <<up, site, lastError, calls>>

(* sboTimeout runs out.                                                     *)
Expire(o) ==
  /\ selections[o] = "held"
  /\ selections' = [selections EXCEPT ![o] = "over"]
  /\ UNCHANGED <<up, requests, replies, site, lastError, calls, verdicts>>

(* The connection is lost: the reader fails the requests that are pending;  *)
(* a call that waits for a termination is not told.                         *)
LoseConnection ==
  /\ up
  /\ up' = FALSE
  /\ requests' = <<>> /\ replies' = <<>>
  /\ selections' = [o \in Objects |-> "none"]
  /\ calls' = [n \in CallNumbers |->
                 IF calls[n].phase = "asked" THEN [calls[n] EXCEPT !.phase = "failed"] ELSE calls[n]]
  /\ UNCHANGED <<site, lastError, verdicts>>

ControlNext ==
  \/ \E do \in Selects \cup Operates \cup {"cancel"}, o \in Objects : Call(do, o)
  \/ Read
  \/ \E n \in CallNumbers : MapFailure(n) \/ TakeTermination(n) \/ GiveUp(n)
  \/ Serve
  \/ \E o \in Objects : Expire(o)
  \/ LoseConnection

ControlSpec == ControlInit /\ [][ControlNext]_controlVars

(* The tasks run, and timers run out when nothing else can end a call: the  *)
(* connection is lost, or what waits for a termination operates an object   *)
(* that sends none.                                                         *)
ControlFairness ==
  /\ WF_controlVars(Read) /\ WF_controlVars(Serve)
  /\ \A n \in 1..MaxCalls :
       WF_controlVars(/\ n \in CallNumbers
                      /\ \/ MapFailure(n) \/ TakeTermination(n)
                         \/ /\ up => calls[n].do = "operateEnhanced" /\ ~Enhanced(calls[n].obj)
                            /\ GiveUp(n))

ControlFairSpec == ControlSpec /\ ControlFairness

-----------------------------------------------------------------------------
ControlTypeOK ==
  /\ selections \in [Objects -> {"none", "held", "over"}]
  /\ Cardinality(lastError) <= 1 /\ lastError \subseteq CallNumbers
  /\ \A n \in CallNumbers : calls[n].phase \in Phases
  /\ DOMAIN verdicts = CallNumbers

(* A call tells the truth if, while it was under way, there was no other    *)
(* one whose item ends with its own or the other way round: an operation it *)
(* reports done was done, one it reports as terminated or refused was not,  *)
(* and the cause it gives is the server's. Other calls run on the same      *)
(* connection, time out and leave errors behind. (map_control_failure,      *)
(* reader_loop, operate_enhanced)                                           *)
ResultsAreTrue ==
  \A n \in CallNumbers : calls[n].alone /\ calls[n].do \in Operates =>
    /\ calls[n].phase = "ok" => verdicts[n] = "applied" \/ Enhanced(calls[n].obj)
    /\ calls[n].phase = "ok" /\ calls[n].do = "operateEnhanced" => verdicts[n] = "applied"
    /\ calls[n].phase = "terminated" => calls[n].by = n /\ calls[n].cause = verdicts[n]
    /\ calls[n].phase = "refused" => verdicts[n] # "applied"

(* Nothing is operated more often than it was selected.                     *)
OperatedAsOftenAsSelected ==
  \A o \in Objects : WithSelection(o) =>
    LET Count(verdict) == Cardinality({n \in CallNumbers : calls[n].obj = o /\ verdicts[n] = verdict})
    IN  Count("applied") <= Count("granted")

(* Every call comes to an end, without its timer unless the connection is   *)
(* lost under it or its object sends no termination.                        *)
EveryCallEnds == \A n \in 1..MaxCalls : n \in CallNumbers ~> (n \in CallNumbers /\ Ended(n))
=============================================================================
