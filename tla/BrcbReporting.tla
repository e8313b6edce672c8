---------------------------- MODULE BrcbReporting ----------------------------
(***************************************************************************)
(* Buffered reporting of the MMS server: the way of a value from the store *)
(* to the reports of the connections.                                      *)
(*                                                                         *)
(*   writers --change_tx--> buffering_task --buffers, buffer_tx--> clients *)
(*                                                                         *)
(* A writer stores a value and publishes the change (apply_value).  One    *)
(* buffering_task appends an entry to the buffer of every buffered control *)
(* block (BRCB) whose data set has the item, and then notifies all         *)
(* connections.  A connection that has the block enabled drains the buffer *)
(* from its cursor.  Both channels are bounded broadcast channels.  Which  *)
(* connection may write a block's attributes is RcbReservation's matter.   *)
(*                                                                         *)
(* The value of an item is the number of times it was written; the value   *)
(* that an entry carries is left out, an entry is its EntryID.             *)
(***************************************************************************)
EXTENDS RcbReservation, Broadcast, SequencesExt, FiniteSetsExt

CONSTANTS
  Items,         \* the leaf items that writers change
  DataSet,       \* DataSet[r]: the items of the data set of block r
  Capacity,      \* BRCB_CAPACITY
  ChannelSize,   \* capacity of change_tx and of buffer_tx
  MaxReportLag,  \* ServerLimits::max_report_lag
  MaxWrites      \* bound on the writes of each item

ASSUME DataSetAssumption == DataSet \in [Rcbs -> SUBSET Items]
ASSUME SizesAssumption ==
  /\ Capacity \in Nat \ {0}
  /\ ChannelSize \in Nat \ {0}
  /\ MaxReportLag \in Nat /\ MaxWrites \in Nat

VARIABLES
  store,      \* the number of writes of each item
  changes,    \* the buffering task's receiver of change_tx
  todo,       \* blocks the buffering task has yet to append the change to
  notifying,  \* the block it appended to and has yet to notify, if any
  buf,        \* the buffer of each block
  entryId,    \* the attribute EntryID of each block in the store
  notices,    \* each connection's receiver of buffer_tx
  lag,        \* report_lag of each connection
  cursor,     \* RcbRuntime::cursor of each connection and block
  lost,       \* history: <<c, r>>: an entry was dropped before c had it, unreported
  disturbed,  \* history: <<c, r>>: another connection drained or purged r under c
  seen        \* history: the highest EntryID sent to each client for each block

taskVars == <<changes, todo, notifying>>
connVars == <<notices, lag, cursor>>
historyVars == <<lost, disturbed, seen>>
vars == <<reservationVars, store, taskVars, buf, entryId, connVars, historyVars>>

AttrItem == "attribute of a control block"

EmptyBuffer == [entries |-> <<>>, next |-> 1, overflow |-> FALSE]

MaxId(b) == IF b.entries = <<>> THEN 0 ELSE Last(b.entries)
Undelivered(b, k) == {id \in Range(b.entries) : id > k}

Init ==
  /\ ReservationInit
  /\ store = [i \in Items |-> 0]
  /\ changes = NewReceiver
  /\ todo = {}
  /\ notifying = {}
  /\ buf = [r \in Rcbs |-> EmptyBuffer]
  /\ entryId = [r \in Rcbs |-> 0]
  /\ notices = [c \in Conns |-> NewReceiver]
  /\ lag = [c \in Conns |-> 0]
  /\ cursor = [c \in Conns |-> [r \in Rcbs |-> 0]]
  /\ lost = {}
  /\ disturbed = {}
  /\ seen = [k \in Clients |-> [r \in Rcbs |-> 0]]

-----------------------------------------------------------------------------
(* A writer (the simulator through ServerHandle, a client's write, an       *)
(* operated control) stores a value and publishes the change.  What may     *)
(* come between the two shows only in the values, which are left out here.  *)
Published(item) == Sent(changes, item, ChannelSize, MaxReportLag + 1)

WriteValue(i) ==
  /\ store[i] < MaxWrites
  /\ store' = [store EXCEPT ![i] = @ + 1]
  /\ changes' = Published(i)
  /\ UNCHANGED <<reservationVars, todo, notifying, buf, entryId, connVars, historyVars>>

-----------------------------------------------------------------------------
(* The buffering task.  It takes a change, or learns that it lost some and  *)
(* goes on; then block by block it appends under the lock, and notifies.    *)
TaskIdle == todo = {} /\ notifying = {}

TakeChange ==
  /\ TaskIdle
  /\ Ready(changes)
  /\ changes' = Received(changes)
  /\ todo' = {r \in Rcbs : Head(changes.queue) \in DataSet[r]}
  /\ UNCHANGED <<reservationVars, store, notifying, buf, entryId, connVars, historyVars>>

SkipLostChanges ==
  /\ TaskIdle
  /\ Lagged(changes)
  /\ changes' = CaughtUp(changes)
  /\ UNCHANGED <<reservationVars, store, todo, notifying, buf, entryId, connVars, historyVars>>

(* The buffer after an entry is appended; at most one entry is too many.    *)
(* Before it, what slips would make of it: the overflow is not recorded;    *)
(* an EntryID is the position in the buffer; the bound is off by one.       *)
PushedForgetful(b) ==
  LET all == Append(b.entries, b.next)
  IN  [entries  |-> IF Len(all) > Capacity THEN Tail(all) ELSE all,
       next     |-> b.next + 1,
       overflow |-> b.overflow]

PushedReusing(b) ==
  LET all == Append(b.entries, Len(b.entries) + 1)
  IN  [entries  |-> IF Len(all) > Capacity THEN Tail(all) ELSE all,
       next     |-> b.next + 1,
       overflow |-> b.overflow \/ Len(all) > Capacity]

PushedLate(b) ==
  LET all == Append(b.entries, b.next)
  IN  [entries  |-> IF Len(all) > Capacity + 1 THEN Tail(all) ELSE all,
       next     |-> b.next + 1,
       overflow |-> b.overflow \/ Len(all) > Capacity + 1]

Pushed(b) ==
  LET all == Append(b.entries, b.next)
  IN  [entries  |-> IF Len(all) > Capacity THEN Tail(all) ELSE all,
       next     |-> b.next + 1,
       overflow |-> b.overflow \/ Len(all) > Capacity]

(* The connections that had not sent entry `id' of block r.                 *)
Missing(r, id) == {e \in enabled : e[2] = r /\ cursor[e[1]][r] < id}

(* A task that does not notify block by block: a notification is replaced.  *)
AppendEntryAtOnce(r) ==
  /\ r \in todo
  /\ todo' = todo \ {r}
  /\ notifying' = {r}
  /\ buf' = [buf EXCEPT ![r] = Pushed(@)]
  /\ lost' = IF Len(buf[r].entries) = Capacity
             THEN lost \cup Missing(r, Head(buf[r].entries))
             ELSE lost
  /\ UNCHANGED <<reservationVars, store, changes, entryId, connVars, disturbed, seen>>

AppendEntry(r) ==
  /\ notifying = {}
  /\ r \in todo
  /\ todo' = todo \ {r}
  /\ notifying' = {r}
  /\ buf' = [buf EXCEPT ![r] = Pushed(@)]
  /\ lost' = IF Len(buf[r].entries) = Capacity
             THEN lost \cup Missing(r, Head(buf[r].entries))
             ELSE lost
  /\ UNCHANGED <<reservationVars, store, changes, entryId, connVars, disturbed, seen>>

Notify(r) ==
  /\ r \in notifying
  /\ notifying' = {}
  /\ notices' = [c \in Conns |-> IF c \in live THEN Sent(notices[c], r, ChannelSize, MaxReportLag + 1)
                                 ELSE notices[c]]
  /\ UNCHANGED <<reservationVars, store, changes, todo, buf, entryId, lag, cursor,
                 historyVars>>

-----------------------------------------------------------------------------
(* The connections.                                                         *)
Others(c, r) == {e \in enabled : e[2] = r /\ e[1] # c}

(* Connection c sends what is after k in the buffer of r, one report each,  *)
(* all with the BufOvfl flag of the buffer, which is cleared if any is sent.*)
(* EntryIDs ascend in the buffer: the last entry sent is the newest one.    *)
(* `restarts' tells the history that the client asked to continue from k.   *)
(* Before it, two slips: the flag is cleared though nothing was sent; only  *)
(* the oldest entry is sent.                                                *)
DrainKeepingFlagSilent(c, r, k, restarts) ==
  LET reports == Undelivered(buf[r], k) # {}
  IN  /\ cursor' = [cursor EXCEPT ![c][r] = IF reports THEN MaxId(buf[r]) ELSE k]
      /\ buf' = [buf EXCEPT ![r].overflow = FALSE]
      /\ UNCHANGED historyVars

DrainStoppingShort(c, r, k, restarts) ==
  LET reports == Undelivered(buf[r], k) # {}
  IN  /\ cursor' = [cursor EXCEPT ![c][r] = IF reports THEN Min(Undelivered(buf[r], k)) ELSE k]
      /\ buf' = [buf EXCEPT ![r].overflow = @ /\ ~reports]
      /\ UNCHANGED historyVars

Drain(c, r, k, restarts) ==
  LET reports == Undelivered(buf[r], k) # {}
      last    == IF reports THEN MaxId(buf[r]) ELSE k
  IN  /\ cursor' = [cursor EXCEPT ![c][r] = last]
      /\ buf' = [buf EXCEPT ![r].overflow = @ /\ ~reports]
      /\ seen' = [seen EXCEPT ![clientOf[c]][r] = IF reports /\ last > @ THEN last ELSE @]
      /\ lost' = IF restarts \/ (reports /\ buf[r].overflow) THEN lost \ {<<c, r>>} ELSE lost
      /\ disturbed' = (IF reports THEN disturbed \cup Others(c, r) ELSE disturbed)
                        \ (IF restarts THEN {<<c, r>>} ELSE {})

(* A connection is accepted and subscribes to the notifications.            *)
Accept(k) ==
  /\ OpenConnection(k)
  /\ UNCHANGED <<store, taskVars, buf, entryId, connVars, historyVars>>

(* The reservation check of a write to an attribute of a block.             *)
Check(c, w) ==
  /\ Grant(c, w) \/ Refuse(c, w)
  /\ UNCHANGED <<store, taskVars, buf, entryId, connVars, historyVars>>

(* A granted write takes effect.  All of them end in a store_write, which   *)
(* publishes a change of the attribute.                                     *)
Apply(g) ==
  /\ TakeEffect(g)
  /\ changes' = Published(AttrItem)
  /\ UNCHANGED <<store, todo, notifying, notices, lag>>

(* RptEna = TRUE: from the stored EntryID on, or else only what is new.     *)
StartCursor(r) == IF entryId[r] > 0 THEN entryId[r] ELSE MaxId(buf[r])

(* Without the drain, what was buffered before waits for the next change.   *)
EnableBlockQuietly(g) ==
  /\ Apply(g)
  /\ Enables(g.write)
  /\ cursor' = [cursor EXCEPT ![g.conn][g.write.rcb] = StartCursor(g.write.rcb)]
  /\ UNCHANGED <<buf, entryId, historyVars>>

EnableBlock(g) ==
  /\ Apply(g)
  /\ Enables(g.write)
  /\ Drain(g.conn, g.write.rcb, StartCursor(g.write.rcb), TRUE)
  /\ UNCHANGED entryId

DisableBlock(g) ==
  /\ Apply(g)
  /\ Disables(g.write)
  /\ cursor' = [cursor EXCEPT ![g.conn][g.write.rcb] = 0]
  /\ lost' = lost \cap enabled'
  /\ disturbed' = disturbed \cap enabled'
  /\ UNCHANGED <<buf, entryId, seen>>

(* EntryID: an enabled block resumes from there.                            *)
WriteEntryID(g) ==
  /\ Apply(g)
  /\ g.write.attr = "EntryID"
  /\ IF <<g.conn, g.write.rcb>> \in enabled
       THEN Drain(g.conn, g.write.rcb, g.write.val, TRUE)
       ELSE UNCHANGED <<buf, cursor, historyVars>>
  /\ entryId' = [entryId EXCEPT ![g.write.rcb] = g.write.val]

(* PurgeBuf = TRUE: the buffer is emptied and the own cursor starts over.   *)
PurgeBuffer(g) ==
  LET c == g.conn
      r == g.write.rcb
  IN  /\ Apply(g)
      /\ g.write.attr = "PurgeBuf" /\ g.write.val = 1
      /\ buf' = [buf EXCEPT ![r].entries = <<>>, ![r].overflow = FALSE]
      /\ cursor' = [cursor EXCEPT ![c][r] = 0]
      /\ lost' = lost \ {<<c, r>>}
      /\ disturbed' = disturbed \cup Others(c, r)
      /\ UNCHANGED <<entryId, seen>>

(* Any other attribute goes to the store and has no further effect here.    *)
WriteOther(g) ==
  /\ Apply(g)
  /\ g.write.attr \notin {"RptEna", "EntryID"}
  /\ ~(g.write.attr = "PurgeBuf" /\ g.write.val = 1)
  /\ UNCHANGED <<buf, entryId, cursor, historyVars>>

(* A notification that block r has grown reaches connection c.              *)
HandleNotice(c) ==
  LET r == Head(notices[c].queue)
  IN  /\ Idle(c)
      /\ Ready(notices[c])
      /\ notices' = [notices EXCEPT ![c] = Received(@)]
      /\ IF <<c, r>> \in enabled
           THEN Drain(c, r, cursor[c][r], FALSE)
           ELSE UNCHANGED <<buf, cursor, historyVars>>
      /\ UNCHANGED <<reservationVars, store, taskVars, entryId, lag>>

(* Connection c ends; everything it keeps goes.                             *)
Close(c) ==
  /\ DropConnection(c)
  /\ notices' = [notices EXCEPT ![c] = NewReceiver]
  /\ lag' = [lag EXCEPT ![c] = 0]
  /\ cursor' = [cursor EXCEPT ![c] = [r \in Rcbs |-> 0]]
  /\ lost' = lost \cap enabled'
  /\ disturbed' = disturbed \cap enabled'
  /\ UNCHANGED <<store, taskVars, buf, entryId, seen>>

(* Connection c learns that it lost notifications.  It counts them and, up  *)
(* to the limit, goes on with the next one.                                 *)
NoteLag(c) ==
  /\ Idle(c)
  /\ Lagged(notices[c])
  /\ lag[c] + notices[c].missed <= MaxReportLag
  /\ lag' = [lag EXCEPT ![c] = @ + notices[c].missed]
  /\ notices' = [notices EXCEPT ![c] = CaughtUp(@)]
  /\ UNCHANGED <<reservationVars, store, taskVars, buf, entryId, cursor, historyVars>>

CloseLagging(c) ==
  /\ Lagged(notices[c])
  /\ lag[c] + notices[c].missed > MaxReportLag
  /\ Close(c)

Tick ==
  /\ WindowTick
  /\ UNCHANGED <<store, taskVars, buf, entryId, connVars, historyVars>>

-----------------------------------------------------------------------------
BufferingTask == \/ TakeChange
                 \/ SkipLostChanges
                 \/ \E r \in Rcbs : AppendEntry(r)
                 \/ \E r \in Rcbs : Notify(r)

Effect(g) == \/ EnableBlock(g)
             \/ DisableBlock(g)
             \/ WriteEntryID(g)
             \/ PurgeBuffer(g)
             \/ WriteOther(g)

Next ==
  \/ \E i \in Items : WriteValue(i)
  \/ BufferingTask
  \/ \E k \in Clients : Accept(k)
  \/ \E c \in Conns, w \in Requests : Check(c, w)
  \/ \E c \in Conns, w \in Requests : Effect([conn |-> c, write |-> w])
  \/ \E c \in Conns : \/ HandleNotice(c)
                       \/ NoteLag(c)
                       \/ CloseLagging(c)
                       \/ Close(c)
  \/ Tick

Spec == Init /\ [][Next]_vars

(* The tasks of the server make progress.  The select loop of a connection  *)
(* is biased towards requests, hence strong fairness for the notifications: *)
(* no client keeps its socket readable for ever.                            *)
FairSpec ==
  /\ Spec
  /\ WF_vars(BufferingTask)
  /\ \A c \in Conns : /\ WF_vars(\E w \in Requests : Effect([conn |-> c, write |-> w]))
                      /\ SF_vars(HandleNotice(c))
                      /\ SF_vars(NoteLag(c) \/ CloseLagging(c))

-----------------------------------------------------------------------------
TypeOK ==
  /\ ReservationTypeOK
  /\ store \in [Items -> 0..MaxWrites]
  /\ changes \in [queue : Seq(Items \cup {AttrItem}), missed : Nat]
  /\ todo \subseteq Rcbs /\ notifying \subseteq Rcbs
  /\ buf \in [Rcbs -> [entries : Seq(Nat), next : Nat \ {0}, overflow : BOOLEAN]]
  /\ \A r \in Rcbs : Len(buf[r].entries) <= Capacity
  /\ entryId \in [Rcbs -> Nat]
  /\ notices \in [Conns -> [queue : Seq(Rcbs), missed : Nat]]
  /\ lag \in [Conns -> 0..MaxReportLag]
  /\ cursor \in [Conns -> [Rcbs -> Nat]]
  /\ seen \in [Clients -> [Rcbs -> Nat]]
  /\ lost \subseteq enabled /\ disturbed \subseteq enabled

(* EntryIDs identify entries: a buffer holds consecutive ids up to the      *)
(* newest one given out, across overflow, purges and concurrent drains.     *)
EntryIdsAreConsecutive ==
  \A r \in Rcbs :
    LET b == buf[r]
        n == Len(b.entries)
    IN  \A i \in 1..n : b.entries[i] = b.next - n - 1 + i

(* An entry that the buffer dropped before a connection that has the block  *)
(* enabled could send it is announced: BufOvfl stays set until a report     *)
(* carries it, unless another connection took part.                         *)
LossIsSignalled ==
  \A e \in lost \ disturbed : buf[e[2]].overflow

(* No lost wakeup: while the buffer has an entry that an enabled connection *)
(* has not sent, a notification is on its way, unless the connection ever   *)
(* lagged.  Entries may be appended while it enables, resumes or purges.    *)
NoLostWakeup ==
  \A c \in Conns, r \in Rcbs :
    /\ <<c, r>> \in enabled
    /\ Undelivered(buf[r], cursor[c][r]) # {}
    => \/ r \in notifying \cup Range(notices[c].queue)
       \/ lag[c] > 0 \/ Lagged(notices[c])

(* What is buffered is sent to a connection that keeps the block enabled.   *)
BufferedEntryIsSent ==
  \A c \in Conns, r \in Rcbs :
    <<c, r>> \in enabled /\ Undelivered(buf[r], cursor[c][r]) # {}
      ~> \/ <<c, r>> \notin enabled
         \/ Undelivered(buf[r], cursor[c][r]) = {}
         \/ lag[c] > 0

-----------------------------------------------------------------------------
(* What the manual says of buffered reports and the code does not do.       *)

(* User manual: when a client enables a block again, the server sends what  *)
(* it missed since the last EntryID it saw; nothing that the buffer still   *)
(* has is skipped.                                                          *)
ReenablingResumes ==
  \A e \in enabled :
    LET k == clientOf[e[1]]
        r == e[2]
    IN  seen[k][r] > 0 => cursor[e[1]][r] <= seen[k][r]
=============================================================================
