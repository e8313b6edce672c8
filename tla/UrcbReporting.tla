---------------------------- MODULE UrcbReporting ----------------------------
(***************************************************************************)
(* Unbuffered reporting of the MMS server: what a client that has enabled  *)
(* an unbuffered control block (URCB) knows of the values of its data set. *)
(*                                                                         *)
(*   writers --store, change_tx--> connection task --reports--> client     *)
(*                                                                         *)
(* A writer stores a value under the lock and announces it after the lock  *)
(* is released (apply_value), so that writers may overtake each other.     *)
(* The connection compares an announced value with the last one it took    *)
(* from the channel (last_values); a general interrogation and the         *)
(* integrity period report the store and leave last_values alone.          *)
(*                                                                         *)
(* A member of the data set is a set of leaf items: one of them stands for *)
(* a leaf member, several for a data object, whose value is read from the  *)
(* store when one of its leaves changes.                                   *)
(***************************************************************************)
EXTENDS Broadcast, FiniteSets

CONSTANTS
  Writers,      \* tasks that write values
  Items,        \* leaf items
  Values,       \* their values
  Members,      \* the data set: a sequence of sets of items
  IntgPd,       \* integrity period in ticks; 0 for none
  ChannelSize,  \* capacity of change_tx
  MaxReportLag, \* ServerLimits::max_report_lag
  MaxWrites     \* bound on the values written

ASSUME UrcbAssumption ==
  /\ IsFiniteSet(Items) /\ Values # {}
  /\ Members \in Seq(SUBSET Items)
  /\ IntgPd \in Nat /\ MaxReportLag \in Nat /\ MaxWrites \in Nat
  /\ ChannelSize \in Nat \ {0}

VARIABLES
  store,      \* the value of each item
  written,    \* history: how many values were written
  announcing, \* what each writer has stored and not yet announced, if anything
  changes,    \* the connection's receiver of change_tx
  open,       \* the connection runs
  enabled,    \* it has the block enabled
  last,       \* RcbRuntime::last_values, by member
  left,       \* ticks to next_integrity
  lag,        \* report_lag
  shown,      \* history: what the client was last told of each member
  announced,  \* history: the newest version announced of each item
  overtaken,  \* history: items with an announcement that came after a newer one
  lost,       \* history: items with a change that was lost while enabled
  crossed     \* history: a report of every member was sent while changes were under way

urcbVars == <<store, written, announcing, changes, open, enabled, last, left, lag,
              shown, announced, overtaken, lost, crossed>>

NoChange == <<>>
NoValue == <<>>

MemberIds == DOMAIN Members
IsLeaf(m) == Cardinality(Members[m]) = 1

(* member_value: what the store has for a member.                           *)
Now(m) == [i \in Members[m] |-> store[i]]

UrcbInit ==
  /\ store = [i \in Items |-> CHOOSE v \in Values : TRUE]
  /\ written = 0
  /\ announcing = [w \in Writers |-> NoChange]
  /\ changes = NewReceiver
  /\ open = TRUE
  /\ enabled = FALSE
  /\ last = [m \in MemberIds |-> NoValue]
  /\ left = 0
  /\ lag = 0
  /\ shown = [m \in MemberIds |-> NoValue]
  /\ announced = [i \in Items |-> 0]
  /\ overtaken = {}
  /\ lost = {}
  /\ crossed = FALSE

connectionVars == <<changes, open, enabled, last, left, lag, shown, lost, crossed>>

-----------------------------------------------------------------------------
(* apply_value, in two steps.                                               *)
StoreValue(w, i, v) ==
  /\ announcing[w] = NoChange
  /\ written < MaxWrites
  /\ written' = written + 1
  /\ store' = [store EXCEPT ![i] = v]
  /\ announcing' = [announcing EXCEPT ![w] = [item |-> i, value |-> v, version |-> written']]
  /\ UNCHANGED <<connectionVars, announced, overtaken>>

Announce(w) ==
  LET c == announcing[w]
  IN  /\ c # NoChange
      /\ announcing' = [announcing EXCEPT ![w] = NoChange]
      /\ changes' = IF open
                      THEN Sent(changes, [item |-> c.item, value |-> c.value],
                                ChannelSize, MaxReportLag + 1)
                      ELSE changes
      /\ lost' = IF enabled /\ Len(changes.queue) = ChannelSize
                   THEN lost \cup {Head(changes.queue).item}
                   ELSE lost
      /\ IF c.version > announced[c.item]
           THEN announced' = [announced EXCEPT ![c.item] = c.version] /\ UNCHANGED overtaken
           ELSE overtaken' = overtaken \cup {c.item} /\ UNCHANGED announced
      /\ UNCHANGED <<store, written, open, enabled, last, left, lag, shown, crossed>>

-----------------------------------------------------------------------------
writerVars == <<store, written, announcing, announced, overtaken>>

(* RptEna = TRUE: the values of leaf members are taken as known; the value  *)
(* of a data object is not assembled here, so its first change is reported. *)
Enable ==
  /\ open
  /\ ~enabled
  /\ enabled' = TRUE
  /\ last' = [m \in MemberIds |-> IF IsLeaf(m) THEN Now(m) ELSE NoValue]
  /\ left' = IntgPd
  /\ shown' = [m \in MemberIds |-> NoValue]
  /\ lost' = {}
  /\ crossed' = FALSE
  /\ UNCHANGED <<writerVars, changes, open, lag>>

Disable ==
  /\ open
  /\ enabled
  /\ enabled' = FALSE
  /\ last' = [m \in MemberIds |-> NoValue]
  /\ left' = 0
  /\ shown' = [m \in MemberIds |-> NoValue]
  /\ lost' = {}
  /\ crossed' = FALSE
  /\ UNCHANGED <<writerVars, changes, open, lag>>

ReportAllKnown ==
  /\ open
  /\ enabled
  /\ shown' = [m \in MemberIds |-> IF last[m] = NoValue THEN Now(m) ELSE last[m]]
  /\ crossed' = crossed

(* Every member is reported from the store.                                 *)
ReportAll ==
  /\ open
  /\ enabled
  /\ shown' = [m \in MemberIds |-> Now(m)]
  /\ crossed' = (crossed \/ changes # NewReceiver \/ \E w \in Writers : announcing[w] # NoChange)

(* GI = TRUE.                                                               *)
GeneralInterrogation ==
  /\ ReportAll
  /\ UNCHANGED <<writerVars, changes, open, enabled, last, left, lag, lost>>

(* member_covering: the first member that has the item.                     *)
Covering(i) ==
  LET covering == {m \in MemberIds : i \in Members[m]}
  IN  {m \in covering : \A n \in covering : m <= n}

KnownAsBefore(m, c) == last[m]

(* on_value_change for one member: the value to compare and to report.      *)
Reported(m, c) == IF IsLeaf(m) THEN [i \in Members[m] |-> c.value] ELSE Now(m)

Known(m, c) == Reported(m, c)

HandleChange ==
  LET c == Head(changes.queue)
      news == {m \in Covering(c.item) : last[m] # Reported(m, c)}
  IN  /\ open
      /\ Ready(changes)
      /\ changes' = Received(changes)
      /\ IF enabled
           THEN /\ last' = [m \in MemberIds |-> IF m \in news THEN Known(m, c) ELSE last[m]]
                /\ shown' = [m \in MemberIds |-> IF m \in news THEN Reported(m, c) ELSE shown[m]]
           ELSE UNCHANGED <<last, shown>>
      /\ UNCHANGED <<writerVars, open, enabled, left, lag, lost, crossed>>

(* The channel overflowed: the connection goes on, or ends when it has lost *)
(* too much in all.                                                         *)
NoteLag ==
  /\ open
  /\ Lagged(changes)
  /\ lag + changes.missed <= MaxReportLag
  /\ lag' = lag + changes.missed
  /\ changes' = CaughtUp(changes)
  /\ UNCHANGED <<writerVars, open, enabled, last, left, shown, lost, crossed>>

CloseLagging ==
  /\ open
  /\ Lagged(changes)
  /\ lag + changes.missed > MaxReportLag
  /\ open' = FALSE
  /\ enabled' = FALSE
  /\ changes' = NewReceiver
  /\ last' = [m \in MemberIds |-> NoValue]
  /\ shown' = [m \in MemberIds |-> NoValue]
  /\ left' = 0
  /\ lost' = {}
  /\ crossed' = FALSE
  /\ UNCHANGED <<writerVars, lag>>

(* The integrity period; the select is biased, changes come first.          *)
Integrity ==
  /\ IntgPd > 0 /\ left = 0
  /\ changes.queue = <<>> /\ ~Lagged(changes)
  /\ ReportAll
  /\ left' = IntgPd
  /\ UNCHANGED <<writerVars, changes, open, enabled, last, lag, lost>>

UrcbTick ==
  /\ left > 0
  /\ left' = left - 1
  /\ UNCHANGED <<writerVars, changes, open, enabled, last, lag, shown, lost, crossed>>

UrcbNext ==
  \/ \E w \in Writers, i \in Items, v \in Values : StoreValue(w, i, v)
  \/ \E w \in Writers : Announce(w)
  \/ Enable
  \/ Disable
  \/ GeneralInterrogation
  \/ HandleChange
  \/ NoteLag
  \/ CloseLagging
  \/ Integrity
  \/ UrcbTick

UrcbSpec == UrcbInit /\ [][UrcbNext]_urcbVars

(* The tasks run; no client keeps its socket readable for ever.             *)
UrcbFairness ==
  /\ \A w \in Writers : WF_urcbVars(Announce(w))
  /\ WF_urcbVars(HandleChange) /\ WF_urcbVars(NoteLag \/ CloseLagging)
  /\ WF_urcbVars(Integrity) /\ WF_urcbVars(UrcbTick)

UrcbFairSpec == UrcbSpec /\ UrcbFairness

-----------------------------------------------------------------------------
UrcbTypeOK ==
  /\ store \in [Items -> Values]
  /\ lag \in 0..MaxReportLag
  /\ left \in 0..IntgPd
  /\ Len(changes.queue) <= ChannelSize
  /\ ~open => ~enabled
  /\ lost \subseteq Items /\ overtaken \subseteq Items

(* The changes of a member are its own: no member before it has its items.  *)
CoversItself(m) == \A i \in Members[m] : Covering(i) = {m}

(* Once every announced change is handled, what the client was told last is *)
(* the value in the store, however changes, interrogations, integrity       *)
(* reports and enabling are interleaved: unless a change was lost or two    *)
(* writers overtook each other, and, for a data object, unless a report of  *)
(* every member was sent while changes were under way (last_values is then  *)
(* ahead of what the client knows). Of a member whose items another one has *)
(* before it, nothing is said.                                              *)
LastReportIsCurrent ==
  enabled /\ changes = NewReceiver /\ (\A w \in Writers : announcing[w] = NoChange) =>
    \A m \in MemberIds :
      /\ shown[m] # NoValue
      /\ CoversItself(m)
      /\ Members[m] \cap (lost \cup overtaken) = {}
      /\ ~IsLeaf(m) => ~crossed
      => shown[m] = Now(m)

(* With an integrity period the client learns the values in the end, even   *)
(* if changes were lost, overtaken or crossed by an interrogation.          *)
IntegrityRepairs ==
  IntgPd > 0 => (<>[]enabled => <>[](\A m \in MemberIds : shown[m] = Now(m)))
=============================================================================
