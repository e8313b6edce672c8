------------------------- MODULE ServerObjects_proofs -------------------------
(***************************************************************************)
(* Proofs about objects of the MMS server: what a client of an unbuffered  *)
(* report control block knows of the values, for any number of writers,    *)
(* items and members of its data set; setting groups, for any number of    *)
(* groups, settings, values and clients; and the transfer of files in both *)
(* directions, for any number of files, blocks and transfers.              *)
(***************************************************************************)
EXTENDS UrcbReporting, SettingGroups, FileTransfer, FiniteSetTheorems, SequenceTheorems,
        WellFoundedInduction, TLAPS

-----------------------------------------------------------------------------
(* Unbuffered reporting.                                                   *)

Change == [item : Items, value : Values]
Announcement == [item : Items, value : Values, version : Nat]

(* Where the messages on an item are in the channel, and who is about to    *)
(* announce it.                                                            *)
QueuedOn(i) == {k \in DOMAIN changes.queue : changes.queue[k].item = i}
AnnouncingOn(i) == {w \in Writers : announcing[w] # NoChange /\ announcing[w].item = i}
Newest(i, w) ==
  /\ w \in AnnouncingOn(i) /\ announcing[w].version > announced[i]
  /\ \A u \in AnnouncingOn(i) : announcing[u].version <= announcing[w].version
AllAnnounced(i) == \A w \in AnnouncingOn(i) : announcing[w].version < announced[i]

UrcbTypes ==
  /\ store \in [Items -> Values]
  /\ written \in 0..MaxWrites
  /\ announcing \in [Writers -> Announcement \cup {NoChange}]
  /\ announced \in [Items -> 0..written]
  /\ changes \in [queue : Seq(Change), missed : 0..MaxReportLag + 1]
  /\ Len(changes.queue) <= ChannelSize
  /\ open \in BOOLEAN /\ enabled \in BOOLEAN /\ (enabled => open)
  /\ ~open => changes.queue = <<>>
  /\ left \in 0..IntgPd /\ lag \in 0..MaxReportLag
  /\ lost \subseteq Items /\ overtaken \subseteq Items
  /\ crossed \in BOOLEAN

(* Every write has a version of its own.                                   *)
VersionsDiffer ==
  /\ \A w \in Writers : announcing[w] # NoChange => announcing[w].version <= written
  /\ \A u, w \in Writers :
       /\ announcing[w] # NoChange /\ announcing[u] # NoChange /\ u # w
       => announcing[u].version # announcing[w].version
  /\ \A w \in Writers :
       announcing[w] # NoChange => announcing[w].version # announced[announcing[w].item]

(* Where the value of the store is on its way: with the newest writer, or   *)
(* in the last message on the item.                                        *)
StoreIsOnItsWay ==
  \A i \in Items :
    /\ AllAnnounced(i) \/ \E w \in Writers : Newest(i, w)
    /\ \A w \in Writers : Newest(i, w) => announcing[w].value = store[i]
    /\ AllAnnounced(i) /\ i \notin overtaken =>
         \A k \in QueuedOn(i) :
           (\A j \in QueuedOn(i) : j <= k) => changes.queue[k].value = store[i]

(* A leaf: when nothing is on its way, last_values has the value; what the  *)
(* client was told is that, or what is on its way.                         *)
LeafFollows(m, i) ==
  /\ enabled /\ CoversItself(m) /\ Members[m] = {i} /\ i \notin lost \cup overtaken
  => /\ AllAnnounced(i) /\ QueuedOn(i) = {} => last[m] = [j \in {i} |-> store[i]]
     /\ \/ shown[m] \in {NoValue, last[m]}
        \/ \E k \in QueuedOn(i) : shown[m] = [j \in {i} |-> changes.queue[k].value]
        \/ \E w \in AnnouncingOn(i) : shown[m] = [j \in {i} |-> announcing[w].value]

(* A data object: the same, for as long as no report of every member was    *)
(* sent while changes were under way.                                      *)
PendingOn(m) == \E i \in Members[m] : QueuedOn(i) # {} \/ AnnouncingOn(i) # {}
ObjectFollows(m) ==
  /\ enabled /\ CoversItself(m) /\ ~IsLeaf(m) /\ Members[m] \cap lost = {}
  => /\ ~PendingOn(m) /\ last[m] # NoValue => last[m] = Now(m)
     /\ ~crossed /\ last[m] # NoValue => shown[m] = last[m]
     /\ ~crossed /\ last[m] = NoValue /\ ~PendingOn(m) => shown[m] \in {NoValue, Now(m)}

UrcbIInv ==
  /\ UrcbTypes
  /\ VersionsDiffer
  /\ StoreIsOnItsWay
  /\ \A m \in MemberIds : (\A i \in Items : LeafFollows(m, i)) /\ ObjectFollows(m)
-----------------------------------------------------------------------------
USE UrcbAssumption

(* The following follows from the invariant's first part.                  *)
LEMMA UrcbTyped ==
  ASSUME UrcbTypes
  PROVE  /\ changes.queue \in Seq(Change) /\ Len(changes.queue) \in Nat
         /\ DOMAIN changes.queue = 1..Len(changes.queue)
         /\ \A k \in DOMAIN changes.queue :
              changes.queue[k].item \in Items /\ changes.queue[k].value \in Values
         /\ \A w \in Writers : announcing[w] # NoChange =>
              /\ announcing[w].item \in Items /\ announcing[w].value \in Values
              /\ announcing[w].version \in Nat
         /\ \A i \in Items : announced[i] \in Nat
         /\ written \in Nat
<1>1. changes.queue \in Seq(Change)
  BY DEF UrcbTypes
<1>2. \A k \in DOMAIN changes.queue :
        changes.queue[k].item \in Items /\ changes.queue[k].value \in Values
  <2> PICK Q : Q = changes.queue
    OBVIOUS
  <2>1. Q \in Seq(Change)
    BY <1>1
  <2>2. \A k \in DOMAIN Q : Q[k] \in Change
    BY <2>1
  <2>3. QED
    BY <2>2 DEF Change
<1>3. \A w \in Writers : announcing[w] # NoChange =>
        /\ announcing[w].item \in Items /\ announcing[w].value \in Values
        /\ announcing[w].version \in Nat
  BY DEF UrcbTypes, Announcement, NoChange
<1>4. QED
  BY <1>1, <1>2, <1>3 DEF UrcbTypes

(* A writer has stored a value: it is the newest on its item.              *)
LEMMA StoreKeepsTypes ==
  ASSUME UrcbIInv, NEW w \in Writers, NEW i \in Items, NEW v \in Values, StoreValue(w, i, v)
  PROVE  UrcbTypes' /\ VersionsDiffer'
<1>1. /\ UrcbTypes /\ VersionsDiffer
      /\ \A j \in Items : announced[j] \in 0..written
  BY DEF UrcbIInv, UrcbTypes
<1>2. /\ written' = written + 1 /\ written \in Nat /\ written' \in 0..MaxWrites
      /\ announcing[w] = NoChange
      /\ announcing' = [announcing EXCEPT ![w] = [item |-> i, value |-> v, version |-> written + 1]]
  BY <1>1 DEF StoreValue, UrcbTypes
<1>3. [item |-> i, value |-> v, version |-> written + 1] \in Announcement
  BY <1>2 DEF Announcement
<1>4. announcing' \in [Writers -> Announcement \cup {NoChange}]
  BY <1>1, <1>2, <1>3 DEF UrcbTypes
<1>5. announced' \in [Items -> 0..written']
  BY <1>1, <1>2 DEF StoreValue, UrcbTypes
<1>6. UrcbTypes'
  BY <1>1, <1>2, <1>4, <1>5 DEF StoreValue, UrcbTypes, connectionVars
<1>7. /\ announcing'[w].version = written + 1 /\ announcing'[w].item = i
      /\ \A u \in Writers \ {w} : announcing'[u] = announcing[u]
  BY <1>1, <1>2 DEF UrcbTypes
<1>8. \A u \in Writers : announcing[u] # NoChange =>
        announcing[u].version \in Nat /\ announcing[u].version <= written
  BY <1>1, UrcbTyped DEF VersionsDiffer
<1>9. announced[i] <= written /\ announced[i] \in Nat /\ announced' = announced
  BY <1>1, <1>2 DEF StoreValue
<1>10. \A u \in Writers : announcing'[u] # NoChange => announcing'[u].version <= written'
  BY <1>2, <1>7, <1>8
<1>11. \A u, x \in Writers :
          announcing'[u] # NoChange /\ announcing'[x] # NoChange /\ u # x =>
            announcing'[u].version # announcing'[x].version
  <2> TAKE u \in Writers, x \in Writers
  <2> HAVE announcing'[u] # NoChange /\ announcing'[x] # NoChange /\ u # x
  <2>1. CASE u = w
    <3>1. announcing[x] # NoChange /\ announcing'[x].version = announcing[x].version
      BY <1>7, <2>1
    <3>2. QED
      BY <1>2, <1>7, <1>8, <2>1, <3>1
  <2>2. CASE x = w
    <3>1. announcing[u] # NoChange /\ announcing'[u].version = announcing[u].version
      BY <1>7, <2>2
    <3>2. QED
      BY <1>2, <1>7, <1>8, <2>2, <3>1
  <2>3. CASE u # w /\ x # w
    BY <1>1, <1>7, <2>3 DEF VersionsDiffer
  <2>4. QED
    BY <2>1, <2>2, <2>3
<1>12. \A u \in Writers :
         announcing'[u] # NoChange => announcing'[u].version # announced'[announcing'[u].item]
  <2> TAKE u \in Writers
  <2>1. CASE u = w
    BY <1>2, <1>7, <1>9, <2>1
  <2>2. CASE u # w
    BY <1>1, <1>7, <1>9, <2>2 DEF VersionsDiffer
  <2>3. QED
    BY <2>1, <2>2
<1>13. QED
  BY <1>6, <1>10, <1>11, <1>12 DEF VersionsDiffer

LEMMA StoreKeepsWay ==
  ASSUME UrcbIInv, NEW w \in Writers, NEW i \in Items, NEW v \in Values, StoreValue(w, i, v)
  PROVE  /\ StoreIsOnItsWay'
         /\ w \in AnnouncingOn(i)' /\ ~AllAnnounced(i)'
         /\ \A j \in Items : AnnouncingOn(j) \subseteq AnnouncingOn(j)'
         /\ \A j \in Items \ {i} : AnnouncingOn(j)' = AnnouncingOn(j) /\ store'[j] = store[j]
         /\ \A u \in Writers \ {w} : announcing'[u] = announcing[u]
         /\ \A j \in Items : w \notin AnnouncingOn(j)
<1>1. /\ UrcbTypes /\ VersionsDiffer /\ StoreIsOnItsWay
      /\ \A j \in Items : announced[j] \in Nat /\ announced[j] <= written
  BY DEF UrcbIInv, UrcbTypes
<1>2. /\ announcing[w] = NoChange /\ written \in Nat
      /\ announcing'[w] = [item |-> i, value |-> v, version |-> written + 1]
      /\ \A u \in Writers \ {w} : announcing'[u] = announcing[u]
      /\ store'[i] = v /\ \A j \in Items \ {i} : store'[j] = store[j]
      /\ UNCHANGED <<announced, overtaken, changes>>
  BY <1>1 DEF StoreValue, UrcbTypes, connectionVars
<1>3. announcing'[w] # NoChange
  BY <1>2 DEF NoChange
<1>4. /\ w \in AnnouncingOn(i)'
      /\ \A j \in Items : AnnouncingOn(j) \subseteq AnnouncingOn(j)'
      /\ \A j \in Items \ {i} : AnnouncingOn(j)' = AnnouncingOn(j)
      /\ \A j \in Items : w \notin AnnouncingOn(j)
  BY <1>2, <1>3 DEF AnnouncingOn
<1>5. ~AllAnnounced(i)'
  BY <1>1, <1>2, <1>4 DEF AllAnnounced
<1>6. \A u \in AnnouncingOn(i)' : u # w =>
         announcing'[u].version \in Nat /\ announcing'[u].version <= written
  BY <1>1, <1>2, UrcbTyped DEF AnnouncingOn, VersionsDiffer
<1>7. Newest(i, w)' /\ \A u \in Writers : Newest(i, u)' => u = w
  BY <1>1, <1>2, <1>4, <1>6 DEF Newest
<1>8. ASSUME NEW j \in Items \ {i}
      PROVE  /\ AllAnnounced(j)' = AllAnnounced(j)
             /\ \A u \in Writers : Newest(j, u)' = Newest(j, u)
             /\ QueuedOn(j)' = QueuedOn(j)
             /\ \A u \in AnnouncingOn(j) : announcing'[u] = announcing[u]
  <2>1. \A u \in AnnouncingOn(j) : announcing'[u] = announcing[u]
    BY <1>2, <1>4 DEF AnnouncingOn
  <2>2. AllAnnounced(j)' = AllAnnounced(j)
    BY <1>2, <1>4, <2>1 DEF AllAnnounced
  <2>3. \A u \in Writers : Newest(j, u)' = Newest(j, u)
    BY <1>2, <1>4, <2>1 DEF Newest
  <2>4. QED
    BY <1>2, <2>1, <2>2, <2>3 DEF QueuedOn
<1>9. StoreIsOnItsWay'
  <2>1. ASSUME NEW j \in Items
        PROVE  /\ AllAnnounced(j)' \/ \E u \in Writers : Newest(j, u)'
               /\ \A u \in Writers : Newest(j, u)' => announcing'[u].value = store'[j]
               /\ AllAnnounced(j)' /\ j \notin overtaken' =>
                    \A k \in QueuedOn(j)' :
                      (\A n \in QueuedOn(j)' : n <= k) => changes'.queue[k].value = store'[j]
    <3>1. CASE j = i
      BY <1>2, <1>5, <1>7, <3>1
    <3>2. CASE j # i
      <4>1. \A u \in Writers : Newest(j, u) => announcing'[u].value = announcing[u].value
        BY <1>8, <3>2 DEF Newest
      <4>2. QED
        BY <1>1, <1>2, <1>8, <3>2, <4>1 DEF StoreIsOnItsWay
    <3>3. QED
      BY <3>1, <3>2
  <2>2. QED
    BY <2>1 DEF StoreIsOnItsWay
<1>10. QED
  BY <1>2, <1>4, <1>5, <1>9

LEMMA StoreValueKeeps ==
  ASSUME UrcbIInv, NEW w \in Writers, NEW i \in Items, NEW v \in Values, StoreValue(w, i, v)
  PROVE  UrcbIInv'
<1>1. /\ UNCHANGED connectionVars /\ UNCHANGED overtaken /\ UNCHANGED announced
  BY DEF StoreValue
<1>2. \A j \in Items : QueuedOn(j)' = QueuedOn(j)
  BY <1>1 DEF QueuedOn, connectionVars
<1>3. ASSUME NEW m \in MemberIds, NEW j \in Items PROVE LeafFollows(m, j)'
  <2>1. LeafFollows(m, j)
    BY DEF UrcbIInv
  <2>2. \A u \in AnnouncingOn(j) : announcing'[u] = announcing[u]
    BY StoreKeepsWay DEF AnnouncingOn
  <2>3. AllAnnounced(j)' => AllAnnounced(j) /\ store'[j] = store[j]
    <3>1. CASE j = i
      BY <3>1, StoreKeepsWay
    <3>2. CASE j # i
      BY <1>1, <2>2, <3>2, StoreKeepsWay DEF AllAnnounced
    <3>3. QED
      BY <3>1, <3>2
  <2>4. (\E u \in AnnouncingOn(j) : shown[m] = [n \in {j} |-> announcing[u].value]) =>
          \E u \in AnnouncingOn(j)' : shown[m] = [n \in {j} |-> announcing'[u].value]
    <3>1. AnnouncingOn(j) \subseteq AnnouncingOn(j)'
      BY StoreKeepsWay
    <3>2. QED
      BY <2>2, <3>1
  <2>5. QED
    BY <1>1, <1>2, <2>1, <2>3, <2>4 DEF LeafFollows, connectionVars
<1>4. ASSUME NEW m \in MemberIds PROVE ObjectFollows(m)'
  <2>1. ObjectFollows(m) /\ Members[m] \subseteq Items
    BY DEF UrcbIInv, MemberIds
  <2>2. PendingOn(m) => PendingOn(m)'
    BY <1>2, <2>1, StoreKeepsWay DEF PendingOn
  <2>3. CASE i \in Members[m]
    <3>1. PendingOn(m)'
      BY <2>3, StoreKeepsWay DEF PendingOn
    <3>2. QED
      BY <1>1, <2>1, <3>1 DEF ObjectFollows, connectionVars
  <2>4. CASE i \notin Members[m]
    <3>1. \A j \in Members[m] : store'[j] = store[j]
      BY <2>1, <2>4, StoreKeepsWay
    <3>2. Now(m)' = Now(m)
      BY <3>1 DEF Now
    <3>3. QED
      BY <1>1, <2>1, <2>2, <3>2 DEF ObjectFollows, connectionVars
  <2>5. QED
    BY <2>3, <2>4
<1>5. QED
  BY <1>3, <1>4, StoreKeepsTypes, StoreKeepsWay DEF UrcbIInv

-----------------------------------------------------------------------------
(* What a message is, and what an announcement does to the channel: the     *)
(* message is the last in it, and the first may have been dropped for it.   *)
Message(w) == [item |-> announcing[w].item, value |-> announcing[w].value]
Shifted(s) ==
  /\ s \in {0, 1}
  /\ changes'.queue \in Seq(Change) /\ changes'.missed \in 0..MaxReportLag + 1
  /\ changes' \in [queue : Seq(Change), missed : 0..MaxReportLag + 1]
  /\ Len(changes'.queue) = Len(changes.queue) + 1 - s
  /\ Len(changes'.queue) <= ChannelSize
  /\ \A k \in 1..Len(changes.queue) - s : changes'.queue[k] = changes.queue[k + s]
  /\ s = 1 => 1 \in DOMAIN changes.queue /\ (enabled => changes.queue[1].item \in lost')

LEMMA AnnouncedIsQueued ==
  ASSUME UrcbIInv, NEW w \in Writers, Announce(w), open
  PROVE  \E s \in {0, 1} :
           Shifted(s) /\ changes'.queue[Len(changes'.queue)] = Message(w)
<1> PICK Q : Q = changes.queue
  OBVIOUS
<1> PICK missed : missed = changes.missed
  OBVIOUS
<1> PICK msg : msg = Message(w)
  OBVIOUS
<1>1. /\ Q \in Seq(Change) /\ Len(Q) \in Nat /\ Len(Q) <= ChannelSize
      /\ missed \in 0..MaxReportLag + 1 /\ changes = [queue |-> Q, missed |-> missed]
  BY DEF UrcbIInv, UrcbTypes
<1>2. announcing[w] # NoChange /\ msg \in Change
  <2>1. announcing[w] \in Announcement
    BY DEF Announce, UrcbIInv, UrcbTypes
  <2>2. QED
    BY <2>1 DEF Announce, Announcement, Change, Message
<1>3. changes' = Sent(changes, msg, ChannelSize, MaxReportLag + 1)
  BY DEF Announce, Message
<1>4. CASE Len(Q) < ChannelSize
  <2> PICK R : R = Append(Q, msg)
    OBVIOUS
  <2>1. changes' = [queue |-> R, missed |-> missed]
    BY <1>1, <1>3, <1>4 DEF Sent
  <2>2. /\ R \in Seq(Change) /\ Len(R) = Len(Q) + 1 /\ R[Len(R)] = msg
        /\ \A k \in 1..Len(Q) : R[k] = Q[k]
    BY <1>1, <1>2
  <2>3. Shifted(0)
    <3>1. \A k \in 1..Len(Q) - 0 : R[k] = Q[k + 0]
      BY <1>1, <2>2
    <3>2. QED
      BY <1>1, <1>4, <2>1, <2>2, <3>1 DEF Shifted
  <2>4. QED
    BY <2>1, <2>2, <2>3
<1>5. CASE ~(Len(Q) < ChannelSize)
  <2> PICK R : R = Append(Tail(Q), msg)
    OBVIOUS
  <2> PICK n : n = IF missed < MaxReportLag + 1 THEN missed + 1 ELSE MaxReportLag + 1
    OBVIOUS
  <2>1. changes' = [queue |-> R, missed |-> n]
    BY <1>1, <1>3, <1>5 DEF Sent
  <2>2. Len(Q) = ChannelSize /\ Len(Q) >= 1 /\ Q # <<>>
    BY <1>1, <1>5
  <2>3. /\ R \in Seq(Change) /\ Len(R) = Len(Q) /\ R[Len(R)] = msg
        /\ \A k \in 1..Len(Q) - 1 : R[k] = Q[k + 1]
    BY <1>1, <1>2, <2>2
  <2>4. n \in 0..MaxReportLag + 1
    BY <1>1
  <2>5. enabled => Q[1].item \in lost'
    BY <1>1, <2>2 DEF Announce
  <2>6. Shifted(1)
    BY <1>1, <2>1, <2>2, <2>3, <2>4, <2>5 DEF Shifted
  <2>7. QED
    BY <2>1, <2>3, <2>6
<1>6. QED
  BY <1>4, <1>5

(* The others in the channel keep their order.                             *)
LEMMA OthersAreQueued ==
  ASSUME UrcbTypes, NEW s, Shifted(s), NEW k \in DOMAIN changes'.queue
  PROVE  \/ k = Len(changes'.queue)
         \/ /\ k + s \in DOMAIN changes.queue
            /\ changes'.queue[k] = changes.queue[k + s]
<1> PICK Q : Q = changes.queue
  OBVIOUS
<1> PICK R : R = changes'.queue
  OBVIOUS
<1>1. /\ Q \in Seq(Change) /\ R \in Seq(Change) /\ s \in {0, 1} /\ k \in DOMAIN R
      /\ Len(R) = Len(Q) + 1 - s /\ \A n \in 1..Len(Q) - s : R[n] = Q[n + s]
  BY UrcbTyped DEF Shifted
<1>2. Len(Q) \in Nat /\ k \in 1..Len(R) /\ DOMAIN Q = 1..Len(Q)
  BY <1>1
<1>3. CASE k # Len(R)
  <2>1. k \in 1..Len(Q) - s /\ k + s \in 1..Len(Q)
    BY <1>1, <1>2, <1>3
  <2>2. QED
    BY <1>1, <1>2, <2>1
<1>4. QED
  BY <1>3

LEMMA StillQueued ==
  ASSUME UrcbTypes, NEW s, Shifted(s), NEW k \in DOMAIN changes.queue, k > s
  PROVE  /\ k - s \in DOMAIN changes'.queue /\ k - s < Len(changes'.queue)
         /\ changes'.queue[k - s] = changes.queue[k]
<1> PICK Q : Q = changes.queue
  OBVIOUS
<1> PICK R : R = changes'.queue
  OBVIOUS
<1>1. /\ Q \in Seq(Change) /\ R \in Seq(Change) /\ s \in {0, 1} /\ k \in DOMAIN Q
      /\ Len(R) = Len(Q) + 1 - s /\ \A n \in 1..Len(Q) - s : R[n] = Q[n + s]
  BY UrcbTyped DEF Shifted
<1>2. Len(Q) \in Nat /\ k \in 1..Len(Q) /\ Len(R) \in Nat /\ DOMAIN R = 1..Len(R)
  BY <1>1
<1>3. /\ k - s \in 1..Len(Q) - s /\ k - s \in 1..Len(R) /\ k - s < Len(R)
      /\ (k - s) + s = k
  BY <1>1, <1>2
<1>4. R[k - s] = Q[(k - s) + s]
  BY <1>1, <1>3
<1>5. QED
  BY <1>2, <1>3, <1>4

(* An announcement in its own words.                                       *)
LEMMA AnnounceTyped ==
  ASSUME UrcbIInv, NEW w \in Writers, Announce(w)
  PROVE  /\ w \in AnnouncingOn(announcing[w].item)
         /\ announcing[w].item \in Items /\ announcing[w].value \in Values
         /\ announcing[w].version \in Nat /\ announcing[w].version <= written
         /\ announcing[w].version # announced[announcing[w].item]
         /\ announcing'[w] = NoChange
         /\ \A u \in Writers \ {w} : announcing'[u] = announcing[u]
         /\ \A j \in Items : AnnouncingOn(j)' = AnnouncingOn(j) \ {w}
         /\ UNCHANGED <<store, written>>
<1>1. /\ UrcbTypes /\ VersionsDiffer /\ announcing[w] # NoChange
      /\ announcing' = [announcing EXCEPT ![w] = NoChange] /\ UNCHANGED <<store, written>>
  BY DEF UrcbIInv, Announce
<1>2. /\ announcing'[w] = NoChange
      /\ \A u \in Writers \ {w} : announcing'[u] = announcing[u]
  BY <1>1 DEF UrcbTypes
<1>3. \A j \in Items : AnnouncingOn(j)' = AnnouncingOn(j) \ {w}
  BY <1>2 DEF AnnouncingOn
<1>4. QED
  BY <1>1, <1>2, <1>3, UrcbTyped DEF VersionsDiffer, AnnouncingOn

LEMMA AnnounceKeepsTypes ==
  ASSUME UrcbIInv, NEW w \in Writers, Announce(w)
  PROVE  UrcbTypes' /\ VersionsDiffer'
<1> PICK i : i = announcing[w].item
  OBVIOUS
<1>1. UrcbTypes /\ VersionsDiffer /\ i \in Items /\ announcing[w].version \in 0..written
  BY AnnounceTyped DEF UrcbIInv, UrcbTypes
<1>2. announcing' \in [Writers -> Announcement \cup {NoChange}]
  BY <1>1 DEF Announce, UrcbTypes
<1>3. announced' \in [Items -> 0..written'] /\ overtaken' \subseteq Items
  BY <1>1 DEF Announce, UrcbTypes
<1>4. changes' \in [queue : Seq(Change), missed : 0..MaxReportLag + 1] /\ Len(changes'.queue) <= ChannelSize
  <2>1. CASE open
    BY <2>1, AnnouncedIsQueued DEF Shifted
  <2>2. CASE ~open
    BY <1>1, <2>2 DEF Announce, UrcbTypes
  <2>3. QED
    BY <2>1, <2>2
<1>5. lost' \subseteq Items
  <2>1. CASE enabled /\ Len(changes.queue) = ChannelSize
    <3>1. changes.queue # <<>> /\ Head(changes.queue) = changes.queue[1] /\ 1 \in DOMAIN changes.queue
      BY <1>1, <2>1, UrcbTyped
    <3>2. Head(changes.queue).item \in Items
      BY <1>1, <3>1, UrcbTyped
    <3>3. QED
      BY <1>1, <2>1, <3>2 DEF Announce, UrcbTypes
  <2>2. CASE ~(enabled /\ Len(changes.queue) = ChannelSize)
    BY <1>1, <2>2 DEF Announce, UrcbTypes
  <2>3. QED
    BY <2>1, <2>2
<1>6. ~open' => changes'.queue = <<>>
  BY <1>1 DEF Announce, UrcbTypes
<1>7. UrcbTypes'
  BY <1>1, <1>2, <1>3, <1>4, <1>5, <1>6 DEF Announce, UrcbTypes
<1>8. \A u \in Writers : announcing'[u] # NoChange => u # w /\ announcing'[u] = announcing[u]
  BY AnnounceTyped
<1>9. /\ \A u \in Writers : announcing'[u] # NoChange => announcing'[u].version <= written'
      /\ \A u, x \in Writers :
           announcing'[x] # NoChange /\ announcing'[u] # NoChange /\ u # x
             => announcing'[u].version # announcing'[x].version
  BY <1>1, <1>8, AnnounceTyped DEF VersionsDiffer
<1>10. ASSUME NEW u \in Writers, announcing'[u] # NoChange
      PROVE  announcing'[u].version # announced'[announcing'[u].item]
  <2>1. /\ u # w /\ announcing'[u] = announcing[u] /\ announcing[u] # NoChange
        /\ announcing[u].item \in Items
        /\ announcing[u].version # announced[announcing[u].item]
        /\ announcing[u].version # announcing[w].version
    BY <1>1, <1>8, <1>10, UrcbTyped DEF VersionsDiffer, Announce
  <2>2. announced'[announcing[u].item] \in {announced[announcing[u].item], announcing[w].version}
    BY <1>1, <2>1 DEF Announce, UrcbTypes
  <2>3. QED
    BY <2>1, <2>2
<1>11. QED
  BY <1>7, <1>9, <1>10 DEF VersionsDiffer

(* What it changes of the versions on its way: nothing for other items.    *)
LEMMA OtherVersions ==
  ASSUME UrcbIInv, NEW w \in Writers, Announce(w), NEW j \in Items, j # announcing[w].item
  PROVE  /\ AnnouncingOn(j)' = AnnouncingOn(j) /\ AllAnnounced(j)' = AllAnnounced(j)
         /\ \A u \in Writers : Newest(j, u)' = Newest(j, u)
         /\ \A u \in AnnouncingOn(j) : announcing'[u] = announcing[u]
         /\ (j \in overtaken') = (j \in overtaken)
<1>1. w \notin AnnouncingOn(j)
  BY DEF AnnouncingOn
<1>2. AnnouncingOn(j)' = AnnouncingOn(j) /\ \A u \in AnnouncingOn(j) : announcing'[u] = announcing[u]
  BY <1>1, AnnounceTyped DEF AnnouncingOn
<1>3. announced'[j] = announced[j] /\ ((j \in overtaken') = (j \in overtaken))
  BY DEF Announce, UrcbIInv, UrcbTypes
<1>4. QED
  BY <1>2, <1>3 DEF AllAnnounced, Newest

LEMMA OwnVersions ==
  ASSUME UrcbIInv, NEW w \in Writers, Announce(w), NEW i \in Items, i = announcing[w].item
  PROVE  /\ AllAnnounced(i)' \/ \E u \in Writers : Newest(i, u)'
         /\ \A u \in Writers : Newest(i, u)' => Newest(i, u) /\ announcing'[u] = announcing[u]
         /\ AllAnnounced(i)' /\ i \notin overtaken' => announcing[w].value = store[i]
<1> PICK ver : ver = announcing[w].version
  OBVIOUS
<1> PICK known : known = announced[i]
  OBVIOUS
<1>1. /\ ver \in Nat /\ known \in Nat /\ ver # known /\ w \in AnnouncingOn(i)
      /\ AnnouncingOn(i)' = AnnouncingOn(i) \ {w}
      /\ AllAnnounced(i) \/ \E u \in Writers : Newest(i, u)
      /\ \A u \in Writers : Newest(i, u) => announcing[u].value = store[i]
      /\ announced \in [Items -> 0..written] /\ written \in Nat
  BY AnnounceTyped DEF UrcbIInv, UrcbTypes, StoreIsOnItsWay
<1>2. \A u \in AnnouncingOn(i) \ {w} :
        /\ u \in Writers /\ announcing'[u] = announcing[u] /\ announcing[u].version \in Nat
        /\ announcing[u].version # ver /\ announcing[u].version # known
  BY <1>1, AnnounceTyped, UrcbTyped DEF AnnouncingOn, UrcbIInv, VersionsDiffer
<1>3. CASE ver > known
  <2>1. announced'[i] = ver
    BY <1>1, <1>3 DEF Announce
  <2>2. CASE \A u \in AnnouncingOn(i) \ {w} : announcing[u].version < ver
    <3>1. AllAnnounced(i)'
      BY <1>1, <1>2, <2>1, <2>2 DEF AllAnnounced
    <3>2. Newest(i, w)
      BY <1>1, <1>2, <1>3, <2>2 DEF Newest
    <3>3. \A u \in Writers : ~Newest(i, u)'
      BY <1>1, <1>2, <2>1, <2>2 DEF Newest
    <3>4. QED
      BY <1>1, <3>1, <3>2, <3>3
  <2>3. CASE \E u \in AnnouncingOn(i) \ {w} : announcing[u].version > ver
    <3>1. PICK u \in AnnouncingOn(i) \ {w} : announcing[u].version > ver
      BY <2>3
    <3>2. ~AllAnnounced(i)' /\ ~AllAnnounced(i)
      BY <1>1, <1>2, <1>3, <2>1, <3>1 DEF AllAnnounced
    <3>3. PICK x \in Writers : Newest(i, x)
      BY <1>1, <3>2
    <3>4. x # w
      BY <1>1, <1>2, <3>1, <3>3 DEF Newest
    <3>5. Newest(i, x)'
      BY <1>1, <1>2, <2>1, <3>3, <3>4 DEF Newest
    <3>6. ASSUME NEW y \in Writers, Newest(i, y)'
          PROVE  Newest(i, y) /\ announcing'[y] = announcing[y]
      <4>1. /\ y \in AnnouncingOn(i) \ {w} /\ announcing'[y].version > ver
            /\ \A v \in AnnouncingOn(i) \ {w} : announcing'[v].version <= announcing'[y].version
        BY <1>1, <2>1, <3>6 DEF Newest
      <4>2. announcing'[y] = announcing[y] /\ announcing[y].version \in Nat
        BY <1>2, <4>1
      <4>3. announcing[y].version > known
        BY <1>1, <1>3, <4>1, <4>2
      <4>4. \A v \in AnnouncingOn(i) \ {w} : announcing[v].version <= announcing[y].version
        BY <1>2, <4>1, <4>2
      <4>5. announcing[w].version <= announcing[y].version
        BY <1>1, <4>1, <4>2
      <4> QED BY <4>1, <4>2, <4>3, <4>4, <4>5 DEF Newest
    <3>7. QED
      BY <3>2, <3>5, <3>6
  <2>4. QED
    BY <1>2, <1>1, <2>2, <2>3
<1>4. CASE ~(ver > known)
  <2>1. announced' = announced /\ i \in overtaken' /\ ver < known
    BY <1>1, <1>4 DEF Announce
  <2>2. AllAnnounced(i) => AllAnnounced(i)'
    BY <1>1, <1>2, <2>1 DEF AllAnnounced
  <2>3. \A u \in Writers : Newest(i, u) => Newest(i, u)'
    BY <1>1, <1>2, <2>1 DEF Newest
  <2>4. \A u \in Writers : Newest(i, u)' => Newest(i, u) /\ announcing'[u] = announcing[u]
    BY <1>1, <1>2, <2>1 DEF Newest
  <2>5. QED
    BY <1>1, <2>1, <2>2, <2>3, <2>4
<1>5. QED
  BY <1>3, <1>4

(* In the channel, the announced message is the last on its item; what is   *)
(* last on another item stays last.                                        *)
LEMMA AnnounceKeepsWay ==
  ASSUME UrcbIInv, NEW w \in Writers, Announce(w)
  PROVE  StoreIsOnItsWay'
<1>1. UrcbTypes /\ StoreIsOnItsWay /\ store' = store
  BY AnnounceTyped DEF UrcbIInv
<1>2. ASSUME NEW j \in Items
      PROVE  /\ AllAnnounced(j)' \/ \E u \in Writers : Newest(j, u)'
             /\ \A u \in Writers : Newest(j, u)' => announcing'[u].value = store[j]
  <2>1. CASE j = announcing[w].item
    BY <1>1, <2>1, OwnVersions DEF StoreIsOnItsWay
  <2>2. CASE j # announcing[w].item
    <3>1. \A u \in Writers : Newest(j, u) => announcing'[u] = announcing[u]
      BY <2>2, OtherVersions DEF Newest
    <3>2. QED
      BY <1>1, <2>2, <3>1, OtherVersions DEF StoreIsOnItsWay
  <2>3. QED
    BY <2>1, <2>2
<1>3. ASSUME NEW j \in Items, AllAnnounced(j)', j \notin overtaken',
             NEW k \in QueuedOn(j)', \A n \in QueuedOn(j)' : n <= k
      PROVE  changes'.queue[k].value = store[j]
  <2>1. open
    <3>1. CASE ~open
      <4>1. changes'.queue = <<>>
        BY <1>1, <3>1 DEF UrcbTypes, Announce
      <4>2. QED
        BY <1>3, <4>1 DEF QueuedOn
    <3>2. QED
      BY <1>1, <3>1 DEF UrcbTypes
  <2>2. PICK s \in {0, 1} : Shifted(s) /\ changes'.queue[Len(changes'.queue)] = Message(w)
    BY <2>1, AnnouncedIsQueued
  <2> PICK R : R = changes'.queue
    OBVIOUS
  <2>3. R \in Seq(Change) /\ Len(R) \in Nat /\ DOMAIN R = 1..Len(R) /\ k \in DOMAIN R /\ k <= Len(R)
    BY <1>3, <2>2 DEF Shifted, QueuedOn
  <2>4. CASE j = announcing[w].item
    <3>1. Len(R) >= 1
      BY <2>3
    <3>2. Len(R) \in QueuedOn(j)'
      BY <2>2, <2>3, <2>4, <3>1 DEF QueuedOn, Message
    <3>3. k = Len(R)
      BY <1>3, <2>3, <3>2
    <3>4. QED
      BY <1>3, <2>2, <2>4, <3>3, OwnVersions DEF Message
  <2>5. CASE j # announcing[w].item
    <3>1. k # Len(R) /\ R[k].item = j
      BY <1>3, <2>2, <2>5 DEF QueuedOn, Message
    <3>2. k + s \in DOMAIN changes.queue /\ R[k] = changes.queue[k + s]
      BY <1>1, <2>2, <2>3, <3>1, OthersAreQueued
    <3>3. k + s \in QueuedOn(j)
      BY <3>1, <3>2 DEF QueuedOn
    <3>4. ASSUME NEW n \in QueuedOn(j) PROVE n <= k + s
      <4>1. n \in Nat /\ k \in Nat /\ k >= 1 /\ n \in DOMAIN changes.queue
        BY <1>1, <2>3, UrcbTyped DEF QueuedOn
      <4>2. CASE n > s
        <5>1. n - s \in DOMAIN R /\ R[n - s] = changes.queue[n]
          BY <1>1, <2>2, <4>1, <4>2, StillQueued
        <5>2. n - s \in QueuedOn(j)'
          BY <5>1 DEF QueuedOn
        <5>3. QED
          BY <1>3, <4>1, <5>2
      <4>3. QED
        BY <4>1, <4>2
    <3>5. AllAnnounced(j) /\ j \notin overtaken
      BY <1>3, <2>5, OtherVersions
    <3>6. QED
      BY <1>1, <3>2, <3>3, <3>4, <3>5 DEF StoreIsOnItsWay
  <2>6. QED
    BY <2>4, <2>5
<1>4. QED
  BY <1>1, <1>2, <1>3 DEF StoreIsOnItsWay

(* While the block is enabled no message on an item is lost unnoticed.     *)
LEMMA QueuedGoOn ==
  ASSUME UrcbIInv, NEW w \in Writers, Announce(w), enabled, NEW j \in Items, j \notin lost'
  PROVE  /\ \A k \in QueuedOn(j) : \E n \in QueuedOn(j)' : changes'.queue[n] = changes.queue[k]
         /\ j = announcing[w].item =>
              \E n \in QueuedOn(j)' : changes'.queue[n] = Message(w)
<1>1. UrcbTypes /\ open
  BY DEF UrcbIInv, UrcbTypes
<1>2. PICK s \in {0, 1} : Shifted(s) /\ changes'.queue[Len(changes'.queue)] = Message(w)
  BY <1>1, AnnouncedIsQueued
<1>3. ASSUME NEW k \in QueuedOn(j)
      PROVE  \E n \in QueuedOn(j)' : changes'.queue[n] = changes.queue[k]
  <2>1. k \in DOMAIN changes.queue /\ k \in Nat /\ k >= 1 /\ changes.queue[k].item = j
    BY <1>1, UrcbTyped DEF QueuedOn
  <2>2. k > s
    <3>1. s = 1 => changes.queue[1].item \in lost'
      BY <1>2 DEF Shifted
    <3>2. s = 1 => k # 1
      BY <2>1, <3>1
    <3>3. QED
      BY <2>1, <3>2
  <2>3. k - s \in DOMAIN changes'.queue /\ changes'.queue[k - s] = changes.queue[k]
    BY <1>1, <1>2, <2>1, <2>2, StillQueued
  <2>4. QED
    BY <2>1, <2>3 DEF QueuedOn
<1>4. ASSUME j = announcing[w].item
      PROVE  \E n \in QueuedOn(j)' : changes'.queue[n] = Message(w)
  <2> PICK R : R = changes'.queue
    OBVIOUS
  <2> PICK Q : Q = changes.queue
    OBVIOUS
  <2>1. R \in Seq(Change) /\ Q \in Seq(Change) /\ Len(R) = Len(Q) + 1 - s
        /\ (s = 1 => 1 \in DOMAIN Q)
    BY <1>1, <1>2, UrcbTyped DEF Shifted
  <2>2. Len(R) \in DOMAIN R
    BY <2>1
  <2>3. QED
    BY <1>2, <1>4, <2>2 DEF QueuedOn, Message
<1>5. QED
  BY <1>3, <1>4

LEMMA AnnounceKeeps ==
  ASSUME UrcbIInv, NEW w \in Writers, Announce(w)
  PROVE  UrcbIInv'
<1>1. /\ UNCHANGED <<store, enabled, last, shown, crossed>>
      /\ lost \subseteq lost' /\ overtaken \subseteq overtaken'
      /\ announcing[w].item \in Items /\ w \in AnnouncingOn(announcing[w].item)
      /\ \A u \in Writers \ {w} : announcing'[u] = announcing[u]
      /\ \A j \in Items : AnnouncingOn(j)' = AnnouncingOn(j) \ {w}
  BY AnnounceTyped DEF Announce
<1>2. ASSUME NEW j \in Items, w \in AnnouncingOn(j) PROVE j = announcing[w].item
  BY <1>2 DEF AnnouncingOn
<1>3. ASSUME NEW m \in MemberIds, NEW j \in Items PROVE LeafFollows(m, j)'
  <2> SUFFICES ASSUME enabled, CoversItself(m), Members[m] = {j}, j \notin lost' \cup overtaken'
               PROVE  /\ AllAnnounced(j)' /\ QueuedOn(j)' = {} => last[m] = [n \in {j} |-> store[j]]
                      /\ \/ shown[m] \in {NoValue, last[m]}
                         \/ \E k \in QueuedOn(j)' : shown[m] = [n \in {j} |-> changes'.queue[k].value]
                         \/ \E u \in AnnouncingOn(j)' : shown[m] = [n \in {j} |-> announcing'[u].value]
    BY <1>1 DEF LeafFollows
  <2>1. LeafFollows(m, j) /\ j \notin lost \cup overtaken
    BY <1>1 DEF UrcbIInv
  <2>2. AllAnnounced(j)' /\ QueuedOn(j)' = {} => AllAnnounced(j) /\ QueuedOn(j) = {}
    BY QueuedGoOn, OtherVersions
  <2>3. ASSUME NEW k \in QueuedOn(j), shown[m] = [n \in {j} |-> changes.queue[k].value]
        PROVE  \E x \in QueuedOn(j)' : shown[m] = [n \in {j} |-> changes'.queue[x].value]
    <3>1. PICK x \in QueuedOn(j)' : changes'.queue[x] = changes.queue[k]
      BY QueuedGoOn
    <3>2. QED
      BY <2>3, <3>1
  <2>4. ASSUME NEW u \in AnnouncingOn(j), shown[m] = [n \in {j} |-> announcing[u].value]
        PROVE  \/ \E x \in QueuedOn(j)' : shown[m] = [n \in {j} |-> changes'.queue[x].value]
               \/ \E x \in AnnouncingOn(j)' : shown[m] = [n \in {j} |-> announcing'[x].value]
    <3>1. CASE u = w
      <4>1. PICK x \in QueuedOn(j)' : changes'.queue[x] = Message(w)
        BY <1>2, <3>1, QueuedGoOn
      <4>2. changes'.queue[x].value = announcing[u].value
        BY <3>1, <4>1 DEF Message
      <4>3. QED
        BY <2>4, <4>2
    <3>2. CASE u # w
      BY <1>1, <2>4, <3>2 DEF AnnouncingOn
    <3>3. QED
      BY <3>1, <3>2
  <2>5. QED
    BY <2>1, <2>2, <2>3, <2>4 DEF LeafFollows
<1>4. ASSUME NEW m \in MemberIds PROVE ObjectFollows(m)'
  <2>1. ObjectFollows(m) /\ Members[m] \subseteq Items
    BY DEF UrcbIInv, MemberIds
  <2>2. ASSUME enabled, Members[m] \cap lost' = {}, PendingOn(m) PROVE PendingOn(m)'
    <3>1. PICK j \in Members[m] : QueuedOn(j) # {} \/ AnnouncingOn(j) # {}
      BY <2>2 DEF PendingOn
    <3>2. j \in Items /\ j \notin lost'
      BY <2>1, <2>2
    <3>3. QueuedOn(j)' # {} \/ AnnouncingOn(j)' # {}
      BY <1>1, <1>2, <2>2, <3>1, <3>2, QueuedGoOn
    <3>4. QED
      BY <3>3 DEF PendingOn
  <2>3. Now(m)' = Now(m)
    BY <1>1 DEF Now
  <2>4. QED
    BY <1>1, <2>1, <2>2, <2>3 DEF ObjectFollows
<1>5. QED
  BY <1>3, <1>4, AnnounceKeepsTypes, AnnounceKeepsWay DEF UrcbIInv

(* A set of numbers has a least one.                                    *)
LEMMA LeastNumber ==
  ASSUME NEW S \in SUBSET Nat, S # {}
  PROVE  \E x \in S : \A y \in S : x <= y
<1> DEFINE LessThan == {pair \in Nat \X Nat : pair[1] < pair[2]}
<1>1. LessThan = OpToRel(<, Nat)
  BY Zenon DEF OpToRel
<1>2. IsWellFoundedOn(LessThan, Nat)
  BY <1>1, NatLessThanWellFounded, Zenon
<1>3. \E x \in S : \A y \in S : ~(<<y, x>> \in LessThan)
  <2> HIDE DEF LessThan
  <2> QED BY <1>2, WFMin
<1>4. PICK x \in S : \A y \in S : ~(<<y, x>> \in LessThan)
  BY <1>3
<1>5. ASSUME NEW y \in S PROVE x <= y
  <2>1. x \in Nat /\ y \in Nat /\ <<y, x>> \in Nat \X Nat
    OBVIOUS
  <2>2. ~(<<y, x>>[1] < <<y, x>>[2])
    BY <1>4, <2>1
  <2> QED BY <2>1, <2>2
<1> QED BY <1>5

(* Of the messages on an item one is the last.                             *)
LEMMA LastQueued ==
  ASSUME UrcbTypes, NEW i, QueuedOn(i) # {}
  PROVE  \E k \in QueuedOn(i) : \A j \in QueuedOn(i) : j <= k
<1> PICK L : L = Len(changes.queue)
  OBVIOUS
<1> PICK S : S = QueuedOn(i)
  OBVIOUS
<1> DEFINE P(n) == L - n \in S
           Gaps == {n \in Nat : P(n)}
<1>1. L \in Nat /\ S \subseteq 1..L /\ S # {}
  BY UrcbTyped DEF QueuedOn
<1>2. Gaps # {} /\ Gaps \subseteq Nat
  <2>1. PICK k \in S : TRUE
    BY <1>1
  <2>2. L - k \in Nat /\ L - (L - k) = k
    BY <1>1, <2>1
  <2>3. QED
    BY <2>1, <2>2
<1> HIDE DEF Gaps
<1>3. PICK n \in Gaps : \A g \in Gaps : n <= g
  BY <1>2, LeastNumber
<1>4. n \in Nat /\ L - n \in S
  BY <1>3 DEF Gaps
<1>5. ASSUME NEW j \in S PROVE j <= L - n
  <2>1. j \in Nat /\ L - j \in Nat /\ L - (L - j) = j
    BY <1>1
  <2>2. L - j \in Gaps
    BY <2>1 DEF Gaps
  <2>3. n <= L - j
    BY <1>3, <2>2
  <2>4. QED
    BY <1>1, <1>4, <2>1, <2>3
<1>6. QED
  BY <1>4, <1>5

-----------------------------------------------------------------------------
(* What the connection does leaves the writers alone: with the channel as   *)
(* it is, or shorter by its first message, the store stays on its way.     *)
LEMMA WritersStay ==
  ASSUME UrcbIInv, UNCHANGED writerVars
  PROVE  /\ VersionsDiffer'
         /\ \A i \in Items :
              /\ AnnouncingOn(i)' = AnnouncingOn(i) /\ AllAnnounced(i)' = AllAnnounced(i)
              /\ \A w \in Writers : Newest(i, w)' = Newest(i, w)
         /\ UNCHANGED <<store, written, announcing, announced, overtaken>>
         /\ \A m \in MemberIds : Now(m)' = Now(m)
BY DEF UrcbIInv, VersionsDiffer, writerVars, AnnouncingOn, AllAnnounced, Newest, Now

LEMMA QueueStays ==
  ASSUME UrcbIInv, UNCHANGED writerVars, changes'.queue \in {changes.queue, <<>>}
  PROVE  StoreIsOnItsWay'
<1>1. StoreIsOnItsWay /\ VersionsDiffer'
      /\ \A i \in Items :
           /\ AllAnnounced(i)' = AllAnnounced(i)
           /\ \A w \in Writers : Newest(i, w)' = Newest(i, w)
      /\ UNCHANGED <<store, announcing, overtaken>>
  BY WritersStay DEF UrcbIInv
<1>2. CASE changes'.queue = changes.queue
  <2>1. \A i \in Items : QueuedOn(i)' = QueuedOn(i)
    BY <1>2 DEF QueuedOn
  <2>2. QED
    BY <1>1, <1>2, <2>1 DEF StoreIsOnItsWay
<1>3. CASE changes'.queue = <<>>
  <2>1. \A i \in Items : QueuedOn(i)' = {}
    BY <1>3 DEF QueuedOn
  <2>2. QED
    BY <1>1, <2>1 DEF StoreIsOnItsWay
<1>4. QED
  BY <1>2, <1>3

(* A step that tells the client nothing.                                   *)
LEMMA QuietStepKeeps ==
  ASSUME UrcbIInv, UNCHANGED <<writerVars, last, shown, crossed>>, UrcbTypes',
         changes'.queue = changes.queue, enabled' => enabled /\ lost' = lost
  PROVE  UrcbIInv'
<1>1. /\ StoreIsOnItsWay' /\ VersionsDiffer'
      /\ \A i \in Items : AnnouncingOn(i)' = AnnouncingOn(i) /\ AllAnnounced(i)' = AllAnnounced(i)
      /\ \A m \in MemberIds : Now(m)' = Now(m)
      /\ UNCHANGED <<store, announcing, overtaken>>
  BY WritersStay, QueueStays
<1>2. \A i \in Items : QueuedOn(i)' = QueuedOn(i)
  BY DEF QueuedOn
<1>3. ASSUME NEW m \in MemberIds, NEW i \in Items PROVE LeafFollows(m, i)'
  <2>1. LeafFollows(m, i)
    BY DEF UrcbIInv
  <2>2. CASE enabled'
    <3>1. enabled /\ UNCHANGED <<last, shown, lost>>
      BY <2>2
    <3>2. QED
      BY <1>1, <1>2, <2>1, <2>2, <3>1 DEF LeafFollows
  <2>3. CASE ~enabled'
    BY <2>3 DEF LeafFollows
  <2>4. QED
    BY <2>2, <2>3
<1>4. \A m \in MemberIds : ObjectFollows(m)'
  <2>1. \A m \in MemberIds : PendingOn(m)' = PendingOn(m)
    BY <1>1, <1>2 DEF PendingOn, MemberIds
  <2>2. QED
    BY <1>1, <2>1 DEF UrcbIInv, ObjectFollows
<1>5. QED
  BY <1>1, <1>3, <1>4 DEF UrcbIInv

(* The block is disabled.                                                  *)
LEMMA DisabledStepKeeps ==
  ASSUME UrcbIInv, UNCHANGED writerVars, ~enabled', UrcbTypes',
         changes'.queue \in {changes.queue, <<>>}
  PROVE  UrcbIInv'
BY WritersStay, QueueStays DEF UrcbIInv, LeafFollows, ObjectFollows

(* Members of one item.                                                    *)
LEMMA Members1 ==
  ASSUME NEW m \in MemberIds
  PROVE  /\ Members[m] \subseteq Items /\ IsFiniteSet(Members[m])
         /\ IsLeaf(m) => \E i \in Items : Members[m] = {i}
         /\ \A i \in Items : Members[m] = {i} => IsLeaf(m)
<1>1. Members[m] \subseteq Items
  BY DEF MemberIds
<1>2. IsFiniteSet(Members[m])
  BY <1>1, FS_Subset
<1>3. IsLeaf(m) => \E i \in Items : Members[m] = {i}
  BY <1>1, <1>2, FS_Singleton DEF IsLeaf
<1>4. \A i \in Items : Members[m] = {i} => IsLeaf(m)
  BY FS_Singleton DEF IsLeaf
<1>5. QED
  BY <1>1, <1>2, <1>3, <1>4

LEMMA EnableKeeps ==
  ASSUME UrcbIInv, Enable PROVE UrcbIInv'
<1>1. UrcbTypes /\ UNCHANGED <<store, written, announcing, announced, overtaken, changes, open, lag>>
  BY DEF UrcbIInv, Enable, writerVars
<1>2. open /\ enabled' = TRUE /\ left' = IntgPd /\ lost' = {} /\ crossed' = FALSE
  BY DEF Enable
<1>3. left' \in 0..IntgPd
  BY <1>2
<1>4. UrcbTypes'
  <2> HIDE UrcbAssumption
  <2>1. /\ announced' \in [Items -> 0..written'] /\ announcing' \in [Writers -> Announcement \cup {NoChange}]
        /\ changes' \in [queue : Seq(Change), missed : 0..MaxReportLag + 1]
    BY <1>1 DEF UrcbTypes
  <2>2. QED
    BY <1>1, <1>2, <1>3, <2>1 DEF UrcbTypes
<1>5. /\ UNCHANGED <<writerVars, changes>> /\ shown' = [m \in MemberIds |-> NoValue]
      /\ last' = [m \in MemberIds |-> IF IsLeaf(m) THEN Now(m) ELSE NoValue]
  BY DEF Enable
<1>6. /\ StoreIsOnItsWay' /\ VersionsDiffer' /\ UNCHANGED store
  BY <1>5, WritersStay, QueueStays
<1>7. \A m \in MemberIds, i \in Items : LeafFollows(m, i)'
  <2> TAKE m \in MemberIds, i \in Items
  <2>1. Members[m] = {i} => last'[m] = [j \in {i} |-> store[i]]
    BY <1>5, Members1 DEF Now
  <2>2. QED
    BY <1>5, <1>6, <2>1 DEF LeafFollows
<1>8. \A m \in MemberIds : ObjectFollows(m)'
  BY <1>5 DEF ObjectFollows
<1>9. QED
  BY <1>4, <1>6, <1>7, <1>8 DEF UrcbIInv

(* A report of every member: of a leaf, the value in the store is with its  *)
(* newest writer, in the last message on it, or in last_values.            *)
LEMMA ReportAllKeeps ==
  ASSUME UrcbIInv, ReportAll, UNCHANGED <<writerVars, changes, open, enabled, last, lag, lost>>,
         left' \in 0..IntgPd
  PROVE  UrcbIInv'
<1>1. UrcbTypes'
  BY DEF UrcbIInv, UrcbTypes, writerVars, ReportAll
<1>2. /\ StoreIsOnItsWay' /\ VersionsDiffer' /\ UNCHANGED <<store, announcing, overtaken>>
      /\ \A i \in Items : AnnouncingOn(i)' = AnnouncingOn(i) /\ AllAnnounced(i)' = AllAnnounced(i)
      /\ \A m \in MemberIds : Now(m)' = Now(m)
  BY WritersStay, QueueStays
<1>3. \A i \in Items : QueuedOn(i)' = QueuedOn(i)
  BY DEF QueuedOn
<1>4. \A m \in MemberIds : shown'[m] = Now(m)
  BY DEF ReportAll
<1>5. ASSUME NEW m \in MemberIds, NEW i \in Items PROVE LeafFollows(m, i)'
  <2> SUFFICES ASSUME enabled, CoversItself(m), Members[m] = {i}, i \notin lost \cup overtaken
               PROVE  /\ AllAnnounced(i) /\ QueuedOn(i) = {} => last[m] = [j \in {i} |-> store[i]]
                      /\ \/ shown'[m] \in {NoValue, last[m]}
                         \/ \E k \in QueuedOn(i) : shown'[m] = [n \in {i} |-> changes.queue[k].value]
                         \/ \E u \in AnnouncingOn(i) : shown'[m] = [n \in {i} |-> announcing[u].value]
    BY <1>2, <1>3 DEF LeafFollows
  <2>1. AllAnnounced(i) /\ QueuedOn(i) = {} => last[m] = [j \in {i} |-> store[i]]
    BY DEF UrcbIInv, LeafFollows
  <2>2. shown'[m] = [n \in {i} |-> store[i]]
    BY <1>4 DEF Now
  <2>3. CASE ~AllAnnounced(i)
    <3>1. PICK w \in Writers : Newest(i, w) /\ announcing[w].value = store[i]
      BY <2>3 DEF UrcbIInv, StoreIsOnItsWay
    <3>2. w \in AnnouncingOn(i) /\ shown'[m] = [n \in {i} |-> announcing[w].value]
      BY <2>2, <3>1 DEF Newest
    <3>3. \E u \in AnnouncingOn(i) : shown'[m] = [n \in {i} |-> announcing[u].value]
      BY <3>2
    <3>4. QED
      BY <2>1, <3>3
  <2>4. CASE AllAnnounced(i) /\ QueuedOn(i) # {}
    <3>1. PICK k \in QueuedOn(i) : \A j \in QueuedOn(i) : j <= k
      BY <2>4, LastQueued DEF UrcbIInv
    <3>2. changes.queue[k].value = store[i]
      BY <2>4, <3>1 DEF UrcbIInv, StoreIsOnItsWay
    <3>3. QED
      BY <2>2, <2>4, <3>2
  <2>5. QED
    BY <2>1, <2>2, <2>3, <2>4
<1>6. ASSUME NEW m \in MemberIds PROVE ObjectFollows(m)'
  <2>1. ObjectFollows(m) /\ Members[m] \subseteq Items /\ PendingOn(m)' = PendingOn(m)
    BY <1>2, <1>3 DEF UrcbIInv, MemberIds, PendingOn
  <2>2. ~crossed' => ~crossed /\ ~PendingOn(m)
    <3> SUFFICES ASSUME ~crossed' PROVE ~crossed /\ ~PendingOn(m)
      OBVIOUS
    <3>1. ~crossed /\ changes = NewReceiver /\ \A w \in Writers : announcing[w] = NoChange
      BY DEF ReportAll
    <3>2. changes.queue = <<>>
      BY <3>1 DEF NewReceiver
    <3>3. \A i \in Items : QueuedOn(i) = {} /\ AnnouncingOn(i) = {}
      BY <3>1, <3>2 DEF QueuedOn, AnnouncingOn
    <3>4. QED
      BY <2>1, <3>1, <3>3 DEF PendingOn
  <2>3. QED
    BY <1>2, <1>4, <2>1, <2>2 DEF ObjectFollows
<1>7. QED
  BY <1>1, <1>2, <1>5, <1>6 DEF UrcbIInv

-----------------------------------------------------------------------------
(* The first change is taken from the channel: the others move up.         *)
LEMMA FirstTaken ==
  ASSUME UrcbIInv, HandleChange
  PROVE  /\ changes.queue # <<>> /\ 1 \in DOMAIN changes.queue
         /\ Head(changes.queue) = changes.queue[1] /\ changes.queue[1] \in Change
         /\ changes' \in [queue : Seq(Change), missed : 0..MaxReportLag + 1]
         /\ Len(changes'.queue) <= ChannelSize
         /\ \A k \in DOMAIN changes'.queue :
              k + 1 \in DOMAIN changes.queue /\ changes'.queue[k] = changes.queue[k + 1]
         /\ \A k \in DOMAIN changes.queue \ {1} :
              k - 1 \in DOMAIN changes'.queue /\ changes'.queue[k - 1] = changes.queue[k]
<1> PICK Q : Q = changes.queue
  OBVIOUS
<1> PICK R : R = Tail(Q)
  OBVIOUS
<1>1. /\ Q \in Seq(Change) /\ Len(Q) \in Nat /\ Len(Q) <= ChannelSize
      /\ changes \in [queue : Seq(Change), missed : 0..MaxReportLag + 1]
  BY DEF UrcbIInv, UrcbTypes
<1>2. changes' = [queue |-> R, missed |-> changes.missed] /\ Q # <<>>
  BY DEF HandleChange, Received, Ready
<1>3. /\ R \in Seq(Change) /\ Len(R) = Len(Q) - 1 /\ \A k \in 1..Len(R) : R[k] = Q[k + 1]
      /\ Head(Q) = Q[1] /\ DOMAIN Q = 1..Len(Q) /\ DOMAIN R = 1..Len(R) /\ Len(Q) >= 1
  BY <1>1, <1>2
<1>4. changes'.queue = R /\ changes' \in [queue : Seq(Change), missed : 0..MaxReportLag + 1]
  BY <1>1, <1>2, <1>3
<1>5. \A k \in DOMAIN R : k + 1 \in DOMAIN Q /\ R[k] = Q[k + 1]
  BY <1>1, <1>3
<1>6. ASSUME NEW k \in DOMAIN Q \ {1} PROVE k - 1 \in DOMAIN R /\ R[k - 1] = Q[k]
  <2>1. k \in Nat /\ k - 1 \in 1..Len(R) /\ (k - 1) + 1 = k
    BY <1>1, <1>3
  <2>2. R[k - 1] = Q[(k - 1) + 1]
    BY <1>3, <2>1
  <2>3. QED
    BY <1>3, <2>1, <2>2
<1>7. Q[1] \in Change /\ 1 \in DOMAIN Q
  BY <1>1, <1>3
<1>8. QED
  BY <1>1, <1>2, <1>3, <1>4, <1>5, <1>6, <1>7

LEMMA TakenQueues ==
  ASSUME UrcbIInv, HandleChange, NEW i \in Items
  PROVE  /\ \A k \in QueuedOn(i) :
              \/ k = 1 /\ changes.queue[1].item = i
              \/ \E n \in QueuedOn(i)' : changes'.queue[n] = changes.queue[k]
         /\ \A k \in QueuedOn(i)' : k + 1 \in QueuedOn(i) /\ changes'.queue[k] = changes.queue[k + 1]
         /\ QueuedOn(i)' = {} => QueuedOn(i) \subseteq {1}
BY FirstTaken DEF QueuedOn

LEMMA HandleKeepsWay ==
  ASSUME UrcbIInv, HandleChange
  PROVE  StoreIsOnItsWay'
<1>1. /\ StoreIsOnItsWay /\ UNCHANGED <<store, announcing, overtaken>>
      /\ \A i \in Items :
           /\ AllAnnounced(i)' = AllAnnounced(i)
           /\ \A w \in Writers : Newest(i, w)' = Newest(i, w)
  BY WritersStay DEF UrcbIInv, HandleChange
<1>2. ASSUME NEW i \in Items, NEW k \in QueuedOn(i)', \A j \in QueuedOn(i)' : j <= k
      PROVE  /\ k + 1 \in QueuedOn(i) /\ changes'.queue[k] = changes.queue[k + 1]
             /\ \A j \in QueuedOn(i) : j <= k + 1
  <2>1. k + 1 \in QueuedOn(i) /\ changes'.queue[k] = changes.queue[k + 1]
    BY TakenQueues
  <2>2. k \in DOMAIN changes'.queue
    BY DEF QueuedOn
  <2>3. k \in Nat
    <3> PICK R : R = changes'.queue
      OBVIOUS
    <3>1. R \in Seq(Change)
      BY FirstTaken
    <3>2. QED
      BY <2>2, <3>1
  <2>4. ASSUME NEW j \in QueuedOn(i) PROVE j <= k + 1
    <3>1. j \in Nat /\ j \in DOMAIN changes.queue
      BY UrcbTyped DEF UrcbIInv, QueuedOn
    <3>2. CASE j # 1
      <4>1. j - 1 \in QueuedOn(i)'
        BY <3>1, <3>2, FirstTaken DEF QueuedOn
      <4>2. j - 1 <= k
        BY <1>2, <4>1
      <4>3. QED
        BY <2>3, <3>1, <4>2
    <3>3. QED
      BY <2>3, <3>2
  <2>5. QED
    BY <2>1, <2>4
<1>3. QED
  BY <1>1, <1>2 DEF StoreIsOnItsWay

(* What it does to one member: nothing, or the member takes the change on.  *)
LEMMA HandledMember ==
  ASSUME UrcbIInv, HandleChange, enabled, NEW m \in MemberIds, CoversItself(m),
         NEW c, c = changes.queue[1]
  PROVE  /\ c.item \notin Members[m] => last'[m] = last[m] /\ shown'[m] = shown[m]
         /\ c.item \in Members[m] =>
              \/ last[m] = Reported(m, c) /\ last'[m] = last[m] /\ shown'[m] = shown[m]
              \/ last'[m] = Reported(m, c) /\ shown'[m] = Reported(m, c)
<1> DEFINE news == {n \in Covering(c.item) : last[n] # Reported(n, c)}
<1>1. /\ last' = [n \in MemberIds |-> IF n \in news THEN Reported(n, c) ELSE last[n]]
      /\ shown' = [n \in MemberIds |-> IF n \in news THEN Reported(n, c) ELSE shown[n]]
  BY FirstTaken DEF HandleChange, Known
<1>2. c.item \notin Members[m] => m \notin Covering(c.item)
  BY DEF Covering
<1>3. c.item \in Members[m] => m \in Covering(c.item)
  BY DEF CoversItself
<1>4. QED
  BY <1>1, <1>2, <1>3

LEMMA HandleChangeKeeps ==
  ASSUME UrcbIInv, HandleChange
  PROVE  UrcbIInv'
<1>1. /\ VersionsDiffer' /\ UNCHANGED <<store, written, announcing, announced, overtaken>>
      /\ \A i \in Items : AnnouncingOn(i)' = AnnouncingOn(i) /\ AllAnnounced(i)' = AllAnnounced(i)
      /\ \A m \in MemberIds : Now(m)' = Now(m)
      /\ UNCHANGED <<open, enabled, left, lag, lost, crossed>> /\ open
  BY WritersStay DEF HandleChange
<1>2. UrcbTypes'
  <2>1. UrcbTypes
    BY DEF UrcbIInv
  <2>2. QED
    BY <1>1, <2>1, FirstTaken DEF UrcbTypes
<1> PICK c : c = changes.queue[1]
  OBVIOUS
<1>3. ASSUME NEW m \in MemberIds, NEW i \in Items PROVE LeafFollows(m, i)'
  <2> SUFFICES ASSUME enabled, CoversItself(m), Members[m] = {i}, i \notin lost \cup overtaken
               PROVE  /\ AllAnnounced(i) /\ QueuedOn(i)' = {} => last'[m] = [j \in {i} |-> store[i]]
                      /\ \/ shown'[m] \in {NoValue, last'[m]}
                         \/ \E k \in QueuedOn(i)' : shown'[m] = [n \in {i} |-> changes'.queue[k].value]
                         \/ \E u \in AnnouncingOn(i) : shown'[m] = [n \in {i} |-> announcing[u].value]
    BY <1>1 DEF LeafFollows
  <2>1. /\ AllAnnounced(i) /\ QueuedOn(i) = {} => last[m] = [j \in {i} |-> store[i]]
        /\ \/ shown[m] \in {NoValue, last[m]}
           \/ \E k \in QueuedOn(i) : shown[m] = [n \in {i} |-> changes.queue[k].value]
           \/ \E u \in AnnouncingOn(i) : shown[m] = [n \in {i} |-> announcing[u].value]
    BY DEF UrcbIInv, LeafFollows
  <2>2. IsLeaf(m) /\ Reported(m, c) = [n \in {i} |-> c.value]
    BY Members1 DEF Reported
  <2>3. CASE c.item = i
    <3>1. \/ last[m] = [n \in {i} |-> c.value] /\ last'[m] = last[m] /\ shown'[m] = shown[m]
          \/ last'[m] = [n \in {i} |-> c.value] /\ shown'[m] = last'[m]
      BY <2>2, <2>3, HandledMember
    <3>2. AllAnnounced(i) /\ QueuedOn(i)' = {} => c.value = store[i]
      <4> SUFFICES ASSUME AllAnnounced(i), QueuedOn(i)' = {} PROVE c.value = store[i]
        OBVIOUS
      <4>1. 1 \in QueuedOn(i) /\ QueuedOn(i) \subseteq {1}
        BY <2>3, FirstTaken, TakenQueues DEF QueuedOn
      <4>2. \A j \in QueuedOn(i) : j <= 1
        BY <4>1
      <4>3. QED
        BY <4>1, <4>2 DEF UrcbIInv, StoreIsOnItsWay
    <3>3. AllAnnounced(i) /\ QueuedOn(i)' = {} => last'[m] = [j \in {i} |-> store[i]]
      BY <3>1, <3>2
    <3>4. ASSUME NEW k \in QueuedOn(i), shown[m] = [n \in {i} |-> changes.queue[k].value],
                 last[m] = [n \in {i} |-> c.value], last'[m] = last[m], shown'[m] = shown[m]
          PROVE  \/ shown'[m] = last'[m]
                 \/ \E x \in QueuedOn(i)' : shown'[m] = [n \in {i} |-> changes'.queue[x].value]
      <4>1. CASE k = 1
        BY <3>4, <4>1
      <4>2. CASE k # 1
        <5>1. PICK x \in QueuedOn(i)' : changes'.queue[x] = changes.queue[k]
          BY <4>2, TakenQueues
        <5>2. QED
          BY <3>4, <5>1
      <4>3. QED
        BY <4>1, <4>2
    <3>5. \/ shown'[m] \in {NoValue, last'[m]}
          \/ \E k \in QueuedOn(i)' : shown'[m] = [n \in {i} |-> changes'.queue[k].value]
          \/ \E u \in AnnouncingOn(i) : shown'[m] = [n \in {i} |-> announcing[u].value]
      BY <2>1, <3>1, <3>4
    <3>6. QED
      BY <3>3, <3>5
  <2>4. CASE c.item # i
    <3>1. last'[m] = last[m] /\ shown'[m] = shown[m]
      BY <2>4, HandledMember
    <3>2. \A k \in QueuedOn(i) : \E x \in QueuedOn(i)' : changes'.queue[x] = changes.queue[k]
      BY <2>4, TakenQueues
    <3>3. QueuedOn(i)' = {} => QueuedOn(i) = {}
      BY <3>2
    <3>4. (\E k \in QueuedOn(i) : shown[m] = [n \in {i} |-> changes.queue[k].value]) =>
             \E k \in QueuedOn(i)' : shown'[m] = [n \in {i} |-> changes'.queue[k].value]
      <4> SUFFICES ASSUME NEW k \in QueuedOn(i), shown[m] = [n \in {i} |-> changes.queue[k].value]
                   PROVE  \E x \in QueuedOn(i)' : shown'[m] = [n \in {i} |-> changes'.queue[x].value]
        OBVIOUS
      <4>1. PICK x \in QueuedOn(i)' : changes'.queue[x] = changes.queue[k]
        BY <3>2
      <4>2. QED
        BY <3>1, <4>1
    <3>5. QED
      BY <2>1, <3>1, <3>3, <3>4
  <2>5. QED
    BY <2>3, <2>4
<1>4. ASSUME NEW m \in MemberIds PROVE ObjectFollows(m)'
  <2> SUFFICES ASSUME enabled, CoversItself(m), ~IsLeaf(m), Members[m] \cap lost = {}
               PROVE  /\ ~PendingOn(m)' /\ last'[m] # NoValue => last'[m] = Now(m)
                      /\ ~crossed /\ last'[m] # NoValue => shown'[m] = last'[m]
                      /\ ~crossed /\ last'[m] = NoValue /\ ~PendingOn(m)' => shown'[m] \in {NoValue, Now(m)}
    BY <1>1 DEF ObjectFollows
  <2>1. /\ ~PendingOn(m) /\ last[m] # NoValue => last[m] = Now(m)
        /\ ~crossed /\ last[m] # NoValue => shown[m] = last[m]
        /\ ~crossed /\ last[m] = NoValue /\ ~PendingOn(m) => shown[m] \in {NoValue, Now(m)}
        /\ Members[m] \subseteq Items
    BY DEF UrcbIInv, ObjectFollows, MemberIds
  <2>2. Reported(m, c) = Now(m)
    BY DEF Reported
  <2>3. CASE c.item \in Members[m]
    <3>1. \/ last[m] = Now(m) /\ last'[m] = last[m] /\ shown'[m] = shown[m]
          \/ last'[m] = Now(m) /\ shown'[m] = Now(m)
      BY <2>2, <2>3, HandledMember
    <3>2. Now(m) # NoValue
      <4>1. DOMAIN Now(m) # {}
        BY <2>3 DEF Now
      <4>2. DOMAIN NoValue = {}
        BY DEF NoValue
      <4>3. QED
        BY <4>1, <4>2
    <3>3. QED
      BY <2>1, <3>1, <3>2
  <2>4. CASE c.item \notin Members[m]
    <3>1. last'[m] = last[m] /\ shown'[m] = shown[m]
      BY <2>4, HandledMember
    <3>2. PendingOn(m) => PendingOn(m)'
      <4> SUFFICES ASSUME NEW i \in Members[m], QueuedOn(i) # {} \/ AnnouncingOn(i) # {}
                   PROVE  QueuedOn(i)' # {} \/ AnnouncingOn(i)' # {}
        BY DEF PendingOn
      <4>1. i \in Items /\ i # c.item
        BY <2>1, <2>4
      <4>2. QueuedOn(i) # {} => QueuedOn(i)' # {}
        BY <4>1, TakenQueues
      <4>3. QED
        BY <1>1, <4>1, <4>2
    <3>3. QED
      BY <2>1, <3>1, <3>2
  <2>5. QED
    BY <2>3, <2>4
<1>5. QED
  BY <1>1, <1>2, <1>3, <1>4, HandleKeepsWay DEF UrcbIInv

-----------------------------------------------------------------------------
LEMMA UrcbInitially ==
  UrcbInit => UrcbIInv
<1> SUFFICES ASSUME UrcbInit PROVE UrcbIInv
  OBVIOUS
<1>1. changes = [queue |-> <<>>, missed |-> 0] /\ changes.queue = <<>>
  BY DEF UrcbInit, NewReceiver
<1>2. UrcbTypes
  <2>1. (CHOOSE v \in Values : TRUE) \in Values
    OBVIOUS
  <2>2. changes \in [queue : Seq(Change), missed : 0..MaxReportLag + 1] /\ Len(changes.queue) <= ChannelSize
    BY <1>1
  <2>3. store \in [Items -> Values]
    BY <2>1 DEF UrcbInit
  <2>4. written \in 0..MaxWrites /\ left \in 0..IntgPd /\ lag \in 0..MaxReportLag
    BY DEF UrcbInit
  <2>5. announced \in [Items -> 0..written]
    BY DEF UrcbInit
  <2>6. announcing \in [Writers -> Announcement \cup {NoChange}]
    BY DEF UrcbInit
  <2>7. QED
    BY <1>1, <2>2, <2>3, <2>4, <2>5, <2>6 DEF UrcbInit, UrcbTypes
<1>3. \A i \in Items : AnnouncingOn(i) = {} /\ QueuedOn(i) = {}
  BY <1>1 DEF UrcbInit, AnnouncingOn, QueuedOn
<1>4. VersionsDiffer
  BY DEF UrcbInit, VersionsDiffer
<1>5. StoreIsOnItsWay
  BY <1>3 DEF StoreIsOnItsWay, AllAnnounced, Newest
<1>6. QED
  BY <1>2, <1>4, <1>5 DEF UrcbInit, UrcbIInv, LeafFollows, ObjectFollows

LEMMA UrcbStepKeeps ==
  UrcbIInv /\ [UrcbNext]_urcbVars => UrcbIInv'
<1> SUFFICES ASSUME UrcbIInv, [UrcbNext]_urcbVars PROVE UrcbIInv'
  OBVIOUS
<1>1. UrcbTypes
  BY DEF UrcbIInv
<1>2. ASSUME NEW w \in Writers, NEW i \in Items, NEW v \in Values, StoreValue(w, i, v) PROVE UrcbIInv'
  BY <1>2, StoreValueKeeps
<1>3. ASSUME NEW w \in Writers, Announce(w) PROVE UrcbIInv'
  BY <1>3, AnnounceKeeps
<1>4. CASE Enable
  BY <1>4, EnableKeeps
<1>5. CASE Disable
  <2>1. /\ UNCHANGED <<store, written, announcing, announced, overtaken, changes, open, lag>>
        /\ open /\ enabled' = FALSE /\ left' = 0 /\ lost' = {} /\ crossed' = FALSE
    BY <1>5 DEF Disable, writerVars
  <2>2. left' \in 0..IntgPd
    BY <2>1
  <2>3. /\ announced' \in [Items -> 0..written'] /\ announcing' \in [Writers -> Announcement \cup {NoChange}]
        /\ changes' \in [queue : Seq(Change), missed : 0..MaxReportLag + 1]
    BY <1>1, <2>1 DEF UrcbTypes
  <2>4. UrcbTypes'
    BY <1>1, <2>1, <2>2, <2>3 DEF UrcbTypes
  <2>5. QED
    BY <1>5, <2>4, DisabledStepKeeps DEF Disable
<1>6. CASE GeneralInterrogation
  <2>1. left' \in 0..IntgPd
    BY <1>1, <1>6 DEF GeneralInterrogation, UrcbTypes
  <2>2. QED
    BY <1>6, <2>1, ReportAllKeeps DEF GeneralInterrogation
<1>7. CASE HandleChange
  BY <1>7, HandleChangeKeeps
<1>8. CASE NoteLag
  <2>1. /\ changes' = [queue |-> changes.queue, missed |-> 0] /\ lag' = lag + changes.missed
        /\ lag + changes.missed <= MaxReportLag
        /\ UNCHANGED <<writerVars, open, enabled, last, left, shown, lost, crossed>>
    BY <1>8 DEF NoteLag, CaughtUp
  <2>2. changes.missed \in Nat /\ changes.queue \in Seq(Change)
    BY <1>1 DEF UrcbTypes
  <2>3. lag' \in 0..MaxReportLag
    BY <1>1, <2>1, <2>2 DEF UrcbTypes
  <2>4. UrcbTypes'
    BY <1>1, <2>1, <2>2, <2>3 DEF UrcbTypes, writerVars
  <2>5. QED
    BY <2>1, <2>4, QuietStepKeeps
<1>9. CASE CloseLagging
  <2>1. UrcbTypes' /\ changes'.queue = <<>>
    <3>1. changes' = [queue |-> <<>>, missed |-> 0] /\ changes'.queue = <<>>
      BY <1>9 DEF CloseLagging, NewReceiver
    <3>2. changes' \in [queue : Seq(Change), missed : 0..MaxReportLag + 1] /\ Len(changes'.queue) <= ChannelSize
      BY <3>1
    <3>3. /\ UNCHANGED <<store, written, announcing, announced, overtaken, lag>>
          /\ open' = FALSE /\ enabled' = FALSE /\ left' = 0 /\ lost' = {} /\ crossed' = FALSE
      BY <1>9 DEF CloseLagging, writerVars
    <3>4. left' \in 0..IntgPd
      BY <3>3
    <3>5. announced' \in [Items -> 0..written'] /\ announcing' \in [Writers -> Announcement \cup {NoChange}]
      BY <1>1, <3>3 DEF UrcbTypes
    <3>6. QED
      BY <1>1, <3>1, <3>2, <3>3, <3>4, <3>5 DEF UrcbTypes
  <2>2. QED
    BY <1>9, <2>1, DisabledStepKeeps DEF CloseLagging
<1>10. CASE Integrity
  <2>1. left' \in 0..IntgPd
    BY <1>10 DEF Integrity
  <2>2. QED
    BY <1>10, <2>1, ReportAllKeeps DEF Integrity
<1>11. CASE UrcbTick
  <2>1. left' \in 0..IntgPd
    BY <1>1, <1>11 DEF UrcbTick, UrcbTypes
  <2>2. UNCHANGED <<writerVars, changes, open, enabled, last, lag, shown, lost, crossed>>
    BY <1>11 DEF UrcbTick
  <2>3. UrcbTypes'
    BY <1>1, <2>1, <2>2 DEF UrcbTypes, writerVars
  <2>4. QED
    BY <2>2, <2>3, QuietStepKeeps
<1>12. CASE UNCHANGED urcbVars
  <2>1. UNCHANGED <<writerVars, changes, open, enabled, last, left, lag, shown, lost, crossed>>
    BY <1>12 DEF urcbVars, writerVars
  <2>2. UrcbTypes'
    BY <1>1, <2>1 DEF UrcbTypes, writerVars
  <2>3. QED
    BY <2>1, <2>2, QuietStepKeeps
<1>13. QED
  BY <1>2, <1>3, <1>4, <1>5, <1>6, <1>7, <1>8, <1>9, <1>10, <1>11, <1>12 DEF UrcbNext

(* Unbuffered reporting keeps its inductive invariant, for any number of    *)
(* writers, items and members: apply_value and Connection::on_value_change. *)
THEOREM UrcbInvariance ==
  UrcbSpec => []UrcbIInv
BY UrcbInitially, UrcbStepKeeps, PTL DEF UrcbSpec

(* The types of the server's unbuffered reporting.                         *)
THEOREM UrcbTypeCorrect ==
  UrcbSpec => []UrcbTypeOK
<1>1. UrcbIInv => UrcbTypeOK
  BY DEF UrcbIInv, UrcbTypes, UrcbTypeOK
<1>2. QED
  BY <1>1, UrcbInvariance, PTL

(* Once every announced change is handled, a client with the block enabled  *)
(* was last told the value that the store has: of a leaf always, of a data  *)
(* object unless a report of every member crossed changes on their way.    *)
THEOREM ClientsAreCurrent ==
  UrcbSpec => []LastReportIsCurrent
<1>1. ASSUME UrcbIInv PROVE LastReportIsCurrent
  <2> SUFFICES ASSUME enabled, changes = NewReceiver, \A w \in Writers : announcing[w] = NoChange,
                      NEW m \in MemberIds, shown[m] # NoValue, CoversItself(m),
                      Members[m] \cap (lost \cup overtaken) = {}, ~IsLeaf(m) => ~crossed
               PROVE  shown[m] = Now(m)
    BY DEF LastReportIsCurrent
  <2>1. changes.queue = <<>>
    BY DEF NewReceiver
  <2>2. \A i \in Items : QueuedOn(i) = {} /\ AnnouncingOn(i) = {} /\ AllAnnounced(i)
    BY <2>1 DEF QueuedOn, AnnouncingOn, AllAnnounced
  <2>3. CASE IsLeaf(m)
    <3>1. PICK i \in Items : Members[m] = {i}
      BY <2>3, Members1
    <3>2. LeafFollows(m, i)
      BY <1>1 DEF UrcbIInv
    <3>3. shown[m] = [j \in {i} |-> store[i]]
      BY <2>2, <3>1, <3>2 DEF LeafFollows
    <3>4. QED
      BY <3>1, <3>3 DEF Now
  <2>4. CASE ~IsLeaf(m)
    <3>1. ObjectFollows(m) /\ Members[m] \subseteq Items
      BY <1>1 DEF UrcbIInv, MemberIds
    <3>2. ~PendingOn(m)
      BY <2>2, <3>1 DEF PendingOn
    <3>3. QED
      BY <2>4, <3>1, <3>2 DEF ObjectFollows
  <2>5. QED
    BY <2>3, <2>4
<1>2. QED
  BY <1>1, UrcbInvariance, PTL

-----------------------------------------------------------------------------
(* Setting groups.                                                         *)

HIDE UrcbAssumption

(* What a client is remembered to edit is a group with values staged.      *)
SessionsAreKnown ==
  session \in [Editors -> [group : 0..NumOfSGs, wrote : [Settings -> SettingValues \cup {Unset}]]]

(* A session is of the one group being edited, and the buffer holds what it *)
(* wrote and nothing else.                                                 *)
SessionOwnsBuffer ==
  \A c \in Editors : session[c].group # 0 =>
    /\ editSG = session[c].group
    /\ staged = session[c].wrote

SgIInv == SgTypeOK /\ SessionsAreKnown /\ SessionOwnsBuffer

Session == [group : 0..NumOfSGs, wrote : [Settings -> SettingValues \cup {Unset}]]

USE SettingAssumption DEF Groups, Unset

LEMMA NothingIsStaged ==
  /\ NothingStaged \in [Settings -> SettingValues \cup {Unset}]
  /\ NoSession \in Session
  /\ NoSession.group = 0
  BY DEF NothingStaged, NoSession, Session

(* Values put on top of a group are values of the settings.                *)
LEMMA OverIsTyped ==
  ASSUME NEW new \in [Settings -> SettingValues \cup {Unset}], NEW old \in [Settings -> SettingValues]
  PROVE  Over(new, old) \in [Settings -> SettingValues]
  BY DEF Over

(* One client's session becomes s, everybody else has none.                *)
LEMMA OnlySessionIsTyped ==
  ASSUME NEW c \in Editors, NEW s \in Session, OnlySession(c, s)
  PROVE  /\ SessionsAreKnown'
         /\ \A d \in Editors : session'[d].group # 0 => d = c /\ session'[d] = s
<1>1. session' = [d \in Editors |-> IF d = c THEN s ELSE NoSession]
  BY DEF OnlySession
<1>2. NoSession \in Session /\ NoSession.group = 0
  BY NothingIsStaged
<1>3. session' \in [Editors -> Session]
  BY <1>1, <1>2
<1>4. \A d \in Editors : session'[d].group # 0 => d = c /\ session'[d] = s
  BY <1>1, <1>2
<1> QED BY <1>3, <1>4 DEF SessionsAreKnown, Session

LEMMA SgInitIInv == SgInit => SgIInv
<1> SUFFICES ASSUME SgInit
             PROVE  SgIInv
  OBVIOUS
<1>1. (CHOOSE v \in SettingValues : TRUE) \in SettingValues
  OBVIOUS
<1>2. SgTypeOK
  BY <1>1, NothingIsStaged DEF SgInit, SgTypeOK
<1>3. SessionsAreKnown /\ SessionOwnsBuffer
  BY NothingIsStaged DEF SgInit, SessionsAreKnown, SessionOwnsBuffer, Session
<1> QED BY <1>2, <1>3 DEF SgIInv

(* A client that selects a group has the buffer to itself if it is empty.  *)
LEMMA SelectEditIInv ==
  ASSUME SgIInv, NEW c \in Editors, NEW g \in 0..NumOfSGs + 1, SelectEditSG(c, g)
  PROVE  SgIInv'
<1> USE DEF SelectEditSG, Exists, SgIInv
<1> DEFINE s == IF staged = NothingStaged THEN [group |-> g, wrote |-> NothingStaged] ELSE NoSession
<1>1. s \in Session
  BY NothingIsStaged DEF Session
<1>2. /\ SessionsAreKnown'
      /\ \A d \in Editors : session'[d].group # 0 => d = c /\ session'[d] = s
  <2> HIDE DEF s
  <2>1. OnlySession(c, s)
    BY DEF s
  <2> QED BY <1>1, <2>1, OnlySessionIsTyped
<1>3. SgTypeOK'
  BY DEF SgTypeOK
<1>4. SessionOwnsBuffer'
  BY <1>2, NothingIsStaged DEF SessionOwnsBuffer
<1> QED BY <1>2, <1>3, <1>4

(* A setting that is written goes into the writer's session, if it has one, *)
(* and ends every other.                                                   *)
LEMMA WriteIInv ==
  ASSUME SgIInv, NEW c \in Editors, NEW x \in Settings, NEW v \in SettingValues, WriteSetting(c, x, v)
  PROVE  SgIInv'
<1> USE DEF WriteSetting, SgIInv
<1> DEFINE s == IF session[c].group = 0 THEN NoSession ELSE [session[c] EXCEPT !.wrote[x] = v]
<1>1. session[c] \in Session
  BY DEF SessionsAreKnown, Session
<1>2. s \in Session
  BY <1>1, NothingIsStaged DEF Session
<1>3. /\ SessionsAreKnown'
      /\ \A d \in Editors : session'[d].group # 0 => d = c /\ session'[d] = s
  <2> HIDE DEF s
  <2>1. OnlySession(c, s)
    BY DEF s
  <2> QED BY <1>2, <2>1, OnlySessionIsTyped
<1>4. SgTypeOK'
  BY DEF SgTypeOK
<1>5. SessionOwnsBuffer'
  <2> SUFFICES ASSUME NEW d \in Editors, session'[d].group # 0
               PROVE  editSG' = session'[d].group /\ staged' = session'[d].wrote
    BY DEF SessionOwnsBuffer
  <2>1. session'[d] = s /\ s.group # 0
    BY <1>3
  <2>2. session[c].group # 0
    BY <2>1, NothingIsStaged
  <2>3. s.group = session[c].group /\ s.wrote = [session[c].wrote EXCEPT ![x] = v]
    BY <1>1, <2>2 DEF Session
  <2>4. editSG = session[c].group /\ staged = session[c].wrote
    BY <2>2 DEF SessionOwnsBuffer
  <2> QED BY <2>1, <2>3, <2>4
<1> QED BY <1>3, <1>4, <1>5

(* What is confirmed is in the group, and the buffer is empty again.       *)
LEMMA ConfirmIInv ==
  ASSUME SgIInv, NEW c \in Editors, ConfirmEditSG(c)
  PROVE  SgIInv'
<1> USE DEF ConfirmEditSG, SgIInv
<1>1. CASE editSG \notin Groups
  BY <1>1 DEF SgTypeOK, SessionsAreKnown, SessionOwnsBuffer
<1>2. CASE editSG \in Groups
  <2> DEFINE s == [group |-> session[c].group, wrote |-> NothingStaged]
  <2>1. session[c] \in Session
    BY DEF SessionsAreKnown, Session
  <2>2. s \in Session
    BY <2>1, NothingIsStaged DEF Session
  <2>3. /\ SessionsAreKnown'
        /\ \A d \in Editors : session'[d].group # 0 => d = c /\ session'[d] = s
    <3> HIDE DEF s
    <3>1. OnlySession(c, s)
      BY <1>2 DEF s
    <3> QED BY <2>2, <3>1, OnlySessionIsTyped
  <2>4. SgTypeOK'
    <3>1. Over(staged, groups[editSG]) \in [Settings -> SettingValues]
      BY <1>2, OverIsTyped DEF SgTypeOK
    <3>2. groups' = [groups EXCEPT ![editSG] = Over(staged, groups[editSG])] /\ staged' = NothingStaged
      BY <1>2
    <3> QED BY <1>2, <3>1, <3>2, NothingIsStaged DEF SgTypeOK
  <2>5. SessionOwnsBuffer'
    BY <1>2, <2>3 DEF SessionOwnsBuffer
  <2> QED BY <2>3, <2>4, <2>5
<1> QED BY <1>1, <1>2

LEMMA SgNextIInv == SgIInv /\ [SgNext]_sgVars => SgIInv'
<1> SUFFICES ASSUME SgIInv, [SgNext]_sgVars
             PROVE  SgIInv'
  OBVIOUS
<1>1. CASE \E g \in 0..NumOfSGs + 1 : SelectActiveSG(g)
  BY <1>1 DEF SelectActiveSG, Exists, SgIInv, SgTypeOK, SessionsAreKnown, SessionOwnsBuffer
<1>2. CASE \E c \in Editors, g \in 0..NumOfSGs + 1 : SelectEditSG(c, g)
  BY <1>2, SelectEditIInv
<1>3. CASE \E c \in Editors, s \in Settings, v \in SettingValues : WriteSetting(c, s, v)
  BY <1>3, WriteIInv
<1>4. CASE \E c \in Editors : ConfirmEditSG(c)
  BY <1>4, ConfirmIInv
<1>5. CASE UNCHANGED sgVars
  BY <1>5 DEF sgVars, SgIInv, SgTypeOK, SessionsAreKnown, SessionOwnsBuffer
<1> QED BY <1>1, <1>2, <1>3, <1>4, <1>5 DEF SgNext

(* The inductive invariant holds in every reachable state.                 *)
THEOREM SgInvariance == SgSpec => []SgIInv
  BY SgInitIInv, SgNextIInv, PTL DEF SgSpec

-----------------------------------------------------------------------------
(* The groups, the buffer and the block keep their types: the active group  *)
(* always exists, whatever clients select.                                  *)
THEOREM SgTypeCorrect == SgSpec => []SgTypeOK
  BY SgInvariance, PTL DEF SgIInv

(* A client that selected a group with an empty buffer and was not          *)
(* disturbed reads back through FC = SE what it wrote on top of the group,  *)
(* for any number of groups, settings and other clients.                    *)
THEOREM UndisturbedEditsRead == SgSpec => []UndisturbedEdit
<1>1. SgIInv => UndisturbedEdit
  <2> SUFFICES ASSUME SgIInv, NEW c \in Editors, session[c].group # 0
               PROVE  /\ editSG = session[c].group
                      /\ staged = session[c].wrote
                      /\ \A s \in Settings : EditView(s) = Over(session[c].wrote, groups[session[c].group])[s]
    BY DEF UndisturbedEdit
  <2>1. editSG = session[c].group /\ staged = session[c].wrote
    BY DEF SgIInv, SessionOwnsBuffer
  <2>2. editSG \in Groups
    BY <2>1 DEF SgIInv, SgTypeOK
  <2> QED BY <2>1, <2>2 DEF EditView, Over, Existing
<1> QED BY <1>1, SgInvariance, PTL

(* Editing never disturbs the protection in force: what is read with        *)
(* FC = SG changes only when a client selects another active group, or      *)
(* confirms what was staged for the very group that is active.              *)
THEOREM EditingLeavesTheActiveView ==
  SgSpec => [][actSG' = actSG /\ (editSG # actSG \/ staged' = staged)
               => \A s \in Settings : ActiveView(s)' = ActiveView(s)]_sgVars
<1> DEFINE Kept == actSG' = actSG /\ (editSG # actSG \/ staged' = staged)
                   => \A s \in Settings : ActiveView(s)' = ActiveView(s)
<1>1. SgIInv /\ [SgNext]_sgVars => [Kept]_sgVars
  <2> SUFFICES ASSUME SgIInv, SgNext, actSG' = actSG, editSG # actSG \/ staged' = staged, NEW s \in Settings
               PROVE  ActiveView(s)' = ActiveView(s)
    OBVIOUS
  <2>1. CASE UNCHANGED groups
    BY <2>1 DEF ActiveView, Existing
  <2>2. ASSUME NEW c \in Editors, ConfirmEditSG(c)
        PROVE  ActiveView(s)' = ActiveView(s)
    <3>1. CASE editSG \notin Groups
      BY <2>2, <3>1 DEF ConfirmEditSG, ActiveView, Existing
    <3>2. CASE editSG \in Groups /\ editSG # actSG
      BY <2>2, <3>2 DEF ConfirmEditSG, ActiveView, Existing, SgIInv, SgTypeOK
    <3>3. CASE editSG \in Groups /\ staged' = staged
      <4>1. staged = NothingStaged
        BY <2>2, <3>3 DEF ConfirmEditSG
      <4>2. groups' = [groups EXCEPT ![editSG] = Over(staged, groups[editSG])]
        BY <2>2, <3>3 DEF ConfirmEditSG
      <4>3. \A x \in Settings : Over(staged, groups[editSG])[x] = groups[editSG][x]
        BY <4>1 DEF Over, NothingStaged
      <4> QED BY <4>2, <4>3, <3>3 DEF ActiveView, Existing, SgIInv, SgTypeOK
    <3> QED BY <3>1, <3>2, <3>3
  <2> QED BY <2>1, <2>2 DEF SgNext, SelectActiveSG, SelectEditSG, WriteSetting
<1> QED BY <1>1, SgInvariance, PTL DEF SgSpec

HIDE SettingAssumption DEF Groups, Unset

-----------------------------------------------------------------------------
(* Files.                                                                  *)

FileData == Seq(Nat \X Nat)
OpenFile == {file \in [data : FileData, pos : Nat] : file.pos <= Len(file.data)}
TransferRecord ==
  [do : {"upload", "download"}, file : FileNames, phase : {"busy", "ok", "failed"},
   got : FileData, frsm : Nat, alone : BOOLEAN]
Downloads == {n \in TransferNumbers : transfers[n].do = "download"}

ServerMessages ==
  {Request("open", n, 0) : n \in Downloads}
    \cup {Request(kind, n, n) : kind \in {"read", "close"}, n \in Downloads}
    \cup {Request("obtain", n, 0) : n \in Uploads}
    \cup {Opened(0, frsm) : frsm \in Nat \ {0}}
    \cup {Chunk(0, data, more) : data \in FileData, more \in BOOLEAN}
    \cup {Done("closed", 0)}
ClientMessages ==
  {Request("open", n, 0) : n \in Uploads}
    \cup {Request(kind, 0, frsm) : kind \in {"read", "close"}, frsm \in Nat}
    \cup {Opened(n, n) : n \in Downloads}
    \cup {Chunk(n, data, more) : n \in Downloads, data \in FileData, more \in BOOLEAN}
    \cup {Done("closed", n) : n \in Downloads}
    \cup {Done("obtained", n) : n \in Uploads}
    \cup {Done("error", n) : n \in TransferNumbers}

FileTyped ==
  /\ transfers \in Seq(TransferRecord)
  /\ truth \in Seq(FileData) /\ Len(truth) = Len(transfers)
  /\ filestore \in [FileNames -> FileData]
  /\ offered \subseteq Uploads
  /\ obtain \subseteq [n : Uploads, frsm : Nat, data : FileData]
  /\ \A a, b \in obtain : a = b
  /\ openFiles \in [DOMAIN openFiles -> OpenFile] /\ DOMAIN openFiles \subseteq TransferNumbers
  /\ reverseReads \in [DOMAIN reverseReads -> OpenFile] /\ DOMAIN reverseReads \subseteq Nat \ {0}
  /\ \E bound \in Nat : \A frsm \in DOMAIN reverseReads : frsm <= bound
  /\ toServer \in Seq(ServerMessages) /\ toClient \in Seq(ClientMessages)

(* Where in a queue the messages of some kinds about some calls are.       *)
At(q, kinds, numbers) == {k \in DOMAIN q : q[k].kind \in kinds /\ q[k].n \in numbers}
AtMostOne(q, kinds, numbers) == \A j, k \in At(q, kinds, numbers) : j = k

FileRequests == {"open", "read", "close"}
FileAnswers == {"opened", "chunk", "closed", "error"}
ReadSoFar(file) == SubSeq(file.data, 1, file.pos)

(* A download has one message under way, and what the client got is what   *)
(* was read of the file until then, or all but the message.                *)
OpenAsTold(n) == n \in DOMAIN openFiles /\ openFiles[n].data = truth[n]
RequestFits(n, m) ==
  /\ m.kind = "open" => transfers[n].got = <<>>
  /\ m.kind = "read" => /\ transfers[n].frsm = n /\ OpenAsTold(n)
                        /\ transfers[n].got = ReadSoFar(openFiles[n])
  /\ m.kind = "close" => transfers[n].got = truth[n]
AnswerFits(n, m) ==
  /\ m.kind = "opened" => OpenAsTold(n) /\ openFiles[n].pos = 0 /\ transfers[n].got = <<>>
  /\ m.kind = "chunk" => /\ transfers[n].frsm = n /\ OpenAsTold(n)
                         /\ transfers[n].got \o m.data = ReadSoFar(openFiles[n])
                         /\ ~m.more => ReadSoFar(openFiles[n]) = truth[n]
  /\ m.kind = "closed" => transfers[n].got = truth[n]

DownloadGoesOn(n) ==
  /\ AtMostOne(toServer, FileRequests, {n}) /\ AtMostOne(toClient, FileAnswers, {n})
  /\ At(toServer, FileRequests, {n}) = {} \/ At(toClient, FileAnswers, {n}) = {}
  /\ transfers[n].phase = "ok" =>
       transfers[n].got = truth[n] /\ At(toServer, FileRequests, {n}) = {}
  /\ Busy(n) =>
       /\ \A k \in At(toServer, FileRequests, {n}) : RequestFits(n, toServer[k])
       /\ \A k \in At(toClient, FileAnswers, {n}) : AnswerFits(n, toClient[k])

(* An upload that has the connection for itself: it is asked for while     *)
(* there is no reverse read, the one message of which is then about it.    *)
ReverseFor(n, frsm) == frsm \in DOMAIN reverseReads /\ reverseReads[frsm].data = Contents(n)
ReverseRequestFits(n, st, m) ==
  IF st.frsm = 0 THEN m.kind = "open" /\ m.n = n
  ELSE /\ m.kind = "read" /\ m.frsm = st.frsm /\ ReverseFor(n, st.frsm)
       /\ st.data = ReadSoFar(reverseReads[st.frsm])
ReverseAnswerFits(n, st, m) ==
  IF st.frsm = 0 THEN /\ m.kind = "opened" /\ m.frsm # 0 /\ ReverseFor(n, m.frsm)
                      /\ reverseReads[m.frsm].pos = 0
  ELSE /\ m.kind = "chunk" /\ ReverseFor(n, st.frsm)
       /\ st.data \o m.data = ReadSoFar(reverseReads[st.frsm])
       /\ ~m.more => ReadSoFar(reverseReads[st.frsm]) = Contents(n)

AskedFirst(n) ==
  \A k \in At(toServer, {"obtain"}, {n}) :
    /\ obtain = {} /\ truth[n] = NoFile
    /\ At(toServer, ReverseKinds, Nat) = {} /\ At(toClient, FileRequests, Nat) = {}
    /\ \A j \in At(toServer, {"obtain"}, Nat) : k <= j
ObtainedAlone(n) ==
  \A st \in obtain : st.n = n =>
    /\ truth[n] = NoFile /\ (st.frsm = 0 => st.data = <<>>)
    /\ AtMostOne(toServer, ReverseKinds, Nat) /\ AtMostOne(toClient, FileRequests, Nat)
    /\ At(toServer, ReverseKinds, Nat) = {} \/ At(toClient, FileRequests, Nat) = {}
    /\ \A k \in At(toServer, ReverseKinds, Nat) : ReverseAnswerFits(n, st, toServer[k])
    /\ \A k \in At(toClient, FileRequests, Nat) : ReverseRequestFits(n, st, toClient[k])
StoredWhole(n) ==
  /\ truth[n] \in {NoFile, Contents(n)}
  /\ transfers[n].phase = "ok" \/ At(toClient, {"obtained"}, {n}) # {} => truth[n] = Contents(n)
UploadGoesOn(n) == AskedFirst(n) /\ ObtainedAlone(n) /\ StoredWhole(n)

FileIInv ==
  /\ FileTyped
  /\ \A n \in Downloads : DownloadGoesOn(n)
  /\ \A n \in Uploads : transfers[n].alone => UploadGoesOn(n)

USE FileAssumption

(* What is left of the messages on some calls, moved up by one or not.      *)
Fewer(p, q, kinds, numbers) ==
  \E s \in {0, 1} : \A k \in At(p, kinds, numbers) :
    k \in Nat /\ k + s \in At(q, kinds, numbers) /\ p[k] = q[k + s]

LEMMA SameMessages ==
  ASSUME NEW M, NEW q \in Seq(M), NEW kinds, NEW numbers
  PROVE  Fewer(q, q, kinds, numbers)
<1>1. \A k \in At(q, kinds, numbers) :
        k \in Nat /\ k + 0 \in At(q, kinds, numbers) /\ q[k] = q[k + 0]
  BY DEF At
<1> QED BY <1>1 DEF Fewer

LEMMA TakenMessage ==
  ASSUME NEW M, NEW q \in Seq(M), q # <<>>, NEW kinds, NEW numbers
  PROVE  /\ Fewer(Tail(q), q, kinds, numbers)
         /\ 1 \in DOMAIN q /\ Head(q) = q[1]
         /\ 1 \in At(q, kinds, numbers) <=> Head(q).kind \in kinds /\ Head(q).n \in numbers
         /\ 1 \in At(q, kinds, numbers) /\ AtMostOne(q, kinds, numbers) =>
              At(Tail(q), kinds, numbers) = {}
<1>1. /\ Tail(q) \in Seq(M) /\ Len(Tail(q)) = Len(q) - 1 /\ Len(q) \in Nat \ {0}
      /\ \A k \in DOMAIN Tail(q) : k + 1 \in DOMAIN q /\ Tail(q)[k] = q[k + 1]
  OBVIOUS
<1>2. \A k \in At(Tail(q), kinds, numbers) :
        k + 1 \in At(q, kinds, numbers) /\ Tail(q)[k] = q[k + 1] /\ k \in Nat \ {0}
  BY <1>1 DEF At
<1>3. Fewer(Tail(q), q, kinds, numbers)
  BY <1>2 DEF Fewer
<1>4. 1 \in DOMAIN q /\ Head(q) = q[1]
  BY <1>1
<1>5. 1 \in At(q, kinds, numbers) <=> Head(q).kind \in kinds /\ Head(q).n \in numbers
  BY <1>4 DEF At
<1>6. ASSUME 1 \in At(q, kinds, numbers), AtMostOne(q, kinds, numbers)
      PROVE  At(Tail(q), kinds, numbers) = {}
  <2>1. ASSUME NEW k \in At(Tail(q), kinds, numbers) PROVE FALSE
    BY <1>2, <1>6, <2>1 DEF AtMostOne
  <2> QED BY <2>1
<1> QED BY <1>3, <1>4, <1>5, <1>6

LEMMA SentAtTheEnd ==
  ASSUME NEW M, NEW q \in Seq(M), NEW m \in M
  PROVE  /\ q \o <<m>> = Append(q, m) /\ q \o <<m>> \in Seq(M)
         /\ DOMAIN (q \o <<m>>) = DOMAIN q \cup {Len(q) + 1}
         /\ Len(q) + 1 \notin DOMAIN q /\ Len(q) + 1 \in Nat \ {0}
         /\ (q \o <<m>>)[Len(q) + 1] = m
         /\ \A k \in DOMAIN q : (q \o <<m>>)[k] = q[k] /\ k \in Nat /\ k <= Len(q)
OBVIOUS

LEMMA SentToo ==
  ASSUME NEW M, NEW q \in Seq(M), NEW m \in M, NEW kinds, NEW numbers,
         m.kind \in kinds, m.n \in numbers
  PROVE  At(q \o <<m>>, kinds, numbers) = At(q, kinds, numbers) \cup {Len(q) + 1}
BY SentAtTheEnd DEF At

LEMMA SentElse ==
  ASSUME NEW M, NEW q \in Seq(M), NEW m \in M, NEW kinds, NEW numbers,
         ~(m.kind \in kinds /\ m.n \in numbers)
  PROVE  /\ At(q \o <<m>>, kinds, numbers) = At(q, kinds, numbers)
         /\ Fewer(q \o <<m>>, q, kinds, numbers)
<1>1. At(q \o <<m>>, kinds, numbers) = At(q, kinds, numbers)
  BY SentAtTheEnd DEF At
<1>2. \A k \in At(q \o <<m>>, kinds, numbers) :
        k \in Nat /\ k + 0 \in At(q, kinds, numbers) /\ (q \o <<m>>)[k] = q[k + 0]
  <2>1. At(q, kinds, numbers) \subseteq DOMAIN q
    BY DEF At
  <2> QED BY <1>1, <2>1, SentAtTheEnd
<1> QED BY <1>1, <1>2 DEF Fewer

(* One step further in a file.                                              *)
LEMMA ReadingOn ==
  ASSUME NEW file \in OpenFile
  PROVE  /\ Advanced(file) \in OpenFile /\ Advanced(file).data = file.data
         /\ NextBlock(file) \in FileData /\ MoreFollows(file) \in BOOLEAN
         /\ ReadSoFar(file) \in FileData
         /\ ReadSoFar(file) \o NextBlock(file) = ReadSoFar(Advanced(file))
         /\ ~MoreFollows(file) => ReadSoFar(Advanced(file)) = file.data
         /\ file.pos = 0 => ReadSoFar(file) = <<>>
<1>1. PICK d \in FileData, p \in Nat : file = [data |-> d, pos |-> p] /\ p <= Len(d)
  BY DEF OpenFile
<1>2. /\ file.data = d /\ file.pos = p /\ Len(d) \in Nat
      /\ d \in Seq(Nat \X Nat)
  BY <1>1 DEF FileData
<1>3. Advanced(file) = [data |-> d, pos |-> IF p < Len(d) THEN p + 1 ELSE p]
  BY <1>1 DEF Advanced
<1>4. Advanced(file) \in OpenFile /\ Advanced(file).data = d
  BY <1>1, <1>2, <1>3 DEF OpenFile
<1>5. MoreFollows(file) \in BOOLEAN
  BY DEF MoreFollows
<1>6. ReadSoFar(file) = SubSeq(d, 1, p) /\ SubSeq(d, 1, p) \in FileData
  <2>1. \A i \in 1..p : d[i] \in Nat \X Nat
    BY <1>1, <1>2
  <2>2. SubSeq(d, 1, p) \in Seq(Nat \X Nat)
    BY <1>1, <2>1, SubSeqProperties
  <2> QED BY <1>2, <2>2 DEF ReadSoFar, FileData
<1>7. p = 0 => SubSeq(d, 1, p) = <<>>
  BY SubSeqEmpty
<1>8. CASE p < Len(d)
  <2>1. NextBlock(file) = <<d[p + 1]>> /\ d[p + 1] \in Nat \X Nat
    <3>1. p + 1 \in 1..Len(d)
      BY <1>1, <1>2, <1>8
    <3> QED BY <1>2, <1>8, <3>1 DEF NextBlock
  <2>2. NextBlock(file) \in FileData
    BY <2>1 DEF FileData
  <2>3. ReadSoFar(Advanced(file)) = SubSeq(d, 1, p + 1)
    BY <1>3, <1>8 DEF ReadSoFar
  <2>4. SubSeq(d, 1, p) \o <<d[p + 1]>> = SubSeq(d, 1, p + 1)
    <3>1. 1 \in 1..Len(d) /\ p + 1 \in 1..Len(d) /\ (p + 1) - 1 = p
      BY <1>1, <1>2, <1>8
    <3> QED BY <1>2, <3>1, SubSeqRecursiveSecond
  <2>5. ~MoreFollows(file) => SubSeq(d, 1, p + 1) = d
    <3>1. MoreFollows(file) <=> p + 1 < Len(d)
      BY <1>2, <1>3, <1>4, <1>8 DEF MoreFollows
    <3>2. ASSUME p + 1 = Len(d) PROVE SubSeq(d, 1, p + 1) = d
      BY <1>2, <3>2, SubSeqFull
    <3> QED BY <1>1, <1>2, <1>8, <3>1, <3>2
  <2> QED BY <1>2, <1>4, <1>5, <1>6, <1>7, <2>1, <2>2, <2>3, <2>4, <2>5
<1>9. CASE ~(p < Len(d))
  <2>1. NextBlock(file) = <<>> /\ Advanced(file) = file /\ p = Len(d)
    BY <1>1, <1>2, <1>3, <1>9 DEF NextBlock
  <2>2. SubSeq(d, 1, p) = d
    BY <1>2, <2>1, SubSeqFull
  <2>3. d \o <<>> = d
    BY <1>2, ConcatEmptySeq
  <2>4. <<>> \in FileData
    BY DEF FileData
  <2> QED BY <1>2, <1>4, <1>5, <1>6, <1>7, <2>1, <2>2, <2>3, <2>4
<1> QED BY <1>8, <1>9

LEMMA ContentsAreData ==
  ASSUME NEW n \in Nat
  PROVE  Contents(n) \in FileData /\ [data |-> Contents(n), pos |-> 0] \in OpenFile
<1>1. Contents(n) \in FileData
  BY DEF Contents, FileData
<1> QED BY <1>1 DEF OpenFile, FileData

LEMMA NoFileIsData == NoFile \in FileData
BY DEF NoFile, FileData

LEMMA ServerMessageKinds ==
  ASSUME FileTyped, NEW m \in ServerMessages
  PROVE  /\ m.kind \in FileRequests \cup {"obtain"} \cup ReverseKinds
         /\ m.kind \in FileRequests => m.n \in Downloads /\ (m.kind # "open" => m.frsm = m.n)
         /\ m.kind = "obtain" => m.n \in Uploads
         /\ m.kind \in ReverseKinds => m.n = 0
         /\ m.kind = "opened" => m.frsm \in Nat \ {0}
         /\ m.kind = "chunk" => m.data \in FileData /\ m.more \in BOOLEAN
<1> USE DEF FileRequests, ReverseKinds
<1>1. ASSUME NEW n \in Downloads, NEW kind \in {"read", "close"},
             m = Request("open", n, 0) \/ m = Request(kind, n, n)
      PROVE  m.kind \in FileRequests /\ m.n \in Downloads /\ (m.kind # "open" => m.frsm = m.n)
  BY <1>1 DEF Request
<1>2. ASSUME NEW n \in Uploads, m = Request("obtain", n, 0)
      PROVE  m.kind = "obtain" /\ m.n \in Uploads
  BY <1>2 DEF Request
<1>3. ASSUME NEW frsm \in Nat \ {0}, m = Opened(0, frsm)
      PROVE  m.kind = "opened" /\ m.n = 0 /\ m.frsm \in Nat \ {0}
  BY <1>3 DEF Opened
<1>4. ASSUME NEW data \in FileData, NEW more \in BOOLEAN, m = Chunk(0, data, more)
      PROVE  m.kind = "chunk" /\ m.n = 0 /\ m.data \in FileData /\ m.more \in BOOLEAN
  BY <1>4 DEF Chunk
<1>5. ASSUME m = Done("closed", 0) PROVE m.kind = "closed" /\ m.n = 0
  BY <1>5 DEF Done
<1> QED BY <1>1, <1>2, <1>3, <1>4, <1>5 DEF ServerMessages

LEMMA ClientMessageKinds ==
  ASSUME FileTyped, NEW m \in ClientMessages
  PROVE  /\ m.kind \in FileRequests \cup FileAnswers \cup {"obtained"}
         /\ m.kind = "open" => m.n \in Uploads
         /\ m.kind \in {"read", "close"} => m.n = 0 /\ m.frsm \in Nat
         /\ m.kind \in {"opened", "chunk", "closed"} => m.n \in Downloads
         /\ m.kind = "obtained" => m.n \in Uploads
         /\ m.kind = "error" => m.n \in TransferNumbers
         /\ m.kind = "opened" => m.frsm = m.n
         /\ m.kind = "chunk" => m.data \in FileData /\ m.more \in BOOLEAN
<1> USE DEF FileRequests, FileAnswers
<1>1. ASSUME NEW n \in Uploads, m = Request("open", n, 0)
      PROVE  m.kind = "open" /\ m.n \in Uploads
  BY <1>1 DEF Request
<1>2. ASSUME NEW frsm \in Nat, NEW kind \in {"read", "close"}, m = Request(kind, 0, frsm)
      PROVE  m.kind \in {"read", "close"} /\ m.n = 0 /\ m.frsm \in Nat
  BY <1>2 DEF Request
<1>3. ASSUME NEW n \in Downloads, m = Opened(n, n)
      PROVE  m.kind = "opened" /\ m.n \in Downloads /\ m.frsm = m.n
  BY <1>3 DEF Opened
<1>4. ASSUME NEW n \in Downloads, NEW data \in FileData, NEW more \in BOOLEAN,
             m = Chunk(n, data, more)
      PROVE  m.kind = "chunk" /\ m.n \in Downloads /\ m.data \in FileData /\ m.more \in BOOLEAN
  BY <1>4 DEF Chunk
<1>5. ASSUME NEW n \in Downloads, m = Done("closed", n)
      PROVE  m.kind = "closed" /\ m.n \in Downloads
  BY <1>5 DEF Done
<1>6. ASSUME NEW n \in Uploads, m = Done("obtained", n)
      PROVE  m.kind = "obtained" /\ m.n \in Uploads
  BY <1>6 DEF Done
<1>7. ASSUME NEW n \in TransferNumbers, m = Done("error", n)
      PROVE  m.kind = "error" /\ m.n \in TransferNumbers
  BY <1>7 DEF Done
<1> QED BY <1>1, <1>2, <1>3, <1>4, <1>5, <1>6, <1>7 DEF ClientMessages

(* Transfers go on and new ones are made: messages keep their types.        *)
LEMMA TransfersGrow ==
  ASSUME FileTyped, transfers' \in Seq(TransferRecord), Len(transfers') >= Len(transfers),
         \A n \in TransferNumbers : transfers'[n].do = transfers[n].do
  PROVE  /\ TransferNumbers \subseteq TransferNumbers' /\ TransferNumbers \subseteq Nat \ {0}
         /\ Downloads \subseteq Downloads' /\ Uploads \subseteq Uploads'
         /\ ServerMessages \subseteq ServerMessages' /\ ClientMessages \subseteq ClientMessages'
         /\ toServer \in Seq(ServerMessages') /\ toClient \in Seq(ClientMessages')
<1>1. TransferNumbers \subseteq TransferNumbers' /\ TransferNumbers \subseteq Nat \ {0}
  <2>1. /\ transfers \in Seq(TransferRecord) /\ Len(transfers) \in Nat /\ Len(transfers') \in Nat
        /\ TransferNumbers = 1..Len(transfers) /\ TransferNumbers' = 1..Len(transfers')
    BY DEF FileTyped, TransferNumbers
  <2> QED BY <2>1
<1>2. Downloads \subseteq Downloads' /\ Uploads \subseteq Uploads'
  BY <1>1 DEF Downloads, Uploads
<1>3. ServerMessages \subseteq ServerMessages'
  BY <1>2 DEF ServerMessages
<1>4. ClientMessages \subseteq ClientMessages'
  BY <1>1, <1>2 DEF ClientMessages
<1>5. toServer \in Seq(ServerMessages')
  BY <1>3, SeqMonotonic DEF FileTyped
<1>6. toClient \in Seq(ClientMessages')
  BY <1>4, SeqMonotonic DEF FileTyped
<1> QED BY <1>1, <1>2, <1>3, <1>4, <1>5, <1>6

LEMMA SameTransfers ==
  ASSUME FileTyped, UNCHANGED transfers
  PROVE  /\ TransferNumbers' = TransferNumbers /\ TransferNumbers \subseteq Nat \ {0}
         /\ Downloads' = Downloads /\ Uploads' = Uploads
         /\ Downloads \subseteq TransferNumbers /\ Uploads \subseteq TransferNumbers
         /\ ServerMessages' = ServerMessages /\ ClientMessages' = ClientMessages
<1>1. /\ TransferNumbers' = TransferNumbers /\ TransferNumbers \subseteq Nat \ {0}
      /\ Downloads \subseteq TransferNumbers /\ Uploads \subseteq TransferNumbers
  BY DEF FileTyped, TransferNumbers, Downloads, Uploads
<1>2. Downloads' = Downloads /\ Uploads' = Uploads
  BY <1>1 DEF Downloads, Uploads
<1> QED BY <1>1, <1>2 DEF ServerMessages, ClientMessages

LEMMA CallChanges ==
  ASSUME FileTyped, NEW n \in TransferNumbers, NEW t \in TransferRecord, t.do = transfers[n].do,
         transfers' = [transfers EXCEPT ![n] = t]
  PROVE  /\ transfers' \in Seq(TransferRecord) /\ Len(transfers') = Len(transfers)
         /\ transfers'[n] = t /\ \A k \in TransferNumbers : k # n => transfers'[k] = transfers[k]
         /\ TransferNumbers' = TransferNumbers /\ TransferNumbers \subseteq Nat \ {0}
         /\ Downloads' = Downloads /\ Uploads' = Uploads
         /\ Downloads \subseteq TransferNumbers /\ Uploads \subseteq TransferNumbers
         /\ ServerMessages' = ServerMessages /\ ClientMessages' = ClientMessages
<1>1. transfers \in Seq(TransferRecord) /\ n \in 1..Len(transfers)
  BY DEF FileTyped, TransferNumbers
<1>2. /\ transfers' \in Seq(TransferRecord) /\ Len(transfers') = Len(transfers)
      /\ \A k \in 1..Len(transfers) : transfers'[k] = IF k = n THEN t ELSE transfers[k]
  BY <1>1, ExceptSeq
<1>3. /\ TransferNumbers = 1..Len(transfers) /\ TransferNumbers' = 1..Len(transfers)
      /\ TransferNumbers \subseteq Nat \ {0}
  BY <1>1, <1>2 DEF TransferNumbers
<1>4. transfers'[n] = t /\ \A k \in TransferNumbers : k # n => transfers'[k] = transfers[k]
  BY <1>1, <1>2, <1>3
<1>5. \A k \in TransferNumbers : transfers'[k].do = transfers[k].do
  BY <1>4
<1>6. Downloads' = Downloads /\ Uploads' = Uploads
  BY <1>3, <1>5 DEF Downloads, Uploads
<1>7. Downloads \subseteq TransferNumbers /\ Uploads \subseteq TransferNumbers
  BY DEF Downloads, Uploads
<1>8. ServerMessages' = ServerMessages /\ ClientMessages' = ClientMessages
  BY <1>3, <1>6 DEF ServerMessages, ClientMessages
<1> QED BY <1>2, <1>3, <1>4, <1>6, <1>7, <1>8

(* What does not concern a transfer leaves it as it is.                     *)
DownloadStays(n) ==
  /\ transfers'[n].got = transfers[n].got /\ transfers'[n].frsm = transfers[n].frsm
  /\ transfers'[n].phase \in {transfers[n].phase, "failed"}
  /\ truth'[n] = truth[n]
  /\ n \in DOMAIN openFiles => n \in DOMAIN openFiles' /\ openFiles'[n] = openFiles[n]
  /\ Fewer(toServer', toServer, FileRequests, {n})
  /\ Fewer(toClient', toClient, FileAnswers, {n})

LEMMA DownloadsStay ==
  ASSUME FileTyped, NEW n \in Downloads, DownloadGoesOn(n), DownloadStays(n)
  PROVE  DownloadGoesOn(n)'
<1>1. PICK s \in {0, 1} : \A k \in At(toServer', FileRequests, {n}) :
        k \in Nat /\ k + s \in At(toServer, FileRequests, {n}) /\ toServer'[k] = toServer[k + s]
  BY DEF DownloadStays, Fewer
<1>2. PICK c \in {0, 1} : \A k \in At(toClient', FileAnswers, {n}) :
        k \in Nat /\ k + c \in At(toClient, FileAnswers, {n}) /\ toClient'[k] = toClient[k + c]
  BY DEF DownloadStays, Fewer
<1>3. AtMostOne(toServer', FileRequests, {n})
  <2>1. ASSUME NEW j \in At(toServer', FileRequests, {n}), NEW k \in At(toServer', FileRequests, {n})
        PROVE  j = k
    <3>1. AtMostOne(toServer, FileRequests, {n})
      BY DEF DownloadGoesOn
    <3>2. j + s = k + s
      BY <1>1, <3>1 DEF AtMostOne
    <3>3. j \in Nat /\ k \in Nat /\ s \in {0, 1}
      BY <1>1
    <3> QED BY <3>2, <3>3
  <2> QED BY <2>1 DEF AtMostOne
<1>4. AtMostOne(toClient', FileAnswers, {n})
  <2>1. ASSUME NEW j \in At(toClient', FileAnswers, {n}), NEW k \in At(toClient', FileAnswers, {n})
        PROVE  j = k
    <3>1. AtMostOne(toClient, FileAnswers, {n})
      BY DEF DownloadGoesOn
    <3>2. j + c = k + c
      BY <1>2, <3>1 DEF AtMostOne
    <3>3. j \in Nat /\ k \in Nat /\ c \in {0, 1}
      BY <1>2
    <3> QED BY <3>2, <3>3
  <2> QED BY <2>1 DEF AtMostOne
<1>5. At(toServer', FileRequests, {n}) = {} \/ At(toClient', FileAnswers, {n}) = {}
  BY <1>1, <1>2 DEF DownloadGoesOn
<1>6. transfers'[n].phase = "ok" =>
        transfers'[n].got = truth'[n] /\ At(toServer', FileRequests, {n}) = {}
  BY <1>1 DEF DownloadGoesOn, DownloadStays
<1>7. ASSUME Busy(n)' PROVE Busy(n)
  BY <1>7 DEF Busy, DownloadStays
<1>8. ASSUME NEW m, RequestFits(n, m) PROVE RequestFits(n, m)'
  BY <1>8 DEF RequestFits, OpenAsTold, DownloadStays
<1>9. ASSUME NEW m, AnswerFits(n, m) PROVE AnswerFits(n, m)'
  BY <1>9 DEF AnswerFits, OpenAsTold, DownloadStays
<1>10. ASSUME Busy(n)', NEW k \in At(toServer', FileRequests, {n})
       PROVE  RequestFits(n, toServer[k])'
  <2>1. RequestFits(n, toServer[k + s])
    BY <1>1, <1>7, <1>10 DEF DownloadGoesOn
  <2>2. PICK m : m = toServer[k + s] /\ toServer'[k] = m
    BY <1>1
  <2> QED BY <1>8, <2>1, <2>2 DEF RequestFits
<1>11. ASSUME Busy(n)', NEW k \in At(toClient', FileAnswers, {n})
       PROVE  AnswerFits(n, toClient[k])'
  <2>1. AnswerFits(n, toClient[k + c])
    BY <1>2, <1>7, <1>11 DEF DownloadGoesOn
  <2>2. PICK m : m = toClient[k + c] /\ toClient'[k] = m
    BY <1>2
  <2> QED BY <1>9, <2>1, <2>2 DEF AnswerFits
<1> QED BY <1>3, <1>4, <1>5, <1>6, <1>10, <1>11 DEF DownloadGoesOn

UploadStays(n) ==
  /\ transfers'[n].phase \in {transfers[n].phase, "failed"} \/ truth[n] = Contents(n)
  /\ truth'[n] = truth[n]
  /\ obtain' = obtain /\ reverseReads' = reverseReads
  /\ Fewer(toServer', toServer, {"obtain"}, Nat)
  /\ Fewer(toServer', toServer, ReverseKinds, Nat)
  /\ Fewer(toClient', toClient, FileRequests, Nat)
  /\ Fewer(toClient', toClient, {"obtained"}, {n})

LEMMA AtOneCall ==
  ASSUME NEW q, NEW kinds, NEW n \in Nat
  PROVE  At(q, kinds, {n}) = {k \in At(q, kinds, Nat) : q[k].n = n}
BY DEF At

LEMMA UploadsStay ==
  ASSUME FileTyped, NEW n \in Nat, UploadGoesOn(n), UploadStays(n)
  PROVE  UploadGoesOn(n)'
<1>1. PICK a \in {0, 1} : \A k \in At(toServer', {"obtain"}, Nat) :
        k \in Nat /\ k + a \in At(toServer, {"obtain"}, Nat) /\ toServer'[k] = toServer[k + a]
  BY DEF UploadStays, Fewer
<1>2. PICK s \in {0, 1} : \A k \in At(toServer', ReverseKinds, Nat) :
        k \in Nat /\ k + s \in At(toServer, ReverseKinds, Nat) /\ toServer'[k] = toServer[k + s]
  BY DEF UploadStays, Fewer
<1>3. PICK c \in {0, 1} : \A k \in At(toClient', FileRequests, Nat) :
        k \in Nat /\ k + c \in At(toClient, FileRequests, Nat) /\ toClient'[k] = toClient[k + c]
  BY DEF UploadStays, Fewer
<1>4. At(toClient', {"obtained"}, {n}) # {} => At(toClient, {"obtained"}, {n}) # {}
  BY DEF UploadStays, Fewer
<1>5. AskedFirst(n)'
  <2>1. ASSUME NEW k \in At(toServer', {"obtain"}, {n})
        PROVE  /\ obtain' = {} /\ truth'[n] = NoFile
               /\ At(toServer', ReverseKinds, Nat) = {} /\ At(toClient', FileRequests, Nat) = {}
               /\ \A j \in At(toServer', {"obtain"}, Nat) : k <= j
    <3>1. k \in Nat /\ k + a \in At(toServer, {"obtain"}, {n})
      BY <1>1, AtOneCall
    <3>2. /\ obtain = {} /\ truth[n] = NoFile
          /\ At(toServer, ReverseKinds, Nat) = {} /\ At(toClient, FileRequests, Nat) = {}
          /\ \A j \in At(toServer, {"obtain"}, Nat) : k + a <= j
      BY <3>1 DEF UploadGoesOn, AskedFirst
    <3>3. \A j \in At(toServer', {"obtain"}, Nat) : k <= j
      <4>1. ASSUME NEW j \in At(toServer', {"obtain"}, Nat) PROVE k <= j
        <5>1. k + a <= j + a /\ j \in Nat /\ k \in Nat
          BY <1>1, <3>1, <3>2
        <5> QED BY <5>1
      <4> QED BY <4>1
    <3> QED BY <1>2, <1>3, <3>2, <3>3 DEF UploadStays
  <2> QED BY <2>1 DEF AskedFirst
<1>6. ObtainedAlone(n)'
  <2> SUFFICES ASSUME NEW st \in obtain', st.n = n
               PROVE  /\ truth'[n] = NoFile /\ (st.frsm = 0 => st.data = <<>>)
                      /\ AtMostOne(toServer', ReverseKinds, Nat)
                      /\ AtMostOne(toClient', FileRequests, Nat)
                      /\ At(toServer', ReverseKinds, Nat) = {} \/ At(toClient', FileRequests, Nat) = {}
                      /\ \A k \in At(toServer', ReverseKinds, Nat) :
                           ReverseAnswerFits(n, st, toServer[k])'
                      /\ \A k \in At(toClient', FileRequests, Nat) :
                           ReverseRequestFits(n, st, toClient[k])'
    BY DEF ObtainedAlone
  <2>1. /\ truth[n] = NoFile /\ (st.frsm = 0 => st.data = <<>>)
        /\ AtMostOne(toServer, ReverseKinds, Nat) /\ AtMostOne(toClient, FileRequests, Nat)
        /\ At(toServer, ReverseKinds, Nat) = {} \/ At(toClient, FileRequests, Nat) = {}
        /\ \A k \in At(toServer, ReverseKinds, Nat) : ReverseAnswerFits(n, st, toServer[k])
        /\ \A k \in At(toClient, FileRequests, Nat) : ReverseRequestFits(n, st, toClient[k])
    BY DEF UploadGoesOn, ObtainedAlone, UploadStays
  <2>2. AtMostOne(toServer', ReverseKinds, Nat)
    <3>1. ASSUME NEW j \in At(toServer', ReverseKinds, Nat), NEW k \in At(toServer', ReverseKinds, Nat)
          PROVE  j = k
      <4>1. j + s = k + s
        BY <1>2, <2>1 DEF AtMostOne
      <4> QED BY <1>2, <4>1
    <3> QED BY <3>1 DEF AtMostOne
  <2>3. AtMostOne(toClient', FileRequests, Nat)
    <3>1. ASSUME NEW j \in At(toClient', FileRequests, Nat), NEW k \in At(toClient', FileRequests, Nat)
          PROVE  j = k
      <4>1. j + c = k + c
        BY <1>3, <2>1 DEF AtMostOne
      <4> QED BY <1>3, <4>1
    <3> QED BY <3>1 DEF AtMostOne
  <2>4. ASSUME NEW k \in At(toServer', ReverseKinds, Nat)
        PROVE  ReverseAnswerFits(n, st, toServer[k])'
    <3>1. ReverseAnswerFits(n, st, toServer[k + s]) /\ toServer'[k] = toServer[k + s]
      BY <1>2, <2>1
    <3> QED BY <3>1 DEF ReverseAnswerFits, ReverseFor, UploadStays
  <2>5. ASSUME NEW k \in At(toClient', FileRequests, Nat)
        PROVE  ReverseRequestFits(n, st, toClient[k])'
    <3>1. ReverseRequestFits(n, st, toClient[k + c]) /\ toClient'[k] = toClient[k + c]
      BY <1>3, <2>1
    <3> QED BY <3>1 DEF ReverseRequestFits, ReverseFor, UploadStays
  <2> QED BY <1>2, <1>3, <2>1, <2>2, <2>3, <2>4, <2>5 DEF UploadStays
<1>7. StoredWhole(n)'
  BY <1>4 DEF UploadGoesOn, StoredWhole, UploadStays
<1> QED BY <1>5, <1>6, <1>7 DEF UploadGoesOn

LEMMA FunctionIsSequence ==
  ASSUME NEW n \in Nat, NEW S, NEW f \in [1..n -> S]
  PROVE  f \in Seq(S) /\ Len(f) = n
OBVIOUS

(* A call is made.                                                          *)
LEMMA TransferKeepsTypes ==
  ASSUME FileTyped, NEW do \in {"upload", "download"}, NEW f \in FileNames, Transfer(do, f)
  PROVE  /\ FileTyped'
         /\ Len(transfers') = Len(transfers) + 1 /\ Len(transfers) + 1 \in Nat \ {0}
         /\ transfers'[Len(transfers) + 1] =
              [do |-> do, file |-> f, phase |-> "busy", got |-> <<>>, frsm |-> 0,
               alone |-> ~ReverseUnderWay /\ \A k \in Uploads : ~Busy(k)]
         /\ \A n \in TransferNumbers :
              /\ n # Len(transfers) + 1 /\ n \in TransferNumbers'
              /\ transfers'[n] \in {transfers[n], [transfers[n] EXCEPT !.alone = @ /\ ~Busy(n)]}
         /\ TransferNumbers' = TransferNumbers \cup {Len(transfers) + 1}
         /\ truth'[Len(transfers) + 1] = NoFile
         /\ \A n \in TransferNumbers : truth'[n] = truth[n]
<1> DEFINE n == Len(transfers) + 1
           fresh == [do |-> do, file |-> f, phase |-> "busy", got |-> <<>>, frsm |-> 0,
                     alone |-> ~ReverseUnderWay /\ \A k \in Uploads : ~Busy(k)]
           anded == [k \in TransferNumbers |-> [transfers[k] EXCEPT !.alone = @ /\ ~Busy(k)]]
           others == IF do = "upload" THEN anded ELSE transfers
           asking == Request(IF do = "upload" THEN "obtain" ELSE "open", n, 0)
<1>1. /\ transfers \in Seq(TransferRecord) /\ Len(transfers) \in Nat
      /\ TransferNumbers = 1..Len(transfers)
      /\ \A k \in TransferNumbers : transfers[k] \in TransferRecord
  BY DEF FileTyped, TransferNumbers
<1>2. fresh \in TransferRecord
  <2>1. (~ReverseUnderWay /\ \A k \in Uploads : ~Busy(k)) \in BOOLEAN
    OBVIOUS
  <2>2. <<>> \in FileData
    BY DEF FileData
  <2> QED BY <2>1, <2>2 DEF TransferRecord
<1>3. \A k \in TransferNumbers :
        /\ anded[k] = [transfers[k] EXCEPT !.alone = @ /\ ~Busy(k)]
        /\ anded[k] \in TransferRecord /\ anded[k].do = transfers[k].do
  <2>1. ASSUME NEW k \in TransferNumbers
        PROVE  /\ [transfers[k] EXCEPT !.alone = @ /\ ~Busy(k)] \in TransferRecord
               /\ [transfers[k] EXCEPT !.alone = @ /\ ~Busy(k)].do = transfers[k].do
    <3>1. (transfers[k].alone /\ ~Busy(k)) \in BOOLEAN
      OBVIOUS
    <3>2. transfers[k] \in TransferRecord
      BY <1>1
    <3> QED BY <3>1, <3>2 DEF TransferRecord
  <2> QED BY <2>1
<1>4. /\ others \in Seq(TransferRecord) /\ Len(others) = Len(transfers)
      /\ \A k \in TransferNumbers :
           /\ others[k] \in {transfers[k], [transfers[k] EXCEPT !.alone = @ /\ ~Busy(k)]}
           /\ others[k].do = transfers[k].do
  <2>1. CASE do = "upload"
    <3>1. anded \in [1..Len(transfers) -> TransferRecord]
      BY <1>1, <1>3
    <3>2. anded \in Seq(TransferRecord) /\ Len(anded) = Len(transfers)
      <4> QED BY <1>1, <3>1, FunctionIsSequence
    <3> QED BY <1>1, <1>3, <2>1, <3>2
  <2>2. CASE do # "upload"
    BY <1>1, <2>2
  <2> QED BY <2>1, <2>2
<1>5. /\ transfers' = Append(others, fresh) /\ truth' = Append(truth, NoFile)
      /\ offered' = (IF do = "upload" THEN offered \cup {n} ELSE offered)
      /\ toServer' = Append(toServer, asking)
      /\ UNCHANGED <<filestore, removals, openFiles, obtain, reverseReads, toClient>>
  BY DEF Transfer
<1> HIDE DEF others, anded, fresh
<1>6. /\ transfers' \in Seq(TransferRecord) /\ Len(transfers') = n /\ n \in Nat \ {0}
      /\ transfers'[n] = fresh /\ \A k \in TransferNumbers : transfers'[k] = others[k]
  <2>1. /\ transfers' \in Seq(TransferRecord) /\ Len(transfers') = Len(others) + 1
        /\ \A i \in 1..Len(others) : transfers'[i] = others[i]
        /\ transfers'[Len(others) + 1] = fresh
    BY <1>2, <1>4, <1>5, AppendProperties
  <2> QED BY <1>1, <1>4, <2>1
<1>7. /\ truth' \in Seq(FileData) /\ Len(truth') = n /\ truth'[n] = NoFile
      /\ \A k \in TransferNumbers : truth'[k] = truth[k]
  <2>1. truth \in Seq(FileData) /\ Len(truth) = Len(transfers)
    BY DEF FileTyped
  <2>2. /\ truth' \in Seq(FileData) /\ Len(truth') = Len(truth) + 1
        /\ \A i \in 1..Len(truth) : truth'[i] = truth[i]
        /\ truth'[Len(truth) + 1] = NoFile
    BY <1>5, <2>1, NoFileIsData, AppendProperties
  <2> QED BY <1>1, <2>1, <2>2
<1>8. TransferNumbers' = TransferNumbers \cup {n}
  BY <1>1, <1>6 DEF TransferNumbers
<1>9. /\ TransferNumbers \subseteq TransferNumbers' /\ Downloads \subseteq Downloads'
      /\ Uploads \subseteq Uploads' /\ toServer \in Seq(ServerMessages')
      /\ toClient \in Seq(ClientMessages')
  BY <1>1, <1>4, <1>6, TransfersGrow
<1>10. IF do = "upload" THEN n \in Uploads' ELSE n \in Downloads'
  BY <1>6, <1>8 DEF Uploads, Downloads, fresh
<1>11. asking \in ServerMessages'
  BY <1>10 DEF ServerMessages
<1>12. toServer' \in Seq(ServerMessages')
  BY <1>5, <1>9, <1>11, AppendProperties
<1>13. /\ offered' \subseteq Uploads'
       /\ obtain' \subseteq [n : Uploads', frsm : Nat, data : FileData]
  <2>1. offered \subseteq Uploads /\ obtain \subseteq [n : Uploads, frsm : Nat, data : FileData]
    BY DEF FileTyped
  <2> QED BY <1>5, <1>9, <1>10, <2>1
<1>14. FileTyped'
  <2>1. openFiles' = openFiles /\ reverseReads' = reverseReads
    BY <1>5
  <2>2. DOMAIN openFiles' \subseteq TransferNumbers'
    BY <1>5, <1>9 DEF FileTyped
  <2> QED BY <1>5, <1>6, <1>7, <1>9, <1>12, <1>13, <2>1, <2>2 DEF FileTyped
<1> QED BY <1>1, <1>4, <1>6, <1>7, <1>8, <1>14 DEF fresh

LEMMA TransferKeeps ==
  ASSUME FileIInv, NEW do \in {"upload", "download"}, NEW f \in FileNames, Transfer(do, f)
  PROVE  FileIInv'
<1> DEFINE new == Len(transfers) + 1
           asking == Request(IF do = "upload" THEN "obtain" ELSE "open", new, 0)
<1>1. /\ FileTyped /\ FileTyped' /\ new \in Nat \ {0}
      /\ transfers'[new] =
           [do |-> do, file |-> f, phase |-> "busy", got |-> <<>>, frsm |-> 0,
            alone |-> ~ReverseUnderWay /\ \A k \in Uploads : ~Busy(k)]
      /\ TransferNumbers' = TransferNumbers \cup {new} /\ new \notin TransferNumbers
      /\ truth'[new] = NoFile
      /\ TransferNumbers \subseteq Nat \ {0}
  <2>1. FileTyped
    BY DEF FileIInv
  <2>2. TransferNumbers \subseteq Nat \ {0}
    BY <2>1 DEF FileTyped, TransferNumbers
  <2> QED BY <2>1, <2>2, TransferKeepsTypes
<1>2. ASSUME NEW n \in TransferNumbers
      PROVE  /\ transfers'[n].do = transfers[n].do /\ transfers'[n].got = transfers[n].got
             /\ transfers'[n].frsm = transfers[n].frsm /\ transfers'[n].phase = transfers[n].phase
             /\ transfers'[n].alone => transfers[n].alone
             /\ truth'[n] = truth[n]
  <2>1. transfers[n] \in TransferRecord
    BY <1>1 DEF FileTyped, TransferNumbers
  <2>2. /\ transfers'[n] \in {transfers[n], [transfers[n] EXCEPT !.alone = @ /\ ~Busy(n)]}
        /\ truth'[n] = truth[n]
    BY <1>1, TransferKeepsTypes
  <2> QED BY <2>1, <2>2 DEF TransferRecord
<1>3. /\ toServer' = toServer \o <<asking>> /\ toServer \in Seq(ServerMessages')
      /\ asking \in ServerMessages'
      /\ asking.kind = (IF do = "upload" THEN "obtain" ELSE "open") /\ asking.n = new
  <2>1. new \in TransferNumbers' /\ (IF do = "upload" THEN new \in Uploads' ELSE new \in Downloads')
    BY <1>1 DEF Uploads, Downloads
  <2>2. asking \in ServerMessages'
    BY <2>1 DEF ServerMessages
  <2>3. toServer \in Seq(ServerMessages')
    <3>1. transfers' \in Seq(TransferRecord) /\ Len(transfers') = Len(transfers) + 1
      BY <1>1, TransferKeepsTypes DEF FileTyped
    <3>2. Len(transfers') >= Len(transfers)
      BY <1>1, <3>1 DEF FileTyped
    <3> QED BY <1>1, <1>2, <3>1, <3>2, TransfersGrow
  <2>4. toServer' = Append(toServer, asking)
    BY DEF Transfer
  <2> QED BY <2>2, <2>3, <2>4, AppendIsConcat DEF Request
<1>4. UNCHANGED <<openFiles, obtain, reverseReads, toClient>>
  BY DEF Transfer
<1>5. \A kinds, numbers : Fewer(toClient', toClient, kinds, numbers)
  BY <1>1, <1>4, SameMessages DEF FileTyped
<1> HIDE DEF asking, new
<1>6. ASSUME NEW n \in Downloads' PROVE DownloadGoesOn(n)'
  <2>1. CASE n \in TransferNumbers
    <3>1. n \in Downloads /\ DownloadGoesOn(n)
      BY <1>2, <2>1 DEF Downloads, FileIInv
    <3>2. Fewer(toServer', toServer, FileRequests, {n})
      BY <1>1, <1>3, <2>1, SentElse
    <3> QED BY <1>1, <1>2, <1>4, <1>5, <2>1, <3>1, <3>2, DownloadsStay DEF DownloadStays
  <2>2. CASE n = new
    <3>1. do = "download" /\ transfers'[n].got = <<>> /\ transfers'[n].phase = "busy"
      BY <1>1, <2>2 DEF Downloads
    <3>2. At(toServer, FileRequests, {n}) = {}
      <4>1. ASSUME NEW k \in At(toServer, FileRequests, {n}) PROVE FALSE
        <5>1. toServer[k] \in ServerMessages /\ toServer[k].kind \in FileRequests /\ toServer[k].n = n
          BY <1>1, <4>1 DEF At, FileTyped
        <5>2. n \in Downloads
          BY <1>1, <5>1, ServerMessageKinds
        <5> QED BY <1>1, <2>2, <5>2 DEF Downloads
      <4> QED BY <4>1
    <3>3. At(toClient', FileAnswers, {n}) = {}
      <4>1. ASSUME NEW k \in At(toClient, FileAnswers, {n}) PROVE FALSE
        <5>1. toClient[k] \in ClientMessages /\ toClient[k].kind \in FileAnswers /\ toClient[k].n = n
          BY <1>1, <4>1 DEF At, FileTyped
        <5>2. n \in TransferNumbers
          BY <1>1, <5>1, ClientMessageKinds DEF Downloads, FileAnswers
        <5> QED BY <1>1, <2>2, <5>2
      <4>2. toClient' = toClient
        BY <1>4
      <4> QED BY <4>1, <4>2
    <3>4. /\ At(toServer', FileRequests, {n}) = {Len(toServer) + 1}
          /\ toServer'[Len(toServer) + 1] = asking
      <4>1. asking.kind \in FileRequests /\ asking.n \in {n}
        BY <1>3, <2>2, <3>1 DEF FileRequests
      <4>2. At(toServer', FileRequests, {n}) = At(toServer, FileRequests, {n}) \cup {Len(toServer) + 1}
        BY <1>3, <4>1, SentToo
      <4>3. toServer'[Len(toServer) + 1] = asking
        BY <1>3, SentAtTheEnd
      <4> QED BY <3>2, <4>2, <4>3
    <3>5. \A k \in At(toServer', FileRequests, {n}) : RequestFits(n, toServer[k])'
      BY <1>3, <3>1, <3>4 DEF RequestFits
    <3> QED BY <3>1, <3>3, <3>4, <3>5 DEF DownloadGoesOn, AtMostOne
  <2> QED BY <1>1, <2>1, <2>2 DEF Downloads
<1>7. ASSUME NEW n \in Uploads', transfers'[n].alone PROVE UploadGoesOn(n)'
  <2>0. n \in Nat
    BY <1>1 DEF Uploads
  <2>3. Fewer(toServer', toServer, ReverseKinds, Nat)
    BY <1>3, SentElse DEF ReverseKinds
  <2>1. CASE n \in TransferNumbers
    <3>1. n \in Uploads /\ UploadGoesOn(n)
      BY <1>2, <1>7, <2>1 DEF Uploads, FileIInv
    <3>2. CASE do = "download"
      <4>1. Fewer(toServer', toServer, {"obtain"}, Nat)
        BY <1>3, <3>2, SentElse
      <4> QED BY <1>1, <1>2, <1>4, <1>5, <2>0, <2>1, <2>3, <3>1, <4>1, UploadsStay DEF UploadStays
    <3>3. CASE do = "upload"
      <4>1. /\ At(toServer', {"obtain"}, Nat) = At(toServer, {"obtain"}, Nat) \cup {Len(toServer) + 1}
            /\ At(toServer', {"obtain"}, {n}) = At(toServer, {"obtain"}, {n})
            /\ At(toServer', ReverseKinds, Nat) = At(toServer, ReverseKinds, Nat)
            /\ \A k \in DOMAIN toServer : toServer'[k] = toServer[k]
        <5>1. At(toServer', {"obtain"}, Nat) = At(toServer, {"obtain"}, Nat) \cup {Len(toServer) + 1}
          BY <1>1, <1>3, <3>3, SentToo
        <5>2. At(toServer', {"obtain"}, {n}) = At(toServer, {"obtain"}, {n})
          BY <1>1, <1>3, <2>1, SentElse
        <5>3. At(toServer', ReverseKinds, Nat) = At(toServer, ReverseKinds, Nat)
          BY <1>3, <3>3, SentElse DEF ReverseKinds
        <5>4. \A k \in DOMAIN toServer : toServer'[k] = toServer[k]
          BY <1>3, SentAtTheEnd
        <5> QED BY <5>1, <5>2, <5>3, <5>4
      <4>2. \A k \in At(toServer, {"obtain"}, {n}) : k <= Len(toServer) + 1
        BY <1>3 DEF At
      <4>3. AskedFirst(n)'
        BY <1>2, <1>4, <2>1, <3>1, <4>1, <4>2 DEF AskedFirst, UploadGoesOn
      <4>4. ObtainedAlone(n)'
        <5>1. At(toServer, ReverseKinds, Nat) \subseteq DOMAIN toServer
          BY DEF At
        <5>2. ASSUME NEW st \in obtain', st.n = n
              PROVE  /\ truth'[n] = NoFile /\ (st.frsm = 0 => st.data = <<>>)
                     /\ AtMostOne(toServer', ReverseKinds, Nat)
                     /\ AtMostOne(toClient', FileRequests, Nat)
                     /\ At(toServer', ReverseKinds, Nat) = {} \/ At(toClient', FileRequests, Nat) = {}
                     /\ \A k \in At(toServer', ReverseKinds, Nat) :
                          ReverseAnswerFits(n, st, toServer[k])'
                     /\ \A k \in At(toClient', FileRequests, Nat) :
                          ReverseRequestFits(n, st, toClient[k])'
          <6>1. ObtainedAlone(n) /\ st \in obtain
            BY <1>4, <3>1 DEF UploadGoesOn
          <6>2. ASSUME NEW k \in At(toServer', ReverseKinds, Nat)
                PROVE  ReverseAnswerFits(n, st, toServer[k])'
            <7>1. toServer'[k] = toServer[k] /\ ReverseAnswerFits(n, st, toServer[k])
              BY <4>1, <5>1, <5>2, <6>1 DEF ObtainedAlone
            <7> QED BY <1>4, <7>1 DEF ReverseAnswerFits, ReverseFor
          <6>3. ASSUME NEW k \in At(toClient', FileRequests, Nat)
                PROVE  ReverseRequestFits(n, st, toClient[k])'
            <7>1. toClient'[k] = toClient[k] /\ ReverseRequestFits(n, st, toClient[k])
              BY <1>4, <5>2, <6>1 DEF ObtainedAlone
            <7> QED BY <1>4, <7>1 DEF ReverseRequestFits, ReverseFor
          <6> QED BY <1>2, <1>4, <2>1, <4>1, <5>2, <6>1, <6>2, <6>3 DEF ObtainedAlone, AtMostOne
        <5> QED BY <5>2 DEF ObtainedAlone
      <4>5. StoredWhole(n)'
        BY <1>2, <1>4, <2>1, <3>1 DEF UploadGoesOn, StoredWhole
      <4> QED BY <4>3, <4>4, <4>5 DEF UploadGoesOn
    <3> QED BY <3>2, <3>3
  <2>2. CASE n = new
    <3>1. do = "upload" /\ transfers'[n].phase = "busy" /\ ~ReverseUnderWay
      <4>1. /\ transfers'[new].do = do /\ transfers'[new].phase = "busy"
            /\ transfers'[new].alone = (~ReverseUnderWay /\ \A k \in Uploads : ~Busy(k))
        BY <1>1
      <4>2. transfers'[n].do = "upload"
        BY DEF Uploads
      <4> QED BY <1>7, <2>2, <4>1, <4>2
    <3>2. /\ obtain = {} /\ At(toServer, ReverseKinds, Nat) = {}
          /\ At(toServer, {"obtain"}, Nat) = {} /\ At(toClient, FileRequests, Nat) = {}
      BY <3>1 DEF ReverseUnderWay, At, FileRequests
    <3>3. /\ At(toServer', {"obtain"}, Nat) = {Len(toServer) + 1}
          /\ At(toServer', ReverseKinds, Nat) = {}
          /\ Len(toServer) + 1 \in Nat
      <4>1. At(toServer', {"obtain"}, Nat) = At(toServer, {"obtain"}, Nat) \cup {Len(toServer) + 1}
        BY <1>1, <1>3, <3>1, SentToo
      <4>2. At(toServer', ReverseKinds, Nat) = At(toServer, ReverseKinds, Nat)
        BY <1>3, <3>1, SentElse DEF ReverseKinds
      <4> QED BY <1>3, <3>2, <4>1, <4>2
    <3>4. At(toServer', {"obtain"}, {n}) \subseteq At(toServer', {"obtain"}, Nat)
      BY <2>0, AtOneCall
    <3>5. At(toClient, {"obtained"}, {n}) = {}
      <4>1. ASSUME NEW k \in At(toClient, {"obtained"}, {n}) PROVE FALSE
        <5>1. toClient[k] \in ClientMessages /\ toClient[k].kind = "obtained" /\ toClient[k].n = n
          BY <1>1, <4>1 DEF At, FileTyped
        <5>2. n \in Uploads
          BY <1>1, <5>1, ClientMessageKinds
        <5> QED BY <1>1, <2>2, <5>2 DEF Uploads
      <4> QED BY <4>1
    <3>6. AskedFirst(n)'
      BY <1>1, <1>4, <2>2, <3>2, <3>3, <3>4 DEF AskedFirst
    <3>7. ObtainedAlone(n)'
      BY <1>4, <3>2 DEF ObtainedAlone
    <3>8. StoredWhole(n)'
      BY <1>1, <1>4, <2>2, <3>1, <3>5 DEF StoredWhole
    <3> QED BY <3>6, <3>7, <3>8 DEF UploadGoesOn
  <2> QED BY <1>1, <2>1, <2>2 DEF Uploads
<1> QED BY <1>1, <1>6, <1>7 DEF FileIInv

LEMMA GiveUpKeeps ==
  ASSUME FileIInv, NEW n \in TransferNumbers, GiveUpTransfer(n)
  PROVE  FileIInv'
<1>1. FileTyped /\ transfers \in Seq(TransferRecord) /\ transfers[n] \in TransferRecord
  BY DEF FileIInv, FileTyped, TransferNumbers
<1>2. /\ transfers' = [transfers EXCEPT ![n].phase = "failed"]
      /\ offered' = offered \ {n}
      /\ UNCHANGED <<filestore, removals, openFiles, obtain, reverseReads, toServer, toClient, truth>>
  BY DEF GiveUpTransfer
<1>3. PICK t \in TransferRecord : /\ transfers' = [transfers EXCEPT ![n] = t]
        /\ t.do = transfers[n].do /\ t.got = transfers[n].got /\ t.frsm = transfers[n].frsm
        /\ t.alone = transfers[n].alone /\ t.phase = "failed"
  <2>1. [transfers[n] EXCEPT !.phase = "failed"] \in TransferRecord
    BY <1>1 DEF TransferRecord
  <2> QED BY <1>1, <1>2, <2>1 DEF TransferRecord
<1>4. /\ transfers' \in Seq(TransferRecord) /\ Len(transfers') = Len(transfers)
      /\ transfers'[n] = t /\ \A k \in TransferNumbers : k # n => transfers'[k] = transfers[k]
      /\ TransferNumbers' = TransferNumbers /\ TransferNumbers \subseteq Nat \ {0}
      /\ Downloads' = Downloads /\ Uploads' = Uploads
      /\ Downloads \subseteq TransferNumbers /\ Uploads \subseteq TransferNumbers
      /\ ServerMessages' = ServerMessages /\ ClientMessages' = ClientMessages
  BY <1>1, <1>3, CallChanges
<1>5. FileTyped'
  BY <1>1, <1>2, <1>4 DEF FileTyped
<1>6. \A kinds, numbers : Fewer(toClient', toClient, kinds, numbers) /\ Fewer(toServer', toServer, kinds, numbers)
  BY <1>1, <1>2, SameMessages DEF FileTyped
<1>7. ASSUME NEW k \in TransferNumbers
      PROVE  /\ transfers'[k].got = transfers[k].got /\ transfers'[k].frsm = transfers[k].frsm
             /\ transfers'[k].alone = transfers[k].alone
             /\ transfers'[k].phase \in {transfers[k].phase, "failed"}
  BY <1>3, <1>4
<1>8. ASSUME NEW k \in Downloads' PROVE DownloadGoesOn(k)'
  <2>1. k \in Downloads /\ k \in TransferNumbers /\ DownloadGoesOn(k)
    BY <1>4 DEF FileIInv
  <2> QED BY <1>1, <1>2, <1>6, <1>7, <2>1, DownloadsStay DEF DownloadStays
<1>9. ASSUME NEW k \in Uploads', transfers'[k].alone PROVE UploadGoesOn(k)'
  <2>1. k \in Uploads /\ k \in TransferNumbers /\ UploadGoesOn(k) /\ k \in Nat
    BY <1>4, <1>7, <1>9 DEF FileIInv
  <2> QED BY <1>1, <1>2, <1>6, <1>7, <2>1, UploadsStay DEF UploadStays
<1> QED BY <1>5, <1>8, <1>9 DEF FileIInv

(* The files of the provider are read when they are opened and never again. *)
LEMMA RemoveFileKeeps ==
  ASSUME FileIInv, NEW f \in FileNames, RemoveFile(f)
  PROVE  FileIInv'
<1>1. FileTyped
  BY DEF FileIInv
<1>2. UNCHANGED <<openFiles, obtain, offered, reverseReads, toServer, toClient, transfers, truth>>
  BY DEF RemoveFile
<1>3. filestore' \in [FileNames -> FileData]
  <2>1. filestore \in [FileNames -> FileData]
    BY <1>1 DEF FileTyped
  <2>2. CASE filestore' = [filestore EXCEPT ![f] = NoFile]
    BY <2>1, <2>2, NoFileIsData
  <2>3. ASSUME NEW g \in FileNames, filestore' = Renamed(f, g) PROVE filestore' \in [FileNames -> FileData]
    BY <2>1, <2>3, NoFileIsData DEF Renamed
  <2> QED BY <2>2, <2>3 DEF RemoveFile
<1>4. /\ TransferNumbers' = TransferNumbers /\ TransferNumbers \subseteq Nat \ {0}
      /\ Downloads' = Downloads /\ Uploads' = Uploads
      /\ Downloads \subseteq TransferNumbers /\ Uploads \subseteq TransferNumbers
      /\ ServerMessages' = ServerMessages /\ ClientMessages' = ClientMessages
  BY <1>1, <1>2, SameTransfers
<1>5. FileTyped'
  BY <1>1, <1>2, <1>3, <1>4 DEF FileTyped
<1>6. \A kinds, numbers : Fewer(toClient', toClient, kinds, numbers) /\ Fewer(toServer', toServer, kinds, numbers)
  BY <1>1, <1>2, SameMessages DEF FileTyped
<1>7. ASSUME NEW k \in Downloads' PROVE DownloadGoesOn(k)'
  BY <1>1, <1>2, <1>4, <1>6, DownloadsStay DEF DownloadStays, FileIInv
<1>8. ASSUME NEW k \in Uploads', transfers'[k].alone PROVE UploadGoesOn(k)'
  BY <1>1, <1>2, <1>4, <1>6, <1>8, UploadsStay DEF UploadStays, FileIInv
<1> QED BY <1>5, <1>7, <1>8 DEF FileIInv

(* A frsmID that is not in use.                                             *)
LEMMA MaxFrsmIsHighest ==
  ASSUME FileTyped
  PROVE  MaxFrsm \in Nat /\ \A k \in DOMAIN reverseReads : k <= MaxFrsm
<1> DEFINE Above == {b \in Nat : \A k \in DOMAIN reverseReads : k <= b}
<1>1. DOMAIN reverseReads \subseteq Nat \ {0} /\ Above # {}
  BY DEF FileTyped
<1>2. PICK x \in Above : \A y \in Above : x <= y
  <2>1. Above \in SUBSET Nat
    OBVIOUS
  <2> HIDE DEF Above
  <2> QED BY <1>1, <2>1, LeastNumber
<1>3. x \in {0} \cup DOMAIN reverseReads
  <2>1. ASSUME x # 0, x \notin DOMAIN reverseReads PROVE FALSE
    <3>1. x \in Nat /\ x - 1 \in Nat /\ ~(x <= x - 1)
      BY <1>2, <2>1
    <3>2. \A k \in DOMAIN reverseReads : k <= x - 1
      BY <1>1, <1>2, <2>1
    <3>3. x - 1 \in Above
      BY <3>1, <3>2
    <3> QED BY <1>2, <3>1, <3>3
  <2> QED BY <2>1
<1>4. \E m \in {0} \cup DOMAIN reverseReads : \A k \in DOMAIN reverseReads : k <= m
  BY <1>2, <1>3
<1>5. MaxFrsm \in {0} \cup DOMAIN reverseReads /\ \A k \in DOMAIN reverseReads : k <= MaxFrsm
  BY <1>4 DEF MaxFrsm
<1> QED BY <1>1, <1>5

(* A request carries the number of a transfer, or 0 when it names a frsm.   *)
LEMMA RequestsAreNumbered ==
  ASSUME FileTyped, NEW m \in ClientMessages, m.kind \in FileRequests
  PROVE  m.n \in Nat
<1>1. CASE m.kind = "open"
  <2>1. m.n \in Uploads
    BY <1>1, ClientMessageKinds
  <2> QED BY <2>1 DEF Uploads, TransferNumbers, FileTyped
<1>2. CASE m.kind \in {"read", "close"}
  <2>1. m.n = 0
    BY <1>2, ClientMessageKinds
  <2> QED BY <2>1
<1> QED BY <1>1, <1>2 DEF FileRequests

(* The client answers the one request of a reverse read, or does not.       *)
LEMMA ReverseTurn ==
  ASSUME FileTyped, NEW n \in Nat, UploadGoesOn(n),
         toClient # <<>>, toClient' = Tail(toClient), Head(toClient).kind \in FileRequests,
         UNCHANGED <<transfers, truth, obtain>>,
         NEW sent \in ServerMessages, sent.kind \in ReverseKinds,
         toServer' \in {toServer, toServer \o <<sent>>},
         \A st \in obtain :
           st.n = n /\ (st.frsm = 0 => st.data = <<>>) /\ ReverseRequestFits(n, st, Head(toClient))
           => toServer' = toServer \/ ReverseAnswerFits(n, st, sent)'
  PROVE  UploadGoesOn(n)'
<1>1. toServer \in Seq(ServerMessages) /\ toClient \in Seq(ClientMessages)
  BY DEF FileTyped
<1>2. 1 \in At(toClient, FileRequests, Nat)
  <2>1. Head(toClient) \in ClientMessages
    BY <1>1, HeadTailProperties
  <2>2. Head(toClient).n \in Nat
    BY <2>1, RequestsAreNumbered
  <2> QED BY <1>1, <2>2, TakenMessage
<1>3. /\ Fewer(toClient', toClient, {"obtained"}, {n})
      /\ AtMostOne(toClient, FileRequests, Nat) => At(toClient', FileRequests, Nat) = {}
      /\ Head(toClient) = toClient[1]
  BY <1>1, <1>2, TakenMessage
<1>4. sent.n = 0 /\ sent.kind \notin {"obtain"}
  BY ServerMessageKinds DEF ReverseKinds
<1>5. At(toServer', {"obtain"}, {n}) = At(toServer, {"obtain"}, {n})
  <2>1. CASE toServer' = toServer
    BY <2>1
  <2>2. CASE toServer' = toServer \o <<sent>>
    <3>1. At(toServer \o <<sent>>, {"obtain"}, {n}) = At(toServer, {"obtain"}, {n})
      BY <1>1, <1>4, SentElse
    <3> QED BY <2>2, <3>1
  <2> QED BY <2>1, <2>2
<1>6. AskedFirst(n)'
  <2>1. At(toServer, {"obtain"}, {n}) = {}
    BY <1>2 DEF UploadGoesOn, AskedFirst
  <2> QED BY <1>5, <2>1 DEF AskedFirst
<1>7. ObtainedAlone(n)'
  <2> SUFFICES ASSUME NEW st \in obtain', st.n = n
               PROVE  /\ truth'[n] = NoFile /\ (st.frsm = 0 => st.data = <<>>)
                      /\ AtMostOne(toServer', ReverseKinds, Nat)
                      /\ At(toClient', FileRequests, Nat) = {}
                      /\ \A k \in At(toServer', ReverseKinds, Nat) :
                           ReverseAnswerFits(n, st, toServer[k])'
    BY DEF ObtainedAlone, AtMostOne
  <2>1. /\ truth[n] = NoFile /\ (st.frsm = 0 => st.data = <<>>)
        /\ AtMostOne(toClient, FileRequests, Nat) /\ At(toServer, ReverseKinds, Nat) = {}
        /\ ReverseRequestFits(n, st, Head(toClient))
    BY <1>2, <1>3 DEF UploadGoesOn, ObtainedAlone
  <2>2. CASE toServer' = toServer
    BY <1>3, <2>1, <2>2 DEF AtMostOne
  <2>3. CASE toServer' = toServer \o <<sent>> /\ toServer' # toServer
    <3>1. At(toServer', ReverseKinds, Nat) = At(toServer, ReverseKinds, Nat) \cup {Len(toServer) + 1}
      <4>1. sent.n \in Nat
        BY <1>4
      <4>2. At(toServer \o <<sent>>, ReverseKinds, Nat) = At(toServer, ReverseKinds, Nat) \cup {Len(toServer) + 1}
        BY <1>1, <4>1, SentToo
      <4> QED BY <2>3, <4>2
    <3>2. toServer'[Len(toServer) + 1] = sent
      BY <1>1, <2>3, SentAtTheEnd
    <3>3. ReverseAnswerFits(n, st, sent)'
      BY <2>1, <2>3
    <3>4. \A k \in At(toServer', ReverseKinds, Nat) : ReverseAnswerFits(n, st, toServer[k])'
      BY <2>1, <3>1, <3>2, <3>3 DEF ReverseAnswerFits, ReverseFor
    <3>5. AtMostOne(toServer', ReverseKinds, Nat)
      BY <2>1, <3>1 DEF AtMostOne
    <3> QED BY <1>3, <2>1, <3>4, <3>5
  <2> QED BY <2>2, <2>3
<1>8. StoredWhole(n)'
  BY <1>3 DEF UploadGoesOn, StoredWhole, Fewer
<1> QED BY <1>6, <1>7, <1>8 DEF UploadGoesOn

LEMMA ServeReverseKeeps ==
  ASSUME FileIInv, toClient # <<>>, toClient' = Tail(toClient),
         Head(toClient).kind \in FileRequests, ServeReverse(Head(toClient)),
         UNCHANGED <<filestore, removals, openFiles, obtain, truth>>
  PROVE  FileIInv'
<1>1. FileTyped /\ toServer \in Seq(ServerMessages) /\ toClient \in Seq(ClientMessages)
  BY DEF FileIInv, FileTyped
<1>2. UNCHANGED <<transfers, offered>>
  BY DEF ServeReverse
<1>3. /\ TransferNumbers' = TransferNumbers /\ TransferNumbers \subseteq Nat \ {0}
      /\ Downloads' = Downloads /\ Uploads' = Uploads
      /\ Downloads \subseteq TransferNumbers /\ Uploads \subseteq TransferNumbers
      /\ ServerMessages' = ServerMessages /\ ClientMessages' = ClientMessages
  BY <1>1, <1>2, SameTransfers
<1>4. PICK m \in ClientMessages : m = Head(toClient)
  BY <1>1, HeadTailProperties
<1>5. /\ m.kind \in FileRequests /\ ServeReverse(m)
      /\ m.kind = "open" => m.n \in Uploads /\ m.n \in Nat
      /\ m.kind \in {"read", "close"} => m.frsm \in Nat
  BY <1>1, <1>3, <1>4, ClientMessageKinds
<1>6. /\ reverseReads \in [DOMAIN reverseReads -> OpenFile] /\ DOMAIN reverseReads \subseteq Nat \ {0}
      /\ \E bound \in Nat : \A frsm \in DOMAIN reverseReads : frsm <= bound
  BY <1>1 DEF FileTyped
<1> DEFINE ReadsTyped == /\ reverseReads' \in [DOMAIN reverseReads' -> OpenFile]
                         /\ DOMAIN reverseReads' \subseteq Nat \ {0}
                         /\ \E bound \in Nat : \A frsm \in DOMAIN reverseReads' : frsm <= bound
           Fits(n, sent) == \A st \in obtain :
             st.n = n /\ (st.frsm = 0 => st.data = <<>>) /\ ReverseRequestFits(n, st, m)
             => toServer' = toServer \/ ReverseAnswerFits(n, st, sent)'
<1>7. PICK sent \in ServerMessages :
        /\ sent.kind \in ReverseKinds /\ toServer' \in {toServer, toServer \o <<sent>>}
        /\ ReadsTyped
        /\ \A n \in Nat : Fits(n, sent)
  <2>1. CASE m.kind = "open" /\ m.n \in offered
    <3>1. /\ reverseReads' = WithFrsm(reverseReads, MaxFrsm + 1, [data |-> Contents(m.n), pos |-> 0])
          /\ toServer' = toServer \o <<Opened(0, MaxFrsm + 1)>>
      BY <1>5, <2>1 DEF ServeReverse, Answers
    <3>2. PICK frsm \in Nat \ {0} : frsm = MaxFrsm + 1 /\ \A k \in DOMAIN reverseReads : k <= frsm
      BY <1>1, <1>6, MaxFrsmIsHighest
    <3>3. PICK file \in OpenFile : file = [data |-> Contents(m.n), pos |-> 0]
      BY <1>5, <2>1, ContentsAreData
    <3>4. /\ DOMAIN reverseReads' = DOMAIN reverseReads \cup {frsm} /\ reverseReads'[frsm] = file
          /\ reverseReads' = [k \in DOMAIN reverseReads \cup {frsm} |-> IF k = frsm THEN file ELSE reverseReads[k]]
      BY <3>1, <3>2, <3>3 DEF WithFrsm
    <3>5. ReadsTyped
      <4>1. reverseReads' \in [DOMAIN reverseReads' -> OpenFile]
        BY <1>6, <3>4
      <4>2. DOMAIN reverseReads' \subseteq Nat \ {0} /\ \A k \in DOMAIN reverseReads' : k <= frsm
        BY <1>6, <3>2, <3>4
      <4> QED BY <3>2, <4>1, <4>2
    <3>6. /\ Opened(0, frsm) \in ServerMessages /\ Opened(0, frsm).kind = "opened"
          /\ Opened(0, frsm).frsm = frsm
      BY DEF ServerMessages, Opened
    <3>7. ASSUME NEW n \in Nat, NEW st \in obtain, st.n = n, ReverseRequestFits(n, st, m)
          PROVE  ReverseAnswerFits(n, st, Opened(0, frsm))'
      <4>1. st.frsm = 0 /\ m.n = n
        BY <2>1, <3>7 DEF ReverseRequestFits
      <4>2. ReverseFor(n, frsm)' /\ reverseReads'[frsm].pos = 0
        BY <3>3, <3>4, <4>1 DEF ReverseFor
      <4> QED BY <3>6, <4>1, <4>2 DEF ReverseAnswerFits
    <3> QED BY <3>1, <3>2, <3>5, <3>6, <3>7 DEF ReverseKinds
  <2>2. CASE m.kind = "read" /\ m.frsm \in DOMAIN reverseReads
    <3> DEFINE file == reverseReads[m.frsm]
    <3>1. /\ reverseReads' = [reverseReads EXCEPT ![m.frsm] = Advanced(file)]
          /\ toServer' = toServer \o <<Chunk(0, NextBlock(file), MoreFollows(file))>>
      BY <1>5, <2>2 DEF ServeReverse, Answers
    <3>2. file \in OpenFile
      BY <1>6, <2>2
    <3>3. /\ Advanced(file) \in OpenFile /\ Advanced(file).data = file.data
          /\ NextBlock(file) \in FileData /\ MoreFollows(file) \in BOOLEAN
          /\ ReadSoFar(file) \o NextBlock(file) = ReadSoFar(Advanced(file))
          /\ ~MoreFollows(file) => ReadSoFar(Advanced(file)) = file.data
      BY <3>2, ReadingOn
    <3>4. DOMAIN reverseReads' = DOMAIN reverseReads /\ reverseReads'[m.frsm] = Advanced(file)
      BY <1>6, <2>2, <3>1
    <3>5. ReadsTyped
      BY <1>6, <2>2, <3>1, <3>3, <3>4
    <3>6. PICK data \in FileData, more \in BOOLEAN : data = NextBlock(file) /\ more = MoreFollows(file)
      BY <3>3
    <3>7. /\ Chunk(0, data, more) \in ServerMessages /\ Chunk(0, data, more).kind = "chunk"
          /\ Chunk(0, data, more).data = data /\ Chunk(0, data, more).more = more
      BY DEF ServerMessages, Chunk
    <3>8. ASSUME NEW n \in Nat, NEW st \in obtain, st.n = n, ReverseRequestFits(n, st, m)
          PROVE  ReverseAnswerFits(n, st, Chunk(0, data, more))'
      <4>1. /\ st.frsm # 0 /\ m.frsm = st.frsm /\ file.data = Contents(n)
            /\ st.data = ReadSoFar(file)
        BY <2>2, <3>8 DEF ReverseRequestFits, ReverseFor
      <4>2. ReverseFor(n, st.frsm)'
        BY <2>2, <3>3, <3>4, <4>1 DEF ReverseFor
      <4>3. /\ st.data \o data = ReadSoFar(reverseReads'[st.frsm])
            /\ ~more => ReadSoFar(reverseReads'[st.frsm]) = Contents(n)
        BY <3>3, <3>4, <3>6, <4>1
      <4> QED BY <3>7, <4>1, <4>2, <4>3 DEF ReverseAnswerFits
    <3> QED BY <3>1, <3>5, <3>6, <3>7, <3>8 DEF ReverseKinds
  <2>3. CASE m.kind = "close"
    <3>1. /\ reverseReads' = WithoutFrsm(reverseReads, m.frsm)
          /\ toServer' = toServer \o <<Done("closed", 0)>>
      BY <1>5, <2>3 DEF ServeReverse, Answers
    <3>2. /\ DOMAIN reverseReads' = DOMAIN reverseReads \ {m.frsm}
          /\ reverseReads' = [k \in DOMAIN reverseReads \ {m.frsm} |-> reverseReads[k]]
      BY <3>1 DEF WithoutFrsm
    <3>3. ReadsTyped
      BY <1>6, <3>2
    <3>4. Done("closed", 0) \in ServerMessages /\ Done("closed", 0).kind = "closed"
      BY DEF ServerMessages, Done
    <3>5. ASSUME NEW n \in Nat, NEW st \in obtain, st.n = n, ReverseRequestFits(n, st, m) PROVE FALSE
      BY <2>3, <3>5 DEF ReverseRequestFits
    <3> QED BY <3>1, <3>3, <3>4, <3>5 DEF ReverseKinds
  <2>4. CASE ~(m.kind = "close") /\ ~(m.kind = "open" /\ m.n \in offered)
               /\ ~(m.kind = "read" /\ m.frsm \in DOMAIN reverseReads)
    <3>1. UNCHANGED <<reverseReads, toServer>>
      BY <1>5, <2>4 DEF ServeReverse, FileRequests
    <3>2. Done("closed", 0) \in ServerMessages /\ Done("closed", 0).kind = "closed"
      BY DEF ServerMessages, Done
    <3> QED BY <1>6, <3>1, <3>2 DEF ReverseKinds
  <2> QED BY <2>1, <2>2, <2>3, <2>4
<1> HIDE DEF Fits
<1>8. toServer' \in Seq(ServerMessages)
  <2>1. toServer \o <<sent>> \in Seq(ServerMessages)
    BY <1>1, SentAtTheEnd
  <2> QED BY <1>1, <1>7, <2>1
<1>9. toClient' \in Seq(ClientMessages)
  BY <1>1, HeadTailProperties
<1>10. FileTyped'
  BY <1>1, <1>2, <1>3, <1>7, <1>8, <1>9 DEF FileTyped
<1>11. ASSUME NEW n \in Downloads' PROVE DownloadGoesOn(n)'
  <2>1. n \in Downloads /\ DownloadGoesOn(n)
    BY <1>3 DEF FileIInv
  <2>2. Fewer(toClient', toClient, FileAnswers, {n})
    BY <1>1, TakenMessage
  <2>3. Fewer(toServer', toServer, FileRequests, {n})
    <3>1. sent.kind \notin FileRequests
      BY <1>7 DEF ReverseKinds, FileRequests
    <3>2. Fewer(toServer \o <<sent>>, toServer, FileRequests, {n})
      BY <1>1, <3>1, SentElse
    <3>3. Fewer(toServer, toServer, FileRequests, {n})
      BY <1>1, SameMessages
    <3>4. CASE toServer' = toServer
      BY <3>3, <3>4
    <3>5. CASE toServer' = toServer \o <<sent>>
      BY <3>2, <3>5
    <3> QED BY <1>7, <3>4, <3>5
  <2> QED BY <1>1, <1>2, <2>1, <2>2, <2>3, DownloadsStay DEF DownloadStays
<1>12. ASSUME NEW n \in Uploads', transfers'[n].alone PROVE UploadGoesOn(n)'
  <2>1. n \in Nat /\ UploadGoesOn(n)
    BY <1>2, <1>3, <1>12 DEF FileIInv
  <2>2. \A st \in obtain :
           st.n = n /\ (st.frsm = 0 => st.data = <<>>) /\ ReverseRequestFits(n, st, Head(toClient))
           => toServer' = toServer \/ ReverseAnswerFits(n, st, sent)'
    BY <1>4, <1>7, <2>1 DEF Fits
  <2> QED BY <1>1, <1>2, <1>7, <2>1, <2>2, ReverseTurn
<1> QED BY <1>10, <1>11, <1>12 DEF FileIInv

(* A call of the client goes on after its answer: the others stay.          *)
LEMMA CallGoesOnKeeps ==
  ASSUME FileIInv, toClient # <<>>, toClient' = Tail(toClient),
         UNCHANGED <<filestore, removals, openFiles, obtain, truth, reverseReads>>,
         NEW n \in TransferNumbers, NEW t \in TransferRecord,
         t.do = transfers[n].do, t.alone = transfers[n].alone,
         transfers' = [transfers EXCEPT ![n] = t], offered' \subseteq Uploads,
         \/ toServer' = toServer
         \/ \E sent \in ServerMessages :
              sent.kind \in FileRequests /\ sent.n = n /\ toServer' = toServer \o <<sent>>,
         n \in Uploads /\ transfers[n].alone =>
           t.phase \in {transfers[n].phase, "failed"} \/ truth[n] = Contents(n),
         n \in Downloads => DownloadGoesOn(n)'
  PROVE  FileIInv'
<1>1. FileTyped /\ toServer \in Seq(ServerMessages) /\ toClient \in Seq(ClientMessages)
  BY DEF FileIInv, FileTyped
<1>2. /\ transfers' \in Seq(TransferRecord) /\ Len(transfers') = Len(transfers)
      /\ transfers'[n] = t /\ \A k \in TransferNumbers : k # n => transfers'[k] = transfers[k]
      /\ TransferNumbers' = TransferNumbers /\ TransferNumbers \subseteq Nat \ {0}
      /\ Downloads' = Downloads /\ Uploads' = Uploads
      /\ Downloads \subseteq TransferNumbers /\ Uploads \subseteq TransferNumbers
      /\ ServerMessages' = ServerMessages /\ ClientMessages' = ClientMessages
  BY <1>1, CallChanges
<1>3. /\ toServer' \in Seq(ServerMessages)
      /\ \A kinds, numbers : kinds \cap FileRequests = {} \/ n \notin numbers =>
           Fewer(toServer', toServer, kinds, numbers)
  <2>1. CASE toServer' = toServer
    BY <1>1, <2>1, SameMessages
  <2>2. ASSUME NEW sent \in ServerMessages, sent.kind \in FileRequests, sent.n = n,
               toServer' = toServer \o <<sent>>
        PROVE  /\ toServer' \in Seq(ServerMessages)
               /\ \A kinds, numbers : kinds \cap FileRequests = {} \/ n \notin numbers =>
                    Fewer(toServer', toServer, kinds, numbers)
    <3>1. toServer' \in Seq(ServerMessages)
      BY <1>1, <2>2, SentAtTheEnd
    <3>2. ASSUME NEW kinds, NEW numbers, kinds \cap FileRequests = {} \/ n \notin numbers
          PROVE  Fewer(toServer', toServer, kinds, numbers)
      <4>1. ~(sent.kind \in kinds /\ sent.n \in numbers)
        BY <2>2, <3>2
      <4>2. Fewer(toServer \o <<sent>>, toServer, kinds, numbers)
        BY <1>1, <4>1, SentElse
      <4> QED BY <2>2, <4>2
    <3> QED BY <3>1, <3>2
  <2> QED BY <2>1, <2>2
<1>4. /\ toClient' \in Seq(ClientMessages)
      /\ \A kinds, numbers : Fewer(toClient', toClient, kinds, numbers)
  BY <1>1, HeadTailProperties, TakenMessage
<1>5. FileTyped'
  BY <1>1, <1>2, <1>3, <1>4 DEF FileTyped
<1>6. ASSUME NEW k \in Downloads' PROVE DownloadGoesOn(k)'
  <2>1. CASE k = n
    BY <1>2, <2>1
  <2>2. CASE k # n
    <3>1. k \in Downloads /\ DownloadGoesOn(k) /\ transfers'[k] = transfers[k]
      BY <1>2, <2>2 DEF FileIInv
    <3>2. Fewer(toServer', toServer, FileRequests, {k})
      BY <1>3, <2>2
    <3> QED BY <1>1, <1>4, <3>1, <3>2, DownloadsStay DEF DownloadStays
  <2> QED BY <2>1, <2>2
<1>7. ASSUME NEW k \in Uploads', transfers'[k].alone PROVE UploadGoesOn(k)'
  <2>1. k \in Uploads /\ k \in Nat /\ transfers[k].alone
    BY <1>2, <1>7
  <2>2. UploadGoesOn(k)
    BY <2>1 DEF FileIInv
  <2>3. /\ Fewer(toServer', toServer, {"obtain"}, Nat) /\ Fewer(toServer', toServer, ReverseKinds, Nat)
    BY <1>3 DEF FileRequests, ReverseKinds
  <2>4. transfers'[k].phase \in {transfers[k].phase, "failed"} \/ truth[k] = Contents(k)
    BY <1>2, <2>1
  <2> QED BY <1>1, <1>4, <2>1, <2>2, <2>3, <2>4, UploadsStay DEF UploadStays
<1> QED BY <1>5, <1>6, <1>7 DEF FileIInv

(* A download with an answer at the head: nothing else is under way.        *)
LEMMA AnswerIsTaken ==
  ASSUME FileTyped, toClient # <<>>, NEW n \in Downloads, DownloadGoesOn(n),
         toClient' = Tail(toClient), Head(toClient).kind \in FileAnswers, Head(toClient).n = n
  PROVE  /\ At(toServer, FileRequests, {n}) = {} /\ At(toClient', FileAnswers, {n}) = {}
         /\ Busy(n) => AnswerFits(n, Head(toClient))
<1>1. toClient \in Seq(ClientMessages)
  BY DEF FileTyped
<1>2. /\ 1 \in At(toClient, FileAnswers, {n}) /\ Head(toClient) = toClient[1]
      /\ AtMostOne(toClient, FileAnswers, {n}) => At(toClient', FileAnswers, {n}) = {}
  BY <1>1, TakenMessage
<1> QED BY <1>2 DEF DownloadGoesOn

LEMMA NextRequest ==
  ASSUME FileTyped, NEW n \in Downloads, At(toServer, FileRequests, {n}) = {},
         At(toClient', FileAnswers, {n}) = {}, transfers'[n].phase = "busy",
         NEW sent \in ServerMessages, sent.kind \in FileRequests, sent.n = n,
         toServer' = toServer \o <<sent>>, RequestFits(n, sent)'
  PROVE  DownloadGoesOn(n)'
<1>1. toServer \in Seq(ServerMessages)
  BY DEF FileTyped
<1>2. At(toServer', FileRequests, {n}) = {Len(toServer) + 1}
  <2>1. At(toServer \o <<sent>>, FileRequests, {n}) = At(toServer, FileRequests, {n}) \cup {Len(toServer) + 1}
    BY <1>1, SentToo
  <2> QED BY <2>1
<1>3. toServer'[Len(toServer) + 1] = sent
  BY <1>1, SentAtTheEnd
<1>4. \A k \in At(toServer', FileRequests, {n}) : RequestFits(n, toServer[k])'
  BY <1>2, <1>3 DEF RequestFits, OpenAsTold
<1> QED BY <1>2, <1>4 DEF DownloadGoesOn, AtMostOne

LEMMA ResumeKeeps ==
  ASSUME FileIInv, toClient # <<>>, toClient' = Tail(toClient),
         Head(toClient).kind \notin FileRequests, ResumeTransfer(Head(toClient)),
         UNCHANGED <<filestore, removals, openFiles, obtain, truth>>
  PROVE  FileIInv'
<1>1. FileTyped /\ toServer \in Seq(ServerMessages) /\ toClient \in Seq(ClientMessages)
  BY DEF FileIInv, FileTyped
<1>2. PICK m \in ClientMessages : m = Head(toClient)
  BY <1>1, HeadTailProperties
<1>3. PICK n \in TransferNumbers : n = m.n
  BY <1>1, <1>2, ClientMessageKinds DEF Downloads, Uploads, FileRequests, FileAnswers
<1>4. /\ m.kind \in {"opened", "chunk", "closed"} => n \in Downloads
      /\ m.kind = "obtained" => n \in Uploads
      /\ m.kind = "opened" => m.frsm = n
      /\ m.kind = "chunk" => m.data \in FileData /\ m.more \in BOOLEAN
      /\ m.kind \in {"opened", "chunk", "closed", "obtained", "error"}
  BY <1>1, <1>2, <1>3, ClientMessageKinds DEF FileAnswers, FileRequests
<1>5. /\ UNCHANGED reverseReads /\ offered \subseteq Uploads
      /\ n \in Nat \ {0} /\ Downloads \subseteq TransferNumbers
  BY <1>1, <1>2 DEF ResumeTransfer, FileTyped, TransferNumbers, Downloads
<1>6. PICK t \in TransferRecord : t = transfers[n]
  BY <1>1 DEF FileTyped, TransferNumbers
<1>7. /\ t.got \in FileData /\ t.phase \in {"busy", "ok", "failed"}
      /\ \A f \in Nat : [t EXCEPT !.frsm = f] \in TransferRecord
      /\ \A d \in FileData : [t EXCEPT !.got = d] \in TransferRecord
      /\ \A p \in {"busy", "ok", "failed"} : [t EXCEPT !.phase = p] \in TransferRecord
  BY DEF TransferRecord
<1>8. n \in Downloads /\ m.kind \in FileAnswers =>
        /\ At(toServer, FileRequests, {n}) = {} /\ At(toClient', FileAnswers, {n}) = {}
        /\ Busy(n) => AnswerFits(n, m)
  BY <1>1, <1>2, <1>3, AnswerIsTaken DEF FileIInv
<1>9. CASE ~Busy(n)
  <2>1. UNCHANGED <<transfers, offered, toServer>>
    BY <1>2, <1>3, <1>9 DEF ResumeTransfer
  <2>2. transfers' = [transfers EXCEPT ![n] = t]
    BY <1>1, <1>6, <2>1 DEF FileTyped
  <2>3. n \in Downloads => DownloadGoesOn(n)'
    <3>1. Fewer(toServer', toServer, FileRequests, {n}) /\ Fewer(toClient', toClient, FileAnswers, {n})
      BY <1>1, <2>1, SameMessages, TakenMessage
    <3> QED BY <1>1, <2>1, <3>1, DownloadsStay DEF DownloadStays, FileIInv
  <2> QED BY <1>5, <1>6, <2>1, <2>2, <2>3, CallGoesOnKeeps
<1>10. CASE Busy(n) /\ m.kind = "opened"
  <2>1. /\ transfers' = [transfers EXCEPT ![n].frsm = m.frsm]
        /\ toServer' = toServer \o <<Request("read", n, m.frsm)>>
        /\ UNCHANGED offered
    BY <1>2, <1>3, <1>10 DEF ResumeTransfer, Answers
  <2>2. PICK u \in TransferRecord : u = [t EXCEPT !.frsm = n]
    BY <1>5, <1>7
  <2>3. /\ transfers' = [transfers EXCEPT ![n] = u]
        /\ u.do = t.do /\ u.alone = t.alone /\ u.phase = t.phase /\ u.got = t.got /\ u.frsm = n
    BY <1>1, <1>4, <1>6, <1>10, <2>1, <2>2 DEF TransferRecord
  <2>4. PICK sent \in ServerMessages : sent = Request("read", n, n)
    BY <1>4, <1>10 DEF ServerMessages
  <2>5. sent.kind = "read" /\ sent.n = n /\ sent.frsm = n /\ toServer' = toServer \o <<sent>>
    BY <1>4, <1>10, <2>1, <2>4 DEF Request
  <2>6. transfers'[n] = u
    BY <1>1, <1>6, <2>3, CallChanges
  <2>7. RequestFits(n, sent)'
    <3>1. OpenAsTold(n) /\ openFiles[n].pos = 0 /\ t.got = <<>>
      BY <1>4, <1>6, <1>8, <1>10 DEF AnswerFits, FileAnswers
    <3>2. openFiles[n] \in OpenFile
      BY <1>1, <3>1 DEF FileTyped, OpenAsTold
    <3>3. ReadSoFar(openFiles[n]) = <<>>
      BY <3>1, <3>2, ReadingOn
    <3> QED BY <2>3, <2>5, <2>6, <3>1, <3>3 DEF RequestFits, OpenAsTold
  <2>8. DownloadGoesOn(n)'
    <3>1. transfers'[n].phase = "busy"
      BY <1>6, <1>10, <2>3, <2>6 DEF Busy
    <3> QED BY <1>1, <1>4, <1>8, <1>10, <2>5, <2>7, <3>1, NextRequest DEF FileAnswers, FileRequests
  <2> QED BY <1>5, <1>6, <2>1, <2>3, <2>5, <2>8, CallGoesOnKeeps DEF FileRequests
<1>11. CASE Busy(n) /\ m.kind = "chunk"
  <2>1. /\ transfers' = [transfers EXCEPT ![n].got = @ \o m.data]
        /\ toServer' = toServer \o <<Request(IF m.more THEN "read" ELSE "close", n, t.frsm)>>
        /\ UNCHANGED offered
    BY <1>2, <1>3, <1>6, <1>11 DEF ResumeTransfer, Answers
  <2>2. /\ t.frsm = n /\ OpenAsTold(n) /\ t.got \o m.data = ReadSoFar(openFiles[n])
        /\ ~m.more => ReadSoFar(openFiles[n]) = truth[n]
    BY <1>4, <1>6, <1>8, <1>11 DEF AnswerFits, FileAnswers
  <2>3. PICK u \in TransferRecord : u = [t EXCEPT !.got = t.got \o m.data]
    <3>1. t.got \o m.data \in FileData
      BY <1>4, <1>7, <1>11 DEF FileData
    <3> QED BY <1>7, <3>1
  <2>4. /\ transfers' = [transfers EXCEPT ![n] = u]
        /\ u.do = t.do /\ u.alone = t.alone /\ u.phase = t.phase /\ u.got = t.got \o m.data
        /\ u.frsm = n
    BY <1>1, <1>6, <2>1, <2>2, <2>3 DEF TransferRecord
  <2>5. PICK sent \in ServerMessages : sent = Request(IF m.more THEN "read" ELSE "close", n, n)
    BY <1>4, <1>11 DEF ServerMessages
  <2>6. /\ sent.kind = (IF m.more THEN "read" ELSE "close") /\ sent.n = n
        /\ toServer' = toServer \o <<sent>>
    BY <2>1, <2>2, <2>5 DEF Request
  <2>7. transfers'[n] = u
    BY <1>1, <1>6, <2>4, CallChanges
  <2>8. RequestFits(n, sent)'
    BY <2>2, <2>4, <2>6, <2>7 DEF RequestFits, OpenAsTold
  <2>9. DownloadGoesOn(n)'
    <3>1. transfers'[n].phase = "busy"
      BY <1>6, <1>11, <2>4, <2>7 DEF Busy
    <3>2. sent.kind \in FileRequests
      BY <2>6 DEF FileRequests
    <3> QED BY <1>1, <1>4, <1>8, <1>11, <2>6, <2>8, <3>1, <3>2, NextRequest DEF FileAnswers
  <2>10. sent.kind \in FileRequests
    BY <2>6 DEF FileRequests
  <2> QED BY <1>5, <1>6, <2>1, <2>4, <2>6, <2>9, <2>10, CallGoesOnKeeps
<1>12. CASE Busy(n) /\ m.kind \in {"closed", "obtained", "error"}
  <2> DEFINE phase == IF m.kind = "error" THEN "failed" ELSE "ok"
  <2>1. /\ transfers' = [transfers EXCEPT ![n].phase = phase]
        /\ offered' = offered \ {n} /\ UNCHANGED toServer
    BY <1>2, <1>3, <1>12 DEF ResumeTransfer
  <2>2. PICK u \in TransferRecord : u = [t EXCEPT !.phase = phase]
    BY <1>7
  <2>3. /\ transfers' = [transfers EXCEPT ![n] = u]
        /\ u.do = t.do /\ u.alone = t.alone /\ u.phase = phase /\ u.got = t.got
    BY <1>1, <1>6, <2>1, <2>2 DEF TransferRecord
  <2>4. transfers'[n] = u
    BY <1>1, <1>6, <2>3, CallChanges
  <2>5. ASSUME n \in Downloads PROVE DownloadGoesOn(n)'
    <3>1. m.kind # "obtained"
      BY <1>4, <2>5 DEF Uploads, Downloads
    <3>2. /\ At(toServer, FileRequests, {n}) = {} /\ At(toClient', FileAnswers, {n}) = {}
          /\ m.kind = "closed" => t.got = truth[n]
      BY <1>6, <1>8, <1>12, <2>5, <3>1 DEF AnswerFits, FileAnswers
    <3> QED BY <1>12, <2>1, <2>3, <2>4, <3>1, <3>2 DEF DownloadGoesOn, AtMostOne, Busy
  <2>6. ASSUME n \in Uploads, transfers[n].alone
        PROVE  u.phase \in {transfers[n].phase, "failed"} \/ truth[n] = Contents(n)
    <3>1. CASE m.kind = "obtained"
      <4>1. UploadGoesOn(n)
        BY <2>6 DEF FileIInv
      <4>2. 1 \in At(toClient, {"obtained"}, {n})
        BY <1>1, <1>2, <1>3, <3>1, TakenMessage
      <4> QED BY <4>1, <4>2 DEF UploadGoesOn, StoredWhole
    <3>2. CASE m.kind # "obtained"
      BY <1>4, <1>12, <2>3, <2>6, <3>2 DEF Uploads, Downloads
    <3> QED BY <3>1, <3>2
  <2> QED BY <1>5, <1>6, <2>1, <2>3, <2>5, <2>6, CallGoesOnKeeps
<1> QED BY <1>4, <1>9, <1>10, <1>11, <1>12

LEMMA ClientReadsKeeps ==
  ASSUME FileIInv, ClientReads
  PROVE  FileIInv'
<1>1. /\ toClient # <<>> /\ toClient' = Tail(toClient)
      /\ UNCHANGED <<filestore, removals, openFiles, obtain, truth>>
      /\ IF Head(toClient).kind \in FileRequests
           THEN ServeReverse(Head(toClient)) ELSE ResumeTransfer(Head(toClient))
  BY DEF ClientReads, FileRequests
<1> QED BY <1>1, ServeReverseKeeps, ResumeKeeps

LEMMA SentTwoElse ==
  ASSUME NEW M, NEW q \in Seq(M), NEW a \in M, NEW b \in M, NEW kinds, NEW numbers,
         ~(a.kind \in kinds /\ a.n \in numbers), ~(b.kind \in kinds /\ b.n \in numbers)
  PROVE  Fewer(q \o <<a, b>>, q, kinds, numbers)
<1>1. /\ DOMAIN (q \o <<a, b>>) = DOMAIN q \cup {Len(q) + 1, Len(q) + 2}
      /\ (q \o <<a, b>>)[Len(q) + 1] = a /\ (q \o <<a, b>>)[Len(q) + 2] = b
      /\ \A k \in DOMAIN q : (q \o <<a, b>>)[k] = q[k] /\ k \in Nat
  OBVIOUS
<1>2. \A k \in At(q \o <<a, b>>, kinds, numbers) :
        k \in Nat /\ k + 0 \in At(q, kinds, numbers) /\ (q \o <<a, b>>)[k] = q[k + 0]
  <2>1. ASSUME NEW k \in At(q \o <<a, b>>, kinds, numbers)
        PROVE  k \in DOMAIN q /\ k \in At(q, kinds, numbers)
    BY <1>1 DEF At
  <2> QED BY <1>1, <2>1
<1> QED BY <1>2 DEF Fewer

LEMMA AnswerIsSent ==
  ASSUME NEW n, NEW sent \in ClientMessages, sent.kind \in FileAnswers, sent.n = n,
         toClient \in Seq(ClientMessages)
  PROVE  At(toClient \o <<sent>>, FileAnswers, {n}) = At(toClient, FileAnswers, {n}) \cup {Len(toClient) + 1}
<1>1. sent.n \in {n}
  OBVIOUS
<1> QED BY <1>1, SentToo

(* The server answers a request of a download.                              *)
LEMMA AnswerKeeps ==
  ASSUME FileIInv, toServer # <<>>, toServer' = Tail(toServer),
         UNCHANGED <<filestore, removals, obtain, offered, reverseReads, transfers>>,
         NEW n \in Downloads, NEW m \in ServerMessages, m = Head(toServer),
         m.kind \in FileRequests, m.n = n,
         NEW sent \in ClientMessages, sent.kind \in FileAnswers, sent.n = n,
         toClient' = toClient \o <<sent>>,
         openFiles' \in [DOMAIN openFiles' -> OpenFile], DOMAIN openFiles' \subseteq TransferNumbers,
         truth' \in Seq(FileData), Len(truth') = Len(truth),
         \A k \in TransferNumbers : k # n =>
           /\ truth'[k] = truth[k]
           /\ k \in DOMAIN openFiles => k \in DOMAIN openFiles' /\ openFiles'[k] = openFiles[k],
         Busy(n) /\ RequestFits(n, m) => AnswerFits(n, sent)'
  PROVE  FileIInv'
<1>1. FileTyped /\ toServer \in Seq(ServerMessages) /\ toClient \in Seq(ClientMessages)
  BY DEF FileIInv, FileTyped
<1>2. /\ TransferNumbers' = TransferNumbers /\ TransferNumbers \subseteq Nat \ {0}
      /\ Downloads' = Downloads /\ Uploads' = Uploads
      /\ Downloads \subseteq TransferNumbers /\ Uploads \subseteq TransferNumbers
      /\ ServerMessages' = ServerMessages /\ ClientMessages' = ClientMessages
  BY <1>1, SameTransfers
<1>3. toServer' \in Seq(ServerMessages) /\ toClient' \in Seq(ClientMessages)
  BY <1>1, HeadTailProperties, SentAtTheEnd
<1>4. FileTyped'
  BY <1>1, <1>2, <1>3 DEF FileTyped
<1>5. \A kinds, numbers : Fewer(toServer', toServer, kinds, numbers)
  BY <1>1, TakenMessage
<1>6. \A kinds, numbers : kinds \cap FileAnswers = {} \/ n \notin numbers =>
        Fewer(toClient', toClient, kinds, numbers)
  <2>1. ASSUME NEW kinds, NEW numbers, kinds \cap FileAnswers = {} \/ n \notin numbers
        PROVE  Fewer(toClient', toClient, kinds, numbers)
    <3>1. ~(sent.kind \in kinds /\ sent.n \in numbers)
      BY <2>1
    <3>2. Fewer(toClient \o <<sent>>, toClient, kinds, numbers)
      BY <1>1, <3>1, SentElse
    <3> QED BY <3>2
  <2> QED BY <2>1
<1>7. ASSUME NEW k \in Downloads' PROVE DownloadGoesOn(k)'
  <2>1. k \in Downloads /\ DownloadGoesOn(k) /\ k \in TransferNumbers
    BY <1>2 DEF FileIInv
  <2>2. CASE k # n
    <3>1. Fewer(toClient', toClient, FileAnswers, {k})
      BY <1>6, <2>2
    <3> QED BY <1>1, <1>5, <2>1, <2>2, <3>1, DownloadsStay DEF DownloadStays
  <2>3. CASE k = n
    <3>1. /\ 1 \in At(toServer, FileRequests, {n}) /\ toServer[1] = m
          /\ AtMostOne(toServer, FileRequests, {n}) => At(toServer', FileRequests, {n}) = {}
      BY <1>1, TakenMessage
    <3>2. /\ At(toServer', FileRequests, {n}) = {} /\ At(toClient, FileAnswers, {n}) = {}
          /\ Busy(n) => RequestFits(n, m)
          /\ transfers[n].phase # "ok"
      <4>1. AtMostOne(toServer, FileRequests, {n}) /\ At(toServer, FileRequests, {n}) # {}
        BY <2>1, <2>3, <3>1 DEF DownloadGoesOn
      <4>2. At(toClient, FileAnswers, {n}) = {} /\ transfers[n].phase # "ok"
        BY <2>1, <2>3, <4>1 DEF DownloadGoesOn
      <4>3. Busy(n) => RequestFits(n, toServer[1])
        BY <2>1, <2>3, <3>1 DEF DownloadGoesOn
      <4> QED BY <3>1, <4>1, <4>2, <4>3
    <3>3. At(toClient', FileAnswers, {n}) = {Len(toClient) + 1}
      <4>1. At(toClient \o <<sent>>, FileAnswers, {n}) = At(toClient, FileAnswers, {n}) \cup {Len(toClient) + 1}
        BY <1>1, AnswerIsSent
      <4> QED BY <3>2, <4>1
    <3>4. toClient'[Len(toClient) + 1] = sent
      BY <1>1, SentAtTheEnd
    <3>5. Busy(n)' => \A j \in At(toClient', FileAnswers, {n}) : AnswerFits(n, toClient[j])'
      <4>1. Busy(n)' => AnswerFits(n, sent)'
        BY <3>2 DEF Busy
      <4> QED BY <3>3, <3>4, <4>1 DEF AnswerFits, OpenAsTold
    <3> QED BY <2>3, <3>2, <3>3, <3>5 DEF DownloadGoesOn, AtMostOne
  <2> QED BY <2>2, <2>3
<1>8. ASSUME NEW k \in Uploads', transfers'[k].alone PROVE UploadGoesOn(k)'
  <2>1. k \in Uploads /\ k \in Nat /\ UploadGoesOn(k) /\ k \in TransferNumbers
    BY <1>2, <1>8 DEF FileIInv
  <2>2. k # n
    BY <2>1 DEF Uploads, Downloads
  <2>3. Fewer(toClient', toClient, FileRequests, Nat) /\ Fewer(toClient', toClient, {"obtained"}, {k})
    BY <1>6 DEF FileRequests, FileAnswers
  <2> QED BY <1>1, <1>5, <2>1, <2>2, <2>3, UploadsStay DEF UploadStays
<1> QED BY <1>4, <1>7, <1>8 DEF FileIInv

LEMMA ServeDownloadKeeps ==
  ASSUME FileIInv, toServer # <<>>, toServer' = Tail(toServer),
         Head(toServer).kind \in FileRequests, ServeDownload(Head(toServer)),
         UNCHANGED <<removals, offered, reverseReads, transfers>>
  PROVE  FileIInv'
<1>1. FileTyped /\ toServer \in Seq(ServerMessages)
  BY DEF FileIInv, FileTyped
<1>2. PICK m \in ServerMessages : m = Head(toServer)
  BY <1>1, HeadTailProperties
<1>3. PICK n \in Downloads : n = m.n
  BY <1>1, <1>2, ServerMessageKinds
<1>4. m.kind \in {"read", "close"} => m.frsm = n
  BY <1>1, <1>2, <1>3, ServerMessageKinds
<1>5. /\ UNCHANGED <<filestore, obtain>> /\ n \in TransferNumbers
      /\ openFiles \in [DOMAIN openFiles -> OpenFile] /\ DOMAIN openFiles \subseteq TransferNumbers
      /\ truth \in Seq(FileData) /\ n \in DOMAIN truth
      /\ transfers[n].file \in FileNames
  <2>1. UNCHANGED <<filestore, obtain>>
    BY DEF ServeDownload
  <2>2. n \in TransferNumbers
    BY DEF Downloads
  <2>3. /\ openFiles \in [DOMAIN openFiles -> OpenFile] /\ DOMAIN openFiles \subseteq TransferNumbers
        /\ truth \in Seq(FileData) /\ Len(truth) = Len(transfers) /\ transfers \in Seq(TransferRecord)
    BY <1>1 DEF FileTyped
  <2>4. n \in 1..Len(transfers) /\ DOMAIN truth = 1..Len(truth)
    BY <2>2, <2>3 DEF TransferNumbers
  <2>5. transfers[n] \in TransferRecord
    BY <2>3, <2>4
  <2>6. transfers[n].file \in FileNames
    BY <2>5 DEF TransferRecord
  <2> QED BY <2>1, <2>2, <2>3, <2>4, <2>6
<1>6. /\ Done("error", n) \in ClientMessages /\ Done("error", n).kind = "error"
      /\ Done("error", n).n = n
  BY <1>5 DEF ClientMessages, Done
<1>7. CASE m.kind = "open" /\ filestore[transfers[n].file] # NoFile
  <2>1. PICK data \in FileData : data = filestore[transfers[n].file]
    BY <1>1, <1>5 DEF FileTyped
  <2>2. PICK file \in OpenFile : file = [data |-> data, pos |-> 0]
    <3>1. Len(data) \in Nat
      BY DEF FileData
    <3>2. PICK file \in [data : FileData, pos : Nat] : file = [data |-> data, pos |-> 0]
      OBVIOUS
    <3>3. file.data = data /\ file.pos = 0
      BY <3>2
    <3>4. file.pos <= Len(file.data)
      BY <3>1, <3>3
    <3> QED BY <3>2, <3>4 DEF OpenFile
  <2>3. /\ openFiles' = WithFrsm(openFiles, n, file)
        /\ truth' = [truth EXCEPT ![n] = data]
        /\ toClient' = toClient \o <<Opened(n, n)>>
    BY <1>2, <1>3, <1>7, <2>1, <2>2 DEF ServeDownload, Tells
  <2>4. /\ Opened(n, n) \in ClientMessages /\ Opened(n, n).kind = "opened"
        /\ Opened(n, n).n = n /\ Opened(n, n).frsm = n
    BY DEF ClientMessages, Opened
  <2>5. /\ DOMAIN openFiles' = DOMAIN openFiles \cup {n} /\ openFiles'[n] = file
        /\ \A k \in DOMAIN openFiles : k # n => openFiles'[k] = openFiles[k]
        /\ openFiles' \in [DOMAIN openFiles \cup {n} -> OpenFile]
    BY <1>5, <2>3 DEF WithFrsm
  <2>6. /\ truth' \in Seq(FileData) /\ Len(truth') = Len(truth) /\ truth'[n] = data
        /\ \A k \in TransferNumbers : k # n => truth'[k] = truth[k]
    BY <1>1, <1>5, <2>3 DEF FileTyped, TransferNumbers
  <2>7. Busy(n) /\ RequestFits(n, m) => AnswerFits(n, Opened(n, n))'
    BY <1>7, <2>2, <2>4, <2>5, <2>6 DEF RequestFits, AnswerFits, OpenAsTold
  <2> QED BY <1>2, <1>3, <1>5, <2>3, <2>4, <2>5, <2>6, <2>7, AnswerKeeps DEF FileAnswers
<1>8. CASE m.kind = "open" /\ filestore[transfers[n].file] = NoFile
  <2>1. UNCHANGED <<openFiles, truth>> /\ toClient' = toClient \o <<Done("error", n)>>
    BY <1>2, <1>3, <1>8 DEF ServeDownload, Tells, Refused
  <2>2. AnswerFits(n, Done("error", n))'
    BY <1>6 DEF AnswerFits
  <2> QED BY <1>2, <1>3, <1>5, <1>6, <2>1, <2>2, AnswerKeeps DEF FileAnswers
<1>9. CASE m.kind = "read" /\ n \in DOMAIN openFiles
  <2> DEFINE file == openFiles[n]
  <2>1. /\ openFiles' = [openFiles EXCEPT ![n] = Advanced(file)] /\ UNCHANGED truth
        /\ toClient' = toClient \o <<Chunk(n, NextBlock(file), MoreFollows(file))>>
    BY <1>2, <1>3, <1>4, <1>9 DEF ServeDownload, Tells
  <2>2. file \in OpenFile
    BY <1>5, <1>9
  <2>3. /\ Advanced(file) \in OpenFile /\ Advanced(file).data = file.data
        /\ NextBlock(file) \in FileData /\ MoreFollows(file) \in BOOLEAN
        /\ ReadSoFar(file) \o NextBlock(file) = ReadSoFar(Advanced(file))
        /\ ~MoreFollows(file) => ReadSoFar(Advanced(file)) = file.data
    BY <2>2, ReadingOn
  <2>4. PICK data \in FileData, more \in BOOLEAN : data = NextBlock(file) /\ more = MoreFollows(file)
    BY <2>3
  <2>5. /\ Chunk(n, data, more) \in ClientMessages /\ Chunk(n, data, more).kind = "chunk"
        /\ Chunk(n, data, more).n = n
        /\ Chunk(n, data, more).data = data /\ Chunk(n, data, more).more = more
    BY DEF ClientMessages, Chunk
  <2>6. /\ DOMAIN openFiles' = DOMAIN openFiles /\ openFiles'[n] = Advanced(file)
        /\ openFiles' \in [DOMAIN openFiles -> OpenFile]
        /\ \A k \in DOMAIN openFiles : k # n => openFiles'[k] = openFiles[k]
    BY <1>5, <1>9, <2>1, <2>3
  <2>7. Busy(n) /\ RequestFits(n, m) => AnswerFits(n, Chunk(n, data, more))'
    <3>1. ASSUME RequestFits(n, m) PROVE AnswerFits(n, Chunk(n, data, more))'
      <4>1. transfers[n].frsm = n /\ file.data = truth[n] /\ transfers[n].got = ReadSoFar(file)
        BY <1>9, <3>1 DEF RequestFits, OpenAsTold
      <4>2. OpenAsTold(n)'
        BY <1>9, <2>1, <2>3, <2>6, <4>1 DEF OpenAsTold
      <4>3. /\ transfers[n].got \o data = ReadSoFar(openFiles'[n])
            /\ ~more => ReadSoFar(openFiles'[n]) = truth[n]
        BY <2>3, <2>4, <2>6, <4>1
      <4> QED BY <2>1, <2>5, <4>1, <4>2, <4>3 DEF AnswerFits
    <3> QED BY <3>1
  <2>8. toClient' = toClient \o <<Chunk(n, data, more)>>
    BY <2>1, <2>4
  <2>9. Chunk(n, data, more).kind \in FileAnswers
    BY <2>5 DEF FileAnswers
  <2> QED BY <1>2, <1>3, <1>5, <2>1, <2>5, <2>6, <2>7, <2>8, <2>9, AnswerKeeps
<1>10. CASE m.kind = "read" /\ n \notin DOMAIN openFiles
  <2>1. UNCHANGED <<openFiles, truth>> /\ toClient' = toClient \o <<Done("error", n)>>
    BY <1>2, <1>3, <1>4, <1>10 DEF ServeDownload, Tells, Refused
  <2>2. AnswerFits(n, Done("error", n))'
    BY <1>6 DEF AnswerFits
  <2> QED BY <1>2, <1>3, <1>5, <1>6, <2>1, <2>2, AnswerKeeps DEF FileAnswers
<1>11. CASE m.kind = "close"
  <2>1. /\ openFiles' = WithoutFrsm(openFiles, n) /\ UNCHANGED truth
        /\ toClient' = toClient \o <<Done("closed", n)>>
    BY <1>2, <1>3, <1>4, <1>11 DEF ServeDownload, Tells
  <2>2. /\ Done("closed", n) \in ClientMessages /\ Done("closed", n).kind = "closed"
        /\ Done("closed", n).n = n
    BY DEF ClientMessages, Done
  <2>3. /\ DOMAIN openFiles' = DOMAIN openFiles \ {n}
        /\ openFiles' \in [DOMAIN openFiles \ {n} -> OpenFile]
        /\ \A k \in DOMAIN openFiles : k # n => openFiles'[k] = openFiles[k]
    BY <1>5, <2>1 DEF WithoutFrsm
  <2>4. Busy(n) /\ RequestFits(n, m) => AnswerFits(n, Done("closed", n))'
    BY <1>11, <2>1, <2>2 DEF RequestFits, AnswerFits
  <2> QED BY <1>2, <1>3, <1>5, <2>1, <2>2, <2>3, <2>4, AnswerKeeps DEF FileAnswers
<1> QED BY <1>2, <1>7, <1>8, <1>9, <1>10, <1>11 DEF FileRequests

(* obtainFile is asked for: the server refuses, or asks for the file.       *)
LEMMA StartObtainKeeps ==
  ASSUME FileIInv, toServer # <<>>, toServer' = Tail(toServer),
         Head(toServer).kind = "obtain", StartObtain(Head(toServer)),
         UNCHANGED <<removals, offered, reverseReads, transfers>>
  PROVE  FileIInv'
<1>1. FileTyped /\ toServer \in Seq(ServerMessages) /\ toClient \in Seq(ClientMessages)
  BY DEF FileIInv, FileTyped
<1>2. /\ TransferNumbers' = TransferNumbers /\ TransferNumbers \subseteq Nat \ {0}
      /\ Downloads' = Downloads /\ Uploads' = Uploads
      /\ Downloads \subseteq TransferNumbers /\ Uploads \subseteq TransferNumbers
      /\ ServerMessages' = ServerMessages /\ ClientMessages' = ClientMessages
  BY <1>1, SameTransfers
<1>3. PICK m \in ServerMessages : m = Head(toServer)
  BY <1>1, HeadTailProperties
<1>4. PICK n \in Uploads : n = m.n
  BY <1>1, <1>3, ServerMessageKinds
<1>5. UNCHANGED <<filestore, openFiles, truth>> /\ n \in Nat /\ n \in TransferNumbers
  BY <1>2 DEF StartObtain
<1>6. \A kinds, numbers : Fewer(toServer', toServer, kinds, numbers)
  BY <1>1, TakenMessage
<1>7. toServer' \in Seq(ServerMessages)
  BY <1>1, HeadTailProperties
<1>8. CASE obtain # {}
  <2>1. UNCHANGED obtain /\ toClient' = toClient \o <<Done("error", n)>>
    BY <1>3, <1>4, <1>8 DEF StartObtain, Tells, Refused
  <2>2. PICK sent \in ClientMessages : sent = Done("error", n)
    BY <1>5 DEF ClientMessages
  <2>3. sent.kind = "error" /\ sent.n = n /\ toClient' = toClient \o <<sent>>
    BY <2>1, <2>2 DEF Done
  <2>4. toClient' \in Seq(ClientMessages)
    BY <1>1, <2>3, SentAtTheEnd
  <2>5. FileTyped'
    BY <1>1, <1>2, <1>5, <1>7, <2>1, <2>4 DEF FileTyped
  <2>6. ASSUME NEW kinds, NEW numbers, "error" \notin kinds \/ n \notin numbers
        PROVE  Fewer(toClient', toClient, kinds, numbers)
    <3>1. ~(sent.kind \in kinds /\ sent.n \in numbers)
      BY <2>3, <2>6
    <3>2. Fewer(toClient \o <<sent>>, toClient, kinds, numbers)
      BY <1>1, <3>1, SentElse
    <3> QED BY <2>3, <3>2
  <2>7. ASSUME NEW k \in Downloads' PROVE DownloadGoesOn(k)'
    <3>1. k \in Downloads /\ DownloadGoesOn(k) /\ k \in TransferNumbers
      BY <1>2 DEF FileIInv
    <3>2. k # n
      BY <3>1 DEF Uploads, Downloads
    <3>3. Fewer(toClient', toClient, FileAnswers, {k})
      BY <2>6, <3>2
    <3> QED BY <1>1, <1>5, <1>6, <3>1, <3>3, DownloadsStay DEF DownloadStays
  <2>8. ASSUME NEW k \in Uploads', transfers'[k].alone PROVE UploadGoesOn(k)'
    <3>1. k \in Uploads /\ k \in Nat /\ UploadGoesOn(k) /\ k \in TransferNumbers
      BY <1>2, <2>8 DEF FileIInv
    <3>2. Fewer(toClient', toClient, FileRequests, Nat) /\ Fewer(toClient', toClient, {"obtained"}, {k})
      BY <2>6 DEF FileRequests
    <3> QED BY <1>1, <1>5, <1>6, <2>1, <3>1, <3>2, UploadsStay DEF UploadStays
  <2> QED BY <2>5, <2>7, <2>8 DEF FileIInv
<1>9. CASE obtain = {}
  <2>1. /\ obtain' = {[n |-> n, frsm |-> 0, data |-> <<>>]}
        /\ toClient' = toClient \o <<Request("open", n, 0)>>
    BY <1>3, <1>4, <1>9 DEF StartObtain, Tells
  <2>2. PICK sent \in ClientMessages : sent = Request("open", n, 0)
    BY DEF ClientMessages
  <2>3. sent.kind = "open" /\ sent.n = n /\ toClient' = toClient \o <<sent>>
    BY <2>1, <2>2 DEF Request
  <2>4. toClient' \in Seq(ClientMessages)
    BY <1>1, <2>3, SentAtTheEnd
  <2>5. /\ obtain' \subseteq [n : Uploads, frsm : Nat, data : FileData]
        /\ \A a, b \in obtain' : a = b
    BY <2>1 DEF FileData
  <2>6. FileTyped'
    BY <1>1, <1>2, <1>5, <1>7, <2>4, <2>5 DEF FileTyped
  <2>7. ASSUME NEW kinds, NEW numbers, "open" \notin kinds
        PROVE  /\ At(toClient', kinds, numbers) = At(toClient, kinds, numbers)
               /\ Fewer(toClient', toClient, kinds, numbers)
    <3>1. ~(sent.kind \in kinds /\ sent.n \in numbers)
      BY <2>3, <2>7
    <3>2. /\ Fewer(toClient \o <<sent>>, toClient, kinds, numbers)
          /\ At(toClient \o <<sent>>, kinds, numbers) = At(toClient, kinds, numbers)
      BY <1>1, <3>1, SentElse
    <3> QED BY <2>3, <3>2
  <2>8. ASSUME NEW k \in Downloads' PROVE DownloadGoesOn(k)'
    <3>1. k \in Downloads /\ DownloadGoesOn(k) /\ k \in TransferNumbers
      BY <1>2 DEF FileIInv
    <3>2. Fewer(toClient', toClient, FileAnswers, {k})
      BY <2>7 DEF FileAnswers
    <3> QED BY <1>1, <1>5, <1>6, <3>1, <3>2, DownloadsStay DEF DownloadStays
  <2>9. ASSUME NEW k \in Uploads', transfers'[k].alone PROVE UploadGoesOn(k)'
    <3>1. k \in Uploads /\ k \in Nat /\ UploadGoesOn(k) /\ k \in TransferNumbers
      BY <1>2, <2>9 DEF FileIInv
    <3>2. /\ 1 \in At(toServer, {"obtain"}, Nat) /\ toServer[1] = m
          /\ AtMostOne(toServer, {"obtain"}, {k}) /\ 1 \in At(toServer, {"obtain"}, {k}) =>
               At(toServer', {"obtain"}, {k}) = {}
          /\ 1 \in At(toServer, {"obtain"}, {k}) <=> m.n = k
      <4>1. Head(toServer).kind \in {"obtain"} /\ Head(toServer).n \in Nat
        BY <1>3, <1>4, <1>5
      <4>2. 1 \in At(toServer, {"obtain"}, Nat) /\ toServer[1] = m
        BY <1>1, <1>3, <4>1, TakenMessage
      <4>3. AtMostOne(toServer, {"obtain"}, {k}) /\ 1 \in At(toServer, {"obtain"}, {k}) =>
              At(toServer', {"obtain"}, {k}) = {}
        BY <1>1, TakenMessage
      <4>4. 1 \in At(toServer, {"obtain"}, {k}) <=> m.kind \in {"obtain"} /\ m.n \in {k}
        BY <1>1, <1>3, TakenMessage
      <4> QED BY <1>3, <4>1, <4>2, <4>3, <4>4
    <3>3. At(toServer, {"obtain"}, {k}) \subseteq {1}
      <4>1. ASSUME NEW j \in At(toServer, {"obtain"}, {k}) PROVE j = 1
        <5>1. j <= 1
          BY <3>1, <3>2 DEF UploadGoesOn, AskedFirst
        <5>2. j \in Nat \ {0}
          BY <1>1 DEF At
        <5> QED BY <5>1, <5>2
      <4> QED BY <4>1
    <3>4. At(toServer', {"obtain"}, {k}) = {}
      <4>1. CASE m.n = k
        BY <3>2, <3>3, <4>1 DEF AtMostOne
      <4>2. CASE m.n # k
        <5>1. At(toServer, {"obtain"}, {k}) = {}
          BY <3>2, <3>3, <4>2
        <5> QED BY <1>6, <5>1 DEF Fewer
      <4> QED BY <4>1, <4>2
    <3>5. AskedFirst(k)'
      BY <3>4 DEF AskedFirst
    <3>6. StoredWhole(k)'
      <4>1. At(toClient', {"obtained"}, {k}) = At(toClient, {"obtained"}, {k})
        BY <2>7
      <4> QED BY <1>5, <3>1, <4>1 DEF UploadGoesOn, StoredWhole
    <3>7. ASSUME NEW st \in obtain', st.n = k
          PROVE  /\ truth'[k] = NoFile /\ (st.frsm = 0 => st.data = <<>>)
                 /\ At(toServer', ReverseKinds, Nat) = {}
                 /\ AtMostOne(toClient', FileRequests, Nat)
                 /\ \A j \in At(toClient', FileRequests, Nat) : ReverseRequestFits(k, st, toClient[j])'
      <4>1. k = n /\ st.frsm = 0 /\ st.data = <<>>
        BY <2>1, <3>7
      <4>2. 1 \in At(toServer, {"obtain"}, {k})
        BY <1>4, <3>2, <4>1
      <4>3. /\ truth[k] = NoFile /\ At(toServer, ReverseKinds, Nat) = {}
            /\ At(toClient, FileRequests, Nat) = {}
        BY <3>1, <4>2 DEF UploadGoesOn, AskedFirst
      <4>4. At(toServer', ReverseKinds, Nat) = {}
        BY <1>6, <4>3 DEF Fewer
      <4>5. At(toClient', FileRequests, Nat) = {Len(toClient) + 1}
        <5>1. sent.kind \in FileRequests /\ sent.n \in Nat
          BY <1>5, <2>3 DEF FileRequests
        <5>2. At(toClient \o <<sent>>, FileRequests, Nat) = At(toClient, FileRequests, Nat) \cup {Len(toClient) + 1}
          BY <1>1, <5>1, SentToo
        <5> QED BY <2>3, <4>3, <5>2
      <4>6. toClient'[Len(toClient) + 1] = sent
        BY <1>1, <2>3, SentAtTheEnd
      <4>7. \A j \in At(toClient', FileRequests, Nat) : ReverseRequestFits(k, st, toClient[j])'
        BY <2>3, <4>1, <4>5, <4>6 DEF ReverseRequestFits
      <4> QED BY <1>5, <4>1, <4>3, <4>4, <4>5, <4>7 DEF AtMostOne
    <3>8. ObtainedAlone(k)'
      BY <3>7 DEF ObtainedAlone, AtMostOne
    <3> QED BY <3>5, <3>6, <3>8 DEF UploadGoesOn
  <2> QED BY <2>6, <2>8, <2>9 DEF FileIInv
<1> QED BY <1>8, <1>9

(* The server takes an answer of the reverse read.                          *)
LEMMA ObtainTurn ==
  ASSUME FileTyped, toServer # <<>>, toServer' = Tail(toServer),
         NEW m \in ServerMessages, m = Head(toServer), m.kind \in ReverseKinds,
         NEW n \in Nat, UploadGoesOn(n)
  PROVE  /\ AskedFirst(n)'
         /\ At(toServer, {"obtain"}, {n}) = {}
         /\ \A st \in obtain : st.n = n =>
              /\ truth[n] = NoFile /\ (st.frsm = 0 => st.data = <<>>)
              /\ At(toServer', ReverseKinds, Nat) = {} /\ At(toClient, FileRequests, Nat) = {}
              /\ ReverseAnswerFits(n, st, m)
<1>1. toServer \in Seq(ServerMessages)
  BY DEF FileTyped
<1>2. m.n \in Nat
  BY ServerMessageKinds DEF ReverseKinds
<1>3. /\ 1 \in At(toServer, ReverseKinds, Nat) /\ toServer[1] = m
      /\ AtMostOne(toServer, ReverseKinds, Nat) => At(toServer', ReverseKinds, Nat) = {}
  BY <1>1, <1>2, TakenMessage
<1>4. At(toServer, {"obtain"}, {n}) = {}
  BY <1>3 DEF UploadGoesOn, AskedFirst
<1>5. AskedFirst(n)'
  <2>1. Fewer(toServer', toServer, {"obtain"}, {n})
    BY <1>1, TakenMessage
  <2>2. At(toServer', {"obtain"}, {n}) = {}
    BY <1>4, <2>1 DEF Fewer
  <2> QED BY <2>2 DEF AskedFirst
<1>6. ASSUME NEW st \in obtain, st.n = n
      PROVE  /\ truth[n] = NoFile /\ (st.frsm = 0 => st.data = <<>>)
             /\ At(toServer', ReverseKinds, Nat) = {} /\ At(toClient, FileRequests, Nat) = {}
             /\ ReverseAnswerFits(n, st, m)
  <2>1. /\ truth[n] = NoFile /\ (st.frsm = 0 => st.data = <<>>)
        /\ AtMostOne(toServer, ReverseKinds, Nat)
        /\ At(toServer, ReverseKinds, Nat) = {} \/ At(toClient, FileRequests, Nat) = {}
        /\ ReverseAnswerFits(n, st, toServer[1])
    BY <1>3, <1>6 DEF UploadGoesOn, ObtainedAlone
  <2> QED BY <1>3, <2>1
<1> QED BY <1>4, <1>5, <1>6

(* It asks for more of the file.                                            *)
LEMMA ObtainGoesOnKeeps ==
  ASSUME FileIInv, toServer # <<>>, toServer' = Tail(toServer),
         NEW m \in ServerMessages, m = Head(toServer), m.kind \in ReverseKinds,
         UNCHANGED <<removals, offered, reverseReads, transfers, openFiles, filestore, truth>>,
         NEW st \in obtain, NEW next \in [n : Uploads, frsm : Nat, data : FileData],
         obtain' = {next}, next.n = st.n, next.frsm # 0,
         NEW sent \in ClientMessages, sent.kind = "read", sent.frsm = next.frsm,
         toClient' = toClient \o <<sent>>,
         ReverseAnswerFits(st.n, st, m) /\ (st.frsm = 0 => st.data = <<>>) =>
           ReverseFor(st.n, next.frsm) /\ next.data = ReadSoFar(reverseReads[next.frsm])
  PROVE  FileIInv'
<1>1. FileTyped /\ toServer \in Seq(ServerMessages) /\ toClient \in Seq(ClientMessages)
  BY DEF FileIInv, FileTyped
<1>2. /\ TransferNumbers' = TransferNumbers /\ TransferNumbers \subseteq Nat \ {0}
      /\ Downloads' = Downloads /\ Uploads' = Uploads
      /\ Downloads \subseteq TransferNumbers /\ Uploads \subseteq TransferNumbers
      /\ ServerMessages' = ServerMessages /\ ClientMessages' = ClientMessages
  BY <1>1, SameTransfers
<1>3. toServer' \in Seq(ServerMessages) /\ toClient' \in Seq(ClientMessages)
  BY <1>1, HeadTailProperties, SentAtTheEnd
<1>4. FileTyped'
  <2>1. obtain' \subseteq [n : Uploads', frsm : Nat, data : FileData] /\ \A a, b \in obtain' : a = b
    BY <1>2
  <2> QED BY <1>1, <1>2, <1>3, <2>1 DEF FileTyped
<1>5. \A kinds, numbers : Fewer(toServer', toServer, kinds, numbers)
  BY <1>1, TakenMessage
<1>6. ASSUME NEW kinds, NEW numbers, "read" \notin kinds
      PROVE  /\ At(toClient', kinds, numbers) = At(toClient, kinds, numbers)
             /\ Fewer(toClient', toClient, kinds, numbers)
  <2>1. ~(sent.kind \in kinds /\ sent.n \in numbers)
    BY <1>6
  <2>2. /\ Fewer(toClient \o <<sent>>, toClient, kinds, numbers)
        /\ At(toClient \o <<sent>>, kinds, numbers) = At(toClient, kinds, numbers)
    BY <1>1, <2>1, SentElse
  <2> QED BY <2>2
<1>7. ASSUME NEW k \in Downloads' PROVE DownloadGoesOn(k)'
  <2>1. k \in Downloads /\ DownloadGoesOn(k) /\ k \in TransferNumbers
    BY <1>2 DEF FileIInv
  <2>2. Fewer(toClient', toClient, FileAnswers, {k})
    BY <1>6 DEF FileAnswers
  <2> QED BY <1>1, <1>5, <2>1, <2>2, DownloadsStay DEF DownloadStays
<1>8. ASSUME NEW k \in Uploads', transfers'[k].alone PROVE UploadGoesOn(k)'
  <2>1. k \in Uploads /\ k \in Nat /\ UploadGoesOn(k) /\ k \in TransferNumbers
    BY <1>2, <1>8 DEF FileIInv
  <2>2. /\ AskedFirst(k)'
        /\ st.n = k =>
             /\ truth[k] = NoFile /\ (st.frsm = 0 => st.data = <<>>)
             /\ At(toServer', ReverseKinds, Nat) = {} /\ At(toClient, FileRequests, Nat) = {}
             /\ ReverseAnswerFits(k, st, m)
    BY <1>1, <2>1, ObtainTurn
  <2>3. StoredWhole(k)'
    <3>1. At(toClient', {"obtained"}, {k}) = At(toClient, {"obtained"}, {k})
      BY <1>6
    <3> QED BY <2>1, <3>1 DEF UploadGoesOn, StoredWhole
  <2>4. ASSUME st.n = k
        PROVE  /\ truth'[k] = NoFile /\ At(toServer', ReverseKinds, Nat) = {}
               /\ AtMostOne(toClient', FileRequests, Nat)
               /\ \A j \in At(toClient', FileRequests, Nat) : ReverseRequestFits(k, next, toClient[j])'
    <3>1. sent.n = 0 /\ sent.kind \in FileRequests
      BY <1>1, ClientMessageKinds DEF FileRequests
    <3>2. At(toClient', FileRequests, Nat) = {Len(toClient) + 1}
      <4>1. sent.n \in Nat
        BY <3>1
      <4>2. At(toClient \o <<sent>>, FileRequests, Nat) = At(toClient, FileRequests, Nat) \cup {Len(toClient) + 1}
        BY <1>1, <3>1, <4>1, SentToo
      <4> QED BY <2>2, <2>4, <4>2
    <3>3. toClient'[Len(toClient) + 1] = sent
      BY <1>1, SentAtTheEnd
    <3>4. ReverseFor(k, next.frsm) /\ next.data = ReadSoFar(reverseReads[next.frsm])
      BY <2>2, <2>4
    <3>5. ReverseRequestFits(k, next, sent)'
      BY <3>4 DEF ReverseRequestFits, ReverseFor
    <3>6. \A j \in At(toClient', FileRequests, Nat) : ReverseRequestFits(k, next, toClient[j])'
      BY <3>2, <3>3, <3>5 DEF ReverseRequestFits, ReverseFor
    <3> QED BY <2>2, <2>4, <3>2, <3>6 DEF AtMostOne
  <2>5. ObtainedAlone(k)'
    <3>1. \A x \in obtain' : x = next
      OBVIOUS
    <3> QED BY <2>4, <3>1 DEF ObtainedAlone, AtMostOne
  <2> QED BY <2>2, <2>3, <2>5 DEF UploadGoesOn
<1> QED BY <1>4, <1>7, <1>8 DEF FileIInv

(* It stores the whole file, or gives up.                                   *)
LEMMA ObtainEndsKeeps ==
  ASSUME FileIInv, toServer # <<>>, toServer' = Tail(toServer),
         NEW m \in ServerMessages, m = Head(toServer), m.kind \in ReverseKinds,
         UNCHANGED <<removals, offered, reverseReads, transfers, openFiles>>,
         obtain' = {}, filestore' \in [FileNames -> FileData],
         NEW n \in Uploads, truth' \in Seq(FileData), Len(truth') = Len(truth),
         \A k \in TransferNumbers : k # n => truth'[k] = truth[k],
         toClient' \in Seq(ClientMessages),
         \A k \in Downloads : Fewer(toClient', toClient, FileAnswers, {k}),
         \A k \in Uploads : k # n => Fewer(toClient', toClient, {"obtained"}, {k}),
         transfers[n].alone => StoredWhole(n)'
  PROVE  FileIInv'
<1>1. FileTyped /\ toServer \in Seq(ServerMessages) /\ toClient \in Seq(ClientMessages)
  BY DEF FileIInv, FileTyped
<1>2. /\ TransferNumbers' = TransferNumbers /\ TransferNumbers \subseteq Nat \ {0}
      /\ Downloads' = Downloads /\ Uploads' = Uploads
      /\ Downloads \subseteq TransferNumbers /\ Uploads \subseteq TransferNumbers
      /\ ServerMessages' = ServerMessages /\ ClientMessages' = ClientMessages
  BY <1>1, SameTransfers
<1>3. toServer' \in Seq(ServerMessages)
  BY <1>1, HeadTailProperties
<1>4. FileTyped'
  BY <1>1, <1>2, <1>3 DEF FileTyped
<1>5. ASSUME NEW k \in Downloads' PROVE DownloadGoesOn(k)'
  <2>1. k \in Downloads /\ DownloadGoesOn(k) /\ k \in TransferNumbers /\ k # n
    BY <1>2 DEF FileIInv, Downloads, Uploads
  <2>2. Fewer(toServer', toServer, FileRequests, {k})
    BY <1>1, TakenMessage
  <2> QED BY <1>1, <2>1, <2>2, DownloadsStay DEF DownloadStays
<1>6. ASSUME NEW k \in Uploads', transfers'[k].alone PROVE UploadGoesOn(k)'
  <2>1. k \in Uploads /\ k \in Nat /\ UploadGoesOn(k) /\ k \in TransferNumbers
    BY <1>2, <1>6 DEF FileIInv
  <2>2. AskedFirst(k)'
    BY <1>1, <2>1, ObtainTurn
  <2>3. StoredWhole(k)'
    <3>1. CASE k = n
      BY <1>6, <3>1
    <3>2. CASE k # n
      <4>1. At(toClient', {"obtained"}, {k}) # {} => At(toClient, {"obtained"}, {k}) # {}
        BY <2>1, <3>2 DEF Fewer
      <4> QED BY <2>1, <3>2, <4>1 DEF UploadGoesOn, StoredWhole
    <3> QED BY <3>1, <3>2
  <2>4. ObtainedAlone(k)'
    BY DEF ObtainedAlone
  <2> QED BY <2>2, <2>3, <2>4 DEF UploadGoesOn
<1> QED BY <1>4, <1>5, <1>6 DEF FileIInv

(* The whole file came, but could not be stored.                            *)
LEMMA ObtainFailsKeeps ==
  ASSUME FileIInv, toServer # <<>>, toServer' = Tail(toServer),
         NEW m \in ServerMessages, m = Head(toServer), m.kind \in ReverseKinds,
         UNCHANGED <<removals, offered, reverseReads, transfers, openFiles, truth>>,
         obtain' = {}, NEW f, NEW data \in FileData, filestore' \in NotStored(f, data),
         NEW n \in Uploads, n \in Nat, NEW frsm \in Nat,
         toClient' = toClient \o <<Request("close", 0, frsm), Done("error", n)>>
  PROVE  FileIInv'
<1>1. /\ FileTyped /\ toClient \in Seq(ClientMessages) /\ truth \in Seq(FileData)
      /\ filestore \in [FileNames -> FileData] /\ n \in TransferNumbers
  BY DEF FileIInv, FileTyped, Uploads
<1>2. filestore' \in [FileNames -> FileData]
  <2>1. CASE filestore' = filestore
    BY <1>1, <2>1
  <2>2. ASSUME NEW k \in 0..(Len(data) - 1), filestore' = Stored(f, SubSeq(data, 1, k))
        PROVE  filestore' \in [FileNames -> FileData]
    <3>1. SubSeq(data, 1, k) \in FileData
      <4>1. k \in Nat /\ k <= Len(data)
        BY DEF FileData
      <4> QED BY <4>1 DEF FileData
    <3> QED BY <1>1, <2>2, <3>1 DEF Stored
  <2> QED BY <2>1, <2>2 DEF NotStored
<1>3. PICK a \in ClientMessages : a = Request("close", 0, frsm)
  BY DEF ClientMessages
<1>4. PICK b \in ClientMessages : b = Done("error", n)
  BY <1>1 DEF ClientMessages
<1>5. /\ a.kind = "close" /\ b.kind = "error" /\ b.n = n
      /\ toClient' = toClient \o <<a, b>> /\ toClient' \in Seq(ClientMessages)
  BY <1>1, <1>3, <1>4 DEF Request, Done
<1>6. ASSUME NEW kinds, NEW numbers, "close" \notin kinds, "error" \notin kinds \/ n \notin numbers
      PROVE  Fewer(toClient', toClient, kinds, numbers)
  <2>1. ~(a.kind \in kinds /\ a.n \in numbers) /\ ~(b.kind \in kinds /\ b.n \in numbers)
    BY <1>5, <1>6
  <2>2. Fewer(toClient \o <<a, b>>, toClient, kinds, numbers)
    BY <1>1, <2>1, SentTwoElse
  <2> QED BY <1>5, <2>2
<1>7. \A j \in Downloads : Fewer(toClient', toClient, FileAnswers, {j})
  <2>1. ASSUME NEW j \in Downloads PROVE n \notin {j}
    BY DEF Downloads, Uploads
  <2> QED BY <1>6, <2>1 DEF FileAnswers
<1>8. \A j \in Uploads : Fewer(toClient', toClient, {"obtained"}, {j})
  BY <1>6
<1>9. ASSUME transfers[n].alone PROVE StoredWhole(n)'
  <2>1. UploadGoesOn(n)
    BY <1>9 DEF FileIInv
  <2>2. At(toClient', {"obtained"}, {n}) # {} => At(toClient, {"obtained"}, {n}) # {}
    BY <1>8 DEF Fewer
  <2> QED BY <2>1, <2>2 DEF UploadGoesOn, StoredWhole
<1>10. truth' \in Seq(FileData) /\ Len(truth') = Len(truth) /\ \A k \in TransferNumbers : k # n => truth'[k] = truth[k]
  BY <1>1
<1> QED BY <1>2, <1>5, <1>7, <1>8, <1>9, <1>10, ObtainEndsKeeps

LEMMA ObtainStepKeeps ==
  ASSUME FileIInv, toServer # <<>>, toServer' = Tail(toServer),
         Head(toServer).kind \in ReverseKinds, ObtainStep(Head(toServer)),
         UNCHANGED <<removals, offered, reverseReads, transfers>>
  PROVE  FileIInv'
<1>1. /\ FileTyped /\ toServer \in Seq(ServerMessages) /\ toClient \in Seq(ClientMessages)
      /\ filestore \in [FileNames -> FileData] /\ \A a, b \in obtain : a = b
      /\ obtain \subseteq [n : Uploads, frsm : Nat, data : FileData]
      /\ truth \in Seq(FileData) /\ Len(truth) = Len(transfers) /\ transfers \in Seq(TransferRecord)
  BY DEF FileIInv, FileTyped
<1>2. PICK m \in ServerMessages : m = Head(toServer)
  BY <1>1, HeadTailProperties
<1>3. /\ m.kind \in ReverseKinds /\ ObtainStep(m) /\ UNCHANGED openFiles
      /\ m.kind = "opened" => m.frsm \in Nat \ {0}
      /\ m.kind = "chunk" => m.data \in FileData /\ m.more \in BOOLEAN
  BY <1>1, <1>2, ServerMessageKinds DEF ObtainStep
<1>4. CASE obtain = {}
  <2>1. UNCHANGED <<filestore, obtain, truth, toClient>>
    BY <1>3, <1>4 DEF ObtainStep
  <2>2. /\ TransferNumbers' = TransferNumbers /\ TransferNumbers \subseteq Nat \ {0}
        /\ Downloads' = Downloads /\ Uploads' = Uploads
        /\ Downloads \subseteq TransferNumbers /\ Uploads \subseteq TransferNumbers
        /\ ServerMessages' = ServerMessages /\ ClientMessages' = ClientMessages
    BY <1>1, SameTransfers
  <2>3. toServer' \in Seq(ServerMessages)
    BY <1>1, HeadTailProperties
  <2>4. FileTyped'
    BY <1>1, <1>3, <2>1, <2>2, <2>3 DEF FileTyped
  <2>5. \A kinds, numbers : Fewer(toServer', toServer, kinds, numbers) /\ Fewer(toClient', toClient, kinds, numbers)
    BY <1>1, <2>1, TakenMessage, SameMessages
  <2>6. ASSUME NEW k \in Downloads' PROVE DownloadGoesOn(k)'
    <3>1. k \in Downloads /\ DownloadGoesOn(k)
      BY <2>2 DEF FileIInv
    <3> QED BY <1>1, <1>3, <2>1, <2>5, <3>1, DownloadsStay DEF DownloadStays
  <2>7. ASSUME NEW k \in Uploads', transfers'[k].alone PROVE UploadGoesOn(k)'
    <3>1. k \in Uploads /\ k \in Nat /\ UploadGoesOn(k)
      BY <2>2, <2>7 DEF FileIInv
    <3> QED BY <1>1, <1>3, <2>1, <2>5, <3>1, UploadsStay DEF UploadStays
  <2> QED BY <2>4, <2>6, <2>7 DEF FileIInv
<1>5. ASSUME NEW st \in obtain, obtain # {} PROVE FileIInv'
  <2>1. PICK k \in Uploads, frsm \in Nat, data \in FileData : st = [n |-> k, frsm |-> frsm, data |-> data]
    BY <1>1
  <2>2. /\ st.n = k /\ st.frsm = frsm /\ st.data = data /\ obtain = {st}
        /\ k \in TransferNumbers /\ k \in Nat
    <3>1. TransferNumbers \subseteq Nat
      BY <1>1 DEF TransferNumbers
    <3> QED BY <1>1, <2>1, <3>1 DEF Uploads
  <2>3. CASE frsm = 0 /\ m.kind = "opened"
    <3>1. PICK new \in Nat : new = m.frsm /\ new # 0
      BY <1>3, <2>3
    <3>2. /\ obtain' = {[st EXCEPT !.frsm = new]}
          /\ toClient' = toClient \o <<Request("read", 0, new)>> /\ UNCHANGED <<filestore, truth>>
      BY <1>3, <2>2, <2>3, <3>1 DEF ObtainStep, Tells
    <3>3. PICK next \in [n : Uploads, frsm : Nat, data : FileData] :
            next = [n |-> k, frsm |-> new, data |-> data]
      OBVIOUS
    <3>4. obtain' = {next} /\ next.n = st.n /\ next.frsm = new /\ next.data = data
      BY <2>1, <3>2, <3>3
    <3>5. PICK sent \in ClientMessages : sent = Request("read", 0, new)
      BY DEF ClientMessages
    <3>6. sent.kind = "read" /\ sent.frsm = new /\ toClient' = toClient \o <<sent>>
      BY <3>2, <3>5 DEF Request
    <3>7. ASSUME ReverseAnswerFits(st.n, st, m), st.frsm = 0 => st.data = <<>>
          PROVE  ReverseFor(st.n, next.frsm) /\ next.data = ReadSoFar(reverseReads[next.frsm])
      <4>1. ReverseFor(st.n, new) /\ reverseReads[new].pos = 0 /\ data = <<>>
        BY <2>2, <2>3, <3>1, <3>7 DEF ReverseAnswerFits
      <4>2. reverseReads[new] \in OpenFile
        BY <1>1, <4>1 DEF FileTyped, ReverseFor
      <4>3. ReadSoFar(reverseReads[new]) = <<>>
        BY <4>1, <4>2, ReadingOn
      <4> QED BY <3>4, <4>1, <4>3
    <3>8. /\ UNCHANGED <<removals, offered, reverseReads, transfers, openFiles, filestore, truth>>
          /\ next.frsm # 0 /\ sent.frsm = next.frsm
      BY <1>3, <3>1, <3>2, <3>4, <3>6
    <3>9. ReverseAnswerFits(st.n, st, m) /\ (st.frsm = 0 => st.data = <<>>) =>
            ReverseFor(st.n, next.frsm) /\ next.data = ReadSoFar(reverseReads[next.frsm])
      BY <3>7
    <3> QED BY <1>2, <1>3, <3>4, <3>6, <3>8, <3>9, ObtainGoesOnKeeps
  <2>4. CASE frsm # 0 /\ m.kind = "chunk" /\ m.more
    <3>1. /\ obtain' = {[st EXCEPT !.data = Collected(st, m)]}
          /\ toClient' = toClient \o <<Request("read", 0, frsm)>> /\ UNCHANGED <<filestore, truth>>
      BY <1>3, <2>2, <2>4 DEF ObtainStep, Tells
    <3>2. PICK more \in FileData : more = Collected(st, m)
      <4>1. st.data \in FileData /\ m.data \in FileData
        BY <1>3, <2>2, <2>4
      <4>2. st.data \o m.data \in FileData
        BY <4>1 DEF FileData
      <4> QED BY <4>2 DEF Collected
    <3>3. PICK next \in [n : Uploads, frsm : Nat, data : FileData] :
            next = [n |-> k, frsm |-> frsm, data |-> more]
      OBVIOUS
    <3>4. obtain' = {next} /\ next.n = st.n /\ next.frsm = frsm /\ next.data = more
      BY <2>1, <3>1, <3>2, <3>3
    <3>5. PICK sent \in ClientMessages : sent = Request("read", 0, frsm)
      BY DEF ClientMessages
    <3>6. sent.kind = "read" /\ sent.frsm = frsm /\ toClient' = toClient \o <<sent>>
      BY <3>1, <3>5 DEF Request
    <3>7. ASSUME ReverseAnswerFits(st.n, st, m)
          PROVE  ReverseFor(st.n, next.frsm) /\ next.data = ReadSoFar(reverseReads[next.frsm])
      BY <2>2, <2>4, <3>2, <3>4, <3>7 DEF ReverseAnswerFits, Collected
    <3>8. /\ UNCHANGED <<removals, offered, reverseReads, transfers, openFiles, filestore, truth>>
          /\ next.frsm # 0 /\ sent.frsm = next.frsm
      BY <1>3, <2>4, <3>1, <3>4, <3>6
    <3>9. ReverseAnswerFits(st.n, st, m) /\ (st.frsm = 0 => st.data = <<>>) =>
            ReverseFor(st.n, next.frsm) /\ next.data = ReadSoFar(reverseReads[next.frsm])
      BY <3>7
    <3> QED BY <1>2, <1>3, <3>4, <3>6, <3>8, <3>9, ObtainGoesOnKeeps
  <2>5. CASE frsm # 0 /\ m.kind = "chunk" /\ ~m.more
    <3>0. /\ obtain' = {}
          /\ \/ /\ filestore' = Stored(transfers[k].file, Collected(st, m))
                /\ truth' = [truth EXCEPT ![k] = Collected(st, m)]
                /\ toClient' = toClient \o <<Request("close", 0, frsm), Done("obtained", k)>>
             \/ /\ filestore' \in NotStored(transfers[k].file, Collected(st, m))
                /\ UNCHANGED truth
                /\ toClient' = toClient \o <<Request("close", 0, frsm), Done("error", k)>>
      BY <1>3, <2>2, <2>5 DEF ObtainStep, Tells
    <3>2. PICK whole \in FileData : whole = Collected(st, m)
      <4>1. st.data \in FileData /\ m.data \in FileData
        BY <1>3, <2>2, <2>5
      <4>2. st.data \o m.data \in FileData
        BY <4>1 DEF FileData
      <4> QED BY <4>2 DEF Collected
    <3>12. ASSUME filestore' \in NotStored(transfers[k].file, whole), UNCHANGED truth,
                  toClient' = toClient \o <<Request("close", 0, frsm), Done("error", k)>>
           PROVE  FileIInv'
      BY <1>2, <1>3, <2>2, <3>0, <3>12, ObtainFailsKeeps
    <3> SUFFICES ASSUME filestore' = Stored(transfers[k].file, whole),
                        truth' = [truth EXCEPT ![k] = whole],
                        toClient' = toClient \o <<Request("close", 0, frsm), Done("obtained", k)>>
                 PROVE  FileIInv'
      BY <3>0, <3>2, <3>12
    <3>1. /\ obtain' = {} /\ filestore' = Stored(transfers[k].file, whole)
          /\ truth' = [truth EXCEPT ![k] = whole]
          /\ toClient' = toClient \o <<Request("close", 0, frsm), Done("obtained", k)>>
      BY <3>0
    <3>3. filestore' \in [FileNames -> FileData]
      BY <1>1, <3>1, <3>2 DEF Stored
    <3>4. /\ truth' \in Seq(FileData) /\ Len(truth') = Len(truth) /\ truth'[k] = whole
          /\ \A j \in TransferNumbers : j # k => truth'[j] = truth[j]
      BY <1>1, <2>2, <3>1, <3>2 DEF TransferNumbers
    <3>5. PICK a \in ClientMessages : a = Request("close", 0, frsm)
      BY DEF ClientMessages
    <3>6. PICK b \in ClientMessages : b = Done("obtained", k)
      BY DEF ClientMessages
    <3>7. /\ a.kind = "close" /\ b.kind = "obtained" /\ b.n = k
          /\ toClient' = toClient \o <<a, b>> /\ toClient' \in Seq(ClientMessages)
      BY <1>1, <3>1, <3>5, <3>6 DEF Request, Done
    <3>8. ASSUME NEW kinds, NEW numbers, "close" \notin kinds, "obtained" \notin kinds \/ k \notin numbers
          PROVE  Fewer(toClient', toClient, kinds, numbers)
      <4>1. ~(a.kind \in kinds /\ a.n \in numbers) /\ ~(b.kind \in kinds /\ b.n \in numbers)
        BY <3>7, <3>8
      <4>2. Fewer(toClient \o <<a, b>>, toClient, kinds, numbers)
        BY <1>1, <4>1, SentTwoElse
      <4> QED BY <3>7, <4>2
    <3>9. \A j \in Downloads : Fewer(toClient', toClient, FileAnswers, {j})
      BY <3>8 DEF FileAnswers
    <3>10. \A j \in Uploads : j # k => Fewer(toClient', toClient, {"obtained"}, {j})
      BY <3>8
    <3>11. ASSUME transfers[k].alone PROVE StoredWhole(k)'
      <4>1. UploadGoesOn(k)
        BY <3>11 DEF FileIInv
      <4>2. ReverseAnswerFits(k, st, m)
        BY <1>1, <1>2, <1>3, <2>2, <4>1, ObtainTurn
      <4>3. whole = Contents(k)
        BY <2>2, <2>5, <3>2, <4>2 DEF ReverseAnswerFits, Collected
      <4> QED BY <3>4, <4>3 DEF StoredWhole
    <3> QED BY <1>2, <1>3, <3>1, <3>3, <3>4, <3>7, <3>9, <3>10, <3>11, ObtainEndsKeeps
  <2>6. CASE ~(frsm = 0 /\ m.kind = "opened") /\ ~(frsm # 0 /\ m.kind = "chunk")
    <3>1. obtain' = {} /\ UNCHANGED <<filestore, truth>> /\ toClient' = toClient \o <<Done("error", k)>>
      BY <1>3, <2>2, <2>6 DEF ObtainStep, Tells, Refused
    <3>2. PICK sent \in ClientMessages : sent = Done("error", k)
      BY <2>2 DEF ClientMessages
    <3>3. sent.kind = "error" /\ sent.n = k /\ toClient' = toClient \o <<sent>>
      BY <3>1, <3>2 DEF Done
    <3>4. toClient' \in Seq(ClientMessages)
      BY <1>1, <3>3, SentAtTheEnd
    <3>5. ASSUME NEW kinds, NEW numbers, "error" \notin kinds \/ k \notin numbers
          PROVE  /\ At(toClient', kinds, numbers) = At(toClient, kinds, numbers)
                 /\ Fewer(toClient', toClient, kinds, numbers)
      <4>1. ~(sent.kind \in kinds /\ sent.n \in numbers)
        BY <3>3, <3>5
      <4>2. /\ Fewer(toClient \o <<sent>>, toClient, kinds, numbers)
            /\ At(toClient \o <<sent>>, kinds, numbers) = At(toClient, kinds, numbers)
        BY <1>1, <4>1, SentElse
      <4> QED BY <3>3, <4>2
    <3>6. ASSUME NEW j \in Downloads PROVE Fewer(toClient', toClient, FileAnswers, {j})
      <4>1. j # k
        BY DEF Downloads, Uploads
      <4> QED BY <3>5, <4>1
    <3>7. \A j \in Uploads : j # k => Fewer(toClient', toClient, {"obtained"}, {j})
      BY <3>5
    <3>8. ASSUME transfers[k].alone PROVE StoredWhole(k)'
      <4>1. UploadGoesOn(k)
        BY <3>8 DEF FileIInv
      <4>2. At(toClient', {"obtained"}, {k}) = At(toClient, {"obtained"}, {k})
        BY <3>5
      <4> QED BY <3>1, <4>1, <4>2 DEF UploadGoesOn, StoredWhole
    <3>9. \A j \in TransferNumbers : j # k => truth'[j] = truth[j]
      BY <3>1
    <3> QED BY <1>1, <1>2, <1>3, <3>1, <3>4, <3>6, <3>7, <3>8, <3>9, ObtainEndsKeeps
  <2> QED BY <1>3, <2>3, <2>4, <2>5, <2>6
<1> QED BY <1>4, <1>5

LEMMA ServerReadsKeeps ==
  ASSUME FileIInv, ServerReads
  PROVE  FileIInv'
<1>1. /\ toServer # <<>> /\ toServer' = Tail(toServer)
      /\ UNCHANGED <<removals, offered, reverseReads, transfers>>
      /\ Head(toServer).kind \in FileRequests \cup {"obtain"} \cup ReverseKinds
  <2>1. FileTyped /\ toServer \in Seq(ServerMessages)
    BY DEF FileIInv, FileTyped
  <2>2. toServer # <<>>
    BY DEF ServerReads
  <2>3. Head(toServer) \in ServerMessages
    BY <2>1, <2>2, HeadTailProperties
  <2> QED BY <2>1, <2>2, <2>3, ServerMessageKinds DEF ServerReads
<1>2. CASE Head(toServer).kind = "obtain"
  <2>1. StartObtain(Head(toServer))
    BY <1>2 DEF ServerReads
  <2> QED BY <1>1, <1>2, <2>1, StartObtainKeeps
<1>3. CASE Head(toServer).kind \in ReverseKinds
  <2>1. ObtainStep(Head(toServer))
    BY <1>3 DEF ServerReads, ReverseKinds
  <2> QED BY <1>1, <1>3, <2>1, ObtainStepKeeps
<1>4. CASE Head(toServer).kind \in FileRequests
  <2>1. ServeDownload(Head(toServer))
    BY <1>4 DEF ServerReads, ReverseKinds, FileRequests
  <2> QED BY <1>1, <1>4, <2>1, ServeDownloadKeeps
<1> QED BY <1>1, <1>2, <1>3, <1>4

LEMMA FileInitially == FileInit => FileIInv
<1> SUFFICES ASSUME FileInit PROVE FileIInv
  OBVIOUS
<1>1. /\ transfers = <<>> /\ truth = <<>> /\ offered = {} /\ obtain = {} /\ openFiles = <<>>
      /\ reverseReads = <<>> /\ toServer = <<>> /\ toClient = <<>>
      /\ filestore = [f \in FileNames |-> Contents(0)]
  BY DEF FileInit
<1>2. TransferNumbers = {} /\ Downloads = {} /\ Uploads = {}
  BY <1>1 DEF TransferNumbers, Downloads, Uploads
<1>3. filestore \in [FileNames -> FileData]
  BY <1>1, ContentsAreData
<1>4. /\ openFiles \in [DOMAIN openFiles -> OpenFile] /\ DOMAIN openFiles = {}
      /\ reverseReads \in [DOMAIN reverseReads -> OpenFile] /\ DOMAIN reverseReads = {}
  BY <1>1
<1>5. toServer \in Seq(ServerMessages) /\ toClient \in Seq(ClientMessages)
  BY <1>1
<1>6. \E bound \in Nat : \A frsm \in DOMAIN reverseReads : frsm <= bound
  BY <1>4
<1>7. FileTyped
  BY <1>1, <1>2, <1>3, <1>4, <1>5, <1>6 DEF FileTyped
<1> QED BY <1>2, <1>7 DEF FileIInv

LEMMA ObtainedStays ==
  ASSUME NEW n, ObtainedAlone(n),
         UNCHANGED <<filestore, offered, obtain, reverseReads, toServer, toClient, truth>>
  PROVE  ObtainedAlone(n)'
<1>1. ASSUME NEW st, NEW m, ReverseRequestFits(n, st, m) PROVE ReverseRequestFits(n, st, m)'
  BY <1>1 DEF ReverseRequestFits, ReverseFor
<1>2. ASSUME NEW st, NEW m, ReverseAnswerFits(n, st, m) PROVE ReverseAnswerFits(n, st, m)'
  BY <1>2 DEF ReverseAnswerFits, ReverseFor
<1> QED BY <1>1, <1>2 DEF ObtainedAlone

LEMMA FileStep == FileIInv /\ [FileNext]_fileVars => FileIInv'
<1> SUFFICES ASSUME FileIInv, [FileNext]_fileVars PROVE FileIInv'
  OBVIOUS
<1>1. ASSUME NEW do \in {"upload", "download"}, NEW f \in FileNames, Transfer(do, f) PROVE FileIInv'
  BY <1>1, TransferKeeps
<1>2. ASSUME NEW n \in TransferNumbers, GiveUpTransfer(n) PROVE FileIInv'
  BY <1>2, GiveUpKeeps
<1>3. ASSUME ClientReads PROVE FileIInv'
  BY <1>3, ClientReadsKeeps
<1>4. ASSUME ServerReads PROVE FileIInv'
  BY <1>4, ServerReadsKeeps
<1>5. ASSUME NEW f \in FileNames, RemoveFile(f) PROVE FileIInv'
  BY <1>5, RemoveFileKeeps
<1>6. CASE UNCHANGED fileVars
  <2>1. UNCHANGED <<filestore, removals, openFiles, obtain, offered, reverseReads,
                    toServer, toClient, transfers, truth>>
    BY <1>6 DEF fileVars
  <2>2. FileTyped
    BY DEF FileIInv
  <2>3. /\ TransferNumbers' = TransferNumbers /\ Downloads' = Downloads /\ Uploads' = Uploads
        /\ ServerMessages' = ServerMessages /\ ClientMessages' = ClientMessages
    BY <2>1, <2>2, SameTransfers
  <2>4. FileTyped'
    BY <2>1, <2>2, <2>3 DEF FileTyped
  <2>5. ASSUME NEW n \in Downloads' PROVE DownloadGoesOn(n)'
    <3>1. DownloadGoesOn(n)
      BY <2>3 DEF FileIInv
    <3> QED BY <2>1, <3>1 DEF DownloadGoesOn, Busy, RequestFits, AnswerFits, OpenAsTold
  <2>6. ASSUME NEW n \in Uploads', transfers'[n].alone PROVE UploadGoesOn(n)'
    <3>1. UploadGoesOn(n)
      BY <2>1, <2>3, <2>6 DEF FileIInv
    <3>2. AskedFirst(n)'
      BY <2>1, <3>1 DEF UploadGoesOn, AskedFirst
    <3>3. ObtainedAlone(n)'
      BY <2>1, <3>1, ObtainedStays DEF UploadGoesOn
    <3>4. StoredWhole(n)'
      BY <2>1, <3>1 DEF UploadGoesOn, StoredWhole
    <3> QED BY <3>2, <3>3, <3>4 DEF UploadGoesOn
  <2> QED BY <2>4, <2>5, <2>6 DEF FileIInv
<1> QED BY <1>1, <1>2, <1>3, <1>4, <1>5, <1>6 DEF FileNext

(* While files are opened, read, stored, renamed and removed, a download in *)
(* progress has what was read of the file it opened, and the reverse read   *)
(* of an upload alone on its connection is of the file that was offered.    *)
THEOREM FileInvariance == FileSpec => []FileIInv
<1> QED BY FileInitially, FileStep, PTL DEF FileSpec

(* A download that succeeded returned the file as it was when it was        *)
(* opened, and an upload that had the connection for itself is stored as    *)
(* it was offered, and is if the call says so.                              *)
THEOREM FilesAreExact == FileSpec => []TransfersAreExact
<1>1. ASSUME FileIInv PROVE TransfersAreExact
  <2>1. ASSUME NEW n \in TransferNumbers, transfers[n].do = "download", transfers[n].phase = "ok"
        PROVE  transfers[n].got = truth[n]
    BY <1>1, <2>1 DEF FileIInv, Downloads, DownloadGoesOn
  <2>2. ASSUME NEW n \in Uploads, transfers[n].alone
        PROVE  /\ truth[n] \in {NoFile, Contents(n)}
               /\ transfers[n].phase = "ok" => truth[n] = Contents(n)
    BY <1>1, <2>2 DEF FileIInv, UploadGoesOn, StoredWhole
  <2> QED BY <2>1, <2>2 DEF TransfersAreExact
<1> QED BY <1>1, FileInvariance, PTL
=============================================================================
