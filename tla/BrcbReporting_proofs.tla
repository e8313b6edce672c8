------------------------- MODULE BrcbReporting_proofs -------------------------
(***************************************************************************)
(* Proofs about the reservation table and about buffered reporting, which  *)
(* works under its locks, for any number of blocks, clients, connections,  *)
(* items and writes, windows and capacities of any size, and any requests  *)
(* of the clients.                                                         *)
(***************************************************************************)
EXTENDS BrcbReporting, TLAPS

-----------------------------------------------------------------------------
(* The reservation table.                                                   *)

(* Every entry of the table names a connection that was accepted.          *)
EntriesAreKnown ==
  \A r \in Rcbs : resv[r].conn \in 0..Len(clientOf)

(* A connection that uses a block and has not given it up has reserved it. *)
EnabledIsReserved ==
  \A e \in enabled \ released : resv[e[2]].conn = e[1]

(* An enabling write that is about to take effect still has its block.     *)
EnablingIsReserved ==
  \A g \in granted : Enables(g.write) =>
    /\ resv[g.write.rcb].conn = g.conn
    /\ <<g.conn, g.write.rcb>> \notin released

ReservationIInv ==
  /\ ReservationTypeOK
  /\ EntriesAreKnown
  /\ LiveReservationsHaveOwners
  /\ EnabledIsReserved
  /\ EnablingIsReserved

USE DEF Conns, NoConn, Alive, Free, Reservation

(* Initially the table is empty and nobody is connected.                   *)
LEMMA ReservationInitIInv == ReservationInit => ReservationIInv
  BY MaxConnsAssumption
     DEF ReservationInit, ReservationIInv, ReservationTypeOK, EntriesAreKnown, LiveReservationsHaveOwners,
         EnabledIsReserved, EnablingIsReserved

(* A connection is idle only while none of its writes is pending.          *)
LEMMA IdleHasNoPending ==
  ASSUME NEW c, Idle(c)
  PROVE  /\ c \in live
         /\ \A g \in granted : g.conn # c
  BY DEF Idle, Pending

(* A new connection finds no trace of its conn_id anywhere.                *)
LEMMA AcceptIInv ==
  ASSUME ReservationIInv, NEW k \in Clients, OpenConnection(k)
  PROVE  ReservationIInv'
<1> USE DEF OpenConnection, ReservationIInv
<1>1. /\ Len(clientOf') = Len(clientOf) + 1
      /\ Len(clientOf) \in Nat
      /\ clientOf' \in Seq(Clients)
  BY DEF ReservationTypeOK
<1>2. ReservationTypeOK'
  <2>1. live' \subseteq 1..Len(clientOf')
    <3>1. live \subseteq 1..Len(clientOf) /\ live' = live \cup {Len(clientOf) + 1}
      BY DEF ReservationTypeOK
    <3>2. \A n \in Nat : 1..n \cup {n + 1} \subseteq 1..(n + 1)
      OBVIOUS
    <3>3. 1..Len(clientOf) \cup {Len(clientOf) + 1} \subseteq 1..(Len(clientOf) + 1)
      BY <3>2, <1>1
    <3> QED BY <3>1, <3>3, <1>1, Zenon
  <2>2. granted \subseteq [conn : live', write : Requests]
    BY DEF ReservationTypeOK
  <2>3. enabled \subseteq live' \X Rcbs /\ released \subseteq live' \X Rcbs
    BY DEF ReservationTypeOK
  <2> QED BY <1>1, <2>1, <2>2, <2>3, MaxConnsAssumption DEF ReservationTypeOK
<1>3. EntriesAreKnown'
  BY <1>1 DEF EntriesAreKnown
<1>4. LiveReservationsHaveOwners'
  BY <1>1 DEF LiveReservationsHaveOwners, EntriesAreKnown, ReservationTypeOK
<1>5. EnabledIsReserved' /\ EnablingIsReserved'
  BY DEF EnabledIsReserved, EnablingIsReserved
<1> QED BY <1>2, <1>3, <1>4, <1>5

(* The check keeps the table consistent: it only changes the entry of a    *)
(* block that nobody else holds.                                           *)
LEMMA GrantIInv ==
  ASSUME ReservationIInv, NEW c \in Conns, NEW w \in Requests, Grant(c, w)
  PROVE  ReservationIInv'
<1> USE DEF Grant, ReservationIInv
<1>1. /\ c \in live
      /\ \A g \in granted : g.conn # c
  BY IdleHasNoPending
<1>2. w \in [rcb : Rcbs, attr : STRING, val : Nat]
  BY RequestsAssumption
<1>3. /\ live \subseteq 1..Len(clientOf)
      /\ Len(clientOf) \in Nat
      /\ resv \in [Rcbs -> Reservation]
  BY DEF ReservationTypeOK
<1>4. \/ resv[w.rcb].conn = c
      \/ resv[w.rcb].left = 0
  BY DEF OtherHolds, Holds
<1>5. resv[w.rcb].conn \notin live \/ resv[w.rcb].conn = c
  BY <1>2, <1>4 DEF LiveReservationsHaveOwners
<1>6. AfterCheck(c, w) \in Reservation /\ AfterCheck(c, w).conn \in {0, c, resv[w.rcb].conn}
  BY <1>2, <1>3, MaxConnsAssumption DEF AfterCheck, Reserves
<1>7. AfterCheck(c, w).left = Alive <=> AfterCheck(c, w).conn \in live
  BY <1>1, <1>2, <1>3 DEF AfterCheck, LiveReservationsHaveOwners
<1>8. ReservationTypeOK'
  BY <1>1, <1>2, <1>3, <1>6, MaxConnsAssumption DEF ReservationTypeOK, ReleasedAfter
<1>9. EntriesAreKnown'
  BY <1>1, <1>2, <1>3, <1>6 DEF EntriesAreKnown
<1>10. LiveReservationsHaveOwners'
  BY <1>2, <1>3, <1>7 DEF LiveReservationsHaveOwners
<1>11. EnabledIsReserved'
  <2> SUFFICES ASSUME NEW e \in enabled, e \notin ReleasedAfter(c, w)
               PROVE  resv'[e[2]].conn = e[1]
    BY DEF EnabledIsReserved
  <2>1. e[1] \in live /\ e[2] \in Rcbs /\ e = <<e[1], e[2]>>
    BY DEF ReservationTypeOK
  <2>2. CASE e[2] # w.rcb
    <3>1. e \notin released
      BY <2>1, <2>2 DEF ReleasedAfter
    <3> QED BY <2>1, <2>2, <3>1, <1>3 DEF EnabledIsReserved
  <2>3. CASE e[2] = w.rcb /\ e[1] # c
    <3>1. e \notin released
      BY <2>1, <2>3 DEF ReleasedAfter
    <3>2. resv[w.rcb].conn = e[1]
      BY <2>3, <3>1 DEF EnabledIsReserved
    <3> QED BY <3>2, <2>1, <2>3, <1>5
  <2>4. CASE e[2] = w.rcb /\ e[1] = c
    <3>1. ~Releases(w)
      BY <2>1, <2>4 DEF ReleasedAfter
    <3>2. CASE Reserves(w) \/ Enables(w)
      <4>1. AfterCheck(c, w).conn = c
        BY <3>1, <3>2 DEF AfterCheck
      <4> QED BY <4>1, <2>1, <2>4, <1>3
    <3>3. CASE ~Reserves(w) /\ ~Enables(w)
      <4>1. e \notin released /\ AfterCheck(c, w) = resv[w.rcb]
        BY <3>1, <3>3, <2>1 DEF AfterCheck, ReleasedAfter
      <4> QED BY <4>1, <2>1, <2>4, <1>3 DEF EnabledIsReserved
    <3> QED BY <3>2, <3>3
  <2> QED BY <2>2, <2>3, <2>4
<1>12. EnablingIsReserved'
  <2> SUFFICES ASSUME NEW g \in granted', Enables(g.write)
               PROVE  /\ resv'[g.write.rcb].conn = g.conn
                      /\ <<g.conn, g.write.rcb>> \notin ReleasedAfter(c, w)
    BY DEF EnablingIsReserved, Enables
  <2>1. CASE g \in granted
    <3>1. /\ g.conn \in live /\ g.conn # c /\ g.write \in Requests
          /\ resv[g.write.rcb].conn = g.conn
          /\ <<g.conn, g.write.rcb>> \notin released
      BY <2>1, <1>1 DEF EnablingIsReserved, ReservationTypeOK
    <3>2. g.write.rcb # w.rcb
      BY <3>1, <1>5
    <3> QED BY <3>1, <3>2, <1>3 DEF ReleasedAfter
  <2>2. CASE g = [conn |-> c, write |-> w]
    <3>1. Enables(w) /\ ~Releases(w) /\ ~Reserves(w)
      BY <2>2 DEF Enables, Releases, Reserves
    <3>2. AfterCheck(c, w).conn = c
      BY <3>1 DEF AfterCheck
    <3> QED BY <2>2, <3>1, <3>2, <1>2, <1>3 DEF ReleasedAfter
  <2> QED BY <2>1, <2>2
<1> QED BY <1>8, <1>9, <1>10, <1>11, <1>12

(* A write that takes effect changes who uses the block, not who holds it. *)
LEMMA EffectIInv ==
  ASSUME ReservationIInv, NEW g \in granted, TakeEffect(g)
  PROVE  ReservationIInv'
<1> USE DEF TakeEffect, ReservationIInv
<1>1. g.conn \in live /\ g.write \in Requests /\ g.write.rcb \in Rcbs
  BY RequestsAssumption DEF ReservationTypeOK
<1>2. ReservationTypeOK'
  BY <1>1 DEF ReservationTypeOK
<1>3. EntriesAreKnown' /\ LiveReservationsHaveOwners'
  BY DEF EntriesAreKnown, LiveReservationsHaveOwners
<1>4. EnabledIsReserved'
  BY <1>1 DEF EnabledIsReserved, EnablingIsReserved
<1>5. EnablingIsReserved'
  BY DEF EnablingIsReserved, Enables
<1> QED BY <1>2, <1>3, <1>4, <1>5

(* A connection that ends leaves no lock without a deadline behind.        *)
LEMMA DisconnectIInv ==
  ASSUME ReservationIInv, NEW c \in Conns, DropConnection(c)
  PROVE  ReservationIInv'
<1> USE DEF DropConnection, ReservationIInv
<1>1. /\ c \in live
      /\ \A g \in granted : g.conn # c
  BY IdleHasNoPending
<1>2. /\ live \subseteq 1..Len(clientOf)
      /\ Len(clientOf) \in Nat
      /\ resv \in [Rcbs -> Reservation]
  BY DEF ReservationTypeOK
<1>3. \A r \in Rcbs : /\ AfterDrop(c, r) \in Reservation
                      /\ AfterDrop(c, r).conn \in {0, resv[r].conn}
                      /\ resv[r].conn # c => AfterDrop(c, r) = resv[r]
                      /\ resv[r].conn = c => AfterDrop(c, r).left # Alive
  BY <1>2 DEF AfterDrop
<1>4. ReservationTypeOK'
  <2>1. granted' \subseteq [conn : live', write : Requests]
    BY <1>1 DEF ReservationTypeOK
  <2> QED BY <2>1, <1>2, <1>3 DEF ReservationTypeOK
<1>5. EntriesAreKnown'
  BY <1>2, <1>3 DEF EntriesAreKnown
<1>6. LiveReservationsHaveOwners'
  <2> SUFFICES ASSUME NEW r \in Rcbs
               PROVE  AfterDrop(c, r).left = Alive <=> AfterDrop(c, r).conn \in live \ {c}
    BY DEF LiveReservationsHaveOwners
  <2>1. CASE resv[r].conn = c
    BY <2>1, <1>2, <1>3 DEF AfterDrop
  <2>2. CASE resv[r].conn # c
    BY <2>2, <1>3 DEF LiveReservationsHaveOwners
  <2> QED BY <2>1, <2>2
<1>7. EnabledIsReserved'
  BY <1>3 DEF EnabledIsReserved, ReservationTypeOK
<1>8. EnablingIsReserved'
  <2> SUFFICES ASSUME NEW g \in granted, Enables(g.write)
               PROVE  /\ resv'[g.write.rcb].conn = g.conn
                      /\ <<g.conn, g.write.rcb>> \notin released'
    BY DEF EnablingIsReserved, Enables
  <2>1. g.write.rcb \in Rcbs
    BY RequestsAssumption DEF ReservationTypeOK
  <2> QED BY <2>1, <1>1, <1>3 DEF EnablingIsReserved
<1> QED BY <1>4, <1>5, <1>6, <1>7, <1>8

(* Time only runs windows out, and only windows of connections that ended. *)
LEMMA TickIInv ==
  ASSUME ReservationIInv, WindowTick
  PROVE  ReservationIInv'
<1> USE DEF WindowTick, ReservationIInv
<1>1. resv \in [Rcbs -> Reservation]
  BY DEF ReservationTypeOK
<1>2. \A r \in Rcbs : /\ resv'[r] \in Reservation
                      /\ resv'[r].conn = resv[r].conn
                      /\ resv'[r].left = Alive <=> resv[r].left = Alive
  BY <1>1
<1>3. ReservationTypeOK'
  BY <1>1, <1>2 DEF ReservationTypeOK
<1>4. EntriesAreKnown' /\ LiveReservationsHaveOwners'
  BY <1>2 DEF EntriesAreKnown, LiveReservationsHaveOwners
<1>5. EnabledIsReserved'
  BY <1>2 DEF EnabledIsReserved, ReservationTypeOK
<1>6. EnablingIsReserved'
  <2>1. \A g \in granted : g.write.rcb \in Rcbs
    BY RequestsAssumption DEF ReservationTypeOK
  <2> QED BY <2>1, <1>2 DEF EnablingIsReserved, Enables
<1> QED BY <1>3, <1>4, <1>5, <1>6

(* ReservationIInv is inductive.                                                      *)
LEMMA ReservationNextIInv == ReservationIInv /\ [ReservationNext]_reservationVars => ReservationIInv'
<1> SUFFICES ASSUME ReservationIInv, [ReservationNext]_reservationVars
             PROVE  ReservationIInv'
  OBVIOUS
<1>1. CASE \E k \in Clients : OpenConnection(k)
  BY <1>1, AcceptIInv
<1>2. ASSUME NEW c \in Conns, NEW w \in Requests, Refuse(c, w)
      PROVE  ReservationIInv'
  <2>1. w.rcb \in Rcbs
    BY RequestsAssumption
  <2>2. ReservationTypeOK'
    BY <1>2, <2>1 DEF Refuse, ReservationIInv, ReservationTypeOK
  <2> QED BY <1>2, <2>2 DEF Refuse, ReservationIInv, EntriesAreKnown, LiveReservationsHaveOwners,
                            EnabledIsReserved, EnablingIsReserved, Enables
<1>3. CASE \E c \in Conns, w \in Requests : Grant(c, w)
  BY <1>3, GrantIInv
<1>4. CASE \E g \in granted : TakeEffect(g)
  BY <1>4, EffectIInv
<1>5. CASE \E c \in Conns : DropConnection(c)
  BY <1>5, DisconnectIInv
<1>6. CASE WindowTick
  BY <1>6, TickIInv
<1>7. CASE UNCHANGED reservationVars
  BY <1>7 DEF reservationVars, ReservationIInv, ReservationTypeOK, EntriesAreKnown, LiveReservationsHaveOwners,
              EnabledIsReserved, EnablingIsReserved, Enables
<1> QED BY <1>1, <1>2, <1>3, <1>4, <1>5, <1>6, <1>7 DEF ReservationNext

(* The inductive invariant holds in every reachable state.                 *)
THEOREM Invariance == ReservationSpec => []ReservationIInv
  BY ReservationInitIInv, ReservationNextIInv, PTL DEF ReservationSpec

-----------------------------------------------------------------------------
(* The state keeps its shape whatever clients connect, write and leave.    *)
THEOREM TypeCorrect == ReservationSpec => []ReservationTypeOK
  BY Invariance, PTL DEF ReservationIInv

(* Reservations without a deadline belong to running connections, for any  *)
(* number of blocks and connections: no block is ever locked for good.     *)
THEOREM NoOrphanedLock == ReservationSpec => []LiveReservationsHaveOwners
  BY Invariance, PTL DEF ReservationIInv

(* One connection at a time uses a block, unless one hands it over itself. *)
THEOREM Exclusion == ReservationSpec => []ExclusiveUnlessReleased
<1>1. ReservationIInv => ExclusiveUnlessReleased
  BY DEF ReservationIInv, EnabledIsReserved, ExclusiveUnlessReleased
<1> QED BY <1>1, Invariance, PTL

(* No step takes a block from its holder, and windows only run out.        *)
THEOREM HolderKeepsBlock == ReservationSpec => HeldBlockIsNotTaken
<1> DEFINE Kept(r) ==
      Holds(resv[r]) =>
        /\ resv'[r].conn \in {resv[r].conn, NoConn}
        /\ resv[r].left > 0 => resv'[r] \in {resv[r], [resv[r] EXCEPT !.left = @ - 1]}
<1>1. ReservationIInv /\ [ReservationNext]_reservationVars => [\A r \in Rcbs : Kept(r)]_reservationVars
  <2> SUFFICES ASSUME ReservationIInv, ReservationNext, NEW r \in Rcbs, Holds(resv[r])
               PROVE  Kept(r)
    OBVIOUS
  <2>1. resv \in [Rcbs -> Reservation]
    BY DEF ReservationIInv, ReservationTypeOK
  <2>2. CASE UNCHANGED resv
    BY <2>2
  <2>3. ASSUME NEW c \in Conns, NEW w \in Requests, Grant(c, w)
        PROVE  Kept(r)
    <3>1. c \in live /\ w.rcb \in Rcbs
      BY <2>3, RequestsAssumption DEF Grant, Idle
    <3>2. CASE r # w.rcb
      BY <2>1, <2>3, <3>2 DEF Grant
    <3>3. CASE r = w.rcb
      <4>1. resv[r].conn = c /\ resv[r].left = Alive
        BY <2>3, <3>1, <3>3 DEF Grant, OtherHolds, ReservationIInv, LiveReservationsHaveOwners
      <4>2. resv'[r].conn \in {c, NoConn}
        BY <2>1, <2>3, <3>1, <3>3, <4>1 DEF Grant, AfterCheck
      <4> QED BY <4>1, <4>2
    <3> QED BY <3>2, <3>3
  <2>4. ASSUME NEW c \in Conns, DropConnection(c)
        PROVE  Kept(r)
    <3>1. c \in live
      BY <2>4 DEF DropConnection, Idle
    <3>2. resv[r].conn = c => resv[r].left = Alive
      BY <3>1 DEF ReservationIInv, LiveReservationsHaveOwners
    <3>3. resv'[r] = AfterDrop(c, r)
      BY <2>4 DEF DropConnection
    <3> QED BY <2>1, <3>2, <3>3 DEF AfterDrop
  <2>5. CASE WindowTick
    BY <2>1, <2>5 DEF WindowTick
  <2> QED BY <2>2, <2>3, <2>4, <2>5 DEF ReservationNext, OpenConnection, Refuse, TakeEffect
<1> QED BY <1>1, Invariance, PTL DEF ReservationSpec, HeldBlockIsNotTaken

HIDE DEF Conns, NoConn, Alive, Free, Reservation

-----------------------------------------------------------------------------
(* Buffered reporting.                                                      *)

(* Every step of the system is a step of the reservation protocol or none,   *)
(* so what holds of RcbReservation holds here.                             *)
LEMMA StepsOfReservation == Spec => ReservationSpec
<1>1. Init => ReservationInit
  BY DEF Init
<1>2. [Next]_vars => [ReservationNext]_reservationVars
  <2> SUFFICES ASSUME Next
               PROVE  ReservationNext \/ UNCHANGED reservationVars
    BY DEF vars
  <2>1. ASSUME NEW k \in Clients, Accept(k) PROVE ReservationNext
    BY <2>1 DEF Accept, ReservationNext
  <2>2. ASSUME NEW c \in Conns, NEW w \in Requests, Check(c, w) PROVE ReservationNext
    BY <2>2 DEF Check, ReservationNext
  <2>3. ASSUME NEW c \in Conns, NEW w \in Requests, Effect([conn |-> c, write |-> w])
        PROVE  ReservationNext
    <3>1. TakeEffect([conn |-> c, write |-> w])
      BY <2>3 DEF Effect, EnableBlock, DisableBlock, WriteEntryID, PurgeBuffer, WriteOther, Apply
    <3> QED BY <3>1 DEF TakeEffect, ReservationNext
  <2>4. ASSUME NEW c \in Conns, Close(c) PROVE ReservationNext
    BY <2>4 DEF Close, ReservationNext
  <2>5. ASSUME Tick PROVE ReservationNext
    BY <2>5 DEF Tick, ReservationNext
  <2>6. ASSUME BufferingTask PROVE UNCHANGED reservationVars
    BY <2>6 DEF BufferingTask, TakeChange, SkipLostChanges, AppendEntry, Notify
  <2> QED BY <2>1, <2>2, <2>3, <2>4, <2>5, <2>6
          DEF Next, WriteValue, HandleNotice, NoteLag, CloseLagging
<1> QED BY <1>1, <1>2, PTL DEF Spec, ReservationSpec

(* So the table is typed, and the theorems about it hold here as well.      *)
LEMMA ReservationTyped == Spec => []ReservationTypeOK
  BY StepsOfReservation, TypeCorrect, PTL

(* A block in use is used by one connection, in the whole reporting system. *)
THEOREM ReportingIsExclusive == Spec => []ExclusiveUnlessReleased
  BY StepsOfReservation, Exclusion, PTL

-----------------------------------------------------------------------------
(* The messages of a queue, by their places.                                *)
LEMMA RangeOfQueue ==
  ASSUME NEW S, NEW q \in Seq(S)
  PROVE  Range(q) = {q[i] : i \in 1..Len(q)}
  BY DEF Range

LEMMA RangeOfAppend ==
  ASSUME NEW S, NEW q \in Seq(S), NEW m \in S
  PROVE  Range(q) \cup {m} \subseteq Range(Append(q, m))
<1>1. Append(q, m) \in Seq(S) /\ Len(Append(q, m)) = Len(q) + 1 /\ Len(q) \in Nat
  OBVIOUS
<1>2. \A i \in 1..Len(q) : Append(q, m)[i] = q[i] /\ i \in 1..(Len(q) + 1)
  OBVIOUS
<1>3. Append(q, m)[Len(q) + 1] = m /\ Len(q) + 1 \in 1..(Len(q) + 1)
  OBVIOUS
<1>4. Range(q) = {q[i] : i \in 1..Len(q)}
  BY RangeOfQueue
<1>5. Range(Append(q, m)) = {Append(q, m)[i] : i \in 1..(Len(q) + 1)}
  BY <1>1, RangeOfQueue
<1> HIDE <1>1
<1> QED BY <1>2, <1>3, <1>4, <1>5, Zenon

(* A message that is sent is queued, unless the receiver then has lagged.   *)
LEMMA SentMessage ==
  ASSUME NEW S, NEW rx \in [queue : Seq(S), missed : Nat], NEW m \in S,
         NEW capacity \in Nat \ {0}, NEW limit \in Nat \ {0},
         NEW rx2, rx2 = Sent(rx, m, capacity, limit)
  PROVE  /\ rx2 \in [queue : Seq(S), missed : Nat]
         /\ \A x \in Range(rx.queue) \cup {m} : x \in Range(rx2.queue) \/ Lagged(rx2)
         /\ Lagged(rx) => Lagged(rx2)
<1>1. CASE Len(rx.queue) < capacity
  <2>1. rx2.queue = Append(rx.queue, m) /\ rx2.missed = rx.missed
        /\ rx2 = [queue |-> Append(rx.queue, m), missed |-> rx.missed]
    BY <1>1 DEF Sent
  <2>2. \A x \in Range(rx.queue) \cup {m} : x \in Range(Append(rx.queue, m))
    BY RangeOfAppend
  <2> QED BY <2>1, <2>2 DEF Lagged
<1>2. CASE ~(Len(rx.queue) < capacity)
  <2>1. /\ rx2 = [queue  |-> Append(Tail(rx.queue), m),
                  missed |-> IF rx.missed < limit THEN rx.missed + 1 ELSE limit]
    BY <1>2 DEF Sent
  <2>2. Len(rx.queue) > 0
    BY <1>2
  <2>3. Append(Tail(rx.queue), m) \in Seq(S)
    BY <2>2
  <2>4. (IF rx.missed < limit THEN rx.missed + 1 ELSE limit) \in Nat \ {0}
    OBVIOUS
  <2> QED BY <2>1, <2>3, <2>4 DEF Lagged
<1> QED BY <1>1, <1>2

(* A receipt takes the oldest message and leaves the others in the queue.   *)
LEMMA ReceivedMessage ==
  ASSUME NEW S, NEW rx \in [queue : Seq(S), missed : Nat], Ready(rx)
  PROVE  /\ Received(rx) \in [queue : Seq(S), missed : Nat]
         /\ Received(rx).missed = rx.missed
         /\ Head(rx.queue) \in S
         /\ \A x \in Range(rx.queue) : x = Head(rx.queue) \/ x \in Range(Received(rx).queue)
<1>1. rx.queue \in Seq(S) /\ rx.queue # <<>>
  BY DEF Ready
<1>2. Received(rx) = [queue |-> Tail(rx.queue), missed |-> rx.missed]
  BY DEF Received
<1>3. \A x \in Range(rx.queue) : x = Head(rx.queue) \/ x \in Range(Tail(rx.queue))
  <2> SUFFICES ASSUME NEW i \in 1..Len(rx.queue), i # 1
               PROVE  rx.queue[i] \in Range(Tail(rx.queue))
    BY <1>1 DEF Range
  <2>1. /\ Tail(rx.queue) \in Seq(S)
        /\ i - 1 \in 1..Len(Tail(rx.queue)) /\ Tail(rx.queue)[i - 1] = rx.queue[i]
    BY <1>1
  <2>2. Range(Tail(rx.queue)) = {Tail(rx.queue)[j] : j \in 1..Len(Tail(rx.queue))}
    BY <2>1, RangeOfQueue
  <2> QED BY <2>1, <2>2, Zenon
<1> QED BY <1>1, <1>2, <1>3

-----------------------------------------------------------------------------
Buffer == [entries : Seq(Nat), next : Nat \ {0}, overflow : BOOLEAN]

Consecutive(b) ==
  \A i \in 1..Len(b.entries) : b.entries[i] = b.next - Len(b.entries) - 1 + i

(* The newest entry of a well-formed buffer has the highest EntryID.        *)
LEMMA NothingAfterNewest ==
  ASSUME NEW b \in Buffer, Consecutive(b)
  PROVE  /\ MaxId(b) \in Nat
         /\ Undelivered(b, MaxId(b)) = {}
<1> DEFINE n == Len(b.entries)
<1>1. n \in Nat /\ b.next \in Nat /\ b.entries \in Seq(Nat)
  BY DEF Buffer
<1>2. Range(b.entries) = {b.entries[i] : i \in 1..n}
  BY <1>1, RangeOfQueue
<1>3. CASE b.entries = <<>>
  <2>1. MaxId(b) = 0 /\ Range(b.entries) = {}
    BY <1>2, <1>3 DEF MaxId
  <2> QED BY <2>1 DEF Undelivered
<1>4. CASE b.entries # <<>>
  <2>1. n \in 1..n /\ MaxId(b) = b.entries[n]
    BY <1>1, <1>4 DEF MaxId, Last
  <2>2. \A i \in 1..n : b.entries[i] = b.next - n - 1 + i /\ b.entries[i] \in Nat
    BY <1>1 DEF Consecutive
  <2> HIDE DEF n
  <2>3. \A i \in 1..n : b.entries[i] <= b.entries[n]
    BY <1>1, <2>1, <2>2
  <2>4. \A i \in 1..n : ~(b.entries[i] > MaxId(b))
    <3> TAKE i \in 1..n
    <3>1. b.entries[i] <= b.entries[n] /\ b.entries[i] \in Nat /\ b.entries[n] \in Nat
      BY <2>1, <2>2, <2>3
    <3> QED BY <3>1, <2>1
  <2> QED BY <1>2, <2>1, <2>2, <2>4 DEF Undelivered
<1> QED BY <1>3, <1>4

(* Taking the oldest element off a sequence moves the others one place.     *)
LEMMA TailByPlaces ==
  ASSUME NEW S, NEW n \in Nat, NEW q \in Seq(S), Len(q) = n + 1
  PROVE  /\ Tail(q) \in Seq(S)
         /\ Len(Tail(q)) = n
         /\ \A i \in 1..n : Tail(q)[i] = q[i + 1]
  OBVIOUS

(* q has n places with consecutive EntryIDs, the newest one k.              *)
Ascends(q, n, k) == \A i \in 1..n : q[i] = k - n + i

(* The buffer after n + 1 entries, newest k, were cut to n.                 *)
LEMMA TrimmedBuffer ==
  ASSUME NEW n \in Nat, NEW k \in Nat \ {0}, NEW all \in Seq(Nat), Len(all) = n + 1,
         Ascends(all, n + 1, k), NEW b, b = [entries |-> Tail(all), next |-> k + 1, overflow |-> TRUE]
  PROVE  b \in Buffer /\ Consecutive(b) /\ Len(b.entries) = n
<1>1. PICK q : q = Tail(all)
  OBVIOUS
<1>2. /\ q \in Seq(Nat) /\ Len(q) = n
      /\ \A i \in 1..n : q[i] = all[i + 1]
  BY <1>1, TailByPlaces
<1>3. \A i \in 1..n : q[i] = (k + 1) - n - 1 + i
  <2> TAKE i \in 1..n
  <2>1. i + 1 \in 1..(n + 1) /\ i \in Int
    OBVIOUS
  <2>2. all[i + 1] = k - (n + 1) + (i + 1)
    BY <2>1 DEF Ascends
  <2> QED BY <1>2, <2>1, <2>2
<1>4. [entries |-> q, next |-> k + 1, overflow |-> TRUE] \in Buffer
  BY <1>2 DEF Buffer
<1>5. Consecutive([entries |-> q, next |-> k + 1, overflow |-> TRUE])
  BY <1>2, <1>3 DEF Consecutive
<1> QED BY <1>1, <1>2, <1>4, <1>5

(* Appending keeps a buffer well-formed and within its capacity.            *)
LEMMA PushedBuffer ==
  ASSUME NEW b \in Buffer, Consecutive(b), Len(b.entries) <= Capacity
  PROVE  /\ Pushed(b) \in Buffer
         /\ Consecutive(Pushed(b))
         /\ Len(Pushed(b).entries) <= Capacity
         /\ Len(b.entries) = Capacity => Pushed(b).overflow
         /\ b.overflow => Pushed(b).overflow
<1> DEFINE all == Append(b.entries, b.next)
           n == Len(b.entries)
<1>1. /\ n \in Nat /\ b.next \in Nat \ {0} /\ b.overflow \in BOOLEAN
      /\ all \in Seq(Nat) /\ Len(all) = n + 1
      /\ \A i \in 1..(n + 1) : all[i] = IF i = n + 1 THEN b.next ELSE b.entries[i]
      /\ Capacity \in Nat \ {0} /\ n <= Capacity
  BY SizesAssumption DEF Buffer
<1>2. \A i \in 1..n : b.entries[i] = b.next - n - 1 + i
  BY DEF Consecutive
<1>3. Pushed(b) = [entries  |-> IF Len(all) > Capacity THEN Tail(all) ELSE all,
                   next     |-> b.next + 1,
                   overflow |-> b.overflow \/ Len(all) > Capacity]
  BY DEF Pushed
<1> HIDE DEF all, n
<1>4. Ascends(all, n + 1, b.next)
  <2> SUFFICES ASSUME NEW i \in 1..(n + 1)
               PROVE  all[i] = b.next - (n + 1) + i
    BY DEF Ascends
  <2>1. CASE i = n + 1
    BY <1>1, <2>1
  <2>2. CASE i # n + 1
    <3>1. i \in 1..n
      BY <1>1, <2>2
    <3>2. all[i] = b.next - n - 1 + i
      BY <1>1, <1>2, <2>2, <3>1
    <3>3. b.next - n - 1 + i = b.next - (n + 1) + i
      BY <1>1
    <3> QED BY <3>2, <3>3, Zenon
  <2> QED BY <2>1, <2>2
<1>5. CASE n = Capacity
  <2>1. Pushed(b) = [entries |-> Tail(all), next |-> b.next + 1, overflow |-> TRUE]
    <3>1. Len(all) > Capacity
      BY <1>1, <1>5
    <3>2. (b.overflow \/ Len(all) > Capacity) = TRUE
      BY <3>1
    <3> QED BY <1>3, <3>1, <3>2, Zenon
  <2>2. Pushed(b) \in Buffer /\ Consecutive(Pushed(b)) /\ Len(Pushed(b).entries) = n
    <3>1. n \in Nat /\ b.next \in Nat \ {0} /\ all \in Seq(Nat) /\ Len(all) = n + 1
      BY <1>1
    <3> QED BY <1>4, <2>1, <3>1, TrimmedBuffer
  <2> QED BY <1>1, <2>1, <2>2
<1>6. CASE n < Capacity
  <2>1. Pushed(b) = [entries |-> all, next |-> b.next + 1, overflow |-> b.overflow]
    BY <1>1, <1>3, <1>6
  <2>2. \A i \in 1..(n + 1) : all[i] = (b.next + 1) - (n + 1) - 1 + i
    <3> TAKE i \in 1..(n + 1)
    <3>1. all[i] = b.next - (n + 1) + i
      BY <1>4 DEF Ascends
    <3> QED BY <1>1, <3>1
  <2>3. /\ Pushed(b).entries = all /\ Pushed(b).next = b.next + 1
        /\ Pushed(b).overflow = b.overflow /\ Pushed(b) \in Buffer
    BY <1>1, <2>1 DEF Buffer
  <2>4. Consecutive(Pushed(b))
    BY <1>1, <2>2, <2>3, Zenon DEF Consecutive
  <2>5. ~(Len(b.entries) = Capacity)
    BY <1>1, <1>6 DEF n
  <2>6. Len(Pushed(b).entries) <= Capacity
    BY <1>1, <1>6, <2>3
  <2> QED BY <2>3, <2>4, <2>5, <2>6
<1> QED BY <1>1, <1>5, <1>6

-----------------------------------------------------------------------------
(* The task notifies before it appends to the next block.                   *)
NotifiesOneBlock == \A q, r \in notifying : q = r

(* The inductive invariant: the three properties of this module carry each  *)
(* other.  That a drain leaves nothing behind needs consecutive EntryIDs;   *)
(* that a loss is announced needs the types of the buffers.                 *)
IInv ==
  /\ TypeOK
  /\ EntryIdsAreConsecutive
  /\ LossIsSignalled
  /\ NoLostWakeup
  /\ NotifiesOneBlock

(* The buffers, as the lemmas above speak of them.                          *)
LEMMA BuffersAreTyped ==
  /\ TypeOK => \A r \in Rcbs : buf[r] \in Buffer /\ Len(buf[r].entries) <= Capacity
  /\ EntryIdsAreConsecutive <=> \A r \in Rcbs : Consecutive(buf[r])
  BY DEF TypeOK, Buffer, EntryIdsAreConsecutive, Consecutive

LEMMA LostAreEnabled ==
  TypeOK => lost \subseteq enabled /\ disturbed \subseteq enabled /\ enabled \subseteq live \X Rcbs
  BY DEF TypeOK, ReservationTypeOK

LEMMA LiveAreConns == TypeOK => live \subseteq Conns
<1> SUFFICES ASSUME TypeOK, NEW c \in live PROVE c \in Conns
  OBVIOUS
<1>1. c \in 1..Len(clientOf) /\ Len(clientOf) \in Nat /\ Len(clientOf) <= MaxConns
  BY DEF TypeOK, ReservationTypeOK
<1> QED BY <1>1, MaxConnsAssumption DEF Conns

LEMMA InitialInvariant == Init => IInv
<1> SUFFICES ASSUME Init PROVE IInv
  OBVIOUS
<1>1. ReservationTypeOK
  BY ReservationInitIInv DEF Init, ReservationIInv
<1>2. TypeOK
  <2>1. changes \in [queue : Seq(Items \cup {AttrItem}), missed : Nat]
    BY DEF Init, NewReceiver
  <2>2. notices \in [Conns -> [queue : Seq(Rcbs), missed : Nat]]
    BY DEF Init, NewReceiver
  <2>3. /\ buf \in [Rcbs -> [entries : Seq(Nat), next : Nat \ {0}, overflow : BOOLEAN]]
        /\ \A r \in Rcbs : Len(buf[r].entries) <= Capacity
    BY SizesAssumption DEF Init, EmptyBuffer
  <2> QED BY <1>1, <2>1, <2>2, <2>3, SizesAssumption DEF TypeOK, Init
<1>3. EntryIdsAreConsecutive
  BY DEF EntryIdsAreConsecutive, Init, EmptyBuffer
<1>4. LossIsSignalled
  BY DEF LossIsSignalled, Init
<1>5. NoLostWakeup /\ NotifiesOneBlock
  BY DEF NoLostWakeup, NotifiesOneBlock, Init, ReservationInit
<1> QED BY <1>2, <1>3, <1>4, <1>5 DEF IInv

(* Between the channel and the buffer: nothing here concerns a connection.  *)
LEMMA PublishedIsTyped ==
  ASSUME TypeOK, NEW i \in Items \cup {AttrItem}
  PROVE  Published(i) \in [queue : Seq(Items \cup {AttrItem}), missed : Nat]
<1>1. changes \in [queue : Seq(Items \cup {AttrItem}), missed : Nat]
  BY DEF TypeOK
<1>2. ChannelSize \in Nat \ {0} /\ MaxReportLag + 1 \in Nat \ {0}
  BY SizesAssumption
<1> QED BY <1>1, <1>2, SentMessage DEF Published

LEMMA WriteValueIInv ==
  ASSUME IInv, ReservationTypeOK', NEW i \in Items, WriteValue(i)
  PROVE  IInv'
<1>1. TypeOK'
  <2>1. store' \in [Items -> 0..MaxWrites]
    BY SizesAssumption DEF IInv, TypeOK, WriteValue
  <2>2. changes' \in [queue : Seq(Items \cup {AttrItem}), missed : Nat]
    BY PublishedIsTyped DEF IInv, WriteValue
  <2> QED BY <2>1, <2>2 DEF IInv, TypeOK, WriteValue, reservationVars, connVars, historyVars
<1>2. EntryIdsAreConsecutive' /\ LossIsSignalled'
  BY DEF IInv, EntryIdsAreConsecutive, LossIsSignalled, WriteValue, historyVars
<1>3. NoLostWakeup' /\ NotifiesOneBlock'
  BY DEF IInv, NoLostWakeup, NotifiesOneBlock, WriteValue, reservationVars, connVars, Undelivered, Lagged
<1> QED BY <1>1, <1>2, <1>3 DEF IInv

LEMMA TakeOrSkipIInv ==
  ASSUME IInv, ReservationTypeOK', TakeChange \/ SkipLostChanges
  PROVE  IInv'
<1>1. changes \in [queue : Seq(Items \cup {AttrItem}), missed : Nat]
  BY DEF IInv, TypeOK
<1>2. changes' \in [queue : Seq(Items \cup {AttrItem}), missed : Nat]
  <2>1. CASE TakeChange
    BY <1>1, <2>1, ReceivedMessage DEF TakeChange
  <2>2. CASE SkipLostChanges
    BY <1>1, <2>2 DEF SkipLostChanges, CaughtUp
  <2> QED BY <2>1, <2>2
<1>3. todo' \subseteq Rcbs
  BY DEF IInv, TypeOK, TakeChange, SkipLostChanges
<1>4. UNCHANGED <<reservationVars, store, notifying, buf, entryId, connVars, historyVars>>
  BY DEF TakeChange, SkipLostChanges
<1>5. TypeOK'
  BY <1>2, <1>3, <1>4 DEF IInv, TypeOK, reservationVars, connVars, historyVars
<1>6. EntryIdsAreConsecutive' /\ LossIsSignalled'
  BY <1>4 DEF IInv, EntryIdsAreConsecutive, LossIsSignalled, historyVars
<1>7. NoLostWakeup' /\ NotifiesOneBlock'
  BY <1>4 DEF IInv, NoLostWakeup, NotifiesOneBlock, reservationVars, connVars, Undelivered, Lagged
<1> QED BY <1>5, <1>6, <1>7 DEF IInv

(* The appended entry comes with its notification, and a full buffer with   *)
(* its overflow flag.                                                       *)
LEMMA AppendEntryIInv ==
  ASSUME IInv, ReservationTypeOK', NEW r \in Rcbs, AppendEntry(r)
  PROVE  IInv'
<1>1. \A q \in Rcbs : buf[q] \in Buffer /\ Consecutive(buf[q]) /\ Len(buf[q].entries) <= Capacity
  BY BuffersAreTyped DEF IInv
<1>2. buf \in [Rcbs -> Buffer]
  BY DEF IInv, TypeOK, Buffer
<1>3. buf' = [buf EXCEPT ![r] = Pushed(buf[r])]
  BY DEF AppendEntry
<1>4. /\ Pushed(buf[r]) \in Buffer /\ Consecutive(Pushed(buf[r]))
      /\ Len(Pushed(buf[r]).entries) <= Capacity
      /\ Len(buf[r].entries) = Capacity => Pushed(buf[r]).overflow
      /\ buf[r].overflow => Pushed(buf[r]).overflow
  BY <1>1, PushedBuffer
<1>5. /\ buf' \in [Rcbs -> Buffer]
      /\ buf'[r] = Pushed(buf[r])
      /\ \A q \in Rcbs \ {r} : buf'[q] = buf[q]
  BY <1>2, <1>3, <1>4
<1>6. UNCHANGED <<reservationVars, store, changes, entryId, connVars, disturbed, seen>>
  BY DEF AppendEntry
<1>7. lost' \subseteq enabled /\ \A e \in lost' : e \in lost \/ (e[2] = r /\ Len(buf[r].entries) = Capacity)
  BY DEF IInv, TypeOK, AppendEntry, Missing
<1>8. TypeOK'
  <2>1. /\ buf' \in [Rcbs -> [entries : Seq(Nat), next : Nat \ {0}, overflow : BOOLEAN]]
        /\ \A q \in Rcbs : Len(buf'[q].entries) <= Capacity
    BY <1>1, <1>4, <1>5 DEF Buffer
  <2>2. todo' \subseteq Rcbs /\ notifying' \subseteq Rcbs
    BY DEF IInv, TypeOK, AppendEntry
  <2> QED BY <1>6, <1>7, <2>1, <2>2 DEF IInv, TypeOK, reservationVars, connVars
<1>9. EntryIdsAreConsecutive'
  <2>1. \A q \in Rcbs : Consecutive(buf'[q])
    BY <1>1, <1>4, <1>5
  <2> QED BY <2>1 DEF EntryIdsAreConsecutive, Consecutive
<1>10. LossIsSignalled'
  <2> SUFFICES ASSUME NEW e \in lost', e \notin disturbed
               PROVE  buf'[e[2]].overflow
    BY <1>6 DEF LossIsSignalled
  <2>1. e[2] \in Rcbs
    BY <1>7 DEF IInv, TypeOK, ReservationTypeOK
  <2>2. CASE e \in lost
    <3>1. buf[e[2]].overflow
      BY <2>2 DEF IInv, LossIsSignalled
    <3> QED BY <1>4, <1>5, <2>1, <3>1
  <2>3. CASE e \notin lost
    BY <1>4, <1>5, <1>7, <2>3
  <2> QED BY <2>2, <2>3
<1>11. NoLostWakeup' /\ NotifiesOneBlock'
  <2>1. notifying = {} /\ notifying' = {r}
    BY DEF AppendEntry
  <2> QED BY <1>5, <1>6, <2>1
          DEF IInv, NoLostWakeup, NotifiesOneBlock, reservationVars, connVars, Undelivered, Lagged
<1> QED BY <1>8, <1>9, <1>10, <1>11 DEF IInv

(* The notification passes from the task to every running connection.       *)
LEMMA NotifyIInv ==
  ASSUME IInv, ReservationTypeOK', NEW r \in Rcbs, Notify(r)
  PROVE  IInv'
<1>1. notices \in [Conns -> [queue : Seq(Rcbs), missed : Nat]]
  BY DEF IInv, TypeOK
<1>2. \A c \in live : c \in Conns
         /\ notices'[c] = Sent(notices[c], r, ChannelSize, MaxReportLag + 1)
  BY LiveAreConns DEF IInv, Notify
<1>3. UNCHANGED <<reservationVars, store, changes, todo, buf, entryId, lag, cursor,
                  historyVars>> /\ notifying' = {} /\ notifying \subseteq Rcbs
  BY DEF Notify, IInv, TypeOK
<1>4. \A c \in live : /\ notices'[c] \in [queue : Seq(Rcbs), missed : Nat]
                      /\ \A x \in Range(notices[c].queue) \cup {r} :
                            x \in Range(notices'[c].queue) \/ Lagged(notices'[c])
                      /\ Lagged(notices[c]) => Lagged(notices'[c])
  <2> TAKE c \in live
  <2>1. ChannelSize \in Nat \ {0} /\ MaxReportLag + 1 \in Nat \ {0}
    BY SizesAssumption
  <2>2. notices[c] \in [queue : Seq(Rcbs), missed : Nat]
    BY <1>1, <1>2
  <2>3. notices'[c] = Sent(notices[c], r, ChannelSize, MaxReportLag + 1)
    BY <1>2
  <2> QED BY <2>1, <2>2, <2>3, SentMessage
<1>5. TypeOK'
  <2>1. notices' \in [Conns -> [queue : Seq(Rcbs), missed : Nat]]
    BY <1>1, <1>2, <1>4 DEF Notify
  <2> QED BY <1>3, <2>1 DEF IInv, TypeOK, reservationVars, historyVars
<1>6. EntryIdsAreConsecutive' /\ LossIsSignalled'
  BY <1>3 DEF IInv, EntryIdsAreConsecutive, LossIsSignalled, historyVars
<1>7. NoLostWakeup' /\ NotifiesOneBlock'
  <2> SUFFICES ASSUME NEW c \in Conns, NEW q \in Rcbs, <<c, q>> \in enabled,
                      Undelivered(buf[q], cursor[c][q]) # {}
               PROVE  \/ q \in Range(notices'[c].queue)
                      \/ lag[c] > 0 \/ Lagged(notices'[c])
    BY <1>3 DEF NoLostWakeup, NotifiesOneBlock, reservationVars, Undelivered
  <2>1. \/ q \in notifying \cup Range(notices[c].queue)
        \/ lag[c] > 0 \/ Lagged(notices[c])
    BY DEF IInv, NoLostWakeup
  <2>2. c \in live
    BY DEF IInv, TypeOK, ReservationTypeOK
  <2>3. notifying = {r}
    BY DEF IInv, NotifiesOneBlock, Notify
  <2> QED BY <1>4, <2>1, <2>2, <2>3
<1> QED BY <1>5, <1>6, <1>7 DEF IInv

-----------------------------------------------------------------------------
(* What every drain of c from the buffer of r does, whoever asks for it:    *)
(* nothing is left for c, no entry goes, and no loss is forgotten.          *)
LEMMA DrainKeeps ==
  ASSUME IInv, NEW c \in live, NEW r \in Rcbs, NEW k \in Nat, NEW restarts \in BOOLEAN,
         Drain(c, r, k, restarts)
  PROVE  /\ buf' \in [Rcbs -> Buffer]
         /\ \A q \in Rcbs : buf'[q].entries = buf[q].entries /\ buf'[q].next = buf[q].next
         /\ cursor' \in [Conns -> [Rcbs -> Nat]]
         /\ Undelivered(buf'[r], cursor'[c][r]) = {}
         /\ \A d \in Conns, q \in Rcbs : <<d, q>> # <<c, r>> => cursor'[d][q] = cursor[d][q]
         /\ seen' \in [Clients -> [Rcbs -> Nat]]
         /\ lost' \subseteq enabled /\ disturbed' \subseteq enabled
         /\ \A e \in lost' \ disturbed' : buf'[e[2]].overflow
<1> DEFINE reports == Undelivered(buf[r], k) # {}
           last    == IF reports THEN MaxId(buf[r]) ELSE k
<1>1. c \in Conns /\ clientOf[c] \in Clients
  <2>1. c \in Conns
    BY LiveAreConns DEF IInv
  <2>2. clientOf \in Seq(Clients) /\ c \in 1..Len(clientOf)
    BY DEF IInv, TypeOK, ReservationTypeOK
  <2> QED BY <2>1, <2>2
<1>2. buf \in [Rcbs -> Buffer] /\ Consecutive(buf[r])
  BY BuffersAreTyped DEF IInv, TypeOK, Buffer
<1>3. MaxId(buf[r]) \in Nat /\ Undelivered(buf[r], MaxId(buf[r])) = {}
  BY <1>2, NothingAfterNewest
<1>4. last \in Nat /\ Undelivered(buf[r], last) = {}
  BY <1>3
<1>5. /\ cursor' = [cursor EXCEPT ![c][r] = last]
      /\ buf' = [buf EXCEPT ![r].overflow = @ /\ ~reports]
      /\ seen' = [seen EXCEPT ![clientOf[c]][r] = IF reports /\ last > @ THEN last ELSE @]
      /\ lost' = IF restarts \/ (reports /\ buf[r].overflow) THEN lost \ {<<c, r>>} ELSE lost
      /\ disturbed' = (IF reports THEN disturbed \cup Others(c, r) ELSE disturbed)
                        \ (IF restarts THEN {<<c, r>>} ELSE {})
  BY DEF Drain
<1> HIDE DEF reports, last
<1>6. /\ buf' \in [Rcbs -> Buffer]
      /\ \A q \in Rcbs : buf'[q].entries = buf[q].entries /\ buf'[q].next = buf[q].next
      /\ \A q \in Rcbs : q # r \/ ~reports => (buf[q].overflow => buf'[q].overflow)
  BY <1>2, <1>5 DEF Buffer
<1>7. /\ cursor' \in [Conns -> [Rcbs -> Nat]]
      /\ cursor'[c][r] = last
      /\ \A d \in Conns, q \in Rcbs : <<d, q>> # <<c, r>> => cursor'[d][q] = cursor[d][q]
  BY <1>1, <1>4, <1>5 DEF IInv, TypeOK
<1>8. Undelivered(buf'[r], cursor'[c][r]) = {}
  BY <1>4, <1>6, <1>7 DEF Undelivered
<1>9. seen' \in [Clients -> [Rcbs -> Nat]]
  BY <1>1, <1>4, <1>5 DEF IInv, TypeOK
<1>10. lost' \subseteq enabled /\ disturbed' \subseteq enabled /\ lost' \subseteq lost
  BY <1>5 DEF IInv, TypeOK, Others
<1>11. ASSUME NEW e \in lost', e \notin disturbed' PROVE buf'[e[2]].overflow
  <2>1. e \in lost /\ e \in enabled /\ e = <<e[1], e[2]>> /\ e[2] \in Rcbs
    <3>1. lost \subseteq enabled /\ enabled \subseteq live \X Rcbs
      BY LostAreEnabled DEF IInv
    <3>2. e \in lost /\ e \in enabled /\ e \in live \X Rcbs
      BY <1>10, <1>11, <3>1, Zenon
    <3> QED BY <3>2
  <2>2. CASE e = <<c, r>>
    <3>1. ~restarts /\ ~(reports /\ buf[r].overflow) /\ e \notin disturbed
      BY <1>5, <1>11, <2>2
    <3>2. buf[r].overflow
      BY <2>1, <2>2, <3>1 DEF IInv, LossIsSignalled
    <3> QED BY <1>6, <2>2, <3>1, <3>2
  <2>3. CASE e # <<c, r>>
    <3>1. e \notin disturbed /\ ~(reports /\ e[2] = r)
      BY <1>5, <1>11, <2>1, <2>3 DEF Others
    <3>2. buf[e[2]].overflow
      BY <2>1, <3>1 DEF IInv, LossIsSignalled
    <3> QED BY <1>6, <2>1, <3>1, <3>2
  <2> QED BY <2>2, <2>3
<1> QED BY <1>6, <1>7, <1>8, <1>9, <1>10, <1>11

Notices == [queue : Seq(Rcbs), missed : Nat]
Changes == [queue : Seq(Items \cup {AttrItem}), missed : Nat]

(* A step that drains for c and r keeps the invariant if no notification    *)
(* gets lost but the one of r for c.                                        *)
LEMMA DrainIInv ==
  ASSUME IInv, ReservationTypeOK',
         NEW c \in live, NEW r \in Rcbs, NEW k \in Nat, NEW restarts \in BOOLEAN,
         Drain(c, r, k, restarts),
         enabled \subseteq enabled', enabled' \subseteq enabled \cup {<<c, r>>},
         UNCHANGED <<store, todo, notifying, lag>>,
         changes' \in Changes, entryId' \in [Rcbs -> Nat], notices' \in [Conns -> Notices],
         \A d \in Conns, q \in Rcbs : <<d, q>> # <<c, r>> /\ q \in Range(notices[d].queue)
            => q \in Range(notices'[d].queue),
         \A d \in Conns : Lagged(notices[d]) => Lagged(notices'[d])
  PROVE  IInv'
<1>1. /\ buf' \in [Rcbs -> Buffer]
      /\ \A q \in Rcbs : buf'[q].entries = buf[q].entries /\ buf'[q].next = buf[q].next
      /\ cursor' \in [Conns -> [Rcbs -> Nat]]
      /\ Undelivered(buf'[r], cursor'[c][r]) = {}
      /\ \A d \in Conns, q \in Rcbs : <<d, q>> # <<c, r>> => cursor'[d][q] = cursor[d][q]
      /\ seen' \in [Clients -> [Rcbs -> Nat]]
      /\ lost' \subseteq enabled /\ disturbed' \subseteq enabled
      /\ \A e \in lost' \ disturbed' : buf'[e[2]].overflow
  BY DrainKeeps
<1>2. TypeOK'
  <2>1. \A q \in Rcbs : Len(buf'[q].entries) <= Capacity
    BY <1>1 DEF IInv, TypeOK
  <2>2. lost' \subseteq enabled' /\ disturbed' \subseteq enabled'
    BY <1>1
  <2>3. /\ store' \in [Items -> 0..MaxWrites] /\ lag' \in [Conns -> 0..MaxReportLag]
        /\ todo' \subseteq Rcbs /\ notifying' \subseteq Rcbs
    BY DEF IInv, TypeOK
  <2> QED BY <1>1, <2>1, <2>2, <2>3 DEF TypeOK, Buffer, Changes, Notices
<1>3. EntryIdsAreConsecutive'
  <2>1. \A q \in Rcbs : Consecutive(buf[q])
    BY BuffersAreTyped DEF IInv
  <2>2. ASSUME NEW q \in Rcbs PROVE Consecutive(buf'[q])
    <3>1. buf'[q].entries = buf[q].entries /\ buf'[q].next = buf[q].next
      BY <1>1
    <3> QED BY <2>1, <3>1 DEF Consecutive
  <2> QED BY <2>2 DEF EntryIdsAreConsecutive, Consecutive
<1>4. LossIsSignalled'
  BY <1>1 DEF LossIsSignalled
<1>5. NoLostWakeup'
  <2> SUFFICES ASSUME NEW d \in Conns, NEW q \in Rcbs, <<d, q>> \in enabled',
                      Undelivered(buf'[q], cursor'[d][q]) # {}
               PROVE  \/ q \in notifying \cup Range(notices'[d].queue)
                      \/ lag[d] > 0 \/ Lagged(notices'[d])
    BY DEF NoLostWakeup
  <2>1. <<d, q>> # <<c, r>>
    BY <1>1
  <2>2. <<d, q>> \in enabled /\ Undelivered(buf[q], cursor[d][q]) # {}
    BY <1>1, <2>1 DEF Undelivered
  <2>3. \/ q \in notifying \cup Range(notices[d].queue)
        \/ lag[d] > 0 \/ Lagged(notices[d])
    BY <2>2 DEF IInv, NoLostWakeup
  <2> QED BY <2>1, <2>3
<1>6. NotifiesOneBlock'
  BY DEF IInv, NotifiesOneBlock
<1> QED BY <1>2, <1>3, <1>4, <1>5, <1>6 DEF IInv

(* The types that every effect of a granted write finds and leaves.         *)
LEMMA ApplyTypes ==
  ASSUME IInv, NEW g, Apply(g)
  PROVE  /\ g.conn \in live /\ g.conn \in Conns
         /\ g.write.rcb \in Rcbs /\ g.write.val \in Nat
         /\ changes' \in Changes /\ notices' \in [Conns -> Notices]
         /\ enabled' = IF Enables(g.write) THEN enabled \cup {<<g.conn, g.write.rcb>>}
                       ELSE IF Disables(g.write) THEN enabled \ {<<g.conn, g.write.rcb>>}
                       ELSE enabled
         /\ UNCHANGED <<live, store, todo, notifying, notices, lag>>
<1>1. g \in granted
  BY DEF Apply, TakeEffect
<1>2. g.conn \in live /\ g.write \in Requests
  BY <1>1 DEF IInv, TypeOK, ReservationTypeOK
<1>3. changes' \in Changes
  BY PublishedIsTyped DEF IInv, Apply, Changes
<1>4. notices' \in [Conns -> Notices]
  BY DEF IInv, TypeOK, Apply, Notices
<1>5. g.write \in [rcb : Rcbs, attr : STRING, val : Nat]
  BY <1>2, RequestsAssumption
<1>6. g.conn \in Conns
  BY <1>2, LiveAreConns DEF IInv
<1> QED BY <1>2, <1>3, <1>4, <1>5, <1>6 DEF Apply, TakeEffect

LEMMA EnableBlockIInv ==
  ASSUME IInv, ReservationTypeOK', NEW g, EnableBlock(g)
  PROVE  IInv'
<1>1. Apply(g) /\ Enables(g.write) /\ entryId' = entryId
      /\ Drain(g.conn, g.write.rcb, StartCursor(g.write.rcb), TRUE)
  BY DEF EnableBlock
<1>2. /\ g.conn \in live /\ g.write.rcb \in Rcbs
      /\ changes' \in Changes /\ notices' \in [Conns -> Notices]
      /\ enabled' = enabled \cup {<<g.conn, g.write.rcb>>}
      /\ UNCHANGED <<store, todo, notifying, notices, lag>>
  BY <1>1, ApplyTypes
<1>3. entryId' \in [Rcbs -> Nat] /\ entryId[g.write.rcb] \in Nat
  BY <1>1, <1>2 DEF IInv, TypeOK
<1>4. StartCursor(g.write.rcb) \in Nat
  <2>1. MaxId(buf[g.write.rcb]) \in Nat
    BY <1>2, BuffersAreTyped, NothingAfterNewest DEF IInv
  <2> QED BY <1>3, <2>1 DEF StartCursor
<1>5. \A d \in Conns : Lagged(notices[d]) => Lagged(notices'[d])
  BY <1>2
<1> QED BY <1>1, <1>2, <1>3, <1>4, <1>5, DrainIInv

LEMMA WriteEntryIDIInv ==
  ASSUME IInv, ReservationTypeOK', NEW g, WriteEntryID(g)
  PROVE  IInv'
<1>1. Apply(g) /\ g.write.attr = "EntryID"
      /\ entryId' = [entryId EXCEPT ![g.write.rcb] = g.write.val]
  BY DEF WriteEntryID
<1>2. /\ g.conn \in live /\ g.write.rcb \in Rcbs /\ g.write.val \in Nat
      /\ changes' \in Changes /\ notices' \in [Conns -> Notices]
      /\ enabled' = enabled
      /\ UNCHANGED <<store, todo, notifying, notices, lag>>
  BY <1>1, ApplyTypes DEF Enables, Disables
<1>3. entryId' \in [Rcbs -> Nat]
  BY <1>1, <1>2 DEF IInv, TypeOK
<1>4. CASE <<g.conn, g.write.rcb>> \in enabled
  <2>1. Drain(g.conn, g.write.rcb, g.write.val, TRUE)
    BY <1>4 DEF WriteEntryID
  <2> QED BY <1>2, <1>3, <2>1, DrainIInv
<1>5. CASE <<g.conn, g.write.rcb>> \notin enabled
  <2>1. UNCHANGED <<buf, cursor, historyVars>>
    BY <1>5 DEF WriteEntryID
  <2>2. TypeOK'
    BY <1>2, <1>3, <2>1 DEF IInv, TypeOK, historyVars, Changes
  <2>3. EntryIdsAreConsecutive' /\ LossIsSignalled'
    BY <2>1 DEF IInv, EntryIdsAreConsecutive, LossIsSignalled, historyVars
  <2>4. NoLostWakeup' /\ NotifiesOneBlock'
    BY <1>2, <2>1 DEF IInv, NoLostWakeup, NotifiesOneBlock, Undelivered, Lagged
  <2> QED BY <2>2, <2>3, <2>4 DEF IInv
<1> QED BY <1>4, <1>5

LEMMA WriteOtherIInv ==
  ASSUME IInv, ReservationTypeOK', NEW g, WriteOther(g)
  PROVE  IInv'
<1>1. /\ changes' \in Changes /\ enabled' = enabled
      /\ UNCHANGED <<store, todo, notifying, notices, lag, buf, entryId, cursor, historyVars>>
  BY ApplyTypes DEF WriteOther, Enables, Disables
<1>2. TypeOK'
  BY <1>1 DEF IInv, TypeOK, historyVars, Changes
<1>3. EntryIdsAreConsecutive' /\ LossIsSignalled'
  BY <1>1 DEF IInv, EntryIdsAreConsecutive, LossIsSignalled, historyVars
<1>4. NoLostWakeup' /\ NotifiesOneBlock'
  BY <1>1 DEF IInv, NoLostWakeup, NotifiesOneBlock, Undelivered, Lagged
<1> QED BY <1>2, <1>3, <1>4 DEF IInv

(* What c no longer uses needs neither its notifications nor its losses.    *)
LEMMA LeavingIInv ==
  ASSUME IInv, ReservationTypeOK', enabled' \subseteq enabled,
         UNCHANGED <<store, todo, notifying, buf, entryId, seen>>,
         changes' \in Changes, notices' \in [Conns -> Notices],
         lag' \in [Conns -> 0..MaxReportLag], cursor' \in [Conns -> [Rcbs -> Nat]],
         lost' = lost \cap enabled', disturbed' = disturbed \cap enabled',
         \A d \in Conns, q \in Rcbs : <<d, q>> \in enabled' =>
            cursor'[d][q] = cursor[d][q] /\ notices'[d] = notices[d] /\ lag'[d] = lag[d]
  PROVE  IInv'
<1>1. TypeOK'
  BY DEF IInv, TypeOK, Changes, Notices
<1>2. EntryIdsAreConsecutive' /\ LossIsSignalled'
  BY DEF IInv, EntryIdsAreConsecutive, LossIsSignalled
<1>3. NoLostWakeup' /\ NotifiesOneBlock'
  BY DEF IInv, NoLostWakeup, NotifiesOneBlock, Undelivered, Lagged
<1> QED BY <1>1, <1>2, <1>3 DEF IInv

LEMMA DisableBlockIInv ==
  ASSUME IInv, ReservationTypeOK', NEW g, DisableBlock(g)
  PROVE  IInv'
<1>1. Apply(g) /\ Disables(g.write)
      /\ cursor' = [cursor EXCEPT ![g.conn][g.write.rcb] = 0]
      /\ lost' = lost \cap enabled' /\ disturbed' = disturbed \cap enabled'
      /\ UNCHANGED <<buf, entryId, seen>>
  BY DEF DisableBlock
<1>2. /\ g.conn \in Conns /\ g.write.rcb \in Rcbs
      /\ changes' \in Changes /\ notices' \in [Conns -> Notices]
      /\ enabled' = enabled \ {<<g.conn, g.write.rcb>>}
      /\ UNCHANGED <<store, todo, notifying, notices, lag>>
  BY <1>1, ApplyTypes DEF Enables, Disables
<1>3. /\ cursor' \in [Conns -> [Rcbs -> Nat]]
      /\ \A d \in Conns, q \in Rcbs : <<d, q>> \in enabled' => cursor'[d][q] = cursor[d][q]
  BY <1>1, <1>2 DEF IInv, TypeOK
<1>4. lag' \in [Conns -> 0..MaxReportLag]
  BY <1>2 DEF IInv, TypeOK
<1> QED BY <1>1, <1>2, <1>3, <1>4, LeavingIInv

LEMMA CloseIInv ==
  ASSUME IInv, ReservationTypeOK', NEW c \in Conns, Close(c)
  PROVE  IInv'
<1>1. enabled' \subseteq enabled /\ \A e \in enabled' : e[1] # c
  BY DEF Close, DropConnection
<1>2. /\ notices' = [notices EXCEPT ![c] = NewReceiver]
      /\ lag' = [lag EXCEPT ![c] = 0]
      /\ cursor' = [cursor EXCEPT ![c] = [r \in Rcbs |-> 0]]
      /\ lost' = lost \cap enabled' /\ disturbed' = disturbed \cap enabled'
      /\ UNCHANGED <<store, changes, todo, notifying, buf, entryId, seen>>
  BY DEF Close, taskVars
<1>3. /\ notices' \in [Conns -> Notices]
      /\ \A d \in Conns \ {c} : notices'[d] = notices[d]
  <2>1. NewReceiver \in Notices
    BY DEF NewReceiver, Notices
  <2>2. notices \in [Conns -> Notices]
    BY DEF IInv, TypeOK, Notices
  <2> QED BY <1>2, <2>1, <2>2
<1>4. /\ lag' \in [Conns -> 0..MaxReportLag]
      /\ \A d \in Conns \ {c} : lag'[d] = lag[d]
  BY <1>2, SizesAssumption DEF IInv, TypeOK
<1>5. /\ cursor' \in [Conns -> [Rcbs -> Nat]]
      /\ \A d \in Conns \ {c} : cursor'[d] = cursor[d]
  BY <1>2 DEF IInv, TypeOK
<1>6. changes' \in Changes
  BY <1>2 DEF IInv, TypeOK, Changes
<1>7. \A d \in Conns, q \in Rcbs : <<d, q>> \in enabled' =>
            cursor'[d][q] = cursor[d][q] /\ notices'[d] = notices[d] /\ lag'[d] = lag[d]
  BY <1>1, <1>3, <1>4, <1>5
<1> QED BY <1>1, <1>2, <1>3, <1>4, <1>5, <1>6, <1>7, LeavingIInv

LEMMA PurgeBufferIInv ==
  ASSUME IInv, ReservationTypeOK', NEW g, PurgeBuffer(g)
  PROVE  IInv'
<1> DEFINE c == g.conn
           r == g.write.rcb
<1>1. /\ Apply(g) /\ g.write.attr = "PurgeBuf"
      /\ buf' = [buf EXCEPT ![r].entries = <<>>, ![r].overflow = FALSE]
      /\ cursor' = [cursor EXCEPT ![c][r] = 0]
      /\ lost' = lost \ {<<c, r>>}
      /\ disturbed' = disturbed \cup Others(c, r)
      /\ UNCHANGED <<entryId, seen>>
  BY DEF PurgeBuffer
<1>2. /\ c \in Conns /\ r \in Rcbs /\ enabled' = enabled
      /\ changes' \in Changes /\ notices' \in [Conns -> Notices]
      /\ UNCHANGED <<store, todo, notifying, notices, lag>>
  BY <1>1, ApplyTypes DEF Enables, Disables
<1> HIDE DEF c, r
<1>3. buf \in [Rcbs -> Buffer]
  BY DEF IInv, TypeOK, Buffer
<1>4. /\ buf' \in [Rcbs -> Buffer]
      /\ buf'[r].entries = <<>> /\ \A q \in Rcbs \ {r} : buf'[q] = buf[q]
  <2>1. <<>> \in Seq(Nat)
    OBVIOUS
  <2> QED BY <1>1, <1>2, <1>3, <2>1 DEF Buffer
<1>5. Undelivered(buf'[r], cursor'[c][r]) = {} /\ \A k : Undelivered(buf'[r], k) = {}
  BY <1>4 DEF Undelivered, Range
<1>6. /\ cursor' \in [Conns -> [Rcbs -> Nat]]
      /\ \A d \in Conns, q \in Rcbs : q # r => cursor'[d][q] = cursor[d][q]
  BY <1>1, <1>2 DEF IInv, TypeOK
<1>7. lost' \subseteq enabled /\ disturbed' \subseteq enabled
  BY <1>1 DEF IInv, TypeOK, Others
<1>8. TypeOK'
  <2>1. \A q \in Rcbs : Len(buf'[q].entries) <= Capacity
    <3>1. Len(buf'[r].entries) <= Capacity
      BY <1>4, SizesAssumption
    <3> QED BY <1>4, <3>1 DEF IInv, TypeOK
  <2> QED BY <1>1, <1>2, <1>4, <1>6, <1>7, <2>1 DEF IInv, TypeOK, Buffer, Changes, Notices
<1>9. EntryIdsAreConsecutive'
  BY <1>4 DEF IInv, EntryIdsAreConsecutive
<1>10. LossIsSignalled'
  <2> SUFFICES ASSUME NEW e \in lost', e \notin disturbed'
               PROVE  buf'[e[2]].overflow
    BY DEF LossIsSignalled
  <2>1. e \in lost /\ e \in enabled /\ e \notin disturbed
    BY <1>1, <1>7
  <2>2. e = <<e[1], e[2]>> /\ e[2] \in Rcbs
    BY <2>1 DEF IInv, TypeOK, ReservationTypeOK
  <2>3. e[2] # r
    BY <1>1, <2>1, <2>2 DEF Others
  <2> QED BY <1>4, <2>1, <2>2, <2>3 DEF IInv, LossIsSignalled
<1>11. NoLostWakeup' /\ NotifiesOneBlock'
  BY <1>2, <1>4, <1>5, <1>6 DEF IInv, NoLostWakeup, NotifiesOneBlock, Lagged
<1> QED BY <1>8, <1>9, <1>10, <1>11 DEF IInv

LEMMA HandleNoticeIInv ==
  ASSUME IInv, ReservationTypeOK', NEW c \in Conns, HandleNotice(c)
  PROVE  IInv'
<1> DEFINE r == Head(notices[c].queue)
<1>1. /\ c \in live /\ Ready(notices[c])
      /\ notices' = [notices EXCEPT ![c] = Received(notices[c])]
      /\ UNCHANGED <<reservationVars, store, taskVars, entryId, lag>>
  BY DEF HandleNotice, Idle
<1>2. notices \in [Conns -> Notices]
  BY DEF IInv, TypeOK, Notices
<1>3. /\ Received(notices[c]) \in Notices
      /\ Received(notices[c]).missed = notices[c].missed
      /\ r \in Rcbs
      /\ \A x \in Range(notices[c].queue) : x = r \/ x \in Range(Received(notices[c]).queue)
  BY <1>1, <1>2, ReceivedMessage DEF Notices
<1> HIDE DEF r
<1>4. /\ notices' \in [Conns -> Notices]
      /\ \A d \in Conns, q \in Rcbs : <<d, q>> # <<c, r>> /\ q \in Range(notices[d].queue)
            => q \in Range(notices'[d].queue)
      /\ \A d \in Conns : Lagged(notices[d]) => Lagged(notices'[d])
  BY <1>1, <1>2, <1>3 DEF Lagged
<1>5. changes' \in Changes /\ entryId' \in [Rcbs -> Nat]
  BY <1>1 DEF IInv, TypeOK, Changes, taskVars
<1>6. CASE <<c, r>> \in enabled
  <2>1. Drain(c, r, cursor[c][r], FALSE)
    BY <1>6 DEF HandleNotice, r
  <2>2. cursor[c][r] \in Nat
    BY <1>3 DEF IInv, TypeOK
  <2>3. enabled' = enabled /\ UNCHANGED <<store, todo, notifying, lag>>
    BY <1>1 DEF reservationVars, taskVars
  <2> QED BY <1>1, <1>3, <1>4, <1>5, <2>1, <2>2, <2>3, DrainIInv
<1>7. CASE <<c, r>> \notin enabled
  <2>1. UNCHANGED <<buf, cursor, historyVars>>
    BY <1>7 DEF HandleNotice, r
  <2>2. TypeOK'
    BY <1>1, <1>4, <1>5, <2>1
       DEF IInv, TypeOK, historyVars, reservationVars, taskVars, Notices
  <2>3. EntryIdsAreConsecutive' /\ LossIsSignalled' /\ NotifiesOneBlock'
    BY <1>1, <2>1 DEF IInv, EntryIdsAreConsecutive, LossIsSignalled, NotifiesOneBlock,
                      historyVars, taskVars
  <2>4. NoLostWakeup'
    <3> SUFFICES ASSUME NEW d \in Conns, NEW q \in Rcbs, <<d, q>> \in enabled,
                        Undelivered(buf[q], cursor[d][q]) # {}
                 PROVE  \/ q \in notifying \cup Range(notices'[d].queue)
                        \/ lag[d] > 0 \/ Lagged(notices'[d])
      BY <1>1, <2>1 DEF NoLostWakeup, reservationVars, taskVars
    <3>1. \/ q \in notifying \cup Range(notices[d].queue)
          \/ lag[d] > 0 \/ Lagged(notices[d])
      BY DEF IInv, NoLostWakeup
    <3> QED BY <1>4, <1>7, <3>1
  <2> QED BY <2>2, <2>3, <2>4 DEF IInv
<1> QED BY <1>6, <1>7

LEMMA NoteLagIInv ==
  ASSUME IInv, ReservationTypeOK', NEW c \in Conns, NoteLag(c)
  PROVE  IInv'
<1>1. /\ Lagged(notices[c]) /\ lag[c] + notices[c].missed <= MaxReportLag
      /\ lag' = [lag EXCEPT ![c] = @ + notices[c].missed]
      /\ notices' = [notices EXCEPT ![c] = CaughtUp(notices[c])]
      /\ UNCHANGED <<reservationVars, store, taskVars, buf, entryId, cursor, historyVars>>
  BY DEF NoteLag
<1>2. notices \in [Conns -> Notices] /\ lag \in [Conns -> 0..MaxReportLag]
  BY DEF IInv, TypeOK, Notices
<1>3. notices' \in [Conns -> Notices] /\ \A d \in Conns \ {c} : notices'[d] = notices[d]
  <2>1. CaughtUp(notices[c]) \in Notices
    BY <1>2 DEF CaughtUp, Notices
  <2> QED BY <1>1, <1>2, <2>1
<1>4. /\ lag' \in [Conns -> 0..MaxReportLag] /\ lag'[c] > 0
      /\ \A d \in Conns \ {c} : lag'[d] = lag[d]
  <2>1. notices[c].missed \in Nat /\ notices[c].missed > 0
    BY <1>1, <1>2 DEF Notices, Lagged
  <2> QED BY <1>1, <1>2, <2>1, SizesAssumption
<1>5. TypeOK'
  BY <1>1, <1>3, <1>4 DEF IInv, TypeOK, reservationVars, taskVars, historyVars, Notices
<1>6. EntryIdsAreConsecutive' /\ LossIsSignalled' /\ NotifiesOneBlock'
  BY <1>1 DEF IInv, EntryIdsAreConsecutive, LossIsSignalled, NotifiesOneBlock,
              historyVars, taskVars
<1>7. NoLostWakeup'
  BY <1>1, <1>3, <1>4 DEF IInv, NoLostWakeup, reservationVars, taskVars, Undelivered
<1> QED BY <1>5, <1>6, <1>7 DEF IInv

(* Accepting, checking and the clock concern the reservations alone.        *)
LEMMA ReservationStepIInv ==
  ASSUME IInv, ReservationTypeOK', enabled' = enabled,
         UNCHANGED <<store, taskVars, buf, entryId, connVars, historyVars>>
  PROVE  IInv'
<1>1. TypeOK'
  BY DEF IInv, TypeOK, taskVars, connVars, historyVars
<1>2. EntryIdsAreConsecutive' /\ LossIsSignalled'
  BY DEF IInv, EntryIdsAreConsecutive, LossIsSignalled, historyVars
<1>3. NoLostWakeup' /\ NotifiesOneBlock'
  BY DEF IInv, NoLostWakeup, NotifiesOneBlock, Undelivered, Lagged, taskVars, connVars
<1> QED BY <1>1, <1>2, <1>3 DEF IInv

-----------------------------------------------------------------------------
LEMMA NextIInv == IInv /\ ReservationTypeOK' /\ [Next]_vars => IInv'
<1> SUFFICES ASSUME IInv, ReservationTypeOK', [Next]_vars PROVE IInv'
  OBVIOUS
<1>1. ASSUME NEW i \in Items, WriteValue(i) PROVE IInv'
  BY <1>1, WriteValueIInv
<1>2. ASSUME BufferingTask PROVE IInv'
  BY <1>2, TakeOrSkipIInv, AppendEntryIInv, NotifyIInv DEF BufferingTask
<1>3. ASSUME NEW k \in Clients, Accept(k) PROVE IInv'
  BY <1>3, ReservationStepIInv DEF Accept, OpenConnection
<1>4. ASSUME NEW c \in Conns, NEW w \in Requests, Check(c, w) PROVE IInv'
  BY <1>4, ReservationStepIInv DEF Check, Grant, Refuse
<1>5. ASSUME NEW g, Effect(g) PROVE IInv'
  BY <1>5, EnableBlockIInv, DisableBlockIInv, WriteEntryIDIInv, PurgeBufferIInv, WriteOtherIInv
     DEF Effect
<1>6. ASSUME NEW c \in Conns, HandleNotice(c) PROVE IInv'
  BY <1>6, HandleNoticeIInv
<1>7. ASSUME NEW c \in Conns, NoteLag(c) PROVE IInv'
  BY <1>7, NoteLagIInv
<1>8. ASSUME NEW c \in Conns, CloseLagging(c) \/ Close(c) PROVE IInv'
  BY <1>8, CloseIInv DEF CloseLagging
<1>9. ASSUME Tick PROVE IInv'
  BY <1>9, ReservationStepIInv DEF Tick, WindowTick
<1>10. CASE UNCHANGED vars
  BY <1>10, ReservationStepIInv DEF vars, reservationVars
<1> QED BY <1>1, <1>2, <1>3, <1>4, <1>5, <1>6, <1>7, <1>8, <1>9, <1>10 DEF Next

(* The invariant holds of every behaviour of the reporting system.          *)
THEOREM ReportingInvariance == Spec => []IInv
<1>1. Init => IInv
  BY InitialInvariant
<1>2. IInv /\ ReservationTypeOK' /\ [Next]_vars => IInv'
  BY NextIInv
<1>3. Spec => []ReservationTypeOK
  BY ReservationTyped
<1> QED BY <1>1, <1>2, <1>3, PTL DEF Spec

(* The state of the server keeps its types, and no buffer outgrows          *)
(* BRCB_CAPACITY.                                                           *)
THEOREM ReportingTypeCorrect == Spec => []TypeOK
  BY ReportingInvariance, PTL DEF IInv

(* EntryIDs identify the entries of a buffer.                               *)
THEOREM EntryIdsIdentify == Spec => []EntryIdsAreConsecutive
  BY ReportingInvariance, PTL DEF IInv

(* A connection that lost entries is told, unless another one interfered.   *)
THEOREM LossesAreSignalled == Spec => []LossIsSignalled
  BY ReportingInvariance, PTL DEF IInv

(* An entry that is still to be sent is always about to be noticed, unless  *)
(* the connection lagged.                                                   *)
THEOREM WakeupsAreKept == Spec => []NoLostWakeup
  BY ReportingInvariance, PTL DEF IInv
=============================================================================
