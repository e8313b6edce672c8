--------------------------- MODULE RcbReservation ---------------------------
(***************************************************************************)
(* Exclusive use of the report control blocks (RCBs) of the MMS server.    *)
(*                                                                         *)
(* The server keeps one table of reservations, shared by all connection    *)
(* tasks behind a mutex (server.rs, Reservation, ReservationGuard,         *)
(* ConnState::check_rcb_reservation).  A write to an attribute of an RCB   *)
(* is handled in two steps: the check looks at the table and updates it    *)
(* under the mutex, and the effect of the write follows after the mutex is *)
(* released.  Other connection tasks may run between the two.              *)
(*                                                                         *)
(* Every connection modelled here has a role with the REPORTING permission *)
(* (a write of any other role is refused before the check).  Values of an  *)
(* attribute are numbers: a BOOLEAN is 0 or 1, ResvTms counts seconds.     *)
(***************************************************************************)
EXTENDS Integers, Sequences

CONSTANTS
  Rcbs,      \* the report control blocks of the server
  Clients,   \* the parties that open connections
  Requests,  \* the writes to RCB attributes that clients send
  MaxConns   \* bound on the number of connections ever accepted

ASSUME RequestsAssumption == Requests \subseteq [rcb : Rcbs, attr : STRING, val : Nat]
ASSUME MaxConnsAssumption == MaxConns \in Nat

VARIABLES
  clientOf,  \* the client of each accepted connection; conn_id is the index
  live,      \* connections whose task is running
  resv,      \* the reservation table
  granted,   \* writes that passed the check and have not taken effect yet
  enabled,   \* <<c, r>>: connection c has a runtime (RcbRuntime) for block r
  released,  \* history: <<c, r>>: c gave r up explicitly since it last took it
  refused    \* history: the <<connection, block>> refused by the last step, if any

reservationVars == <<clientOf, live, resv, granted, enabled, released, refused>>

Conns == 1..MaxConns
NoConn == 0

(***************************************************************************)
(* `until' is modelled by `left', the seconds that remain of the window    *)
(* after a disconnection: Alive stands for until = None, 0 for a window    *)
(* that is over.  The record of an expired window stays in the table.      *)
(***************************************************************************)
Alive == -1
Free == [conn |-> NoConn, secs |-> 0, left |-> 0]
Reservation == [conn : Conns \cup {NoConn}, secs : Nat, left : Nat \cup {Alive}]

Holds(reservation) == reservation.left # 0

(* The reservation of r binds connection c: it is another one's and it holds. *)
OtherHolds(c, r) == resv[r].conn # c /\ Holds(resv[r])

Pending(c) == {g \in granted : g.conn = c}
Idle(c) == c \in live /\ Pending(c) = {}

(* What the three attributes that touch the table ask for.                 *)
Reserves(w) == \/ w.attr = "Resv" /\ w.val = 1
               \/ w.attr = "ResvTms" /\ w.val > 0
Releases(w) == w.attr \in {"Resv", "ResvTms"} /\ ~Reserves(w)
Enables(w) == w.attr = "RptEna" /\ w.val = 1
Disables(w) == w.attr = "RptEna" /\ w.val = 0

ReservationInit ==
  /\ clientOf = <<>>
  /\ live = {}
  /\ resv = [r \in Rcbs |-> Free]
  /\ granted = {}
  /\ enabled = {}
  /\ released = {}
  /\ refused = {}

-----------------------------------------------------------------------------
(* A connection is accepted and gets the next conn_id.                     *)
OpenConnection(k) ==
  /\ Len(clientOf) < MaxConns
  /\ clientOf' = Append(clientOf, k)
  /\ live' = live \cup {Len(clientOf) + 1}
  /\ refused' = {}
  /\ UNCHANGED <<resv, granted, enabled, released>>

(* The check refuses a write with temporarily-unavailable.                 *)
Refuse(c, w) ==
  /\ Idle(c)
  /\ OtherHolds(c, w.rcb)
  /\ refused' = {<<c, w.rcb>>}
  /\ UNCHANGED <<clientOf, live, resv, granted, enabled, released>>

(* The entry of the table after connection c passed the check for w.       *)
AfterCheck(c, w) ==
  IF Reserves(w)
    THEN [conn |-> c, secs |-> IF w.attr = "ResvTms" THEN w.val ELSE 0, left |-> Alive]
  ELSE IF Releases(w) THEN Free
  ELSE IF Enables(w) /\ resv[w.rcb].conn # c
    THEN [conn |-> c, secs |-> 0, left |-> Alive]
  ELSE resv[w.rcb]

ReleasedAfter(c, w) ==
  IF Releases(w) THEN released \cup {<<c, w.rcb>>}
  ELSE IF Reserves(w) \/ Enables(w) THEN released \ {<<c, w.rcb>>}
  ELSE released

(* Variants of Grant that a slip in the check would produce: the table is  *)
(* not consulted; an expired window still counts as taken by nobody.       *)
GrantUnchecked(c, w) ==
  /\ Idle(c)
  /\ resv' = [resv EXCEPT ![w.rcb] = AfterCheck(c, w)]
  /\ released' = ReleasedAfter(c, w)
  /\ granted' = granted \cup {[conn |-> c, write |-> w]}
  /\ refused' = {}
  /\ UNCHANGED <<clientOf, live, enabled>>

GrantIgnoringWindow(c, w) ==
  /\ resv[w.rcb].conn # c => resv[w.rcb].left # Alive
  /\ GrantUnchecked(c, w)

(* The check lets a write through and brings the table up to date.         *)
Grant(c, w) ==
  /\ Idle(c)
  /\ ~OtherHolds(c, w.rcb)
  /\ resv' = [resv EXCEPT ![w.rcb] = AfterCheck(c, w)]
  /\ released' = ReleasedAfter(c, w)
  /\ granted' = granted \cup {[conn |-> c, write |-> w]}
  /\ refused' = {}
  /\ UNCHANGED <<clientOf, live, enabled>>

(* The write takes effect: RptEna creates or removes the runtime.          *)
TakeEffect(g) ==
  /\ g \in granted
  /\ granted' = granted \ {g}
  /\ enabled' = IF Enables(g.write) THEN enabled \cup {<<g.conn, g.write.rcb>>}
                ELSE IF Disables(g.write) THEN enabled \ {<<g.conn, g.write.rcb>>}
                ELSE enabled
  /\ refused' = {}
  /\ UNCHANGED <<clientOf, live, resv, released>>

(* The entry r of the table after the guard of connection c is dropped.    *)
AfterDropStuck(c, r) ==
  IF resv[r].conn # c \/ resv[r].secs > 0 THEN resv[r] ELSE Free

AfterDrop(c, r) ==
  IF resv[r].conn # c THEN resv[r]
  ELSE IF resv[r].secs > 0 THEN [resv[r] EXCEPT !.left = resv[r].secs]
  ELSE Free

DropConnectionKeepingRuntimes(c) ==
  /\ Idle(c)
  /\ live' = live \ {c}
  /\ resv' = [r \in Rcbs |-> AfterDrop(c, r)]
  /\ refused' = {}
  /\ UNCHANGED <<clientOf, granted, enabled, released>>

(* A connection task ends (conclude, idle timeout, lag, broken socket):    *)
(* its runtimes go, and the guard settles its reservations.                *)
DropConnection(c) ==
  /\ Idle(c)
  /\ live' = live \ {c}
  /\ enabled' = {e \in enabled : e[1] # c}
  /\ released' = {e \in released : e[1] # c}
  /\ resv' = [r \in Rcbs |-> AfterDrop(c, r)]
  /\ refused' = {}
  /\ UNCHANGED <<clientOf, granted>>

(* A second passes.                                                        *)
WindowTick ==
  /\ \E r \in Rcbs : resv[r].left > 0
  /\ resv' = [r \in Rcbs |-> IF resv[r].left > 0
                             THEN [resv[r] EXCEPT !.left = @ - 1]
                             ELSE resv[r]]
  /\ refused' = {}
  /\ UNCHANGED <<clientOf, live, granted, enabled, released>>

ReservationNext ==
  \/ \E k \in Clients : OpenConnection(k)
  \/ \E c \in Conns, w \in Requests : Refuse(c, w)
  \/ \E c \in Conns, w \in Requests : Grant(c, w)
  \/ \E g \in granted : TakeEffect(g)
  \/ \E c \in Conns : DropConnection(c)
  \/ WindowTick

ReservationSpec == ReservationInit /\ [][ReservationNext]_reservationVars

(* Time goes on.  Nothing else is assumed to happen.                       *)
ReservationFairSpec == ReservationSpec /\ WF_reservationVars(WindowTick)

-----------------------------------------------------------------------------
ReservationTypeOK ==
  /\ clientOf \in Seq(Clients) /\ Len(clientOf) <= MaxConns
  /\ live \subseteq 1..Len(clientOf)
  /\ resv \in [Rcbs -> Reservation]
  /\ granted \subseteq [conn : live, write : Requests]
  /\ enabled \subseteq live \X Rcbs
  /\ released \subseteq live \X Rcbs
  /\ refused \subseteq Conns \X Rcbs

(* A block is used by one connection at a time, as long as the connections *)
(* that enabled it do not hand it over themselves (Resv = FALSE or         *)
(* ResvTms = 0 while it is enabled).                                       *)
ExclusiveUnlessReleased ==
  \A e, f \in enabled \ released : e[2] = f[2] => e[1] = f[1]

(* No lock is orphaned: a reservation without a deadline belongs to a      *)
(* running connection, whichever way and whenever connections end, and a   *)
(* running connection's reservation never has a deadline.                  *)
LiveReservationsHaveOwners ==
  \A r \in Rcbs : resv[r].left = Alive <=> resv[r].conn \in live

(* Nobody takes a block from its holder: while a reservation holds, by a   *)
(* running connection or by the window of one that is gone, the entry only *)
(* passes to nobody, and the window of an owner that is gone only runs out.*)
HeldBlockIsNotTaken ==
  [][\A r \in Rcbs : Holds(resv[r]) =>
        /\ resv'[r].conn \in {resv[r].conn, NoConn}
        /\ resv[r].left > 0 => resv'[r] \in {resv[r], [resv[r] EXCEPT !.left = @ - 1]}]_reservationVars

(* A block whose owner is gone becomes available: the window always ends.  *)
OrphanedBlockIsFreed ==
  \A r \in Rcbs : resv[r].conn \notin live /\ Holds(resv[r]) ~> ~Holds(resv[r])

-----------------------------------------------------------------------------
(* What a comment of the repository says of reservations and the code does *)
(* not do.                                                                 *)

(* server.rs, Reservation: the window lets the owner reconnect and         *)
(* resynchronise: no request of a client is refused because of the window  *)
(* of its own earlier connection.                                          *)
OwnerMayComeBack ==
  \A x \in refused : resv[x[2]].left > 0 => clientOf[x[1]] # clientOf[resv[x[2]].conn]
=============================================================================
