-------------------------- MODULE MCRcbReservation --------------------------
(* Instances of RcbReservation for TLC.                                     *)
EXTENDS RcbReservation

CONSTANT Window  \* the seconds of ResvTms that clients ask for

(* Clients that enable a block and keep a window, so that the shortest      *)
(* counterexample is the one worth reading.                                 *)
EnableAndKeep ==
  [rcb : Rcbs, attr : {"RptEna"}, val : {0, 1}]
    \cup [rcb : Rcbs, attr : {"ResvTms"}, val : {Window}]
=============================================================================
