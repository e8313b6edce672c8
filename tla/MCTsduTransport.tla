--------------------------- MODULE MCTsduTransport ---------------------------
(* Instances of TsduTransport for TLC.                                      *)
EXTENDS TsduTransport, TLC

CONSTANTS none, small, full, large, huge

(* With TPDUs of 2 octets of data: an empty TSDU, one that fills a TPDU,    *)
(* one that needs two, one that needs three, one that is too long.          *)
Lengths == none :> 0 @@ full :> 2 @@ small :> 3 @@ large :> 5 @@ huge :> 7
OctetsOf == [t \in Tsdus |-> Lengths[t]]
=============================================================================
