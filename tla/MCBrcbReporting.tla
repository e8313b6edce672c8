--------------------------- MODULE MCBrcbReporting ---------------------------
(* Instances of BrcbReporting for TLC.                                      *)
EXTENDS BrcbReporting

CONSTANTS r1, r2, i1

(* One block whose data set has one item; two blocks that share it.         *)
OneBlock == r1 :> {i1}
TwoBlocks == r1 :> {i1} @@ r2 :> {i1}

Write(r, a, v) == [rcb |-> r, attr |-> a, val |-> v]

(* A client that enables, disables, resumes and purges a block.             *)
FullUse == {Write(r1, "RptEna", 1), Write(r1, "RptEna", 0), Write(r1, "EntryID", 1),
            Write(r1, "PurgeBuf", 1)}

(* Clients that give the block up while they have it enabled, so that two   *)
(* connections may use it at once.                                          *)
SharedUse == {Write(r1, "RptEna", 1), Write(r1, "EntryID", 1), Write(r1, "ResvTms", 0)}

(* A client of both blocks that resumes one of them.                        *)
BothUse == {Write(r1, "RptEna", 1), Write(r1, "EntryID", 1), Write(r2, "RptEna", 1)}

(* A client that enables a block again.                                     *)
EnableAndDisable == {Write(r1, "RptEna", 1), Write(r1, "RptEna", 0)}
=============================================================================
