------------------------------ MODULE MCDialogue ------------------------------
(* An IED, what is asked of it and what it sends unasked, for TLC.          *)
EXTENDS MmsDialogue, TLC

(* Two devices, one under a name of its own; two nodes, a data set across   *)
(* both, a report control block of each kind, setting groups and a log.     *)
TheIed ==
  LET Entry(inst, ln, fc, path) == [inst |-> inst, ln |-> ln, fc |-> fc, path |-> path]
      Attr(fc, path, type) == [fc |-> fc, path |-> path, type |-> type, val |-> <<>>]
      With(a, text) == [a EXCEPT !.val = <<text>>]
      Mode == <<"enum", [on |-> 1, off |-> 5]>>
      LLN0 == [name |-> "LLN0", attributes |-> <<With(Attr("ST", <<"Mod">>, Mode), <<"word", "off">>)>>,
               dataSets |-> <<[name |-> "ds", entries |->
                 <<Entry("", "X", <<"ST">>, <<"Pos", "stVal">>),
                   Entry("B", "Y", <<"ST">>, <<"Pos">>),
                   Entry("", "X", <<>>, <<"Pos", "nowhere">>)>>]>>,
               reports |-> <<[name |-> "rp", buffered |-> FALSE, rptId |-> <<>>,
                              dataset |-> <<"ds">>, confRev |-> <<>>],
                             [name |-> "br", buffered |-> TRUE, rptId |-> <<"id">>,
                              dataset |-> <<>>, confRev |-> <<7>>]>>,
               groups |-> <<>>, logs |-> <<[name |-> "log", logEna |-> TRUE, dataset |-> <<"ds">>]>>]
      X == [name |-> "X",
            attributes |-> <<Attr("ST", <<"Pos", "stVal">>, <<"int">>),
                             Attr("ST", <<"Pos", "q">>, <<"quality">>),
                             With(Attr("SG", <<"Set">>, <<"int">>), <<"number", 5>>)>>,
            dataSets |-> <<>>, reports |-> <<>>,
            groups |-> <<[num |-> 2, act |-> 2, resvTms |-> TRUE]>>, logs |-> <<>>]
      Y == [X EXCEPT !.name = "Y", !.groups = <<>>]
  IN  [name |-> "I",
       devices |-> <<[inst |-> "B", ldName |-> <<>>, lns |-> <<Y>>],
                     [inst |-> "A", ldName |-> <<>>, lns |-> <<LLN0, X>>]>>]

(* Every segment in the order of its octets.                                *)
Segments ==
  <<"A", "ActSG", "B", "BR", "BufTm", "CnfEdit", "ConfRev", "DatSet", "EditSG", "EntryID", "GI",
    "I", "IntgPd", "LActTm", "LG", "LLN0", "LogEna", "LogRef", "Mod", "NewEntr", "NewEntrTm",
    "NumOfSG", "OldEntr", "OldEntrTm", "OptFlds", "Pos", "PurgeBuf", "RP", "Resv", "ResvTms",
    "RptEna", "RptID", "SE", "SG", "SGCB", "SP", "ST", "Set", "SqNum", "TimeofEntry", "TrgOps",
    "X", "Y", "br", "log", "q", "rp", "stVal">>
SegmentsWithout == "rp01" :> "rp" @@ "br01" :> "br"

Vendor == <<"vendor", "model", "revision">>
DomainA == <<"I", "A">>
DomainB == <<"I", "B">>
AnInt(n) == <<"int", n>>
Flags(names) == <<"bits", OptFldsOf(names)>>
StoredValues ==
  <<DomainA, <<"X", "ST", "Pos", "stVal">>>> :> AnInt(-129)
    @@ <<DomainA, <<"X", "ST", "Pos", "q">>>> :> Flags({"seq"})
    @@ <<DomainA, <<"LLN0", "RP", "rp", "RptID">>>> :> <<"visible", "id">>
    @@ <<DomainB, <<"Y", "ST", "Pos", "stVal">>>> :> <<"uint", 200>>
    @@ <<DomainB, <<"Y", "SG", "Set">>>> :>
         <<"structure", <<AnInt(5), <<"array", <<<<"structure", <<<<"bool", TRUE>>>>>>>>>>>>>>

Pos == <<DomainA, <<"X", "ST", "Pos">>>>
StVal == <<DomainA, <<"X", "ST", "Pos", "stVal">>>>
Deep == <<DomainB, <<"Y", "SG", "Set">>>>
StaticSet == <<DomainA, <<"LLN0", "ds">>>>
OwnSet == <<DomainB, <<"mine">>>>
SomeQuestions ==
  {<<"identify">>}
    \cup {<<"read", <<n>>>> : n \in {Pos, StVal, Deep, <<DomainB, <<"Y", "ST", "none">>>>,
                                     <<DomainA, <<"X", "SE", "Set">>>>,
                                     <<DomainA, <<"LLN0", "RP", "rp01">>>>}}
    \cup {<<"getType", n>> : n \in {StVal, Deep, StaticSet}}
    \cup {<<"write", <<StVal>>, <<d>>>> : d \in {AnInt(128), StoredValues[Deep]}}
    \cup {<<s, n>> : s \in {"readList", "getList"}, n \in {StaticSet, OwnSet}}
    \cup {<<"define", n, <<StVal>>>> : n \in {StaticSet, OwnSet}}
    \cup {<<"define", OwnSet, <<Deep, StVal>>>>}
    \cup {<<"delete", <<n>>>> : n \in {StaticSet, OwnSet}}
    \cup {<<"readLog", <<DomainA, n>>>> : n \in {<<"LLN0", "log">>, <<"LLN0", "ds">>}}
    \cup {<<"directory", p, <<>>>> : p \in {<<>>, <<"C/">>}}
    \cup {<<"open", "f", 300>>, <<"fileRead", 7>>, <<"close", 7>>, <<"remove", "f">>,
          <<"rename", "f", "g">>, <<"obtain", "f", "g">>}
SomeAnswers(q) ==
  CASE q[1] = "directory" -> {<<"entries", <<<<"f", 65536, <<>>>>, <<"g", 0, <<"when">>>>>>, more>> :
                               more \in BOOLEAN}
    [] q[1] = "open" -> {<<"opened", 7, 255, <<>>>>}
    [] q[1] = "fileRead" -> {<<"block", "data", more>> : more \in BOOLEAN}
    [] OTHER -> {<<"done">>}

(* Reports with the fields that a server sends.                             *)
Report(fields) ==
  [rptId |-> "id", opts |-> OptFldsOf(fields), seq |-> 255, dataset |-> "ds", overflow |-> FALSE,
   entryId |-> <<0, 1>>, confRev |-> 1, inclusion |-> <<TRUE, FALSE, TRUE>>,
   values |-> <<AnInt(4), <<"bits", <<TRUE>>>>>>]
SentFields ==
  {{}, {"seq", "time", "dataset", "entryId", "confRev"}, {"reason", "overflow"},
   {"seq", "time", "reason", "dataset", "overflow", "entryId", "confRev"}}
Reason == [object |-> "X", error |-> 1, orCat |-> 2, orIdent |-> <<9>>, ctlNum |-> 3, addCause |-> 8]
OperOf == <<DomainA, <<"X", "CO", "Pos", "Oper">>>>
SomeUnasked ==
  {<<"report", Report(fields)>> : fields \in SentFields}
    \cup {<<"termination", OperOf, <<"structure", <<AnInt(1)>>>>, p, 2>> : p \in BOOLEAN}
    \cup {<<"reason", Reason>>}
(* A dialogue that ends with the association.                               *)
NoQuestions == {}

(* A client may ask for the references of the members too.                  *)
AskedForReferences == {<<"report", Report({"seq", "references"})>>}
=============================================================================
