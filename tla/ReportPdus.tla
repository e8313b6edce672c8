------------------------------ MODULE ReportPdus ------------------------------
(***************************************************************************)
(* What a server sends unasked (report.rs): reports, the terminations of   *)
(* commands and the reasons of their failures. All three are               *)
(* informationReports; the client tells them apart by what they hold.      *)
(***************************************************************************)
EXTENDS MmsPdus

(* The optional fields of a report, by their bits in OptFlds.               *)
OptFld ==
  [seq |-> 2, time |-> 3, reason |-> 4, dataset |-> 5, references |-> 6, overflow |-> 7,
   entryId |-> 8, confRev |-> 9, segments |-> 10]
OptFldsOf(names) == [i \in 1..10 |-> \E x \in names : OptFld[x] = i]
Bit(bits, i) == i \in DOMAIN bits /\ bits[i]
Has(opts, name) == Bit(opts, OptFld[name])
When(present, d) == IF present THEN <<d>> ELSE <<>>

InformationReport(spec, values) == Tlv(Constr(0), <<spec, Tlv(Constr(0), values)>>)
EncodeAll(ds) == [i \in DOMAIN ds |-> EncodeData(ds[i])]

(* A report: the fields whose bits are set, which members it has, and their *)
(* values. Of its fields, references, segments and reasons are never sent.  *)
WriteReport(r) ==
  LET o == r.opts
      fields ==
        <<<<"visible", r.rptId>>, <<"bits", o>>>>
          \o When(Has(o, "seq"), <<"uint", r.seq>>)
          \o When(Has(o, "time"), <<"utc", 0>>)
          \o When(Has(o, "dataset"), <<"visible", r.dataset>>)
          \o When(Has(o, "overflow"), <<"bool", r.overflow>>)
          \o When(Has(o, "entryId"), <<"octets", r.entryId>>)
          \o When(Has(o, "confRev"), <<"uint", r.confRev>>)
          \o <<<<"bits", r.inclusion>>>>
  IN  UnconfirmedPdu(
        InformationReport(Tlv(Constr(1), <<Tlv(Prim(0), "RPT")>>), EncodeAll(fields \o r.values)))

-----------------------------------------------------------------------------
(* How a report is read.                                                    *)
Positions(bits) == SelectSeq([i \in DOMAIN bits |-> i], LAMBDA i : bits[i])
At(values, i) == IF i \in DOMAIN values THEN <<values[i]>> ELSE <<>>
OfType(types, o) == IF o # <<>> /\ o[1][1] \in types THEN <<o[1][2]>> ELSE <<>>
AsNumber(o) ==
  LET n == OfType({"uint", "int"}, o) IN IF n # <<>> /\ n[1] < 0 THEN <<>> ELSE n
AsString(o) == OfType({"visible", "mmsstring"}, o)

Interpret(values, named) ==
  LET id == AsString(At(values, 1))
      opts == OfType({"bits"}, At(values, 2))
  IN  IF id = <<>> \/ opts = <<>> THEN Failed
      ELSE LET o == opts[1]
               order == <<"seq", "time", "dataset", "overflow", "entryId", "confRev", "segments",
                          "segments">>
               before(k) == Len(SelectSeq(SubSeq(order, 1, k), LAMBDA x : Has(o, x)))
               Field(k) == IF Has(o, order[k]) THEN At(values, 2 + before(k)) ELSE <<>>
               first == 3 + before(8)
               inclusion == OfType({"bits"}, At(values, first))
               members == IF inclusion = <<>> THEN <<>> ELSE Positions(inclusion[1])
               n == Len(members)
               references == first + IF Has(o, "references") THEN n ELSE 0
               Reason(k) == IF Has(o, "reason")
                            THEN OfType({"bits"}, At(values, references + n + k)) ELSE <<>>
               Reference(k) == IF Has(o, "references")
                               THEN AsString(At(values, first + k)) ELSE <<>>
               Entry(k) == [member |-> members[k], value |-> values[references + k],
                            reason |-> Reason(k), reference |-> Reference(k)]
               there == SelectSeq([k \in 1..n |-> k], LAMBDA k : references + k \in DOMAIN values)
           IN  Ok([rptId |-> id[1], opts |-> o,
                   seq |-> AsNumber(Field(1)), time |-> Field(2),
                   dataset |-> IF Has(o, "dataset") THEN AsString(Field(3)) ELSE named,
                   overflow |-> OfType({"bool"}, Field(4)),
                   entryId |-> OfType({"octets"}, Field(5)),
                   confRev |-> AsNumber(Field(6)),
                   subSeq |-> AsNumber(Field(7)), more |-> OfType({"bool"}, Field(8)),
                   entries |-> [k \in DOMAIN there |-> Entry(k)]])

(* The name of the list the report stands under, when it has one.           *)
NameOfSpec(spec) ==
  IF spec = <<>> \/ DecodeTag(spec[1].id) # Constr(1) \/ spec[1].content = <<>> THEN <<>>
  ELSE LET name == Head(spec[1].content)
       IN  IF DecodeTag(name.id) = Constr(1) THEN ReadNames(name.content) ELSE <<name.content>>

(* What cannot be accessed is left out of the values.                       *)
DecodeReport(svc) ==
  LET whole == Len(svc.content) >= 2
      spec == IF whole THEN <<svc.content[1]>> ELSE <<>>
      results == svc.content[IF whole THEN 2 ELSE 1].content
      values == SelectSeq(results, LAMBDA c : DecodeTag(c.id) # Prim(0))
  IN  IF DecodeTag(svc.id) # Constr(0) \/ svc.content = <<>> THEN Failed
      ELSE Then(Each(values, DecodeData), LAMBDA ds : Interpret(ds, NameOfSpec(spec)))

-----------------------------------------------------------------------------
(* The termination of a command: the command as it came, or a failure.      *)
WriteTermination(name, oper, positive, code) ==
  UnconfirmedPdu(
    InformationReport(Tlv(Constr(0), VariableList(<<name>>)),
                      <<IF positive THEN EncodeData(oper) ELSE AccessFailure(code)>>))
ReadTermination(svc) ==
  IF DecodeTag(svc.id) # Constr(0) \/ Len(svc.content) < 2 THEN Failed
  ELSE LET names == IF DecodeTag(svc.content[1].id).number = 0
                    THEN ReadVariableList(svc.content[1].content) ELSE Failed
           results == svc.content[2].content
       IN  IF names = Failed \/ names = Ok(<<>>) \/ results = <<>> THEN Failed
           ELSE LET name == names[1][1]
                IN  IF Last(name[2]) \notin {"Oper", "Cancel"} THEN Failed
                    ELSE Ok(<<"termination", name, DecodeTag(results[1].id) # Prim(0)>>)

(* The reason of a failure, under a name of its own.                        *)
WriteApplError(e) ==
  LET name == Tlv(Constr(0), <<Tlv(Prim(0), "LastApplError")>>)
  IN  UnconfirmedPdu(
        InformationReport(
          Tlv(Constr(0), <<Tlv(SEQUENCE, <<name>>)>>),
          <<EncodeData(<<"structure",
              <<<<"visible", e.object>>, <<"int", e.error>>,
                <<"structure", <<<<"int", e.orCat>>, <<"octets", e.orIdent>>>>>>,
                <<"uint", e.ctlNum>>, <<"int", e.addCause>>>>>>)>>))
IsApplError(spec) ==
  LET Only(c, t) == IF c # <<>> /\ DecodeTag(c[1].id) = t THEN c[1].content ELSE <<>>
  IN  /\ DecodeTag(spec.id) = Constr(0)
      /\ spec.content # <<>>
      /\ LET name == Only(spec.content[1].content, Constr(0))
         IN  /\ name # <<>>
             /\ DecodeTag(name[1].id) = Prim(0)
             /\ name[1].content = "LastApplError"
ReadApplError(svc) ==
  IF DecodeTag(svc.id) # Constr(0) \/ Len(svc.content) < 2 THEN Failed
  ELSE IF ~IsApplError(svc.content[1]) \/ svc.content[2].content = <<>> THEN Failed
  ELSE Then(DecodeData(svc.content[2].content[1]), LAMBDA d :
         IF d[1] # "structure" \/ Len(d[2]) < 5 THEN Failed
         ELSE LET Number(i) == OfType({"int", "uint"}, <<d[2][i]>>)
                  object == OfType({"visible"}, <<d[2][1]>>)
                  origin == OfType({"structure"}, <<d[2][3]>>)
              IN  IF <<>> \in {object, origin, Number(2), Number(4), Number(5)} THEN Failed
                  ELSE Ok([object |-> object[1], error |-> Number(2)[1],
                           orCat |-> OrElse(OfType({"int", "uint"}, At(origin[1], 1)), 0),
                           orIdent |-> OrElse(OfType({"octets"}, At(origin[1], 2)), <<>>),
                           ctlNum |-> Number(4)[1], addCause |-> Number(5)[1]]))
=============================================================================
