------------------------------- MODULE MmsPdus -------------------------------
(***************************************************************************)
(* The PDUs of MMS: how each service writes and reads its requests and its *)
(* answers. A request is a tuple: its service, then its parameters; so is  *)
(* an answer. A value of MMS is a tuple of its type and its content; a     *)
(* name of an object is the pair of its domain and its item.               *)
(***************************************************************************)
EXTENDS BerTlv

CONSTANTS
  MaxNesting,    (* levels of a value that are read (MAX_NESTING_DEPTH)      *)
  MaxTypeNesting (* levels of a type that are read (MAX_TYPE_SPEC_DEPTH)     *)

-----------------------------------------------------------------------------
(* Values (data.rs). The class of the tag is not looked at, and a bit       *)
(* string may have either of two tags.                                      *)
DataTag ==
  [bool |-> 3, bits |-> 4, int |-> 5, uint |-> 6, float |-> 7, octets |-> 9, visible |-> 10,
   binarytime |-> 12, mmsstring |-> 16, utc |-> 17]
DataTypes == DOMAIN DataTag

RECURSIVE EncodeData(_)
EncodeData(d) ==
  CASE d[1] = "structure" -> Tlv(Constr(2), [i \in DOMAIN d[2] |-> EncodeData(d[2][i])])
    [] d[1] = "array" -> Tlv(Constr(1), [i \in DOMAIN d[2] |-> EncodeData(d[2][i])])
    [] d[1] = "int" -> WriteInteger(Prim(5), d[2])
    [] d[1] = "uint" -> WriteUnsigned(Prim(6), d[2])
    [] OTHER -> Tlv(Prim(DataTag[d[1]]), d[2])

RECURSIVE DecodeDataAt(_, _)
DecodeDataAt(tlv, depth) ==
  LET t == DecodeTag(tlv.id)
      List(type) ==
        IF depth >= MaxNesting THEN Failed
        ELSE Then(Each(tlv.content, LAMBDA c : DecodeDataAt(c, depth + 1)),
                  LAMBDA ds : Ok(<<type, ds>>))
      OfType(type) ==
        CASE type = "int" -> Then(DecodeInteger(tlv.content), LAMBDA v : Ok(<<type, v>>))
          [] type = "uint" -> Then(DecodeUnsigned(tlv.content), LAMBDA v : Ok(<<type, v>>))
          [] OTHER -> Ok(<<type, tlv.content>>)
      types == {x \in DataTypes : DataTag[x] = t.number}
  IN  CASE t.constructed /\ t.number = 2 -> List("structure")
        [] t.constructed /\ t.number = 1 -> List("array")
        [] ~t.constructed /\ types # {} -> OfType(CHOOSE x \in types : TRUE)
        [] ~t.constructed /\ t.number = 14 -> OfType("bits")
        [] OTHER -> Failed
DecodeData(tlv) == DecodeDataAt(tlv, 0)

-----------------------------------------------------------------------------
(* Names of objects, and lists of them (pdu.rs, named_var_list.rs).         *)
ObjectName(n) ==
  Tlv(Constr(1), <<Tlv(VisibleString, n[1]), Tlv(VisibleString, n[2])>>)
VariableSpec(n) == Tlv(Constr(0), <<ObjectName(n)>>)
VariableList(ns) == [i \in DOMAIN ns |-> Tlv(SEQUENCE, <<VariableSpec(ns[i])>>)]

ReadNames(content) ==
  Fields(content, <<Must(VisibleString), Must(VisibleString)>>,
         LAMBDA f : Ok(<<f[1][1], f[2][1]>>))
ReadObjectName(content) == Inside(content, <<Constr(1)>>, ReadNames)
ReadVariableList(content) ==
  Each(content, LAMBDA c : Inside(c.content, <<Constr(0), Constr(1)>>, ReadNames))

ExpectService(svc, t, F(_)) == IF DecodeTag(svc.id) = t THEN F(svc.content) ELSE Failed

-----------------------------------------------------------------------------
(* Identify, and the directory of names (identify.rs, get_name_list.rs): an *)
(* answer without moreFollows has more.                                     *)
WriteIdentify == WriteNull(Prim(2))
WriteIdentity(who) ==
  Tlv(Constr(2), <<Tlv(Prim(0), who[1]), Tlv(Prim(1), who[2]), Tlv(Prim(2), who[3])>>)
ReadIdentity(svc) ==
  ExpectService(svc, Constr(2), LAMBDA c :
    Fields(c, <<Must(Prim(0)), Must(Prim(1)), Must(Prim(2))>>,
           LAMBDA f : Ok(<<f[1][1], f[2][1], f[3][1]>>)))

ClassCode == [variable |-> 0, domain |-> 9]

WriteNameList(class, scope, after) ==
  Tlv(Constr(1),
      <<Tlv(Constr(0), <<WriteInteger(Prim(0), ClassCode[class])>>),
        Tlv(Constr(1), <<IF scope = <<>> THEN WriteNull(Prim(0)) ELSE Tlv(Prim(1), scope[1])>>)>>
        \o Optional(Prim(2), after))
ReadNameList(svc) ==
  LET Class(c) == Inside(c, <<Prim(0)>>, DecodeInteger)
      Scope(c) ==
        IF c = <<>> THEN Failed
        ELSE CASE DecodeTag(c[1].id) = Prim(0) -> Ok(<<>>)
               [] DecodeTag(c[1].id) = Prim(1) -> Ok(<<c[1].content>>)
               [] OTHER -> Failed
  IN  ExpectService(svc, Constr(1), LAMBDA c :
        Fields(c, <<Must(Constr(0)), Must(Constr(1)), May(Prim(2))>>, LAMBDA f :
          Then(Class(f[1][1]), LAMBDA code :
            Then(Scope(f[2][1]), LAMBDA scope :
              IF \A x \in DOMAIN ClassCode : ClassCode[x] # code THEN Failed
              ELSE Ok(<<CHOOSE x \in DOMAIN ClassCode : ClassCode[x] = code, scope, f[3]>>)))))

WriteNames(ids, more) ==
  Tlv(Constr(1), <<Tlv(Constr(0), [i \in DOMAIN ids |-> Tlv(VisibleString, ids[i])]),
                 Tlv(Prim(1), more)>>)
ReadNamesPage(svc) ==
  LET Id(c) == IF DecodeTag(c.id) = VisibleString THEN Ok(c.content) ELSE Failed
  IN  ExpectService(svc, Constr(1), LAMBDA c :
        Fields(c, <<Must(Constr(0)), May(Prim(1))>>, LAMBDA f :
          Then(Each(f[1][1], Id), LAMBDA ids : Ok(<<ids, OrElse(f[2], TRUE)>>))))

-----------------------------------------------------------------------------
(* Read and Write (read.rs, write.rs): the specification of a Read has a    *)
(* tag around it, that of a Write does not.                                 *)
WriteRead(names) ==
  Tlv(Constr(4), <<Tlv(Constr(1), <<Tlv(Constr(0), VariableList(names))>>)>>)
WriteReadList(name) ==
  Tlv(Constr(4), <<Tlv(Constr(1), <<Tlv(Constr(1), <<ObjectName(name)>>)>>)>>)
ReadRead(svc) ==
  LET Target(c) ==
        IF c = <<>> THEN Failed
        ELSE CASE DecodeTag(c[1].id) = Constr(0) ->
                    Then(ReadVariableList(c[1].content), LAMBDA ns : Ok(<<"read", ns>>))
               [] DecodeTag(c[1].id) = Constr(1) ->
                    Then(ReadObjectName(c[1].content), LAMBDA n : Ok(<<"readList", n>>))
               [] OTHER -> Failed
  IN  ExpectService(svc, Constr(4), LAMBDA c :
        Fields(c, <<May(Prim(0)), Must(Constr(1))>>, LAMBDA f : Target(f[2][1])))

AccessFailure(code) == WriteInteger(Prim(0), code)
WriteAccess(r) == IF r[1] = "value" THEN EncodeData(r[2]) ELSE AccessFailure(r[2])
ReadAccess(c) ==
  IF DecodeTag(c.id) = Prim(0)
  THEN Then(DecodeInteger(c.content), LAMBDA code : Ok(<<"failure", code>>))
  ELSE Then(DecodeData(c), LAMBDA d : Ok(<<"value", d>>))
WriteAccesses(rs) ==
  Tlv(Constr(4), <<Tlv(Constr(1), [i \in DOMAIN rs |-> WriteAccess(rs[i])])>>)
ReadAccesses(svc) ==
  ExpectService(svc, Constr(4), LAMBDA c :
    Fields(c, <<May(Constr(0)), Must(Constr(1))>>, LAMBDA f : Each(f[2][1], ReadAccess)))

WriteWrite(names, data) ==
  Tlv(Constr(5), <<Tlv(Constr(0), VariableList(names)),
                 Tlv(Constr(0), [i \in DOMAIN data |-> EncodeData(data[i])])>>)
ReadWrite(svc) ==
  ExpectService(svc, Constr(5), LAMBDA c :
    Fields(c, <<Must(Constr(0)), Must(Constr(0))>>, LAMBDA f :
      Then(ReadVariableList(f[1][1]), LAMBDA ns :
        Then(Each(f[2][1], DecodeData), LAMBDA ds : Ok(<<"write", ns, ds>>)))))
WriteResults(rs) ==
  Tlv(Constr(5), [i \in DOMAIN rs |-> IF rs[i][1] = "value" THEN WriteNull(Prim(1))
                                    ELSE AccessFailure(rs[i][2])])
ReadResults(svc) ==
  LET Result(c) ==
        CASE DecodeTag(c.id) = Prim(0) -> ReadAccess(c)
          [] DecodeTag(c.id) = Prim(1) -> Ok(<<"value">>)
          [] OTHER -> Failed
  IN  ExpectService(svc, Constr(5), LAMBDA c : Each(c, Result))

-----------------------------------------------------------------------------
(* Data sets (named_var_list.rs): what is defined is answered by a NULL, so *)
(* that its tag is primitive.                                               *)
WriteDefine(name, members) ==
  Tlv(Constr(11), <<ObjectName(name), Tlv(Constr(0), VariableList(members))>>)
ReadDefine(svc) ==
  ExpectService(svc, Constr(11), LAMBDA c :
    Fields(c, <<Must(Constr(1)), Must(Constr(0))>>, LAMBDA f :
      Then(ReadNames(f[1][1]), LAMBDA name :
        Then(ReadVariableList(f[2][1]), LAMBDA ms : Ok(<<"define", name, ms>>)))))
WriteDefined == WriteNull(Prim(11))

WriteDelete(name) ==
  Tlv(Constr(13), <<WriteInteger(Prim(0), 0), Tlv(Constr(1), <<ObjectName(name)>>)>>)
ReadDelete(svc) ==
  LET Name(c) == IF DecodeTag(c.id) = Constr(1) THEN ReadNames(c.content) ELSE Failed
  IN  ExpectService(svc, Constr(13), LAMBDA c :
        Fields(c, <<May(Prim(0)), May(Constr(1))>>, LAMBDA f :
          Then(Each(OrElse(f[2], <<>>), Name), LAMBDA ns : Ok(<<"delete", ns>>))))
WriteDeleted(matched, deleted) ==
  Tlv(Constr(13), <<WriteUnsigned(Prim(0), matched), WriteUnsigned(Prim(1), deleted)>>)
ReadDeleted(svc) ==
  ExpectService(svc, Constr(13), LAMBDA c :
    Fields(c, <<Must(Prim(0)), Must(Prim(1))>>, LAMBDA f :
      Then(DecodeUnsigned(f[1][1]), LAMBDA m :
        Then(DecodeUnsigned(f[2][1]), LAMBDA d : Ok(<<m, d>>)))))

WriteGetList(name) == Tlv(Constr(12), <<ObjectName(name)>>)
ReadGetList(svc) ==
  ExpectService(svc, Constr(12), LAMBDA c :
    Then(ReadObjectName(c), LAMBDA n : Ok(<<"getList", n>>)))
WriteList(deletable, members) ==
  Tlv(Constr(12), <<Tlv(Prim(0), deletable), Tlv(Constr(1), VariableList(members))>>)
ReadList(svc) ==
  ExpectService(svc, Constr(12), LAMBDA c :
    Fields(c, <<Must(Prim(0)), Must(Constr(1))>>, LAMBDA f :
      Then(ReadVariableList(f[2][1]), LAMBDA ms : Ok(<<f[1][1], ms>>))))

-----------------------------------------------------------------------------
(* The envelopes (pdu.rs): a confirmed PDU has the number of its call, then *)
(* its service.                                                             *)
Confirmed(kind, invoke, svc) == Tlv(Constr(kind), <<WriteInteger(INTEGER, invoke), svc>>)
RequestPdu(invoke, svc) == Confirmed(0, invoke, svc)
ResponsePdu(invoke, svc) == Confirmed(1, invoke, svc)
(* Every refusal of the server says the same (encode_error).                *)
ErrorPdu(invoke) == Confirmed(2, invoke, WriteInteger(Prim(0), 0))
UnconfirmedPdu(svc) == Tlv(Constr(3), <<svc>>)

ReadInvoke(content) ==
  Fields(content, <<Must(INTEGER)>>, LAMBDA f :
    Then(DecodeInteger(f[1][1]), LAMBDA v : IF v < 0 THEN Failed ELSE Ok(v)))

(* The number of the call, and the TLV of its service.                      *)
ReadConfirmed(pdu, kind) ==
  IF DecodeTag(pdu.id) # Constr(kind) THEN Failed
  ELSE Then(ReadInvoke(pdu.content), LAMBDA v :
         IF Len(pdu.content) < 2 THEN Failed ELSE Ok(<<v, pdu.content[2]>>))
ReadRequestPdu(pdu) == ReadConfirmed(pdu, 0)
ReadResponsePdu(pdu) == ReadConfirmed(pdu, 1)
ReadUnconfirmed(pdu) ==
  IF DecodeTag(pdu.id) # Constr(3) \/ pdu.content = <<>> THEN Failed ELSE Ok(Head(pdu.content))

PduKinds == <<"request", "response", "error", "unconfirmed", "reject">>
KindOf(pdu) ==
  LET t == DecodeTag(pdu.id)
  IN  IF t = Constr(t.number) /\ t.number \in 0..4 THEN PduKinds[t.number + 1] ELSE "other"
(* What the reader task looks at: the kind and the number of the call.      *)
Peek(pdu) ==
  LET kind == KindOf(pdu)
  IN  <<kind, CASE kind \in {"unconfirmed", "other"} -> <<>>
                [] kind = "reject" ->
                     Fields(pdu.content, <<May(Prim(0))>>, LAMBDA f :
                       IF f[1] = <<>> THEN <<>> ELSE DecodeInteger(f[1][1]))
                [] OTHER -> ReadInvoke(pdu.content)>>

-----------------------------------------------------------------------------
(* Types: GetVariableAccessAttributes (type_attr.rs), as a server tells     *)
(* the type of a variable: a tuple of its kind and its parameters.          *)
(* The tags of the types without components, and what follows them: an      *)
(* octet, a number with a sign, a truth value or nothing.                   *)
TypeTag ==
  [bool |-> 3, bits |-> 4, int |-> 5, uint |-> 6, octets |-> 9, visible |-> 10,
   gentime |-> 11, binarytime |-> 12, bcd |-> 13, objid |-> 15, mmsstring |-> 16, utc |-> 17]
Widths == {"int", "uint", "bcd"}
Lengths == {"bits", "octets", "visible", "mmsstring"}

WriteGetType(name) == Tlv(Constr(6), <<Tlv(Constr(0), <<ObjectName(name)>>)>>)
ReadGetType(svc) ==
  ExpectService(svc, Constr(6), LAMBDA c :
    Inside(c, <<Constr(0)>>, LAMBDA n :
      Then(ReadObjectName(n), LAMBDA name : Ok(<<"getType", name>>))))

(* A number beyond its type is cut to it.                                   *)
SmallU8(os) ==
  Then(DecodeInteger(os), LAMBDA v : Ok(IF v < 0 THEN 0 ELSE IF v > 255 THEN 255 ELSE v))

RECURSIVE EncodeType(_)
EncodeType(t) ==
  CASE t[1] \in Widths \cup Lengths -> WriteInteger(Prim(TypeTag[t[1]]), t[2])
    [] t[1] = "binarytime" -> Tlv(Prim(12), t[2])
    [] t[1] = "float" -> Tlv(Constr(7), <<WriteInteger(INTEGER, t[2]), WriteInteger(INTEGER, t[3])>>)
    [] t[1] = "array" ->
         Tlv(Constr(1), <<WriteUnsigned(Prim(1), t[2]), Tlv(Constr(2), <<EncodeType(t[3])>>)>>)
    [] t[1] = "structure" ->
         LET Component(c) == Tlv(SEQUENCE, Optional(Prim(0), c[1])
                                             \o <<Tlv(Constr(1), <<EncodeType(c[2])>>)>>)
         IN  Tlv(Constr(2), <<Tlv(Constr(1), [i \in DOMAIN t[2] |-> Component(t[2][i])])>>)
    [] t[1] = "name" -> Tlv(Constr(0), <<Tlv(VisibleString, t[2])>>)
    [] t[1] = "other" -> WriteNull(Prim(3))
    [] OTHER -> WriteNull(Prim(TypeTag[t[1]]))

DecodeFloat(content) ==
  Fields(content, <<Must(INTEGER), Must(INTEGER)>>, LAMBDA f :
    Then(SmallU8(f[1][1]), LAMBDA w : Then(SmallU8(f[2][1]), LAMBDA e : Ok(<<"float", w, e>>))))

(* The last VisibleString inside, however deep, when there is one.          *)
RECURSIVE LastVisible(_)
LastVisible(content) ==
  LET Found(c) ==
        CASE DecodeTag(c.id) = VisibleString -> <<c.content>>
          [] DecodeTag(c.id).constructed -> LastVisible(c.content)
          [] OTHER -> <<>>
      all == SelectSeq([i \in DOMAIN content |-> Found(content[i])], LAMBDA o : o # <<>>)
  IN  IF all = <<>> THEN <<>> ELSE Last(all)

RECURSIVE DecodeTypeAt(_, _)
DecodeArray(content, depth) ==
  Fields(content, <<May(Prim(0)), Must(Prim(1)), Must(Constr(2))>>, LAMBDA f :
    Then(DecodeUnsigned(f[2][1]), LAMBDA n :
      IF f[3][1] = <<>> THEN Failed
      ELSE Then(DecodeTypeAt(f[3][1][1], depth + 1), LAMBDA t : Ok(<<"array", n, t>>))))
DecodeStructure(content, depth) ==
  LET Component(c) ==
        Fields(c.content, <<May(Prim(0)), Must(Constr(1))>>, LAMBDA f :
          IF f[2][1] = <<>> THEN Failed
          ELSE Then(DecodeTypeAt(f[2][1][1], depth + 1), LAMBDA t : Ok(<<f[1], t>>)))
  IN  Fields(content, <<May(Prim(0)), Must(Constr(1))>>, LAMBDA f :
        Then(Each(f[2][1], Component), LAMBDA cs : Ok(<<"structure", cs>>)))
DecodeTypeAt(tlv, depth) ==
  LET t == DecodeTag(tlv.id)
      kinds == {k \in DOMAIN TypeTag : Prim(TypeTag[k]) = t}
      kind == CHOOSE k \in kinds : TRUE
  IN  CASE depth >= MaxTypeNesting -> Failed
        [] kinds # {} /\ kind \in Widths -> Then(SmallU8(tlv.content), LAMBDA v : Ok(<<kind, v>>))
        [] kinds # {} /\ kind \in Lengths ->
             Then(DecodeInteger(tlv.content), LAMBDA v : Ok(<<kind, v>>))
        [] kinds # {} /\ kind \notin Widths \cup Lengths ->
             Ok(IF kind = "binarytime" THEN <<kind, tlv.content>> ELSE <<kind>>)
        [] t = Constr(7) -> DecodeFloat(tlv.content)
        [] t = Constr(1) -> DecodeArray(tlv.content, depth)
        [] t = Constr(2) -> DecodeStructure(tlv.content, depth)
        [] t = Constr(0) -> Ok(<<"name", OrElse(LastVisible(tlv.content), "")>>)
        [] OTHER -> Ok(<<"other", t.number>>)

WriteType(deletable, t) == Tlv(Constr(6), <<Tlv(Prim(0), deletable), EncodeType(t)>>)
ReadType(svc) ==
  ExpectService(svc, Constr(6), LAMBDA c :
    Fields(c, <<May(Prim(0))>>, LAMBDA f :
      LET rest == IF f[1] = <<>> THEN c ELSE Tail(c)
      IN  IF rest = <<>> THEN Failed
          ELSE Then(DecodeTypeAt(Head(rest), 0), LAMBDA t : Ok(<<OrElse(f[1], FALSE), t>>))))

(* The type the server makes up from a value: components have no names, and *)
(* an array is of what its first element is.                                *)
RECURSIVE TypeOf(_)
TypeOf(d) ==
  CASE d[1] \in {"int", "uint"} -> <<d[1], 32>>
    [] d[1] = "float" -> <<"float", 32, 8>>
    [] d[1] \in {"bits", "octets", "visible", "mmsstring"} -> <<d[1], Len(d[2])>>
    [] d[1] = "binarytime" -> <<"binarytime", Len(d[2]) = 6>>
    [] d[1] = "structure" -> <<"structure", [i \in DOMAIN d[2] |-> <<<<>>, TypeOf(d[2][i])>>]>>
    [] d[1] = "array" ->
         <<"array", Len(d[2]), IF d[2] = <<>> THEN <<"bool">> ELSE TypeOf(d[2][1])>>
    [] OTHER -> <<d[1]>>
=============================================================================
