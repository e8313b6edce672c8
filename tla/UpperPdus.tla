------------------------------ MODULE UpperPdus ------------------------------
(***************************************************************************)
(* The layers between transport and MMS, as trees: session (session.rs),   *)
(* presentation (presentation.rs), ACSE (acse.rs) and the Initiate of MMS  *)
(* (initiate.rs). A session PDU is its identifier, its parameters, each    *)
(* with its code, and the presentation PDU it carries.                     *)
(***************************************************************************)
EXTENDS BerTlv, Negotiation

Spdu(si, parameters, user) == [si |-> si, parameters |-> parameters, user |-> user]
Parameter(code, value) == [code |-> code, value |-> value]

(* What CONNECT and ACCEPT say before their user data.                      *)
SessionItems(version) ==
  <<Parameter(5, <<Parameter(19, 0), Parameter(22, version)>>), Parameter(20, <<0, 2>>)>>
SessionConnect(cp) == Spdu(13, SessionItems(2), <<cp>>)
SessionAccept(cpa, version) == Spdu(14, SessionItems(version), <<cpa>>)
SessionData(user) == Spdu(1, <<>>, <<user>>)

(* The version of a CONNECT, 2 without one: the best that both know.        *)
SessionVersion(spdu) ==
  LET Coded(ps, code) == SelectSeq(ps, LAMBDA p : p.code = code)
      items == Coded(spdu.parameters, 5)
      versions == Coded(FlattenSeq([i \in DOMAIN items |-> items[i].value]), 22)
      offered == IF versions = <<>> THEN 2 ELSE Last(versions).value
  IN  IF (offered \div 2) % 2 = 1 THEN 2 ELSE 1
ParseConnect(spdu) ==
  IF spdu.si # 13 \/ spdu.user = <<>> THEN Failed
  ELSE Ok([version |-> SessionVersion(spdu), cp |-> spdu.user[1]])

-----------------------------------------------------------------------------
(* Presentation: the contexts proposed, the verdict on each, the user data. *)
SET == Tag(0, 17, TRUE)
FullyEncoded == Application(1)

(* A PDU under its context, and the first PDU there is in a list, whether   *)
(* it stands as it is or in an octet string.                                *)
UserData(pdu, context) ==
  Tlv(FullyEncoded,
      <<Tlv(SEQUENCE, <<WriteInteger(INTEGER, context), Tlv(Constr(0), <<pdu>>)>>)>>)
FirstPdu(children) ==
  LET found == SelectSeq(children, LAMBDA c : DecodeTag(c.id) \in {Constr(0), Prim(1)})
  IN  IF found = <<>> THEN Failed ELSE Ok(found[1].content[1])
DrillPdv(content) == Inside(content, <<SEQUENCE>>, FirstPdu)

(* The first user data in whatever was received, by a scan.                 *)
RECURSIVE InnerOf(_)
InnerOf(tlv) ==
  LET t == DecodeTag(tlv.id)
      drilled == IF t = FullyEncoded THEN DrillPdv(tlv.content) ELSE Failed
      below == IF ~t.constructed THEN <<>>
               ELSE SelectSeq([i \in DOMAIN tlv.content |-> InnerOf(tlv.content[i])],
                              LAMBDA r : r # Failed)
  IN  CASE drilled # Failed -> drilled
        [] drilled = Failed /\ below # <<>> -> Head(below)
        [] OTHER -> Failed
ExtractInnerPdu(spdu) == IF spdu.user = <<>> THEN Failed ELSE InnerOf(spdu.user[1])

NormalMode == Tlv(Constr(0), <<WriteInteger(Prim(0), 1)>>)
ContextItem(c) ==
  Tlv(SEQUENCE, <<WriteInteger(INTEGER, c.id), Tlv(OID, c.syntax),
                  Tlv(SEQUENCE, <<Tlv(OID, IF c.ber THEN "ber" ELSE "other")>>)>>)
ConnectCp(contexts, aarq) ==
  Tlv(SET, <<NormalMode,
             Tlv(Constr(2), <<Tlv(Prim(1), 1), Tlv(Prim(2), 1),
                              Tlv(Constr(4), [i \in DOMAIN contexts |-> ContextItem(contexts[i])]),
                              UserData(aarq, 1)>>)>>)

ParseContexts(content) ==
  LET HasBer(ts) == \E k \in DOMAIN ts : /\ ts[k].content = "ber"
                                         /\ \A j \in 1..k : DecodeTag(ts[j].id) = OID
      One(c) ==
        Fields(c.content, <<Must(INTEGER), Must(OID), May(SEQUENCE)>>, LAMBDA f :
          Then(DecodeInteger(f[1][1]), LAMBDA id :
            Ok([id |-> id, syntax |-> f[2][1], ber |-> HasBer(OrElse(f[3], <<>>))])))
  IN  Each(SelectSeq(content, LAMBDA c : DecodeTag(c.id) = SEQUENCE), One)
ParseCp(cp) ==
  LET normal == \A mode \in Range(Tagged(cp.content, Constr(0))) :
                  mode # <<>> => DecodeInteger(mode[1].content) = Ok(1)
      parameters == FlattenSeq(Tagged(cp.content, Constr(2)))
      called == Tagged(parameters, Prim(2))
  IN  IF DecodeTag(cp.id) # SET \/ ~normal THEN Failed
      ELSE Then(Each(Tagged(parameters, Constr(4)), ParseContexts), LAMBDA lists :
             Then(Each(Tagged(parameters, FullyEncoded), DrillPdv), LAMBDA pdus :
               IF lists = <<>> \/ pdus = <<>> THEN Failed
               ELSE IF Last(lists) = <<>> THEN Failed
               ELSE Ok([contexts |-> Last(lists), pdu |-> Last(pdus),
                        called |-> IF called = <<>> THEN 1 ELSE Last(called)])))

(* The results in the order of the proposal, and the AARE under its ACSE    *)
(* context; the template accepts two contexts whatever was proposed.        *)
ResultItem(verdict) ==
  Tlv(SEQUENCE,
      IF verdict = "acceptance" THEN <<WriteInteger(Prim(0), 0), Tlv(Prim(1), "ber")>>
      ELSE <<WriteInteger(Prim(0), 2),
             WriteInteger(Prim(2), IF verdict = "abstract-syntax-not-supported" THEN 1 ELSE 2)>>)
NegotiatedCpa(aare, verdicts, called, acse) ==
  Tlv(SET, <<NormalMode,
             Tlv(Constr(2), <<Tlv(Prim(3), called),
                              Tlv(Constr(5), [i \in DOMAIN verdicts |-> ResultItem(verdicts[i])]),
                              UserData(aare, acse)>>)>>)
TemplateCpa(aare) ==
  Tlv(SET, <<NormalMode,
             Tlv(Constr(2), <<Tlv(Prim(1), 1), Tlv(Constr(5), <<ResultItem("acceptance"),
                                                                ResultItem("acceptance")>>),
                              UserData(aare, 1)>>)>>)

(* The second result is that of MMS: it must not be a rejection. Whatever   *)
(* is not there is tolerated.                                               *)
AcceptsSecond(items) ==
  Len(items) >= 2 =>
    Fields(items[2].content, <<Must(Prim(0))>>, LAMBDA f : DecodeInteger(f[1][1])) \in {Failed, Ok(0)}
CheckResults(cpa) ==
  LET Below(o, t) == Then(o, LAMBDA c : FindChild(c, t))
  IN  AcceptsSecond(SelectSeq(OrElse(Below(Below(<<cpa.content>>, Constr(2)), Constr(5)), <<>>),
                              LAMBDA c : DecodeTag(c.id) = SEQUENCE))

-----------------------------------------------------------------------------
(* ACSE: an application context, who asks, and the Initiate.                *)
External == Tag(0, 8, TRUE)
ApplicationContext == Tlv(Constr(1), <<Tlv(OID, "mms")>>)
UserInformation(pdu) ==
  Tlv(Constr(30), <<Tlv(External, <<WriteInteger(INTEGER, 3), Tlv(Constr(0), <<pdu>>)>>)>>)
ExternalValue(content) == Inside(content, <<External>>, FirstPdu)

Aarq(initiate, auth) ==
  Tlv(Application(0),
      <<ApplicationContext>>
        \o (IF auth = <<>> THEN <<>>
            ELSE <<Tlv(Prim(10), "authentication"), Tlv(Prim(11), "password"),
                   Tlv(Constr(12), <<Tlv(Prim(0), auth[1])>>)>>)
        \o <<UserInformation(initiate)>>)
ExtractAuth(aarq) ==
  LET value == IF DecodeTag(aarq.id) # Application(0) THEN <<>>
               ELSE FindChild(aarq.content, Constr(12))
  IN  IF value = <<>> \/ value = <<<<>>>> THEN <<>> ELSE <<value[1][1].content>>
ParseAarq(aarq) ==
  LET information == FindChild(aarq.content, Constr(30))
  IN  IF DecodeTag(aarq.id) # Application(0) \/ information = <<>> THEN Failed
      ELSE ExternalValue(information[1])

(* The result and where it comes from.                                      *)
AareResult(result, diagnostic) ==
  <<ApplicationContext,
    Tlv(Constr(2), <<WriteInteger(INTEGER, result)>>),
    Tlv(Constr(3), <<Tlv(Constr(1), <<WriteInteger(INTEGER, diagnostic)>>)>>)>>
Aare(initiate) == Tlv(Application(1), AareResult(0, 0) \o <<UserInformation(initiate)>>)
AareReject == Tlv(Application(1), AareResult(1, 6))

(* A result may be explicit or not, or be missing: then it is a good one.   *)
AareVerdict(explicit, implicit) ==
  CASE explicit # <<>> -> Fields(explicit[1], <<Must(INTEGER)>>, LAMBDA f : DecodeInteger(f[1][1]))
    [] explicit = <<>> /\ implicit # <<>> -> DecodeInteger(implicit[1])
    [] OTHER -> Ok(0)
ParseAare(aare) ==
  IF \/ DecodeTag(aare.id) # Application(1)
     \/ AareVerdict(FindChild(aare.content, Constr(2)), FindChild(aare.content, Prim(2))) # Ok(0)
  THEN Failed
  ELSE Then(FindChild(aare.content, Constr(30)), ExternalValue)

-----------------------------------------------------------------------------
(* Initiate: how many requests may be outstanding each way, and how deep a  *)
(* value may be.                                                            *)
InitiateDetail ==
  Tlv(Constr(4), <<WriteInteger(Prim(0), 1), Tlv(Prim(1), "parameters"), Tlv(Prim(2), "services")>>)
Proposal == [detail |-> <<65000>>, calling |-> 10, called |-> 10, nesting |-> <<10>>]
WriteInitiate(kind, i) ==
  LET Number(n, o) == IF o = <<>> THEN <<>> ELSE <<WriteInteger(Prim(n), o[1])>>
  IN  Tlv(Constr(kind), Number(0, i.detail) \o Number(1, <<i.calling>>) \o Number(2, <<i.called>>)
                          \o Number(3, i.nesting) \o <<InitiateDetail>>)
InitiateRequest(i) == WriteInitiate(8, i)
InitiateResponse(i) == WriteInitiate(9, i)

(* The numbers are cut to the widths they are kept in.                      *)
InitiateNumbers(f) ==
  Then(IfThere(f[1], DecodeInteger), LAMBDA detail :
    Then(DecodeInteger(f[2][1]), LAMBDA calling :
      Then(DecodeInteger(f[3][1]), LAMBDA called :
        Then(IfThere(f[4], DecodeInteger), LAMBDA nesting :
          Ok([detail |-> detail, calling |-> calling % 65536, called |-> called % 65536,
              nesting |-> [k \in DOMAIN nesting |-> nesting[k] % 256]])))))
InitiateFields == <<May(Prim(0)), Must(Prim(1)), Must(Prim(2)), May(Prim(3))>>
ReadInitiateRequest(pdu) ==
  IF DecodeTag(pdu.id) # Constr(8) THEN Failed
  ELSE Then(Fields(pdu.content, InitiateFields, InitiateNumbers), LAMBDA i :
         Ok([i EXCEPT !.detail = <<OrElse(@, 0)>>, !.nesting = <<OrElse(@, 0)>>]))
ReadInitiateResponse(pdu) ==
  LET Version(c) == Inside(c, <<Prim(0)>>, DecodeInteger)
  IN  IF DecodeTag(pdu.id) # Constr(9) THEN Failed
      ELSE Fields(pdu.content, InitiateFields \o <<Must(Constr(4))>>, LAMBDA f :
             Then(Version(f[5][1]), LAMBDA v : InitiateNumbers(f)))

(* InitiateResponse::accept.                                                *)
AcceptInitiate(i) ==
  [detail |-> <<65000>>, calling |-> AtMostTen(i.calling), called |-> AtMostTen(i.called),
   nesting |-> <<AtMostTen(i.nesting[1])>>]
=============================================================================
