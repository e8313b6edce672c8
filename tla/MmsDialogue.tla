----------------------------- MODULE MmsDialogue -----------------------------
(***************************************************************************)
(* A client and a server in dialogue, PDU by PDU: they associate, the      *)
(* client asks for one thing after the other, and the server answers and   *)
(* sends reports, terminations and reasons of failure in between. What one *)
(* side writes the other side reads, through all the layers.               *)
(*                                                                         *)
(* The server is that of this repository, or another implementation, which *)
(* says the same in other forms: the result of the association implicit,   *)
(* PDUs in octet strings, a list within a list, and what is true by        *)
(* default left out or, the other way round, said.                         *)
(***************************************************************************)
EXTENDS MmsFilePdus, ReportPdus, UpperPdus, ServerNamespace

CONSTANTS
  Questions,     (* what the client may ask                                   *)
  AnswersTo(_), (* what a server may answer to a service of files            *)
  Identity,     (* ServerModel::ident                                        *)
  Unasked,      (* what a server may send unasked: <<kind, ...>>             *)
  MaxDialogue      (* requests of an association                                *)

VARIABLES
  own,        (* the server is that of this repository                       *)
  guarded,    (* it asks for a password                                      *)
  password,       (* what the client has                                         *)
  stage,      (* of the association, as the client sees it                   *)
  accepted,   (* what the server agreed to, if it did                        *)
  agreed,     (* what the client understood of it                            *)
  sent,       (* the SPDU on its way to the server, if there is one          *)
  arriving,   (* the SPDUs on their way to the client                        *)
  invoke,     (* next_invoke                                                 *)
  call,       (* the last call: what was asked, understood, answered, told   *)
  dynamic,    (* dynamic_datasets, of the connection                         *)
  wanted,     (* the data sets as the client defined and deleted them        *)
  listing,    (* get_name_list_all: what is listed, and the names so far     *)
  heard       (* what was sent unasked last, and what the client made of it  *)

dialogueVars == <<own, guarded, password, stage, accepted, agreed, sent, arriving, invoke, call,
                  dynamic, wanted, listing, heard>>

NotYet == <<>>
NoListing == [of |-> <<>>, names |-> <<>>, done |-> TRUE]
NoExchange == [asked |-> NotYet, understood |-> NotYet, answered |-> NotYet, told |-> NotYet]
Declined == <<"refused">>

DialogueInit ==
  /\ own \in BOOLEAN /\ guarded \in BOOLEAN
  /\ password \in {<<>>, <<"secret">>, <<"wrong">>}
  /\ stage = "new" /\ accepted = NotYet /\ agreed = NotYet
  /\ sent = <<>> /\ arriving = <<>>
  /\ invoke = 1 /\ call = NoExchange
  /\ dynamic = <<>> /\ wanted = <<>>
  /\ listing = NoListing /\ heard = NotYet

-----------------------------------------------------------------------------
(* Another implementation has PDUs in octet strings.                        *)
Carry(pdu, context) ==
  IF own THEN SessionData(UserData(pdu, context))
  ELSE SessionData(Tlv(FullyEncoded,
         <<Tlv(SEQUENCE, <<WriteInteger(INTEGER, context), Tlv(Prim(1), <<pdu>>)>>)>>))

(* A client opens an association, and a server accepts or rejects it.       *)
OpenAssociation ==
  /\ stage = "new"
  /\ stage' = "opening"
  /\ sent' = <<SessionConnect(ConnectCp(OwnContexts, Aarq(InitiateRequest(Proposal), password)))>>
  /\ UNCHANGED <<own, guarded, password, accepted, agreed, arriving, invoke, call, dynamic, wanted,
                 listing, heard>>

(* Another implementation has the result of the association implicit.       *)
AareOf(i) ==
  IF own THEN Aare(i)
  ELSE Tlv(Application(1), <<ApplicationContext, WriteInteger(Prim(2), 0), UserInformation(i)>>)

(* A CP that could be read is negotiated; else there is a template, and the *)
(* CONNECT is searched for the AARQ.                                        *)
CpaFor(cp, aare) ==
  IF cp = Failed THEN TemplateCpa(aare)
  ELSE NegotiatedCpa(aare, Verdicts(cp[1].contexts), cp[1].called, AcceptedId(cp[1].contexts, "acse")[1])
AcceptCp(cp, version, aarq) ==
  /\ accepted' = IF guarded => ExtractAuth(aarq) = <<"secret">>
                 THEN <<AcceptInitiate(Then(ParseAarq(aarq), ReadInitiateRequest)[1])>>
                 ELSE NotYet
  /\ arriving' = <<SessionAccept(CpaFor(cp, IF accepted' = NotYet THEN AareReject
                                            ELSE AareOf(InitiateResponse(accepted'[1]))), version)>>
AnswerConnectSpdu(connect, cp) ==
  AcceptCp(cp, IF cp = Failed THEN 2 ELSE connect[1].version,
                 IF cp = Failed THEN ExtractInnerPdu(sent[1])[1] ELSE cp[1].pdu)
AnswerAssociation ==
  /\ stage = "opening" /\ sent # <<>>
  /\ LET connect == ParseConnect(sent[1])
     IN  AnswerConnectSpdu(connect, Then(connect, LAMBDA c : ParseCp(c.cp)))
  /\ sent' = <<>>
  /\ UNCHANGED <<own, guarded, password, stage, agreed, invoke, call, dynamic, wanted, listing, heard>>

ReadAssociation ==
  /\ stage = "opening" /\ arriving # <<>>
  /\ agreed' = IF CheckResults(Head(arriving).user[1])
               THEN Then(Then(ExtractInnerPdu(Head(arriving)), ParseAare), ReadInitiateResponse)
               ELSE NotYet
  /\ stage' = IF agreed' = NotYet THEN "down" ELSE "up"
  /\ arriving' = Tail(arriving)
  /\ UNCHANGED <<own, guarded, password, accepted, sent, invoke, call, dynamic, wanted, listing, heard>>

-----------------------------------------------------------------------------
(* What the client writes for a request, service by service.                *)
WriteVariableService(q) ==
  CASE q[1] = "identify" -> WriteIdentify
    [] q[1] = "names" -> WriteNameList(q[2], q[3], q[4])
    [] q[1] = "read" -> WriteRead(q[2])
    [] q[1] = "readList" -> WriteReadList(q[2])
    [] q[1] = "readLog" -> WriteLogRequest(q[2])
    [] q[1] = "define" -> WriteDefine(q[2], q[3])
    [] q[1] = "delete" -> WriteDelete(q[2][1])
    [] q[1] = "getList" -> WriteGetList(q[2])
    [] q[1] = "getType" -> WriteGetType(q[2])
    [] q[1] = "write" -> WriteWrite(q[2], q[3])
WriteFileService(q) ==
  CASE q[1] = "directory" -> WriteDirectory(q[2], q[3])
    [] q[1] = "open" -> WriteOpen(q[2], q[3])
    [] q[1] = "fileRead" -> WriteFileRead(q[2])
    [] q[1] = "close" -> WriteClose(q[2])
    [] q[1] = "remove" -> WriteRemove(q[2])
    [] q[1] = "rename" -> WriteRename(q[2], q[3])
    [] q[1] = "obtain" -> WriteObtain(q[2], q[3])
FileServices == {"directory", "open", "fileRead", "close", "remove", "rename", "obtain"}
WriteService(q) == IF q[1] \in FileServices THEN WriteFileService(q) ELSE WriteVariableService(q)

(* handle_request: what the server makes of a service, by its tag.          *)
Understand(svc) ==
  LET t == DecodeTag(svc.id)
  IN  CASE t = Prim(2) -> Ok(<<"identify">>)
        [] t = Constr(1) -> Then(ReadNameList(svc), LAMBDA r : Ok(<<"names">> \o r))
        [] t = Constr(4) -> ReadRead(svc)
        [] t = Constr(6) -> ReadGetType(svc)
        [] t = Constr(77) -> ReadDirectory(svc)
        [] t = Constr(72) -> ReadOpen(svc)
        [] t = Prim(73) -> ReadFileRead(svc)
        [] t = Prim(74) -> ReadClose(svc)
        [] t = Constr(76) -> ReadRemove(svc)
        [] t = Constr(75) -> ReadRename(svc)
        [] t = Constr(5) -> ReadWrite(svc)
        [] t = Constr(11) -> ReadDefine(svc)
        [] t = Constr(13) -> ReadDelete(svc)
        [] t = Constr(12) -> ReadGetList(svc)
        [] t = Constr(65) -> ReadLogRequest(svc)
        [] t = Constr(46) -> ReadObtain(svc)
        [] OTHER -> Failed

-----------------------------------------------------------------------------
(* The data sets of a connection: those it defined hide those of the model. *)
MembersOf(sets, name) ==
  IF name \in DOMAIN sets THEN <<sets[name]>> ELSE StaticMembers(name)
Defined(sets, name, members) ==
  [n \in DOMAIN sets \cup {name} |-> IF n = name THEN members ELSE sets[n]]
SetsWithout(sets, names) == [n \in DOMAIN sets \ names |-> sets[n]]

ReadAll(names) == [i \in DOMAIN names |-> ReadName(names[i])]

(* handle_get_dataset_attrs and handle_read, of a data set by its name.     *)
ListAnswers(q) ==
  LET members == MembersOf(dynamic, q[2])
  IN  CASE members = <<>> /\ q[1] = "getList" -> {Declined}
        [] members = <<>> /\ q[1] = "readList" -> {<<"accesses", <<<<"failure", 5>>>>>>}
        [] members # <<>> /\ q[1] = "getList" ->
             {<<"list", q[2] \in DOMAIN dynamic, members[1]>>}
        [] members # <<>> /\ q[1] = "readList" -> {<<"accesses", ReadAll(members[1])>>}
(* handle_delete_dataset counts the names it is given, there or not.        *)
DeleteAnswer(names) ==
  <<"deleted", Len(names), Cardinality({n \in Range(names) : n \in DOMAIN dynamic})>>
(* handle_get_var_attr: the type is that of the value.                      *)
TypeAnswer(name) ==
  IF HasVariable(name) /\ name \in DOMAIN Store THEN <<"type", FALSE, TypeOf(Store[name])>>
  ELSE Declined

(* handle_read_journal: all entries at once, whatever the request asks for. *)
LogAnswer(log) ==
  LET entries == JournalEntries(log)
  IN  IF entries = <<>> THEN Declined ELSE <<"log", entries[1], FALSE>>

(* The answers of the server to what it understood. A role may not define,  *)
(* write or use files; a write and a file may fail.                         *)
CallAnswers(q) ==
  CASE q[1] = "identify" -> {<<"identity", Identity>>}
    [] q[1] = "names" -> {<<"page">> \o NamePage(q[2], q[3], q[4])}
    [] q[1] = "read" -> {<<"accesses", ReadAll(q[2])>>}
    [] q[1] \in {"readList", "getList"} -> ListAnswers(q)
    [] q[1] = "readLog" -> {LogAnswer(q[2])}
    [] q[1] = "define" -> {<<"done">>, Declined}
    [] q[1] = "delete" -> {DeleteAnswer(q[2]), Declined}
    [] q[1] = "getType" -> {TypeAnswer(q[2])}
    [] q[1] = "write" -> {<<"results", <<<<"value">>>>>>, <<"results", <<<<"failure", 3>>>>>>}
    [] q[1] \in FileServices -> AnswersTo(q) \cup {Declined}

(* The answer to a directory and to a read of a file, as another            *)
(* implementation writes them.                                              *)
OtherEntries(entries, more) ==
  LET list == Head(WriteEntries(entries, more).content)
  IN  Tlv(Constr(77), <<Tlv(Constr(0), <<Tlv(SEQUENCE, list.content)>>), Tlv(Prim(1), more)>>)
OtherBlock(data, more) == Tlv(Constr(73), <<Tlv(Prim(0), data), Tlv(Prim(1), more)>>)
OtherNames(ids, more) ==
  LET whole == WriteNames(ids, more)
  IN  IF more THEN [whole EXCEPT !.content = <<Head(@)>>] ELSE whole

WriteAnswer(q, a) ==
  CASE a[1] = "identity" -> WriteIdentity(a[2])
    [] a[1] = "page" -> IF own THEN WriteNames(a[2], a[3]) ELSE OtherNames(a[2], a[3])
    [] a[1] = "accesses" -> WriteAccesses(a[2])
    [] a[1] = "results" -> WriteResults(a[2])
    [] a[1] = "list" -> WriteList(a[2], a[3])
    [] a[1] = "log" -> WriteLog(a[2], a[3])
    [] a[1] = "deleted" -> WriteDeleted(a[2], a[3])
    [] a[1] = "type" -> WriteType(a[2], a[3])
    [] a[1] = "entries" -> IF own THEN WriteEntries(a[2], a[3]) ELSE OtherEntries(a[2], a[3])
    [] a[1] = "opened" -> WriteOpened(a[2], a[3], a[4])
    [] a[1] = "block" -> IF own THEN WriteBlock(a[2], a[3]) ELSE OtherBlock(a[2], a[3])
    [] a[1] = "done" -> CASE q[1] = "define" -> WriteDefined
                          [] q[1] = "close" -> WriteClosed
                          [] q[1] = "remove" -> WriteRemoved
                          [] q[1] = "rename" -> WriteRenamed
                          [] q[1] = "obtain" -> WriteObtained

(* What the client reads of a service, which it knows by what it asked.     *)
(* read_raw takes the last result; a data set has to be read whole; what    *)
(* answers a definition or a closing is not looked at.                      *)
LastOf(r) == Then(r, LAMBDA rs : IF rs = <<>> THEN Failed ELSE Ok(Last(rs)))
ReadService(q, svc) ==
  LET Whole(rs) == IF \E i \in DOMAIN rs : rs[i][1] = "failure" THEN Failed ELSE Ok(rs)
  IN  CASE q[1] = "identify" -> ReadIdentity(svc)
        [] q[1] = "names" -> ReadNamesPage(svc)
        [] q[1] = "read" -> LastOf(ReadAccesses(svc))
        [] q[1] = "readList" -> Then(ReadAccesses(svc), Whole)
        [] q[1] = "readLog" -> ReadLog(svc)
        [] q[1] = "delete" -> ReadDeleted(svc)
        [] q[1] = "getList" -> ReadList(svc)
        [] q[1] = "getType" -> ReadType(svc)
        [] q[1] = "write" -> LastOf(ReadResults(svc))
        [] q[1] = "directory" -> ReadEntries(svc)
        [] q[1] = "open" -> ReadOpened(svc)
        [] q[1] = "fileRead" -> ReadBlock(svc)
        [] q[1] = "remove" -> ReadRemoved(svc)
        [] q[1] = "rename" -> ReadRenamed(svc)
        [] q[1] = "obtain" -> ReadObtained(svc)
        [] q[1] \in {"define", "close"} -> Ok(<<>>)

-----------------------------------------------------------------------------
(* A call of the client. The names of a directory are asked for page by     *)
(* page, with nothing else in between.                                      *)
MayCall ==
  /\ stage = "up" /\ sent = <<>> /\ arriving = <<>> /\ invoke <= MaxDialogue
  /\ call.asked # NotYet => call.told # NotYet
PutCall(q) ==
  /\ sent' = <<Carry(RequestPdu(invoke, WriteService(q)), 3)>>
  /\ invoke' = invoke + 1
  /\ call' = [NoExchange EXCEPT !.asked = q]
  /\ UNCHANGED <<own, guarded, password, stage, accepted, agreed, arriving, dynamic, wanted, heard>>

FirstPages ==
  {<<"names", "domain", <<>>, <<>>>>} \cup {<<"names", "variable", <<d>>, <<>>>> : d \in Range(Domains)}
NextPage == <<"names", listing.of[1], listing.of[2], <<Last(listing.names)>>>>
AskServer ==
  /\ MayCall
  /\ \E q \in IF listing.done THEN Questions \cup FirstPages ELSE {NextPage} :
       /\ PutCall(q)
       /\ listing' = CASE q \in FirstPages -> [of |-> <<q[2], q[3]>>, names |-> <<>>, done |-> FALSE]
                       [] q \in Questions -> NoListing
                       [] OTHER -> listing

(* The server takes the request, and answers what it understood.            *)
ServerSends(pdu) == arriving' = Append(arriving, Carry(pdu, 3))
AnswerCall(id, q) ==
  \E a \in IF q = Declined THEN {Declined} ELSE CallAnswers(q) :
    /\ call' = [call EXCEPT !.understood = q, !.answered = a]
    /\ ServerSends(IF a = Declined THEN ErrorPdu(id) ELSE ResponsePdu(id, WriteAnswer(q, a)))
    /\ dynamic' = CASE q[1] = "define" /\ a # Declined -> Defined(dynamic, q[2], q[3])
                    [] q[1] = "delete" /\ a # Declined -> SetsWithout(dynamic, Range(q[2]))
                    [] OTHER -> dynamic
ServePdu(request) == AnswerCall(request[1], OrElse(Understand(request[2]), Declined))
ServeCall ==
  /\ stage = "up" /\ sent # <<>>
  /\ ServePdu(Then(ExtractInnerPdu(sent[1]), ReadRequestPdu)[1])
  /\ sent' = <<>>
  /\ UNCHANGED <<own, guarded, password, stage, accepted, agreed, invoke, wanted, listing, heard>>

WriteUnasked(u) ==
  CASE u[1] = "report" -> WriteReport(u[2])
    [] u[1] = "termination" -> WriteTermination(u[2], u[3], u[4], u[5])
    [] u[1] = "reason" -> WriteApplError(u[2])
SendUnasked(u) ==
  /\ stage = "up" /\ arriving = <<>>
  /\ arriving' = <<Carry(WriteUnasked(u), 3)>>
  /\ heard' = <<u>>
  /\ UNCHANGED <<own, guarded, password, stage, accepted, agreed, sent, invoke, call, dynamic, wanted,
                 listing>>

-----------------------------------------------------------------------------
(* reader_loop: what comes unasked is a reason of a failure, a termination  *)
(* or a report, whichever it reads as first.                                *)
ReadUnasked(svc) ==
  OrElse(Then(ReadApplError(svc), LAMBDA r : Ok(<<"reason", r>>)),
         OrElse(ReadTermination(svc), Then(DecodeReport(svc), LAMBDA r : <<"report", r>>)))

(* The pages of a directory are put together until there is no more, or     *)
(* nothing to go on from.                                                   *)
Listed(told) ==
  IF listing.done THEN listing
  ELSE IF told = Failed THEN NoListing
  ELSE [listing EXCEPT !.names = @ \o told[1][1],
                       !.done = ~told[1][2] \/ told[1][1] = <<>>]

(* What the client then holds to be defined.                                *)
WantedAfter(q, told) ==
  CASE told # Failed /\ q[1] = "define" -> Defined(wanted, q[2], q[3])
    [] told # Failed /\ q[1] = "delete" -> SetsWithout(wanted, Range(q[2]))
    [] OTHER -> wanted

TakeAnswer(told) ==
  /\ call' = [call EXCEPT !.told = <<told>>]
  /\ listing' = Listed(told)
  /\ wanted' = WantedAfter(call.asked, told)
  /\ UNCHANGED heard
TakePdu(pdu, peeked) ==
  CASE peeked[1] = "unconfirmed" ->
         /\ heard' = Append(heard, ReadUnasked(ReadUnconfirmed(pdu[1])[1]))
         /\ UNCHANGED <<call, listing, wanted>>
    [] peeked[1] \in {"response", "error", "reject"} /\ peeked[2] = <<invoke - 1>> ->
         TakeAnswer(Then(ReadResponsePdu(pdu[1]), LAMBDA r : ReadService(call.asked, r[2])))
    [] OTHER -> UNCHANGED <<call, listing, wanted, heard>>
TakeSpdu(pdu) == TakePdu(pdu, IF pdu = Failed THEN <<"other", <<>>>> ELSE Peek(pdu[1]))
ReadArriving ==
  /\ stage = "up" /\ arriving # <<>>
  /\ arriving' = Tail(arriving)
  /\ TakeSpdu(ExtractInnerPdu(Head(arriving)))
  /\ UNCHANGED <<own, guarded, password, stage, accepted, agreed, sent, invoke, dynamic>>

DialogueNext ==
  \/ OpenAssociation \/ AnswerAssociation \/ ReadAssociation
  \/ AskServer
  \/ ServeCall
  \/ \E u \in Unasked : SendUnasked(u)
  \/ ReadArriving

DialogueSpec == DialogueInit /\ [][DialogueNext]_dialogueVars

-----------------------------------------------------------------------------
DialogueTypeOK ==
  /\ stage \in {"new", "opening", "up", "down"}
  /\ Len(sent) <= 1 /\ Len(arriving) <= 2 /\ Len(heard) <= 2
  /\ invoke \in 1..(MaxDialogue + 1)

(* What the client should be told of an answer: a refusal, a failed member  *)
(* of a data set and a value nested too deep are failures of the call.      *)
RECURSIVE Nesting(_)
Nesting(d) ==
  IF d[1] \notin {"structure", "array"} THEN 0
  ELSE 1 + FoldLeft(LAMBDA n, m : IF m > n THEN m ELSE n, 0,
                    [i \in DOMAIN d[2] |-> Nesting(d[2][i])])
Readable(accesses) ==
  \A i \in DOMAIN accesses : accesses[i][1] = "value" => Nesting(accesses[i][2]) <= MaxNesting
Understandable(q) ==
  q[1] = "write" => \A i \in DOMAIN q[3] : Nesting(q[3][i]) <= MaxNesting
ToldOf(q, a) ==
  CASE a = Declined -> Failed
    [] a[1] = "accesses" /\ ~Readable(a[2]) -> Failed
    [] q[1] = "readList" /\ a # Declined /\ Readable(a[2]) ->
         IF \E i \in DOMAIN a[2] : a[2][i][1] = "failure" THEN Failed ELSE Ok(a[2])
    [] q[1] = "read" /\ Readable(a[2]) -> Ok(Last(a[2]))
    [] q[1] = "write" /\ a # Declined -> Ok(Last(a[2]))
    [] a[1] \in {"identity"} -> Ok(a[2])
    [] a[1] = "done" -> Ok(<<>>)
    [] OTHER -> Ok(Tail(a))

(* A report is read as it was written, whatever fields it has; and a        *)
(* termination is not taken for a report, nor a reason for a termination.   *)
HeardAsSent(u, r) ==
  CASE u[1] = "reason" -> r = u
    [] u[1] = "termination" -> r = <<"termination", u[2], u[4]>>
    [] u[1] = "report" ->
         /\ r # Failed /\ r[1] = "report"
         /\ LET w == u[2]
                g == r[2]
                members == Positions(w.inclusion)
                Sent(name, v) == IF Has(w.opts, name) THEN <<v>> ELSE <<>>
            IN  /\ g.rptId = w.rptId /\ g.opts = w.opts
                /\ g.seq = Sent("seq", w.seq) /\ g.entryId = Sent("entryId", w.entryId)
                /\ g.overflow = Sent("overflow", w.overflow)
                /\ g.confRev = Sent("confRev", w.confRev)
                /\ [i \in DOMAIN g.entries |-> <<g.entries[i].member, g.entries[i].value>>]
                     = [i \in DOMAIN members |-> <<members[i], w.values[i]>>]
ReportsReadAsWritten == Len(heard) = 2 => HeardAsSent(heard[1], heard[2])

(* What the server does is what it was asked to do, and what the client is  *)
(* told is what the server answered, whichever implementation the server    *)
(* is, whatever was sent unasked in between and however the association     *)
(* began: both sides have agreed to the same, or not at all. What was sent  *)
(* unasked is read as well.                                                 *)
BothSidesMeanTheSame ==
  /\ stage = "up" => accepted # NotYet /\ agreed = accepted
  /\ stage = "down" => accepted = NotYet
  /\ call.understood # NotYet =>
       call.understood = IF Understandable(call.asked) THEN call.asked ELSE Declined
  /\ call.told # NotYet => call.told[1] = ToldOf(call.asked, call.answered)
  /\ ReportsReadAsWritten

(* A directory that was listed page by page is the whole directory, once    *)
(* and in order; and a data set is what the client defined last, or that of *)
(* the model when it defined none or deleted its own.                       *)
NamesAndListsAreWhole ==
  /\ listing.of # <<>> /\ listing.done =>
       listing.names = IF listing.of[1] = "domain" THEN Domains
                       ELSE DomainItems[listing.of[2][1]]
  /\ call.told # NotYet /\ call.asked[1] = "getList" =>
       LET members == MembersOf(wanted, call.asked[2])
       IN  call.told[1] = IF members = <<>> THEN Failed
                          ELSE Ok(<<call.asked[2] \in DOMAIN wanted, members[1]>>)
=============================================================================
