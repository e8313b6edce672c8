----------------------------- MODULE Association -----------------------------
(***************************************************************************)
(* How a connection becomes an association, and how it ends.               *)
(*                                                                         *)
(*   listener --permit--> [TLS] --> CR/CC --> CONNECT(CP(AARQ(Initiate)))  *)
(*                        --> ACCEPT(CPA(AARE(Initiate))) --> requests     *)
(*                                                                         *)
(* The server takes one socket at a time from the listener and waits for   *)
(* one of max_connections permits before it looks at it. The handshake has *)
(* one timeout, the association another one, which starts again with every *)
(* round of the connection's loop.                                         *)
(*                                                                         *)
(* A peer is one connection. What it offers is fixed at the start: its     *)
(* credentials and the presentation contexts it proposes; the client of    *)
(* this repository proposes OwnContexts, other clients something else.     *)
(***************************************************************************)
EXTENDS Negotiation

CONSTANTS
  Peers,
  Setups,         \* [policy, source, offer]: the server's policy and source of
                  \* revocation, and what each peer offers that calls
  Clock,            \* the time on the server's clock
  Asked,          \* what peers ask for: [do, fc]
  MaxConnections, \* ServerLimits::max_connections
  IdlePeriods     \* ServerLimits::idle_timeout in ticks

(* MmsClient::connect, connect_with_password, connect_with_token,           *)
(* connect_tls: what a peer offers. What it offers to have outstanding is   *)
(* read as an unsigned number.                                              *)
IsOffer(o) ==
  /\ {"auth", "cert", "contexts", "parses", "outstanding"} = DOMAIN o
  /\ o.contexts \in Seq(ContextProposal) /\ o.parses \in BOOLEAN /\ o.outstanding \in Nat

(* A server without a source of revocation knows of nothing revoked.        *)
IsSetup(p, s, o) ==
  /\ p.tls \in BOOLEAN /\ p.kind \in {"none", "passwords", "certificates", "token"}
  /\ Len(p.list) \in Nat /\ DOMAIN p.list = 1..Len(p.list)
  /\ s.kind \in {"none", "crl", "ocsp"} /\ (s.kind = "none" => s.revoked = {})
  /\ \A peer \in DOMAIN o : IsOffer(o[peer])

ASSUME AssociationAssumption ==
  /\ MaxConnections \in Nat \ {0} /\ IdlePeriods \in Nat \ {0}
  /\ Clock \in Nat
  /\ \A s \in Setups : IsSetup(s.policy, s.source, s.offer)

VARIABLES
  policy, source, offer, \* chosen at the start
  client,     \* each peer's end: new, tls, cc, ac, up, silent, gone
  server,     \* the server's end: none, queued, held, tls, cr, cn, up, closed
  backlog,    \* sockets the listener has yet to accept
  permits,    \* of the semaphore
  toCallee, toCaller,
  role,       \* ConnState::role
  context,    \* mms_ctx
  negotiated, \* MmsClient::negotiated, as far as it limits requests
  idle,       \* ticks since the last round of the connection's loop
  done        \* history: what the server did for each peer

associationVars == <<policy, source, offer, client, server, backlog, permits, toCallee,
                     toCaller, role, context, negotiated, idle, done>>
fixedVars == <<policy, source, offer>>

(* The server has an acceptor for TLS.                                      *)
Tls == policy.tls

NoRole == {"none"}
Handshaking == {"tls", "cr", "cn"}

-----------------------------------------------------------------------------
(* Role::permissions. A role is the set of its permissions, which is also   *)
(* what a token carries.                                                    *)
Viewer == {"read", "fileRead"}
Operator == Viewer \cup {"control", "reporting", "define"}
Engineer == Operator \cup {"write", "config", "setting", "fileWrite"}

(* write_permission and may_read: the permission that an item takes, by its *)
(* functional constraint; the edit buffer of settings takes that of editing.*)
WritePermission(fc) ==
  CASE fc = "CO" -> "control"
    [] fc \in {"RP", "BR"} -> "reporting"
    [] fc \in {"SG", "SE", "SGCB"} -> "setting"
    [] fc = "CF" -> "config"
    [] OTHER -> "write"
ReadPermission(fc) == IF fc = "SE" THEN "setting" ELSE "read"

(* What a request takes: of the other services each has its own.            *)
PermissionFor(a) ==
  CASE a.do = "write" -> WritePermission(a.fc)
    [] a.do = "read" -> ReadPermission(a.fc)
    [] OTHER -> a.do

(* RevocationSource::check.                                                 *)
RevocationOk(serial) ==
  CASE source.kind = "none" -> TRUE
    [] source.kind = "crl" -> Clock < source.next /\ serial \notin source.revoked
    [] source.kind = "ocsp" -> /\ serial \in source.good \cup source.revoked
                               /\ Clock < source.next
                               /\ serial \notin source.revoked

(* validate_certificate.                                                    *)
CertificateOk(c) == c.from <= Clock /\ Clock < c.to /\ RevocationOk(c.serial)

(* The role of the first entry of a list under a name.                      *)
RoleIn(list, name) ==
  LET at == {i \in DOMAIN list : list[i].name = name}
  IN  IF at = {} THEN NoRole ELSE list[Min(at)].role

(* AuthPolicy::authorize, for a token with token::verify. Without TLS there *)
(* is no certificate.                                                       *)
ValidTokenAnyTime(t) == t.genuine
ValidToken(t) == t.genuine /\ t.from <= Clock /\ Clock < t.to
Authorize(o) ==
  CASE policy.kind = "none" -> Engineer
    [] policy.kind = "passwords" -> RoleIn(policy.list, o.auth.name)
    [] policy.kind = "certificates" -> IF Tls THEN RoleIn(policy.list, o.cert.name) ELSE NoRole
    [] policy.kind = "token" -> IF ValidToken(o.auth) THEN o.auth.role ELSE NoRole

(* InitiateResponse::accept.                                                *)
Accepted(o) == AtMostTen(o.outstanding)

-----------------------------------------------------------------------------
(* Messages. CONNECT stands for the session's CONNECT with the CP, the AARQ *)
(* and the Initiate request in it; ACCEPT for the session's ACCEPT with the *)
(* CPA, the AARE and the Initiate response.                                 *)
Message(kind) == [kind |-> kind]
ConnectOf(o) == [kind |-> "CONNECT", offer |-> o]

(* A CP that parses is answered context by context; one that does not gets  *)
(* the template, which accepts two contexts, and MMS under 3.               *)
CpaResults(o) == IF o.parses THEN Verdicts(o.contexts) ELSE <<"acceptance", "acceptance">>
MmsContext(o) == IF o.parses THEN AcceptedId(o.contexts, "mms") ELSE <<3>>
AcseContext(o) == IF o.parses THEN AcceptedId(o.contexts, "acse") ELSE <<1>>
AcceptOf(o, result) ==
  [kind |-> "ACCEPT", results |-> CpaResults(o), context |-> AcseContext(o)[1],
   result |-> result, outstanding |-> Accepted(o)]

AssociationInit ==
  /\ \E s \in Setups : policy = s.policy /\ source = s.source /\ offer = s.offer
  /\ client = [p \in Peers |-> IF p \in DOMAIN offer THEN "new" ELSE "gone"]
  /\ server = [p \in Peers |-> "none"]
  /\ backlog = <<>> /\ permits = MaxConnections
  /\ toCallee = [p \in Peers |-> <<>>] /\ toCaller = [p \in Peers |-> <<>>]
  /\ role = [p \in Peers |-> NoRole] /\ context = [p \in Peers |-> 0]
  /\ negotiated = [p \in Peers |-> 0]
  /\ idle = [p \in Peers |-> 0] /\ done = [p \in Peers |-> {}]

ToServer(p, m) == toCallee' = [toCallee EXCEPT ![p] = Append(@, m)]
ToClient(p, m) == toCaller' = [toCaller EXCEPT ![p] = Append(@, m)]
ClientHears(p, kind) == toCaller[p] # <<>> /\ Head(toCaller[p]).kind = kind
ServerHears(p, kind) == toCallee[p] # <<>> /\ Head(toCallee[p]).kind = kind
ClientGoes(p, state) == client' = [client EXCEPT ![p] = state]
ServerGoes(p, state) == server' = [server EXCEPT ![p] = state]

-----------------------------------------------------------------------------
(* The peers. *)

(* IsoConnection::connect or connect_tls; without TLS the CR goes at once.  *)
Connect(p) ==
  /\ client[p] = "new"
  /\ backlog' = Append(backlog, p)
  /\ ServerGoes(p, "queued")
  /\ IF Tls THEN ClientGoes(p, "tls") /\ UNCHANGED toCallee
            ELSE ClientGoes(p, "cc") /\ ToServer(p, Message("CR"))
  /\ UNCHANGED <<fixedVars, permits, toCaller, role, context, negotiated, idle, done>>

(* The CC, whatever TPDU size it confirms, is answered with the CONNECT.    *)
ReadConfirm(p) ==
  /\ client[p] = "cc" /\ ClientHears(p, "CC")
  /\ ClientGoes(p, "ac")
  /\ toCaller' = [toCaller EXCEPT ![p] = Tail(@)]
  /\ ToServer(p, ConnectOf(offer[p]))
  /\ UNCHANGED <<fixedVars, server, backlog, permits, role, context, negotiated, idle, done>>

(* check_cpa_results: the result at the place of the MMS context (the       *)
(* second one of OwnContexts), where there is one.                          *)
MmsPlace(o) == {i \in DOMAIN o.contexts : o.contexts[i].syntax = "mms"}
CpaOk(o, results) ==
  \E i \in MmsPlace(o) : i \in DOMAIN results => results[i] = "acceptance"

(* parse_aare and InitiateResponse::decode.                                 *)
ReadAccept(p) ==
  /\ client[p] = "ac" /\ ClientHears(p, "ACCEPT")
  /\ LET m == Head(toCaller[p])
         ok == CpaOk(offer[p], m.results) /\ m.result = "accepted"
     IN  /\ ClientGoes(p, IF ok THEN "up" ELSE "gone")
         /\ negotiated' = [negotiated EXCEPT ![p] = IF ok THEN m.outstanding ELSE @]
         /\ toCaller' = [toCaller EXCEPT ![p] = IF ok THEN Tail(@) ELSE <<>>]
  /\ UNCHANGED <<fixedVars, server, backlog, permits, toCallee, role, context, idle, done>>

(* A request and its answer; the next one when there is no other.           *)
AskFor(p, a) ==
  /\ client[p] = "up" /\ toCallee[p] = <<>> /\ toCaller[p] = <<>>
  /\ ToServer(p, [kind |-> "request", asked |-> a])
  /\ UNCHANGED <<fixedVars, client, server, backlog, permits, toCaller, role, context,
                 negotiated, idle, done>>

Conclude(p) ==
  /\ client[p] = "up" /\ toCallee[p] = <<>> /\ toCaller[p] = <<>>
  /\ ToServer(p, Message("conclude"))
  /\ UNCHANGED <<fixedVars, client, server, backlog, permits, toCaller, role, context,
                 negotiated, idle, done>>

ReadData(p) ==
  /\ client[p] = "up" /\ (ClientHears(p, "data") \/ ClientHears(p, "concluded"))
  /\ toCaller' = [toCaller EXCEPT ![p] = Tail(@)]
  /\ UNCHANGED <<fixedVars, client, server, backlog, permits, toCallee, role, context,
                 negotiated, idle, done>>

(* A peer gives up, times out, is dropped, or reads the end of the stream.  *)
LeavePeer(p) ==
  /\ client[p] \notin {"new", "silent", "gone"}
  /\ ClientGoes(p, "gone")
  /\ toCaller' = [toCaller EXCEPT ![p] = <<>>]
  /\ UNCHANGED <<fixedVars, server, backlog, permits, toCallee, role, context, negotiated,
                 idle, done>>

(* A peer asks for nothing any more, or is cut off without a word.          *)
FallSilent(p) ==
  /\ client[p] \notin {"new", "silent", "gone"}
  /\ ClientGoes(p, "silent")
  /\ UNCHANGED <<fixedVars, server, backlog, permits, toCallee, toCaller, role, context,
                 negotiated, idle, done>>

-----------------------------------------------------------------------------
(* MmsServer::serve. *)

AcceptSocket ==
  /\ backlog # <<>> /\ \A p \in Peers : server[p] # "held"
  /\ ServerGoes(Head(backlog), "held")
  /\ backlog' = Tail(backlog)
  /\ UNCHANGED <<fixedVars, client, permits, toCallee, toCaller, role, context, negotiated,
                 idle, done>>

Admit(p) ==
  /\ server[p] = "held" /\ permits > 0
  /\ permits' = permits - 1
  /\ ServerGoes(p, IF Tls THEN "tls" ELSE "cr")
  /\ UNCHANGED <<fixedVars, client, backlog, toCallee, toCaller, role, context, negotiated,
                 idle, done>>

EndTaskKeepingPermit(p) ==
  /\ ServerGoes(p, "closed")
  /\ permits' = IF server[p] = "tls" THEN permits ELSE permits + 1
  /\ toCallee' = [toCallee EXCEPT ![p] = <<>>]

(* The task of a connection ends, by whatever way, and its permit is        *)
(* dropped with it. What it sent last may still be read.                    *)
EndTask(p) ==
  /\ ServerGoes(p, "closed")
  /\ permits' = permits + 1
  /\ toCallee' = [toCallee EXCEPT ![p] = <<>>]

(* TlsServerOptions::acceptor: the peer needs a certificate that one of the *)
(* trusted authorities signed. Without one, from_stream_tls fails.          *)
SignedByAuthority(o) == o.cert.trusted
TlsHandshake(p) ==
  /\ server[p] = "tls" /\ client[p] = "tls"
  /\ IF SignedByAuthority(offer[p])
       THEN /\ ServerGoes(p, "cr") /\ ClientGoes(p, "cc")
            /\ ToServer(p, Message("CR")) /\ UNCHANGED permits
       ELSE EndTask(p) /\ ClientGoes(p, "gone")
  /\ UNCHANGED <<fixedVars, backlog, toCaller, role, context, negotiated, idle, done>>

ReadCr(p) ==
  /\ server[p] = "cr" /\ ServerHears(p, "CR")
  /\ ServerGoes(p, "cn")
  /\ toCallee' = [toCallee EXCEPT ![p] = Tail(@)]
  /\ ToClient(p, Message("CC"))
  /\ UNCHANGED <<fixedVars, client, backlog, permits, role, context, negotiated, idle, done>>

(* No usable context: the stream is closed without an AARE.                 *)
Unusable(o) == o.parses /\ <<>> \in {AcseContext(o), MmsContext(o)}

(* handle_connection up to the AARE.                                        *)
ReadConnect(p) ==
  /\ server[p] = "cn" /\ ServerHears(p, "CONNECT")
  /\ LET o == Head(toCallee[p]).offer
         granted == IF Tls /\ ~CertificateOk(o.cert) THEN NoRole ELSE Authorize(o)
     IN  \/ Unusable(o) /\ EndTask(p) /\ UNCHANGED <<toCaller, role, context>>
         \/ /\ ~Unusable(o) /\ granted = NoRole
            /\ ToClient(p, AcceptOf(o, "rejected"))
            /\ EndTask(p) /\ UNCHANGED <<role, context>>
         \/ /\ ~Unusable(o) /\ granted # NoRole
            /\ ToClient(p, AcceptOf(o, "accepted"))
            /\ toCallee' = [toCallee EXCEPT ![p] = Tail(@)]
            /\ ServerGoes(p, "up") /\ UNCHANGED permits
            /\ role' = [role EXCEPT ![p] = granted]
            /\ context' = [context EXCEPT ![p] = MmsContext(o)[1]]
  /\ UNCHANGED <<fixedVars, client, backlog, negotiated, idle, done>>

(* The loop of the connection waits for something else than its idle timer. *)
Looping(p) == server[p] = "up" /\ idle[p] < IdlePeriods

(* may_read, may_write, may_define_dataset, may_read_files, may_write_files.*)
Permitted(p, a) == PermissionFor(a) \in role[p]

ServeRequest(p) ==
  /\ Looping(p) /\ ServerHears(p, "request")
  /\ LET a == Head(toCallee[p]).asked
     IN  done' = [done EXCEPT ![p] = IF Permitted(p, a) THEN @ \cup {a} ELSE @]
  /\ toCallee' = [toCallee EXCEPT ![p] = Tail(@)]
  /\ ToClient(p, [kind |-> "data", context |-> context[p]])
  /\ idle' = [idle EXCEPT ![p] = 0]
  /\ UNCHANGED <<fixedVars, client, server, backlog, permits, role, context, negotiated>>

(* The conclude request is answered, and the loop left.                     *)
ServeConclude(p) ==
  /\ Looping(p) /\ ServerHears(p, "conclude")
  /\ ToClient(p, Message("concluded"))
  /\ EndTask(p)
  /\ UNCHANGED <<fixedVars, client, backlog, role, context, negotiated, idle, done>>

(* The stream ends while the task reads it.                                 *)
EndOfStream(p) ==
  /\ server[p] \in Handshaking \/ Looping(p)
  /\ client[p] = "gone" /\ toCallee[p] = <<>>
  /\ EndTask(p)
  /\ UNCHANGED <<fixedVars, client, backlog, toCaller, role, context, negotiated, idle, done>>

HandshakeTimeout(p) ==
  /\ server[p] \in Handshaking
  /\ EndTask(p)
  /\ UNCHANGED <<fixedVars, client, backlog, toCaller, role, context, negotiated, idle, done>>

(* A value of the store changes: every connection hears of it, whether it   *)
(* reports it or not, and goes round its loop.                              *)
Woken == {p \in Peers : Looping(p)}
ValueChange ==
  /\ \E p \in Woken : idle[p] > 0
  /\ idle' = [p \in Peers |-> IF p \in Woken THEN 0 ELSE idle[p]]
  /\ UNCHANGED <<fixedVars, client, server, backlog, permits, toCallee, toCaller, role,
                 context, negotiated, done>>

(* Time passes; a timer that has run out is served first.                   *)
IdleTick ==
  /\ \E p \in Peers : server[p] = "up"
  /\ \A p \in Peers : server[p] = "up" => Looping(p)
  /\ idle' = [p \in Peers |-> IF server[p] = "up" THEN idle[p] + 1 ELSE idle[p]]
  /\ UNCHANGED <<fixedVars, client, server, backlog, permits, toCallee, toCaller, role,
                 context, negotiated, done>>

IdleTimeout(p) ==
  /\ server[p] = "up" /\ ~Looping(p)
  /\ EndTask(p)
  /\ UNCHANGED <<fixedVars, client, backlog, toCaller, role, context, negotiated, idle, done>>

ServerGoesOn(p) == TlsHandshake(p) \/ ReadCr(p) \/ ReadConnect(p) \/ ServeRequest(p)
                   \/ ServeConclude(p)
Timeouts(p) == HandshakeTimeout(p) \/ IdleTimeout(p)

AssociationNext ==
  \/ \E p \in Peers :
       \/ Connect(p) \/ ReadConfirm(p) \/ ReadAccept(p) \/ ReadData(p)
       \/ \E a \in Asked : AskFor(p, a)
       \/ Conclude(p)
       \/ LeavePeer(p) \/ FallSilent(p)
       \/ Admit(p) \/ ServerGoesOn(p) \/ EndOfStream(p) \/ Timeouts(p)
  \/ AcceptSocket
  \/ ValueChange
  \/ IdleTick

AssociationSpec == AssociationInit /\ [][AssociationNext]_associationVars

(* The server's tasks run and its timers run out. Nothing is assumed of the *)
(* peers.                                                                   *)
AssociationFairness ==
  /\ WF_associationVars(AcceptSocket)
  /\ WF_associationVars(IdleTick)
  /\ \A p \in Peers : /\ WF_associationVars(Admit(p))
                       /\ WF_associationVars(ServerGoesOn(p) \/ EndOfStream(p) \/ Timeouts(p))

AssociationFairSpec == AssociationSpec /\ AssociationFairness

-----------------------------------------------------------------------------
AssociationTypeOK ==
  /\ permits \in 0..MaxConnections
  /\ \A p \in Peers : /\ idle[p] \in 0..IdlePeriods /\ negotiated[p] \in 0..10
                       /\ Len(toCallee[p]) + Len(toCaller[p]) <= 1

(* A peer that holds itself associated, or for which something was done,    *)
(* was admitted: with TLS its certificate was trusted, in force and not     *)
(* known to be revoked; the policy knows its credentials, which were in     *)
(* force too; and what was done for it, the role they stand for allows. It  *)
(* will not ask for more at a time than it offered.                         *)
Entitles(r, p) == \A a \in done[p] : PermissionFor(a) \in r
AssociatedIsAdmitted ==
  \A p \in Peers :
    LET o == offer[p]
    IN  /\ client[p] = "up" \/ done[p] # {} =>
             /\ Tls => /\ o.cert.trusted /\ o.cert.from <= Clock /\ Clock < o.cert.to
                       /\ o.cert.serial \notin source.revoked
             /\ CASE policy.kind = "token" ->
                       /\ o.auth.genuine /\ o.auth.from <= Clock /\ Clock < o.auth.to
                       /\ Entitles(o.auth.role, p)
                  [] policy.kind = "passwords" ->
                       \E i \in DOMAIN policy.list : /\ policy.list[i].name = o.auth.name
                                                     /\ Entitles(policy.list[i].role, p)
                  [] policy.kind = "certificates" ->
                       Tls /\ \E i \in DOMAIN policy.list :
                                /\ policy.list[i].name = o.cert.name
                                /\ Entitles(policy.list[i].role, p)
                  [] OTHER -> TRUE
        /\ client[p] = "up" => negotiated[p] <= o.outstanding

(* Data goes to a peer under a context that it proposed for MMS, with a     *)
(* transfer syntax both know, and that the ACCEPT it was sent granted.      *)
DataUnderAgreedContext ==
  \A p \in Peers : \A i \in DOMAIN toCaller[p] :
    LET m == toCaller[p][i]
        o == offer[p]
    IN  m.kind = "data" /\ o.parses =>
          \E j \in DOMAIN o.contexts :
            /\ o.contexts[j] = [id |-> m.context, syntax |-> "mms", ber |-> TRUE]
            /\ CpaResults(o)[j] = "acceptance"

(* The listener goes on: a socket that waits for a permit gets it, unless   *)
(* for ever values change or peers ask.                                     *)
AcceptLoopGoesOn ==
  \/ []<><<ValueChange \/ \E p \in Peers, a \in Asked : AskFor(p, a)>>_associationVars
  \/ \A p \in Peers : server[p] = "held" ~> server[p] # "held"

-----------------------------------------------------------------------------
(* What the deployment guide says of idle sessions and the code does not do.*)

(* "idle_timeout closes associated sessions that are inactive": a session   *)
(* whose peer has fallen silent ends.                                       *)
IdleSessionsEnd ==
  \A p \in Peers : server[p] = "up" /\ client[p] = "silent" ~> server[p] = "closed"
=============================================================================
