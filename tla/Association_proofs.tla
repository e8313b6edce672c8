------------------------- MODULE Association_proofs --------------------------
(***************************************************************************)
(* Proofs about associations: the theorems hold of any peers, any policy,  *)
(* source of revocation and offers that the assumption admits, any limits  *)
(* of connections and of idle time.                                        *)
(***************************************************************************)
EXTENDS Association, FiniteSetTheorems, WellFoundedInduction, TLAPS

(* What the server grants to the credentials of a peer, and whether it lets *)
(* the peer in; both are settled by what was chosen at the start.           *)
Granted(p) == IF Tls /\ ~CertificateOk(offer[p].cert) THEN NoRole ELSE Authorize(offer[p])
Trusted(p) == Tls => offer[p].cert.trusted
Usable(p) == p \in DOMAIN offer /\ ~Unusable(offer[p])
Admissible(p) == Usable(p) /\ Trusted(p) /\ Granted(p) # NoRole

(* What may be under way to the server and to the client.                   *)
DataTo(p) == [kind |-> "data", context |-> MmsContext(offer[p])[1]]
ToServerOf(p) ==
  {Message("CR"), Message("conclude")} \cup {[kind |-> "request", asked |-> a] : a \in Asked}
    \cup (IF p \in DOMAIN offer THEN {ConnectOf(offer[p])} ELSE {})
ToClientOf(p) ==
  {Message("CC"), Message("concluded")}
    \cup (IF Usable(p) THEN {AcceptOf(offer[p], "rejected")} ELSE {})
    \cup (IF Admissible(p) THEN {AcceptOf(offer[p], "accepted"), DataTo(p)} ELSE {})

NothingOrOneOf(S) == {<<>>} \cup {<<m>> : m \in S}
ClientStates == {"new", "tls", "cc", "ac", "up", "silent", "gone"}
ServerStates == {"none", "queued", "held", "tls", "cr", "cn", "up", "closed"}
Served == {"tls", "cr", "cn", "up"}

(* The two ends take turns, and nobody is served who was not let in.        *)
Dialogue(p) ==
  /\ client[p] \in ClientStates /\ server[p] \in ServerStates
  /\ toCallee[p] \in NothingOrOneOf(ToServerOf(p))
  /\ toCaller[p] \in NothingOrOneOf(ToClientOf(p))
  /\ toCallee[p] = <<>> \/ toCaller[p] = <<>>
  /\ client[p] \in {"new", "tls"} => toCallee[p] = <<>> /\ toCaller[p] = <<>>
  /\ client[p] = "new" => server[p] = "none"
  /\ client[p] # "gone" \/ server[p] # "none" => p \in DOMAIN offer
Admission(p) ==
  /\ server[p] \in {"cr", "cn", "up"} => Trusted(p)
  /\ server[p] = "up" =>
       /\ Admissible(p) /\ role[p] = Granted(p) /\ context[p] = MmsContext(offer[p])[1]
  /\ client[p] = "up" => Admissible(p) /\ negotiated[p] = Accepted(offer[p])
  /\ done[p] # {} => Admissible(p)
  /\ \A a \in done[p] : PermissionFor(a) \in Granted(p)
  /\ negotiated[p] \in 0..10 /\ idle[p] \in 0..IdlePeriods

(* Every connection that is served holds a permit; those in the backlog     *)
(* wait there, each once.                                                   *)
Busy == {p \in Peers : server[p] \in Served}
PermitsAddUp ==
  /\ permits \in Nat /\ IsFiniteSet(Busy)
  /\ permits + Cardinality(Busy) = MaxConnections
BacklogWaits ==
  /\ backlog \in Seq(Peers)
  /\ \A i \in DOMAIN backlog : server[backlog[i]] = "queued"
  /\ \A i, j \in DOMAIN backlog : backlog[i] = backlog[j] => i = j

PeersOnly(f) == f = [p \in Peers |-> f[p]]
ArePerPeer ==
  /\ PeersOnly(client) /\ PeersOnly(server) /\ PeersOnly(toCallee) /\ PeersOnly(toCaller)
  /\ PeersOnly(role) /\ PeersOnly(context) /\ PeersOnly(negotiated)
  /\ PeersOnly(idle) /\ PeersOnly(done)

AssociationIInv ==
  /\ IsSetup(policy, source, offer)
  /\ ArePerPeer
  /\ PermitsAddUp
  /\ BacklogWaits
  /\ \A p \in Peers : Dialogue(p) /\ Admission(p)

-----------------------------------------------------------------------------
USE AssociationAssumption

(* Min picks an element: a set of numbers that is not empty has a least one.*)
LEMMA MinIsIn ==
  ASSUME NEW S \in SUBSET Nat, S # {}
  PROVE  Min(S) \in S
<1> DEFINE LessThan == {pair \in Nat \X Nat : pair[1] < pair[2]}
<1>1. LessThan = OpToRel(<, Nat)
  BY Zenon DEF OpToRel
<1>2. IsWellFoundedOn(LessThan, Nat)
  BY <1>1, NatLessThanWellFounded, Zenon
<1>3. \E x \in S : \A y \in S : ~(<<y, x>> \in LessThan)
  <2> HIDE DEF LessThan
  <2> QED BY <1>2, WFMin
<1>4. PICK x \in S : \A y \in S : ~(<<y, x>> \in LessThan)
  BY <1>3
<1>5. ASSUME NEW y \in S PROVE x <= y
  <2>1. x \in Nat /\ y \in Nat /\ <<y, x>> \in Nat \X Nat
    OBVIOUS
  <2>2. ~(<<y, x>>[1] < <<y, x>>[2])
    BY <1>4, <2>1
  <2> QED BY <2>1, <2>2
<1> QED BY <1>5 DEF Min

(* The first accepted context is one of those proposed, with the syntax     *)
(* that is looked for, and was accepted.                                    *)
LEMMA AcceptedIsProposed ==
  ASSUME NEW contexts \in Seq(ContextProposal), NEW syntax,
         AcceptedId(contexts, syntax) # <<>>
  PROVE  \E j \in DOMAIN contexts :
           /\ contexts[j] = [id |-> AcceptedId(contexts, syntax)[1], syntax |-> syntax, ber |-> TRUE]
           /\ Verdicts(contexts)[j] = "acceptance"
<1> DEFINE places == {i \in DOMAIN contexts : /\ contexts[i].syntax = syntax
                                              /\ Verdict(contexts[i]) = "acceptance"}
           j == Min(places)
<1>1. places # {} /\ AcceptedId(contexts, syntax) = <<contexts[j].id>>
  BY DEF AcceptedId, IdAt
<1>2. j \in places
  <2>1. places \in SUBSET Nat
    OBVIOUS
  <2> HIDE DEF places
  <2> QED BY <1>1, <2>1, MinIsIn
<1> HIDE DEF j
<1>3. j \in DOMAIN contexts /\ contexts[j].syntax = syntax /\ Verdict(contexts[j]) = "acceptance"
  BY <1>2
<1>4. contexts[j] \in ContextProposal
  BY <1>3
<1>5. contexts[j].ber
  BY <1>3, <1>4 DEF Verdict, ContextProposal
<1>6. contexts[j] = [id |-> contexts[j].id, syntax |-> syntax, ber |-> TRUE]
  BY <1>3, <1>4, <1>5 DEF ContextProposal
<1>7. Verdicts(contexts)[j] = "acceptance"
  BY <1>3 DEF Verdicts
<1> QED BY <1>1, <1>3, <1>6, <1>7

(* What was chosen at the start stays.                                      *)
LEMMA WhatWasChosenStays ==
  ASSUME UNCHANGED fixedVars, NEW p \in Peers
  PROVE  /\ Granted(p)' = Granted(p) /\ Trusted(p)' = Trusted(p) /\ Usable(p)' = Usable(p)
         /\ Admissible(p)' = Admissible(p)
         /\ ToServerOf(p)' = ToServerOf(p) /\ ToClientOf(p)' = ToClientOf(p)
         /\ Unusable(offer[p])' = Unusable(offer[p])
  BY DEF fixedVars, Granted, Trusted, Usable, Admissible, ToServerOf, ToClientOf, DataTo, Tls,
         CertificateOk, RevocationOk, Authorize, AcceptOf, CpaResults, MmsContext, AcseContext,
         Unusable, ConnectOf

(* A step for one peer leaves the others as they are.                       *)
OnlyAt(p, f) == PeersOnly(f)' /\ \A q \in Peers : q # p => f'[q] = f[q]
Moves(p) ==
  /\ UNCHANGED fixedVars
  /\ OnlyAt(p, client) /\ OnlyAt(p, server) /\ OnlyAt(p, toCallee) /\ OnlyAt(p, toCaller)
  /\ OnlyAt(p, role) /\ OnlyAt(p, context) /\ OnlyAt(p, negotiated)
  /\ OnlyAt(p, idle) /\ OnlyAt(p, done)

LEMMA OthersStay ==
  ASSUME AssociationIInv, NEW p \in Peers, Moves(p), NEW q \in Peers, q # p
  PROVE  Dialogue(q)' /\ Admission(q)'
<1>1. UNCHANGED fixedVars /\ Dialogue(q) /\ Admission(q)
  BY DEF AssociationIInv, Moves
<1>2. /\ client'[q] = client[q] /\ server'[q] = server[q] /\ toCallee'[q] = toCallee[q]
      /\ toCaller'[q] = toCaller[q] /\ role'[q] = role[q] /\ context'[q] = context[q]
      /\ negotiated'[q] = negotiated[q] /\ idle'[q] = idle[q] /\ done'[q] = done[q]
  BY DEF Moves, OnlyAt
<1>3. /\ Granted(q)' = Granted(q) /\ Trusted(q)' = Trusted(q) /\ Admissible(q)' = Admissible(q)
      /\ ToServerOf(q)' = ToServerOf(q) /\ ToClientOf(q)' = ToClientOf(q) /\ offer' = offer
  BY <1>1, WhatWasChosenStays DEF fixedVars
<1>4. Dialogue(q)'
  BY <1>1, <1>2, <1>3 DEF Dialogue
<1>5. Admission(q)'
  BY <1>1, <1>2, <1>3 DEF Admission, MmsContext
<1> QED BY <1>4, <1>5

(* A permit is taken when a peer begins to be served, and given back when   *)
(* that ends.                                                               *)
PermitFollows(p) ==
  \/ permits' = permits /\ (server'[p] \in Served <=> server[p] \in Served)
  \/ permits' = permits + 1 /\ server[p] \in Served /\ server'[p] \notin Served
  \/ /\ permits' = permits - 1 /\ permits > 0
     /\ server[p] \notin Served /\ server'[p] \in Served

LEMMA PermitsGoOnAddingUp ==
  ASSUME PermitsAddUp, NEW p \in Peers, PermitFollows(p),
         \A q \in Peers : q # p => server'[q] = server[q]
  PROVE  PermitsAddUp'
<1>1. /\ permits \in Nat /\ IsFiniteSet(Busy) /\ permits + Cardinality(Busy) = MaxConnections
      /\ Cardinality(Busy) \in Nat
  BY FS_CardinalityType DEF PermitsAddUp
<1>2. CASE permits' = permits /\ (server'[p] \in Served <=> server[p] \in Served)
  <2>1. Busy' = Busy
    BY <1>2 DEF Busy
  <2> QED BY <1>1, <1>2, <2>1 DEF PermitsAddUp
<1>3. CASE permits' = permits + 1 /\ server[p] \in Served /\ server'[p] \notin Served
  <2>1. Busy' = Busy \ {p} /\ p \in Busy
    BY <1>3 DEF Busy
  <2>2. IsFiniteSet(Busy') /\ Cardinality(Busy') = Cardinality(Busy) - 1
    BY <1>1, <2>1, FS_RemoveElement
  <2>3. Cardinality(Busy') \in Nat
    BY <2>2, FS_CardinalityType
  <2> QED BY <1>1, <1>3, <2>2, <2>3 DEF PermitsAddUp
<1>4. CASE /\ permits' = permits - 1 /\ permits > 0
           /\ server[p] \notin Served /\ server'[p] \in Served
  <2>1. Busy' = Busy \cup {p} /\ p \notin Busy
    BY <1>4 DEF Busy
  <2>2. IsFiniteSet(Busy') /\ Cardinality(Busy') = Cardinality(Busy) + 1
    BY <1>1, <2>1, FS_AddElement
  <2> QED BY <1>1, <1>4, <2>2 DEF PermitsAddUp
<1> QED BY <1>2, <1>3, <1>4 DEF PermitFollows

(* What one peer's step has to show: its own part of the invariant, and     *)
(* that it does not leave the backlog by the way.                           *)
LEMMA OneMoves ==
  ASSUME AssociationIInv, NEW p \in Peers, Moves(p), PermitFollows(p),
         backlog' = backlog, server[p] # "queued" \/ server'[p] = server[p],
         Dialogue(p)', Admission(p)'
  PROVE  AssociationIInv'
<1>1. \A q \in Peers : Dialogue(q)' /\ Admission(q)'
  BY OthersStay
<1>2. PermitsAddUp'
  BY PermitsGoOnAddingUp DEF AssociationIInv, Moves, OnlyAt
<1>3. BacklogWaits'
  <2>1. \A q \in Peers : server[q] = "queued" => server'[q] = "queued"
    BY DEF Moves, OnlyAt
  <2>2. \A i \in DOMAIN backlog : backlog[i] \in Peers
    BY DEF AssociationIInv, BacklogWaits
  <2> QED BY <2>1, <2>2 DEF AssociationIInv, BacklogWaits
<1>4. IsSetup(policy, source, offer)' /\ ArePerPeer'
  BY DEF AssociationIInv, Moves, OnlyAt, ArePerPeer, fixedVars
<1> QED BY <1>1, <1>2, <1>3, <1>4 DEF AssociationIInv

LEMMA DialogueGoesOn ==
  ASSUME UNCHANGED fixedVars, NEW p \in Peers,
         client'[p] \in ClientStates, server'[p] \in ServerStates,
         toCallee'[p] \in NothingOrOneOf(ToServerOf(p)),
         toCaller'[p] \in NothingOrOneOf(ToClientOf(p)),
         toCallee'[p] = <<>> \/ toCaller'[p] = <<>>,
         client'[p] \in {"new", "tls"} => toCallee'[p] = <<>> /\ toCaller'[p] = <<>>,
         client'[p] = "new" => server'[p] = "none",
         client'[p] # "gone" \/ server'[p] # "none" => p \in DOMAIN offer
  PROVE  Dialogue(p)'
<1>1. ToServerOf(p)' = ToServerOf(p) /\ ToClientOf(p)' = ToClientOf(p) /\ offer' = offer
  BY WhatWasChosenStays DEF fixedVars
<1> QED BY <1>1 DEF Dialogue

LEMMA AdmissionStays ==
  ASSUME NEW p \in Peers, Admission(p), UNCHANGED fixedVars,
         role'[p] = role[p], context'[p] = context[p], negotiated'[p] = negotiated[p],
         done'[p] = done[p], idle'[p] \in 0..IdlePeriods,
         server'[p] = "up" => server[p] = "up",
         server'[p] \in {"cr", "cn"} => Trusted(p),
         client'[p] = "up" => client[p] = "up"
  PROVE  Admission(p)'
<1>1. /\ Granted(p)' = Granted(p) /\ Trusted(p)' = Trusted(p) /\ Admissible(p)' = Admissible(p)
      /\ offer' = offer /\ Accepted(offer[p])' = Accepted(offer[p])
      /\ MmsContext(offer[p])' = MmsContext(offer[p])
  BY WhatWasChosenStays DEF fixedVars, Accepted, MmsContext
<1> QED BY <1>1 DEF Admission

(* What is under way is a message or nothing.                               *)
LEMMA Reading ==
  ASSUME NEW S, NEW s \in NothingOrOneOf(S), s # <<>>
  PROVE  Head(s) \in S /\ Tail(s) = <<>> /\ s = <<Head(s)>>
<1>1. PICK m \in S : s = <<m>>
  BY DEF NothingOrOneOf
<1>2. <<m>> \in Seq(S) /\ Head(<<m>>) = m /\ Len(<<m>>) = 1
  OBVIOUS
<1>3. Tail(<<m>>) = <<>>
  OBVIOUS
<1> QED BY <1>1, <1>2, <1>3

LEMMA Writing ==
  ASSUME NEW S, NEW m \in S
  PROVE  Append(<<>>, m) \in NothingOrOneOf(S)
  BY DEF NothingOrOneOf

-----------------------------------------------------------------------------
(* The peers' steps.                                                        *)
LEMMA ReadConfirmKeepsIInv ==
  ASSUME AssociationIInv, NEW p \in Peers, ReadConfirm(p)
  PROVE  AssociationIInv'
<1>1. Dialogue(p) /\ Admission(p) /\ ArePerPeer
  BY DEF AssociationIInv
<1>2. Moves(p)
  BY <1>1 DEF ReadConfirm, ClientGoes, ToServer, Moves, OnlyAt, ArePerPeer, PeersOnly
<1>3. /\ client[p] = "cc" /\ client'[p] = "ac" /\ toCaller[p] # <<>> /\ toCaller'[p] = Tail(toCaller[p])
      /\ toCallee'[p] = Append(toCallee[p], ConnectOf(offer[p]))
      /\ UNCHANGED <<fixedVars, server, backlog, permits, role, context, negotiated, idle, done>>
  BY <1>1 DEF ReadConfirm, ClientGoes, ToServer, ClientHears, ArePerPeer, PeersOnly
<1>4. toCallee[p] = <<>> /\ toCaller'[p] = <<>> /\ p \in DOMAIN offer
  BY <1>1, <1>3, Reading DEF Dialogue
<1>5. toCallee'[p] \in NothingOrOneOf(ToServerOf(p)) /\ toCaller'[p] \in NothingOrOneOf(ToClientOf(p))
  <2>1. ConnectOf(offer[p]) \in ToServerOf(p)
    BY <1>4 DEF ToServerOf
  <2>2. toCallee'[p] \in NothingOrOneOf(ToServerOf(p))
    BY <1>3, <1>4, <2>1, Writing
  <2> QED BY <1>4, <2>2 DEF NothingOrOneOf
<1>6. Dialogue(p)'
  <2>1. server'[p] \in ServerStates
    BY <1>1, <1>3 DEF Dialogue
  <2> QED BY <1>3, <1>4, <1>5, <2>1, DialogueGoesOn DEF ClientStates
<1>7. Admission(p)'
  BY <1>1, <1>3, AdmissionStays DEF Admission
<1> QED BY <1>2, <1>3, <1>6, <1>7, OneMoves DEF PermitFollows

LEMMA ReadAcceptKeepsIInv ==
  ASSUME AssociationIInv, NEW p \in Peers, ReadAccept(p)
  PROVE  AssociationIInv'
<1> DEFINE m == Head(toCaller[p])
           ok == CpaOk(offer[p], m.results) /\ m.result = "accepted"
<1>1. Dialogue(p) /\ Admission(p) /\ ArePerPeer
  BY DEF AssociationIInv
<1>2. Moves(p)
  BY <1>1 DEF ReadAccept, ClientGoes, Moves, OnlyAt, ArePerPeer, PeersOnly
<1>3. /\ client[p] = "ac" /\ toCaller[p] # <<>> /\ m.kind = "ACCEPT"
      /\ UNCHANGED <<fixedVars, server, backlog, permits, toCallee, role, context, idle, done>>
      /\ client'[p] = IF ok THEN "up" ELSE "gone"
      /\ negotiated'[p] = IF ok THEN m.outstanding ELSE negotiated[p]
      /\ toCaller'[p] = IF ok THEN Tail(toCaller[p]) ELSE <<>>
  BY <1>1 DEF ReadAccept, ClientGoes, ClientHears, ArePerPeer, PeersOnly
<1>4. toCaller'[p] = <<>> /\ m \in ToClientOf(p)
  BY <1>1, <1>3, Reading DEF Dialogue
<1>5. ASSUME ok PROVE Admissible(p) /\ m.outstanding = Accepted(offer[p])
  BY <1>3, <1>4, <1>5 DEF ToClientOf, AcceptOf, Message, DataTo
<1>6. Dialogue(p)'
  <2>1. toCaller'[p] \in NothingOrOneOf(ToClientOf(p)) /\ toCallee'[p] \in NothingOrOneOf(ToServerOf(p))
    BY <1>1, <1>3, <1>4 DEF Dialogue, NothingOrOneOf
  <2>2. client'[p] \in ClientStates /\ client'[p] \notin {"new", "tls"} /\ server'[p] \in ServerStates
    BY <1>1, <1>3 DEF ClientStates, Dialogue
  <2>3. p \in DOMAIN offer
    BY <1>1, <1>3 DEF Dialogue
  <2> QED BY <1>3, <1>4, <2>1, <2>2, <2>3, DialogueGoesOn
<1>7. Admission(p)'
  <2>1. CASE ~ok
    BY <1>1, <1>3, <2>1, AdmissionStays DEF Admission
  <2>2. CASE ok
    <3>1. Admissible(p) /\ m.outstanding = Accepted(offer[p])
      BY <1>5, <2>2
    <3> HIDE DEF m, ok
    <3>2. /\ Granted(p)' = Granted(p) /\ Trusted(p)' = Trusted(p) /\ Admissible(p)' = Admissible(p)
          /\ offer' = offer /\ Accepted(offer[p])' = Accepted(offer[p])
          /\ MmsContext(offer[p])' = MmsContext(offer[p])
      BY <1>3, WhatWasChosenStays DEF fixedVars, Accepted, MmsContext
    <3>3. negotiated'[p] = Accepted(offer[p])
      BY <1>3, <2>2, <3>1
    <3>4. Accepted(offer[p]) \in 0..10
      <4>1. p \in DOMAIN offer
        BY <3>1 DEF Admissible, Usable
      <4>2. offer[p].outstanding \in Nat
        BY <4>1 DEF AssociationIInv, IsSetup, IsOffer
      <4> QED BY <4>2 DEF Accepted, AtMostTen
    <3> QED BY <1>1, <1>3, <2>2, <3>1, <3>2, <3>3, <3>4 DEF Admission
  <2> QED BY <2>1, <2>2
<1> QED BY <1>2, <1>3, <1>6, <1>7, OneMoves DEF PermitFollows

(* What a peer that is associated asks for.                                 *)
LEMMA AskingKeepsIInv ==
  ASSUME AssociationIInv, NEW p \in Peers, NEW m \in ToServerOf(p),
         client[p] = "up", toCallee[p] = <<>>, toCaller[p] = <<>>, ToServer(p, m),
         UNCHANGED <<fixedVars, client, server, backlog, permits, toCaller, role, context,
                     negotiated, idle, done>>
  PROVE  AssociationIInv'
<1>1. Dialogue(p) /\ Admission(p) /\ ArePerPeer
  BY DEF AssociationIInv
<1>2. Moves(p)
  BY <1>1 DEF ToServer, Moves, OnlyAt, ArePerPeer, PeersOnly
<1>3. toCallee'[p] = Append(<<>>, m)
  BY <1>1 DEF ToServer, ArePerPeer, PeersOnly
<1>4. toCallee'[p] \in NothingOrOneOf(ToServerOf(p))
  BY <1>3, Writing
<1>5. Dialogue(p)'
  BY <1>1, <1>4, DialogueGoesOn DEF Dialogue
<1>6. Admission(p)'
  BY <1>1, AdmissionStays DEF Admission
<1> QED BY <1>2, <1>5, <1>6, OneMoves DEF PermitFollows

(* Nothing is written, what was under way to the client may be gone, and    *)
(* the client with it.                                                      *)
LEMMA QuietClientKeepsIInv ==
  ASSUME AssociationIInv, NEW p \in Peers,
         Moves(p), client'[p] \in {client[p], "silent", "gone"}, client[p] \notin {"new", "gone"},
         toCaller'[p] \in {<<>>, toCaller[p]},
         UNCHANGED <<fixedVars, server, backlog, permits, toCallee, role, context,
                     negotiated, idle, done>>
  PROVE  AssociationIInv'
<1>1. Dialogue(p) /\ Admission(p)
  BY DEF AssociationIInv
<1>2. Dialogue(p)'
  <2>1. /\ toCaller'[p] \in NothingOrOneOf(ToClientOf(p))
        /\ toCallee'[p] \in NothingOrOneOf(ToServerOf(p))
        /\ toCallee'[p] = <<>> \/ toCaller'[p] = <<>>
        /\ client'[p] \in ClientStates /\ server'[p] \in ServerStates
        /\ p \in DOMAIN offer /\ client'[p] # "new"
    BY <1>1 DEF Dialogue, NothingOrOneOf, ClientStates
  <2>2. client'[p] \in {"new", "tls"} => toCallee'[p] = <<>> /\ toCaller'[p] = <<>>
    BY <1>1 DEF Dialogue
  <2> QED BY <2>1, <2>2, DialogueGoesOn
<1>3. Admission(p)'
  BY <1>1, AdmissionStays DEF Admission
<1> QED BY <1>2, <1>3, OneMoves DEF PermitFollows

LEMMA PeerStepKeepsIInv ==
  ASSUME AssociationIInv, NEW p \in Peers,
         \/ ReadConfirm(p) \/ ReadAccept(p) \/ ReadData(p) \/ \E a \in Asked : AskFor(p, a)
         \/ Conclude(p) \/ LeavePeer(p) \/ FallSilent(p)
  PROVE  AssociationIInv'
<1>1. Dialogue(p) /\ ArePerPeer
  BY DEF AssociationIInv
<1>2. ASSUME NEW a \in Asked, AskFor(p, a) PROVE AssociationIInv'
  <2>1. [kind |-> "request", asked |-> a] \in ToServerOf(p)
    BY DEF ToServerOf
  <2> QED BY <1>2, <2>1, AskingKeepsIInv DEF AskFor
<1>3. CASE Conclude(p)
  <2>1. Message("conclude") \in ToServerOf(p)
    BY DEF ToServerOf
  <2> QED BY <1>3, <2>1, AskingKeepsIInv DEF Conclude
<1>4. CASE ReadData(p)
  <2>1. Moves(p)
    BY <1>1, <1>4 DEF ReadData, Moves, OnlyAt, ArePerPeer, PeersOnly
  <2>2. /\ client[p] = "up" /\ client' = client /\ toCaller[p] # <<>>
        /\ toCaller'[p] = Tail(toCaller[p])
        /\ UNCHANGED <<fixedVars, server, backlog, permits, toCallee, role, context,
                       negotiated, idle, done>>
    BY <1>1, <1>4 DEF ReadData, ClientHears, ArePerPeer, PeersOnly
  <2>3. toCaller'[p] = <<>>
    BY <1>1, <2>2, Reading DEF Dialogue
  <2> QED BY <2>1, <2>2, <2>3, QuietClientKeepsIInv
<1>5. CASE LeavePeer(p)
  <2>1. Moves(p)
    BY <1>1, <1>5 DEF LeavePeer, ClientGoes, Moves, OnlyAt, ArePerPeer, PeersOnly
  <2>2. client'[p] = "gone" /\ toCaller'[p] = <<>>
    BY <1>1, <1>5 DEF LeavePeer, ClientGoes, ArePerPeer, PeersOnly
  <2> QED BY <1>5, <2>1, <2>2, QuietClientKeepsIInv DEF LeavePeer
<1>6. CASE FallSilent(p)
  <2>1. Moves(p)
    BY <1>1, <1>6 DEF FallSilent, ClientGoes, Moves, OnlyAt, ArePerPeer, PeersOnly
  <2>2. client'[p] = "silent" /\ toCaller' = toCaller
    BY <1>1, <1>6 DEF FallSilent, ClientGoes, ArePerPeer, PeersOnly
  <2> QED BY <1>6, <2>1, <2>2, QuietClientKeepsIInv DEF FallSilent
<1> QED BY <1>2, <1>3, <1>4, <1>5, <1>6, ReadConfirmKeepsIInv, ReadAcceptKeepsIInv

-----------------------------------------------------------------------------
(* The server's steps.                                                      *)

(* A task ends: its permit is free, and what it sent last may be read.      *)
Ends(p) ==
  /\ Moves(p) /\ server[p] \in Served /\ EndTask(p)
  /\ client'[p] \in {client[p], "gone"}
  /\ \/ toCaller'[p] = toCaller[p]
     \/ toCallee[p] # <<>> /\ toCaller'[p] \in NothingOrOneOf(ToClientOf(p))
  /\ UNCHANGED <<fixedVars, backlog, role, context, negotiated, idle, done>>

LEMMA EndingKeepsIInv ==
  ASSUME AssociationIInv, NEW p \in Peers, Ends(p)
  PROVE  AssociationIInv'
<1> USE DEF Ends
<1>1. Dialogue(p) /\ Admission(p) /\ ArePerPeer
  BY DEF AssociationIInv
<1>2. /\ server'[p] = "closed" /\ permits' = permits + 1 /\ toCallee'[p] = <<>>
      /\ server[p] # "queued" /\ server'[p] \notin Served
  BY <1>1 DEF EndTask, ServerGoes, ArePerPeer, PeersOnly, Served
<1>3. Dialogue(p)'
  <2>1. /\ toCaller'[p] \in NothingOrOneOf(ToClientOf(p))
        /\ toCallee'[p] \in NothingOrOneOf(ToServerOf(p))
        /\ client'[p] \in ClientStates /\ server'[p] \in ServerStates
    BY <1>1, <1>2 DEF Dialogue, NothingOrOneOf, ClientStates, ServerStates
  <2>2. p \in DOMAIN offer /\ client'[p] # "new"
    BY <1>1 DEF Dialogue, Served
  <2>3. client'[p] \in {"new", "tls"} => toCallee'[p] = <<>> /\ toCaller'[p] = <<>>
    BY <1>1, <1>2 DEF Dialogue
  <2> QED BY <1>2, <2>1, <2>2, <2>3, DialogueGoesOn
<1>4. Admission(p)'
  BY <1>1, <1>2, AdmissionStays DEF Admission
<1> QED BY <1>2, <1>3, <1>4, OneMoves DEF PermitFollows

LEMMA AdmitKeepsIInv ==
  ASSUME AssociationIInv, NEW p \in Peers, Admit(p)
  PROVE  AssociationIInv'
<1>1. Dialogue(p) /\ Admission(p) /\ ArePerPeer
  BY DEF AssociationIInv
<1>2. Moves(p)
  BY <1>1 DEF Admit, ServerGoes, Moves, OnlyAt, ArePerPeer, PeersOnly
<1>3. /\ server[p] = "held" /\ permits > 0 /\ permits' = permits - 1
      /\ server'[p] = (IF Tls THEN "tls" ELSE "cr")
      /\ UNCHANGED <<fixedVars, client, backlog, toCallee, toCaller, role, context, negotiated,
                     idle, done>>
  BY <1>1 DEF Admit, ServerGoes, ArePerPeer, PeersOnly
<1>4. Dialogue(p)'
  <2>1. server'[p] \in ServerStates /\ client'[p] # "new"
    BY <1>1, <1>3 DEF ServerStates, Dialogue
  <2> QED BY <1>1, <1>3, <2>1, DialogueGoesOn DEF Dialogue
<1>5. Admission(p)'
  <2>1. server'[p] = "cr" => Trusted(p)
    BY <1>3 DEF Trusted
  <2> QED BY <1>1, <1>3, <2>1, AdmissionStays DEF Admission
<1>6. PermitFollows(p)
  BY <1>3 DEF PermitFollows, Served
<1> QED BY <1>2, <1>3, <1>4, <1>5, <1>6, OneMoves

LEMMA TlsHandshakeKeepsIInv ==
  ASSUME AssociationIInv, NEW p \in Peers, TlsHandshake(p)
  PROVE  AssociationIInv'
<1>1. Dialogue(p) /\ Admission(p) /\ ArePerPeer
  BY DEF AssociationIInv
<1>2. /\ server[p] = "tls" /\ client[p] = "tls"
      /\ UNCHANGED <<fixedVars, backlog, toCaller, role, context, negotiated, idle, done>>
  BY DEF TlsHandshake, SignedByAuthority
<1>3. CASE offer[p].cert.trusted
  <2>1. ServerGoes(p, "cr") /\ ClientGoes(p, "cc") /\ ToServer(p, Message("CR")) /\ UNCHANGED permits
    BY <1>3 DEF TlsHandshake, SignedByAuthority
  <2>2. Moves(p)
    BY <1>1, <1>2, <2>1 DEF ServerGoes, ClientGoes, ToServer, Moves, OnlyAt, ArePerPeer, PeersOnly
  <2>3. /\ server'[p] = "cr" /\ client'[p] = "cc"
        /\ toCallee'[p] = Append(toCallee[p], Message("CR"))
    BY <1>1, <2>1 DEF ServerGoes, ClientGoes, ToServer, ArePerPeer, PeersOnly
  <2>4. toCallee[p] = <<>> /\ toCaller[p] = <<>> /\ p \in DOMAIN offer
    BY <1>1, <1>2 DEF Dialogue
  <2>5. toCallee'[p] \in NothingOrOneOf(ToServerOf(p))
    <3>1. Message("CR") \in ToServerOf(p)
      BY DEF ToServerOf
    <3> QED BY <2>3, <2>4, <3>1, Writing
  <2>6. Dialogue(p)'
    BY <1>1, <1>2, <2>3, <2>4, <2>5, DialogueGoesOn DEF Dialogue, ServerStates, ClientStates
  <2>7. Admission(p)'
    BY <1>1, <1>2, <1>3, <2>3, AdmissionStays DEF Admission, Trusted
  <2> QED BY <1>2, <2>1, <2>2, <2>3, <2>6, <2>7, OneMoves DEF PermitFollows, Served
<1>4. CASE ~offer[p].cert.trusted
  <2>1. EndTask(p) /\ ClientGoes(p, "gone")
    BY <1>4 DEF TlsHandshake, SignedByAuthority
  <2>2. Moves(p)
    BY <1>1, <1>2, <2>1
       DEF EndTask, ServerGoes, ClientGoes, Moves, OnlyAt, ArePerPeer, PeersOnly
  <2>3. client'[p] = "gone"
    BY <1>1, <2>1 DEF ClientGoes, ArePerPeer, PeersOnly
  <2>4. /\ server[p] \in Served /\ toCaller'[p] = toCaller[p]
        /\ client'[p] \in {client[p], "gone"}
    BY <1>2, <2>3 DEF Served
  <2> QED BY <1>2, <2>1, <2>2, <2>4, EndingKeepsIInv DEF Ends
<1> QED BY <1>3, <1>4

LEMMA ReadCrKeepsIInv ==
  ASSUME AssociationIInv, NEW p \in Peers, ReadCr(p)
  PROVE  AssociationIInv'
<1>1. Dialogue(p) /\ Admission(p) /\ ArePerPeer
  BY DEF AssociationIInv
<1>2. Moves(p)
  BY <1>1 DEF ReadCr, ServerGoes, ToClient, Moves, OnlyAt, ArePerPeer, PeersOnly
<1>3. /\ server[p] = "cr" /\ server'[p] = "cn" /\ toCallee[p] # <<>>
      /\ toCallee'[p] = Tail(toCallee[p]) /\ toCaller'[p] = Append(toCaller[p], Message("CC"))
      /\ UNCHANGED <<fixedVars, client, backlog, permits, role, context, negotiated, idle, done>>
  BY <1>1 DEF ReadCr, ServerGoes, ServerHears, ToClient, ArePerPeer, PeersOnly
<1>4. toCallee'[p] = <<>> /\ toCaller[p] = <<>>
  BY <1>1, <1>3, Reading DEF Dialogue
<1>5. toCaller'[p] \in NothingOrOneOf(ToClientOf(p))
  <2>1. Message("CC") \in ToClientOf(p)
    BY DEF ToClientOf
  <2> QED BY <1>3, <1>4, <2>1, Writing
<1>6. Dialogue(p)'
  <2>1. toCallee'[p] \in NothingOrOneOf(ToServerOf(p)) /\ server'[p] \in ServerStates
    BY <1>3, <1>4 DEF NothingOrOneOf, ServerStates
  <2>2. client'[p] \notin {"new", "tls"} /\ client'[p] \in ClientStates /\ p \in DOMAIN offer
    BY <1>1, <1>3 DEF Dialogue
  <2> QED BY <1>3, <1>4, <1>5, <2>1, <2>2, DialogueGoesOn
<1>7. Admission(p)'
  BY <1>1, <1>3, AdmissionStays DEF Admission
<1> QED BY <1>2, <1>3, <1>6, <1>7, OneMoves DEF PermitFollows, Served

LEMMA ReadConnectKeepsIInv ==
  ASSUME AssociationIInv, NEW p \in Peers, ReadConnect(p)
  PROVE  AssociationIInv'
<1>1. Dialogue(p) /\ Admission(p) /\ ArePerPeer
  BY DEF AssociationIInv
<1>2. /\ server[p] = "cn" /\ toCallee[p] # <<>> /\ Head(toCallee[p]).kind = "CONNECT"
      /\ UNCHANGED <<fixedVars, client, backlog, negotiated, idle, done>>
  BY DEF ReadConnect, ServerHears
<1>3. /\ Head(toCallee[p]).offer = offer[p] /\ Tail(toCallee[p]) = <<>> /\ toCaller[p] = <<>>
      /\ p \in DOMAIN offer /\ Trusted(p)
  <2>1. Head(toCallee[p]) \in ToServerOf(p) /\ Tail(toCallee[p]) = <<>>
    BY <1>1, <1>2, Reading DEF Dialogue
  <2>2. p \in DOMAIN offer /\ Trusted(p) /\ toCaller[p] = <<>>
    BY <1>1, <1>2 DEF Dialogue, Admission
  <2> QED BY <1>2, <2>1, <2>2 DEF ToServerOf, Message, ConnectOf
<1>4. \/ Unusable(offer[p]) /\ EndTask(p) /\ UNCHANGED <<toCaller, role, context>>
      \/ /\ ~Unusable(offer[p]) /\ Granted(p) = NoRole
         /\ ToClient(p, AcceptOf(offer[p], "rejected"))
         /\ EndTask(p) /\ UNCHANGED <<role, context>>
      \/ /\ ~Unusable(offer[p]) /\ Granted(p) # NoRole
         /\ ToClient(p, AcceptOf(offer[p], "accepted"))
         /\ toCallee' = [toCallee EXCEPT ![p] = Tail(@)]
         /\ ServerGoes(p, "up") /\ UNCHANGED permits
         /\ role' = [role EXCEPT ![p] = Granted(p)]
         /\ context' = [context EXCEPT ![p] = MmsContext(offer[p])[1]]
  BY <1>3 DEF ReadConnect, Granted
<1>5. CASE Unusable(offer[p]) /\ EndTask(p) /\ UNCHANGED <<toCaller, role, context>>
  <2>1. Moves(p)
    BY <1>1, <1>2, <1>5 DEF EndTask, ServerGoes, Moves, OnlyAt, ArePerPeer, PeersOnly
  <2> QED BY <1>2, <1>5, <2>1, EndingKeepsIInv DEF Ends, Served
<1>6. CASE /\ ~Unusable(offer[p])
           /\ ToClient(p, AcceptOf(offer[p], "rejected"))
           /\ EndTask(p) /\ UNCHANGED <<role, context>>
  <2>1. Moves(p)
    BY <1>1, <1>2, <1>6 DEF EndTask, ServerGoes, ToClient, Moves, OnlyAt, ArePerPeer, PeersOnly
  <2>2. toCaller'[p] = Append(<<>>, AcceptOf(offer[p], "rejected"))
    BY <1>1, <1>3, <1>6 DEF ToClient, ArePerPeer, PeersOnly
  <2>3. AcceptOf(offer[p], "rejected") \in ToClientOf(p)
    BY <1>3, <1>6 DEF ToClientOf, Usable
  <2>4. toCaller'[p] \in NothingOrOneOf(ToClientOf(p))
    BY <2>2, <2>3, Writing
  <2> QED BY <1>2, <1>6, <2>1, <2>4, EndingKeepsIInv DEF Ends, Served
<1>7. CASE /\ ~Unusable(offer[p]) /\ Granted(p) # NoRole
           /\ ToClient(p, AcceptOf(offer[p], "accepted"))
           /\ toCallee' = [toCallee EXCEPT ![p] = Tail(@)]
           /\ ServerGoes(p, "up") /\ UNCHANGED permits
           /\ role' = [role EXCEPT ![p] = Granted(p)]
           /\ context' = [context EXCEPT ![p] = MmsContext(offer[p])[1]]
  <2>1. Moves(p)
    BY <1>1, <1>2, <1>7 DEF ServerGoes, ToClient, Moves, OnlyAt, ArePerPeer, PeersOnly
  <2>2. /\ toCaller'[p] = Append(<<>>, AcceptOf(offer[p], "accepted")) /\ toCallee'[p] = <<>>
        /\ server'[p] = "up" /\ role'[p] = Granted(p) /\ context'[p] = MmsContext(offer[p])[1]
    BY <1>1, <1>3, <1>7 DEF ServerGoes, ToClient, ArePerPeer, PeersOnly
  <2>3. Admissible(p)
    BY <1>3, <1>7 DEF Admissible, Usable
  <2>4. toCaller'[p] \in NothingOrOneOf(ToClientOf(p))
    <3>1. AcceptOf(offer[p], "accepted") \in ToClientOf(p)
      BY <2>3 DEF ToClientOf
    <3> QED BY <2>2, <3>1, Writing
  <2>5. Dialogue(p)'
    <3>1. client'[p] \in ClientStates /\ client'[p] \notin {"new", "tls"} /\ server'[p] \in ServerStates
      BY <1>1, <1>2, <2>2 DEF Dialogue, ServerStates
    <3>2. toCallee'[p] \in NothingOrOneOf(ToServerOf(p))
      BY <2>2 DEF NothingOrOneOf
    <3> QED BY <1>2, <1>3, <2>2, <2>4, <3>1, <3>2, DialogueGoesOn
  <2>6. Admission(p)'
    <3>1. /\ Granted(p)' = Granted(p) /\ Trusted(p)' = Trusted(p) /\ Admissible(p)' = Admissible(p)
          /\ offer' = offer /\ Accepted(offer[p])' = Accepted(offer[p])
          /\ MmsContext(offer[p])' = MmsContext(offer[p])
      BY <1>2, WhatWasChosenStays DEF fixedVars, Accepted, MmsContext
    <3> QED BY <1>1, <1>2, <1>3, <2>2, <2>3, <3>1 DEF Admission
  <2> QED BY <1>2, <1>7, <2>1, <2>2, <2>5, <2>6, OneMoves DEF PermitFollows, Served
<1> QED BY <1>4, <1>5, <1>6, <1>7

(* What a request did is what the role granted allows.                      *)
LEMMA ServeRequestKeepsIInv ==
  ASSUME AssociationIInv, NEW p \in Peers, ServeRequest(p)
  PROVE  AssociationIInv'
<1> DEFINE a == Head(toCallee[p]).asked
<1>1. Dialogue(p) /\ Admission(p) /\ ArePerPeer
  BY DEF AssociationIInv
<1>2. Moves(p)
  BY <1>1 DEF ServeRequest, ToClient, Moves, OnlyAt, ArePerPeer, PeersOnly
<1>3. /\ server[p] = "up" /\ toCallee[p] # <<>>
      /\ UNCHANGED <<fixedVars, client, server, backlog, permits, role, context, negotiated>>
      /\ done'[p] = IF Permitted(p, a) THEN done[p] \cup {a} ELSE done[p]
      /\ toCallee'[p] = Tail(toCallee[p]) /\ idle'[p] = 0
      /\ toCaller'[p] = Append(toCaller[p], [kind |-> "data", context |-> context[p]])
  BY <1>1 DEF ServeRequest, Looping, ServerHears, ToClient, ArePerPeer, PeersOnly
<1>4. /\ Admissible(p) /\ role[p] = Granted(p) /\ context[p] = MmsContext(offer[p])[1]
      /\ toCallee'[p] = <<>> /\ toCaller[p] = <<>>
  BY <1>1, <1>3, Reading DEF Dialogue, Admission
<1>5. toCaller'[p] \in NothingOrOneOf(ToClientOf(p))
  <2>1. DataTo(p) \in ToClientOf(p)
    BY <1>4 DEF ToClientOf
  <2> QED BY <1>3, <1>4, <2>1, Writing DEF DataTo
<1>6. Dialogue(p)'
  <2>1. toCallee'[p] \in NothingOrOneOf(ToServerOf(p)) /\ server'[p] \in ServerStates
    BY <1>3, <1>4 DEF NothingOrOneOf, ServerStates
  <2>2. client'[p] \notin {"new", "tls"} /\ client'[p] \in ClientStates /\ p \in DOMAIN offer
    BY <1>1, <1>3 DEF Dialogue
  <2> QED BY <1>3, <1>4, <1>5, <2>1, <2>2, DialogueGoesOn
<1>7. Admission(p)'
  <2>1. /\ Granted(p)' = Granted(p) /\ Trusted(p)' = Trusted(p) /\ Admissible(p)' = Admissible(p)
        /\ offer' = offer /\ Accepted(offer[p])' = Accepted(offer[p])
        /\ MmsContext(offer[p])' = MmsContext(offer[p])
    BY <1>3, WhatWasChosenStays DEF fixedVars, Accepted, MmsContext
  <2>2. \A b \in done'[p] : PermissionFor(b) \in Granted(p)
    <3> HIDE DEF a
    <3> QED BY <1>1, <1>3, <1>4 DEF Admission, Permitted
  <2> HIDE DEF a
  <2> QED BY <1>1, <1>3, <1>4, <2>1, <2>2 DEF Admission
<1> QED BY <1>2, <1>3, <1>6, <1>7, OneMoves DEF PermitFollows

LEMMA ServeConcludeKeepsIInv ==
  ASSUME AssociationIInv, NEW p \in Peers, ServeConclude(p)
  PROVE  AssociationIInv'
<1>1. Dialogue(p) /\ ArePerPeer
  BY DEF AssociationIInv
<1>2. /\ server[p] = "up" /\ toCallee[p] # <<>> /\ EndTask(p)
      /\ UNCHANGED <<fixedVars, client, backlog, role, context, negotiated, idle, done>>
  BY DEF ServeConclude, Looping, ServerHears
<1>3. Moves(p)
  BY <1>1 DEF ServeConclude, EndTask, ServerGoes, ToClient, Moves, OnlyAt, ArePerPeer, PeersOnly
<1>4. toCaller'[p] = Append(<<>>, Message("concluded"))
  BY <1>1, <1>2 DEF ServeConclude, ToClient, Dialogue, ArePerPeer, PeersOnly
<1>5. toCaller'[p] \in NothingOrOneOf(ToClientOf(p))
  <2>1. Message("concluded") \in ToClientOf(p)
    BY DEF ToClientOf
  <2> QED BY <1>4, <2>1, Writing
<1> QED BY <1>2, <1>3, <1>5, EndingKeepsIInv DEF Ends, Served

LEMMA ServerStepKeepsIInv ==
  ASSUME AssociationIInv, NEW p \in Peers,
         Admit(p) \/ ServerGoesOn(p) \/ EndOfStream(p) \/ Timeouts(p)
  PROVE  AssociationIInv'
<1>1. ArePerPeer
  BY DEF AssociationIInv
<1>2. CASE EndOfStream(p) \/ Timeouts(p)
  <2>1. /\ server[p] \in Served /\ EndTask(p)
        /\ UNCHANGED <<fixedVars, client, backlog, toCaller, role, context, negotiated, idle, done>>
    BY <1>2 DEF EndOfStream, Timeouts, HandshakeTimeout, IdleTimeout, Handshaking, Looping, Served
  <2>2. Moves(p)
    BY <1>1, <2>1 DEF EndTask, ServerGoes, Moves, OnlyAt, ArePerPeer, PeersOnly
  <2> QED BY <2>1, <2>2, EndingKeepsIInv DEF Ends
<1> QED BY <1>2, AdmitKeepsIInv, TlsHandshakeKeepsIInv, ReadCrKeepsIInv, ReadConnectKeepsIInv,
           ServeRequestKeepsIInv, ServeConcludeKeepsIInv DEF ServerGoesOn

-----------------------------------------------------------------------------
(* The listener. A peer that connects is new to it.                         *)
LEMMA ConnectKeepsIInv ==
  ASSUME AssociationIInv, NEW p \in Peers, Connect(p)
  PROVE  AssociationIInv'
<1>1. Dialogue(p) /\ Admission(p) /\ ArePerPeer /\ BacklogWaits /\ PermitsAddUp
  BY DEF AssociationIInv
<1>2. Moves(p)
  BY <1>1 DEF Connect, ServerGoes, ClientGoes, ToServer, Moves, OnlyAt, ArePerPeer, PeersOnly
<1>3. /\ client[p] = "new" /\ server'[p] = "queued" /\ backlog' = Append(backlog, p)
      /\ UNCHANGED <<fixedVars, permits, toCaller, role, context, negotiated, idle, done>>
      /\ \/ client'[p] = "tls" /\ toCallee'[p] = toCallee[p]
         \/ client'[p] = "cc" /\ toCallee'[p] = Append(toCallee[p], Message("CR"))
  BY <1>1 DEF Connect, ServerGoes, ClientGoes, ToServer, ArePerPeer, PeersOnly
<1>4. server[p] = "none" /\ toCallee[p] = <<>> /\ toCaller[p] = <<>> /\ p \in DOMAIN offer
  BY <1>1, <1>3 DEF Dialogue
<1>5. Dialogue(p)'
  <2>1. toCallee'[p] \in NothingOrOneOf(ToServerOf(p))
    <3>1. Message("CR") \in ToServerOf(p)
      BY DEF ToServerOf
    <3>2. CASE toCallee'[p] = toCallee[p]
      BY <1>4, <3>2 DEF NothingOrOneOf
    <3>3. CASE toCallee'[p] = Append(toCallee[p], Message("CR"))
      BY <1>4, <3>1, <3>3, Writing
    <3> QED BY <1>3, <3>2, <3>3
  <2>2. /\ toCaller'[p] = <<>> /\ toCaller'[p] \in NothingOrOneOf(ToClientOf(p))
        /\ client'[p] \in ClientStates /\ client'[p] # "new" /\ server'[p] \in ServerStates
        /\ client'[p] = "tls" => toCallee'[p] = <<>>
    BY <1>3, <1>4 DEF NothingOrOneOf, ClientStates, ServerStates
  <2> QED BY <1>3, <1>4, <2>1, <2>2, DialogueGoesOn
<1>6. Admission(p)'
  BY <1>1, <1>3, AdmissionStays DEF Admission
<1>7. \A q \in Peers : Dialogue(q)' /\ Admission(q)'
  BY <1>2, <1>5, <1>6, OthersStay
<1>8. PermitsAddUp'
  <2>1. PermitFollows(p)
    BY <1>3, <1>4 DEF PermitFollows, Served
  <2> QED BY <1>1, <1>2, <2>1, PermitsGoOnAddingUp DEF Moves, OnlyAt
<1>9. BacklogWaits'
  <2>1. \A q \in Peers : server[q] = "queued" => server'[q] = "queued" /\ q # p
    BY <1>2, <1>4 DEF Moves, OnlyAt
  <2>2. /\ backlog' \in Seq(Peers) /\ DOMAIN backlog' = DOMAIN backlog \cup {Len(backlog) + 1}
        /\ \A i \in DOMAIN backlog : /\ backlog'[i] = backlog[i] /\ backlog[i] \in Peers
                                     /\ server[backlog[i]] = "queued"
        /\ backlog'[Len(backlog) + 1] = p
    BY <1>1, <1>3 DEF BacklogWaits
  <2>3. \A i \in DOMAIN backlog' : server'[backlog'[i]] = "queued"
    BY <1>3, <2>1, <2>2
  <2>4. \A i, j \in DOMAIN backlog' : backlog'[i] = backlog'[j] => i = j
    <3>1. \A i \in DOMAIN backlog : backlog'[i] # p
      BY <2>1, <2>2
    <3>2. \A i, j \in DOMAIN backlog : backlog'[i] = backlog'[j] => i = j
      BY <1>1, <2>2 DEF BacklogWaits
    <3> QED BY <2>2, <3>1, <3>2
  <2> QED BY <2>2, <2>3, <2>4 DEF BacklogWaits
<1>10. IsSetup(policy, source, offer)' /\ ArePerPeer'
  BY <1>2 DEF AssociationIInv, Moves, OnlyAt, ArePerPeer, fixedVars
<1> QED BY <1>7, <1>8, <1>9, <1>10 DEF AssociationIInv

(* The socket that has waited longest is taken, and waits nowhere else.     *)
LEMMA AcceptSocketKeepsIInv ==
  ASSUME AssociationIInv, AcceptSocket
  PROVE  AssociationIInv'
<1>1. ArePerPeer /\ BacklogWaits /\ PermitsAddUp /\ backlog # <<>>
  BY DEF AssociationIInv, AcceptSocket
<1>2. PICK p \in Peers : /\ p = Head(backlog) /\ server[p] = "queued"
                         /\ 1 \in DOMAIN backlog /\ backlog[1] = p
  BY <1>1 DEF BacklogWaits
<1>3. /\ server' = [server EXCEPT ![p] = "held"] /\ backlog' = Tail(backlog)
      /\ UNCHANGED <<fixedVars, client, permits, toCallee, toCaller, role, context, negotiated,
                     idle, done>>
  BY <1>2 DEF AcceptSocket, ServerGoes
<1>4. Moves(p) /\ server'[p] = "held"
  BY <1>1, <1>2, <1>3 DEF Moves, OnlyAt, ArePerPeer, PeersOnly
<1>5. Dialogue(p) /\ Admission(p)
  BY <1>2 DEF AssociationIInv
<1>6. Dialogue(p)'
  <2>1. server'[p] \in ServerStates /\ client'[p] # "new"
    BY <1>2, <1>3, <1>4, <1>5 DEF ServerStates, Dialogue
  <2> QED BY <1>2, <1>3, <1>4, <1>5, <2>1, DialogueGoesOn DEF Dialogue
<1>7. Admission(p)'
  BY <1>2, <1>3, <1>4, <1>5, AdmissionStays DEF Admission
<1>8. \A q \in Peers : Dialogue(q)' /\ Admission(q)'
  BY <1>2, <1>4, <1>6, <1>7, OthersStay
<1>9. PermitsAddUp'
  <2>1. PermitFollows(p)
    BY <1>2, <1>3, <1>4 DEF PermitFollows, Served
  <2> QED BY <1>1, <1>2, <1>4, <2>1, PermitsGoOnAddingUp DEF Moves, OnlyAt
<1>10. BacklogWaits'
  <2>1. /\ backlog' \in Seq(Peers)
        /\ \A i \in DOMAIN backlog' : i + 1 \in DOMAIN backlog /\ backlog'[i] = backlog[i + 1] /\ i \in Nat \ {0}
    BY <1>1, <1>3 DEF BacklogWaits
  <2>2. \A i \in DOMAIN backlog' : backlog'[i] # p /\ backlog'[i] \in Peers /\ server[backlog'[i]] = "queued"
    <3> TAKE i \in DOMAIN backlog'
    <3>1. i + 1 \in DOMAIN backlog /\ backlog'[i] = backlog[i + 1] /\ i + 1 # 1
      BY <2>1
    <3>2. backlog[i + 1] # backlog[1]
      BY <1>1, <1>2, <3>1 DEF BacklogWaits
    <3> QED BY <1>1, <1>2, <3>1, <3>2 DEF BacklogWaits
  <2>3. \A i \in DOMAIN backlog' : server'[backlog'[i]] = "queued"
    BY <1>4, <2>2 DEF Moves, OnlyAt
  <2>4. ASSUME NEW i \in DOMAIN backlog', NEW j \in DOMAIN backlog', backlog'[i] = backlog'[j]
        PROVE  i = j
    <3>1. /\ i + 1 \in DOMAIN backlog /\ j + 1 \in DOMAIN backlog
          /\ backlog[i + 1] = backlog[j + 1] /\ i \in Nat /\ j \in Nat
      BY <2>1, <2>4
    <3>2. i + 1 = j + 1
      BY <1>1, <3>1 DEF BacklogWaits
    <3> QED BY <3>1, <3>2
  <2> QED BY <2>1, <2>3, <2>4 DEF BacklogWaits
<1>11. IsSetup(policy, source, offer)' /\ ArePerPeer'
  BY <1>4 DEF AssociationIInv, Moves, OnlyAt, ArePerPeer, fixedVars
<1> QED BY <1>8, <1>9, <1>10, <1>11 DEF AssociationIInv

(* Time passes, or a change wakes the loops.                                *)
LEMMA IdlingKeepsIInv ==
  ASSUME AssociationIInv, PeersOnly(idle)', \A q \in Peers : idle'[q] \in 0..IdlePeriods,
         UNCHANGED <<fixedVars, client, server, backlog, permits, toCallee, toCaller, role,
                     context, negotiated, done>>
  PROVE  AssociationIInv'
<1>1. ASSUME NEW q \in Peers PROVE Dialogue(q)' /\ Admission(q)'
  <2>1. Dialogue(q) /\ Admission(q)
    BY DEF AssociationIInv
  <2>2. Dialogue(q)'
    BY <2>1, DialogueGoesOn DEF Dialogue
  <2>3. Admission(q)'
    BY <2>1, AdmissionStays DEF Admission
  <2> QED BY <2>2, <2>3
<1>2. Busy' = Busy
  BY DEF Busy
<1>3. PermitsAddUp' /\ BacklogWaits'
  BY <1>2 DEF AssociationIInv, PermitsAddUp, BacklogWaits
<1>4. IsSetup(policy, source, offer)' /\ ArePerPeer'
  BY DEF AssociationIInv, ArePerPeer, PeersOnly, fixedVars
<1> QED BY <1>1, <1>3, <1>4 DEF AssociationIInv

-----------------------------------------------------------------------------
LEMMA AssociationStarts ==
  ASSUME AssociationInit
  PROVE  AssociationIInv
<1>1. IsSetup(policy, source, offer)
  BY DEF AssociationInit
<1>2. ArePerPeer
  BY DEF AssociationInit, ArePerPeer, PeersOnly
<1>3. /\ \A p \in Peers : server[p] = "none"
      /\ backlog = <<>> /\ permits = MaxConnections
  BY DEF AssociationInit
<1>4. PermitsAddUp
  <2>1. Busy = {}
    BY <1>3 DEF Busy, Served
  <2>2. IsFiniteSet(Busy) /\ Cardinality(Busy) = 0
    BY <2>1, FS_EmptySet
  <2> QED BY <1>3, <2>2 DEF PermitsAddUp
<1>5. BacklogWaits
  BY <1>3 DEF BacklogWaits
<1>6. ASSUME NEW p \in Peers PROVE Dialogue(p) /\ Admission(p)
  <2>1. /\ client[p] = (IF p \in DOMAIN offer THEN "new" ELSE "gone")
        /\ toCallee[p] = <<>> /\ toCaller[p] = <<>> /\ done[p] = {}
        /\ negotiated[p] = 0 /\ idle[p] = 0
    BY DEF AssociationInit
  <2>2. Dialogue(p)
    BY <1>3, <2>1 DEF Dialogue, NothingOrOneOf, ClientStates, ServerStates
  <2>3. Admission(p)
    BY <1>3, <2>1 DEF Admission
  <2> QED BY <2>2, <2>3
<1> QED BY <1>1, <1>2, <1>4, <1>5, <1>6 DEF AssociationIInv

LEMMA AssociationStepKeepsIInv ==
  ASSUME AssociationIInv, [AssociationNext]_associationVars
  PROVE  AssociationIInv'
<1>1. ASSUME NEW p \in Peers,
             \/ ReadConfirm(p) \/ ReadAccept(p) \/ ReadData(p) \/ \E a \in Asked : AskFor(p, a)
             \/ Conclude(p) \/ LeavePeer(p) \/ FallSilent(p)
      PROVE  AssociationIInv'
  BY <1>1, PeerStepKeepsIInv
<1>2. ASSUME NEW p \in Peers, Admit(p) \/ ServerGoesOn(p) \/ EndOfStream(p) \/ Timeouts(p)
      PROVE  AssociationIInv'
  BY <1>2, ServerStepKeepsIInv
<1>3. ASSUME NEW p \in Peers, Connect(p) PROVE AssociationIInv'
  BY <1>3, ConnectKeepsIInv
<1>4. CASE AcceptSocket
  BY <1>4, AcceptSocketKeepsIInv
<1>5. \A q \in Peers : idle[q] \in 0..IdlePeriods
  BY DEF AssociationIInv, Admission
<1>6. CASE ValueChange
  <2>1. idle' = [p \in Peers |-> IF p \in Woken THEN 0 ELSE idle[p]]
    BY <1>6 DEF ValueChange
  <2>2. PeersOnly(idle)'
    BY <2>1 DEF PeersOnly
  <2>3. \A q \in Peers : idle'[q] \in 0..IdlePeriods
    BY <1>5, <2>1
  <2> QED BY <1>6, <2>2, <2>3, IdlingKeepsIInv DEF ValueChange
<1>7. CASE IdleTick
  <2>1. idle' = [p \in Peers |-> IF server[p] = "up" THEN idle[p] + 1 ELSE idle[p]]
    BY <1>7 DEF IdleTick
  <2>2. PeersOnly(idle)'
    BY <2>1 DEF PeersOnly
  <2>3. ASSUME NEW q \in Peers PROVE idle'[q] \in 0..IdlePeriods
    <3>1. server[q] = "up" => idle[q] < IdlePeriods
      BY <1>7 DEF IdleTick, Looping
    <3> QED BY <1>5, <2>1, <3>1
  <2> QED BY <1>7, <2>2, <2>3, IdlingKeepsIInv DEF IdleTick
<1>8. CASE UNCHANGED associationVars
  <2>1. PeersOnly(idle)' /\ \A q \in Peers : idle'[q] \in 0..IdlePeriods
    BY <1>5, <1>8 DEF associationVars, AssociationIInv, ArePerPeer, PeersOnly
  <2>2. UNCHANGED <<fixedVars, client, server, backlog, permits, toCallee, toCaller, role,
                    context, negotiated, done>>
    BY <1>8 DEF associationVars, fixedVars
  <2> QED BY <2>1, <2>2, IdlingKeepsIInv
<1> QED BY <1>1, <1>2, <1>3, <1>4, <1>6, <1>7, <1>8 DEF AssociationNext

(* Whatever the peers offer and ask for, and however they come, stop and    *)
(* go: they take turns with the server, the permits add up with the         *)
(* connections served, and nobody is served who was not let in.             *)
THEOREM AssociationInvariance == AssociationSpec => []AssociationIInv
<1>1. AssociationInit => AssociationIInv
  BY AssociationStarts
<1>2. AssociationIInv /\ [AssociationNext]_associationVars => AssociationIInv'
  BY AssociationStepKeepsIInv
<1> QED BY <1>1, <1>2, PTL DEF AssociationSpec

(* Every variable has its type, no more connections are served than may be, *)
(* and at most one message is under way between a peer and the server.      *)
THEOREM AssociationTypeCorrect == AssociationSpec => []AssociationTypeOK
<1>1. ASSUME AssociationIInv PROVE AssociationTypeOK
  <2>1. permits \in 0..MaxConnections
    <3>1. /\ permits \in Nat /\ permits + Cardinality(Busy) = MaxConnections
          /\ Cardinality(Busy) \in Nat
      BY <1>1, FS_CardinalityType DEF AssociationIInv, PermitsAddUp
    <3> QED BY <3>1
  <2>2. ASSUME NEW p \in Peers PROVE Len(toCallee[p]) + Len(toCaller[p]) <= 1
    <3>1. ASSUME NEW S, NEW s \in NothingOrOneOf(S) PROVE Len(s) = 0 \/ Len(s) = 1
      <4>1. CASE s = <<>>
        BY <4>1
      <4>2. CASE s # <<>>
        <5>1. PICK m \in S : s = <<m>>
          BY <3>1, <4>2 DEF NothingOrOneOf
        <5> QED BY <5>1
      <4> QED BY <4>1, <4>2
    <3>2. /\ toCallee[p] \in NothingOrOneOf(ToServerOf(p))
          /\ toCaller[p] \in NothingOrOneOf(ToClientOf(p))
          /\ toCallee[p] = <<>> \/ toCaller[p] = <<>>
      BY <1>1 DEF AssociationIInv, Dialogue
    <3>3. /\ Len(toCallee[p]) = 0 \/ Len(toCallee[p]) = 1
          /\ Len(toCaller[p]) = 0 \/ Len(toCaller[p]) = 1
      BY <3>1, <3>2
    <3>4. Len(toCallee[p]) = 0 \/ Len(toCaller[p]) = 0
      <4>1. \A s : s = <<>> => Len(s) = 0
        OBVIOUS
      <4> QED BY <3>2, <4>1
    <3>5. \A m, n : (m = 0 \/ m = 1) /\ (n = 0 \/ n = 1) /\ (m = 0 \/ n = 0) => m + n <= 1
      OBVIOUS
    <3> QED BY <3>3, <3>4, <3>5
  <2>3. \A p \in Peers : idle[p] \in 0..IdlePeriods /\ negotiated[p] \in 0..10
    BY <1>1 DEF AssociationIInv, Admission
  <2> QED BY <2>1, <2>2, <2>3 DEF AssociationTypeOK
<1> QED BY <1>1, AssociationInvariance, PTL

-----------------------------------------------------------------------------
(* What an entry of the policy grants is what stands at the first entry     *)
(* under the name.                                                          *)
LEMMA RoleInIsOfAnEntry ==
  ASSUME NEW list, Len(list) \in Nat, DOMAIN list = 1..Len(list), NEW name,
         RoleIn(list, name) # NoRole
  PROVE  \E i \in DOMAIN list : list[i].name = name /\ list[i].role = RoleIn(list, name)
<1> DEFINE at == {i \in DOMAIN list : list[i].name = name}
           i == Min(at)
<1>1. at # {} /\ RoleIn(list, name) = list[i].role
  BY DEF RoleIn
<1>2. i \in at
  <2>1. at \in SUBSET Nat
    OBVIOUS
  <2> HIDE DEF at
  <2> QED BY <1>1, <2>1, MinIsIn
<1> HIDE DEF i
<1> QED BY <1>1, <1>2

(* A peer that holds itself associated, or for which the server did         *)
(* something, has credentials that were good, and is entitled to what was   *)
(* done: authorization cannot be had by any order of messages, timeouts and *)
(* losses.                                                                  *)
THEOREM AssociatedAreAdmitted == AssociationSpec => []AssociatedIsAdmitted
<1>1. ASSUME AssociationIInv PROVE AssociatedIsAdmitted
  <2>1. IsSetup(policy, source, offer)
    BY <1>1 DEF AssociationIInv
  <2>2. ASSUME NEW p \in Peers, client[p] = "up" \/ done[p] # {}
        PROVE  Admissible(p) /\ Entitles(Granted(p), p)
    BY <1>1, <2>2 DEF AssociationIInv, Admission, Entitles
  <2>3. ASSUME NEW p \in Peers, Admissible(p), Tls
        PROVE  /\ offer[p].cert.trusted /\ offer[p].cert.from <= Clock /\ Clock < offer[p].cert.to
               /\ offer[p].cert.serial \notin source.revoked
    <3>1. CertificateOk(offer[p].cert) /\ offer[p].cert.trusted
      BY <2>3 DEF Admissible, Trusted, Granted
    <3> QED BY <2>1, <3>1 DEF CertificateOk, RevocationOk, IsSetup
  <2>4. ASSUME NEW p \in Peers, Admissible(p), Entitles(Granted(p), p)
        PROVE  LET o == offer[p] IN
               CASE policy.kind = "token" ->
                      /\ o.auth.genuine /\ o.auth.from <= Clock /\ Clock < o.auth.to
                      /\ Entitles(o.auth.role, p)
                 [] policy.kind = "passwords" ->
                      \E i \in DOMAIN policy.list : /\ policy.list[i].name = o.auth.name
                                                    /\ Entitles(policy.list[i].role, p)
                 [] policy.kind = "certificates" ->
                      Tls /\ \E i \in DOMAIN policy.list :
                               /\ policy.list[i].name = o.cert.name
                               /\ Entitles(policy.list[i].role, p)
                 [] OTHER -> TRUE
    <3>1. Granted(p) = Authorize(offer[p]) /\ Authorize(offer[p]) # NoRole
      BY <2>4 DEF Admissible, Granted
    <3>2. Len(policy.list) \in Nat /\ DOMAIN policy.list = 1..Len(policy.list)
      BY <2>1 DEF IsSetup, IsOffer
    <3>3. CASE policy.kind = "token"
      <4>1. ValidToken(offer[p].auth) /\ Granted(p) = offer[p].auth.role
        BY <3>1, <3>3 DEF Authorize
      <4> QED BY <2>4, <3>3, <4>1 DEF ValidToken
    <3>4. CASE policy.kind = "passwords"
      <4>1. /\ Granted(p) = RoleIn(policy.list, offer[p].auth.name)
            /\ RoleIn(policy.list, offer[p].auth.name) # NoRole
        BY <3>1, <3>4 DEF Authorize
      <4>2. \E i \in DOMAIN policy.list :
              /\ policy.list[i].name = offer[p].auth.name
              /\ policy.list[i].role = RoleIn(policy.list, offer[p].auth.name)
        BY <3>2, <4>1, RoleInIsOfAnEntry
      <4> QED BY <2>4, <3>4, <4>1, <4>2
    <3>5. CASE policy.kind = "certificates"
      <4>1. /\ Tls /\ Granted(p) = RoleIn(policy.list, offer[p].cert.name)
            /\ RoleIn(policy.list, offer[p].cert.name) # NoRole
        BY <3>1, <3>5 DEF Authorize
      <4>2. \E i \in DOMAIN policy.list :
              /\ policy.list[i].name = offer[p].cert.name
              /\ policy.list[i].role = RoleIn(policy.list, offer[p].cert.name)
        BY <3>2, <4>1, RoleInIsOfAnEntry
      <4> QED BY <2>4, <3>5, <4>1, <4>2
    <3>6. CASE policy.kind \notin {"token", "passwords", "certificates"}
      BY <3>6
    <3> QED BY <3>3, <3>4, <3>5, <3>6
  <2>5. ASSUME NEW p \in Peers, client[p] = "up" PROVE negotiated[p] <= offer[p].outstanding
    <3>1. negotiated[p] = AtMostTen(offer[p].outstanding) /\ offer[p].outstanding \in Nat
      BY <1>1, <2>1, <2>5 DEF AssociationIInv, Admission, Accepted, Admissible, Usable, IsSetup, IsOffer
    <3> QED BY <3>1 DEF AtMostTen
  <2> QED BY <2>2, <2>3, <2>4, <2>5 DEF AssociatedIsAdmitted
<1> QED BY <1>1, AssociationInvariance, PTL

(* Whatever contexts a client proposes, and in whatever order, data goes to *)
(* it only under one that it proposed for MMS with BER, and that the ACCEPT *)
(* granted.                                                                 *)
THEOREM DataGoUnderAgreedContexts == AssociationSpec => []DataUnderAgreedContext
<1>1. ASSUME AssociationIInv PROVE DataUnderAgreedContext
  <2> SUFFICES ASSUME NEW p \in Peers, NEW i \in DOMAIN toCaller[p],
                      toCaller[p][i].kind = "data", offer[p].parses
               PROVE  \E j \in DOMAIN offer[p].contexts :
                        /\ offer[p].contexts[j] =
                             [id |-> toCaller[p][i].context, syntax |-> "mms", ber |-> TRUE]
                        /\ CpaResults(offer[p])[j] = "acceptance"
    BY DEF DataUnderAgreedContext
  <2>1. toCaller[p][i] \in ToClientOf(p)
    <3>1. toCaller[p] \in NothingOrOneOf(ToClientOf(p))
      BY <1>1 DEF AssociationIInv, Dialogue
    <3>2. PICK m \in ToClientOf(p) : toCaller[p] = <<m>>
      BY <3>1 DEF NothingOrOneOf
    <3> QED BY <3>2
  <2>2. Admissible(p) /\ toCaller[p][i].context = MmsContext(offer[p])[1]
    BY <2>1 DEF ToClientOf, Message, AcceptOf, DataTo
  <2>3. AcceptedId(offer[p].contexts, "mms") # <<>> /\ MmsContext(offer[p]) = AcceptedId(offer[p].contexts, "mms")
    BY <2>2 DEF Admissible, Usable, Unusable, MmsContext
  <2>4. offer[p].contexts \in Seq(ContextProposal)
    BY <1>1, <2>2 DEF AssociationIInv, IsSetup, IsOffer, Admissible, Usable
  <2>5. CpaResults(offer[p]) = Verdicts(offer[p].contexts)
    BY DEF CpaResults
  <2>6. PICK j \in DOMAIN offer[p].contexts :
          /\ offer[p].contexts[j] =
               [id |-> AcceptedId(offer[p].contexts, "mms")[1], syntax |-> "mms", ber |-> TRUE]
          /\ Verdicts(offer[p].contexts)[j] = "acceptance"
    BY <2>3, <2>4, AcceptedIsProposed
  <2>7. toCaller[p][i].context = AcceptedId(offer[p].contexts, "mms")[1]
    BY <2>2, <2>3
  <2> QED BY <2>5, <2>6, <2>7
<1> QED BY <1>1, AssociationInvariance, PTL
=============================================================================
