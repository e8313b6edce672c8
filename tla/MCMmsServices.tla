---------------------------- MODULE MCMmsServices ----------------------------
(* Instances of the services of an association for TLC.                     *)
EXTENDS MmsServices, MCDialogue, TLC

CONSTANTS i1, i2, i3, o1, o2

(* A data set with a leaf and a data object of two leaves.                  *)
LeafAndObject == <<{i1}, {i2, i3}>>

(* A leaf, which has an item of the data object after it for itself.        *)
LeafOfObject == <<{i1}, {i1, i2}>>

(* An object with selection and enhanced security, and a direct one with    *)
(* normal security whose items end with those of the first. They are open   *)
(* to all; or the first is blocked, the second has no status and the role   *)
(* may not read.                                                            *)
ModelOf == o1 :> 4 @@ o2 :> 1
Ctl == <<"CSWI1", "CO", "Pos">>
EndingAlike == o1 :> Ctl @@ o2 :> <<"Q1">> \o Ctl
SiteOf(blocked, absent, rights) == [blocked |-> blocked, absent |-> absent, rights |-> rights]
TwoSites == {SiteOf({}, {}, Rights), SiteOf({o1}, {o2}, {"CONTROL"})}

(* Credentials and certificates at the time 5.                              *)
NoAuth == [name |-> "", genuine |-> FALSE, from |-> 0, to |-> 0, role |-> {}]
Password(n) == [NoAuth EXCEPT !.name = n]
TokenOf(genuine, to) == [name |-> "", genuine |-> genuine, from |-> 1, to |-> to, role |-> Viewer]
Cert(name, trusted, to, serial) ==
  [name |-> name, trusted |-> trusted, from |-> 1, to |-> to, serial |-> serial]
GoodCert == Cert("operator", TRUE, 9, 1)
Certs == {GoodCert, Cert("operator", FALSE, 9, 1), Cert("viewer", TRUE, 3, 1),
          Cert("operator", TRUE, 9, 2), Cert("viewer", TRUE, 9, 3)}

(* The contexts of other clients: in another order, with one that only      *)
(* other transfer syntaxes have, without MMS; a CP that does not parse.     *)
Swapped == <<OwnContexts[2], OwnContexts[1]>>
TwoForMms == <<[id |-> 1, syntax |-> "acse", ber |-> TRUE],
               [id |-> 3, syntax |-> "mms", ber |-> FALSE],
               [id |-> 7, syntax |-> "mms", ber |-> TRUE]>>
WithoutMms == <<[id |-> 5, syntax |-> "other", ber |-> TRUE]>>

OfferOf(auth, cert, contexts, parses, outstanding) ==
  [auth |-> auth, cert |-> cert, contexts |-> contexts, parses |-> parses,
   outstanding |-> outstanding]
OwnOffer(auth, cert) == OfferOf(auth, cert, OwnContexts, TRUE, 10)
OtherClients ==
  {OfferOf(NoAuth, GoodCert, x, TRUE, 3) : x \in {Swapped, TwoForMms, WithoutMms}}
    \cup {OfferOf(NoAuth, GoodCert, OwnContexts, FALSE, 20)}

Entry(name, permissions) == [name |-> name, role |-> permissions]
PolicyOf(kind) ==
  [kind |-> kind, tls |-> kind # "none",
   list |-> <<Entry("op", Operator), Entry("operator", Engineer), Entry("viewer", Viewer),
              Entry("op", Engineer)>>]
SourceOf(kind, next) ==
  [kind |-> kind, next |-> next, revoked |-> IF kind = "none" THEN {} ELSE {2},
   good |-> IF kind = "ocsp" THEN {1} ELSE {}]

Setup(kind, from, offers) == [policy |-> PolicyOf(kind), source |-> from, offer |-> offers]
Alone(kind, from, o) == Setup(kind, from, <<o>>)
WithCert(from, c) == Alone("certificates", from, OwnOffer(NoAuth, c))
TwoOf(kind, from, c) == Setup(kind, from, <<OwnOffer(NoAuth, c), OwnOffer(NoAuth, GoodCert)>>)
AllSetups ==
  {Alone("none", SourceOf("none", 0), o) : o \in OtherClients}
  \cup {Alone("token", SourceOf("ocsp", 9), OwnOffer(t, GoodCert)) :
          t \in {TokenOf(TRUE, 9), TokenOf(TRUE, 3), TokenOf(FALSE, 9)}}
  \cup {Alone("passwords", SourceOf("crl", 9), OwnOffer(Password(n), GoodCert)) :
          n \in {"op", "none"}}
  \cup {WithCert(SourceOf(k, 9), c) : k \in {"ocsp", "crl"}, c \in Certs}
  \cup {WithCert(SourceOf(k, 3), GoodCert) : k \in {"crl", "ocsp"}}
  \cup {TwoOf("certificates", SourceOf("ocsp", 9), Cert("viewer", TRUE, 9, 1))}
TwoSetups ==
  {TwoOf("certificates", SourceOf("ocsp", 9), Cert("operator", FALSE, 9, 1)),
   TwoOf("none", SourceOf("none", 0), GoodCert)}

Requests ==
  {[do |-> "read", fc |-> "SE"], [do |-> "write", fc |-> "CO"], [do |-> "fileWrite", fc |-> "-"]}
FewRequests == {[do |-> "write", fc |-> "CO"]}
=============================================================================
