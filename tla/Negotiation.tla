----------------------------- MODULE Negotiation -----------------------------
(***************************************************************************)
(* What the two ends of an association agree upon: the presentation        *)
(* contexts (presentation.rs) and the numbers of the Initiate              *)
(* (initiate.rs). A context is its identifier, its abstract syntax, and    *)
(* whether BER is among its transfer syntaxes.                             *)
(***************************************************************************)
EXTENDS Integers, Sequences, FiniteSetsExt

(* connect_cp: the contexts that the client of this repository proposes.    *)
OwnContexts == <<[id |-> 1, syntax |-> "acse", ber |-> TRUE],
                 [id |-> 3, syntax |-> "mms", ber |-> TRUE]>>

(* ProposedContext; every other abstract syntax is the same to this code.   *)
ContextProposal == [id : Int, syntax : {"acse", "mms", "other"}, ber : BOOLEAN]

(* negotiate: a verdict on each context, in the order of the proposal.      *)
Verdict(c) ==
  CASE c.syntax \notin {"acse", "mms"} -> "abstract-syntax-not-supported"
    [] c.syntax \in {"acse", "mms"} /\ ~c.ber -> "transfer-syntaxes-not-supported"
    [] OTHER -> "acceptance"
Verdicts(contexts) == [i \in DOMAIN contexts |-> Verdict(contexts[i])]

(* The first context of a syntax, and the first accepted one, as a sequence *)
(* that is empty without one.                                               *)
IdAt(contexts, places) == IF places = {} THEN <<>> ELSE <<contexts[Min(places)].id>>
ProposedId(contexts, syntax) ==
  IdAt(contexts, {i \in DOMAIN contexts : contexts[i].syntax = syntax})
AcceptedId(contexts, syntax) ==
  IdAt(contexts, {i \in DOMAIN contexts : /\ contexts[i].syntax = syntax
                                          /\ Verdict(contexts[i]) = "acceptance"})

(* InitiateResponse::accept: no more than ten of anything.                  *)
AtMostTen(n) == IF n < 10 THEN n ELSE 10
=============================================================================
