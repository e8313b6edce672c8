---------------------------- MODULE GoosePublisher ----------------------------
(***************************************************************************)
(* GOOSE publishers (iec61850-goose, publisher.rs).  A publisher sends the *)
(* values of its control block when they change and then again and again,  *)
(* at intervals that double from TMin to TMax.  stNum counts the states,   *)
(* sqNum the frames of a state; both wrap.  A frame says how long it may   *)
(* be taken for current (timeAllowedToLive).                               *)
(*                                                                         *)
(* Time counts in ticks.  What a frame does on its way is in Goose.        *)
(***************************************************************************)
EXTENDS GooseNumbers, Sequences

CONSTANTS
  Publishers,  \* publishers, each of one control block
  Values,      \* what the data set may hold
  TMin, TMax,  \* GooseConfig::t_min and t_max
  InboxSize    \* capacity of the channel values_tx: 16

ASSUME PublisherAssumption ==
  /\ TMin \in Nat \ {0} /\ TMax \in Nat \ {0}
  /\ InboxSize \in Nat \ {0}

VARIABLES
  pub,     \* the variables of each publisher's task (run)
  inbox,   \* values handed to publish() and not yet taken
  version  \* history: version[p]: how many states publisher p has had

publisherVars == <<pub, inbox, version>>

NoValues == "no values yet"

Fresh == [started |-> FALSE, stNum |-> 1, sqNum |-> 0, values |-> NoValues,
          interval |-> TMin, timer |-> TMin]

PublisherInit ==
  /\ pub = [p \in Publishers |-> Fresh]
  /\ inbox = [p \in Publishers |-> <<>>]
  /\ version = [p \in Publishers |-> 0]

Smaller(m, n) == IF m < n THEN m ELSE n

(* The frame that a publisher in state s sends.  `version' and `nth', the   *)
(* number of the frame, are no part of it: they serve the properties.       *)
Frame(p, s, v, n) ==
  [src |-> p, stNum |-> s.stNum, sqNum |-> s.sqNum, ttl |-> 2 * s.interval,
   values |-> s.values, version |-> v, nth |-> n]

(* publish() waits while the channel is full.                               *)
Publish(p, v) ==
  /\ Len(inbox[p]) < InboxSize
  /\ inbox' = [inbox EXCEPT ![p] = Append(@, v)]
  /\ UNCHANGED <<pub, version>>

(* The same values again are not a change.                                  *)
IgnoreValues(p) ==
  /\ inbox[p] # <<>>
  /\ pub[p].started /\ Head(inbox[p]) = pub[p].values
  /\ inbox' = [inbox EXCEPT ![p] = Tail(@)]
  /\ UNCHANGED <<pub, version>>

(* stNum 0 is reserved.                                                     *)
NextStNum(s) ==
  IF ~s.started THEN s.stNum
  ELSE IF Wrapping(s.stNum) = 0 THEN 1 ELSE Wrapping(s.stNum)

Changed(s, v) ==
  [started |-> TRUE, stNum |-> NextStNum(s), sqNum |-> 0, values |-> v,
   interval |-> TMin, timer |-> TMin]

ChangeState(p) ==
  /\ inbox[p] # <<>>
  /\ ~(pub[p].started /\ Head(inbox[p]) = pub[p].values)
  /\ inbox' = [inbox EXCEPT ![p] = Tail(@)]
  /\ pub' = [pub EXCEPT ![p] = Changed(@, Head(inbox[p]))]
  /\ version' = [version EXCEPT ![p] = @ + 1]

(* Slip: the interval doubles without end.                                  *)
RetransmittedUncapped(s) ==
  LET interval == 2 * s.interval
  IN  [s EXCEPT !.sqNum = Wrapping(@), !.interval = interval, !.timer = interval]

Retransmitted(s) ==
  LET interval == Smaller(2 * s.interval, TMax)
  IN  [s EXCEPT !.sqNum = Wrapping(@), !.interval = interval, !.timer = interval]

Due(p) == pub[p].started /\ pub[p].timer = 0

Retransmit(p) ==
  /\ Due(p)
  /\ pub' = [pub EXCEPT ![p] = Retransmitted(@)]
  /\ UNCHANGED <<inbox, version>>

(* The publisher is stopped, or its IED restarts, and another one starts.   *)
RestartPublisher(p) ==
  /\ pub[p].started
  /\ pub' = [pub EXCEPT ![p] = Fresh]
  /\ inbox' = [inbox EXCEPT ![p] = <<>>]
  /\ UNCHANGED version

(* A tick of every timer that runs.                                         *)
PublisherTick ==
  /\ \A p \in Publishers : ~Due(p)
  /\ pub' = [p \in Publishers |->
               IF pub[p].started THEN [pub[p] EXCEPT !.timer = @ - 1] ELSE pub[p]]
  /\ UNCHANGED <<inbox, version>>
=============================================================================
