----------------------------- MODULE Goose_proofs -----------------------------
(***************************************************************************)
(* Proofs about GOOSE, for any number of publishers and blocks, any values *)
(* of TMin and TMax, channels, sockets and counters of any size, and any   *)
(* number of frames lost or doubled and of restarts.                       *)
(*                                                                         *)
(* The argument goes from the types to what the numbers of a frame say     *)
(* (Sources, Told), from there to what the events say (EventsTell), and,   *)
(* where nothing is lost, to the time that is left for a block (Calm).     *)
(***************************************************************************)
EXTENDS Goose, FiniteSetTheorems, SequenceTheorems, TLAPS

-----------------------------------------------------------------------------
(* What publishers, frames, tracks and events may be.                      *)
PublisherStates ==
  [started : BOOLEAN, stNum : 1..Counters - 1, sqNum : 0..Counters - 1,
   values : Values \cup {NoValues}, interval : 1..LongestInterval, timer : Nat]
Frames ==
  [src : Publishers, stNum : 1..Counters - 1, sqNum : 0..Counters - 1,
   ttl : 2..2 * LongestInterval, values : Values \cup {NoValues}, version : Nat \ {0}, nth : Nat]
Tracks == [stNum : 1..Counters - 1, sqNum : 0..Counters - 1, left : 0..2 * LongestInterval]
Marks == [version : Nat, nth : Nat]
Reports ==
  [kind : {"StateChange", "Retransmission", "LossSuspected", "AuthFailed"}, block : Blocks,
   frame : Frames, before : Marks]
Expirations == [kind : {"Expired"}, block : Blocks]

PublishersTyped ==
  /\ pub \in [Publishers -> PublisherStates]
  /\ version \in [Publishers -> Nat]
  /\ \A p \in Publishers : /\ pub[p].timer <= pub[p].interval
                           /\ pub[p].started => version[p] > 0
  /\ inbox \in [Publishers -> Seq(Values)]
  /\ \A p \in Publishers : Len(inbox[p]) <= InboxSize
SubscriberTyped ==
  /\ tracks \in [Blocks -> Tracks \cup {NoTrack}]
  /\ reported \in [Blocks -> Marks]
  /\ simMode \in BOOLEAN /\ latched \subseteq Blocks
  /\ events \in Seq(Reports \cup Expirations)
  /\ Len(events) <= EventCapacity + Cardinality(Blocks)
NetTyped ==
  /\ wire \in Seq(Frames) /\ Len(wire) <= WireSize
  /\ faults \in Nat /\ restarts \in Nat /\ frames \in Nat /\ prompt \in BOOLEAN

Typed == PublishersTyped /\ SubscriberTyped /\ NetTyped

-----------------------------------------------------------------------------
(* Numbers and times.                                                      *)
LEMMA WrappingIsTyped ==
  ASSUME NEW n \in Nat
  PROVE  /\ Wrapping(n) \in 0..Counters - 1
         /\ n + 1 < Counters => Wrapping(n) = n + 1
<1>1. Counters \in Nat \ {0}
  BY CountersAssumption
<1>2. \A x \in Nat, w \in Nat \ {0} : x % w \in 0..w - 1 /\ (x < w => x % w = x)
  OBVIOUS
<1>3. n + 1 \in Nat
  OBVIOUS
<1> QED BY <1>1, <1>2, <1>3 DEF Wrapping

LEMMA Intervals ==
  /\ LongestInterval \in Nat \ {0} /\ TMin \in 1..LongestInterval /\ TMax \in 1..LongestInterval
  BY PublisherAssumption DEF LongestInterval

LEMMA FreshIsTyped == Fresh \in PublisherStates
<1>1. 1 \in 1..Counters - 1 /\ 0 \in 0..Counters - 1
  BY CountersAssumption
<1>2. TMin \in 1..LongestInterval /\ TMin \in Nat
  BY Intervals
<1> QED BY <1>1, <1>2 DEF Fresh, PublisherStates

LEMMA ChangedIsTyped ==
  ASSUME NEW s \in PublisherStates, NEW v \in Values
  PROVE  /\ Changed(s, v) \in PublisherStates
         /\ Changed(s, v).timer = Changed(s, v).interval /\ Changed(s, v).sqNum = 0
         /\ Changed(s, v).started
<1>1. s.stNum \in 1..Counters - 1 /\ s.stNum \in Nat
  BY DEF PublisherStates
<1>2. NextStNum(s) \in 1..Counters - 1
  <2>1. PICK n \in 0..Counters - 1 : n = Wrapping(s.stNum)
    BY <1>1, WrappingIsTyped
  <2>2. 1 \in 1..Counters - 1
    BY CountersAssumption
  <2>3. n # 0 => n \in 1..Counters - 1
    BY CountersAssumption
  <2> QED BY <1>1, <2>1, <2>2, <2>3 DEF NextStNum
<1>3. 0 \in 0..Counters - 1
  BY CountersAssumption
<1>4. TMin \in 1..LongestInterval /\ TMin \in Nat
  BY Intervals
<1> QED BY <1>2, <1>3, <1>4 DEF Changed, PublisherStates

LEMMA RetransmittedIsTyped ==
  ASSUME NEW s \in PublisherStates
  PROVE  /\ Retransmitted(s) \in PublisherStates
         /\ Retransmitted(s).timer = Retransmitted(s).interval
         /\ Retransmitted(s).sqNum = Wrapping(s.sqNum)
         /\ Retransmitted(s).stNum = s.stNum /\ Retransmitted(s).started = s.started
<1>1. PICK q \in 0..Counters - 1 : q = Wrapping(s.sqNum)
  <2>1. s.sqNum \in Nat
    BY DEF PublisherStates
  <2> QED BY <2>1, WrappingIsTyped
<1>2. PICK i \in 1..LongestInterval : i = Smaller(2 * s.interval, TMax)
  <2>1. s.interval \in 1..LongestInterval /\ LongestInterval \in Nat /\ TMax \in 1..LongestInterval
    BY Intervals DEF PublisherStates
  <2> QED BY <2>1 DEF Smaller
<1>3. Retransmitted(s) = [s EXCEPT !.sqNum = q, !.interval = i, !.timer = i]
  BY <1>1, <1>2 DEF Retransmitted
<1>4. i \in Nat
  OBVIOUS
<1>5. Retransmitted(s) \in PublisherStates
  BY <1>3, <1>4 DEF PublisherStates
<1> QED BY <1>1, <1>3, <1>5 DEF PublisherStates

LEMMA FrameIsTyped ==
  ASSUME NEW p \in Publishers, NEW s \in PublisherStates, NEW v \in Nat \ {0}, NEW n \in Nat
  PROVE  Frame(p, s, v, n) \in Frames
<1>1. 2 * s.interval \in 2..2 * LongestInterval
  <2>1. s.interval \in 1..LongestInterval /\ LongestInterval \in Nat
    BY Intervals DEF PublisherStates
  <2> QED BY <2>1
<1> QED BY <1>1 DEF Frame, Frames, PublisherStates

(* A track is told from none.                                              *)
LEMMA TrackIsNone == ASSUME NEW t \in Tracks PROVE t # NoTrack
<1>1. "stNum" \in DOMAIN t
  BY DEF Tracks
<1>2. "stNum" \notin DOMAIN NoTrack
  BY DEF NoTrack
<1> QED BY <1>1, <1>2

-----------------------------------------------------------------------------
(* What the steps do.                                                      *)

(* Publisher p is in state s now and has sent a frame of it, which the     *)
(* socket of the subscriber may have dropped.                              *)
Sent(p, s) ==
  /\ pub' = [pub EXCEPT ![p] = s] /\ pub'[p] = s
  /\ frames < MaxFrames /\ frames' = frames + (IF MaxFrames < Counters THEN 1 ELSE 0)
  /\ \/ /\ Len(wire) < WireSize /\ UNCHANGED faults
        /\ wire' = Append(wire, Frame(p, s, version'[p], frames'))
     \/ faults' = faults + 1 /\ UNCHANGED wire
  /\ UNCHANGED <<subscriberVars, restarts, prompt, simSeen>>

LEMMA StateIsSent ==
  ASSUME Typed, NEW p \in Publishers, SendState(p)
  PROVE  \E v \in Values :
           /\ Sent(p, Changed(pub[p], v)) /\ Changed(pub[p], v) \in PublisherStates
           /\ version' = [version EXCEPT ![p] = @ + 1] /\ version'[p] = version[p] + 1
           /\ inbox' = [inbox EXCEPT ![p] = Tail(@)] /\ inbox[p] # <<>>
<1>1. pub \in [Publishers -> PublisherStates] /\ version \in [Publishers -> Nat]
      /\ inbox \in [Publishers -> Seq(Values)]
  BY DEF Typed, PublishersTyped
<1>2. /\ inbox[p] # <<>> /\ inbox' = [inbox EXCEPT ![p] = Tail(@)]
      /\ pub' = [pub EXCEPT ![p] = Changed(@, Head(inbox[p]))]
      /\ version' = [version EXCEPT ![p] = @ + 1]
      /\ Transmit(p)
  BY DEF SendState, ChangeState
<1>3. PICK v \in Values : v = Head(inbox[p])
  <2>1. inbox[p] \in Seq(Values)
    BY <1>1
  <2> QED BY <1>2, <2>1, HeadTailProperties
<1>4. pub[p] \in PublisherStates
  BY <1>1
<1>5. PICK s \in PublisherStates : s = Changed(pub[p], v)
  BY <1>4, ChangedIsTyped
<1>6. pub' = [pub EXCEPT ![p] = s] /\ pub'[p] = s
  BY <1>1, <1>2, <1>3, <1>5
<1>7. version'[p] = version[p] + 1
  BY <1>1, <1>2
<1>8. Sent(p, s)
  BY <1>2, <1>6 DEF Transmit, Sent
<1> QED BY <1>2, <1>5, <1>7, <1>8

LEMMA StateIsRepeated ==
  ASSUME Typed, NEW p \in Publishers, SendAgain(p)
  PROVE  /\ Sent(p, Retransmitted(pub[p])) /\ Retransmitted(pub[p]) \in PublisherStates
         /\ pub[p].started /\ pub[p].timer = 0
         /\ UNCHANGED <<inbox, version>>
<1>1. pub \in [Publishers -> PublisherStates]
  BY DEF Typed, PublishersTyped
<1>2. /\ pub[p].started /\ pub[p].timer = 0
      /\ pub' = [pub EXCEPT ![p] = Retransmitted(@)]
      /\ UNCHANGED <<inbox, version>>
      /\ Transmit(p)
  BY DEF SendAgain, Retransmit, Due
<1>3. pub[p] \in PublisherStates
  BY <1>1
<1>4. PICK s \in PublisherStates : s = Retransmitted(pub[p])
  BY <1>3, RetransmittedIsTyped
<1>5. pub' = [pub EXCEPT ![p] = s] /\ pub'[p] = s
  BY <1>1, <1>2, <1>4
<1>6. Sent(p, s)
  BY <1>2, <1>5 DEF Transmit, Sent
<1> QED BY <1>2, <1>4, <1>6

(* Frame f is taken, of block b, or is not, and then the block is latched  *)
(* at most and the application told at most that it does not verify.       *)
IsTaken(f, b) ==
  /\ f.src \notin Unverified /\ ~Blocked
  /\ Taken(b, f.src \in Simulated)
  /\ latched' = LatchedAfter(b, f.src \in Simulated)
  /\ tracks' = [tracks EXCEPT ![b] = TrackAfter(@, f)]
  /\ events' = Append(events, TrackedEvent(b, f))
  /\ reported' = [reported EXCEPT ![b] = [version |-> f.version, nth |-> f.nth]]
  /\ simSeen' = IF f.src \in Simulated THEN simSeen \cup {b} ELSE simSeen
  /\ UNCHANGED simMode
IsLeft(f, b) ==
  /\ ~Blocked
  /\ \/ /\ f.src \in Unverified /\ UNCHANGED latched
        /\ events' = Append(events, PlainEvent("AuthFailed", b, f))
     \/ /\ f.src \notin Unverified /\ ~Taken(b, f.src \in Simulated)
        /\ latched' = LatchedAfter(b, f.src \in Simulated) /\ UNCHANGED events
  /\ UNCHANGED <<tracks, simMode, reported, simSeen>>

Arrived(f) ==
  /\ f \in Frames /\ wire # <<>> /\ f = wire[1] /\ 1 \in DOMAIN wire /\ BlockOf[f.src] \in Blocks
  /\ IsTaken(f, BlockOf[f.src]) \/ IsLeft(f, BlockOf[f.src])
  /\ \/ wire' = Tail(wire) /\ UNCHANGED faults
     \/ UNCHANGED wire /\ faults' = faults + 1
  /\ UNCHANGED <<publisherVars, restarts, frames, prompt>>

LEMMA FrameArrives ==
  ASSUME Typed, Arrive \/ ArriveTwice
  PROVE  \E f \in Frames : Arrived(f)
<1>1. /\ wire # <<>> /\ Receive(Head(wire))
      /\ \/ wire' = Tail(wire) /\ UNCHANGED faults
         \/ UNCHANGED wire /\ faults' = faults + 1
      /\ UNCHANGED <<publisherVars, restarts, frames, prompt>>
  BY DEF Arrive, ArriveTwice
<1>2. wire \in Seq(Frames)
  BY DEF Typed, NetTyped
<1>3. PICK f \in Frames : f = Head(wire)
  BY <1>1, <1>2, HeadTailProperties
<1>4. f = wire[1] /\ 1 \in DOMAIN wire
  BY <1>1, <1>2, <1>3
<1>5. BlockOf[f.src] \in Blocks
  BY BlockOfAssumption DEF Frames
<1>6. IsTaken(f, BlockOf[f.src]) \/ IsLeft(f, BlockOf[f.src])
  BY <1>1, <1>3 DEF Receive, TakeFrame, RejectFrame, PassOverFrame, IsTaken, IsLeft
<1> QED BY <1>1, <1>4, <1>5, <1>6 DEF Arrived

-----------------------------------------------------------------------------
(* Types.                                                                  *)
LEMMA InboxTyped ==
  ASSUME inbox \in [Publishers -> Seq(Values)], \A q \in Publishers : Len(inbox[q]) <= InboxSize,
         NEW p \in Publishers, NEW s \in Seq(Values), Len(s) <= InboxSize,
         inbox' = [inbox EXCEPT ![p] = s]
  PROVE  inbox' \in [Publishers -> Seq(Values)] /\ \A q \in Publishers : Len(inbox'[q]) <= InboxSize
  OBVIOUS

LEMMA ShorterInbox ==
  ASSUME PublishersTyped, NEW p \in Publishers, inbox[p] # <<>>, inbox' = [inbox EXCEPT ![p] = Tail(@)]
  PROVE  inbox' \in [Publishers -> Seq(Values)] /\ \A q \in Publishers : Len(inbox'[q]) <= InboxSize
<1>1. inbox[p] \in Seq(Values) /\ Len(inbox[p]) <= InboxSize
  BY DEF PublishersTyped
<1>2. PICK s \in Seq(Values) : s = inbox[p] /\ s # <<>> /\ Len(s) <= InboxSize
  BY <1>1
<1>3. PICK t \in Seq(Values) : t = Tail(s) /\ Len(t) <= InboxSize
  <2>1. InboxSize \in Nat
    BY PublisherAssumption
  <2>2. Tail(s) \in Seq(Values) /\ Len(Tail(s)) = Len(s) - 1 /\ Len(s) \in Nat
    BY <1>2, HeadTailProperties
  <2>3. PICK k \in Nat : k = Len(s)
    BY <2>2
  <2>4. k - 1 <= InboxSize
    BY <1>2, <2>1, <2>3
  <2> QED BY <2>2, <2>3, <2>4
<1>4. inbox' = [inbox EXCEPT ![p] = t]
  BY <1>2, <1>3
<1> QED BY <1>3, <1>4, InboxTyped DEF PublishersTyped

LEMMA SentIsTyped ==
  ASSUME Typed, NEW p \in Publishers, NEW s \in PublisherStates, Sent(p, s),
         s.timer = s.interval, s.started,
         version' \in [Publishers -> Nat], version'[p] # 0,
         \A q \in Publishers : version'[q] >= version[q],
         inbox' \in [Publishers -> Seq(Values)], \A q \in Publishers : Len(inbox'[q]) <= InboxSize
  PROVE  Typed'
<1>1. PublishersTyped'
  <2>1. pub \in [Publishers -> PublisherStates] /\ pub' = [pub EXCEPT ![p] = s]
    BY DEF Typed, PublishersTyped, Sent
  <2>2. pub' \in [Publishers -> PublisherStates]
        /\ \A q \in Publishers : (pub'[q] = s /\ q = p) \/ pub'[q] = pub[q]
    BY <2>1
  <2>3. s.interval \in Nat
    BY Intervals DEF PublisherStates
  <2>4. ASSUME NEW q \in Publishers PROVE /\ pub'[q].timer <= pub'[q].interval
                                          /\ pub'[q].started => version'[q] > 0
    <3>1. pub[q].timer <= pub[q].interval /\ (pub[q].started => version[q] > 0)
      BY DEF Typed, PublishersTyped
    <3>2. version'[q] \in Nat /\ version[q] \in Nat /\ version'[q] >= version[q]
      BY DEF Typed, PublishersTyped
    <3>3. CASE q = p /\ pub'[q] = s
      BY <2>3, <3>2, <3>3
    <3>4. CASE pub'[q] = pub[q]
      BY <3>1, <3>2, <3>4
    <3> QED BY <2>2, <3>3, <3>4
  <2> QED BY <2>2, <2>4 DEF PublishersTyped
<1>2. SubscriberTyped'
  BY DEF Typed, SubscriberTyped, Sent, subscriberVars
<1>3. NetTyped'
  <2>1. frames' \in Nat /\ faults' \in Nat /\ restarts' \in Nat /\ prompt' \in BOOLEAN
    BY DEF Typed, NetTyped, Sent
  <2>2. PICK v \in Nat \ {0} : v = version'[p]
    OBVIOUS
  <2>3. PICK f \in Frames : f = Frame(p, s, version'[p], frames')
    <3>1. PICK n \in Nat : n = frames'
      BY <2>1
    <3>2. Frame(p, s, v, n) \in Frames
      BY FrameIsTyped
    <3> QED BY <2>2, <3>1, <3>2
  <2>4. wire \in Seq(Frames) /\ Len(wire) <= WireSize /\ Len(wire) \in Nat /\ WireSize \in Nat
    BY BlockOfAssumption DEF Typed, NetTyped
  <2>5. wire' \in Seq(Frames) /\ Len(wire') <= WireSize
    <3>1. CASE UNCHANGED wire
      BY <2>4, <3>1
    <3>2. CASE Len(wire) < WireSize /\ wire' = Append(wire, f)
      BY <2>4, <3>2
    <3> QED BY <2>3, <3>1, <3>2 DEF Sent
  <2> QED BY <2>1, <2>5 DEF NetTyped
<1> QED BY <1>1, <1>2, <1>3 DEF Typed

LEMMA SendStateKeepsTypes ==
  ASSUME Typed, NEW p \in Publishers, SendState(p)
  PROVE  Typed'
<1>1. PICK v \in Values :
           /\ Sent(p, Changed(pub[p], v)) /\ Changed(pub[p], v) \in PublisherStates
           /\ version' = [version EXCEPT ![p] = @ + 1] /\ version'[p] = version[p] + 1
           /\ inbox' = [inbox EXCEPT ![p] = Tail(@)] /\ inbox[p] # <<>>
  BY StateIsSent
<1>2. pub[p] \in PublisherStates /\ version \in [Publishers -> Nat]
  BY DEF Typed, PublishersTyped
<1>3. PICK s \in PublisherStates :
        s = Changed(pub[p], v) /\ s.timer = s.interval /\ s.started /\ Sent(p, s)
  <2>1. LET w == Changed(pub[p], v) IN w.timer = w.interval /\ w.started
    BY <1>2, ChangedIsTyped
  <2> QED BY <1>1, <2>1
<1>4. /\ version' \in [Publishers -> Nat] /\ version'[p] # 0
      /\ \A q \in Publishers : version'[q] >= version[q]
  BY <1>1, <1>2
<1>5. inbox' \in [Publishers -> Seq(Values)] /\ \A q \in Publishers : Len(inbox'[q]) <= InboxSize
  BY <1>1, ShorterInbox DEF Typed
<1> QED BY <1>3, <1>4, <1>5, SentIsTyped

LEMMA SendAgainKeepsTypes ==
  ASSUME Typed, NEW p \in Publishers, SendAgain(p)
  PROVE  Typed'
<1>1. /\ Sent(p, Retransmitted(pub[p])) /\ Retransmitted(pub[p]) \in PublisherStates
      /\ pub[p].started /\ UNCHANGED <<inbox, version>>
  BY StateIsRepeated
<1>2. /\ pub[p] \in PublisherStates /\ version \in [Publishers -> Nat] /\ version[p] > 0
      /\ inbox \in [Publishers -> Seq(Values)] /\ \A q \in Publishers : Len(inbox[q]) <= InboxSize
  BY <1>1 DEF Typed, PublishersTyped
<1>3. PICK s \in PublisherStates :
        s = Retransmitted(pub[p]) /\ s.timer = s.interval /\ s.started /\ Sent(p, s)
  <2>1. LET w == Retransmitted(pub[p]) IN w.timer = w.interval /\ w.started = pub[p].started
    BY <1>2, RetransmittedIsTyped
  <2> QED BY <1>1, <2>1
<1>4. /\ version' \in [Publishers -> Nat] /\ version'[p] # 0
      /\ \A q \in Publishers : version'[q] >= version[q]
  BY <1>1, <1>2
<1> QED BY <1>1, <1>2, <1>3, <1>4, SentIsTyped

LEMMA RestartKeepsTypes ==
  ASSUME Typed, NEW p \in Publishers, Restart(p)
  PROVE  Typed'
<1>1. /\ pub' = [pub EXCEPT ![p] = Fresh] /\ inbox' = [inbox EXCEPT ![p] = <<>>]
      /\ restarts' = restarts + 1
      /\ UNCHANGED <<version, subscriberVars, wire, faults, frames, prompt, simSeen>>
  BY DEF Restart, RestartPublisher
<1>2. PublishersTyped'
  <2>1. /\ pub \in [Publishers -> PublisherStates] /\ version \in [Publishers -> Nat]
        /\ inbox \in [Publishers -> Seq(Values)] /\ \A q \in Publishers : Len(inbox[q]) <= InboxSize
        /\ \A q \in Publishers : /\ pub[q].timer <= pub[q].interval
                                 /\ pub[q].started => version[q] > 0
    BY DEF Typed, PublishersTyped
  <2>2. inbox' \in [Publishers -> Seq(Values)] /\ \A q \in Publishers : Len(inbox'[q]) <= InboxSize
    <3>1. <<>> \in Seq(Values) /\ Len(<<>>) = 0
      OBVIOUS
    <3>2. Len(<<>>) <= InboxSize
      BY <3>1, PublisherAssumption
    <3>3. PICK none \in Seq(Values) : none = <<>> /\ Len(none) <= InboxSize
      BY <3>1, <3>2, Zenon
    <3> QED BY <1>1, <2>1, <3>3, InboxTyped
  <2>3. PICK s \in PublisherStates : s = Fresh /\ s.timer <= s.interval /\ ~s.started
    <3>1. TMin \in Nat
      BY PublisherAssumption
    <3> QED BY <3>1, FreshIsTyped DEF Fresh
  <2>4. pub' \in [Publishers -> PublisherStates]
        /\ \A q \in Publishers : pub'[q] = s \/ pub'[q] = pub[q]
    BY <1>1, <2>1, <2>3
  <2> QED BY <1>1, <2>1, <2>2, <2>3, <2>4 DEF PublishersTyped
<1>3. SubscriberTyped'
  BY <1>1 DEF Typed, SubscriberTyped, subscriberVars
<1>4. NetTyped'
  BY <1>1 DEF Typed, NetTyped
<1> QED BY <1>2, <1>3, <1>4 DEF Typed

LEMMA HandedKeepsTypes ==
  ASSUME Typed, NEW p \in Publishers, (\E v \in Values : Handed(p, v)) \/ Ignored(p)
  PROVE  Typed'
<1>1. UNCHANGED <<pub, version, subscriberVars, netVars>>
  BY DEF Handed, Publish, Ignored, IgnoreValues
<1>2. inbox' \in [Publishers -> Seq(Values)] /\ \A q \in Publishers : Len(inbox'[q]) <= InboxSize
  <2>1. CASE Ignored(p)
    <3>1. inbox[p] # <<>> /\ inbox' = [inbox EXCEPT ![p] = Tail(@)]
      BY <2>1 DEF Ignored, IgnoreValues
    <3> QED BY <3>1, ShorterInbox DEF Typed
  <2>2. ASSUME NEW v \in Values, Handed(p, v)
        PROVE  inbox' \in [Publishers -> Seq(Values)] /\ \A q \in Publishers : Len(inbox'[q]) <= InboxSize
    <3>1. Len(inbox[p]) < InboxSize /\ inbox' = [inbox EXCEPT ![p] = Append(@, v)]
      BY <2>2 DEF Handed, Publish
    <3>2. inbox \in [Publishers -> Seq(Values)] /\ \A q \in Publishers : Len(inbox[q]) <= InboxSize
      BY DEF Typed, PublishersTyped
    <3>3. PICK i \in Seq(Values) : i = inbox[p]
      BY <3>2
    <3>4. PICK s \in Seq(Values) : s = Append(i, v) /\ Len(s) = Len(i) + 1
      <4>1. Append(i, v) \in Seq(Values) /\ Len(Append(i, v)) = Len(i) + 1
        OBVIOUS
      <4> QED BY <4>1, Zenon
    <3>5. Len(s) <= InboxSize
      <4>1. Len(i) \in Nat /\ InboxSize \in Nat
        BY PublisherAssumption
      <4> QED BY <3>1, <3>3, <3>4, <4>1
    <3>6. inbox' = [inbox EXCEPT ![p] = s]
      BY <3>1, <3>3, <3>4
    <3> QED BY <3>2, <3>5, <3>6, InboxTyped
  <2> QED BY <2>1, <2>2
<1>3. PublishersTyped'
  BY <1>1, <1>2 DEF Typed, PublishersTyped
<1>4. SubscriberTyped'
  BY <1>1 DEF Typed, SubscriberTyped, subscriberVars
<1>5. NetTyped'
  BY <1>1 DEF Typed, NetTyped, netVars
<1> QED BY <1>3, <1>4, <1>5 DEF Typed

(* Whatever the task appends while it is not blocked is one event more.    *)
LEMMA OneMoreEvent ==
  ASSUME SubscriberTyped, ~Blocked, NEW e \in Reports
  PROVE  /\ Append(events, e) \in Seq(Reports \cup Expirations)
         /\ Len(Append(events, e)) <= EventCapacity + Cardinality(Blocks) \/ Blocks = {}
<1>1. events \in Seq(Reports \cup Expirations) /\ Len(events) <= EventCapacity
  BY EventCapacityAssumption DEF SubscriberTyped, Blocked
<1>2. Append(events, e) \in Seq(Reports \cup Expirations) /\ Len(Append(events, e)) = Len(events) + 1
  BY <1>1
<1>3. Blocks # {} => Cardinality(Blocks) \in Nat /\ Cardinality(Blocks) >= 1
  BY BlockOfAssumption, FS_CardinalityType, FS_EmptySet
<1>4. Len(events) \in Nat /\ EventCapacity \in Nat
  BY <1>1, EventCapacityAssumption
<1>5. PICK n \in Nat : n = Len(events)
  BY <1>4
<1> QED BY <1>1, <1>2, <1>3, <1>4, <1>5

LEMMA ReportIsTyped ==
  ASSUME Typed, NEW f \in Frames, NEW b \in Blocks,
         NEW kind \in {"StateChange", "Retransmission", "LossSuspected", "AuthFailed"}
  PROVE  PlainEvent(kind, b, f) \in Reports
<1>1. reported[b] \in Marks
  BY DEF Typed, SubscriberTyped
<1> QED BY <1>1 DEF PlainEvent, Reports

LEMMA KindOfTaken ==
  ASSUME NEW t, NEW f
  PROVE  Kind(t, f) \in {"StateChange", "Retransmission", "LossSuspected"}
  BY DEF Kind

LEMMA TrackIsTyped ==
  ASSUME NEW f \in Frames, NEW t
  PROVE  /\ TrackAfter(t, f) \in Tracks
         /\ TrackAfter(t, f).stNum = f.stNum /\ TrackAfter(t, f).sqNum = f.sqNum
         /\ TrackAfter(t, f).left = f.ttl
<1>1. f.ttl \in 0..2 * LongestInterval
  <2>1. f.ttl \in 2..2 * LongestInterval /\ 2 * LongestInterval \in Nat
    BY Intervals DEF Frames
  <2> QED BY <2>1
<1> QED BY <1>1 DEF TrackAfter, Tracks, Frames

(* A frame less on the way.                                                *)
LEMMA OneFrameLess ==
  ASSUME NetTyped, wire # <<>>
  PROVE  /\ Tail(wire) \in Seq(Frames) /\ Len(Tail(wire)) <= WireSize
         /\ Len(Tail(wire)) = Len(wire) - 1 /\ Len(wire) \in Nat
         /\ \A k \in DOMAIN Tail(wire) : k + 1 \in DOMAIN wire /\ Tail(wire)[k] = wire[k + 1]
<1>1. wire \in Seq(Frames) /\ Len(wire) <= WireSize /\ WireSize \in Nat
  BY BlockOfAssumption DEF NetTyped
<1>2. PICK w \in Seq(Frames) : w = wire /\ w # <<>>
  BY <1>1
<1>3. /\ Tail(w) \in Seq(Frames) /\ Len(Tail(w)) = Len(w) - 1 /\ Len(w) \in Nat
      /\ \A k \in DOMAIN Tail(w) : k + 1 \in DOMAIN w /\ Tail(w)[k] = w[k + 1]
  BY <1>2
<1>4. PICK n \in Nat : n = Len(w)
  BY <1>3
<1> QED BY <1>1, <1>2, <1>3, <1>4

LEMMA ArrivalKeepsRest ==
  ASSUME Typed, NEW f \in Frames, Arrived(f), SubscriberTyped'
  PROVE  Typed'
<1>1. /\ wire # <<>>
      /\ \/ wire' = Tail(wire) /\ UNCHANGED faults
         \/ UNCHANGED wire /\ faults' = faults + 1
      /\ UNCHANGED <<publisherVars, restarts, frames, prompt>>
  BY DEF Arrived
<1>2. NetTyped'
  BY <1>1, OneFrameLess DEF Typed, NetTyped
<1>3. PublishersTyped'
  BY <1>1 DEF Typed, PublishersTyped, publisherVars
<1> QED BY <1>2, <1>3 DEF Typed

LEMMA ArrivalKeepsTypes ==
  ASSUME Typed, NEW f \in Frames, Arrived(f)
  PROVE  Typed'
<1> DEFINE b == BlockOf[f.src]
<1>1. b \in Blocks /\ wire # <<>>
  BY DEF Arrived
<1> HIDE DEF b
<1>2. IsTaken(f, b) \/ IsLeft(f, b)
  BY DEF Arrived, b
<1>3. /\ tracks \in [Blocks -> Tracks \cup {NoTrack}] /\ reported \in [Blocks -> Marks]
      /\ simMode \in BOOLEAN /\ latched \subseteq Blocks
      /\ events \in Seq(Reports \cup Expirations)
      /\ Len(events) <= EventCapacity + Cardinality(Blocks)
  BY DEF Typed, SubscriberTyped
<1>4. latched' \subseteq Blocks /\ simMode' = simMode
  BY <1>1, <1>2, <1>3 DEF IsTaken, IsLeft, LatchedAfter
<1>5. ASSUME NEW e \in Reports, ~Blocked
      PROVE  /\ Append(events, e) \in Seq(Reports \cup Expirations)
             /\ Len(Append(events, e)) <= EventCapacity + Cardinality(Blocks)
  BY <1>1, <1>5, OneMoreEvent DEF Typed
<1>6. CASE IsTaken(f, b)
  <2>1. PICK e \in Reports : e = TrackedEvent(b, f)
    <3>1. PICK k : k = Kind(tracks[b], f)
      OBVIOUS
    <3>2. k \in {"StateChange", "Retransmission", "LossSuspected"}
      BY <3>1, KindOfTaken
    <3>3. PlainEvent(k, b, f) \in Reports
      BY <1>1, <3>2, ReportIsTyped
    <3> QED BY <3>1, <3>3 DEF TrackedEvent
  <2>2. ~Blocked /\ events' = Append(events, e)
    BY <1>6, <2>1 DEF IsTaken
  <2>3. events' \in Seq(Reports \cup Expirations) /\ Len(events') <= EventCapacity + Cardinality(Blocks)
    BY <1>5, <2>2
  <2>4. tracks' \in [Blocks -> Tracks \cup {NoTrack}]
    <3>1. PICK t \in Tracks : t = TrackAfter(tracks[b], f)
      BY TrackIsTyped
    <3>2. tracks' = [tracks EXCEPT ![b] = t]
      BY <1>1, <1>3, <1>6, <3>1 DEF IsTaken
    <3> QED BY <1>3, <3>2
  <2>5. reported' \in [Blocks -> Marks]
    <3>1. [version |-> f.version, nth |-> f.nth] \in Marks
      BY DEF Frames, Marks
    <3> QED BY <1>3, <1>6, <3>1 DEF IsTaken
  <2> QED BY <1>3, <1>4, <2>3, <2>4, <2>5, ArrivalKeepsRest DEF SubscriberTyped
<1>7. CASE IsLeft(f, b)
  <2>1. events' \in Seq(Reports \cup Expirations) /\ Len(events') <= EventCapacity + Cardinality(Blocks)
    <3>1. PlainEvent("AuthFailed", b, f) \in Reports
      BY <1>1, ReportIsTyped
    <3> QED BY <1>3, <1>5, <1>7, <3>1 DEF IsLeft
  <2>2. UNCHANGED <<tracks, reported>>
    BY <1>7 DEF IsLeft
  <2> QED BY <1>3, <1>4, <2>1, <2>2, ArrivalKeepsRest DEF SubscriberTyped
<1> QED BY <1>2, <1>6, <1>7

(* Appending the expirations of a sweep: at most one for each block.       *)
LEMMA SweepKeepsTypes ==
  ASSUME Typed, Expire
  PROVE  Typed'
<1>1. /\ ~Blocked /\ UNCHANGED <<simMode, latched, publisherVars, netVars>>
      /\ tracks' = [b \in Blocks |-> IF b \in Overdue THEN NoTrack ELSE tracks[b]]
      /\ reported' = [b \in Blocks |-> IF b \in Overdue THEN NothingReported ELSE reported[b]]
  BY DEF Expire, Sweep
<1>2. PICK order \in [1..Cardinality(Overdue) -> Overdue] :
        events' = events \o [i \in DOMAIN order |-> [kind |-> "Expired", block |-> order[i]]]
  BY DEF Expire, Sweep
<1>3. /\ tracks \in [Blocks -> Tracks \cup {NoTrack}] /\ reported \in [Blocks -> Marks]
      /\ simMode \in BOOLEAN /\ latched \subseteq Blocks
      /\ events \in Seq(Reports \cup Expirations)
      /\ Len(events) <= EventCapacity + Cardinality(Blocks)
  BY DEF Typed, SubscriberTyped
<1>4. Overdue \subseteq Blocks
  BY DEF Overdue
<1>5. /\ Cardinality(Overdue) \in Nat /\ Cardinality(Blocks) \in Nat
      /\ Cardinality(Overdue) <= Cardinality(Blocks)
  BY <1>4, BlockOfAssumption, FS_Subset, FS_CardinalityType
<1>6. PICK n \in Nat : n = Cardinality(Overdue) /\ n <= Cardinality(Blocks)
  BY <1>5
<1> DEFINE more == [i \in DOMAIN order |-> [kind |-> "Expired", block |-> order[i]]]
<1>7. more \in Seq(Reports \cup Expirations) /\ Len(more) = n
  <2>1. DOMAIN order = 1..n /\ \A i \in 1..n : order[i] \in Blocks
    BY <1>2, <1>4, <1>6
  <2>2. \A i \in 1..n : more[i] \in Expirations
    BY <2>1 DEF Expirations
  <2>3. DOMAIN more = 1..n /\ \A i \in 1..n : more[i] \in Reports \cup Expirations
    BY <2>1, <2>2
  <2>4. more = [i \in 1..n |-> more[i]]
    BY <2>1
  <2> HIDE DEF more
  <2> QED BY <2>3, <2>4
<1>8. events' \in Seq(Reports \cup Expirations) /\ Len(events') = Len(events) + n
  <2>1. events' = events \o more
    BY <1>2
  <2> HIDE DEF more
  <2>2. events \o more \in Seq(Reports \cup Expirations) /\ Len(events \o more) = Len(events) + Len(more)
    BY <1>3, <1>7, ConcatProperties
  <2> QED BY <1>7, <2>1, <2>2
<1>9. Len(events') <= EventCapacity + Cardinality(Blocks)
  <2>1. Len(events) <= EventCapacity /\ Len(events) \in Nat /\ EventCapacity \in Nat
    BY <1>1, <1>3, EventCapacityAssumption DEF Blocked
  <2> QED BY <1>5, <1>6, <1>8, <2>1
<1>10. tracks' \in [Blocks -> Tracks \cup {NoTrack}] /\ reported' \in [Blocks -> Marks]
  <2>1. NothingReported \in Marks
    BY DEF NothingReported, Marks
  <2> QED BY <1>1, <1>3, <2>1
<1>11. SubscriberTyped'
  BY <1>1, <1>3, <1>8, <1>9, <1>10 DEF SubscriberTyped
<1>12. PublishersTyped' /\ NetTyped'
  BY <1>1 DEF Typed, PublishersTyped, publisherVars, NetTyped, netVars
<1> QED BY <1>11, <1>12 DEF Typed

(* An event is taken.                                                      *)
LEMMA OneEventLess ==
  ASSUME SubscriberTyped, events # <<>>
  PROVE  /\ Tail(events) \in Seq(Reports \cup Expirations)
         /\ Len(Tail(events)) <= EventCapacity + Cardinality(Blocks)
<1>1. PICK w \in Seq(Reports \cup Expirations) : w = events /\ w # <<>>
  BY DEF SubscriberTyped
<1>2. Tail(w) \in Seq(Reports \cup Expirations) /\ Len(Tail(w)) = Len(w) - 1 /\ Len(w) \in Nat
  BY <1>1
<1>3. PICK most \in Nat : most = EventCapacity + Cardinality(Blocks)
  BY EventCapacityAssumption, BlockOfAssumption, FS_CardinalityType
<1>4. Len(events) <= most
  BY <1>3 DEF SubscriberTyped
<1> QED BY <1>1, <1>2, <1>3, <1>4

LEMMA ApplicationKeepsTypes ==
  ASSUME Typed, UserTakesEvent \/ \E on \in BOOLEAN : UserSetsMode(on)
  PROVE  Typed'
<1>1. /\ UNCHANGED <<publisherVars, wire, faults, restarts, frames, prompt, tracks, latched, reported>>
      /\ simMode' \in BOOLEAN
      /\ \/ UNCHANGED events
         \/ events # <<>> /\ events' = Tail(events)
  <2>1. simMode \in BOOLEAN
    BY DEF Typed, SubscriberTyped
  <2>2. CASE UserTakesEvent
    BY <2>1, <2>2 DEF UserTakesEvent, RecvEvent, netVars
  <2>3. ASSUME NEW on \in BOOLEAN, UserSetsMode(on)
        PROVE  /\ UNCHANGED <<publisherVars, wire, faults, restarts, frames, prompt, tracks, latched,
                               reported, events>>
               /\ simMode' \in BOOLEAN
    BY <2>3 DEF UserSetsMode, SetSimulationMode
  <2> QED BY <2>2, <2>3, Zenon
<1>2. SubscriberTyped'
  BY <1>1, OneEventLess DEF Typed, SubscriberTyped
<1>3. PublishersTyped' /\ NetTyped'
  BY <1>1 DEF Typed, PublishersTyped, publisherVars, NetTyped
<1> QED BY <1>2, <1>3 DEF Typed

LEMMA TickedPublishers ==
  ASSUME PublishersTyped, PublisherTick
  PROVE  /\ pub' \in [Publishers -> PublisherStates] /\ UNCHANGED <<inbox, version>>
         /\ \A p \in Publishers : ~pub[p].started => pub'[p] = pub[p]
         /\ \A p \in Publishers : pub[p].started =>
              /\ pub[p].timer > 0 /\ pub'[p].timer = pub[p].timer - 1
              /\ pub'[p].started /\ pub'[p].interval = pub[p].interval
              /\ pub'[p].sqNum = pub[p].sqNum /\ pub'[p].stNum = pub[p].stNum
<1>1. pub \in [Publishers -> PublisherStates]
  BY DEF PublishersTyped
<1>2. /\ \A p \in Publishers : pub[p].started => pub[p].timer # 0
      /\ pub' = [p \in Publishers |->
                   IF pub[p].started THEN [pub[p] EXCEPT !.timer = @ - 1] ELSE pub[p]]
      /\ UNCHANGED <<inbox, version>>
  BY DEF PublisherTick, Due
<1>3. ASSUME NEW s \in PublisherStates, s.timer # 0
      PROVE  LET t == [s EXCEPT !.timer = @ - 1]
             IN  /\ t \in PublisherStates /\ s.timer > 0 /\ t.timer = s.timer - 1 /\ t.started = s.started
                 /\ t.interval = s.interval /\ t.sqNum = s.sqNum /\ t.stNum = s.stNum
  BY <1>3 DEF PublisherStates
<1>4. ASSUME NEW p \in Publishers, pub[p].started
      PROVE  /\ pub'[p] \in PublisherStates
             /\ pub[p].timer > 0 /\ pub'[p].timer = pub[p].timer - 1
             /\ pub'[p].started /\ pub'[p].interval = pub[p].interval
             /\ pub'[p].sqNum = pub[p].sqNum /\ pub'[p].stNum = pub[p].stNum
  <2>1. PICK s \in PublisherStates : s = pub[p] /\ s.timer # 0 /\ s.started
    BY <1>1, <1>2, <1>4
  <2>2. pub'[p] = [s EXCEPT !.timer = @ - 1]
    BY <1>2, <1>4, <2>1
  <2> QED BY <1>3, <2>1, <2>2
<1>5. ASSUME NEW p \in Publishers, ~pub[p].started
      PROVE  pub'[p] = pub[p]
  BY <1>2, <1>5
<1>6. pub' \in [Publishers -> PublisherStates]
  <2>1. \A p \in Publishers : pub'[p] \in PublisherStates
    BY <1>1, <1>4, <1>5
  <2>2. pub' = [p \in Publishers |-> pub'[p]]
    BY <1>2
  <2> HIDE <1>1
  <2> QED BY <2>1, <2>2
<1> QED BY <1>2, <1>4, <1>5, <1>6

LEMMA TickedTracks ==
  ASSUME SubscriberTyped, SubscriberTick
  PROVE  /\ tracks' \in [Blocks -> Tracks \cup {NoTrack}]
         /\ \A b \in Blocks : ~Tracked(b) => tracks'[b] = NoTrack
         /\ \A b \in Blocks : Tracked(b) =>
              /\ tracks'[b] # NoTrack /\ tracks[b] \in Tracks /\ tracks'[b] \in Tracks
              /\ tracks'[b].stNum = tracks[b].stNum /\ tracks'[b].sqNum = tracks[b].sqNum
              /\ tracks'[b].left = IF tracks[b].left > 0 THEN tracks[b].left - 1 ELSE tracks[b].left
         /\ UNCHANGED <<simMode, latched, events, reported>>
<1>1. tracks \in [Blocks -> Tracks \cup {NoTrack}]
  BY DEF SubscriberTyped
<1>2. /\ tracks' = [b \in Blocks |-> IF tracks[b].left > 0
                                     THEN [tracks[b] EXCEPT !.left = @ - 1]
                                     ELSE tracks[b]]
      /\ UNCHANGED <<simMode, latched, events, reported>>
  BY DEF SubscriberTick
<1>3. ASSUME NEW t \in Tracks, t.left > 0
      PROVE  LET u == [t EXCEPT !.left = @ - 1]
             IN  u \in Tracks /\ u.stNum = t.stNum /\ u.sqNum = t.sqNum /\ u.left = t.left - 1
  <2>1. t.left \in 0..2 * LongestInterval /\ 2 * LongestInterval \in Nat
    BY Intervals DEF Tracks
  <2>2. t.left - 1 \in 0..2 * LongestInterval
    BY <1>3, <2>1
  <2> QED BY <2>2 DEF Tracks
<1>4. ASSUME NEW b \in Blocks, Tracked(b)
      PROVE  /\ tracks'[b] # NoTrack /\ tracks[b] \in Tracks /\ tracks'[b] \in Tracks
             /\ tracks'[b].stNum = tracks[b].stNum /\ tracks'[b].sqNum = tracks[b].sqNum
             /\ tracks'[b].left = IF tracks[b].left > 0 THEN tracks[b].left - 1 ELSE tracks[b].left
  <2>1. PICK t \in Tracks : t = tracks[b]
    BY <1>1, <1>4 DEF Tracked
  <2>2. tracks'[b] = IF t.left > 0 THEN [t EXCEPT !.left = @ - 1] ELSE t
    BY <1>2, <2>1
  <2>3. tracks'[b] \in Tracks
    BY <1>3, <2>2
  <2> QED BY <1>3, <2>1, <2>2, <2>3, TrackIsNone
<1>5. ASSUME NEW b \in Blocks, ~Tracked(b)
      PROVE  tracks'[b] = NoTrack
  BY <1>2, <1>5 DEF Tracked, NoTrack
<1>6. tracks' \in [Blocks -> Tracks \cup {NoTrack}]
  <2>1. \A b \in Blocks : tracks'[b] \in Tracks \cup {NoTrack}
    BY <1>4, <1>5
  <2>2. tracks' = [b \in Blocks |-> tracks'[b]]
    BY <1>2
  <2> QED BY <2>1, <2>2
<1> QED BY <1>2, <1>4, <1>5, <1>6

LEMMA TickKeepsTypes ==
  ASSUME Typed, Tick
  PROVE  Typed'
<1>1. PublisherTick /\ SubscriberTick /\ UNCHANGED netVars
  BY DEF Tick
<1>2. PublishersTyped'
  <2>1. ASSUME NEW p \in Publishers
        PROVE  pub'[p].timer <= pub'[p].interval /\ (pub'[p].started => version'[p] > 0)
    <3>1. pub[p].timer <= pub[p].interval /\ (pub[p].started => version[p] > 0)
      BY DEF Typed, PublishersTyped
    <3>2. pub[p].timer \in Nat /\ pub[p].interval \in Nat
      BY Intervals DEF Typed, PublishersTyped, PublisherStates
    <3>3. CASE pub[p].started
      BY <1>1, <3>1, <3>2, <3>3, TickedPublishers DEF Typed
    <3>4. CASE ~pub[p].started
      BY <1>1, <3>1, <3>4, TickedPublishers DEF Typed
    <3> QED BY <3>3, <3>4
  <2> QED BY <1>1, <2>1, TickedPublishers DEF Typed, PublishersTyped
<1>3. SubscriberTyped'
  BY <1>1, TickedTracks DEF Typed, SubscriberTyped
<1>4. NetTyped'
  BY <1>1 DEF Typed, NetTyped, netVars
<1> QED BY <1>2, <1>3, <1>4 DEF Typed

LEMMA LossKeepsTypes ==
  ASSUME Typed, Lose
  PROVE  Typed'
<1>1. wire # <<>> /\ wire' = Tail(wire) /\ faults' = faults + 1
      /\ UNCHANGED <<publisherVars, subscriberVars, restarts, frames, prompt>>
  BY DEF Lose
<1>2. NetTyped'
  BY <1>1, OneFrameLess DEF Typed, NetTyped
<1>3. PublishersTyped' /\ SubscriberTyped'
  BY <1>1 DEF Typed, PublishersTyped, publisherVars, SubscriberTyped, subscriberVars
<1> QED BY <1>2, <1>3 DEF Typed

LEMMA TypedInitially == Init => Typed
<1> SUFFICES ASSUME Init PROVE Typed
  OBVIOUS
<1>1. PublishersTyped
  <2>1. PICK s \in PublisherStates : s = Fresh /\ s.timer <= s.interval /\ ~s.started
    <3>1. TMin \in Nat
      BY PublisherAssumption
    <3> QED BY <3>1, FreshIsTyped DEF Fresh
  <2>2. pub = [p \in Publishers |-> s]
    BY <2>1 DEF Init, PublisherInit
  <2>3. pub \in [Publishers -> PublisherStates]
        /\ \A p \in Publishers : pub[p].timer <= pub[p].interval /\ ~pub[p].started
    BY <2>1, <2>2
  <2>4. inbox \in [Publishers -> Seq(Values)] /\ \A p \in Publishers : Len(inbox[p]) <= InboxSize
    <3>1. \A p \in Publishers : inbox[p] = <<>>
      BY DEF Init, PublisherInit
    <3>2. inbox \in [Publishers -> Seq(Values)]
      BY DEF Init, PublisherInit
    <3>3. Len(<<>>) <= InboxSize
      BY PublisherAssumption
    <3> QED BY <3>1, <3>2, <3>3
  <2>5. version \in [Publishers -> Nat]
    BY DEF Init, PublisherInit
  <2> QED BY <2>3, <2>4, <2>5 DEF PublishersTyped
<1>2. SubscriberTyped
  <2>1. NothingReported \in Marks
    BY DEF NothingReported, Marks
  <2>2. events \in Seq(Reports \cup Expirations) /\ Len(events) = 0
    BY DEF Init, SubscriberInit
  <2>3. Len(events) <= EventCapacity + Cardinality(Blocks)
    BY <2>2, EventCapacityAssumption, BlockOfAssumption, FS_CardinalityType
  <2> QED BY <2>1, <2>2, <2>3 DEF Init, SubscriberInit, SubscriberTyped
<1>3. NetTyped
  <2>1. wire \in Seq(Frames) /\ Len(wire) = 0
    BY DEF Init
  <2>2. Len(wire) <= WireSize
    BY <2>1, BlockOfAssumption
  <2> QED BY <2>1, <2>2 DEF Init, NetTyped
<1> QED BY <1>1, <1>2, <1>3 DEF Typed

LEMMA TypedStep == Typed /\ [Next]_vars => Typed'
<1> SUFFICES ASSUME Typed, [Next]_vars PROVE Typed'
  OBVIOUS
<1>1. ASSUME NEW p \in Publishers, (\E v \in Values : Handed(p, v)) \/ Ignored(p) PROVE Typed'
  BY <1>1, HandedKeepsTypes
<1>2. ASSUME NEW p \in Publishers, SendState(p) PROVE Typed'
  BY <1>2, SendStateKeepsTypes
<1>3. ASSUME NEW p \in Publishers, SendAgain(p) PROVE Typed'
  BY <1>3, SendAgainKeepsTypes
<1>4. ASSUME NEW p \in Publishers, Restart(p) PROVE Typed'
  BY <1>4, RestartKeepsTypes
<1>5. CASE Arrive \/ ArriveTwice
  BY <1>5, FrameArrives, ArrivalKeepsTypes
<1>6. CASE Lose
  BY <1>6, LossKeepsTypes
<1>7. CASE Expire
  BY <1>7, SweepKeepsTypes
<1>8. CASE UserTakesEvent \/ \E on \in BOOLEAN : UserSetsMode(on)
  BY <1>8, ApplicationKeepsTypes
<1>9. CASE Tick
  BY <1>9, TickKeepsTypes
<1>10. CASE UNCHANGED vars
  BY <1>10 DEF vars, publisherVars, subscriberVars, netVars, Typed, PublishersTyped,
               SubscriberTyped, NetTyped
<1> QED BY <1>1, <1>2, <1>3, <1>4, <1>5, <1>6, <1>7, <1>8, <1>9, <1>10 DEF Next

(* Publishers, frames, tracks, marks and events are what the code can make  *)
(* of them, and no channel, inbox or socket holds more than it may.         *)
THEOREM Types == Spec => []Typed
<1> QED BY TypedInitially, TypedStep, PTL DEF Spec

(* Whatever is lost, doubled or left waiting, no number leaves its range,   *)
(* no timer runs past its interval and no channel past its bound: at most   *)
(* one event for each block is waited with when the channel is full.        *)
THEOREM GooseTypeOK == Spec => []TypeOK
<1>1. ASSUME Typed PROVE TypeOK
  <2>1. ASSUME NEW p \in Publishers
        PROVE  /\ pub[p].stNum \in 1..Counters - 1 /\ pub[p].sqNum \in 0..Counters - 1
               /\ pub[p].timer \in 0..pub[p].interval
               /\ pub[p].interval \in 1..LongestInterval
               /\ Len(inbox[p]) <= InboxSize
    <3>1. pub[p] \in PublisherStates /\ pub[p].timer <= pub[p].interval /\ Len(inbox[p]) <= InboxSize
      BY <1>1 DEF Typed, PublishersTyped
    <3>2. pub[p].interval \in Nat
      BY <3>1, Intervals DEF PublisherStates
    <3> QED BY <3>1, <3>2 DEF PublisherStates
  <2>2. ASSUME NEW b \in Blocks, Tracked(b) PROVE tracks[b].left <= 2 * LongestInterval
    <3>1. tracks[b] \in Tracks
      BY <1>1, <2>2 DEF Typed, SubscriberTyped, Tracked
    <3> QED BY <3>1, Intervals DEF Tracks
  <2> QED BY <1>1, <2>1, <2>2 DEF TypeOK, Typed, SubscriberTyped, NetTyped
<1> QED BY <1>1, Types, PTL

-----------------------------------------------------------------------------
(* What becomes of the wire, of the tracks and of the events in a step.     *)

LEMMA FrameSays ==
  ASSUME NEW p, NEW s, NEW v, NEW n
  PROVE  LET f == Frame(p, s, v, n)
         IN  /\ f.src = p /\ f.stNum = s.stNum /\ f.sqNum = s.sqNum /\ f.ttl = 2 * s.interval
             /\ f.version = v /\ f.nth = n
  BY DEF Frame

(* Frame m is the one that publisher p sends in this step, in state s.      *)
Tells(m, p, s) ==
  /\ m.src = p /\ m.stNum = s.stNum /\ m.sqNum = s.sqNum /\ m.ttl = 2 * s.interval
  /\ m.version = version'[p] /\ m.nth = frames'

LEMMA SentOnTheWire ==
  ASSUME Typed, NEW p \in Publishers, NEW s, Sent(p, s)
  PROVE  \A k \in DOMAIN wire' :
           \/ k \in DOMAIN wire /\ wire'[k] = wire[k]
           \/ /\ k \notin DOMAIN wire /\ \A j \in DOMAIN wire : j < k
              /\ k = Len(wire') /\ Tells(wire'[k], p, s)
<1>1. wire \in Seq(Frames)
  BY DEF Typed, NetTyped
<1>2. CASE UNCHANGED wire
  BY <1>2
<1>3. CASE wire' = Append(wire, Frame(p, s, version'[p], frames'))
  <2>1. PICK f : f = Frame(p, s, version'[p], frames')
    OBVIOUS
  <2>2. Tells(f, p, s)
    BY <2>1, FrameSays DEF Tells
  <2>3. PICK w \in Seq(Frames) : w = wire
    BY <1>1
  <2>4. \A k \in DOMAIN Append(w, f) :
           \/ k \in DOMAIN w /\ Append(w, f)[k] = w[k]
           \/ /\ k \notin DOMAIN w /\ \A j \in DOMAIN w : j < k
              /\ k = Len(Append(w, f)) /\ Append(w, f)[k] = f
    OBVIOUS
  <2>5. wire' = Append(w, f)
    BY <1>3, <2>1, <2>3
  <2> QED BY <2>2, <2>3, <2>4, <2>5
<1> QED BY <1>2, <1>3 DEF Sent

(* The wire stays as it is, or its first frame leaves it.                   *)
Shifted ==
  \E s \in {0, 1} : /\ \A k \in DOMAIN wire' : k + s \in DOMAIN wire /\ wire'[k] = wire[k + s]
                    /\ Len(wire') = Len(wire) - s

LEMMA WireShifts ==
  ASSUME Typed, UNCHANGED wire \/ (wire # <<>> /\ wire' = Tail(wire))
  PROVE  Shifted
<1>1. CASE UNCHANGED wire
  <2>1. DOMAIN wire \subseteq Nat /\ Len(wire) \in Nat
    BY DEF Typed, NetTyped
  <2> QED BY <1>1, <2>1 DEF Shifted
<1>2. CASE wire # <<>> /\ wire' = Tail(wire)
  BY <1>2, OneFrameLess DEF Typed, Shifted
<1> QED BY <1>1, <1>2

(* What becomes of the track of block b: it stays, it goes, or it is that   *)
(* of the first frame on the wire.                                          *)
TrackStays(b) ==
  /\ Tracked(b)' <=> Tracked(b)
  /\ reported'[b] = reported[b]
  /\ tracks'[b].stNum = tracks[b].stNum /\ tracks'[b].sqNum = tracks[b].sqNum
TrackGoes(b) == ~Tracked(b)' /\ reported'[b] = NothingReported
TrackIsOf(b, f) ==
  /\ f.src \notin Unverified /\ BlockOf[f.src] = b /\ Tracked(b)'
  /\ tracks'[b].stNum = f.stNum /\ tracks'[b].sqNum = f.sqNum /\ tracks'[b].left = f.ttl
  /\ reported'[b].version = f.version /\ reported'[b].nth = f.nth
TrackMoves(b) ==
  \/ TrackStays(b)
  \/ TrackGoes(b)
  \/ wire # <<>> /\ 1 \in DOMAIN wire /\ wire[1] \in Frames /\ TrackIsOf(b, wire[1])

LEMMA TakenIsTracked ==
  ASSUME Typed, NEW f \in Frames, BlockOf[f.src] \in Blocks, IsTaken(f, BlockOf[f.src])
  PROVE  /\ TrackIsOf(BlockOf[f.src], f)
         /\ \A b \in Blocks : b # BlockOf[f.src] =>
              tracks'[b] = tracks[b] /\ reported'[b] = reported[b]
<1> DEFINE c == BlockOf[f.src]
<1>1. /\ tracks \in [Blocks -> Tracks \cup {NoTrack}] /\ reported \in [Blocks -> Marks] /\ c \in Blocks
  BY DEF Typed, SubscriberTyped
<1>2. /\ tracks' = [tracks EXCEPT ![c] = TrackAfter(@, f)]
      /\ reported' = [reported EXCEPT ![c] = [version |-> f.version, nth |-> f.nth]]
      /\ f.src \notin Unverified
  BY DEF IsTaken
<1>3. PICK t \in Tracks : /\ t = TrackAfter(tracks[c], f)
                          /\ t.stNum = f.stNum /\ t.sqNum = f.sqNum /\ t.left = f.ttl
  <2>1. LET w == TrackAfter(tracks[c], f)
        IN  w \in Tracks /\ w.stNum = f.stNum /\ w.sqNum = f.sqNum /\ w.left = f.ttl
    BY TrackIsTyped
  <2> QED BY <2>1
<1>4. tracks' = [tracks EXCEPT ![c] = t]
  BY <1>1, <1>2, <1>3
<1>5. tracks'[c] = t /\ t # NoTrack
  BY <1>1, <1>4, TrackIsNone
<1>6. reported'[c].version = f.version /\ reported'[c].nth = f.nth
  BY <1>1, <1>2
<1>7. TrackIsOf(c, f)
  BY <1>2, <1>3, <1>5, <1>6 DEF TrackIsOf, Tracked
<1>8. \A b \in Blocks : b # c => tracks'[b] = tracks[b] /\ reported'[b] = reported[b]
  BY <1>1, <1>2, <1>4
<1> QED BY <1>7, <1>8

LEMMA ArrivalMovesTracks ==
  ASSUME Typed, NEW f \in Frames, Arrived(f), NEW b \in Blocks
  PROVE  TrackMoves(b)
<1>1. /\ wire # <<>> /\ f = wire[1] /\ 1 \in DOMAIN wire /\ BlockOf[f.src] \in Blocks
      /\ IsTaken(f, BlockOf[f.src]) \/ IsLeft(f, BlockOf[f.src])
  BY DEF Arrived
<1>2. CASE IsTaken(f, BlockOf[f.src])
  <2>1. CASE b = BlockOf[f.src]
    BY <1>1, <1>2, <2>1, TakenIsTracked DEF TrackMoves
  <2>2. CASE b # BlockOf[f.src]
    BY <1>1, <1>2, <2>2, TakenIsTracked DEF TrackMoves, TrackStays, Tracked
  <2> QED BY <2>1, <2>2
<1>3. CASE IsLeft(f, BlockOf[f.src])
  BY <1>3 DEF IsLeft, TrackMoves, TrackStays, Tracked
<1> QED BY <1>1, <1>2, <1>3

LEMMA SweepMovesTracks ==
  ASSUME Typed, Expire, NEW b \in Blocks
  PROVE  TrackMoves(b)
<1>1. /\ tracks' = [c \in Blocks |-> IF c \in Overdue THEN NoTrack ELSE tracks[c]]
      /\ reported' = [c \in Blocks |-> IF c \in Overdue THEN NothingReported ELSE reported[c]]
  BY DEF Expire, Sweep
<1>2. CASE b \in Overdue
  BY <1>1, <1>2 DEF TrackMoves, TrackGoes, Tracked
<1>3. CASE b \notin Overdue
  BY <1>1, <1>3 DEF TrackMoves, TrackStays, Tracked
<1> QED BY <1>2, <1>3

LEMMA TickMovesTracks ==
  ASSUME Typed, SubscriberTick, NEW b \in Blocks
  PROVE  TrackMoves(b)
<1>1. CASE Tracked(b)
  BY <1>1, TickedTracks DEF Typed, TrackMoves, TrackStays, Tracked
<1>2. CASE ~Tracked(b)
  BY <1>2, TickedTracks DEF Typed, TrackMoves, TrackStays, Tracked
<1> QED BY <1>1, <1>2

(* Nothing but the application's part changes.                              *)
Aside ==
  /\ UNCHANGED <<pub, version, wire, faults, restarts, frames, prompt, tracks, latched, reported>>
  /\ \/ UNCHANGED events
     \/ events # <<>> /\ events' = Tail(events)
  /\ \/ UNCHANGED <<simMode, simSeen>>
     \/ simSeen' = {}

LEMMA StepsAre ==
  ASSUME Typed, [Next]_vars
  PROVE  \/ \E p \in Publishers : SendState(p) \/ SendAgain(p) \/ Restart(p)
         \/ \E f \in Frames : Arrived(f)
         \/ Lose
         \/ Expire
         \/ Tick
         \/ Aside
<1>1. CASE UNCHANGED vars
  BY <1>1 DEF Aside, vars, publisherVars, subscriberVars, netVars
<1>2. ASSUME NEW p \in Publishers, (\E v \in Values : Handed(p, v)) \/ Ignored(p) PROVE Aside
  BY <1>2 DEF Aside, Handed, Publish, Ignored, IgnoreValues, subscriberVars, netVars
<1>3. CASE UserTakesEvent
  BY <1>3 DEF Aside, UserTakesEvent, RecvEvent, publisherVars, netVars
<1>4. ASSUME NEW on \in BOOLEAN, UserSetsMode(on) PROVE Aside
  BY <1>4 DEF Aside, UserSetsMode, SetSimulationMode, publisherVars
<1>5. CASE Arrive \/ ArriveTwice
  BY <1>5, FrameArrives
<1> QED BY <1>1, <1>2, <1>3, <1>4, <1>5 DEF Next

(* No publisher sends or is restarted; times may change.                    *)
Quiet ==
  /\ UNCHANGED <<version, frames, restarts>>
  /\ \A p \in Publishers : /\ pub'[p].started = pub[p].started
                           /\ pub'[p].stNum = pub[p].stNum /\ pub'[p].sqNum = pub[p].sqNum
  /\ Shifted
  /\ \A b \in Blocks : TrackMoves(b)

LEMMA StepsAreQuiet ==
  ASSUME Typed, [Next]_vars
  PROVE  (\E p \in Publishers : SendState(p) \/ SendAgain(p) \/ Restart(p)) \/ Quiet
<1>1. ASSUME NEW f \in Frames, Arrived(f) PROVE Quiet
  <2>1. /\ UNCHANGED <<pub, version, frames, restarts>>
        /\ UNCHANGED wire \/ (wire # <<>> /\ wire' = Tail(wire))
    BY <1>1 DEF Arrived, publisherVars
  <2> QED BY <1>1, <2>1, WireShifts, ArrivalMovesTracks DEF Quiet
<1>2. CASE Lose
  <2>1. /\ UNCHANGED <<pub, version, frames, restarts, tracks, reported>>
        /\ UNCHANGED wire \/ (wire # <<>> /\ wire' = Tail(wire))
    BY <1>2 DEF Lose, publisherVars, subscriberVars
  <2>2. \A b \in Blocks : TrackMoves(b)
    BY <2>1 DEF TrackMoves, TrackStays, Tracked
  <2> QED BY <2>1, <2>2, WireShifts DEF Quiet
<1>3. CASE Expire
  <2>1. UNCHANGED <<pub, version, frames, restarts, wire>>
    BY <1>3 DEF Expire, publisherVars, netVars
  <2> QED BY <1>3, <2>1, WireShifts, SweepMovesTracks DEF Quiet
<1>4. CASE Tick
  <2>1. /\ UNCHANGED <<frames, restarts, wire>> /\ PublisherTick /\ SubscriberTick
    BY <1>4 DEF Tick, netVars
  <2>2. /\ UNCHANGED version
        /\ \A p \in Publishers : /\ pub'[p].started = pub[p].started
                                 /\ pub'[p].stNum = pub[p].stNum /\ pub'[p].sqNum = pub[p].sqNum
    <3>1. \A p \in Publishers : pub[p] \in PublisherStates /\ pub'[p] \in PublisherStates
      BY <2>1, TickedPublishers DEF Typed, PublishersTyped
    <3>2. \A p \in Publishers : pub[p].started \in BOOLEAN /\ pub'[p].started \in BOOLEAN
      BY <3>1 DEF PublisherStates
    <3> QED BY <2>1, <3>2, TickedPublishers DEF Typed
  <2>3. \A b \in Blocks : TrackMoves(b)
    BY <2>1, TickMovesTracks
  <2> QED BY <2>1, <2>2, <2>3, WireShifts DEF Quiet
<1>5. CASE Aside
  <2>1. UNCHANGED <<pub, version, frames, restarts, wire, tracks, reported>>
    BY <1>5 DEF Aside
  <2>2. \A b \in Blocks : TrackMoves(b)
    BY <2>1 DEF TrackMoves, TrackStays, Tracked
  <2> QED BY <2>1, <2>2, WireShifts DEF Quiet
<1> QED BY <1>1, <1>2, <1>3, <1>4, <1>5, StepsAre

(* Every new event is an expiration, is of a frame that does not verify, or *)
(* is that of the frame that was taken.                                     *)
EventIsNew(e) ==
  \/ e.kind = "AuthFailed"
  \/ e.kind = "Expired" /\ Expire
  \/ \E f \in Frames : /\ Arrived(f) /\ IsTaken(f, BlockOf[f.src])
                       /\ e = TrackedEvent(BlockOf[f.src], f)

LEMMA NewEvents ==
  ASSUME Typed, [Next]_vars
  PROVE  \A i \in DOMAIN events' :
           (\E j \in DOMAIN events : events'[i] = events[j]) \/ EventIsNew(events'[i])
<1> SUFFICES ASSUME NEW i \in DOMAIN events'
             PROVE  (\E j \in DOMAIN events : events'[i] = events[j]) \/ EventIsNew(events'[i])
  OBVIOUS
<1>1. PICK w \in Seq(Reports \cup Expirations) : w = events
  BY DEF Typed, SubscriberTyped
<1>2. CASE UNCHANGED events
  BY <1>2
<1>3. CASE events # <<>> /\ events' = Tail(events)
  <2>1. i \in DOMAIN Tail(w) /\ w # <<>>
    BY <1>1, <1>3
  <2>2. i + 1 \in DOMAIN w /\ Tail(w)[i] = w[i + 1]
    BY <2>1
  <2> QED BY <1>1, <1>3, <2>2
<1>4. ASSUME NEW e, EventIsNew(e), events' = Append(events, e)
      PROVE  (\E j \in DOMAIN events : events'[i] = events[j]) \/ EventIsNew(events'[i])
  <2>1. i \in DOMAIN Append(w, e)
    BY <1>1, <1>4
  <2>2. i \in DOMAIN w \/ Append(w, e)[i] = e
    BY <2>1
  <2>3. i \in DOMAIN w => Append(w, e)[i] = w[i]
    OBVIOUS
  <2> QED BY <1>1, <1>4, <2>2, <2>3
<1>5. ASSUME NEW f \in Frames, Arrived(f)
      PROVE  (\E j \in DOMAIN events : events'[i] = events[j]) \/ EventIsNew(events'[i])
  <2>1. CASE IsTaken(f, BlockOf[f.src])
    <3>1. PICK e : e = TrackedEvent(BlockOf[f.src], f)
      OBVIOUS
    <3>2. EventIsNew(e)
      BY <1>5, <2>1, <3>1 DEF EventIsNew
    <3>3. events' = Append(events, e)
      BY <2>1, <3>1 DEF IsTaken
    <3> QED BY <1>4, <3>2, <3>3
  <2>2. CASE events' = Append(events, PlainEvent("AuthFailed", BlockOf[f.src], f))
    <3>1. PICK e : e = PlainEvent("AuthFailed", BlockOf[f.src], f)
      OBVIOUS
    <3>2. EventIsNew(e)
      BY <3>1 DEF EventIsNew, PlainEvent
    <3> QED BY <1>4, <2>2, <3>1, <3>2
  <2> QED BY <1>2, <1>5, <2>1, <2>2 DEF Arrived, IsLeft
<1>6. CASE Expire
  <2>1. PICK order \in [1..Cardinality(Overdue) -> Overdue] :
          events' = events \o [k \in DOMAIN order |-> [kind |-> "Expired", block |-> order[k]]]
    BY <1>6 DEF Expire, Sweep
  <2>2. PICK n \in Nat : n = Cardinality(Overdue)
    <3>1. Overdue \subseteq Blocks
      BY DEF Overdue
    <3> QED BY <3>1, BlockOfAssumption, FS_Subset, FS_CardinalityType
  <2> DEFINE more == [k \in DOMAIN order |-> [kind |-> "Expired", block |-> order[k]]]
  <2>3. DOMAIN more = 1..n /\ \A k \in 1..n : more[k].kind = "Expired"
    BY <2>1, <2>2
  <2>4. more \in [1..n -> {more[k] : k \in 1..n}]
    BY <2>3
  <2>5. events' = events \o more
    BY <2>1
  <2> HIDE DEF more
  <2>6. PICK S : S = Reports \cup Expirations \cup {more[k] : k \in 1..n}
    OBVIOUS
  <2>7. w \in Seq(S)
    BY <1>1, <2>6, SeqMonotonic
  <2>8. more \in Seq(S) /\ Len(more) = n
    BY <2>3, <2>4, <2>6
  <2>9. PICK m \in Seq(S) : m = more
    BY <2>8
  <2>10. /\ DOMAIN (w \o m) = 1..Len(w) + Len(m)
         /\ \A k \in 1..Len(w) + Len(m) : (w \o m)[k] = IF k <= Len(w) THEN w[k] ELSE m[k - Len(w)]
    BY <2>7, ConcatProperties
  <2>11. CASE i <= Len(w)
    <3>1. i \in DOMAIN w /\ events'[i] = w[i]
      BY <1>1, <2>5, <2>9, <2>10, <2>11
    <3> QED BY <1>1, <3>1
  <2>12. CASE ~(i <= Len(w))
    <3>1. i - Len(w) \in 1..n /\ events'[i] = more[i - Len(w)]
      <4>1. i \in 1..Len(w) + n
        BY <1>1, <2>5, <2>8, <2>9, <2>10
      <4>2. i - Len(w) \in 1..n
        BY <2>12, <4>1
      <4> QED BY <1>1, <2>5, <2>8, <2>9, <2>10, <2>12, <4>1, <4>2
    <3> QED BY <1>6, <2>3, <3>1 DEF EventIsNew
  <2> QED BY <2>11, <2>12
<1>7. CASE Lose \/ Tick \/ Aside \/ \E p \in Publishers : SendState(p) \/ SendAgain(p) \/ Restart(p)
  <2>1. UNCHANGED events \/ (events # <<>> /\ events' = Tail(events))
    BY <1>7 DEF Lose, Tick, SubscriberTick, Aside, SendState, SendAgain, Transmit, Restart, subscriberVars
  <2> QED BY <1>2, <1>3, <2>1
<1> QED BY <1>5, <1>6, <1>7, StepsAre

-----------------------------------------------------------------------------
(* Where frames and tracks come from.                                      *)
NewState(p, s) ==
  version'[p] = version[p] + 1 /\ s.sqNum = 0 /\ s.stNum = NextStNum(pub[p])
SameState(p, s) ==
  /\ version'[p] = version[p] /\ pub[p].started /\ pub[p].timer = 0
  /\ s.sqNum = Wrapping(pub[p].sqNum) /\ s.stNum = pub[p].stNum
Sends(p, s) ==
  /\ Sent(p, s) /\ s.started /\ s.timer = s.interval
  /\ version' \in [Publishers -> Nat] /\ version'[p] > 0
  /\ \A q \in Publishers : q # p => version'[q] = version[q]
  /\ NewState(p, s) \/ SameState(p, s)

LEMMA SendsAre ==
  ASSUME Typed, NEW p \in Publishers, SendState(p) \/ SendAgain(p)
  PROVE  \E s \in PublisherStates : Sends(p, s)
<1>1. version \in [Publishers -> Nat] /\ pub[p] \in PublisherStates
  BY DEF Typed, PublishersTyped
<1>2. CASE SendState(p)
  <2>1. PICK v \in Values : /\ Sent(p, Changed(pub[p], v)) /\ Changed(pub[p], v) \in PublisherStates
                            /\ version' = [version EXCEPT ![p] = @ + 1]
    BY <1>2, StateIsSent
  <2>2. PICK s \in PublisherStates : s = Changed(pub[p], v)
    BY <2>1
  <2>3. s.started /\ s.timer = s.interval /\ s.sqNum = 0 /\ s.stNum = NextStNum(pub[p])
    BY <2>2 DEF Changed
  <2>4. /\ version' \in [Publishers -> Nat] /\ version'[p] = version[p] + 1 /\ version'[p] > 0
        /\ \A q \in Publishers : q # p => version'[q] = version[q]
    BY <1>1, <2>1
  <2>5. Sends(p, s)
    BY <2>1, <2>2, <2>3, <2>4 DEF Sends, NewState
  <2> QED BY <2>5
<1>3. CASE SendAgain(p)
  <2>1. /\ Sent(p, Retransmitted(pub[p])) /\ pub[p].started /\ pub[p].timer = 0 /\ UNCHANGED version
    BY <1>3, StateIsRepeated
  <2>2. PICK s \in PublisherStates :
          /\ s = Retransmitted(pub[p]) /\ s.timer = s.interval /\ s.sqNum = Wrapping(pub[p].sqNum)
          /\ s.stNum = pub[p].stNum /\ s.started
    <3>1. LET w == Retransmitted(pub[p])
          IN  /\ w \in PublisherStates /\ w.timer = w.interval /\ w.sqNum = Wrapping(pub[p].sqNum)
              /\ w.stNum = pub[p].stNum /\ w.started = pub[p].started
      BY <1>1, RetransmittedIsTyped
    <3> QED BY <2>1, <3>1
  <2>3. version[p] > 0
    BY <2>1 DEF Typed, PublishersTyped
  <2>4. /\ version' \in [Publishers -> Nat] /\ version'[p] = version[p] /\ version'[p] > 0
        /\ \A q \in Publishers : q # p => version'[q] = version[q]
    BY <1>1, <2>1, <2>3
  <2>5. Sends(p, s)
    BY <2>1, <2>2, <2>4 DEF Sends, SameState
  <2> QED BY <2>5
<1> QED BY <1>2, <1>3

TrackHasSource(b) ==
  IF Tracked(b)
    THEN \E p \in Publishers \ Unverified : /\ BlockOf[p] = b /\ 0 < reported[b].version
                                            /\ reported[b].version <= version[p]
    ELSE reported[b] = NothingReported
Sources ==
  /\ restarts = 0 => \A p \in Publishers : version[p] > 0 => pub[p].started
  /\ \A k \in DOMAIN wire : wire[k].version <= version[wire[k].src]
  /\ \A b \in Blocks : TrackHasSource(b)

LEMMA SourcesInitially == Init => Sources
  BY DEF Init, PublisherInit, SubscriberInit, Sources, TrackHasSource, Tracked, NothingReported

LEMMA VersionsGrow ==
  ASSUME Typed, NEW p \in Publishers, NEW s, Sends(p, s)
  PROVE  \A q \in Publishers : /\ version[q] \in Nat /\ version'[q] \in Nat /\ version[q] <= version'[q]
                               /\ q # p => version'[q] = version[q]
<1>1. version \in [Publishers -> Nat]
  BY DEF Typed, PublishersTyped
<1>2. version' \in [Publishers -> Nat] /\ \A q \in Publishers : q # p => version'[q] = version[q]
  BY DEF Sends
<1>3. version[p] <= version'[p]
  BY <1>1, <1>2 DEF Sends, NewState, SameState
<1> QED BY <1>1, <1>2, <1>3

LEMMA SourcesSent ==
  ASSUME Typed, Sources, NEW p \in Publishers, NEW s \in PublisherStates, Sends(p, s)
  PROVE  Sources'
<1>1. Sent(p, s) /\ s.started
  BY DEF Sends
<1>2. ASSUME restarts' = 0, NEW q \in Publishers, version'[q] > 0 PROVE pub'[q].started
  <2>1. pub \in [Publishers -> PublisherStates]
    BY DEF Typed, PublishersTyped
  <2>2. CASE q = p
    BY <1>1, <2>2 DEF Sent
  <2>3. CASE q # p
    <3>1. pub'[q] = pub[q] /\ restarts = 0
      BY <1>1, <1>2, <2>1, <2>3 DEF Sent
    <3>2. version[q] > 0
      BY <1>2, <2>3, VersionsGrow
    <3> QED BY <3>1, <3>2 DEF Sources
  <2> QED BY <2>2, <2>3
<1>3. ASSUME NEW k \in DOMAIN wire' PROVE wire'[k].version <= version'[wire'[k].src]
  <2>1. CASE k \in DOMAIN wire /\ wire'[k] = wire[k]
    <3>1. PICK m \in Frames : m = wire[k]
      BY <2>1 DEF Typed, NetTyped
    <3>2. m.src \in Publishers /\ m.version \in Nat /\ m.version <= version[m.src]
      BY <2>1, <3>1 DEF Sources, Frames
    <3>3. version[m.src] <= version'[m.src] /\ version[m.src] \in Nat /\ version'[m.src] \in Nat
      BY <3>2, VersionsGrow
    <3> QED BY <2>1, <3>1, <3>2, <3>3
  <2>2. CASE Tells(wire'[k], p, s)
    <3>1. version'[p] \in Nat
      BY VersionsGrow
    <3> QED BY <2>2, <3>1 DEF Tells
  <2> QED BY <1>1, <2>1, <2>2, SentOnTheWire
<1>4. ASSUME NEW b \in Blocks PROVE TrackHasSource(b)'
  <2>1. UNCHANGED <<tracks, reported>>
    BY <1>1 DEF Sent, subscriberVars
  <2>2. TrackHasSource(b)
    BY DEF Sources
  <2>3. ASSUME Tracked(b)
        PROVE  \E q \in Publishers \ Unverified : /\ BlockOf[q] = b /\ 0 < reported[b].version
                                                  /\ reported[b].version <= version'[q]
    <3>1. PICK q \in Publishers \ Unverified : /\ BlockOf[q] = b /\ 0 < reported[b].version
                                               /\ reported[b].version <= version[q]
      BY <2>2, <2>3 DEF TrackHasSource
    <3>2. reported[b].version \in Nat
      BY DEF Typed, SubscriberTyped, Marks
    <3>3. reported[b].version <= version'[q]
      BY <3>1, <3>2, VersionsGrow
    <3> QED BY <3>1, <3>3
  <2> QED BY <2>1, <2>2, <2>3 DEF TrackHasSource, Tracked
<1> QED BY <1>2, <1>3, <1>4 DEF Sources

LEMMA SourcesRestarted ==
  ASSUME Typed, Sources, NEW p \in Publishers, Restart(p)
  PROVE  Sources'
<1>1. restarts' # 0 /\ UNCHANGED <<version, wire, tracks, reported>>
  BY DEF Restart, RestartPublisher, subscriberVars, Typed, NetTyped
<1> QED BY <1>1 DEF Sources, TrackHasSource, Tracked

LEMMA SourcesQuiet ==
  ASSUME Typed, Sources, Quiet
  PROVE  Sources'
<1>1. /\ UNCHANGED <<version, restarts>>
      /\ \A p \in Publishers : pub'[p].started = pub[p].started
  BY DEF Quiet
<1>2. \A k \in DOMAIN wire' : wire'[k].version <= version'[wire'[k].src]
  BY <1>1 DEF Quiet, Shifted, Sources
<1>3. ASSUME NEW b \in Blocks PROVE TrackHasSource(b)'
  <2>1. TrackHasSource(b) /\ TrackMoves(b)
    BY DEF Sources, Quiet
  <2>2. CASE TrackStays(b)
    BY <1>1, <2>1, <2>2 DEF TrackHasSource, TrackStays
  <2>3. CASE TrackGoes(b)
    BY <2>3 DEF TrackHasSource, TrackGoes
  <2>4. ASSUME NEW m \in Frames, 1 \in DOMAIN wire, m = wire[1], TrackIsOf(b, m)
        PROVE  TrackHasSource(b)'
    <3>1. m.version <= version[m.src] /\ m.src \in Publishers /\ m.version \in Nat \ {0}
      BY <2>4 DEF Sources, Frames
    <3>2. /\ Tracked(b)' /\ BlockOf[m.src] = b /\ reported'[b].version = m.version
          /\ m.src \notin Unverified
      BY <2>4 DEF TrackIsOf
    <3>3. 0 < reported'[b].version
      BY <3>1, <3>2
    <3> QED BY <1>1, <3>1, <3>2, <3>3 DEF TrackHasSource
  <2> QED BY <2>1, <2>2, <2>3, <2>4 DEF TrackMoves
<1> QED BY <1>1, <1>2, <1>3 DEF Sources

LEMMA SourcesStep == Typed /\ Sources /\ [Next]_vars => Sources'
  BY StepsAreQuiet, SendsAre, SourcesSent, SourcesRestarted, SourcesQuiet

(* A frame on its way is of a state that its publisher has had, and a block *)
(* is tracked because of a frame of a publisher whose signature verifies.   *)
THEOREM EveryFrameHasASource == Spec => []Sources
<1>1. Spec => []Typed
  BY Types
<1> QED BY <1>1, SourcesInitially, SourcesStep, PTL DEF Spec

-----------------------------------------------------------------------------
(* A publisher that is the only one to have published.                     *)
Only(p) == restarts = 0 /\ \A q \in Publishers : version[q] > 0 => q = p

LEMMA OnlyOne ==
  ASSUME Typed, Sources, NEW p \in Publishers, Only(p)
  PROVE  /\ \A k \in DOMAIN wire : /\ wire[k] \in Frames /\ wire[k].src = p
                                   /\ wire[k].version <= version[p]
         /\ \A b \in Blocks : Tracked(b) => /\ b = BlockOf[p] /\ 0 < reported[b].version
                                            /\ reported[b].version <= version[p]
                                            /\ p \notin Unverified
         /\ BlockOf[p] \in Blocks /\ version[p] \in Nat
         /\ version[p] > 0 => pub[p].started
<1>1. version \in [Publishers -> Nat]
  BY DEF Typed, PublishersTyped
<1>2. ASSUME NEW k \in DOMAIN wire
      PROVE  wire[k] \in Frames /\ wire[k].src = p /\ wire[k].version <= version[p]
  <2>1. PICK m \in Frames : m = wire[k]
    BY DEF Typed, NetTyped
  <2>2. m.src \in Publishers /\ m.version \in Nat \ {0} /\ m.version <= version[m.src]
    BY <2>1 DEF Frames, Sources
  <2>3. version[m.src] \in Nat /\ version[m.src] > 0
    BY <1>1, <2>2
  <2>4. m.src = p
    BY <2>2, <2>3 DEF Only
  <2> QED BY <2>1, <2>2, <2>4
<1>3. ASSUME NEW b \in Blocks, Tracked(b)
      PROVE  /\ b = BlockOf[p] /\ 0 < reported[b].version /\ reported[b].version <= version[p]
             /\ p \notin Unverified
  <2>1. PICK q \in Publishers \ Unverified : /\ BlockOf[q] = b /\ 0 < reported[b].version
                                             /\ reported[b].version <= version[q]
    BY <1>3 DEF Sources, TrackHasSource
  <2>2. reported[b].version \in Nat
    BY DEF Typed, SubscriberTyped, Marks
  <2>3. version[q] > 0
    BY <1>1, <2>1, <2>2
  <2> QED BY <2>1, <2>3 DEF Only
<1>4. BlockOf[p] \in Blocks
  BY BlockOfAssumption
<1> QED BY <1>1, <1>2, <1>3, <1>4 DEF Sources, Only

LEMMA OnlyBefore ==
  ASSUME Typed, [Next]_vars, NEW p \in Publishers, Only(p)'
  PROVE  /\ Only(p)
         /\ (\E s \in PublisherStates : Sends(p, s)) \/ Quiet
<1>1. restarts \in Nat /\ version \in [Publishers -> Nat]
  BY DEF Typed, PublishersTyped, NetTyped
<1>2. restarts' = 0 /\ \A q \in Publishers : version'[q] > 0 => q = p
  BY DEF Only
<1>3. ASSUME NEW q \in Publishers, NEW s \in PublisherStates, Sends(q, s)
      PROVE  Only(p) /\ q = p
  <2>1. version'[q] > 0 /\ UNCHANGED restarts
    BY <1>3 DEF Sends, Sent
  <2>2. q = p
    BY <1>2, <2>1
  <2>3. \A r \in Publishers : version[r] > 0 => version'[r] > 0
    BY <1>3, VersionsGrow
  <2> QED BY <1>2, <2>1, <2>2, <2>3 DEF Only
<1>4. ASSUME NEW q \in Publishers, Restart(q) PROVE FALSE
  BY <1>1, <1>2, <1>4 DEF Restart
<1>5. CASE Quiet
  BY <1>2, <1>5 DEF Quiet, Only
<1> QED BY <1>3, <1>4, <1>5, StepsAreQuiet, SendsAre

-----------------------------------------------------------------------------
(* The numbers of the one publisher.                                       *)
Ordered(p) ==
  /\ \A j, k \in DOMAIN wire : j <= k => wire[j].version <= wire[k].version
  /\ Tracked(BlockOf[p]) =>
       \A k \in DOMAIN wire : reported[BlockOf[p]].version <= wire[k].version

(* Until stNum comes round it tells which state it is.                     *)
Numbered(p) ==
  /\ pub[p].stNum = IF version[p] = 0 THEN 1 ELSE version[p]
  /\ \A k \in DOMAIN wire : wire[k].stNum = wire[k].version
  /\ Tracked(BlockOf[p]) => tracks[BlockOf[p]].stNum = reported[BlockOf[p]].version

(* sqNum counts the frames of a state from first[its version], if the      *)
(* frames are counted.                                                     *)
Counted(p, first) ==
  /\ frames <= MaxFrames /\ version[p] + pub[p].sqNum <= frames
  /\ version[p] > 0 => frames = first[version[p]] + pub[p].sqNum
  /\ \A k \in DOMAIN wire : wire[k].nth = first[wire[k].version] + wire[k].sqNum
  /\ Tracked(BlockOf[p]) =>
       reported[BlockOf[p]].nth = first[reported[BlockOf[p]].version] + tracks[BlockOf[p]].sqNum
Uncounted == frames = 0 /\ \A k \in DOMAIN wire : wire[k].nth = 0

NumbersTell(p) ==
  /\ Ordered(p)
  /\ version[p] < Counters => Numbered(p)
  /\ IF MaxFrames < Counters THEN \E first \in [Nat -> Nat] : Counted(p, first) ELSE Uncounted

Told == \A p \in Publishers : Only(p) => NumbersTell(p)

LEMMA ToldInitially == Init => Told
<1> SUFFICES ASSUME Init, NEW p \in Publishers PROVE NumbersTell(p)
  BY DEF Told
<1>1. /\ wire = <<>> /\ DOMAIN wire = {} /\ frames = 0 /\ version[p] = 0
      /\ pub[p].stNum = 1 /\ pub[p].sqNum = 0 /\ ~Tracked(BlockOf[p])
  BY BlockOfAssumption DEF Init, PublisherInit, SubscriberInit, Fresh, Tracked
<1>2. Ordered(p) /\ Numbered(p) /\ Uncounted
  BY <1>1 DEF Ordered, Numbered, Uncounted
<1>3. \E first \in [Nat -> Nat] : Counted(p, first)
  <2>1. PICK first \in [Nat -> Nat] : TRUE
    <3>1. [n \in Nat |-> 0] \in [Nat -> Nat]
      OBVIOUS
    <3> QED BY <3>1
  <2>2. Counted(p, first)
    BY <1>1, BlockOfAssumption DEF Counted
  <2> QED BY <2>2
<1> QED BY <1>2, <1>3 DEF NumbersTell

LEMMA OrderedSent ==
  ASSUME Typed, Typed', Sources, NEW p \in Publishers, Only(p), Ordered(p),
         NEW s \in PublisherStates, Sends(p, s)
  PROVE  Ordered(p)'
<1>1. UNCHANGED <<tracks, reported>>
  BY DEF Sends, Sent, subscriberVars
<1>2. \A k \in DOMAIN wire' :
        \/ k \in DOMAIN wire /\ wire'[k] = wire[k]
        \/ /\ k \notin DOMAIN wire /\ \A j \in DOMAIN wire : j < k
           /\ k = Len(wire') /\ wire'[k].version = version'[p]
  BY SentOnTheWire DEF Sends, Tells
<1>3. /\ \A k \in DOMAIN wire : wire[k].version <= version[p] /\ wire[k].version \in Nat
      /\ Tracked(BlockOf[p]) => reported[BlockOf[p]].version <= version[p]
      /\ reported[BlockOf[p]].version \in Nat
  BY OnlyOne DEF Frames, Typed, SubscriberTyped, Marks
<1>4. version[p] \in Nat /\ version'[p] \in Nat /\ version[p] <= version'[p]
  BY VersionsGrow
<1>5. ASSUME NEW j \in DOMAIN wire', NEW k \in DOMAIN wire', j <= k
      PROVE  wire'[j].version <= wire'[k].version
  <2>1. DOMAIN wire \subseteq Nat /\ j \in Nat /\ k \in Nat
    <3>1. wire \in Seq(Frames) /\ wire' \in Seq(Frames)
      BY DEF Typed, NetTyped
    <3> QED BY <3>1
  <2>2. CASE k \in DOMAIN wire /\ wire'[k] = wire[k]
    <3>1. j \in DOMAIN wire /\ wire'[j] = wire[j]
      BY <1>2, <1>5, <2>1, <2>2
    <3> QED BY <1>5, <2>2, <3>1 DEF Ordered
  <2>3. CASE wire'[k].version = version'[p]
    <3>1. CASE j \in DOMAIN wire /\ wire'[j] = wire[j]
      BY <1>3, <1>4, <2>3, <3>1
    <3>2. CASE wire'[j].version = version'[p]
      BY <1>4, <2>3, <3>2
    <3> QED BY <1>2, <3>1, <3>2
  <2> QED BY <1>2, <2>2, <2>3
<1>6. ASSUME Tracked(BlockOf[p]), NEW k \in DOMAIN wire'
      PROVE  reported[BlockOf[p]].version <= wire'[k].version
  <2>1. CASE k \in DOMAIN wire /\ wire'[k] = wire[k]
    BY <1>6, <2>1 DEF Ordered
  <2>2. CASE wire'[k].version = version'[p]
    BY <1>3, <1>4, <1>6, <2>2
  <2> QED BY <1>2, <2>1, <2>2
<1> QED BY <1>1, <1>5, <1>6 DEF Ordered, Tracked

LEMMA NumberedSent ==
  ASSUME Typed, Sources, NEW p \in Publishers, Only(p), version[p] < Counters => Numbered(p),
         NEW s \in PublisherStates, Sends(p, s), version'[p] < Counters
  PROVE  Numbered(p)'
<1>1. UNCHANGED <<tracks, reported>> /\ pub'[p] = s
  BY DEF Sends, Sent, subscriberVars
<1>2. version[p] \in Nat /\ version'[p] \in Nat /\ version[p] <= version'[p] /\ Counters \in Nat
  BY VersionsGrow, CountersAssumption
<1>3. Numbered(p)
  BY <1>2
<1>4. s.stNum = version'[p]
  <2>1. version[p] = 0 <=> ~pub[p].started
    <3>1. /\ pub[p].started => version[p] > 0
          /\ version[p] > 0 => pub[p].started
      BY OnlyOne DEF Typed, PublishersTyped
    <3> QED BY <1>2, <3>1
  <2>2. CASE NewState(p, s)
    <3>1. s.stNum = NextStNum(pub[p]) /\ version'[p] = version[p] + 1
      BY <2>2 DEF NewState
    <3>2. CASE version[p] = 0
      BY <1>3, <2>1, <3>1, <3>2 DEF Numbered, NextStNum
    <3>3. CASE version[p] # 0
      <4>1. pub[p].stNum = version[p]
        BY <1>3, <3>3 DEF Numbered
      <4>2. Wrapping(version[p]) = version[p] + 1
        BY <1>2, <3>1, WrappingIsTyped
      <4> QED BY <1>2, <2>1, <3>1, <3>3, <4>1, <4>2 DEF NextStNum
    <3> QED BY <3>2, <3>3
  <2>3. CASE SameState(p, s)
    BY <1>3, <2>1, <2>3 DEF SameState, Numbered
  <2> QED BY <2>2, <2>3 DEF Sends
<1>5. ASSUME NEW k \in DOMAIN wire' PROVE wire'[k].stNum = wire'[k].version
  <2>1. CASE k \in DOMAIN wire /\ wire'[k] = wire[k]
    BY <1>3, <2>1 DEF Numbered
  <2>2. CASE Tells(wire'[k], p, s)
    BY <1>4, <2>2 DEF Tells
  <2> QED BY <2>1, <2>2, SentOnTheWire DEF Sends
<1>6. version'[p] # 0
  BY <1>2 DEF Sends
<1> QED BY <1>1, <1>3, <1>4, <1>5, <1>6 DEF Numbered, Tracked

LEMMA CountedSent ==
  ASSUME Typed, Sources, NEW p \in Publishers, Only(p), MaxFrames < Counters,
         NEW first \in [Nat -> Nat], Counted(p, first),
         NEW s \in PublisherStates, Sends(p, s)
  PROVE  \E then \in [Nat -> Nat] : Counted(p, then)'
<1>1. UNCHANGED <<tracks, reported>> /\ pub'[p] = s /\ frames < MaxFrames /\ frames' = frames + 1
  BY DEF Sends, Sent, subscriberVars
<1>2. /\ version[p] \in Nat /\ version'[p] \in Nat /\ version'[p] > 0 /\ frames \in Nat /\ MaxFrames \in Nat
      /\ Counters \in Nat /\ pub[p].sqNum \in Nat /\ s.sqNum \in Nat
  BY VersionsGrow, CountersAssumption, BlockOfAssumption
     DEF Sends, Typed, NetTyped, PublishersTyped, PublisherStates
<1>3. frames <= MaxFrames /\ version[p] + pub[p].sqNum <= frames
  BY DEF Counted
<1>4. \A k \in DOMAIN wire' :
        \/ k \in DOMAIN wire /\ wire'[k] = wire[k]
        \/ wire'[k].version = version'[p] /\ wire'[k].nth = frames' /\ wire'[k].sqNum = s.sqNum
  BY SentOnTheWire DEF Sends, Tells
<1>5. CASE NewState(p, s)
  <2>1. version'[p] = version[p] + 1 /\ s.sqNum = 0
    BY <1>5 DEF NewState
  <2>2. PICK then \in [Nat -> Nat] :
          then[version'[p]] = frames' /\ \A n \in Nat : n <= version[p] => then[n] = first[n]
    <3> DEFINE g == [first EXCEPT ![version'[p]] = frames']
    <3>1. g \in [Nat -> Nat] /\ g[version'[p]] = frames'
      BY <1>1, <1>2
    <3>2. \A n \in Nat : n <= version[p] => g[n] = first[n]
      BY <1>2, <2>1
    <3> HIDE DEF g
    <3> QED BY <3>1, <3>2
  <2>3. frames' <= MaxFrames /\ version'[p] + s.sqNum <= frames'
    BY <1>1, <1>2, <1>3, <2>1
  <2>4. frames' = then[version'[p]] + s.sqNum
    BY <1>1, <1>2, <2>1, <2>2
  <2>5. ASSUME NEW k \in DOMAIN wire' PROVE wire'[k].nth = then[wire'[k].version] + wire'[k].sqNum
    <3>1. CASE k \in DOMAIN wire /\ wire'[k] = wire[k]
      <4>1. wire[k] \in Frames /\ wire[k].version <= version[p]
        BY <3>1, OnlyOne
      <4>2. wire[k].version \in Nat
        BY <4>1 DEF Frames
      <4>3. then[wire[k].version] = first[wire[k].version]
        BY <2>2, <4>1, <4>2
      <4> QED BY <3>1, <4>3 DEF Counted
    <3>2. CASE wire'[k].version = version'[p] /\ wire'[k].nth = frames' /\ wire'[k].sqNum = s.sqNum
      BY <2>4, <3>2
    <3> QED BY <1>4, <3>1, <3>2
  <2>6. ASSUME Tracked(BlockOf[p])
        PROVE  reported[BlockOf[p]].nth = then[reported[BlockOf[p]].version] + tracks[BlockOf[p]].sqNum
    <3>1. reported[BlockOf[p]].version <= version[p] /\ reported[BlockOf[p]] \in Marks
      BY <2>6, OnlyOne DEF Typed, SubscriberTyped
    <3>2. then[reported[BlockOf[p]].version] = first[reported[BlockOf[p]].version]
      BY <2>2, <3>1 DEF Marks
    <3> QED BY <2>6, <3>2 DEF Counted
  <2>7. Counted(p, then)'
    BY <1>1, <2>3, <2>4, <2>5, <2>6 DEF Counted, Tracked
  <2> QED BY <2>7
<1>6. CASE SameState(p, s)
  <2>1. version'[p] = version[p] /\ s.sqNum = Wrapping(pub[p].sqNum)
    BY <1>6 DEF SameState
  <2>2. s.sqNum = pub[p].sqNum + 1
    <3>1. pub[p].sqNum + 1 < Counters
      BY <1>1, <1>2, <1>3, <2>1
    <3> QED BY <1>2, <2>1, <3>1, WrappingIsTyped
  <2>3. frames' <= MaxFrames /\ version'[p] + s.sqNum <= frames'
    BY <1>1, <1>2, <1>3, <2>1, <2>2
  <2>4. frames' = first[version'[p]] + s.sqNum
    <3>1. frames = first[version[p]] + pub[p].sqNum /\ first[version[p]] \in Nat
      BY <1>2, <2>1 DEF Counted
    <3> QED BY <1>1, <1>2, <2>1, <2>2, <3>1
  <2>5. ASSUME NEW k \in DOMAIN wire' PROVE wire'[k].nth = first[wire'[k].version] + wire'[k].sqNum
    <3>1. CASE k \in DOMAIN wire /\ wire'[k] = wire[k]
      BY <3>1 DEF Counted
    <3>2. CASE wire'[k].version = version'[p] /\ wire'[k].nth = frames' /\ wire'[k].sqNum = s.sqNum
      BY <2>4, <3>2
    <3> QED BY <1>4, <3>1, <3>2
  <2>6. Counted(p, first)'
    BY <1>1, <2>3, <2>4, <2>5 DEF Counted, Tracked
  <2> QED BY <2>6
<1> QED BY <1>5, <1>6 DEF Sends

LEMMA ToldQuiet ==
  ASSUME Typed, Typed', Sources, NEW p \in Publishers, Only(p), NumbersTell(p), Quiet
  PROVE  NumbersTell(p)'
<1>1. /\ UNCHANGED <<version, frames>>
      /\ pub'[p].stNum = pub[p].stNum /\ pub'[p].sqNum = pub[p].sqNum
  BY DEF Quiet
<1>2. PICK s \in {0, 1} : \A k \in DOMAIN wire' : k + s \in DOMAIN wire /\ wire'[k] = wire[k + s]
  BY DEF Quiet, Shifted
<1>3. DOMAIN wire \subseteq Nat \ {0} /\ DOMAIN wire' \subseteq Nat \ {0}
  <2>1. wire \in Seq(Frames) /\ wire' \in Seq(Frames)
    BY DEF Typed, NetTyped
  <2> QED BY <2>1
<1> DEFINE b == BlockOf[p]
<1>4. \/ TrackStays(b) \/ TrackGoes(b)
      \/ 1 \in DOMAIN wire /\ TrackIsOf(b, wire[1])
  BY OnlyOne DEF Quiet, TrackMoves
<1> HIDE DEF b
<1>5. Ordered(p)'
  <2>1. \A j, k \in DOMAIN wire' : j <= k => wire'[j].version <= wire'[k].version
    <3>1. ASSUME NEW j \in DOMAIN wire', NEW k \in DOMAIN wire', j <= k
          PROVE  wire'[j].version <= wire'[k].version
      <4>1. j + s <= k + s
        BY <1>3, <3>1
      <4> QED BY <1>2, <4>1 DEF NumbersTell, Ordered
    <3> QED BY <3>1
  <2>2. ASSUME Tracked(b)', NEW k \in DOMAIN wire' PROVE reported'[b].version <= wire'[k].version
    <3>1. k + s \in DOMAIN wire /\ wire'[k] = wire[k + s] /\ 1 <= k + s
      BY <1>2, <1>3
    <3>2. CASE TrackStays(b)
      BY <2>2, <3>1, <3>2 DEF TrackStays, NumbersTell, Ordered, b
    <3>3. CASE 1 \in DOMAIN wire /\ TrackIsOf(b, wire[1])
      BY <3>1, <3>3 DEF TrackIsOf, NumbersTell, Ordered
    <3> QED BY <1>4, <2>2, <3>2, <3>3 DEF TrackGoes
  <2> QED BY <2>1, <2>2 DEF Ordered, b
<1>6. ASSUME version'[p] < Counters PROVE Numbered(p)'
  <2>1. Numbered(p)
    BY <1>1, <1>6 DEF NumbersTell
  <2>2. \A k \in DOMAIN wire' : wire'[k].stNum = wire'[k].version
    BY <1>2, <2>1 DEF Numbered
  <2>3. ASSUME Tracked(b)' PROVE tracks'[b].stNum = reported'[b].version
    <3>1. CASE TrackStays(b)
      BY <2>1, <2>3, <3>1 DEF TrackStays, Numbered, b
    <3>2. CASE 1 \in DOMAIN wire /\ TrackIsOf(b, wire[1])
      BY <2>1, <3>2 DEF TrackIsOf, Numbered
    <3> QED BY <1>4, <2>3, <3>1, <3>2 DEF TrackGoes
  <2>4. pub'[p].stNum = IF version'[p] = 0 THEN 1 ELSE version'[p]
    BY <1>1, <2>1 DEF Numbered
  <2> QED BY <2>2, <2>3, <2>4 DEF Numbered, b
<1>7. ASSUME NEW first \in [Nat -> Nat], Counted(p, first) PROVE Counted(p, first)'
  <2>1. \A k \in DOMAIN wire' : wire'[k].nth = first[wire'[k].version] + wire'[k].sqNum
    BY <1>2, <1>7 DEF Counted
  <2>2. ASSUME Tracked(b)' PROVE reported'[b].nth = first[reported'[b].version] + tracks'[b].sqNum
    <3>1. CASE TrackStays(b)
      BY <1>7, <2>2, <3>1 DEF TrackStays, Counted, b
    <3>2. CASE 1 \in DOMAIN wire /\ TrackIsOf(b, wire[1])
      BY <1>7, <3>2 DEF TrackIsOf, Counted
    <3> QED BY <1>4, <2>2, <3>1, <3>2 DEF TrackGoes
  <2>3. /\ frames' <= MaxFrames /\ version'[p] + pub'[p].sqNum <= frames'
        /\ version'[p] > 0 => frames' = first[version'[p]] + pub'[p].sqNum
    BY <1>1, <1>7 DEF Counted
  <2> QED BY <2>1, <2>2, <2>3 DEF Counted, b
<1>8. Uncounted => Uncounted'
  BY <1>1, <1>2 DEF Uncounted
<1> QED BY <1>5, <1>6, <1>7, <1>8 DEF NumbersTell

LEMMA ToldStep == Typed /\ Sources /\ Told /\ [Next]_vars => Told'
<1> SUFFICES ASSUME Typed, Typed', Sources, Told, [Next]_vars, NEW p \in Publishers, Only(p)'
             PROVE  NumbersTell(p)'
  BY TypedStep DEF Told
<1>1. Only(p) /\ NumbersTell(p)
  BY OnlyBefore DEF Told
<1>2. ASSUME NEW s \in PublisherStates, Sends(p, s) PROVE NumbersTell(p)'
  <2>1. Ordered(p)' /\ (version'[p] < Counters => Numbered(p)')
    BY <1>1, <1>2, OrderedSent, NumberedSent DEF NumbersTell
  <2>2. CASE MaxFrames < Counters
    <3>1. PICK first \in [Nat -> Nat] : Counted(p, first)
      BY <1>1, <2>2 DEF NumbersTell
    <3> QED BY <1>1, <1>2, <2>1, <2>2, <3>1, CountedSent DEF NumbersTell
  <2>3. CASE ~(MaxFrames < Counters)
    <3>1. Uncounted
      BY <1>1, <2>3 DEF NumbersTell
    <3>2. frames' = 0
      BY <1>2, <2>3, <3>1 DEF Sends, Sent, Uncounted
    <3>3. \A k \in DOMAIN wire' : wire'[k].nth = 0
      BY <1>2, <3>1, <3>2, SentOnTheWire DEF Sends, Tells, Uncounted
    <3> QED BY <2>1, <2>3, <3>2, <3>3 DEF NumbersTell, Uncounted
  <2> QED BY <2>2, <2>3
<1>3. CASE Quiet
  BY <1>1, <1>3, ToldQuiet
<1> QED BY <1>2, <1>3, OnlyBefore

(* Of a publisher that is alone on the segment frames arrive in the order   *)
(* of its states; stNum tells the state until it comes round, and sqNum     *)
(* which of the frames of the state it is, whatever is lost or doubled.     *)
THEOREM NumbersAreTold == Spec => []Told
<1>1. Spec => []Typed /\ []Sources
  BY Types, EveryFrameHasASource
<1> QED BY <1>1, ToldInitially, ToldStep, PTL DEF Spec

-----------------------------------------------------------------------------
(* Events.                                                                 *)
TellsState(e) ==
  /\ e.kind = "StateChange" => e.frame.version > e.before.version
  /\ e.kind \in {"Retransmission", "LossSuspected"} => e.frame.version = e.before.version
TellsLoss(e) == e.kind = "Retransmission" => e.frame.nth <= e.before.nth + 1

EventsTell ==
  Alone => /\ (\A p \in Publishers : version[p] < Counters) =>
                \A i \in DOMAIN events : TellsState(events[i])
           /\ \A i \in DOMAIN events : TellsLoss(events[i])

LEMMA AloneIsOnly ==
  ASSUME Alone, NEW p \in Publishers, version[p] > 0
  PROVE  Only(p)
  BY DEF Alone, Only

LEMMA HistoryGrows ==
  ASSUME Typed, [Next]_vars
  PROVE  /\ \A q \in Publishers : /\ version[q] \in Nat /\ version'[q] \in Nat
                                  /\ version[q] <= version'[q]
         /\ restarts' = 0 => restarts = 0
<1>1. version \in [Publishers -> Nat] /\ restarts \in Nat
  BY DEF Typed, PublishersTyped, NetTyped
<1>2. ASSUME NEW p \in Publishers, NEW s \in PublisherStates, Sends(p, s)
      PROVE  /\ \A q \in Publishers : /\ version[q] \in Nat /\ version'[q] \in Nat
                                      /\ version[q] <= version'[q]
             /\ restarts' = 0 => restarts = 0
  BY <1>2, VersionsGrow DEF Sends, Sent
<1>3. ASSUME NEW p \in Publishers, Restart(p) PROVE restarts' # 0 /\ UNCHANGED version
  BY <1>1, <1>3 DEF Restart, RestartPublisher
<1>4. CASE Quiet
  BY <1>1, <1>4 DEF Quiet
<1> QED BY <1>1, <1>2, <1>3, <1>4, StepsAreQuiet, SendsAre

LEMMA AloneBefore ==
  ASSUME Typed, [Next]_vars, Alone'
  PROVE  Alone
<1>1. restarts = 0
  BY HistoryGrows DEF Alone
<1>2. \A q \in Publishers : version[q] > 0 => version'[q] > 0
  BY HistoryGrows
<1> QED BY <1>1, <1>2 DEF Alone

(* The event of the frame that is taken.                                   *)
LEMMA TakenTells ==
  ASSUME Typed, Sources, Told, Alone, NEW f \in Frames, Arrived(f), IsTaken(f, BlockOf[f.src]),
         NEW e, e = TrackedEvent(BlockOf[f.src], f)
  PROVE  /\ version[f.src] < Counters => TellsState(e)
         /\ TellsLoss(e)
<1>1. PICK p \in Publishers : p = f.src
  BY DEF Frames
<1> DEFINE b == BlockOf[p]
<1>2. f = wire[1] /\ 1 \in DOMAIN wire /\ b \in Blocks
  BY <1>1 DEF Arrived
<1>3. f.version <= version[p] /\ f.version \in Nat \ {0} /\ f.nth \in Nat /\ f.sqNum \in Nat
  BY <1>1, <1>2 DEF Sources, Frames
<1>4. version[p] \in Nat /\ version[p] > 0
  <2>1. version[p] \in Nat
    BY DEF Typed, PublishersTyped
  <2> QED BY <1>3, <2>1
<1>5. Only(p) /\ NumbersTell(p)
  BY <1>4, AloneIsOnly DEF Told
<1>6. /\ tracks[b] \in Tracks \cup {NoTrack} /\ reported[b] \in Marks
      /\ Tracked(b) => tracks[b] \in Tracks
  BY <1>2 DEF Typed, SubscriberTyped, Tracked
<1>7. /\ Tracked(b) => reported[b].version <= f.version
      /\ ~Tracked(b) => reported[b].version = 0
  <2>1. Tracked(b) => reported[b].version <= f.version
    BY <1>2, <1>5 DEF NumbersTell, Ordered
  <2>2. ~Tracked(b) => reported[b].version = 0
    BY <1>2 DEF Sources, TrackHasSource, NothingReported
  <2> QED BY <2>1, <2>2
<1>8. /\ e.kind = Kind(tracks[b], f) /\ e.frame = f /\ e.before = reported[b]
  BY <1>1 DEF TrackedEvent, PlainEvent
<1>9. reported[b].version \in Nat /\ reported[b].nth \in Nat
  BY <1>6 DEF Marks
<1>10. version[p] < Counters => Numbered(p)
  BY <1>5 DEF NumbersTell
<1>11. Numbered(p) =>
         /\ f.stNum = f.version
         /\ Tracked(b) => tracks[b].stNum = reported[b].version
  BY <1>2 DEF Numbered
<1> HIDE DEF b
<1>12. CASE ~Tracked(b)
  <2>1. e.kind = "StateChange"
    BY <1>8, <1>12 DEF Kind, Tracked
  <2>2. f.version > reported[b].version
    BY <1>3, <1>7, <1>12
  <2> QED BY <1>8, <2>1, <2>2 DEF TellsState, TellsLoss
<1>13. CASE Tracked(b)
  <2>1. e.kind = IF f.stNum # tracks[b].stNum THEN "StateChange"
                 ELSE IF f.sqNum > Wrapping(tracks[b].sqNum) THEN "LossSuspected" ELSE "Retransmission"
    BY <1>8, <1>13 DEF Kind, Tracked
  <2>2. ASSUME version[p] < Counters PROVE TellsState(e)
    <3>1. f.stNum = f.version /\ tracks[b].stNum = reported[b].version
      BY <1>10, <1>11, <1>13, <2>2
    <3>2. e.kind = "StateChange" => f.version # reported[b].version
      BY <2>1, <3>1
    <3>3. e.kind \in {"Retransmission", "LossSuspected"} => f.version = reported[b].version
      BY <2>1, <3>1
    <3>4. f.version # reported[b].version => f.version > reported[b].version
      BY <1>3, <1>7, <1>9, <1>13
    <3> QED BY <1>8, <3>2, <3>3, <3>4 DEF TellsState
  <2>3. ASSUME e.kind = "Retransmission" PROVE f.nth <= reported[b].nth + 1
    <3>1. f.stNum = tracks[b].stNum /\ ~(f.sqNum > Wrapping(tracks[b].sqNum))
      BY <2>1, <2>3
    <3>2. CASE ~(MaxFrames < Counters)
      <4>1. f.nth = 0
        BY <1>2, <1>5, <3>2 DEF NumbersTell, Uncounted
      <4> QED BY <1>9, <4>1
    <3>3. CASE MaxFrames < Counters
      <4>1. PICK first \in [Nat -> Nat] : Counted(p, first)
        BY <1>5, <3>3 DEF NumbersTell
      <4>2. version[p] < Counters
        <5>1. frames <= MaxFrames /\ version[p] + pub[p].sqNum <= frames
          BY <4>1 DEF Counted
        <5>2. /\ frames \in Nat /\ MaxFrames \in Nat /\ Counters \in Nat /\ pub[p].sqNum \in Nat
          BY CountersAssumption, BlockOfAssumption
             DEF Typed, NetTyped, PublishersTyped, PublisherStates
        <5> QED BY <1>4, <3>3, <5>1, <5>2
      <4>3. f.version = reported[b].version
        BY <1>10, <1>11, <1>13, <3>1, <4>2
      <4>4. f.nth = first[f.version] + f.sqNum
        BY <1>2, <4>1 DEF Counted
      <4>5. reported[b].nth = first[reported[b].version] + tracks[b].sqNum
        BY <1>13, <4>1 DEF Counted, b
      <4>6. PICK q \in Nat : q = tracks[b].sqNum
        BY <1>6, <1>13 DEF Tracks
      <4>7. PICK w \in Nat : w = Wrapping(q) /\ w <= q + 1
        <5>1. Wrapping(q) \in 0..Counters - 1 /\ (q + 1 < Counters => Wrapping(q) = q + 1)
          BY WrappingIsTyped
        <5>2. Counters \in Nat
          BY CountersAssumption
        <5> QED BY <5>1, <5>2
      <4>8. PICK n \in Nat : n = first[f.version]
        BY <1>3
      <4>9. f.sqNum <= w
        BY <1>3, <3>1, <4>6, <4>7
      <4> QED BY <1>3, <4>3, <4>4, <4>5, <4>6, <4>7, <4>8, <4>9
    <3> QED BY <3>2, <3>3
  <2> QED BY <1>1, <1>8, <2>2, <2>3 DEF TellsLoss
<1> QED BY <1>12, <1>13

LEMMA EventsTellStep == Typed /\ Sources /\ Told /\ EventsTell /\ [Next]_vars => EventsTell'
<1> SUFFICES ASSUME Typed, Sources, Told, EventsTell, [Next]_vars, Alone'
             PROVE  /\ (\A p \in Publishers : version'[p] < Counters) =>
                         \A i \in DOMAIN events' : TellsState(events'[i])
                    /\ \A i \in DOMAIN events' : TellsLoss(events'[i])
  BY DEF EventsTell, TellsState, TellsLoss
<1>1. Alone
  BY AloneBefore
<1>2. ASSUME NEW p \in Publishers, version'[p] < Counters PROVE version[p] < Counters
  <2>1. version[p] \in Nat /\ version'[p] \in Nat /\ version[p] <= version'[p] /\ Counters \in Nat
    BY HistoryGrows, CountersAssumption
  <2> QED BY <1>2, <2>1
<1>3. ASSUME NEW e, EventIsNew(e)
      PROVE  /\ (\A p \in Publishers : version[p] < Counters) => TellsState(e)
             /\ TellsLoss(e)
  <2>1. CASE e.kind \in {"Expired", "AuthFailed"}
    BY <2>1 DEF TellsState, TellsLoss
  <2>2. ASSUME NEW f \in Frames, Arrived(f), IsTaken(f, BlockOf[f.src]),
               e = TrackedEvent(BlockOf[f.src], f)
        PROVE  /\ (\A p \in Publishers : version[p] < Counters) => TellsState(e)
               /\ TellsLoss(e)
    <3>1. f.src \in Publishers
      BY DEF Frames
    <3> QED BY <1>1, <2>2, <3>1, TakenTells
  <2> QED BY <1>3, <2>1, <2>2 DEF EventIsNew
<1>4. ASSUME NEW i \in DOMAIN events'
      PROVE  /\ (\A p \in Publishers : version[p] < Counters) => TellsState(events'[i])
             /\ TellsLoss(events'[i])
  <2>1. CASE \E j \in DOMAIN events : events'[i] = events[j]
    BY <1>1, <2>1 DEF EventsTell
  <2>2. CASE EventIsNew(events'[i])
    <3>1. PICK e : e = events'[i]
      OBVIOUS
    <3> QED BY <1>3, <2>2, <3>1
  <2> QED BY <2>1, <2>2, NewEvents
<1> QED BY <1>2, <1>4

LEMMA EventsTellInitially == Init => EventsTell
<1> SUFFICES ASSUME Init PROVE EventsTell
  OBVIOUS
<1>1. DOMAIN events = {}
  BY DEF Init, SubscriberInit
<1> QED BY <1>1 DEF EventsTell

(* Every event on its way to the application tells the truth about the      *)
(* frame it was made of and the one reported before.                        *)
THEOREM EventsTold == Spec => []EventsTell
<1>1. Spec => []Typed /\ []Sources /\ []Told
  BY Types, EveryFrameHasASource, NumbersAreTold
<1> QED BY <1>1, EventsTellInitially, EventsTellStep, PTL DEF Spec

(* Whatever is lost, doubled, dropped at the socket or waited with, the     *)
(* events of a block with one publisher tell the truth: about its state     *)
(* until stNum comes round, and of every frame reported as a retransmission *)
(* that none was lost before it.                                            *)
THEOREM GooseEventsTellTruth == Spec => []EventsTellTruth
<1>1. ASSUME EventsTell PROVE EventsTellTruth
  <2> SUFFICES ASSUME Alone
               PROVE  /\ (\A p \in Publishers : version[p] < Counters) => KindTellsState
                      /\ LossIsNoticed
    BY DEF EventsTellTruth
  <2>1. ASSUME \A p \in Publishers : version[p] < Counters PROVE KindTellsState
    <3>1. \A e \in Range(events) : TellsState(e)
      BY <1>1, <2>1 DEF EventsTell, Range
    <3>2. ASSUME NEW e \in Happened({"StateChange"}) PROVE e.frame.version > e.before.version
      <4>1. e \in Range(events) /\ e.kind = "StateChange"
        BY DEF Happened
      <4> QED BY <3>1, <4>1 DEF TellsState
    <3>3. ASSUME NEW e \in Happened({"Retransmission", "LossSuspected"})
          PROVE  e.frame.version = e.before.version
      <4>1. e \in Range(events) /\ e.kind \in {"Retransmission", "LossSuspected"}
        BY DEF Happened
      <4> QED BY <3>1, <4>1 DEF TellsState
    <3> QED BY <3>2, <3>3 DEF KindTellsState
  <2>2. LossIsNoticed
    <3>1. \A e \in Range(events) : TellsLoss(e)
      BY <1>1 DEF EventsTell, Range
    <3> QED BY <3>1 DEF LossIsNoticed, Happened, TellsLoss
  <2> QED BY <2>1, <2>2
<1> QED BY <1>1, EventsTold, PTL

-----------------------------------------------------------------------------
(* Simulation.                                                             *)
SimulatedAreLatched == IF simMode THEN simSeen \subseteq latched ELSE simSeen = {}

LEMMA LatchedStep == Typed /\ SimulatedAreLatched /\ [Next]_vars => SimulatedAreLatched'
<1> SUFFICES ASSUME Typed, SimulatedAreLatched, [Next]_vars PROVE SimulatedAreLatched'
  OBVIOUS
<1>1. ASSUME NEW f \in Frames, Arrived(f) PROVE SimulatedAreLatched'
  <2>1. PICK b : b = BlockOf[f.src]
    OBVIOUS
  <2>2. CASE IsTaken(f, b)
    BY <2>2 DEF IsTaken, Taken, LatchedAfter, SimulatedAreLatched
  <2>3. CASE IsLeft(f, b)
    BY <2>3 DEF IsLeft, LatchedAfter, SimulatedAreLatched
  <2> QED BY <1>1, <2>1, <2>2, <2>3 DEF Arrived
<1>2. CASE Lose \/ Expire \/ Tick \/ \E p \in Publishers : SendState(p) \/ SendAgain(p) \/ Restart(p)
  <2>1. UNCHANGED <<simMode, latched, simSeen>>
    BY <1>2 DEF Lose, Expire, Sweep, Tick, SubscriberTick, SendState, SendAgain, Transmit, Restart,
                subscriberVars, netVars
  <2> QED BY <2>1 DEF SimulatedAreLatched
<1>3. CASE Aside
  BY <1>3 DEF Aside, SimulatedAreLatched
<1> QED BY <1>1, <1>2, <1>3, StepsAre

LEMMA RealFramesStepOut ==
  Typed /\ SimulatedAreLatched /\ [Next]_vars => RealFramesStayOut
<1> SUFFICES ASSUME Typed, SimulatedAreLatched, [Next]_vars, NEW b \in simSeen, simMode,
                    NEW e \in RealFrames', e.block = b
             PROVE  e \in RealFrames
  BY DEF RealFramesStayOut
<1>1. /\ e \in Range(events') /\ e.frame.src \notin Simulated
      /\ e.kind \in {"StateChange", "Retransmission", "LossSuspected"}
  BY DEF RealFrames, Happened
<1>2. PICK i \in DOMAIN events' : e = events'[i]
  BY <1>1 DEF Range
<1>3. CASE \E j \in DOMAIN events : e = events[j]
  <2>1. e \in Range(events)
    BY <1>3 DEF Range
  <2> QED BY <1>1, <2>1 DEF RealFrames, Happened
<1>4. ASSUME NEW f \in Frames, IsTaken(f, BlockOf[f.src]), e = TrackedEvent(BlockOf[f.src], f)
      PROVE  FALSE
  <2>1. e.frame = f /\ BlockOf[f.src] = b
    BY <1>4 DEF TrackedEvent, PlainEvent
  <2>2. b \notin latched
    BY <1>1, <1>4, <2>1 DEF IsTaken, Taken
  <2> QED BY <2>2 DEF SimulatedAreLatched
<1>5. (\E j \in DOMAIN events : e = events[j]) \/ EventIsNew(e)
  BY <1>2, NewEvents
<1> QED BY <1>1, <1>3, <1>4, <1>5 DEF EventIsNew

(* Once a simulated frame of a block was taken, no real frame of it is,     *)
(* whoever sends and whatever is lost, until the mode is changed.           *)
THEOREM GooseSimulationIsKeptApart == Spec => SimulatedAndRealDoNotMix
<1>1. Init => SimulatedAreLatched
  BY DEF Init, SubscriberInit, SimulatedAreLatched
<1>2. Spec => []Typed
  BY Types
<1> QED BY <1>1, <1>2, LatchedStep, RealFramesStepOut, PTL DEF Spec, SimulatedAndRealDoNotMix

-----------------------------------------------------------------------------
(* A segment on which nothing is lost.                                     *)
Undisturbed ==
  /\ Alone /\ faults = 0 /\ prompt
  /\ \A p \in Publishers : version[p] > 0 => p \notin Simulated

(* sqNum n comes next after m.                                             *)
Follows(m, n) == n = 0 \/ n = Wrapping(m)

(* Frames follow each other, the last one has the numbers of the publisher,*)
(* and the track allows the time until the next one and more.              *)
FramesFollow(p) ==
  /\ \A k \in DOMAIN wire : k + 1 \in DOMAIN wire => Follows(wire[k].sqNum, wire[k + 1].sqNum)
  /\ Tracked(BlockOf[p]) /\ 1 \in DOMAIN wire => Follows(tracks[BlockOf[p]].sqNum, wire[1].sqNum)
LastIsCurrent(p) ==
  version[p] > 0 =>
    /\ wire # <<>> => /\ wire[Len(wire)].sqNum = pub[p].sqNum
                      /\ wire[Len(wire)].ttl = 2 * pub[p].interval
                      /\ pub[p].timer = pub[p].interval
    /\ wire = <<>> /\ Tracked(BlockOf[p]) =>
         /\ tracks[BlockOf[p]].sqNum = pub[p].sqNum
         /\ tracks[BlockOf[p]].left = pub[p].timer + pub[p].interval
InTime(p) == Tracked(BlockOf[p]) => tracks[BlockOf[p]].left > 0
InStep(p) == FramesFollow(p) /\ LastIsCurrent(p) /\ InTime(p)

NoAlarm(e) == e.kind \notin {"LossSuspected", "Expired"}

Calm ==
  Undisturbed => /\ latched = {}
                 /\ \A i \in DOMAIN events : NoAlarm(events[i])
                 /\ \A p \in Publishers : Only(p) => InStep(p)

LEMMA CalmInitially == Init => Calm
<1> SUFFICES ASSUME Init PROVE Calm
  OBVIOUS
<1>1. latched = {} /\ DOMAIN events = {} /\ wire = <<>> /\ DOMAIN wire = {}
  BY DEF Init, SubscriberInit
<1>2. ASSUME NEW p \in Publishers PROVE InStep(p)
  <2>1. version[p] = 0 /\ ~Tracked(BlockOf[p])
    BY BlockOfAssumption DEF Init, PublisherInit, SubscriberInit, Tracked
  <2> QED BY <1>1, <2>1 DEF InStep, FramesFollow, LastIsCurrent, InTime
<1> QED BY <1>1, <1>2 DEF Calm

LEMMA UndisturbedBefore ==
  ASSUME Typed, [Next]_vars, Undisturbed'
  PROVE  Undisturbed /\ UNCHANGED faults
<1>1. Alone
  BY AloneBefore DEF Undisturbed
<1>2. faults \in Nat /\ faults' = 0
  BY DEF Undisturbed, Typed, NetTyped
<1>3. ASSUME NEW p \in Publishers, version[p] > 0 PROVE p \notin Simulated
  <2>1. version'[p] > 0
    BY <1>3, HistoryGrows
  <2> QED BY <2>1 DEF Undisturbed
<1>4. UNCHANGED prompt /\ faults = 0
  <2>1. ASSUME NEW p \in Publishers, SendState(p) \/ SendAgain(p)
        PROVE  UNCHANGED prompt /\ faults = 0
    <3>1. PICK s \in PublisherStates : Sent(p, s)
      BY <2>1, SendsAre DEF Sends
    <3> QED BY <1>2, <3>1 DEF Sent
  <2>2. ASSUME NEW p \in Publishers, Restart(p) PROVE UNCHANGED prompt /\ faults = 0
    BY <1>2, <2>2 DEF Restart
  <2>3. ASSUME NEW f \in Frames, Arrived(f) PROVE UNCHANGED prompt /\ faults = 0
    BY <1>2, <2>3 DEF Arrived
  <2>4. CASE Lose
    BY <1>2, <2>4 DEF Lose
  <2>5. CASE Expire \/ Tick
    BY <1>2, <2>5 DEF Expire, Tick, netVars
  <2>6. CASE Aside
    BY <1>2, <2>6 DEF Aside
  <2> QED BY <2>1, <2>2, <2>3, <2>4, <2>5, <2>6, StepsAre
<1> QED BY <1>1, <1>2, <1>3, <1>4 DEF Undisturbed

(* Nothing was sent yet: the wire is empty and nothing is tracked.         *)
LEMMA NothingYet ==
  ASSUME Typed, Sources, NEW p \in Publishers, Only(p), version[p] = 0
  PROVE  wire = <<>> /\ DOMAIN wire = {} /\ ~Tracked(BlockOf[p])
<1>1. ASSUME NEW k \in DOMAIN wire PROVE FALSE
  <2>1. wire[k] \in Frames /\ wire[k].version <= version[p]
    BY OnlyOne
  <2> QED BY <2>1 DEF Frames
<1>2. PICK w \in Seq(Frames) : w = wire
  BY DEF Typed, NetTyped
<1>3. wire = <<>>
  <2>1. Len(w) \in Nat /\ (Len(w) > 0 => 1 \in DOMAIN w) /\ (Len(w) = 0 => w = <<>>)
    OBVIOUS
  <2>2. ~(Len(w) > 0)
    BY <1>1, <1>2, <2>1
  <2> QED BY <1>2, <2>1, <2>2
<1>4. ASSUME Tracked(BlockOf[p]) PROVE FALSE
  <2>1. 0 < reported[BlockOf[p]].version /\ reported[BlockOf[p]].version <= version[p]
    BY <1>4, OnlyOne
  <2>2. reported[BlockOf[p]].version \in Nat
    BY OnlyOne DEF Typed, SubscriberTyped, Marks
  <2> QED BY <2>1, <2>2
<1> QED BY <1>1, <1>3, <1>4

LEMMA InStepSent ==
  ASSUME Typed, Typed', Sources, NEW p \in Publishers, Only(p), InStep(p),
         NEW s \in PublisherStates, Sends(p, s), UNCHANGED faults
  PROVE  InStep(p)'
<1>1. /\ UNCHANGED <<tracks, reported>> /\ pub'[p] = s
      /\ wire' = Append(wire, Frame(p, s, version'[p], frames'))
  <2>1. faults' # faults + 1
    BY DEF Typed, NetTyped
  <2> QED BY <2>1 DEF Sends, Sent, subscriberVars
<1>2. PICK w \in Seq(Frames) : w = wire
  BY DEF Typed, NetTyped
<1>3. PICK f : /\ f = Frame(p, s, version'[p], frames')
               /\ f.sqNum = s.sqNum /\ f.ttl = 2 * s.interval
  <2>1. LET m == Frame(p, s, version'[p], frames') IN m.sqNum = s.sqNum /\ m.ttl = 2 * s.interval
    BY FrameSays
  <2> QED BY <2>1
<1>4. PICK n \in Nat : n = Len(w) /\ DOMAIN w = 1..n
  BY <1>2
<1>5. /\ DOMAIN Append(w, f) = 1..n + 1 /\ Append(w, f)[n + 1] = f /\ Len(Append(w, f)) = n + 1
      /\ \A k \in 1..n : Append(w, f)[k] = w[k]
      /\ Append(w, f) # <<>>
  BY <1>4
<1>6. wire' = Append(w, f)
  BY <1>1, <1>2, <1>3
<1>7. version[p] > 0 => Follows(pub[p].sqNum, s.sqNum)
  BY DEF Sends, NewState, SameState, Follows
<1>8. version[p] \in Nat
  BY OnlyOne
<1>9. FramesFollow(p)'
  <2>1. CASE n = 0
    <3>1. wire = <<>>
      BY <1>2, <1>4, <2>1
    <3>2. \A k \in DOMAIN wire' : k + 1 \notin DOMAIN wire'
      BY <1>5, <1>6, <2>1
    <3>3. ASSUME Tracked(BlockOf[p]) PROVE Follows(tracks[BlockOf[p]].sqNum, wire'[1].sqNum)
      <4>1. version[p] > 0
        BY <1>8, <3>3, NothingYet
      <4>2. tracks[BlockOf[p]].sqNum = pub[p].sqNum
        BY <3>1, <3>3, <4>1 DEF InStep, LastIsCurrent
      <4>3. wire'[1] = f
        BY <1>5, <1>6, <2>1
      <4> QED BY <1>3, <1>7, <4>1, <4>2, <4>3
    <3> QED BY <1>1, <3>2, <3>3 DEF FramesFollow, Tracked
  <2>2. CASE n # 0
    <3>1. wire # <<>> /\ n \in DOMAIN wire /\ 1 \in DOMAIN wire
      BY <1>2, <1>4, <2>2
    <3>2. version[p] > 0
      BY <1>8, <3>1, NothingYet
    <3>3. wire[n].sqNum = pub[p].sqNum
      BY <1>2, <1>4, <3>1, <3>2 DEF InStep, LastIsCurrent
    <3>4. ASSUME NEW k \in DOMAIN wire', k + 1 \in DOMAIN wire'
          PROVE  Follows(wire'[k].sqNum, wire'[k + 1].sqNum)
      <4>1. k \in 1..n /\ wire'[k] = w[k]
        BY <1>5, <1>6, <3>4
      <4>2. CASE k = n
        BY <1>2, <1>3, <1>5, <1>6, <1>7, <3>2, <3>3, <4>1, <4>2
      <4>3. CASE k # n
        <5>1. k + 1 \in 1..n /\ wire'[k + 1] = w[k + 1]
          BY <1>5, <1>6, <4>1, <4>3
        <5> QED BY <1>2, <1>4, <4>1, <5>1 DEF InStep, FramesFollow
      <4> QED BY <4>2, <4>3
    <3>5. wire'[1] = wire[1]
      BY <1>2, <1>4, <1>5, <1>6, <3>1
    <3> QED BY <1>1, <3>1, <3>4, <3>5 DEF InStep, FramesFollow, Tracked
  <2> QED BY <2>1, <2>2
<1>10. LastIsCurrent(p)'
  <2>1. wire' # <<>> /\ wire'[Len(wire')] = f
    BY <1>5, <1>6
  <2>2. s.timer = s.interval
    BY DEF Sends
  <2> QED BY <1>1, <1>3, <2>1, <2>2 DEF LastIsCurrent
<1>11. InTime(p)'
  BY <1>1 DEF InStep, InTime, Tracked
<1> QED BY <1>9, <1>10, <1>11 DEF InStep

(* The first frame arrives.                                                *)
LEMMA InStepTaken ==
  ASSUME Typed, Typed', Sources, NEW p \in Publishers, Only(p), InStep(p), p \notin Simulated,
         latched = {}, NEW f \in Frames, Arrived(f), UNCHANGED faults
  PROVE  /\ latched' = {} /\ InStep(p)'
         /\ IsTaken(f, BlockOf[f.src]) => NoAlarm(TrackedEvent(BlockOf[f.src], f))
<1>1. /\ wire # <<>> /\ f = wire[1] /\ 1 \in DOMAIN wire
      /\ IsTaken(f, BlockOf[f.src]) \/ IsLeft(f, BlockOf[f.src])
      /\ UNCHANGED <<pub, version>>
  BY DEF Arrived, publisherVars
<1>2. wire' = Tail(wire)
  <2>1. faults' # faults + 1
    BY DEF Typed, NetTyped
  <2> QED BY <2>1 DEF Arrived
<1>3. f.src = p /\ BlockOf[p] \in Blocks /\ (Tracked(BlockOf[p]) => p \notin Unverified)
  BY <1>1, OnlyOne
<1> DEFINE b == BlockOf[p]
<1>4. PICK n \in Nat \ {0} : n = Len(wire) /\ DOMAIN wire = 1..n
  BY <1>1 DEF Typed, NetTyped
<1>5. /\ DOMAIN wire' = 1..n - 1 /\ Len(wire') = n - 1
      /\ \A k \in 1..n - 1 : wire'[k] = wire[k + 1]
      /\ n = 1 <=> wire' = <<>>
  <2>1. PICK w \in Seq(Frames) : w = wire
    BY DEF Typed, NetTyped
  <2>2. Len(w) = n /\ w # <<>>
    BY <1>1, <1>4, <2>1
  <2>3. /\ DOMAIN Tail(w) = 1..n - 1 /\ Len(Tail(w)) = n - 1
        /\ \A k \in 1..n - 1 : Tail(w)[k] = w[k + 1]
    BY <2>2
  <2>4. PICK t \in Seq(Frames) : t = wire'
    BY DEF Typed, NetTyped
  <2>5. t = <<>> <=> Len(t) = 0
    OBVIOUS
  <2> QED BY <1>2, <2>1, <2>3, <2>4, <2>5
<1>6. \A k \in DOMAIN wire' : k + 1 \in DOMAIN wire' => Follows(wire'[k].sqNum, wire'[k + 1].sqNum)
  <2>1. ASSUME NEW k \in 1..n - 1, k + 1 \in 1..n - 1
        PROVE  Follows(wire'[k].sqNum, wire'[k + 1].sqNum)
    <3>1. /\ wire'[k] = wire[k + 1] /\ wire'[k + 1] = wire[k + 1 + 1]
          /\ k + 1 \in DOMAIN wire /\ k + 1 + 1 \in DOMAIN wire
      BY <1>4, <1>5, <2>1
    <3> QED BY <3>1 DEF InStep, FramesFollow
  <2> QED BY <1>5, <2>1
<1>7. ASSUME wire' # <<>>
      PROVE  /\ wire'[1] = wire[1 + 1] /\ 1 + 1 \in DOMAIN wire
             /\ wire'[Len(wire')] = wire[Len(wire)]
  <2>1. n - 1 \in 1..n - 1 /\ 1 \in 1..n - 1 /\ n - 1 + 1 = n
    BY <1>5, <1>7
  <2> QED BY <1>4, <1>5, <2>1
<1>8. version[p] > 0
  BY <1>1, OnlyOne, NothingYet
<1>9. /\ wire[Len(wire)].sqNum = pub[p].sqNum /\ wire[Len(wire)].ttl = 2 * pub[p].interval
      /\ pub[p].timer = pub[p].interval
  BY <1>1, <1>8 DEF InStep, LastIsCurrent
<1>10. CASE IsTaken(f, b)
  <2>1. /\ Tracked(b)' /\ tracks'[b].sqNum = f.sqNum /\ tracks'[b].left = f.ttl
    BY <1>3, <1>10, TakenIsTracked DEF TrackIsOf
  <2>2. latched' = {}
    BY <1>3, <1>10 DEF IsTaken, LatchedAfter
  <2>3. FramesFollow(p)'
    <3>1. ASSUME 1 \in DOMAIN wire' PROVE Follows(tracks'[b].sqNum, wire'[1].sqNum)
      <4>1. wire' # <<>>
        BY <3>1
      <4> QED BY <1>1, <1>7, <2>1, <4>1 DEF InStep, FramesFollow
    <3> QED BY <1>6, <3>1 DEF FramesFollow
  <2>4. LastIsCurrent(p)'
    <3>1. wire' = <<>> => f = wire[Len(wire)]
      BY <1>1, <1>4, <1>5
    <3>2. PICK i \in Nat : i = pub[p].interval
      BY DEF Typed, PublishersTyped, PublisherStates
    <3>3. wire' = <<>> => tracks'[b].left = pub[p].timer + pub[p].interval
      BY <1>9, <2>1, <3>1, <3>2
    <3> QED BY <1>1, <1>7, <1>9, <2>1, <3>1, <3>3 DEF LastIsCurrent
  <2>5. InTime(p)'
    <3>1. f.ttl \in 2..2 * LongestInterval
      BY DEF Frames
    <3>2. f.ttl > 0
      BY <3>1, Intervals
    <3> QED BY <2>1, <3>2 DEF InTime
  <2>6. NoAlarm(TrackedEvent(b, f))
    <3>1. TrackedEvent(b, f).kind = Kind(tracks[b], f)
      BY DEF TrackedEvent, PlainEvent
    <3>2. Kind(tracks[b], f) # "LossSuspected"
      <4>1. CASE ~Tracked(b)
        BY <4>1 DEF Tracked, Kind
      <4>2. CASE Tracked(b)
        <5>1. f.sqNum = 0 \/ f.sqNum = Wrapping(tracks[b].sqNum)
          BY <1>1, <4>2 DEF InStep, FramesFollow, Follows
        <5>2. PICK m \in Nat : m = Wrapping(tracks[b].sqNum)
          <6>1. tracks[b] \in Tracks
            BY <1>3, <4>2 DEF Typed, SubscriberTyped, Tracked
          <6>2. tracks[b].sqNum \in Nat
            BY <6>1 DEF Tracks
          <6> QED BY <6>2, WrappingIsTyped
        <5>3. ~(f.sqNum > Wrapping(tracks[b].sqNum))
          BY <5>1, <5>2
        <5> QED BY <5>3 DEF Kind
      <4> QED BY <4>1, <4>2
    <3>3. Kind(tracks[b], f) \in {"StateChange", "Retransmission", "LossSuspected"}
      BY KindOfTaken
    <3> QED BY <3>1, <3>2, <3>3 DEF NoAlarm
  <2> QED BY <1>3, <2>2, <2>3, <2>4, <2>5, <2>6 DEF InStep
<1>11. CASE IsLeft(f, b) /\ ~IsTaken(f, b)
  <2>1. UNCHANGED tracks /\ f.src \in Unverified /\ UNCHANGED latched
    BY <1>3, <1>11 DEF IsLeft, Taken
  <2>2. ~Tracked(b) /\ ~Tracked(b)'
    BY <1>3, <2>1 DEF Tracked
  <2>3. FramesFollow(p)' /\ InTime(p)'
    BY <1>6, <2>2 DEF FramesFollow, InTime
  <2>4. LastIsCurrent(p)'
    BY <1>1, <1>7, <1>9, <2>2 DEF LastIsCurrent
  <2> QED BY <1>3, <1>11, <2>1, <2>3, <2>4 DEF InStep
<1> QED BY <1>1, <1>3, <1>10, <1>11

(* Time passes: the wire is empty, and what the track allows is more than   *)
(* the time that the publisher waits.                                       *)
LEMMA InStepTicked ==
  ASSUME Typed, Typed', Sources, NEW p \in Publishers, Only(p), InStep(p), prompt, Tick
  PROVE  InStep(p)'
<1>1. /\ PublisherTick /\ SubscriberTick /\ UNCHANGED wire /\ wire = <<>>
  <2>1. events = <<>>
    BY DEF Tick
  <2>2. ~Blocked
    BY <2>1, EventCapacityAssumption DEF Blocked
  <2> QED BY <2>2 DEF Tick, netVars
<1> DEFINE b == BlockOf[p]
<1>2. b \in Blocks /\ (version[p] > 0 => pub[p].started) /\ version[p] \in Nat
  BY OnlyOne
<1>3. ASSUME Tracked(b)'
      PROVE  /\ tracks'[b].sqNum = pub'[p].sqNum /\ tracks'[b].left > 0
             /\ tracks'[b].left = pub'[p].timer + pub'[p].interval
  <2>1. Tracked(b)
    BY <1>1, <1>2, <1>3, TickedTracks DEF Typed, Tracked
  <2>2. version[p] > 0 /\ pub[p].started
    BY <1>2, <2>1, NothingYet
  <2>3. tracks[b].sqNum = pub[p].sqNum /\ tracks[b].left = pub[p].timer + pub[p].interval
    BY <1>1, <2>1, <2>2 DEF InStep, LastIsCurrent
  <2>4. /\ pub[p].timer > 0 /\ pub'[p].timer = pub[p].timer - 1
        /\ pub'[p].interval = pub[p].interval /\ pub'[p].sqNum = pub[p].sqNum
    BY <1>1, <2>2, TickedPublishers DEF Typed
  <2>5. PICK i \in Nat \ {0}, t \in Nat : i = pub[p].interval /\ t = pub[p].timer
    BY Intervals DEF Typed, PublishersTyped, PublisherStates
  <2>6. tracks'[b].sqNum = tracks[b].sqNum /\ tracks'[b].left = tracks[b].left - 1
    <3>1. tracks[b].left > 0
      BY <2>1 DEF InStep, InTime
    <3> QED BY <1>1, <1>2, <2>1, <3>1, TickedTracks DEF Typed
  <2> QED BY <2>3, <2>4, <2>5, <2>6
<1>4. FramesFollow(p)'
  <2>1. DOMAIN wire' = {}
    BY <1>1
  <2> QED BY <2>1 DEF FramesFollow
<1>5. LastIsCurrent(p)' /\ InTime(p)'
  BY <1>1, <1>3 DEF LastIsCurrent, InTime
<1> QED BY <1>4, <1>5 DEF InStep

(* No block is overdue while nothing is lost.                              *)
LEMMA NothingIsOverdue ==
  ASSUME Typed, Sources, Calm, Undisturbed
  PROVE  Overdue = {}
<1> SUFFICES ASSUME NEW b \in Blocks, Tracked(b), tracks[b].left = 0 PROVE FALSE
  BY DEF Overdue
<1>1. PICK q \in Publishers : /\ BlockOf[q] = b /\ 0 < reported[b].version
                              /\ reported[b].version <= version[q]
  BY DEF Sources, TrackHasSource
<1>2. version[q] > 0
  <2>1. reported[b].version \in Nat /\ version[q] \in Nat
    BY DEF Typed, SubscriberTyped, PublishersTyped, Marks
  <2> QED BY <1>1, <2>1
<1>3. Only(q)
  BY <1>2, AloneIsOnly DEF Undisturbed
<1>4. tracks[b].left > 0
  BY <1>1, <1>3 DEF Calm, InStep, InTime
<1> QED BY <1>4

LEMMA CalmStep == Typed /\ Sources /\ Calm /\ [Next]_vars => Calm'
<1> SUFFICES ASSUME Typed, Sources, Calm, [Next]_vars, Undisturbed'
             PROVE  /\ latched' = {}
                    /\ \A i \in DOMAIN events' : NoAlarm(events'[i])
                    /\ \A p \in Publishers : Only(p)' => InStep(p)'
  BY DEF Calm, NoAlarm
<1>1. Undisturbed /\ UNCHANGED faults /\ Typed'
  BY UndisturbedBefore, TypedStep
<1>2. latched = {} /\ \A i \in DOMAIN events : NoAlarm(events[i])
  BY <1>1 DEF Calm
<1>3. Overdue = {} /\ ~Expire
  BY <1>1, NothingIsOverdue DEF Expire, Sweep
<1>4. ASSUME NEW f \in Frames, Arrived(f)
      PROVE  /\ latched' = {}
             /\ \A p \in Publishers : Only(p) => InStep(p)'
             /\ IsTaken(f, BlockOf[f.src]) => NoAlarm(TrackedEvent(BlockOf[f.src], f))
  <2>1. PICK q \in Publishers : q = f.src
    BY DEF Frames
  <2>2. version[q] > 0
    <3>1. f.version <= version[q] /\ f.version \in Nat \ {0} /\ version[q] \in Nat
      BY <1>4, <2>1 DEF Arrived, Sources, Frames, Typed, PublishersTyped
    <3> QED BY <3>1
  <2>3. Only(q) /\ q \notin Simulated /\ InStep(q)
    BY <1>1, <2>2, AloneIsOnly DEF Undisturbed, Calm
  <2>4. \A p \in Publishers : Only(p) => p = q
    BY <2>2 DEF Only
  <2>5. /\ latched' = {} /\ InStep(q)'
        /\ IsTaken(f, BlockOf[f.src]) => NoAlarm(TrackedEvent(BlockOf[f.src], f))
    BY <1>1, <1>2, <1>4, <2>3, InStepTaken
  <2> QED BY <2>4, <2>5
<1>5. latched' = {}
  <2>1. CASE Lose \/ Tick \/ Aside \/ \E p \in Publishers : SendState(p) \/ SendAgain(p) \/ Restart(p)
    <3>1. UNCHANGED latched
      BY <2>1 DEF Lose, Tick, SubscriberTick, Aside, SendState, SendAgain, Transmit, Restart, subscriberVars
    <3> QED BY <1>2, <3>1
  <2> QED BY <1>3, <1>4, <2>1, StepsAre
<1>6. ASSUME NEW i \in DOMAIN events' PROVE NoAlarm(events'[i])
  <2>1. CASE \E j \in DOMAIN events : events'[i] = events[j]
    BY <1>2, <2>1
  <2>2. CASE EventIsNew(events'[i])
    <3>1. PICK e : e = events'[i]
      OBVIOUS
    <3>2. NoAlarm(e)
      BY <1>3, <1>4, <2>2, <3>1 DEF EventIsNew, NoAlarm
    <3> QED BY <3>1, <3>2
  <2> QED BY <2>1, <2>2, NewEvents
<1>7. ASSUME NEW p \in Publishers, Only(p)' PROVE InStep(p)'
  <2>1. Only(p) /\ InStep(p)
    BY <1>1, <1>7, OnlyBefore DEF Calm
  <2>2. ASSUME NEW q \in Publishers, SendState(q) \/ SendAgain(q) PROVE InStep(p)'
    <3>1. PICK s \in PublisherStates : Sends(q, s)
      BY <2>2, SendsAre
    <3>2. q = p
      BY <1>7, <3>1 DEF Sends, Only
    <3> QED BY <1>1, <2>1, <3>1, <3>2, InStepSent
  <2>3. ASSUME NEW q \in Publishers, Restart(q) PROVE FALSE
    BY <1>7, <2>3 DEF Restart, Only, Typed, NetTyped
  <2>4. ASSUME NEW f \in Frames, Arrived(f) PROVE InStep(p)'
    BY <1>4, <2>1, <2>4
  <2>5. CASE Lose
    <3>1. faults' # faults
      BY <2>5 DEF Lose, Typed, NetTyped
    <3> QED BY <1>1, <3>1
  <2>6. CASE Tick
    BY <1>1, <2>1, <2>6, InStepTicked DEF Undisturbed
  <2>7. CASE Aside
    <3>1. UNCHANGED <<pub, version, wire, tracks>>
      BY <2>7 DEF Aside
    <3> QED BY <2>1, <3>1 DEF InStep, FramesFollow, LastIsCurrent, InTime, Tracked
  <2> QED BY <1>3, <2>2, <2>3, <2>4, <2>5, <2>6, <2>7, StepsAre
<1> QED BY <1>5, <1>6, <1>7

(* While nothing is lost or doubled frames follow each other by sqNum, the  *)
(* last one is the publisher's latest, and the time it allows outlasts what *)
(* the publisher waits before it sends the next.                            *)
THEOREM NothingIsLost == Spec => []Calm
<1>1. Spec => []Typed /\ []Sources
  BY Types, EveryFrameHasASource
<1> QED BY <1>1, CalmInitially, CalmStep, PTL DEF Spec

(* While nothing is lost, doubled or dropped and the application takes its  *)
(* events at once, the block of a real publisher neither expires nor is a   *)
(* loss of its frames suspected, whatever TMin and TMax are and wherever    *)
(* the numbers wrap: its next frame is always there before the time is over *)
(* that the last one allowed.                                               *)
THEOREM GooseNoFalseAlarm == Spec => []NoFalseAlarm
<1>1. ASSUME Calm PROVE NoFalseAlarm
  <2> SUFFICES ASSUME Undisturbed PROVE Happened({"LossSuspected", "Expired"}) = {}
    BY DEF NoFalseAlarm, Undisturbed
  <2>1. \A e \in Range(events) : NoAlarm(e)
    BY <1>1 DEF Calm, Range
  <2> QED BY <2>1 DEF Happened, NoAlarm
<1> QED BY <1>1, NothingIsLost, PTL
=============================================================================
