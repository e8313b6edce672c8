----------------------------- MODULE SampledValues -----------------------------
(***************************************************************************)
(* Sampled values (iec61850-sv, publisher.rs and subscriber.rs): a         *)
(* publisher sends the sample it was last given at every period, numbered  *)
(* by smpCnt, which starts again every second; a subscriber tells from     *)
(* smpCnt whether samples were lost.  A frame holds Packed samples: one,   *)
(* where the publisher is this one.  The subscriber may be held up by its  *)
(* application in the middle of a frame.  What was measured is left out.   *)
(***************************************************************************)
EXTENDS Integers, Sequences, Functions

CONSTANTS
  SvPublishers,     \* publishers, all of one svID
  SvSimulated,      \* publishers whose frames carry the simulation bit
  SvUnverified,     \* publishers whose signatures the subscriber does not accept
  SvWrap,           \* SvConfig::smp_cnt_wrap
  Packed,           \* samples in a frame
  SvWireSize,       \* frames that the socket of the subscriber holds
  SvEventCapacity,  \* capacity of the channel of events: 256
  MaxSamples,       \* MaxSamples[p]: bound on the samples of p
  MaxSvFaults,      \* bound on the frames lost or doubled on their way
  MaxSvRestarts     \* MaxSvRestarts[p]: bound on the restarts of p

ASSUME SvAssumption ==
  /\ SvWrap \in Nat /\ SvWrap > 1 /\ SvWrap <= 65535
  /\ Packed \in Nat \ {0}
  /\ SvEventCapacity \in Nat \ {0}
  /\ "nobody" \notin SvPublishers

VARIABLES
  svPub,      \* of each publisher: smp_cnt, and as history its run and how
              \* many samples it has sent
  svWire,     \* frames on their way
  svHand,     \* what is left of the frame that the subscriber has in hand
  svLast,     \* last[svID], or NoSample
  svMode,     \* the simulation mode
  svLatched,  \* whether the svID is among simulated_subs
  svEvents,   \* events that the application has yet to take
  svBefore,   \* history: the sample last tracked
  svFaults

svVars == <<svPub, svWire, svHand, svLast, svMode, svLatched, svEvents, svBefore,
            svFaults>>

NoSample == -1
NothingBefore == [src |-> "nobody", run |-> 0, nth |-> 0, count |-> 0, kind |-> "Sample"]
EmptyHand == [sim |-> FALSE, asdus |-> <<>>]

SvInit ==
  /\ svPub = [p \in SvPublishers |-> [count |-> 0, run |-> 0, nth |-> 0]]
  /\ svWire = <<>>
  /\ svHand = EmptyHand
  /\ svLast = NoSample
  /\ svMode = FALSE
  /\ svLatched = FALSE
  /\ svEvents = <<>>
  /\ svBefore = NothingBefore
  /\ svFaults = 0

-----------------------------------------------------------------------------
(* smp_cnt, n samples on: the number after SvWrap - 1 is 0.                 *)
CountAfter(n, c) == (c + n) % SvWrap

Asdu(p, i) ==
  [src |-> p, run |-> svPub[p].run, nth |-> svPub[p].nth + i,
   count |-> CountAfter(i, svPub[p].count)]

SvFrame(p) == [i \in 1..Packed |-> Asdu(p, i - 1)]

(* A period is over. The socket drops what it cannot hold.                  *)
PublishSample(p) ==
  /\ svPub[p].nth + Packed <= MaxSamples[p]
  /\ svPub' = [svPub EXCEPT ![p] = [count |-> CountAfter(Packed, @.count), run |-> @.run,
                                  nth |-> @.nth + Packed]]
  /\ svWire' = IF Len(svWire) < SvWireSize THEN Append(svWire, SvFrame(p)) ELSE svWire
  /\ UNCHANGED <<svHand, svLast, svMode, svLatched, svEvents, svBefore, svFaults>>

RestartSv(p) ==
  /\ svPub[p].nth > 0 /\ svPub[p].run < MaxSvRestarts[p]
  /\ svPub' = [svPub EXCEPT ![p] = [count |-> 0, run |-> @.run + 1, nth |-> @.nth]]
  /\ UNCHANGED <<svWire, svHand, svLast, svMode, svLatched, svEvents, svBefore, svFaults>>

LoseFrame ==
  /\ svWire # <<>> /\ svFaults < MaxSvFaults
  /\ svWire' = Tail(svWire)
  /\ svFaults' = svFaults + 1
  /\ UNCHANGED <<svPub, svHand, svLast, svMode, svLatched, svEvents, svBefore>>

DoubleFrame ==
  /\ svWire # <<>> /\ svFaults < MaxSvFaults
  /\ svWire' = <<Head(svWire)>> \o svWire
  /\ svFaults' = svFaults + 1
  /\ UNCHANGED <<svPub, svHand, svLast, svMode, svLatched, svEvents, svBefore>>

-----------------------------------------------------------------------------
SvBlocked == Len(svEvents) > SvEventCapacity

(* A frame is received; the simulation mode is read once for all of it.     *)
TakeSvFrame ==
  /\ svHand.asdus = <<>> /\ svWire # <<>> /\ ~SvBlocked
  /\ svHand' = [sim |-> svMode, asdus |-> Head(svWire)]
  /\ svWire' = Tail(svWire)
  /\ UNCHANGED <<svPub, svLast, svMode, svLatched, svEvents, svBefore, svFaults>>

(* sim_gate                                                                 *)
GateTaken(a) ==
  IF svHand.sim THEN a.src \in SvSimulated \/ ~svLatched ELSE a.src \notin SvSimulated
GateLatched(a) == svHand.sim /\ (a.src \in SvSimulated \/ svLatched)

(* What the sample numbered c is after the one numbered prev.               *)
(* Slip: any number below the last one passes for the start of a second.    *)
SvKindOfDrop(prev, c) ==
  IF prev = NoSample \/ c = prev + 1 THEN "Sample"
  ELSE IF c < prev THEN "Wrap"
  ELSE IF c > prev + 1 THEN "SampleLoss" ELSE "Sample"

SvKind(prev, c) ==
  IF prev = NoSample \/ c = prev + 1 THEN "Sample"
  ELSE IF c = 0 /\ prev > 0 THEN "Wrap"
  ELSE IF c > prev + 1 THEN "SampleLoss" ELSE "Sample"

(* The event tells how many samples are missing: got - expected.            *)
SvEvent(a, kind) ==
  [src |-> a.src, run |-> a.run, nth |-> a.nth, count |-> a.count, kind |-> kind,
   lost |-> IF kind = "SampleLoss" THEN a.count - (svLast + 1) ELSE 0,
   before |-> svBefore]

NextAsdu == Head(svHand.asdus)
AsduDone == svHand' = [svHand EXCEPT !.asdus = Tail(@)]

DeliverSample ==
  /\ svHand.asdus # <<>> /\ ~SvBlocked
  /\ NextAsdu.src \notin SvUnverified /\ GateTaken(NextAsdu)
  /\ svLatched' = GateLatched(NextAsdu)
  /\ svEvents' = Append(svEvents, SvEvent(NextAsdu, SvKind(svLast, NextAsdu.count)))
  /\ svLast' = NextAsdu.count
  /\ svBefore' = [src |-> NextAsdu.src, run |-> NextAsdu.run, nth |-> NextAsdu.nth,
                  count |-> NextAsdu.count, kind |-> "Sample"]
  /\ AsduDone
  /\ UNCHANGED <<svPub, svWire, svMode, svFaults>>

PassOverSample ==
  /\ svHand.asdus # <<>> /\ ~SvBlocked
  /\ NextAsdu.src \notin SvUnverified /\ ~GateTaken(NextAsdu)
  /\ svLatched' = GateLatched(NextAsdu)
  /\ AsduDone
  /\ UNCHANGED <<svPub, svWire, svLast, svMode, svEvents, svBefore, svFaults>>

(* Reported, but neither tracked nor gated.                                 *)
RejectSample ==
  /\ svHand.asdus # <<>> /\ ~SvBlocked
  /\ NextAsdu.src \in SvUnverified
  /\ svEvents' = Append(svEvents, SvEvent(NextAsdu, "AuthFailed"))
  /\ AsduDone
  /\ UNCHANGED <<svPub, svWire, svLast, svMode, svLatched, svBefore, svFaults>>

RecvSample ==
  /\ svEvents # <<>>
  /\ svEvents' = Tail(svEvents)
  /\ UNCHANGED <<svPub, svWire, svHand, svLast, svMode, svLatched, svBefore, svFaults>>

SetSvMode(on) ==
  /\ SvSimulated # {} /\ svMode # on
  /\ svMode' = on
  /\ UNCHANGED <<svPub, svWire, svHand, svLast, svLatched, svEvents, svBefore, svFaults>>

SvNext ==
  \/ \E p \in SvPublishers : PublishSample(p) \/ RestartSv(p)
  \/ LoseFrame \/ DoubleFrame
  \/ TakeSvFrame \/ DeliverSample \/ PassOverSample \/ RejectSample
  \/ RecvSample
  \/ \E on \in BOOLEAN : SetSvMode(on)

SvSpec == SvInit /\ [][SvNext]_svVars

-----------------------------------------------------------------------------
SvTypeOK ==
  /\ \A p \in SvPublishers : svPub[p].count \in 0..SvWrap - 1
  /\ svLast \in {NoSample} \cup 0..SvWrap - 1
  /\ Len(svEvents) <= SvEventCapacity + 1 /\ Len(svHand.asdus) <= Packed
  /\ svLatched \in BOOLEAN /\ svMode \in BOOLEAN

(* The events on a sample that is newer than the one before, of the same    *)
(* run of the same publisher.                                               *)
Progress ==
  {e \in Range(svEvents) : /\ e.kind # "AuthFailed"
                           /\ e.src = e.before.src /\ e.run = e.before.run
                           /\ e.nth > e.before.nth}
SameSecond(e) == e.nth - e.count = e.before.nth - e.before.count

(* Samples lost within a second are told, and how many; across the start of *)
(* a second all that is told is that there was one, if its first sample     *)
(* came; and none is said to be lost that was not. (run, kind)              *)
SampleLossIsTold ==
  \A e \in Progress :
    LET missing == e.nth - e.before.nth - 1
    IN  /\ SameSecond(e) => e.kind # "Wrap" /\ e.lost = missing
        /\ e.kind = "Wrap" => e.count = 0
        /\ e.kind = "SampleLoss" => missing > 0 /\ e.lost <= missing
                                    /\ (missing - e.lost) % SvWrap = 0
=============================================================================
