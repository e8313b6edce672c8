---------------------------- MODULE GooseSubscriber ----------------------------
(***************************************************************************)
(* A GOOSE subscriber (iec61850-goose, subscriber.rs).  One task receives  *)
(* frames, decides by the simulation mode whether to take them, follows    *)
(* stNum and sqNum of each control block, and tells the application what   *)
(* it made of each frame.  A control block that is silent for longer than  *)
(* the time its last frame allowed is reported as expired.                 *)
(*                                                                         *)
(* Events go through a bounded channel: when it is full the task waits, in *)
(* the middle of its loop, for the application.  The event it waits with   *)
(* is the last of `events', one more than the channel holds.               *)
(***************************************************************************)
EXTENDS GooseNumbers, Sequences, FiniteSets

CONSTANTS
  Blocks,        \* control blocks (gocbRef)
  EventCapacity  \* capacity of the channel of events: 64

ASSUME EventCapacityAssumption == EventCapacity \in Nat \ {0}

VARIABLES
  tracks,   \* the frame last taken of each control block, if any
  simMode,  \* the simulation mode, set by the application
  latched,  \* simulated_subs: blocks whose real frames are ignored
  events,   \* events that the application has yet to take
  reported  \* history: the frame last reported of each block (its version and
            \* number), or NothingReported

subscriberVars == <<tracks, simMode, latched, events, reported>>

NoTrack == [left |-> 0]
Tracked(b) == tracks[b] # NoTrack

NothingReported == [version |-> 0, nth |-> 0]

SubscriberInit ==
  /\ tracks = [b \in Blocks |-> NoTrack]
  /\ simMode = FALSE
  /\ latched = {}
  /\ events = <<>>
  /\ reported = [b \in Blocks |-> NothingReported]

Blocked == Len(events) > EventCapacity

SetSimulationMode(on) ==
  /\ simMode # on
  /\ simMode' = on
  /\ UNCHANGED <<tracks, latched, events, reported>>

(* The application takes an event.                                          *)
RecvEvent ==
  /\ events # <<>>
  /\ events' = Tail(events)
  /\ UNCHANGED <<tracks, simMode, latched, reported>>

(* sim_gate: which frames are taken, and which blocks are latched then.     *)
(* Slip: a simulated frame does not latch its block.                        *)
LatchedNever(b, simulated) == IF simMode THEN latched ELSE {}

LatchedAfter(b, simulated) ==
  IF ~simMode THEN {}
  ELSE IF simulated THEN latched \cup {b}
  ELSE latched

Taken(b, simulated) ==
  IF simMode THEN simulated \/ b \notin latched ELSE ~simulated

(* What a frame f is to the application, after the frame tracked in tr.     *)
(* Slip: numbers left out are not looked at.                                *)
KindIgnoringGaps(tr, f) ==
  IF tr = NoTrack \/ f.stNum # tr.stNum THEN "StateChange" ELSE "Retransmission"

Kind(tr, f) ==
  IF tr = NoTrack \/ f.stNum # tr.stNum THEN "StateChange"
  ELSE IF f.sqNum > Wrapping(tr.sqNum) THEN "LossSuspected"
  ELSE "Retransmission"

(* Slip: the deadline counts from the first frame of a state.               *)
TrackedOnce(tr, f) ==
  [stNum |-> f.stNum, sqNum |-> f.sqNum,
   left |-> IF tr # NoTrack /\ tr.stNum = f.stNum THEN tr.left ELSE f.ttl]

TrackAfter(tr, f) == [stNum |-> f.stNum, sqNum |-> f.sqNum, left |-> f.ttl]

(* What the application is told of a frame f: plain_event, which tracks     *)
(* nothing, and track_and_build, for a frame that is taken.                 *)
PlainEvent(kind, b, f) == [kind |-> kind, block |-> b, frame |-> f, before |-> reported[b]]
TrackedEvent(b, f) == PlainEvent(Kind(tracks[b], f), b, f)

(* A frame f of block b is taken.                                           *)
TakeFrame(b, f, simulated) ==
  /\ ~Blocked
  /\ Taken(b, simulated)
  /\ latched' = LatchedAfter(b, simulated)
  /\ tracks' = [tracks EXCEPT ![b] = TrackAfter(@, f)]
  /\ events' = Append(events, TrackedEvent(b, f))
  /\ reported' = [reported EXCEPT ![b] = [version |-> f.version, nth |-> f.nth]]
  /\ UNCHANGED simMode

PassOverFrame(b, simulated) ==
  /\ ~Blocked
  /\ ~Taken(b, simulated)
  /\ latched' = LatchedAfter(b, simulated)
  /\ UNCHANGED <<tracks, simMode, events, reported>>

(* A frame whose signature does not verify is reported and goes no further. *)
(* Slip: it is tracked like any other.                                      *)
RejectFrameTracking(b, f) ==
  /\ ~Blocked
  /\ tracks' = [tracks EXCEPT ![b] = TrackAfter(@, f)]
  /\ events' = Append(events, PlainEvent("AuthFailed", b, f))
  /\ UNCHANGED <<simMode, latched, reported>>

RejectFrame(b, f) ==
  /\ ~Blocked
  /\ events' = Append(events, PlainEvent("AuthFailed", b, f))
  /\ UNCHANGED <<tracks, simMode, latched, reported>>

(* The sweep: every block whose time is over is forgotten and reported, one *)
(* after the other, in the order of a hash table.                           *)
Overdue == {b \in Blocks : Tracked(b) /\ tracks[b].left = 0}

Sweep ==
  /\ ~Blocked
  /\ Overdue # {}
  /\ tracks' = [b \in Blocks |-> IF b \in Overdue THEN NoTrack ELSE tracks[b]]
  /\ reported' = [b \in Blocks |-> IF b \in Overdue THEN NothingReported ELSE reported[b]]
  /\ \E order \in [1..Cardinality(Overdue) -> Overdue] :
       /\ \A i, j \in DOMAIN order : order[i] = order[j] => i = j
       /\ events' = events \o [i \in DOMAIN order |->
                                 [kind |-> "Expired", block |-> order[i]]]
  /\ UNCHANGED <<simMode, latched>>

(* A tick; a due sweep comes first unless the task is blocked.              *)
SubscriberTick ==
  /\ Overdue = {} \/ Blocked
  /\ tracks' = [b \in Blocks |-> IF tracks[b].left > 0
                                 THEN [tracks[b] EXCEPT !.left = @ - 1]
                                 ELSE tracks[b]]
  /\ UNCHANGED <<simMode, latched, events, reported>>
=============================================================================
