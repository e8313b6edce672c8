--------------------------------- MODULE Goose ---------------------------------
(***************************************************************************)
(* GOOSE publishers and a subscriber on a segment that may lose frames or  *)
(* deliver them twice.  `wire' is the way of the frames, with the buffer   *)
(* of the subscriber's socket at its end.  A frame takes less than a tick. *)
(***************************************************************************)
EXTENDS GoosePublisher, GooseSubscriber, Functions

CONSTANTS
  BlockOf,      \* BlockOf[p]: the control block that p publishes
  Simulated,    \* publishers whose frames carry the simulation bit
  Unverified,   \* publishers whose signatures the subscriber does not accept
  WireSize,     \* frames that the socket of the subscriber holds
  MaxFaults,    \* bound on the frames lost or doubled
  MaxRestarts,  \* bound on the restarts of publishers
  MaxStates,    \* MaxStates[p]: bound on the changes that p publishes
  MaxFrames     \* bound on the frames sent, if less than Counters

ASSUME BlockOfAssumption ==
  /\ IsFiniteSet(Blocks)
  /\ \A p \in Publishers : BlockOf[p] \in Blocks
  /\ WireSize \in Nat /\ MaxFrames \in Nat

VARIABLES
  wire,        \* frames on their way
  faults,      \* frames lost or doubled so far
  restarts,    \* restarts so far
  frames,      \* frames sent so far, up to MaxFrames
  prompt,      \* whether the application takes its events at once
  simSeen      \* history: blocks taken from a simulated frame in this simMode

netVars == <<wire, faults, restarts, frames, prompt, simSeen>>
vars == <<publisherVars, subscriberVars, netVars>>

Init ==
  /\ PublisherInit
  /\ SubscriberInit
  /\ wire = <<>>
  /\ faults = 0
  /\ restarts = 0
  /\ frames = 0
  /\ prompt \in BOOLEAN
  /\ simSeen = {}

-----------------------------------------------------------------------------
(* A frame goes out; the socket of the subscriber drops it if it is full.   *)
Transmit(p) ==
  LET f == Frame(p, pub'[p], version'[p], frames')
  IN  /\ frames < MaxFrames
      /\ frames' = frames + (IF MaxFrames < Counters THEN 1 ELSE 0)
      /\ IF Len(wire) < WireSize
           THEN wire' = Append(wire, f) /\ UNCHANGED faults
           ELSE faults' = faults + 1 /\ UNCHANGED wire
      /\ UNCHANGED <<subscriberVars, restarts, prompt, simSeen>>

Handed(p, v) ==
  /\ version[p] + Len(inbox[p]) < MaxStates[p]
  /\ Publish(p, v)
  /\ UNCHANGED <<subscriberVars, netVars>>

Ignored(p) == IgnoreValues(p) /\ UNCHANGED <<subscriberVars, netVars>>

SendState(p) == ChangeState(p) /\ Transmit(p)

SendAgain(p) == Retransmit(p) /\ Transmit(p)

Restart(p) ==
  /\ restarts < MaxRestarts
  /\ RestartPublisher(p)
  /\ restarts' = restarts + 1
  /\ UNCHANGED <<subscriberVars, wire, faults, frames, prompt, simSeen>>

-----------------------------------------------------------------------------
(* The subscriber's task makes what it does of frame f.                     *)
Receive(f) ==
  LET b == BlockOf[f.src]
      s == f.src \in Simulated
  IN  IF f.src \in Unverified
        THEN RejectFrame(b, f) /\ UNCHANGED simSeen
        ELSE \/ /\ TakeFrame(b, f, s)
                /\ simSeen' = IF s THEN simSeen \cup {b} ELSE simSeen
             \/ PassOverFrame(b, s) /\ UNCHANGED simSeen

Arrive ==
  /\ wire # <<>>
  /\ Receive(Head(wire))
  /\ wire' = Tail(wire)
  /\ UNCHANGED <<publisherVars, faults, restarts, frames, prompt>>

ArriveTwice ==
  /\ wire # <<>>
  /\ faults < MaxFaults
  /\ Receive(Head(wire))
  /\ faults' = faults + 1
  /\ UNCHANGED <<publisherVars, wire, restarts, frames, prompt>>

Lose ==
  /\ wire # <<>>
  /\ faults < MaxFaults
  /\ wire' = Tail(wire)
  /\ faults' = faults + 1
  /\ UNCHANGED <<publisherVars, subscriberVars, restarts, frames, prompt, simSeen>>

Expire ==
  /\ Sweep
  /\ UNCHANGED <<publisherVars, netVars>>

UserTakesEvent == RecvEvent /\ UNCHANGED <<publisherVars, netVars>>

UserSetsMode(on) ==
  /\ SetSimulationMode(on)
  /\ simSeen' = {}
  /\ UNCHANGED <<publisherVars, wire, faults, restarts, frames, prompt>>

(* Time passes when no task has anything to do, or the subscriber is kept   *)
(* waiting by the application.                                              *)
Tick ==
  /\ wire = <<>> \/ Blocked
  /\ prompt => events = <<>>
  /\ PublisherTick
  /\ SubscriberTick
  /\ UNCHANGED netVars

Next ==
  \/ \E p \in Publishers : \/ \E v \in Values : Handed(p, v)
                            \/ Ignored(p)
                            \/ SendState(p)
                            \/ SendAgain(p)
                            \/ Restart(p)
  \/ Arrive
  \/ ArriveTwice
  \/ Lose
  \/ Expire
  \/ UserTakesEvent
  \/ \E on \in BOOLEAN : UserSetsMode(on)
  \/ Tick

Spec == Init /\ [][Next]_vars

(* The tasks run, the network delivers what it does not lose, the           *)
(* application takes its events, and time goes on.                          *)
FairSpec ==
  /\ Spec
  /\ \A p \in Publishers :
       WF_vars(Ignored(p)) /\ WF_vars(SendState(p)) /\ WF_vars(SendAgain(p))
  /\ WF_vars(Arrive) /\ WF_vars(Expire) /\ WF_vars(UserTakesEvent)
  /\ WF_vars(Tick)

-----------------------------------------------------------------------------
Happened(kinds) == {e \in Range(events) : e.kind \in kinds}

(* A publisher with TMax below TMin starts with TMin all the same.          *)
LongestInterval == IF TMin < TMax THEN TMax ELSE TMin

TypeOK ==
  /\ \A p \in Publishers :
       /\ pub[p].stNum \in 1..Counters - 1 /\ pub[p].sqNum \in 0..Counters - 1
       /\ pub[p].timer \in 0..pub[p].interval
       /\ pub[p].interval \in 1..LongestInterval
       /\ Len(inbox[p]) <= InboxSize
  /\ Len(wire) <= WireSize
  /\ Len(events) <= EventCapacity + Cardinality(Blocks)
  /\ \A b \in Blocks : Tracked(b) => tracks[b].left <= 2 * LongestInterval
  /\ latched \subseteq Blocks

(* One publisher only has published so far, and it was not restarted.       *)
Alone ==
  /\ restarts = 0
  /\ \A p, q \in Publishers : version[p] > 0 /\ version[q] > 0 => p = q

(* A StateChange is a state newer than the last one reported, anything else *)
(* repeats that one.                                                        *)
KindTellsState ==
  /\ \A e \in Happened({"StateChange"}) : e.frame.version > e.before.version
  /\ \A e \in Happened({"Retransmission", "LossSuspected"}) : e.frame.version = e.before.version

(* A frame that is reported as a retransmission is one before which no      *)
(* frame was lost.                                                          *)
LossIsNoticed ==
  \A e \in Happened({"Retransmission"}) : e.frame.nth <= e.before.nth + 1

(* Events tell the truth about the one publisher there is: about its state, *)
(* until stNum comes round, and no loss of its frames goes unnoticed,       *)
(* whatever is lost, doubled or dropped. (subscriber.rs track_and_build)    *)
EventsTellTruth ==
  Alone => /\ (\A p \in Publishers : version[p] < Counters) => KindTellsState
           /\ LossIsNoticed

(* No false alarm: as long as nothing is lost or doubled and the one        *)
(* publisher is a real one, its block does not expire and no loss is        *)
(* suspected, not even when numbers wrap.  In particular each frame arrives *)
(* before the time that the one before allowed is over.                     *)
NoFalseAlarm ==
  /\ Alone /\ faults = 0 /\ prompt
  /\ \A p \in Publishers : version[p] > 0 => p \notin Simulated
  => Happened({"LossSuspected", "Expired"}) = {}

(* Once a simulated frame of a block was taken, no real frame of it is,     *)
(* until the application changes the mode.                                  *)
RealFrames == {e \in Happened({"StateChange", "Retransmission", "LossSuspected"}) :
                 e.frame.src \notin Simulated}

RealFramesStayOut ==
  \A b \in simSeen : simMode => \A e \in RealFrames' : e.block = b => e \in RealFrames

SimulatedAndRealDoNotMix == [][RealFramesStayOut]_vars

(* The subscriber catches up: when a publisher rests in a state, this state *)
(* is the last one reported, whatever frames were lost or doubled before.   *)
CatchesUp ==
  \A p \in Publishers \ Unverified : \A n \in 1..MaxStates[p] :
    <>[](pub[p].started /\ version[p] = n) => <>[](reported[BlockOf[p]].version = n)

(* Silence is noticed: a block whose publishers have all gone is forgotten, *)
(* even if frames that do not verify go on arriving.                        *)
SilenceIsNoticed ==
  \A b \in Blocks :
    <>[](\A p \in Publishers \ Unverified : BlockOf[p] = b => ~pub[p].started)
      => <>[](~Tracked(b))
=============================================================================
