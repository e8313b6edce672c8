--------------------------- MODULE MCGooseScenarios ---------------------------
(***************************************************************************)
(* What happens on the process bus, one scenario to a behaviour: one GOOSE *)
(* publisher on a segment that loses and doubles frames; a real and a      *)
(* simulated publisher of one block; a publisher that comes to rest, or that  *)
(* goes while another sends what does not verify; sampled values; and frames    *)
(* with tags while keys are changed.                                       *)
(***************************************************************************)
EXTENDS Goose, SampledValues, SignedFrames

CONSTANTS p1, p2, b1, mu, tester, stranger

(* Every publisher publishes the one control block.                         *)
SameBlock == [p \in Publishers |-> b1]

(* How many states each publisher has.                                      *)
OneState == [p \in Publishers |-> 1]
TwoAndNone == [p \in Publishers |-> IF p = p1 THEN 2 ELSE 0]
ThreeAndNone == [p \in Publishers |-> IF p = p1 THEN 3 ELSE 0]

VARIABLE scenario

Lossy == INSTANCE Goose
  WITH TMax <- 4, Counters <- 12, EventCapacity <- 2, MaxFaults <- 2, MaxRestarts <- 0,
       MaxStates <- TwoAndNone, MaxFrames <- 6

Silent == INSTANCE Goose WITH MaxStates <- OneState

Simulation == INSTANCE Goose
  WITH Unverified <- {}, Counters <- 9, MaxStates <- OneState, MaxFrames <- 4

(* A merging unit, a tester that simulates it, a stranger without the key.  *)
SamplesOf == [p \in SvPublishers |-> IF p = mu THEN 8 ELSE 2]
RestartsOf == [p \in SvPublishers |-> IF p = mu THEN 1 ELSE 0]

Key(id, from, to, tag) == [id |-> id, from |-> from, to |-> to, tag |-> tag]
SomeKeys ==
  {<<>>, <<Key(1, 0, 3, 32), Key(2, 2, 5, 32)>>, <<Key(2, 1, 4, 64), Key(1, 0, 2, 32)>>,
   <<Key(1, 0, 9, 32), Key(1, 0, 9, 64)>>}
BehindOrAhead == {-1, 0, 1}

busVars == <<vars, svVars, signedVars, scenario>>

ScenarioInit ==
  /\ SvInit /\ SignedInit
  /\ \/ scenario = "lossy" /\ Lossy!Init
     \/ scenario = "simulation" /\ Simulation!Init
     \/ scenario = "resting" /\ Init
     \/ scenario = "silent" /\ Silent!Init
     \/ scenario \in {"samples", "keys", "link"} /\ Init
  /\ prompt = (scenario # "simulation")
  /\ scenario # "keys" => lag = 0 /\ signRing = <<>> /\ plainSub

ScenarioNext ==
  /\ UNCHANGED scenario
  /\ \/ scenario = "lossy" /\ Lossy!Next /\ UNCHANGED <<svVars, signedVars>>
     \/ scenario = "simulation" /\ Simulation!Next /\ UNCHANGED <<svVars, signedVars>>
     \/ scenario = "resting" /\ Next /\ UNCHANGED <<svVars, signedVars>>
     \/ scenario = "silent" /\ Silent!Next /\ UNCHANGED <<svVars, signedVars>>
     \/ scenario = "samples" /\ SvNext /\ UNCHANGED <<vars, signedVars>>
     \/ scenario = "keys" /\ SignedNext /\ UNCHANGED <<vars, svVars>>

(* Fairness, as Goose states it, is asked for where something has to happen *)
(* in the end.                                                              *)
GoesOn == scenario \in {"resting", "silent"}

ScenarioFairness ==
  /\ \A p \in Publishers : /\ WF_vars(GoesOn /\ Ignored(p))
                           /\ WF_vars(GoesOn /\ SendState(p))
                           /\ WF_vars(GoesOn /\ SendAgain(p))
  /\ WF_vars(GoesOn /\ Arrive)
  /\ WF_vars(GoesOn /\ Expire)
  /\ WF_vars(GoesOn /\ UserTakesEvent)
  /\ WF_vars(GoesOn /\ Tick)

-----------------------------------------------------------------------------
(* What Goose promises of any scenario, and of publishers that come to      *)
(* rest: types, that the last state arrives and that silence is noticed.    *)
ScenarioTypeOK ==
  /\ CASE scenario = "lossy" -> Lossy!TypeOK
       [] scenario = "simulation" -> Simulation!TypeOK
       [] OTHER -> TypeOK
  /\ SvTypeOK /\ SignedTypeOK
RestingCatchesUp == scenario = "resting" => CatchesUp
SilentIsNoticed == scenario = "silent" => Silent!SilenceIsNoticed
=============================================================================
