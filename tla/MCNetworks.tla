----------------------------- MODULE MCNetworks -----------------------------
(***************************************************************************)
(* The two networks of a substation, one scenario to a behaviour: the      *)
(* process bus with its frames, or a connection of the station bus with    *)
(* its TSDUs. They share no state.                                         *)
(***************************************************************************)
EXTENDS MCGooseScenarios, MCTsduScenarios

networkVars == <<busVars, readersVars>>

NetworkInit ==
  /\ ScenarioInit /\ ReadersInit
  /\ scenario # "link" => reader = "task"

NetworkNext ==
  \/ scenario # "link" /\ ScenarioNext /\ UNCHANGED readersVars
  \/ scenario = "link" /\ ReadersNext /\ UNCHANGED busVars

NetworkSpec ==
  NetworkInit /\ [][NetworkNext]_networkVars /\ ScenarioFairness /\ ReadersFairness

-----------------------------------------------------------------------------
(* The types of both.                                                       *)
NetworkTypeOK == ScenarioTypeOK /\ LinkTypeOK
=============================================================================
