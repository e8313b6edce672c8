--------------------------- MODULE MCRcbScenarios ---------------------------
(***************************************************************************)
(* Two scenarios of report control blocks in one run, which follows one of *)
(* them: clients that race for one block, as RcbReservation has it, and a  *)
(* client of two buffered blocks that share an item.                       *)
(***************************************************************************)
EXTENDS MCBrcbReporting

CONSTANTS k2, Window

VARIABLE scenario

scenarioVars == <<vars, scenario>>

(* Every attribute that the check tells apart, and one that it does not.    *)
RaceUse ==
  [rcb : {r1}, attr : {"Resv", "RptEna"}, val : {0, 1}]
    \cup [rcb : {r1}, attr : {"ResvTms"}, val : {0, Window}]
    \cup [rcb : {r1}, attr : {"DatSet"}, val : {0}]

AnyUse == RaceUse \cup BothUse

Race == INSTANCE RcbReservation WITH Requests <- RaceUse
Blocks == INSTANCE BrcbReporting WITH Requests <- BothUse, Clients <- Clients \ {k2},
                                      MaxConns <- 1

ScenarioInit == scenario \in {"race", "blocks"} /\ Init

RaceNext ==
  /\ scenario = "race"
  /\ Race!ReservationNext
  /\ UNCHANGED <<store, taskVars, buf, entryId, connVars, historyVars>>

ScenarioNext ==
  /\ UNCHANGED scenario
  /\ \/ RaceNext
     \/ scenario = "blocks" /\ Blocks!Next

(* The fairness of either module in its scenario.                           *)
InBlocks(A) == scenario = "blocks" /\ A /\ UNCHANGED scenario

ScenarioSpec ==
  /\ ScenarioInit /\ [][ScenarioNext]_scenarioVars
  /\ WF_scenarioVars(Tick /\ UNCHANGED scenario)
  /\ WF_scenarioVars(InBlocks(Blocks!BufferingTask))
  /\ WF_scenarioVars(InBlocks(\E w \in BothUse : Blocks!Effect([conn |-> 1, write |-> w])))
  /\ SF_scenarioVars(InBlocks(Blocks!HandleNotice(1)))
  /\ SF_scenarioVars(InBlocks(Blocks!NoteLag(1) \/ Blocks!CloseLagging(1)))

-----------------------------------------------------------------------------
(* BufferedEntryIsSent for the one connection of the scenario of the blocks.*)
BlocksEntryIsSent == Blocks!BufferedEntryIsSent
=============================================================================
