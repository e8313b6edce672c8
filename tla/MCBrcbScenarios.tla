--------------------------- MODULE MCBrcbScenarios ---------------------------
(***************************************************************************)
(* Three scenarios of BrcbReporting in one run, which follows one of them: *)
(* two connections of a client that resumes and purges, with channels of   *)
(* one; one such connection, with channels of two and a lag that is        *)
(* tolerated; and clients that share a block, with no tolerance for lag    *)
(* and no room for more than one change or entry.                          *)
(***************************************************************************)
EXTENDS MCBrcbReporting

VARIABLE scenario

AllUse == FullUse \cup SharedUse

Resuming == INSTANCE BrcbReporting WITH Requests <- FullUse, MaxReportLag <- 0,
                                        ChannelSize <- 1
Lagging == INSTANCE BrcbReporting WITH Requests <- FullUse
Sharing == INSTANCE BrcbReporting WITH Requests <- SharedUse, MaxReportLag <- 0,
                                       ChannelSize <- 1, Capacity <- 1, MaxWrites <- 2

ScenarioInit == scenario \in {"resuming", "lagging", "sharing"} /\ Init

ScenarioNext ==
  /\ UNCHANGED scenario
  /\ \/ scenario = "resuming" /\ Resuming!Next
     \/ scenario = "lagging" /\ Lagging!Next /\ Len(clientOf') <= 1
     \/ scenario = "sharing" /\ Sharing!Next

ScenarioSpec == ScenarioInit /\ [][ScenarioNext]_<<vars, scenario>>
=============================================================================
