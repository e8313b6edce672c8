--------------------------- MODULE MCTsduScenarios ---------------------------
(***************************************************************************)
(* Both readers of TsduTransport in one run, which follows one of them: a  *)
(* task of its own, and one arm of a select, whose reads may be dropped.   *)
(***************************************************************************)
EXTENDS MCTsduTransport

VARIABLE reader

Select == INSTANCE TsduTransport WITH SelectLoop <- TRUE

readersVars == <<linkVars, reader>>

ReadersInit == reader \in {"task", "select"} /\ LinkInit

ReadersNext ==
  /\ UNCHANGED reader
  /\ \/ reader = "task" /\ LinkNext
     \/ reader = "select" /\ Select!LinkNext

(* A reader that may be dropped promises nothing in time.                   *)
ReadersFairness ==
  /\ WF_linkVars(reader = "task" /\ Read)
  /\ \A k \in Tasks : WF_linkVars(reader = "task" /\ WriteTpdu(k))

-----------------------------------------------------------------------------
(* What TsduTransport promises of a reader with a task of its own: TSDUs    *)
(* are received as an ideal connection delivers them, and in the end.       *)
TaskImplementsDelivery ==
  /\ Delivery!DeliveryInit
  /\ [][reader = "task" => [Delivery!DeliveryNext]_(Delivery!deliveryVars)]_readersVars

EverythingArrivesAtTask == []<>(reader = "task" => NothingUnderWay)
=============================================================================
