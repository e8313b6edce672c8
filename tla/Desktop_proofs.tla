---------------------------- MODULE Desktop_proofs ----------------------------
(***************************************************************************)
(* Proofs about the desktop application: its connections, commands and     *)
(* readings, for any number of IEDs, changes of connection and commands;   *)
(* then its live IEDs and tasks, for any number of addresses, files, kinds *)
(* of task and calls under way.                                            *)
(***************************************************************************)
EXTENDS Desktop, Workbench, FiniteSetTheorems, TLAPS

FlowPcs == {"idle", "dialling", "choosing", "activating", "closing", "closed", "listing",
            "listingOpen", "listed", "discovering", "walking"}
FlowRecord == [pc : FlowPcs, does : {"connect", "switch", "close"}, way : Ways \cup IedOrNone,
               ied : IedOrNone, open : SUBSET Ieds]

(* What a change of connection was begun with, for as long as it needs it. *)
BegunWith(r) ==
  /\ r.pc = "dialling" => r.way \in Ways
  /\ r.pc = "closed" => r.way \in IedOrNone
  /\ r.pc \in {"dialling", "choosing", "activating", "closing", "closed"} => r.ied \in Ieds

ViewType == [model : IedOrNone, values : SUBSET Ieds, late : SUBSET Ieds]
PollType == [watching : BOOLEAN, ticks : SUBSET TickType]

DesktopTypes ==
  /\ clients \in [Ieds -> Ways \cup {NoIed}]
  /\ active \in IedOrNone
  /\ conns \in [open : SUBSET Ieds, active : IedOrNone]
  /\ conns.active \in conns.open \cup {NoIed}
  /\ armed \in BOOLEAN
  /\ dialog \in DialogType
  /\ view \in ViewType
  /\ poll \in PollType
  /\ flows \in [Flows -> FlowRecord] /\ \A f \in Flows : BegunWith(flows[f])
  /\ reading \in [pc : {"idle", "asked", "reading"}, ied : IedOrNone]
  /\ command \in CommandType
  /\ audited \in CommandType
  /\ used \in [armedFor : IedOrNone, begun : 0..MaxBegun]

(* The active connection is open, the window shows it, and commands are     *)
(* armed for it if they are; a tick has read no other, unless it is late.  *)
ActiveIsOpen == active \in Open \cup {NoIed}
ListIsTrue == conns.active = active /\ conns.open = Open
TicksFit == \A t \in poll.ticks : t.late \/ t.got \subseteq {active}
WindowFits ==
  /\ ActiveIsOpen /\ ListIsTrue
  /\ view.model \in {active, NoIed} /\ view.values \subseteq {active}
  /\ armed /\ Connected => used.armedFor = active
  /\ TicksFit

(* What was asked for while the IED that is active was shown.              *)
AskedHere(d) ==
  /\ d.ied = active
  /\ d.does \in Guarded => d.armedFor = active /\ (active \notin Simulated => d.danger)

(* The user who waits makes one change at a time, and nothing beside it.   *)
OneChange ==
  /\ \A f, g \in Flows : flows[f].pc # "idle" /\ flows[g].pc # "idle" => f = g
  /\ Changing => reading = NoReading /\ command = NoCommand /\ ~dialog.open

AtRest ==
  ~Changing =>
    /\ WindowFits
    /\ reading.pc = "reading" => reading.ied = active
    /\ dialog.open => AskedHere(dialog)
    /\ command.pc # "idle" => AskedHere(command.asked)
    /\ command.pc \in {"named", "taken", "sending"} => command.ied = active
    /\ command.pc = "sending" => command.tag = active

(* The window after the view was emptied and before the model is shown: no  *)
(* tick can begin.                                                         *)
Emptied ==
  /\ ListIsTrue /\ view.values = {} /\ ~armed
  /\ ~poll.watching /\ \A t \in poll.ticks : t.late

(* How far the change has come with the backend, and with the window.      *)
OnItsWay(r) ==
  /\ r.pc \in {"dialling", "choosing", "closing"} => WindowFits
  /\ r.pc = "activating" => r.ied \in Open
  /\ r.pc = "closed" => /\ r.way \in Open \cup {NoIed}
                        /\ active = r.ied \/ ActiveIsOpen
  /\ r.pc \in {"listing", "listingOpen", "listed", "discovering", "walking"} => ActiveIsOpen
  /\ r.pc \in {"listingOpen", "listed", "walking"} => r.ied = active
  /\ r.pc = "listed" => r.open = Open
  /\ r.pc \in {"discovering", "walking"} => Emptied

PatientInv ==
  ~Haste => OneChange /\ AtRest /\ \A f \in Flows : OnItsWay(flows[f])

DesktopIInv == DesktopTypes /\ PatientInv /\ CommandsGoWhereShown
-----------------------------------------------------------------------------
USE DesktopAssumption

(* Begun by the user, as ConnectTo and the others begin it.                *)
Begun(r) ==
  /\ r \in FlowRecord /\ BegunWith(r)
  /\ r.pc \in {"dialling", "choosing", "closing"}

LEMMA StartTyped ==
  ASSUME DesktopTypes, NEW f \in Flows, NEW r, Begun(r), Start(f, r)
  PROVE  DesktopTypes'
<1>1. flows' \in [Flows -> FlowRecord] /\ \A g \in Flows : BegunWith(flows'[g])
  BY DEF DesktopTypes, Start, Begun
<1>2. used' \in [armedFor : IedOrNone, begun : 0..MaxBegun]
  BY DEF DesktopTypes, Start
<1>3. QED
  BY <1>1, <1>2 DEF DesktopTypes, Start, backend, window, BegunWith

LEMMA StartKeeps ==
  ASSUME DesktopIInv, NEW f \in Flows, NEW r, Begun(r), Start(f, r)
  PROVE  DesktopIInv'
<1>1. DesktopTypes'
  BY StartTyped DEF DesktopIInv
<1>2. CommandsGoWhereShown'
  BY DEF DesktopIInv, CommandsGoWhereShown, Start
<1>3. ASSUME ~Haste PROVE OneChange' /\ AtRest' /\ \A g \in Flows : OnItsWay(flows[g])'
  <2>1. /\ OneChange /\ AtRest /\ ~Changing
        /\ reading = NoReading /\ command = NoCommand /\ ~dialog.open
    BY <1>3 DEF DesktopIInv, PatientInv, Start, MayChange
  <2>2. /\ \A g \in Flows : flows[g].pc = "idle"
        /\ \A g \in Flows : flows'[g] = IF g = f THEN r ELSE flows[g]
    BY <2>1 DEF Start, Changing, DesktopIInv, DesktopTypes
  <2>3. OneChange'
    BY <2>1, <2>2 DEF OneChange, Changing, Start, window
  <2>4. Changing'
    BY <2>2 DEF Changing, Begun
  <2>5. WindowFits'
    BY <2>1 DEF AtRest, WindowFits, TicksFit, ActiveIsOpen, ListIsTrue, Open, Connected, Start, backend, window
  <2>6. OnItsWay(r)'
    BY <2>5 DEF OnItsWay, Begun
  <2>7. \A g \in Flows \ {f} : OnItsWay(flows[g])'
    BY <2>2 DEF OnItsWay
  <2>8. QED
    BY <2>2, <2>3, <2>4, <2>6, <2>7 DEF AtRest, OnItsWay
<1>4. QED
  BY <1>1, <1>2, <1>3 DEF DesktopIInv, PatientInv

-----------------------------------------------------------------------------
(* One step of a change of connection, after which it is at r.             *)
Moves(f, r) ==
  /\ flows[f].pc # "idle"
  /\ r \in FlowRecord /\ BegunWith(r)
  /\ flows' = [flows EXCEPT ![f] = r]
  /\ UNCHANGED <<dialog, reading, command, audited, used>>

(* Nothing else changes meanwhile, so what is left is the change itself.   *)
LEMMA MoveKeeps ==
  ASSUME DesktopIInv, NEW f \in Flows, NEW r, Moves(f, r),
         /\ clients' \in [Ieds -> Ways \cup {NoIed}]
         /\ active' \in IedOrNone
         /\ conns' \in [open : SUBSET Ieds, active : IedOrNone]
         /\ conns'.active \in conns'.open \cup {NoIed}
         /\ armed' \in BOOLEAN
         /\ view' \in ViewType /\ poll' \in PollType,
         ~Haste => IF r.pc = "idle" THEN WindowFits' ELSE OnItsWay(r)'
  PROVE  DesktopIInv'
<1>1. DesktopTypes'
  <2>1. flows' \in [Flows -> FlowRecord] /\ \A g \in Flows : BegunWith(flows'[g])
    BY DEF DesktopIInv, DesktopTypes, Moves
  <2>2. QED
    BY <2>1 DEF DesktopIInv, DesktopTypes, Moves, BegunWith
<1>2. CommandsGoWhereShown'
  BY DEF DesktopIInv, CommandsGoWhereShown, Moves
<1>3. ASSUME ~Haste PROVE OneChange' /\ AtRest' /\ \A g \in Flows : OnItsWay(flows[g])'
  <2>1. /\ OneChange /\ Changing
        /\ reading = NoReading /\ command = NoCommand /\ ~dialog.open
    BY <1>3 DEF DesktopIInv, PatientInv, Moves, Changing, OneChange
  <2>2. /\ \A g \in Flows \ {f} : flows[g].pc = "idle"
        /\ \A g \in Flows : flows'[g] = IF g = f THEN r ELSE flows[g]
    BY <2>1 DEF Moves, OneChange, DesktopIInv, DesktopTypes
  <2>3. OneChange'
    BY <2>1, <2>2 DEF OneChange, Changing, Moves
  <2>4. \A g \in Flows \ {f} : OnItsWay(flows[g])'
    BY <2>2 DEF OnItsWay
  <2>5. CASE r.pc = "idle"
    <3>1. OnItsWay(flows[f])'
      BY <2>2, <2>5 DEF OnItsWay
    <3>2. AtRest'
      BY <1>3, <2>1, <2>5 DEF AtRest, Moves, NoReading, NoCommand
    <3>3. QED
      BY <2>3, <2>4, <3>1, <3>2
  <2>6. CASE r.pc # "idle"
    <3>1. OnItsWay(r)'
      BY <1>3, <2>6
    <3>2. OnItsWay(flows[f])'
      BY <2>2, <3>1 DEF OnItsWay
    <3>3. Changing'
      BY <2>2, <2>6 DEF Changing
    <3>4. QED
      BY <2>3, <2>4, <3>2, <3>3 DEF AtRest
  <2>7. QED
    BY <2>5, <2>6
<1>4. QED
  BY <1>1, <1>2, <1>3 DEF DesktopIInv, PatientInv

(* What a change that is under way knows.                                  *)
LEMMA UnderWay ==
  ASSUME DesktopIInv, NEW f \in Flows
  PROVE  /\ flows[f] \in FlowRecord /\ BegunWith(flows[f])
         /\ ~Haste => OnItsWay(flows[f])
BY DEF DesktopIInv, DesktopTypes, PatientInv

LEMMA DialledKeeps ==
  ASSUME DesktopIInv, NEW f \in Flows, NEW way \in Ways, Dialled(f, way)
  PROVE  DesktopIInv'
<1> PICK r : r = [flows[f] EXCEPT !.pc = "activating"]
  OBVIOUS
<1>1. flows[f] \in FlowRecord /\ BegunWith(flows[f])
  BY UnderWay
<1>2. Moves(f, r)
  BY <1>1 DEF Moves, Dialled, StepTo, OnlyFlows, window, FlowRecord, FlowPcs, BegunWith
<1>3. clients' \in [Ieds -> Ways \cup {NoIed}] /\ clients'[r.ied] = way /\ r.ied \in Ieds
  BY <1>1 DEF DesktopIInv, DesktopTypes, Dialled, BegunWith, FlowRecord
<1>4. OnItsWay(r)'
  BY <1>1, <1>3 DEF OnItsWay, Open, FlowRecord, Ways, NoIed
<1>5. r.pc # "idle"
  BY <1>1 DEF FlowRecord
<1>6. QED
  BY <1>2, <1>3, <1>4, <1>5, MoveKeeps DEF Dialled, OnlyFlows, window, DesktopIInv, DesktopTypes

(* A change that comes to nothing.                                         *)
LEMMA FailureKeeps ==
  ASSUME DesktopIInv, NEW f \in Flows, flows[f].pc \in {"dialling", "choosing"},
         Finish(f), OnlyFlows, UNCHANGED backend
  PROVE  DesktopIInv'
<1>1. Moves(f, NoFlow)
  BY DEF Moves, Finish, OnlyFlows, window, NoFlow, FlowRecord, FlowPcs, BegunWith, Ways, IedOrNone, NoIed
<1>2. ~Haste => WindowFits'
  <2>1. ~Haste => WindowFits
    BY UnderWay DEF OnItsWay
  <2>2. QED
    BY <2>1 DEF WindowFits, TicksFit, ActiveIsOpen, ListIsTrue, Open, Connected, OnlyFlows, backend, window
<1>3. QED
  BY <1>1, <1>2, MoveKeeps DEF OnlyFlows, backend, window, DesktopIInv, DesktopTypes, NoFlow

LEMMA ConnectFailsKeeps ==
  ASSUME DesktopIInv, NEW f \in Flows, ConnectFails(f)
  PROVE  DesktopIInv'
BY FailureKeeps DEF ConnectFails

LEMMA SetActiveKeeps ==
  ASSUME DesktopIInv, NEW f \in Flows, SetActive(f)
  PROVE  DesktopIInv'
<1>1. CASE flows[f].ied \notin Open
  BY <1>1, FailureKeeps DEF SetActive
<1>2. CASE flows[f].ied \in Open
  <2> PICK r : r = [flows[f] EXCEPT !.pc = "activating"]
    OBVIOUS
  <2>1. flows[f] \in FlowRecord /\ BegunWith(flows[f])
    BY UnderWay
  <2>2. Moves(f, r)
    BY <1>2, <2>1 DEF Moves, SetActive, StepTo, OnlyFlows, window, FlowRecord, FlowPcs, BegunWith
  <2>3. OnItsWay(r)'
    BY <1>2, <2>1 DEF SetActive, OnItsWay, Open, FlowRecord, backend
  <2>4. r.pc # "idle"
    BY <2>1 DEF FlowRecord
  <2>5. QED
    BY <2>2, <2>3, <2>4, MoveKeeps DEF SetActive, OnlyFlows, window, backend, DesktopIInv, DesktopTypes
<1>3. QED
  BY <1>1, <1>2

LEMMA ActivateKeeps ==
  ASSUME DesktopIInv, NEW f \in Flows, Activate(f)
  PROVE  DesktopIInv'
<1> PICK r : r = [flows[f] EXCEPT !.pc = "listing"]
  OBVIOUS
<1>1. flows[f] \in FlowRecord /\ BegunWith(flows[f]) /\ (~Haste => OnItsWay(flows[f]))
  BY UnderWay
<1>2. Moves(f, r)
  BY <1>1 DEF Moves, Activate, StepTo, OnlyFlows, window, FlowRecord, FlowPcs, BegunWith
<1>3. ~Haste => OnItsWay(r)'
  BY <1>1 DEF Activate, OnItsWay, ActiveIsOpen, Open, FlowRecord
<1>4. active' \in IedOrNone /\ r.pc # "idle"
  BY <1>1 DEF Activate, FlowRecord, BegunWith, IedOrNone
<1>5. QED
  BY <1>2, <1>3, <1>4, MoveKeeps DEF Activate, OnlyFlows, window, DesktopIInv, DesktopTypes

LEMMA DisconnectKeeps ==
  ASSUME DesktopIInv, NEW f \in Flows, DisconnectId(f)
  PROVE  DesktopIInv'
<1>0. flows[f] \in FlowRecord /\ BegunWith(flows[f]) /\ (~Haste => OnItsWay(flows[f]))
  BY UnderWay
<1> PICK i : i = flows[f].ied
  OBVIOUS
<1>1. i \in Ieds
  BY <1>0 DEF DisconnectId, BegunWith
<1>2. PICK next \in IF Open = {i} THEN {NoIed} ELSE Open \ {i} :
        flows' = [flows EXCEPT ![f].pc = "closed", ![f].way = next]
  BY DEF DisconnectId
<1> PICK r : r = [flows[f] EXCEPT !.pc = "closed", !.way = next]
  OBVIOUS
<1>3. next \in IedOrNone
  BY <1>2 DEF IedOrNone, Open
<1>4. Moves(f, r)
  <2>1. r \in FlowRecord /\ BegunWith(r) /\ flows[f].pc # "idle"
    BY <1>0, <1>1, <1>3 DEF DisconnectId, FlowRecord, FlowPcs, BegunWith
  <2>2. flows' = [flows EXCEPT ![f] = r]
    BY <1>2 DEF DesktopIInv, DesktopTypes
  <2>3. QED
    BY <2>1, <2>2 DEF Moves, DisconnectId, OnlyFlows, window
<1>5. clients' \in [Ieds -> Ways \cup {NoIed}] /\ Open' = Open \ {i}
  BY <1>1 DEF DisconnectId, DesktopIInv, DesktopTypes, Open
<1>6. ~Haste => OnItsWay(r)'
  <2>1. r.ied = i /\ r.way = next /\ r.pc = "closed"
    BY <1>0 DEF FlowRecord
  <2>2. next \in Open' \cup {NoIed}
    BY <1>2, <1>5
  <2>3. ~Haste => active' = i \/ active' \in Open' \cup {NoIed}
    BY <1>0, <1>5 DEF DisconnectId, OnItsWay, WindowFits, TicksFit, ActiveIsOpen
  <2>4. QED
    BY <2>1, <2>2, <2>3 DEF OnItsWay, ActiveIsOpen
<1>7. r.pc # "idle"
  BY <1>0 DEF FlowRecord
<1>8. QED
  BY <1>4, <1>5, <1>6, <1>7, MoveKeeps DEF DisconnectId, OnlyFlows, window, DesktopIInv, DesktopTypes

LEMMA SucceedKeeps ==
  ASSUME DesktopIInv, NEW f \in Flows, Succeed(f)
  PROVE  DesktopIInv'
<1> PICK r : r = [flows[f] EXCEPT !.pc = "listing"]
  OBVIOUS
<1>1. flows[f] \in FlowRecord /\ BegunWith(flows[f]) /\ (~Haste => OnItsWay(flows[f]))
  BY UnderWay
<1>2. Moves(f, r)
  BY <1>1 DEF Moves, Succeed, StepTo, OnlyFlows, window, FlowRecord, FlowPcs, BegunWith
<1>3. ~Haste => OnItsWay(r)'
  BY <1>1 DEF Succeed, OnItsWay, ActiveIsOpen, Open, FlowRecord
<1>4. active' \in IedOrNone /\ r.pc # "idle"
  BY <1>1 DEF Succeed, FlowRecord, BegunWith, DesktopIInv, DesktopTypes
<1>5. QED
  BY <1>2, <1>3, <1>4, MoveKeeps DEF Succeed, OnlyFlows, window, DesktopIInv, DesktopTypes

LEMMA ListActiveKeeps ==
  ASSUME DesktopIInv, NEW f \in Flows, ListActive(f)
  PROVE  DesktopIInv'
<1> PICK r : r = [flows[f] EXCEPT !.pc = "listingOpen", !.ied = active]
  OBVIOUS
<1>1. flows[f] \in FlowRecord /\ BegunWith(flows[f]) /\ (~Haste => OnItsWay(flows[f]))
  BY UnderWay
<1>2. Moves(f, r)
  <2>1. r \in FlowRecord /\ BegunWith(r) /\ flows[f].pc # "idle"
    BY <1>1 DEF ListActive, FlowRecord, FlowPcs, BegunWith, DesktopIInv, DesktopTypes
  <2>2. flows' = [flows EXCEPT ![f] = r]
    BY DEF ListActive, DesktopIInv, DesktopTypes
  <2>3. QED
    BY <2>1, <2>2 DEF Moves, ListActive, OnlyFlows, window
<1>3. ~Haste => OnItsWay(r)'
  BY <1>1 DEF ListActive, OnItsWay, ActiveIsOpen, Open, FlowRecord, backend
<1>4. r.pc # "idle"
  BY <1>1 DEF FlowRecord
<1>5. QED
  BY <1>2, <1>3, <1>4, MoveKeeps DEF ListActive, OnlyFlows, window, backend, DesktopIInv, DesktopTypes

LEMMA ListOpenKeeps ==
  ASSUME DesktopIInv, NEW f \in Flows, ListOpen(f)
  PROVE  DesktopIInv'
<1> PICK r : r = [flows[f] EXCEPT !.pc = "listed", !.open = Open]
  OBVIOUS
<1>1. flows[f] \in FlowRecord /\ BegunWith(flows[f]) /\ (~Haste => OnItsWay(flows[f]))
  BY UnderWay
<1>2. Moves(f, r)
  <2>1. r \in FlowRecord /\ BegunWith(r) /\ flows[f].pc # "idle"
    <3>1. Open \in SUBSET Ieds
      BY DEF Open
    <3>2. QED
      BY <1>1, <3>1 DEF ListOpen, FlowRecord, FlowPcs, BegunWith
  <2>2. flows' = [flows EXCEPT ![f] = r]
    BY DEF ListOpen, DesktopIInv, DesktopTypes
  <2>3. QED
    BY <2>1, <2>2 DEF Moves, ListOpen, OnlyFlows, window
<1>3. ~Haste => OnItsWay(r)'
  <2>1. Open' = Open /\ active' = active
    BY DEF ListOpen, Open, backend
  <2>2. r.pc = "listed" /\ r.ied = flows[f].ied /\ r.open = Open
    BY <1>1 DEF FlowRecord
  <2>3. QED
    BY <1>1, <2>1, <2>2 DEF ListOpen, OnItsWay, ActiveIsOpen
<1>4. r.pc # "idle"
  BY <1>1 DEF FlowRecord
<1>5. QED
  BY <1>2, <1>3, <1>4, MoveKeeps DEF ListOpen, OnlyFlows, window, backend, DesktopIInv, DesktopTypes

LEMMA LateTick ==
  ASSUME NEW t \in TickType
  PROVE  Late(t) \in TickType /\ Late(t).late
BY DEF TickType, Late

(* The ticks that the emptied view leaves under way are late.              *)
LEMMA UnwatchedTicks ==
  ASSUME DesktopIInv, NEW open, poll' = Unwatched(open)
  PROVE  /\ poll' \in PollType /\ ~poll'.watching
         /\ \A t \in poll'.ticks : t.late
<1>1. poll \in PollType
  BY DEF DesktopIInv, DesktopTypes
<1>2. PICK left : left = IF open = {} THEN {} ELSE {Late(t) : t \in poll.ticks}
  OBVIOUS
<1>3. poll' = [poll EXCEPT !.watching = FALSE, !.ticks = left]
  BY <1>2 DEF Unwatched
<1>4. poll' = [watching |-> FALSE, ticks |-> left]
  BY <1>1, <1>3 DEF PollType
<1>5. \A t \in left : t \in TickType /\ t.late
  BY <1>1, <1>2, LateTick DEF PollType
<1>6. QED
  BY <1>4, <1>5 DEF PollType

LEMMA RefreshKeeps ==
  ASSUME DesktopIInv, NEW f \in Flows, Refresh(f)
  PROVE  DesktopIInv'
<1>1. flows[f] \in FlowRecord /\ BegunWith(flows[f]) /\ (~Haste => OnItsWay(flows[f]))
  BY UnderWay
<1>2. /\ conns' \in [open : SUBSET Ieds, active : IedOrNone]
      /\ conns'.active \in conns'.open \cup {NoIed}
  BY <1>1 DEF Refresh, FlowRecord, IedOrNone
<1>3. ~Haste => ListIsTrue' /\ ActiveIsOpen'
  <2>1. Open' = Open /\ active' = active
    BY DEF Refresh, Open, backend
  <2>2. ~Haste => flows[f].open = Open /\ flows[f].ied = active /\ ActiveIsOpen
    BY <1>1 DEF Refresh, OnItsWay
  <2>3. QED
    BY <2>1, <2>2 DEF ListIsTrue, ActiveIsOpen, Refresh
<1>9. /\ poll' \in PollType /\ ~poll'.watching
      /\ \A t \in poll'.ticks : t.late
  BY UnwatchedTicks DEF Refresh
<1>4. CASE flows[f].does = "close" /\ flows[f].open = {}
  <2>1. Moves(f, NoFlow)
    BY <1>4 DEF Moves, Refresh, Finish, NoFlow, FlowRecord, FlowPcs, BegunWith, Ways, IedOrNone, NoIed
  <2>2. view' = NoView /\ armed' = armed /\ conns'.open = {}
    BY <1>4 DEF Refresh
  <2>3. ~Haste => WindowFits'
    BY <1>3, <1>9, <2>2 DEF WindowFits, TicksFit, Connected, NoView
  <2>4. view' \in ViewType
    BY <2>2 DEF ViewType, NoView, IedOrNone
  <2>5. QED
    BY <1>2, <1>9, <2>1, <2>2, <2>3, <2>4, MoveKeeps DEF Refresh, backend, NoFlow, DesktopIInv, DesktopTypes
<1>5. CASE ~(flows[f].does = "close" /\ flows[f].open = {})
  <2> PICK r : r = [flows[f] EXCEPT !.pc = "discovering"]
    OBVIOUS
  <2>1. Moves(f, r)
    BY <1>1, <1>5 DEF Moves, Refresh, StepTo, FlowRecord, FlowPcs, BegunWith
  <2>2. view' = EmptyView /\ ~armed' /\ armed' \in BOOLEAN
    BY <1>5 DEF Refresh, Disarmed
  <2>3. r.pc = "discovering"
    BY <1>1 DEF FlowRecord
  <2>4. ~Haste => OnItsWay(r)'
    BY <1>3, <1>9, <2>2, <2>3 DEF OnItsWay, Emptied, EmptyView, NoView
  <2>5. view' \in ViewType
    BY <2>2 DEF EmptyView, NoView, ViewType, DesktopIInv, DesktopTypes
  <2>6. QED
    BY <1>2, <1>9, <2>1, <2>2, <2>3, <2>4, <2>5, MoveKeeps DEF Refresh, backend, DesktopIInv, DesktopTypes
<1>6. QED
  BY <1>4, <1>5

LEMMA DiscoverKeeps ==
  ASSUME DesktopIInv, NEW f \in Flows, Discover(f)
  PROVE  DesktopIInv'
<1> PICK r : r = [flows[f] EXCEPT !.pc = "walking", !.ied = active]
  OBVIOUS
<1>1. flows[f] \in FlowRecord /\ BegunWith(flows[f]) /\ (~Haste => OnItsWay(flows[f]))
  BY UnderWay
<1>2. Moves(f, r)
  <2>1. r \in FlowRecord /\ BegunWith(r) /\ flows[f].pc # "idle"
    BY <1>1 DEF Discover, FlowRecord, FlowPcs, BegunWith, DesktopIInv, DesktopTypes
  <2>2. flows' = [flows EXCEPT ![f] = r]
    BY DEF Discover, DesktopIInv, DesktopTypes
  <2>3. QED
    BY <2>1, <2>2 DEF Moves, Discover, OnlyFlows, window
<1>3. ~Haste => OnItsWay(r)'
  BY <1>1 DEF Discover, OnItsWay, Emptied, ActiveIsOpen, ListIsTrue, Open, FlowRecord, backend, OnlyFlows, window
<1>4. r.pc # "idle"
  BY <1>1 DEF FlowRecord
<1>5. QED
  BY <1>2, <1>3, <1>4, MoveKeeps DEF Discover, OnlyFlows, window, backend, DesktopIInv, DesktopTypes

LEMMA ShowModelKeeps ==
  ASSUME DesktopIInv, NEW f \in Flows, ShowModel(f)
  PROVE  DesktopIInv'
<1>1. flows[f] \in FlowRecord /\ BegunWith(flows[f]) /\ (~Haste => OnItsWay(flows[f]))
  BY UnderWay
<1>2. Moves(f, NoFlow)
  BY DEF Moves, ShowModel, Finish, NoFlow, FlowRecord, FlowPcs, BegunWith, Ways, IedOrNone, NoIed
<1>3. PICK got \in {NoIed, flows[f].ied} : view' = [view EXCEPT !.model = got]
  BY DEF ShowModel
<1>4. got \in IedOrNone
  BY <1>1, <1>3 DEF FlowRecord, IedOrNone
<1>5. /\ view' \in ViewType
      /\ view'.model = got /\ view'.values = view.values
  BY <1>3, <1>4 DEF DesktopIInv, DesktopTypes, ViewType
<1>6. ~Haste => WindowFits'
  <2>1. ~Haste => ActiveIsOpen /\ ListIsTrue /\ flows[f].ied = active /\ Emptied
    BY <1>1 DEF ShowModel, OnItsWay, Emptied
  <2>2. /\ Open' = Open /\ active' = active /\ conns' = conns
        /\ armed' = armed /\ poll' = poll
    BY DEF ShowModel, Open, backend
  <2>3. QED
    BY <1>3, <1>5, <2>1, <2>2 DEF WindowFits, TicksFit, Emptied, ActiveIsOpen, ListIsTrue
<1>7. QED
  BY <1>2, <1>5, <1>6, MoveKeeps DEF ShowModel, backend, NoFlow, DesktopIInv, DesktopTypes

-----------------------------------------------------------------------------
(* The user who waits does the rest while no change is under way.          *)
LEMMA RestKeeps ==
  ASSUME DesktopIInv, UNCHANGED <<clients, active, conns, flows>>,
         DesktopTypes', ~Haste => ~Changing /\ CommandsGoWhereShown' /\ AtRest'
  PROVE  DesktopIInv'
<1>1. ~Haste => ~Changing'
  BY DEF Changing
<1>2. ~Haste => OneChange' /\ \A f \in Flows : OnItsWay(flows[f])'
  <2>1. ~Haste => \A f \in Flows : flows'[f].pc = "idle"
    BY <1>1 DEF Changing
  <2>2. QED
    BY <1>1, <2>1 DEF OneChange, OnItsWay
<1>3. CommandsGoWhereShown'
  BY DEF CommandsGoWhereShown
<1>4. QED
  BY <1>2, <1>3 DEF DesktopIInv, PatientInv

(* What the user who waits does, and what he has begun, finds him at rest. *)
LEMMA RestIsQuiet ==
  ASSUME DesktopIInv, ~Haste,
         \/ MayAsk
         \/ reading # NoReading \/ command # NoCommand \/ dialog.open
  PROVE  /\ ~Changing /\ WindowFits
         /\ reading.pc = "reading" => reading.ied = active
         /\ dialog.open => AskedHere(dialog)
         /\ command.pc # "idle" => AskedHere(command.asked)
         /\ command.pc \in {"named", "taken", "sending"} => command.ied = active
         /\ command.pc = "sending" => command.tag = active
BY DEF DesktopIInv, PatientInv, OneChange, AtRest, MayAsk

(* A window that shows the same fits as before.                            *)
LEMMA SameWindowFits ==
  ASSUME WindowFits, UNCHANGED <<clients, active, conns, armed, view, poll>>,
         used'.armedFor = used.armedFor
  PROVE  WindowFits'
BY DEF WindowFits, TicksFit, ActiveIsOpen, ListIsTrue, Open, Connected

LEMMA StartReadingKeeps ==
  ASSUME DesktopIInv, StartReading
  PROVE  DesktopIInv'
<1>1. DesktopTypes'
  BY DEF StartReading, ReadingAsked, NoReading, DesktopIInv, DesktopTypes, backend, window,
         IedOrNone, BegunWith
<1>2. ASSUME ~Haste PROVE ~Changing /\ CommandsGoWhereShown' /\ AtRest'
  <2>1. ~Changing /\ WindowFits'
    BY <1>2, RestIsQuiet, SameWindowFits DEF StartReading, backend, window
  <2>2. CommandsGoWhereShown'
    BY DEF DesktopIInv, CommandsGoWhereShown, StartReading
  <2>3. AtRest'
    BY <1>2, <2>1, RestIsQuiet DEF StartReading, ReadingAsked, NoReading, AtRest, AskedHere, backend, window
  <2>4. QED
    BY <2>1, <2>2, <2>3
<1>3. QED
  BY <1>1, <1>2, RestKeeps DEF StartReading, backend, window

LEMMA ReadActiveKeeps ==
  ASSUME DesktopIInv, ReadActive
  PROVE  DesktopIInv'
<1>1. DesktopTypes'
  BY DEF ReadActive, DesktopIInv, DesktopTypes, backend, window, IedOrNone, BegunWith
<1>2. ASSUME ~Haste PROVE ~Changing /\ CommandsGoWhereShown' /\ AtRest'
  <2>0. reading # NoReading
    BY DEF ReadActive, NoReading
  <2>1. ~Changing /\ WindowFits'
    BY <1>2, <2>0, RestIsQuiet, SameWindowFits DEF ReadActive, backend, window
  <2>2. CommandsGoWhereShown'
    BY DEF DesktopIInv, CommandsGoWhereShown, ReadActive
  <2>3. AtRest'
    BY <1>2, <2>0, <2>1, RestIsQuiet DEF ReadActive, AtRest, AskedHere, backend, window
  <2>4. QED
    BY <2>1, <2>2, <2>3
<1>3. QED
  BY <1>1, <1>2, RestKeeps DEF ReadActive, backend, window

LEMMA ShowValueKeeps ==
  ASSUME DesktopIInv, ShowValue
  PROVE  DesktopIInv'
<1>0. PICK got \in {{}, {reading.ied} \ {NoIed}} : view' = [view EXCEPT !.values = @ \cup got]
  BY DEF ShowValue
<1>1. /\ view'.model = view.model /\ view'.values = view.values \cup got
      /\ view' \in ViewType
  <2>1. got \in SUBSET Ieds
    BY <1>0 DEF DesktopIInv, DesktopTypes, IedOrNone
  <2>2. QED
    BY <1>0, <2>1 DEF DesktopIInv, DesktopTypes, ViewType
<1>2. DesktopTypes'
  BY <1>1 DEF ShowValue, DesktopIInv, DesktopTypes, NoReading, backend, IedOrNone, BegunWith
<1>3. ASSUME ~Haste PROVE ~Changing /\ CommandsGoWhereShown' /\ AtRest'
  <2>0. reading # NoReading /\ reading.pc = "reading"
    BY DEF ShowValue, NoReading
  <2>1. ~Changing /\ WindowFits /\ reading.ied = active
    BY <1>3, <2>0, RestIsQuiet
  <2>2. CommandsGoWhereShown'
    BY DEF DesktopIInv, CommandsGoWhereShown, ShowValue
  <2>3. view'.values \subseteq {active}
    BY <1>0, <1>1, <2>1 DEF WindowFits
  <2>4. WindowFits'
    BY <1>1, <2>1, <2>3 DEF WindowFits, TicksFit, ActiveIsOpen, ListIsTrue, Open, Connected, ShowValue, backend
  <2>5. AtRest'
    BY <1>3, <2>0, <2>4, RestIsQuiet DEF ShowValue, NoReading, AtRest, AskedHere, backend
  <2>6. QED
    BY <2>1, <2>2, <2>5
<1>4. QED
  BY <1>2, <1>3, RestKeeps DEF ShowValue, backend

(* What the timer does, also while a connection changes, and what shortens  *)
(* its work, leave a window that fits, or that is emptied, as it should be. *)
LEMMA PollKeeps ==
  ASSUME DesktopIInv,
         UNCHANGED <<clients, active, conns, armed, dialog, flows, reading, command, audited, used>>,
         view' \in ViewType, poll' \in PollType, view'.model = view.model,
         WindowFits => view'.values \subseteq {active} /\ TicksFit',
         Emptied => Emptied'
  PROVE  DesktopIInv'
<1>1. DesktopTypes'
  BY DEF DesktopIInv, DesktopTypes, BegunWith
<1>2. CommandsGoWhereShown'
  BY DEF DesktopIInv, CommandsGoWhereShown
<1>3. /\ Open' = Open /\ Changing' = Changing
      /\ ActiveIsOpen' = ActiveIsOpen /\ ListIsTrue' = ListIsTrue
      /\ WindowFits => WindowFits'
  BY DEF Open, Changing, ActiveIsOpen, ListIsTrue, WindowFits, Connected
<1>4. ASSUME ~Haste PROVE OneChange' /\ AtRest' /\ \A f \in Flows : OnItsWay(flows[f])'
  <2>1. OneChange /\ AtRest /\ \A f \in Flows : OnItsWay(flows[f])
    BY <1>4 DEF DesktopIInv, PatientInv
  <2>2. OneChange'
    BY <1>3, <2>1 DEF OneChange
  <2>3. AtRest'
    BY <1>3, <2>1 DEF AtRest, AskedHere
  <2>4. \A f \in Flows : OnItsWay(flows[f])'
    BY <1>3, <2>1 DEF OnItsWay
  <2>5. QED
    BY <2>2, <2>3, <2>4
<1>5. QED
  BY <1>1, <1>2, <1>4 DEF DesktopIInv, PatientInv

LEMMA FewerTicksKeep ==
  ASSUME DesktopIInv, RemoveWatch \/ SetPolling
  PROVE  DesktopIInv'
<1>1. poll \in PollType /\ view \in ViewType
  BY DEF DesktopIInv, DesktopTypes
<1>2. /\ poll' \in PollType
      /\ poll'.ticks \subseteq poll.ticks
      /\ poll'.watching => poll.watching
  BY <1>1 DEF RemoveWatch, SetPolling, PollType
<1>3. UNCHANGED <<clients, active, conns, armed, dialog, view, flows, reading, command, audited, used>>
  BY DEF RemoveWatch, SetPolling, OnlyPoll, backend
<1>4. WindowFits => view'.values \subseteq {active} /\ TicksFit'
  BY <1>2, <1>3 DEF WindowFits, TicksFit
<1>5. Emptied => Emptied'
  BY <1>2, <1>3 DEF Emptied, ListIsTrue, Open
<1>6. QED
  BY <1>1, <1>2, <1>3, <1>4, <1>5, PollKeeps

LEMMA TickKeeps ==
  ASSUME DesktopIInv, Tick
  PROVE  DesktopIInv'
<1>1. poll \in PollType /\ view \in ViewType
  BY DEF DesktopIInv, DesktopTypes
<1>2. /\ poll' \in PollType
      /\ poll'.ticks = poll.ticks \cup {NewTick} /\ NewTick.got = {}
  <2>1. NewTick \in TickType /\ NewTick.got = {}
    BY DEF NewTick, TickType
  <2>2. QED
    BY <1>1, <2>1 DEF Tick, PollType
<1>3. UNCHANGED <<clients, active, conns, armed, dialog, view, flows, reading, command, audited, used>>
  BY DEF Tick, OnlyPoll, backend
<1>4. WindowFits => view'.values \subseteq {active} /\ TicksFit'
  BY <1>2, <1>3 DEF WindowFits, TicksFit
<1>5. ~Emptied
  BY DEF Tick, Emptied
<1>6. QED
  BY <1>1, <1>2, <1>3, <1>4, <1>5, PollKeeps

LEMMA TickReadsKeeps ==
  ASSUME DesktopIInv, NEW t \in poll.ticks, TickReads(t)
  PROVE  DesktopIInv'
<1> PICK r : r = [t EXCEPT !.got = @ \cup {active}]
  OBVIOUS
<1>1. poll \in PollType /\ view \in ViewType /\ active \in Ieds
  BY DEF DesktopIInv, DesktopTypes, TickReads, Found, IedOrNone
<1>2. t \in TickType
  BY <1>1 DEF PollType
<1>3. r \in TickType /\ r.late = t.late /\ r.got = t.got \cup {active}
  BY <1>1, <1>2 DEF TickType
<1>4. /\ poll' \in PollType
      /\ poll'.ticks = (poll.ticks \ {t}) \cup {r} /\ poll'.watching = poll.watching
  BY <1>1, <1>3 DEF TickReads, PollType
<1>5. UNCHANGED <<clients, active, conns, armed, dialog, view, flows, reading, command, audited, used>>
  BY DEF TickReads, OnlyPoll, backend
<1>6. WindowFits => view'.values \subseteq {active} /\ TicksFit'
  BY <1>3, <1>4, <1>5 DEF WindowFits, TicksFit
<1>7. Emptied => Emptied'
  BY <1>3, <1>4, <1>5 DEF Emptied, ListIsTrue, Open
<1>8. QED
  BY <1>1, <1>4, <1>5, <1>6, <1>7, PollKeeps

LEMMA TickShowsKeeps ==
  ASSUME DesktopIInv, NEW t \in poll.ticks, TickShows(t)
  PROVE  DesktopIInv'
<1>1. poll \in PollType /\ view \in ViewType
  BY DEF DesktopIInv, DesktopTypes
<1>2. t.got \subseteq Ieds
  BY <1>1 DEF PollType, TickType
<1>3. /\ poll' \in PollType
      /\ poll'.ticks \subseteq poll.ticks /\ poll'.watching = poll.watching
  BY <1>1 DEF TickShows, PollType
<1>4. /\ view' \in ViewType /\ view'.model = view.model
      /\ view'.values = IF t.late THEN view.values ELSE view.values \cup t.got
  BY <1>1, <1>2 DEF TickShows, ViewType
<1>5. UNCHANGED <<clients, active, conns, armed, dialog, flows, reading, command, audited, used>>
  BY DEF TickShows, backend
<1>6. WindowFits => view'.values \subseteq {active} /\ TicksFit'
  BY <1>3, <1>4, <1>5 DEF WindowFits, TicksFit
<1>7. Emptied => Emptied'
  BY <1>3, <1>4, <1>5 DEF Emptied, ListIsTrue, Open
<1>8. QED
  BY <1>3, <1>4, <1>5, <1>6, <1>7, PollKeeps

(* A user who waits begins to watch while the window fits.                 *)
LEMMA WatchKeeps ==
  ASSUME DesktopIInv, MayAsk, OnlyPoll,
         poll' = [poll EXCEPT !.watching = TRUE], reading' \in {reading, ReadingAsked}
  PROVE  DesktopIInv'
<1>1. poll' \in PollType /\ poll'.ticks = poll.ticks
  BY DEF DesktopIInv, DesktopTypes, PollType
<1>2. UNCHANGED <<clients, active, conns, armed, dialog, view, flows, command, audited, used>>
  BY DEF OnlyPoll, backend
<1>3. DesktopTypes'
  BY <1>1, <1>2 DEF DesktopIInv, DesktopTypes, BegunWith, ReadingAsked, NoReading, IedOrNone
<1>4. ASSUME ~Haste PROVE ~Changing /\ CommandsGoWhereShown' /\ AtRest'
  <2>1. ~Changing /\ WindowFits
    BY <1>4, RestIsQuiet
  <2>2. WindowFits'
    BY <1>1, <1>2, <2>1 DEF WindowFits, TicksFit, ActiveIsOpen, ListIsTrue, Open, Connected
  <2>3. CommandsGoWhereShown'
    BY <1>2 DEF DesktopIInv, CommandsGoWhereShown
  <2>4. AtRest'
    BY <1>2, <1>4, <2>2, RestIsQuiet DEF ReadingAsked, NoReading, AtRest, AskedHere
  <2>5. QED
    BY <2>1, <2>3, <2>4
<1>5. QED
  BY <1>2, <1>3, <1>4, RestKeeps

LEMMA AddWatchKeeps ==
  ASSUME DesktopIInv, AddWatch
  PROVE  DesktopIInv'
BY WatchKeeps DEF AddWatch

LEMMA DropKeeps ==
  ASSUME DesktopIInv, DropOnBoard
  PROVE  DesktopIInv'
BY WatchKeeps DEF DropOnBoard

LEMMA ArmKeeps ==
  ASSUME DesktopIInv, Arm
  PROVE  DesktopIInv'
<1>1. DesktopTypes'
  <2>1. used' \in [armedFor : IedOrNone, begun : 0..MaxBegun]
    BY DEF Arm, DesktopIInv, DesktopTypes, IedOrNone
  <2>2. QED
    BY <2>1 DEF Arm, DesktopIInv, DesktopTypes, backend, BegunWith
<1>2. ASSUME ~Haste PROVE ~Changing /\ CommandsGoWhereShown' /\ AtRest'
  <2>1. ~Changing /\ WindowFits
    BY <1>2, RestIsQuiet DEF Arm
  <2>2. armed' => used'.armedFor = conns.active
    BY DEF Arm, DesktopIInv, DesktopTypes
  <2>3. WindowFits'
    BY <2>1, <2>2 DEF WindowFits, TicksFit, ActiveIsOpen, ListIsTrue, Open, Connected, Arm, backend
  <2>4. CommandsGoWhereShown'
    BY DEF DesktopIInv, CommandsGoWhereShown, Arm
  <2>5. AtRest'
    BY <1>2, <2>3, RestIsQuiet DEF Arm, AtRest, AskedHere, backend
  <2>6. QED
    BY <2>1, <2>4, <2>5
<1>3. QED
  BY <1>1, <1>2, RestKeeps DEF Arm, backend

(* A dialog, or a command without one, says what the window shows.         *)
LEMMA AskedAtRest ==
  ASSUME DesktopIInv, ~Haste, Connected, MayAsk, NEW what, NEW d,
         d = [open |-> TRUE, does |-> what, danger |-> DangerZone,
              ied |-> conns.active, armedFor |-> used.armedFor],
         what \in Guarded => armed
  PROVE  AskedHere(d)
<1>1. WindowFits
  BY RestIsQuiet
<1>2. QED
  BY <1>1 DEF AskedHere, WindowFits, ListIsTrue, DangerZone

LEMMA AskUserKeeps ==
  ASSUME DesktopIInv, NEW what \in Guarded, AskUser(what)
  PROVE  DesktopIInv'
<1> PICK d : d = [open |-> TRUE, does |-> what, danger |-> DangerZone,
                  ied |-> conns.active, armedFor |-> used.armedFor]
  OBVIOUS
<1>1. DesktopTypes'
  <2>1. used' \in [armedFor : IedOrNone, begun : 0..MaxBegun]
    BY DEF AskUser, DesktopIInv, DesktopTypes
  <2>2. dialog' \in DialogType
    BY DEF AskUser, DialogType, DangerZone, Connected, DesktopIInv, DesktopTypes
  <2>3. QED
    BY <2>1, <2>2 DEF AskUser, DesktopIInv, DesktopTypes, backend, BegunWith
<1>2. ASSUME ~Haste PROVE ~Changing /\ CommandsGoWhereShown' /\ AtRest'
  <2>1. used'.armedFor = used.armedFor
    BY DEF AskUser, DesktopIInv, DesktopTypes
  <2>2. ~Changing /\ WindowFits'
    BY <1>2, <2>1, RestIsQuiet, SameWindowFits DEF AskUser, backend
  <2>3. AskedHere(d) /\ dialog' = d
    BY <1>2, AskedAtRest DEF AskUser
  <2>4. CommandsGoWhereShown'
    BY DEF DesktopIInv, CommandsGoWhereShown, AskUser
  <2>5. AtRest'
    BY <1>2, <2>2, <2>3, RestIsQuiet DEF AskUser, AtRest, AskedHere, backend
  <2>6. QED
    BY <2>2, <2>4, <2>5
<1>3. QED
  BY <1>1, <1>2, RestKeeps DEF AskUser, backend

LEMMA SendAtOnceKeeps ==
  ASSUME DesktopIInv, NEW what \in AtOnce, SendAtOnce(what)
  PROVE  DesktopIInv'
<1> PICK d : d = [open |-> TRUE, does |-> what, danger |-> DangerZone,
                  ied |-> conns.active, armedFor |-> used.armedFor]
  OBVIOUS
<1>0. /\ command' = [NoCommand EXCEPT !.pc = "confirmed", !.asked = d]
      /\ command'.pc = "confirmed" /\ command'.asked = d
  BY DEF SendAtOnce, NoCommand
<1>1. DesktopTypes'
  <2>1. used' \in [armedFor : IedOrNone, begun : 0..MaxBegun]
    BY DEF SendAtOnce, DesktopIInv, DesktopTypes
  <2>2. d \in DialogType
    BY DEF DialogType, DangerZone, Connected, DesktopIInv, DesktopTypes
  <2>3. command' \in CommandType
    BY <1>0, <2>2 DEF CommandType, NoCommand, IedOrNone
  <2>4. QED
    BY <2>1, <2>3 DEF SendAtOnce, DesktopIInv, DesktopTypes, backend, window, BegunWith
<1>2. ASSUME ~Haste PROVE ~Changing /\ CommandsGoWhereShown' /\ AtRest'
  <2>1. used'.armedFor = used.armedFor
    BY DEF SendAtOnce, DesktopIInv, DesktopTypes
  <2>2. ~Changing /\ WindowFits'
    BY <1>2, <2>1, RestIsQuiet, SameWindowFits DEF SendAtOnce, backend, window
  <2>3. AskedHere(d)
    BY <1>2, AskedAtRest DEF SendAtOnce, AtOnce, Guarded
  <2>4. CommandsGoWhereShown'
    BY DEF DesktopIInv, CommandsGoWhereShown, SendAtOnce
  <2>5. AtRest'
    BY <1>0, <1>2, <2>2, <2>3, RestIsQuiet DEF SendAtOnce, AtRest, AskedHere, backend, window
  <2>6. QED
    BY <2>2, <2>4, <2>5
<1>3. QED
  BY <1>1, <1>2, RestKeeps DEF SendAtOnce, backend, window

LEMMA CancelKeeps ==
  ASSUME DesktopIInv, Cancel
  PROVE  DesktopIInv'
<1>1. DesktopTypes'
  BY DEF Cancel, DesktopIInv, DesktopTypes, backend, BegunWith, NoDialog, DialogType, IedOrNone, Guarded
<1>2. ASSUME ~Haste PROVE ~Changing /\ CommandsGoWhereShown' /\ AtRest'
  <2>1. ~Changing /\ WindowFits'
    BY <1>2, RestIsQuiet, SameWindowFits DEF Cancel, backend
  <2>2. CommandsGoWhereShown'
    BY DEF DesktopIInv, CommandsGoWhereShown, Cancel
  <2>3. AtRest'
    BY <1>2, <2>1, RestIsQuiet DEF Cancel, NoDialog, AtRest, AskedHere, backend
  <2>4. QED
    BY <2>1, <2>2, <2>3
<1>3. QED
  BY <1>1, <1>2, RestKeeps DEF Cancel, backend

LEMMA ConfirmKeeps ==
  ASSUME DesktopIInv, ConfirmPending
  PROVE  DesktopIInv'
<1>0. /\ command' = [NoCommand EXCEPT !.pc = "confirmed", !.asked = dialog]
      /\ command'.pc = "confirmed" /\ command'.asked = dialog
  BY DEF ConfirmPending, NoCommand
<1>1. DesktopTypes'
  <2>1. command' \in CommandType
    BY <1>0 DEF CommandType, NoCommand, IedOrNone, DesktopIInv, DesktopTypes
  <2>2. dialog' \in DialogType
    BY DEF ConfirmPending, NoDialog, DialogType, IedOrNone, Guarded
  <2>3. QED
    BY <2>1, <2>2 DEF ConfirmPending, DesktopIInv, DesktopTypes, backend, BegunWith
<1>2. ASSUME ~Haste PROVE ~Changing /\ CommandsGoWhereShown' /\ AtRest'
  <2>1. ~Changing /\ WindowFits'
    BY <1>2, RestIsQuiet, SameWindowFits DEF ConfirmPending, backend
  <2>2. CommandsGoWhereShown'
    BY DEF DesktopIInv, CommandsGoWhereShown, ConfirmPending
  <2>3. AskedHere(dialog)
    BY <1>2, RestIsQuiet DEF ConfirmPending
  <2>4. AtRest'
    BY <1>0, <1>2, <2>1, <2>3, RestIsQuiet DEF ConfirmPending, NoDialog, AtRest, AskedHere, backend
  <2>5. QED
    BY <2>1, <2>2, <2>4
<1>3. QED
  BY <1>1, <1>2, RestKeeps DEF ConfirmPending, backend

(* The steps of a command in the backend before it is sent.                *)
LEMMA PreparingKeeps ==
  ASSUME DesktopIInv, CurrentName \/ CurrentClient \/ ActiveId
  PROVE  DesktopIInv'
<1>0. /\ command.pc \in {"confirmed", "named", "taken"} /\ OnlyCommand
      /\ \/ command' = NoCommand
         \/ /\ command'.pc = "named" /\ command'.ied = active
            /\ command' = [command EXCEPT !.pc = "named", !.ied = active]
         \/ /\ command.pc = "named" /\ command'.pc = "taken" /\ command'.ied = command.ied
            /\ command' = [command EXCEPT !.pc = "taken"]
         \/ /\ command.pc = "taken" /\ command'.pc = "sending"
            /\ command'.ied = command.ied /\ command'.tag = active
            /\ command' = [command EXCEPT !.pc = "sending", !.tag = active]
  BY DEF CurrentName, CurrentClient, ActiveId, CommandType, DesktopIInv, DesktopTypes
<1>1. command' = NoCommand \/ command'.asked = command.asked
  BY <1>0 DEF CommandType, DesktopIInv, DesktopTypes
<1>2. DesktopTypes'
  <2>1. NoCommand \in CommandType
    BY DEF NoCommand, NoDialog, CommandType, DialogType, IedOrNone, Guarded
  <2>2. command' \in CommandType
    BY <1>0, <2>1 DEF CommandType, DesktopIInv, DesktopTypes
  <2>3. QED
    BY <1>0, <2>2 DEF OnlyCommand, DesktopIInv, DesktopTypes, backend, window, BegunWith
<1>3. ASSUME ~Haste PROVE ~Changing /\ CommandsGoWhereShown' /\ AtRest'
  <2>0. command # NoCommand /\ command.pc # "idle"
    BY <1>0 DEF NoCommand
  <2>1. ~Changing /\ WindowFits' /\ AskedHere(command.asked)
    BY <1>0, <1>3, <2>0, RestIsQuiet, SameWindowFits DEF OnlyCommand, backend, window
  <2>2. CommandsGoWhereShown'
    BY <1>0 DEF DesktopIInv, CommandsGoWhereShown, OnlyCommand
  <2>3. /\ command'.pc # "idle" => command'.asked = command.asked
        /\ command'.pc \in {"named", "taken", "sending"} => command'.ied = active
        /\ command'.pc = "sending" => command'.tag = active
    BY <1>0, <1>1, <1>3, <2>0, RestIsQuiet DEF NoCommand
  <2>4. command'.pc # "idle" => AskedHere(command.asked)'
    BY <1>0, <2>1, <2>3 DEF AskedHere, OnlyCommand, backend
  <2>5. AtRest'
    BY <1>0, <1>3, <2>0, <2>1, <2>3, <2>4, RestIsQuiet DEF OnlyCommand, AtRest, AskedHere, backend, window
  <2>6. QED
    BY <2>1, <2>2, <2>5
<1>4. QED
  BY <1>0, <1>2, <1>3, RestKeeps DEF OnlyCommand, backend, window

LEMMA ExecutedKeeps ==
  ASSUME DesktopIInv, NEW whats, NEW reads \in BOOLEAN, Executed(whats, reads)
  PROVE  DesktopIInv'
<1>0. reading' \in {reading, ReadingAsked} /\ command' = NoCommand /\ audited' = command
  BY DEF Executed, Audit
<1>1. DesktopTypes'
  <2>1. NoCommand \in CommandType
    BY DEF NoCommand, NoDialog, CommandType, DialogType, IedOrNone, Guarded
  <2>2. ReadingAsked \in [pc : {"idle", "asked", "reading"}, ied : IedOrNone]
    BY DEF ReadingAsked, NoReading, IedOrNone
  <2>3. QED
    BY <1>0, <2>1, <2>2 DEF Executed, DesktopIInv, DesktopTypes, backend, window, BegunWith
<1>2. ASSUME ~Haste PROVE ~Changing /\ CommandsGoWhereShown' /\ AtRest'
  <2>0. command # NoCommand /\ command.pc = "sending"
    BY DEF Executed, NoCommand
  <2>1. /\ ~Changing /\ WindowFits' /\ AskedHere(command.asked)
        /\ command.ied = active /\ command.tag = active
    BY <1>2, <2>0, RestIsQuiet, SameWindowFits DEF Executed, backend, window
  <2>2. CommandsGoWhereShown'
    BY <1>0, <2>1 DEF CommandsGoWhereShown, AskedHere
  <2>3. AtRest'
    BY <1>0, <1>2, <2>0, <2>1, RestIsQuiet
    DEF Executed, NoCommand, ReadingAsked, NoReading, AtRest, AskedHere, backend, window
  <2>4. QED
    BY <2>1, <2>2, <2>3
<1>3. QED
  BY <1>1, <1>2, RestKeeps DEF Executed, backend, window

-----------------------------------------------------------------------------
LEMMA BeginningKeeps ==
  ASSUME DesktopIInv, NEW f \in Flows, NEW i \in Ieds,
         ConnectTo(f, i) \/ ConnectTls(f, i) \/ ConnectProfile(f, i) \/ ConnectDemo(f)
           \/ SwitchTo(f, i) \/ CloseConn(f, i)
  PROVE  DesktopIInv'
<1>1. \A way \in Ways, j \in Ieds :
        Begun([NoFlow EXCEPT !.pc = "dialling", !.way = way, !.ied = j])
  BY DEF Begun, NoFlow, FlowRecord, FlowPcs, BegunWith, IedOrNone
<1>2. /\ Begun([NoFlow EXCEPT !.pc = "choosing", !.does = "switch", !.ied = i])
      /\ Begun([NoFlow EXCEPT !.pc = "closing", !.does = "close", !.ied = i])
  BY DEF Begun, NoFlow, FlowRecord, FlowPcs, BegunWith, IedOrNone
<1>3. CASE ConnectTo(f, i)
  BY <1>1, <1>3, StartKeeps DEF ConnectTo, Ways
<1>4. CASE ConnectTls(f, i)
  BY <1>1, <1>4, StartKeeps DEF ConnectTls, Ways
<1>5. CASE ConnectDemo(f)
  BY <1>1, <1>5, StartKeeps DEF ConnectDemo, Ways, DesktopAssumption
<1>6. CASE SwitchTo(f, i)
  BY <1>2, <1>6, StartKeeps DEF SwitchTo
<1>7. CASE CloseConn(f, i)
  BY <1>2, <1>7, StartKeeps DEF CloseConn
<1>8. QED
  BY <1>3, <1>4, <1>5, <1>6, <1>7 DEF ConnectProfile

LEMMA DesktopInitially == DesktopInit => DesktopIInv
<1> SUFFICES ASSUME DesktopInit PROVE DesktopIInv
  OBVIOUS
<1>1. NoCommand \in CommandType /\ NoDialog \in DialogType
  BY DEF NoCommand, NoDialog, CommandType, DialogType, IedOrNone, Guarded
<1>2. NoFlow \in FlowRecord /\ BegunWith(NoFlow)
  BY DEF NoFlow, FlowRecord, FlowPcs, BegunWith, IedOrNone
<1>3. DesktopTypes
  <2>1. clients \in [Ieds -> Ways \cup {NoIed}] /\ active \in IedOrNone /\ armed \in BOOLEAN
    BY DEF DesktopInit, IedOrNone
  <2>2. /\ conns \in [open : SUBSET Ieds, active : IedOrNone]
        /\ conns.active \in conns.open \cup {NoIed}
        /\ view \in ViewType /\ poll \in PollType
    BY DEF DesktopInit, NoView, ViewType, PollType, IedOrNone
  <2>3. flows \in [Flows -> FlowRecord] /\ \A f \in Flows : BegunWith(flows[f])
    BY <1>2 DEF DesktopInit
  <2>4. reading \in [pc : {"idle", "asked", "reading"}, ied : IedOrNone]
    BY DEF DesktopInit, NoReading, IedOrNone
  <2>5. used \in [armedFor : IedOrNone, begun : 0..MaxBegun]
    BY DEF DesktopInit, IedOrNone
  <2>6. QED
    BY <1>1, <2>1, <2>2, <2>3, <2>4, <2>5 DEF DesktopInit, DesktopTypes
<1>4. ~Changing /\ WindowFits
  BY DEF DesktopInit, NoView, Changing, NoFlow, WindowFits, TicksFit, ActiveIsOpen, ListIsTrue, Open
<1>5. PatientInv
  BY <1>4 DEF DesktopInit, PatientInv, OneChange, AtRest, OnItsWay, NoFlow, NoReading, NoCommand, NoDialog
<1>6. QED
  BY <1>3, <1>5 DEF DesktopIInv, DesktopInit, CommandsGoWhereShown

LEMMA DesktopStep == DesktopIInv /\ [DesktopNext]_desktopVars => DesktopIInv'
<1> SUFFICES ASSUME DesktopIInv, [DesktopNext]_desktopVars PROVE DesktopIInv'
  OBVIOUS
<1>1. ASSUME NEW f \in Flows, NEW i \in Ieds,
             ConnectTo(f, i) \/ ConnectTls(f, i) \/ ConnectProfile(f, i)
               \/ SwitchTo(f, i) \/ CloseConn(f, i)
      PROVE  DesktopIInv'
  BY <1>1, BeginningKeeps
<1>2. ASSUME NEW f \in Flows, ConnectDemo(f) PROVE DesktopIInv'
  BY <1>2, BeginningKeeps DEF ConnectDemo
<1>3. ASSUME NEW f \in Flows, ConnectedPlain(f) \/ ConnectedTls(f) \/ ConnectedTlsDemo(f)
      PROVE  DesktopIInv'
  BY <1>3, DialledKeeps DEF ConnectedPlain, ConnectedTls, ConnectedTlsDemo, Ways
<1>4. ASSUME NEW f \in Flows,
             ConnectFails(f) \/ SetActive(f) \/ Activate(f) \/ DisconnectId(f) \/ Succeed(f)
      PROVE  DesktopIInv'
  BY <1>4, ConnectFailsKeeps, SetActiveKeeps, ActivateKeeps, DisconnectKeeps, SucceedKeeps
<1>5. ASSUME NEW f \in Flows,
             ListActive(f) \/ ListOpen(f) \/ Refresh(f) \/ Discover(f) \/ ShowModel(f)
      PROVE  DesktopIInv'
  BY <1>5, ListActiveKeeps, ListOpenKeeps, RefreshKeeps, DiscoverKeeps, ShowModelKeeps
<1>6. ASSUME SelectNode \/ ReadActive \/ ShowValue \/ Arm \/ Cancel PROVE DesktopIInv'
  BY <1>6, StartReadingKeeps, ReadActiveKeeps, ShowValueKeeps, ArmKeeps, CancelKeeps
  DEF SelectNode
<1>7. ASSUME AskWrite \/ OperateFromBoard \/ AskActivateSg \/ AskConfirmSg PROVE DesktopIInv'
  BY <1>7, AskUserKeeps DEF AskWrite, OperateFromBoard, AskActivateSg, AskConfirmSg, Guarded
<1>8. ASSUME SelectFromBoard \/ RcbApply \/ DoEnable \/ SelectEditSg PROVE DesktopIInv'
  BY <1>8, SendAtOnceKeeps DEF SelectFromBoard, RcbApply, DoEnable, SelectEditSg, AtOnce
<1>9. ASSUME ConfirmPending \/ CurrentName \/ CurrentClient \/ ActiveId PROVE DesktopIInv'
  BY <1>9, ConfirmKeeps, PreparingKeeps
<1>10. ASSUME \/ Write \/ Operate \/ Select \/ SgSelectActive \/ SgSelectEdit \/ SgConfirmEdit
              \/ RcbWrite \/ EnableReport
       PROVE  DesktopIInv'
  BY <1>10, ExecutedKeeps
  DEF Write, Operate, Select, SgSelectActive, SgSelectEdit, SgConfirmEdit, RcbWrite, EnableReport
<1>11. ASSUME UNCHANGED desktopVars PROVE DesktopIInv'
  BY <1>11 DEF desktopVars, DesktopIInv, DesktopTypes, BegunWith, PatientInv, OneChange, AtRest,
               OnItsWay, Emptied, WindowFits, TicksFit, ActiveIsOpen, ListIsTrue, Open, Changing, Connected, AskedHere,
               CommandsGoWhereShown
<1>12. ASSUME AddWatch \/ DropOnBoard \/ RemoveWatch \/ SetPolling \/ Tick PROVE DesktopIInv'
  BY <1>12, AddWatchKeeps, DropKeeps, FewerTicksKeep, TickKeeps
<1>13. ASSUME NEW t \in poll.ticks, TickReads(t) \/ TickShows(t) PROVE DesktopIInv'
  BY <1>13, TickReadsKeeps, TickShowsKeeps
<1>14. QED
  BY <1>1, <1>2, <1>3, <1>4, <1>5, <1>6, <1>7, <1>8, <1>9, <1>10, <1>11, <1>12, <1>13
  DEF DesktopNext

(* The invariant holds of every behaviour.                                 *)
THEOREM DesktopInvariance == DesktopSpec => []DesktopIInv
BY DesktopInitially, DesktopStep, PTL DEF DesktopSpec

(* The backend's connections, the window's copy and everything under way   *)
(* keep their types. (AppState, App)                                       *)
THEOREM DesktopTypeCorrect == DesktopSpec => []DesktopTypeOK
<1>1. DesktopIInv => DesktopTypeOK
  BY DEF DesktopIInv, DesktopTypes, DesktopTypeOK, FlowRecord, ViewType, PollType
<1>2. QED
  BY <1>1, DesktopInvariance, PTL

(* Of a user who waits, a command goes to the IED that was shown when it   *)
(* was asked for and is audited under its name, and between two changes of *)
(* connection what is shown is of the active IED. (current, audit,         *)
(* switchView, closeAndRefresh, confirmPending)                            *)
THEOREM PatientUse == DesktopSpec => []PatientUseIsSafe
<1>1. DesktopIInv => PatientUseIsSafe
  BY DEF DesktopIInv, PatientInv, AtRest, WindowFits, TicksFit, ListIsTrue, PatientUseIsSafe,
         ViewIsOfTheActive
<1>2. QED
  BY <1>1, DesktopInvariance, PTL

-----------------------------------------------------------------------------
Pcs == {"idle", "starting", "copied", "bound", "stopping",
        "opening", "spawned", "started", "taking", "stopped"}
CallRecord == [pc : Pcs, bind : Binds \cup {Nothing}, scl : SclFiles \cup {Nothing},
               kind : Slots \cup {Nothing}]

(* What a call was made with, for as long as it needs it.                  *)
WellMade(r) ==
  /\ r.pc = "idle" <=> r = NoCall
  /\ r.pc \in {"starting", "copied", "bound"} => r.bind \in Binds /\ r.scl \in SclFiles
  /\ r.pc = "stopping" => r.bind \in Binds
  /\ r.pc \in {"opening", "spawned", "started", "taking", "stopped"} => r.kind \in Slots

CallsAreWellMade ==
  invoked \in [Calls -> CallRecord] /\ \A c \in Calls : WellMade(invoked[c])

(* The user who waits has one call under way.                              *)
OneCallAtATime ==
  \A c, d \in Calls : invoked[c] # NoCall /\ invoked[d] # NoCall => c = d

(* His live IEDs serve their file; a directory is empty unless a call is   *)
(* about to serve the file it has put there, from an address nobody uses.  *)
DirectoriesFit ==
  /\ \A b \in Binds : live[b] # Nothing => files[b] = {live[b]} /\ b \in listening
  /\ \A b \in Binds : live[b] = Nothing /\ files[b] # {} =>
       \E c \in Calls : invoked[c].pc \in {"copied", "bound"} /\ invoked[c].bind = b
  /\ \A c \in Calls :
       /\ invoked[c].pc \in {"starting", "copied", "bound"} => live[invoked[c].bind] = Nothing
       /\ invoked[c].pc \in {"starting", "copied"} => invoked[c].bind \notin listening
       /\ invoked[c].pc = "starting" => files[invoked[c].bind] = {}
       /\ invoked[c].pc \in {"copied", "bound"} => files[invoked[c].bind] = {invoked[c].scl}
       /\ invoked[c].pc = "bound" => invoked[c].bind \in listening

(* What his window shows of a task is about to be corrected if it is wrong. *)
WindowFollows ==
  /\ \A c \in Calls :
       /\ invoked[c].pc = "started" => slot[invoked[c].kind]
       /\ invoked[c].pc = "stopped" => ~slot[invoked[c].kind]
  /\ \A k \in Slots : lit[k] # slot[k] =>
       \E c \in Calls : invoked[c].pc \in {"started", "stopped"} /\ invoked[c].kind = k

Patient == ~overlap => OneCallAtATime /\ DirectoriesFit /\ WindowFollows

WorkbenchIInv ==
  /\ WorkbenchTypeOK
  /\ overlap \in BOOLEAN
  /\ CallsAreWellMade
  /\ TasksAreHeld
  /\ Patient

-----------------------------------------------------------------------------
Spawned(k) == {c \in Calls : invoked[c].pc = "spawned" /\ invoked[c].kind = k}

USE WorkbenchAssumption

LEMMA NoCallIsWellMade ==
  NoCall \in CallRecord /\ WellMade(NoCall) /\ NoCall.pc = "idle"
  BY DEF NoCall, CallRecord, Pcs, WellMade

LEMMA SpawnedIsFinite ==
  \A k : IsFiniteSet(Spawned(k)) /\ Cardinality(Spawned(k)) \in Nat
<1> TAKE k
<1>1. Spawned(k) \in SUBSET Calls
  BY DEF Spawned
<1>2. IsFiniteSet(Spawned(k))
  BY <1>1, FS_Subset
<1> QED BY <1>2, FS_CardinalityType

(* One call changes, to another that is well made.                         *)
LEMMA CallBecomes ==
  ASSUME CallsAreWellMade, NEW c \in Calls, NEW r \in CallRecord, WellMade(r),
         invoked' = [invoked EXCEPT ![c] = r]
  PROVE  /\ CallsAreWellMade'
         /\ invoked'[c] = r
         /\ \A d \in Calls : d # c => invoked'[d] = invoked[d]
<1>1. invoked' \in [Calls -> CallRecord]
  BY DEF CallsAreWellMade
<1>2. invoked'[c] = r /\ \A d \in Calls : d # c => invoked'[d] = invoked[d]
  BY DEF CallsAreWellMade
<1>3. \A d \in Calls : WellMade(invoked[d])
  BY DEF CallsAreWellMade
<1>4. \A d \in Calls : WellMade(invoked'[d])
  BY <1>2, <1>3
<1>5. CallRecord' = CallRecord /\ \A x : WellMade(x)' <=> WellMade(x)
  BY DEF CallRecord, WellMade, NoCall
<1> QED BY <1>1, <1>2, <1>4 DEF CallsAreWellMade, CallRecord, WellMade, NoCall

(* A call that returns is gone.                                            *)
LEMMA CallReturns ==
  ASSUME CallsAreWellMade, NEW c \in Calls, Return(c)
  PROVE  /\ CallsAreWellMade'
         /\ invoked'[c] = NoCall
         /\ \A d \in Calls : d # c => invoked'[d] = invoked[d]
  BY NoCallIsWellMade, CallBecomes DEF Return

(* A call that goes on keeps what it was made with.                        *)
LEMMA CallGoesOn ==
  ASSUME CallsAreWellMade, NEW c \in Calls, invoked[c].pc # "idle",
         NEW pc \in Pcs \ {"idle"}, GoOn(c, pc),
         pc \in {"copied", "bound"} => invoked[c].pc \in {"starting", "copied", "bound"},
         pc \notin {"starting", "stopping"},
         pc \in {"spawned", "started", "stopped"} =>
           invoked[c].pc \in {"opening", "spawned", "started", "taking", "stopped"},
         pc \notin {"opening", "taking"}
  PROVE  /\ CallsAreWellMade'
         /\ invoked'[c].pc = pc /\ invoked'[c].bind = invoked[c].bind
         /\ invoked'[c].scl = invoked[c].scl /\ invoked'[c].kind = invoked[c].kind
         /\ \A d \in Calls : d # c => invoked'[d] = invoked[d]
<1> DEFINE r == [invoked[c] EXCEPT !.pc = pc]
<1>1. invoked[c] \in CallRecord /\ WellMade(invoked[c])
  BY DEF CallsAreWellMade
<1>2. r \in CallRecord
  BY <1>1 DEF CallRecord, Pcs
<1>3. r.pc = pc /\ r.bind = invoked[c].bind /\ r.scl = invoked[c].scl /\ r.kind = invoked[c].kind
  BY <1>1 DEF CallRecord
<1>4. r # NoCall
  BY <1>3 DEF NoCall
<1>5. WellMade(r)
  BY <1>1, <1>3, <1>4 DEF WellMade, Pcs
<1>6. invoked' = [invoked EXCEPT ![c] = r]
  BY DEF GoOn, CallsAreWellMade
<1> HIDE DEF r
<1>7. /\ CallsAreWellMade'
      /\ invoked'[c] = r
      /\ \A d \in Calls : d # c => invoked'[d] = invoked[d]
  BY <1>2, <1>5, <1>6, CallBecomes
<1> QED BY <1>3, <1>7

(* Calls that neither spawn a task nor enter one leave the spawned ones.   *)
LEMMA SpawnedStays ==
  ASSUME NEW c \in Calls, invoked[c].pc # "spawned", invoked'[c].pc # "spawned",
         \A d \in Calls : d # c => invoked'[d] = invoked[d]
  PROVE  \A k : Spawned(k)' = Spawned(k)
  BY DEF Spawned

LEMMA HeldBySpawned ==
  TasksAreHeld <=>
    \A k \in Slots : running[k] = (IF slot[k] THEN 1 ELSE 0) + Cardinality(Spawned(k))
  BY DEF TasksAreHeld, Spawned

LEMMA StillHeld ==
  ASSUME TasksAreHeld, UNCHANGED <<running, slot>>, \A k : Spawned(k)' = Spawned(k)
  PROVE  TasksAreHeld'
<1>1. \A k \in Slots : running[k] = (IF slot[k] THEN 1 ELSE 0) + Cardinality(Spawned(k))
  BY HeldBySpawned
<1>2. \A k \in Slots : running'[k] = (IF slot'[k] THEN 1 ELSE 0) + Cardinality(Spawned(k)')
  BY <1>1
<1> QED BY <1>2 DEF TasksAreHeld, Spawned

(* Of the user who waits, a call that is under way is alone.               *)
LEMMA Alone ==
  ASSUME OneCallAtATime, NEW c \in Calls, invoked[c] # NoCall
  PROVE  \A d \in Calls : d # c => invoked[d] = NoCall
  BY DEF OneCallAtATime

LEMMA StaysAlone ==
  ASSUME NEW c \in Calls, \A d \in Calls : d # c => invoked'[d] = NoCall
  PROVE  OneCallAtATime'
  BY DEF OneCallAtATime, NoCall

LEMMA BindsStay ==
  ASSUME CallsAreWellMade
  PROVE  \A d \in Calls : invoked[d].bind \in Binds \cup {Nothing}
  BY DEF CallsAreWellMade, CallRecord

-----------------------------------------------------------------------------
LEMMA WorkbenchInitIInv == WorkbenchInit => WorkbenchIInv
<1> SUFFICES ASSUME WorkbenchInit PROVE WorkbenchIInv
  OBVIOUS
<1>1. \A c \in Calls : invoked[c] = NoCall
  BY DEF WorkbenchInit
<1>2. CallsAreWellMade
  BY <1>1, NoCallIsWellMade DEF WorkbenchInit, CallsAreWellMade
<1>3. WorkbenchTypeOK
  BY <1>2, BindsStay DEF WorkbenchInit, WorkbenchTypeOK
<1>4. TasksAreHeld
  <2>1. \A k : Spawned(k) = {}
    BY <1>1, NoCallIsWellMade DEF Spawned
  <2>2. \A k \in Slots : running[k] = 0 /\ slot[k] = FALSE
    BY DEF WorkbenchInit
  <2> QED BY <2>1, <2>2, FS_EmptySet, HeldBySpawned
<1>5. Patient
  <2>1. OneCallAtATime
    BY <1>1 DEF OneCallAtATime
  <2>2. DirectoriesFit
    BY <1>1, NoCallIsWellMade DEF WorkbenchInit, DirectoriesFit
  <2>3. WindowFollows
    BY <1>1, NoCallIsWellMade DEF WorkbenchInit, WindowFollows
  <2> QED BY <2>1, <2>2, <2>3 DEF Patient
<1>6. overlap \in BOOLEAN
  BY DEF WorkbenchInit
<1> QED BY <1>2, <1>3, <1>4, <1>5, <1>6 DEF WorkbenchIInv

(* The user makes a call: nothing but the call is new.                     *)
LEMMA InvokeIInv ==
  ASSUME WorkbenchIInv, NEW c \in Calls, NEW what \in CallRecord, WellMade(what),
         what.pc \in {"starting", "stopping", "opening", "taking"}, Invoke(c, what),
         what.pc = "starting" =>
           overlap \/ (live[what.bind] = Nothing /\ what.bind \notin listening)
  PROVE  WorkbenchIInv'
<1> USE DEF WorkbenchIInv
<1>1. /\ CallsAreWellMade'
      /\ invoked'[c] = what
      /\ \A d \in Calls : d # c => invoked'[d] = invoked[d]
  BY CallBecomes DEF Invoke
<1>2. UNCHANGED <<live, listening, files, running, slot, lit, overlap>> /\ called' \in 0..MaxCalled
  BY DEF Invoke, WorkbenchTypeOK
<1>3. WorkbenchTypeOK'
  <2>1. \A d \in Calls : invoked'[d].bind \in Binds \cup {Nothing}
    BY <1>1 DEF CallsAreWellMade, CallRecord
  <2> QED BY <1>2, <2>1 DEF WorkbenchTypeOK
<1>4. TasksAreHeld'
  <2>1. invoked[c].pc = "idle"
    BY NoCallIsWellMade DEF Invoke
  <2>2. \A k : Spawned(k)' = Spawned(k)
    BY <1>1, <2>1, SpawnedStays
  <2> QED BY <1>2, <2>2, StillHeld
<1>5. Patient'
  <2> SUFFICES ASSUME ~overlap' PROVE OneCallAtATime' /\ DirectoriesFit' /\ WindowFollows'
    BY DEF Patient
  <2>1. ~overlap /\ DirectoriesFit /\ WindowFollows
    BY <1>2 DEF Patient
  <2>2. \A d \in Calls : invoked[d] = NoCall /\ invoked[d].pc = "idle"
    BY <2>1, NoCallIsWellMade DEF Invoke, Idle
  <2>3. OneCallAtATime'
    BY <1>1, <2>2, StaysAlone
  <2>4. \A d \in Calls : d # c => invoked'[d].pc = "idle"
    BY <1>1, <2>2
  <2>5. \A b \in Binds : live[b] = Nothing => files[b] = {}
    BY <2>1, <2>2 DEF DirectoriesFit
  <2>6. DirectoriesFit'
    <3>1. what.pc = "starting" => what.bind \in Binds
      BY DEF WellMade
    <3> QED BY <1>1, <1>2, <2>1, <2>4, <2>5, <3>1 DEF DirectoriesFit
  <2>7. WindowFollows'
    BY <1>1, <1>2, <2>1, <2>2, <2>4 DEF WindowFollows
  <2> QED BY <2>3, <2>6, <2>7
<1> QED BY <1>1, <1>2, <1>3, <1>4, <1>5

-----------------------------------------------------------------------------
(* A call about live IEDs leaves the tasks, and what the window shows.     *)
LEMMA ServerCalls ==
  ASSUME WorkbenchIInv, NEW c \in Calls, OnlyServers, CallsAreWellMade',
         invoked[c].pc \in {"starting", "copied", "bound", "stopping"},
         invoked'[c].pc \in {"idle", "copied", "bound"},
         \A d \in Calls : d # c => invoked'[d] = invoked[d],
         live' \in [Binds -> SclFiles \cup {Nothing}], listening' \subseteq Binds,
         files' \in [Binds -> SUBSET SclFiles]
  PROVE  /\ WorkbenchTypeOK' /\ overlap' = overlap /\ TasksAreHeld'
         /\ ~overlap => /\ WindowFollows' /\ OneCallAtATime' /\ DirectoriesFit
                        /\ \A d \in Calls : d # c => invoked[d] = NoCall /\ invoked'[d] = NoCall
<1> USE DEF WorkbenchIInv
<1>1. UNCHANGED <<running, slot, lit, called, overlap>>
  BY DEF OnlyServers
<1>2. WorkbenchTypeOK'
  <2>1. \A d \in Calls : invoked'[d].bind \in Binds \cup {Nothing}
    BY DEF CallsAreWellMade, CallRecord
  <2> QED BY <1>1, <2>1 DEF WorkbenchTypeOK
<1>3. TasksAreHeld'
  <2>1. \A k : Spawned(k)' = Spawned(k)
    BY SpawnedStays
  <2> QED BY <1>1, <2>1, StillHeld
<1>4. ASSUME ~overlap
      PROVE  /\ WindowFollows' /\ OneCallAtATime' /\ DirectoriesFit
             /\ \A d \in Calls : d # c => invoked[d] = NoCall /\ invoked'[d] = NoCall
  <2>1. OneCallAtATime /\ DirectoriesFit /\ WindowFollows
    BY <1>4 DEF Patient
  <2>2. invoked[c] # NoCall
    BY NoCallIsWellMade
  <2>3. \A d \in Calls : d # c => invoked[d] = NoCall /\ invoked'[d] = NoCall
    BY <2>1, <2>2, Alone
  <2>4. OneCallAtATime'
    BY <2>3, StaysAlone
  <2>5. WindowFollows'
    BY <1>1, <2>1 DEF WindowFollows
  <2> QED BY <2>1, <2>3, <2>4, <2>5
<1> QED BY <1>1, <1>2, <1>3, <1>4

LEMMA CopySclIInv ==
  ASSUME WorkbenchIInv, NEW c \in Calls, CopyScl(c)
  PROVE  WorkbenchIInv'
<1> USE DEF WorkbenchIInv
<1> DEFINE b == invoked[c].bind
           scl == invoked[c].scl
<1>1. invoked[c].pc = "starting" /\ b \in Binds /\ scl \in SclFiles
  BY DEF CopyScl, CallsAreWellMade, WellMade, DirectoriesFit
<1>2. /\ CallsAreWellMade'
      /\ invoked'[c].pc = "copied" /\ invoked'[c].bind = b /\ invoked'[c].scl = scl
      /\ \A d \in Calls : d # c => invoked'[d] = invoked[d]
  BY <1>1, CallGoesOn DEF CopyScl, Pcs
<1>3. UNCHANGED <<live, listening>> /\ files' = [files EXCEPT ![b] = @ \cup {scl}]
  BY DEF CopyScl
<1>4. files' \in [Binds -> SUBSET SclFiles] /\ files'[b] = files[b] \cup {scl}
      /\ \A x \in Binds : x # b => files'[x] = files[x]
  BY <1>1, <1>3 DEF WorkbenchTypeOK
<1>5. /\ WorkbenchTypeOK' /\ overlap' = overlap /\ TasksAreHeld'
      /\ ~overlap => /\ WindowFollows' /\ OneCallAtATime' /\ DirectoriesFit
                     /\ \A d \in Calls : d # c => invoked[d] = NoCall /\ invoked'[d] = NoCall
  BY <1>1, <1>2, <1>3, <1>4, ServerCalls DEF CopyScl, WorkbenchTypeOK
<1>6. ASSUME ~overlap PROVE DirectoriesFit'
  <2>1. files'[b] = {scl}
    BY <1>1, <1>4, <1>5, <1>6 DEF DirectoriesFit
  <2>2. DirectoriesFit /\ \A d \in Calls : d # c => invoked'[d].pc = "idle" /\ invoked[d].pc = "idle"
    BY <1>5, <1>6, NoCallIsWellMade
  <2>3. live[b] = Nothing /\ b \notin listening
    BY <1>1, <2>2 DEF DirectoriesFit
  <2> HIDE DEF b, scl
  <2>4. \A x \in Binds : live'[x] # Nothing => files'[x] = {live'[x]} /\ x \in listening'
    BY <1>3, <1>4, <2>2, <2>3 DEF DirectoriesFit
  <2>5. ASSUME NEW x \in Binds, live'[x] = Nothing, files'[x] # {}
        PROVE  \E d \in Calls : invoked'[d].pc \in {"copied", "bound"} /\ invoked'[d].bind = x
    <3>1. CASE x = b
      BY <1>2, <3>1
    <3>2. CASE x # b
      <4>1. \E d \in Calls : invoked[d].pc \in {"copied", "bound"} /\ invoked[d].bind = x
        BY <1>3, <1>4, <2>2, <2>5, <3>2 DEF DirectoriesFit
      <4> QED BY <1>1, <2>2, <4>1
    <3> QED BY <3>1, <3>2
  <2>6. ASSUME NEW d \in Calls
        PROVE  /\ invoked'[d].pc \in {"starting", "copied", "bound"} => live'[invoked'[d].bind] = Nothing
               /\ invoked'[d].pc \in {"starting", "copied"} => invoked'[d].bind \notin listening'
               /\ invoked'[d].pc = "starting" => files'[invoked'[d].bind] = {}
               /\ invoked'[d].pc \in {"copied", "bound"} => files'[invoked'[d].bind] = {invoked'[d].scl}
               /\ invoked'[d].pc = "bound" => invoked'[d].bind \in listening'
    BY <1>2, <1>3, <2>1, <2>2, <2>3
  <2> QED BY <2>4, <2>5, <2>6 DEF DirectoriesFit
<1> QED BY <1>2, <1>5, <1>6 DEF Patient

LEMMA BindIInv ==
  ASSUME WorkbenchIInv, NEW c \in Calls, Bind(c)
  PROVE  WorkbenchIInv'
<1> USE DEF WorkbenchIInv
<1> DEFINE b == invoked[c].bind
<1>1. invoked[c].pc = "copied" /\ b \in Binds /\ UNCHANGED <<live, files>> /\ OnlyServers
  BY DEF Bind, CallsAreWellMade, WellMade
<1>2. CASE b \in listening
  <2>1. UNCHANGED listening /\ Return(c)
    BY <1>2 DEF Bind
  <2>2. CallsAreWellMade' /\ invoked'[c] = NoCall /\ \A d \in Calls : d # c => invoked'[d] = invoked[d]
    BY <2>1, CallReturns
  <2>3. /\ WorkbenchTypeOK' /\ overlap' = overlap /\ TasksAreHeld'
        /\ ~overlap => DirectoriesFit
    BY <1>1, <2>1, <2>2, NoCallIsWellMade, ServerCalls DEF WorkbenchTypeOK
  <2>4. overlap
    BY <1>1, <1>2, <2>3 DEF DirectoriesFit
  <2> QED BY <2>2, <2>3, <2>4 DEF Patient
<1>3. CASE b \notin listening
  <2>1. listening' = listening \cup {b} /\ GoOn(c, "bound")
    BY <1>3 DEF Bind
  <2>2. /\ CallsAreWellMade'
        /\ invoked'[c].pc = "bound" /\ invoked'[c].bind = b /\ invoked'[c].scl = invoked[c].scl
        /\ \A d \in Calls : d # c => invoked'[d] = invoked[d]
    BY <1>1, <2>1, CallGoesOn DEF Pcs
  <2>3. /\ WorkbenchTypeOK' /\ overlap' = overlap /\ TasksAreHeld'
        /\ ~overlap => /\ WindowFollows' /\ OneCallAtATime' /\ DirectoriesFit
                       /\ \A d \in Calls : d # c => invoked[d] = NoCall /\ invoked'[d] = NoCall
    BY <1>1, <2>1, <2>2, ServerCalls DEF WorkbenchTypeOK
  <2>4. ASSUME ~overlap PROVE DirectoriesFit'
    <3>1. DirectoriesFit /\ \A d \in Calls : d # c => invoked'[d].pc = "idle" /\ invoked[d].pc = "idle"
      BY <2>3, <2>4, NoCallIsWellMade
    <3>2. live[b] = Nothing /\ files[b] = {invoked[c].scl}
      BY <1>1, <3>1 DEF DirectoriesFit
    <3> HIDE DEF b
    <3>3. \A x \in Binds : live'[x] # Nothing => files'[x] = {live'[x]} /\ x \in listening'
      BY <1>1, <2>1, <3>1 DEF DirectoriesFit
    <3>4. \A x \in Binds : live'[x] = Nothing /\ files'[x] # {} =>
            \E d \in Calls : invoked'[d].pc \in {"copied", "bound"} /\ invoked'[d].bind = x
      <4>1. \A x \in Binds : live'[x] = Nothing /\ files'[x] # {} => x = b
        BY <1>1, <3>1 DEF DirectoriesFit, b
      <4> QED BY <2>2, <4>1
    <3>5. ASSUME NEW d \in Calls
          PROVE  /\ invoked'[d].pc \in {"starting", "copied", "bound"} => live'[invoked'[d].bind] = Nothing
                 /\ invoked'[d].pc \in {"starting", "copied"} => invoked'[d].bind \notin listening'
                 /\ invoked'[d].pc = "starting" => files'[invoked'[d].bind] = {}
                 /\ invoked'[d].pc \in {"copied", "bound"} => files'[invoked'[d].bind] = {invoked'[d].scl}
                 /\ invoked'[d].pc = "bound" => invoked'[d].bind \in listening'
      BY <1>1, <2>1, <2>2, <3>1, <3>2
    <3> QED BY <3>3, <3>4, <3>5 DEF DirectoriesFit
  <2> QED BY <2>2, <2>3, <2>4 DEF Patient
<1> QED BY <1>2, <1>3

LEMMA RegisterIInv ==
  ASSUME WorkbenchIInv, NEW c \in Calls, Register(c)
  PROVE  WorkbenchIInv'
<1> USE DEF WorkbenchIInv
<1> DEFINE b == invoked[c].bind
           scl == invoked[c].scl
<1>1. /\ invoked[c].pc = "bound" /\ b \in Binds /\ scl \in SclFiles
      /\ UNCHANGED <<listening, files>> /\ OnlyServers
  BY DEF Register, CallsAreWellMade, WellMade
<1>2. CallsAreWellMade' /\ invoked'[c] = NoCall /\ \A d \in Calls : d # c => invoked'[d] = invoked[d]
  BY CallReturns DEF Register
<1>3. /\ live' \in [Binds -> SclFiles \cup {Nothing}]
      /\ live'[b] = scl /\ \A x \in Binds : x # b => live'[x] = live[x]
  BY <1>1 DEF Register, WorkbenchTypeOK
<1>4. /\ WorkbenchTypeOK' /\ overlap' = overlap /\ TasksAreHeld'
      /\ ~overlap => /\ WindowFollows' /\ OneCallAtATime' /\ DirectoriesFit
                     /\ \A d \in Calls : d # c => invoked[d] = NoCall /\ invoked'[d] = NoCall
  BY <1>1, <1>2, <1>3, NoCallIsWellMade, ServerCalls DEF WorkbenchTypeOK
<1>5. ASSUME ~overlap PROVE DirectoriesFit'
  <2>1. DirectoriesFit /\ \A d \in Calls : invoked'[d].pc = "idle"
    BY <1>2, <1>4, <1>5, NoCallIsWellMade
  <2>2. b \in listening /\ files[b] = {scl}
    BY <1>1, <2>1 DEF DirectoriesFit
  <2>3. \A d \in Calls : d # c => invoked[d].pc = "idle"
    BY <1>4, <1>5, NoCallIsWellMade
  <2> HIDE DEF b, scl
  <2>4. \A x \in Binds : live'[x] # Nothing => files'[x] = {live'[x]} /\ x \in listening'
    BY <1>1, <1>3, <2>1, <2>2 DEF DirectoriesFit
  <2>5. \A x \in Binds : live'[x] = Nothing => files'[x] = {}
    BY <1>1, <1>3, <2>1, <2>3 DEF DirectoriesFit, b
  <2> QED BY <2>1, <2>4, <2>5 DEF DirectoriesFit
<1> QED BY <1>2, <1>4, <1>5 DEF Patient

LEMMA SimLiveStopIInv ==
  ASSUME WorkbenchIInv, NEW c \in Calls, SimLiveStop(c)
  PROVE  WorkbenchIInv'
<1> USE DEF WorkbenchIInv
<1> DEFINE b == invoked[c].bind
<1>1. invoked[c].pc = "stopping" /\ b \in Binds /\ UNCHANGED listening /\ OnlyServers
  BY DEF SimLiveStop, CallsAreWellMade, WellMade
<1>2. CallsAreWellMade' /\ invoked'[c] = NoCall /\ \A d \in Calls : d # c => invoked'[d] = invoked[d]
  BY CallReturns DEF SimLiveStop
<1>3. /\ live' \in [Binds -> SclFiles \cup {Nothing}]
      /\ live'[b] = Nothing /\ \A x \in Binds : x # b => live'[x] = live[x]
  BY <1>1 DEF SimLiveStop, WorkbenchTypeOK
<1>4. /\ files' \in [Binds -> SUBSET SclFiles]
      /\ live[b] # Nothing => files'[b] = {}
      /\ live[b] = Nothing => files'[b] = files[b]
      /\ \A x \in Binds : x # b => files'[x] = files[x]
  BY <1>1 DEF SimLiveStop, WorkbenchTypeOK, Removed
<1>5. /\ WorkbenchTypeOK' /\ overlap' = overlap /\ TasksAreHeld'
      /\ ~overlap => /\ WindowFollows' /\ OneCallAtATime' /\ DirectoriesFit
                     /\ \A d \in Calls : d # c => invoked[d] = NoCall /\ invoked'[d] = NoCall
  BY <1>1, <1>2, <1>3, <1>4, NoCallIsWellMade, ServerCalls DEF WorkbenchTypeOK
<1>6. ASSUME ~overlap PROVE DirectoriesFit'
  <2>1. DirectoriesFit /\ \A d \in Calls : invoked'[d].pc = "idle"
    BY <1>2, <1>5, <1>6, NoCallIsWellMade
  <2>2. \A d \in Calls : invoked[d].pc \notin {"copied", "bound"}
    BY <1>1, <1>5, <1>6, NoCallIsWellMade
  <2> HIDE DEF b
  <2>3. \A x \in Binds : live'[x] # Nothing => files'[x] = {live'[x]} /\ x \in listening'
    BY <1>1, <1>3, <1>4, <2>1 DEF DirectoriesFit
  <2>4. \A x \in Binds : live'[x] = Nothing => files'[x] = {}
    BY <1>1, <1>3, <1>4, <2>1, <2>2 DEF DirectoriesFit
  <2> QED BY <2>1, <2>3, <2>4 DEF DirectoriesFit
<1> QED BY <1>2, <1>5, <1>6 DEF Patient

(* A server that ends has no entry: what has one is still served.          *)
LEMMA ServerEndsIInv ==
  ASSUME WorkbenchIInv, NEW b \in Binds, ServerEnds(b)
  PROVE  WorkbenchIInv'
<1> USE DEF WorkbenchIInv
<1>1. /\ live[b] = Nothing /\ listening' = listening \ {b}
      /\ \A c \in Calls : ~(invoked[c].pc = "bound" /\ invoked[c].bind = b)
      /\ UNCHANGED <<live, files, invoked, running, slot, lit, called, overlap>>
  BY DEF ServerEnds, OnlyServers
<1>2. WorkbenchTypeOK' /\ CallsAreWellMade'
  BY <1>1 DEF WorkbenchTypeOK, CallsAreWellMade, CallRecord, WellMade, NoCall
<1>3. TasksAreHeld'
  BY <1>1 DEF TasksAreHeld
<1>4. ASSUME ~overlap PROVE OneCallAtATime' /\ DirectoriesFit' /\ WindowFollows'
  <2>1. OneCallAtATime /\ DirectoriesFit /\ WindowFollows
    BY <1>4 DEF Patient
  <2>2. OneCallAtATime' /\ WindowFollows'
    BY <1>1, <2>1 DEF OneCallAtATime, WindowFollows, NoCall
  <2>3. DirectoriesFit'
    BY <1>1, <2>1 DEF DirectoriesFit
  <2> QED BY <2>2, <2>3
<1> QED BY <1>1, <1>2, <1>3, <1>4 DEF Patient

-----------------------------------------------------------------------------
(* The directories fit as long as no call is about to start or has copied. *)
LEMMA DirectoriesStay ==
  ASSUME DirectoriesFit, NEW c \in Calls, UNCHANGED <<live, listening, files>>,
         invoked[c].pc \notin {"starting", "copied", "bound"},
         invoked'[c].pc \notin {"starting", "copied", "bound"},
         \A d \in Calls : d # c => invoked'[d] = invoked[d]
  PROVE  DirectoriesFit'
<1>1. \A d \in Calls :
        \/ invoked[d].pc \in {"starting", "copied", "bound"}
        \/ invoked'[d].pc \in {"starting", "copied", "bound"}
        => d # c /\ invoked'[d] = invoked[d]
  OBVIOUS
<1>2. \A b \in Binds : live'[b] # Nothing => files'[b] = {live'[b]} /\ b \in listening'
  BY DEF DirectoriesFit
<1>3. ASSUME NEW b \in Binds, live'[b] = Nothing /\ files'[b] # {}
      PROVE  \E d \in Calls : invoked'[d].pc \in {"copied", "bound"} /\ invoked'[d].bind = b
  <2>1. PICK d \in Calls : invoked[d].pc \in {"copied", "bound"} /\ invoked[d].bind = b
    BY <1>3 DEF DirectoriesFit
  <2>2. invoked'[d] = invoked[d]
    BY <1>1, <2>1
  <2> QED BY <2>1, <2>2
<1>4. ASSUME NEW d \in Calls
      PROVE  /\ invoked'[d].pc \in {"starting", "copied", "bound"} => live'[invoked'[d].bind] = Nothing
             /\ invoked'[d].pc \in {"starting", "copied"} => invoked'[d].bind \notin listening'
  BY <1>1 DEF DirectoriesFit
<1> QED BY <1>2, <1>3, <1>4 DEF DirectoriesFit

(* A call about tasks leaves the live IEDs and their directories.          *)
LEMMA TaskCalls ==
  ASSUME WorkbenchIInv, NEW c \in Calls, OnlyTasks, CallsAreWellMade',
         invoked[c].pc \in {"opening", "spawned", "started", "taking", "stopped"},
         invoked'[c].pc \in {"idle", "spawned", "started", "stopped"},
         \A d \in Calls : d # c => invoked'[d] = invoked[d],
         running' \in [Slots -> Nat], slot' \in [Slots -> BOOLEAN], lit' \in [Slots -> BOOLEAN]
  PROVE  /\ WorkbenchTypeOK' /\ overlap' = overlap
         /\ ~overlap => /\ WindowFollows /\ OneCallAtATime' /\ DirectoriesFit'
                        /\ \A d \in Calls : d # c => invoked[d].pc = "idle" /\ invoked'[d].pc = "idle"
<1> USE DEF WorkbenchIInv
<1>1. UNCHANGED <<live, listening, files, called, overlap>>
  BY DEF OnlyTasks
<1>2. WorkbenchTypeOK'
  <2>1. \A d \in Calls : invoked'[d].bind \in Binds \cup {Nothing}
    BY DEF CallsAreWellMade, CallRecord
  <2> QED BY <1>1, <2>1 DEF WorkbenchTypeOK
<1>3. ASSUME ~overlap
      PROVE  /\ WindowFollows /\ OneCallAtATime' /\ DirectoriesFit'
             /\ \A d \in Calls : d # c => invoked[d].pc = "idle" /\ invoked'[d].pc = "idle"
  <2>1. OneCallAtATime /\ DirectoriesFit /\ WindowFollows
    BY <1>3 DEF Patient
  <2>2. invoked[c] # NoCall
    BY NoCallIsWellMade
  <2>3. \A d \in Calls : d # c => invoked[d] = NoCall /\ invoked'[d] = NoCall
    BY <2>1, <2>2, Alone
  <2>4. OneCallAtATime'
    BY <2>3, StaysAlone
  <2>5. DirectoriesFit'
    BY <1>1, <2>1, DirectoriesStay
  <2> QED BY <2>1, <2>3, <2>4, <2>5, NoCallIsWellMade
<1> QED BY <1>1, <1>2, <1>3

(* The window still follows when a call that shows nothing yet moves on.   *)
LEMMA WindowWaits ==
  ASSUME WindowFollows, NEW c \in Calls, UNCHANGED <<slot, lit>>,
         invoked[c].pc \notin {"started", "stopped"},
         invoked'[c].pc \notin {"started", "stopped"},
         \A d \in Calls : d # c => invoked'[d] = invoked[d]
  PROVE  WindowFollows'
<1>1. \A d \in Calls :
        /\ invoked'[d].pc = "started" => slot'[invoked'[d].kind]
        /\ invoked'[d].pc = "stopped" => ~slot'[invoked'[d].kind]
  BY DEF WindowFollows
<1>2. ASSUME NEW k \in Slots, lit'[k] # slot'[k]
      PROVE  \E d \in Calls : invoked'[d].pc \in {"started", "stopped"} /\ invoked'[d].kind = k
  <2>1. PICK d \in Calls : invoked[d].pc \in {"started", "stopped"} /\ invoked[d].kind = k
    BY <1>2 DEF WindowFollows
  <2>2. d # c
    BY <2>1
  <2> QED BY <2>1, <2>2
<1> QED BY <1>1, <1>2 DEF WindowFollows

(* A task more runs, and a call is about to enter it.                      *)
LEMMA OpenAndSpawnIInv ==
  ASSUME WorkbenchIInv, NEW c \in Calls, OpenAndSpawn(c)
  PROVE  WorkbenchIInv'
<1> USE DEF WorkbenchIInv
<1>0. PICK k \in Slots : k = invoked[c].kind
  BY DEF OpenAndSpawn, CallsAreWellMade, WellMade
<1>1. invoked[c].pc = "opening" /\ UNCHANGED <<slot, lit>> /\ OnlyTasks
  BY DEF OpenAndSpawn
<1>2. CASE Return(c) /\ UNCHANGED running
  <2>1. CallsAreWellMade' /\ invoked'[c].pc = "idle" /\ \A d \in Calls : d # c => invoked'[d] = invoked[d]
    BY <1>2, CallReturns, NoCallIsWellMade
  <2>2. /\ WorkbenchTypeOK' /\ overlap' = overlap
        /\ ~overlap => WindowFollows /\ OneCallAtATime' /\ DirectoriesFit'
    BY <1>0, <1>1, <1>2, <2>1, TaskCalls DEF WorkbenchTypeOK
  <2>3. \A x : Spawned(x)' = Spawned(x)
    BY <1>0, <1>1, <2>1, SpawnedStays
  <2>4. TasksAreHeld'
    BY <1>0, <1>1, <1>2, <2>3, StillHeld
  <2>5. ~overlap => WindowFollows'
    BY <1>0, <1>1, <2>1, <2>2, WindowWaits
  <2> QED BY <2>1, <2>2, <2>4, <2>5 DEF Patient
<1>3. CASE GoOn(c, "spawned") /\ running' = [running EXCEPT ![k] = @ + 1]
  <2>1. /\ CallsAreWellMade'
        /\ invoked'[c].pc = "spawned" /\ invoked'[c].kind = k
        /\ \A d \in Calls : d # c => invoked'[d] = invoked[d]
    BY <1>0, <1>1, <1>3, CallGoesOn DEF Pcs
  <2>2. running' \in [Slots -> Nat] /\ running'[k] = running[k] + 1
        /\ \A x \in Slots : x # k => running'[x] = running[x]
    BY <1>0, <1>1, <1>3 DEF WorkbenchTypeOK
  <2>3. /\ WorkbenchTypeOK' /\ overlap' = overlap
        /\ ~overlap => WindowFollows /\ OneCallAtATime' /\ DirectoriesFit'
    BY <1>0, <1>1, <2>1, <2>2, TaskCalls DEF WorkbenchTypeOK
  <2>4. TasksAreHeld'
    <3>1. Spawned(k)' = Spawned(k) \cup {c} /\ c \notin Spawned(k)
          /\ \A x : x # k => Spawned(x)' = Spawned(x)
      BY <1>0, <1>1, <2>1 DEF Spawned
    <3>2. Cardinality(Spawned(k)') = Cardinality(Spawned(k)) + 1
      BY <3>1, SpawnedIsFinite, FS_AddElement
    <3>3. Cardinality(Spawned(k)) \in Nat /\ running[k] \in Nat
      BY <1>0, <1>1, SpawnedIsFinite DEF WorkbenchTypeOK
    <3>4. \A x \in Slots : running[x] = (IF slot[x] THEN 1 ELSE 0) + Cardinality(Spawned(x))
      BY HeldBySpawned
    <3>5. \A x \in Slots : running'[x] = (IF slot'[x] THEN 1 ELSE 0) + Cardinality(Spawned(x)')
      <4>1. UNCHANGED slot
        BY <1>1
      <4>2. running'[k] = (IF slot'[k] THEN 1 ELSE 0) + Cardinality(Spawned(k)')
        BY <2>2, <3>2, <3>3, <3>4, <4>1
      <4>3. \A x \in Slots : x # k =>
              running'[x] = (IF slot'[x] THEN 1 ELSE 0) + Cardinality(Spawned(x)')
        BY <2>2, <3>1, <3>4, <4>1
      <4> QED BY <4>2, <4>3
    <3> QED BY <3>5 DEF TasksAreHeld, Spawned
  <2>5. ~overlap => WindowFollows'
    BY <1>0, <1>1, <2>1, <2>3, WindowWaits
  <2> QED BY <2>1, <2>3, <2>4, <2>5 DEF Patient
<1> QED BY <1>0, <1>2, <1>3 DEF OpenAndSpawn

(* The task that was spawned takes the slot, and the one it held ends.     *)
LEMMA ReplaceIInv ==
  ASSUME WorkbenchIInv, NEW c \in Calls, Replace(c)
  PROVE  WorkbenchIInv'
<1> USE DEF WorkbenchIInv
<1>0. PICK k \in Slots : k = invoked[c].kind
  BY DEF Replace, CallsAreWellMade, WellMade
<1>1. invoked[c].pc = "spawned" /\ UNCHANGED lit /\ OnlyTasks /\ GoOn(c, "started")
  BY DEF Replace
<1>2. /\ CallsAreWellMade'
      /\ invoked'[c].pc = "started" /\ invoked'[c].kind = k
      /\ \A d \in Calls : d # c => invoked'[d] = invoked[d]
  BY <1>0, <1>1, CallGoesOn DEF Pcs
<1>3. /\ Spawned(k)' = Spawned(k) \ {c} /\ c \in Spawned(k)
      /\ \A x : x # k => Spawned(x)' = Spawned(x)
  BY <1>0, <1>1, <1>2 DEF Spawned
<1>4. /\ Cardinality(Spawned(k)') = Cardinality(Spawned(k)) - 1
      /\ Cardinality(Spawned(k)) \in Nat /\ Cardinality(Spawned(k)') \in Nat
  <2> QED BY <1>3, SpawnedIsFinite, FS_RemoveElement, FS_CardinalityType
<1>5. \A x \in Slots : running[x] = (IF slot[x] THEN 1 ELSE 0) + Cardinality(Spawned(x))
  BY HeldBySpawned
<1>6. /\ slot' \in [Slots -> BOOLEAN] /\ slot'[k] = TRUE
      /\ \A x \in Slots : x # k => slot'[x] = slot[x]
  BY <1>0, <1>1 DEF Replace, WorkbenchTypeOK
<1>7. /\ running' = [running EXCEPT ![k] = IF slot[k] THEN @ - 1 ELSE @]
      /\ running'[k] = IF slot[k] THEN running[k] - 1 ELSE running[k]
      /\ \A x \in Slots : x # k => running'[x] = running[x]
  BY <1>0, <1>1 DEF Replace, AbortOld, WorkbenchTypeOK
<1>8. running'[k] = 1 + Cardinality(Spawned(k)')
  BY <1>0, <1>1, <1>4, <1>5, <1>7
<1>9. running' \in [Slots -> Nat]
  BY <1>0, <1>1, <1>4, <1>7, <1>8 DEF WorkbenchTypeOK
<1>10. TasksAreHeld'
  <2>1. \A x \in Slots : running'[x] = (IF slot'[x] THEN 1 ELSE 0) + Cardinality(Spawned(x)')
    BY <1>3, <1>5, <1>6, <1>7, <1>8
  <2> QED BY <2>1 DEF TasksAreHeld, Spawned
<1>11. /\ WorkbenchTypeOK' /\ overlap' = overlap
       /\ ~overlap => /\ WindowFollows /\ OneCallAtATime' /\ DirectoriesFit'
                      /\ \A d \in Calls : d # c => invoked[d].pc = "idle" /\ invoked'[d].pc = "idle"
  BY <1>0, <1>1, <1>2, <1>6, <1>9, TaskCalls DEF WorkbenchTypeOK
<1>12. ~overlap => WindowFollows'
  BY <1>0, <1>1, <1>2, <1>6, <1>11 DEF WindowFollows
<1> QED BY <1>2, <1>10, <1>11, <1>12 DEF Patient

LEMMA TakeIInv ==
  ASSUME WorkbenchIInv, NEW c \in Calls, Take(c)
  PROVE  WorkbenchIInv'
<1> USE DEF WorkbenchIInv
<1>0. PICK k \in Slots : k = invoked[c].kind
  BY DEF Take, CallsAreWellMade, WellMade
<1>1. invoked[c].pc = "taking" /\ UNCHANGED lit /\ OnlyTasks /\ GoOn(c, "stopped")
  BY DEF Take
<1>2. /\ CallsAreWellMade'
      /\ invoked'[c].pc = "stopped" /\ invoked'[c].kind = k
      /\ \A d \in Calls : d # c => invoked'[d] = invoked[d]
  BY <1>0, <1>1, CallGoesOn DEF Pcs
<1>3. \A x : Spawned(x)' = Spawned(x)
  BY <1>0, <1>1, <1>2, SpawnedStays
<1>4. \A x \in Slots : running[x] = (IF slot[x] THEN 1 ELSE 0) + Cardinality(Spawned(x))
  BY HeldBySpawned
<1>5. /\ slot' \in [Slots -> BOOLEAN] /\ slot'[k] = FALSE
      /\ \A x \in Slots : x # k => slot'[x] = slot[x]
  BY <1>0, <1>1 DEF Take, WorkbenchTypeOK
<1>6. /\ running' = [running EXCEPT ![k] = IF slot[k] THEN @ - 1 ELSE @]
      /\ running'[k] = IF slot[k] THEN running[k] - 1 ELSE running[k]
      /\ \A x \in Slots : x # k => running'[x] = running[x]
  BY <1>0, <1>1 DEF Take, WorkbenchTypeOK
<1>7. Cardinality(Spawned(k)) \in Nat
  BY SpawnedIsFinite
<1>8. running'[k] = Cardinality(Spawned(k))
  BY <1>0, <1>1, <1>4, <1>6, <1>7
<1>9. running' \in [Slots -> Nat]
  BY <1>0, <1>1, <1>6, <1>7, <1>8 DEF WorkbenchTypeOK
<1>10. TasksAreHeld'
  <2>1. \A x \in Slots : running'[x] = (IF slot'[x] THEN 1 ELSE 0) + Cardinality(Spawned(x)')
    BY <1>3, <1>4, <1>5, <1>6, <1>7, <1>8
  <2> QED BY <2>1 DEF TasksAreHeld, Spawned
<1>11. /\ WorkbenchTypeOK' /\ overlap' = overlap
       /\ ~overlap => /\ WindowFollows /\ OneCallAtATime' /\ DirectoriesFit'
                      /\ \A d \in Calls : d # c => invoked[d].pc = "idle" /\ invoked'[d].pc = "idle"
  BY <1>0, <1>1, <1>2, <1>5, <1>9, TaskCalls DEF WorkbenchTypeOK
<1>12. ~overlap => WindowFollows'
  BY <1>0, <1>1, <1>2, <1>5, <1>11 DEF WindowFollows
<1> QED BY <1>2, <1>10, <1>11, <1>12 DEF Patient

LEMMA ShowTaskIInv ==
  ASSUME WorkbenchIInv, NEW c \in Calls, ShowTask(c)
  PROVE  WorkbenchIInv'
<1> USE DEF WorkbenchIInv
<1> DEFINE k == invoked[c].kind
<1>1. /\ invoked[c].pc \in {"started", "stopped"} /\ k \in Slots
      /\ UNCHANGED <<running, slot>> /\ OnlyTasks
  BY DEF ShowTask, CallsAreWellMade, WellMade
<1>2. CallsAreWellMade' /\ invoked'[c].pc = "idle" /\ \A d \in Calls : d # c => invoked'[d] = invoked[d]
  BY CallReturns, NoCallIsWellMade DEF ShowTask
<1>3. /\ lit' \in [Slots -> BOOLEAN] /\ lit'[k] = (invoked[c].pc = "started")
      /\ \A x \in Slots : x # k => lit'[x] = lit[x]
  BY <1>1, Zenon DEF ShowTask, WorkbenchTypeOK
<1>4. TasksAreHeld'
  <2>1. \A x : Spawned(x)' = Spawned(x)
    BY <1>1, <1>2, SpawnedStays
  <2> QED BY <1>1, <2>1, StillHeld
<1>5. /\ WorkbenchTypeOK' /\ overlap' = overlap
      /\ ~overlap => /\ WindowFollows /\ OneCallAtATime' /\ DirectoriesFit'
                     /\ \A d \in Calls : d # c => invoked[d].pc = "idle" /\ invoked'[d].pc = "idle"
  BY <1>1, <1>2, <1>3, TaskCalls DEF WorkbenchTypeOK
<1>6. ASSUME ~overlap PROVE WindowFollows'
  <2>1. \A x \in Slots : x # k => lit[x] = slot[x]
    BY <1>5, <1>6 DEF WindowFollows
  <2>2. lit'[k] = slot[k]
    BY <1>1, <1>3, <1>5, <1>6 DEF WindowFollows, WorkbenchTypeOK
  <2>3. \A x \in Slots : lit'[x] = slot'[x]
    BY <1>1, <1>3, <2>1, <2>2
  <2>4. \A d \in Calls : invoked'[d].pc = "idle"
    BY <1>2, <1>5, <1>6
  <2> QED BY <2>3, <2>4 DEF WindowFollows
<1> QED BY <1>2, <1>4, <1>5, <1>6 DEF Patient

-----------------------------------------------------------------------------
LEMMA WorkbenchStepIInv == WorkbenchIInv /\ [WorkbenchNext]_workbenchVars => WorkbenchIInv'
<1> SUFFICES ASSUME WorkbenchIInv, [WorkbenchNext]_workbenchVars PROVE WorkbenchIInv'
  OBVIOUS
<1> USE DEF NoCall, CallRecord, Pcs, WellMade
<1>1. ASSUME NEW c \in Calls, NEW b \in Binds, StopLiveSim(c, b) PROVE WorkbenchIInv'
  <2> DEFINE what == [NoCall EXCEPT !.pc = "stopping", !.bind = b]
  <2>1. what \in CallRecord /\ WellMade(what) /\ what.pc = "stopping" /\ Invoke(c, what)
    BY <1>1 DEF StopLiveSim
  <2> QED BY <2>1, InvokeIInv
<1>2. ASSUME NEW c \in Calls, NEW b \in Binds, NEW scl \in SclFiles, AddLiveSim(c, b, scl)
      PROVE WorkbenchIInv'
  <2> DEFINE what == [NoCall EXCEPT !.pc = "starting", !.bind = b, !.scl = scl]
  <2>1. what \in CallRecord /\ WellMade(what) /\ what.pc = "starting" /\ what.bind = b /\ Invoke(c, what)
    BY <1>2 DEF AddLiveSim
  <2>2. overlap \/ (live[b] = Nothing /\ b \notin listening)
    BY <1>2 DEF AddLiveSim
  <2> QED BY <2>1, <2>2, InvokeIInv
<1>3. ASSUME NEW c \in Calls, NEW k \in Slots, StartTask(c, k) PROVE WorkbenchIInv'
  <2> DEFINE what == [NoCall EXCEPT !.pc = "opening", !.kind = k]
  <2>1. what \in CallRecord /\ WellMade(what) /\ what.pc = "opening" /\ Invoke(c, what)
    BY <1>3 DEF StartTask
  <2> QED BY <2>1, InvokeIInv
<1>4. ASSUME NEW c \in Calls, NEW k \in Slots, StopTask(c, k) PROVE WorkbenchIInv'
  <2> DEFINE what == [NoCall EXCEPT !.pc = "taking", !.kind = k]
  <2>1. what \in CallRecord /\ WellMade(what) /\ what.pc = "taking" /\ Invoke(c, what)
    BY <1>4 DEF StopTask
  <2> QED BY <2>1, InvokeIInv
<1> USE DEF Nothing
<1>5. CASE UNCHANGED workbenchVars
  BY <1>5 DEF workbenchVars, WorkbenchIInv, WorkbenchTypeOK, CallsAreWellMade, TasksAreHeld,
              Patient, OneCallAtATime, DirectoriesFit, WindowFollows
<1> QED
  BY <1>1, <1>2, <1>3, <1>4, <1>5, CopySclIInv, BindIInv, RegisterIInv, SimLiveStopIInv,
     ServerEndsIInv, OpenAndSpawnIInv, ReplaceIInv, TakeIInv, ShowTaskIInv DEF WorkbenchNext

(* The inductive invariant holds however many calls are under way at once. *)
THEOREM WorkbenchInvariance == WorkbenchSpec => []WorkbenchIInv
  BY WorkbenchInitIInv, WorkbenchStepIInv, PTL DEF WorkbenchSpec

-----------------------------------------------------------------------------
(* The table of live IEDs, their directories, the counts of tasks and the  *)
(* calls under way are what they should be.                                *)
THEOREM WorkbenchTypeCorrect == WorkbenchSpec => []WorkbenchTypeOK
<1>1. WorkbenchIInv => WorkbenchTypeOK
  BY DEF WorkbenchIInv
<1> QED BY <1>1, WorkbenchInvariance, PTL

(* However the calls of the desktop's backend overlap, the tasks that run  *)
(* are the one its slot holds and those that calls are about to put there: *)
(* none is lost that nobody could stop. (goose_start, goose_stop)          *)
THEOREM NoTaskIsLost == WorkbenchSpec => []TasksAreHeld
<1>1. WorkbenchIInv => TasksAreHeld
  BY DEF WorkbenchIInv
<1> QED BY <1>1, WorkbenchInvariance, PTL

(* For the user who waits, a live IED serves the SCL file it was started   *)
(* with and no other, and the window shows the tasks that run.             *)
(* (sim_live_start, sim_live_stop)                                         *)
THEOREM PatientUsersSeeTheirOwn == WorkbenchSpec => []LiveIedsServeTheirOwn
<1>1. WorkbenchIInv => LiveIedsServeTheirOwn
  <2> SUFFICES ASSUME WorkbenchIInv, ~overlap, Idle
               PROVE  /\ \A b \in Binds : live[b] # Nothing => files[b] = {live[b]} /\ b \in listening
                      /\ lit = slot
    BY DEF LiveIedsServeTheirOwn
  <2>1. DirectoriesFit /\ WindowFollows
    BY DEF WorkbenchIInv, Patient
  <2>2. \A k \in Slots : lit[k] = slot[k]
    BY <2>1, NoCallIsWellMade DEF WindowFollows, Idle
  <2>3. lit = slot
    BY <2>2 DEF WorkbenchIInv, WorkbenchTypeOK
  <2> QED BY <2>1, <2>3 DEF DirectoriesFit
<1> QED BY <1>1, WorkbenchInvariance, PTL
=============================================================================
