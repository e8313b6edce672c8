------------------------------- MODULE Desktop -------------------------------
(***************************************************************************)
(* The desktop application at work with several IEDs: the connections that *)
(* its backend holds and the active one among them, to which every command *)
(* and every reading goes; the window, which shows a copy of that, the     *)
(* model and the values of one IED, and asks before it writes or operates; *)
(* and the calls from the window to the backend, each of which is several  *)
(* steps with others in between.                                           *)
(***************************************************************************)
EXTENDS Integers, FiniteSets

CONSTANTS
  Ieds,       \* addresses, which are the names of connections
  Simulated,  \* those that the application knows as its own simulators
  Commands,   \* the commands that the user may give
  Flows,      \* changes of connection that may be under way at once
  Haste,      \* whether the user begins something before a change has ended
  MaxTicks,   \* bound on the ticks of the watch list under way at once
  MaxBegun    \* bound on the changes of connection and commands in all

(* With a dialog, and without.                                              *)
Guarded == {"write", "operate", "activate", "confirm"}
AtOnce == {"select", "report", "enable", "edit"}

ASSUME DesktopAssumption ==
  /\ Simulated \subseteq Ieds /\ Haste \in BOOLEAN
  /\ Commands \subseteq Guarded \cup AtOnce
  /\ MaxTicks \in Nat /\ MaxBegun \in Nat

VARIABLES
  clients,  \* AppState.clients: how each open connection was made
  active,   \* AppState.active
  conns,    \* the window's the open connections and the active one
  armed,    \* the window's commandMode
  dialog,   \* the window's pending
  view,     \* the IED whose model is shown, those whose values are, and
            \* those whose values a tick has shown late
  poll,     \* whether the window watches anything, and the ticks under way:
            \* whom each has read, and whether the view was emptied since
  flows,    \* the changes of connection under way
  reading,  \* a reading under way
  command,  \* a command under way
  audited,  \* the last command in the audit log
  used      \* the bounded count, and history: the IED commands are armed for

desktopVars ==
  <<clients, active, conns, armed, dialog, view, poll, flows, reading, command, audited, used>>
backend == <<clients, active>>
window == <<conns, armed, dialog, view, poll>>

NoIed == "none"
IedOrNone == Ieds \cup {NoIed}
Ways == {"plain", "tls", "demo"}
Open == {i \in Ieds : clients[i] # NoIed}

NoFlow == [pc |-> "idle", does |-> "connect", way |-> NoIed, ied |-> NoIed, open |-> {}]
NoView == [model |-> NoIed, values |-> {}, late |-> {}]
NewTick == [got |-> {}, late |-> FALSE]
NoReading == [pc |-> "idle", ied |-> NoIed]
NoDialog == [open |-> FALSE, does |-> "operate", danger |-> FALSE, ied |-> NoIed, armedFor |-> NoIed]
NoCommand == [pc |-> "idle", ied |-> NoIed, tag |-> NoIed, asked |-> NoDialog]

DesktopInit ==
  /\ clients = [i \in Ieds |-> NoIed]
  /\ active = NoIed
  /\ conns = [open |-> {}, active |-> NoIed]
  /\ armed = FALSE
  /\ dialog = NoDialog
  /\ view = NoView
  /\ poll = [watching |-> FALSE, ticks |-> {}]
  /\ flows = [f \in Flows |-> NoFlow]
  /\ reading = NoReading
  /\ command = NoCommand
  /\ audited = NoCommand
  /\ used = [armedFor |-> NoIed, begun |-> 0]

-----------------------------------------------------------------------------
(* What the window goes by.                                                 *)
Connected == conns.open # {}
DangerZone == Connected /\ conns.active \notin Simulated
Changing == \E f \in Flows : flows[f].pc # "idle"

(* Who waits begins nothing while a change is under way, and no change      *)
(* while anything is.                                                       *)
MayAsk == Haste \/ ~Changing
MayChange == Haste \/ (~Changing /\ reading = NoReading /\ command = NoCommand)

(* The first step of current: the name of the active connection. Its second *)
(* step takes the client of that name, unless it is gone.                   *)
Found(ied) == ied # NoIed /\ clients[ied] # NoIed

-----------------------------------------------------------------------------
(* Connections. The user starts a change unless a dialog covers the window. *)
Start(f, flow) ==
  /\ flows[f] = NoFlow
  /\ ~dialog.open
  /\ MayChange
  /\ used.begun < MaxBegun
  /\ flows' = [flows EXCEPT ![f] = flow]
  /\ used' = [used EXCEPT !.begun = @ + 1]
  /\ UNCHANGED <<backend, window, reading, command, audited>>

ConnectTo(f, i) ==
  Start(f, [NoFlow EXCEPT !.pc = "dialling", !.way = "plain", !.ied = i])

(* With a certificate of the user's.                                        *)
ConnectTls(f, i) ==
  Start(f, [NoFlow EXCEPT !.pc = "dialling", !.way = "tls", !.ied = i])

ConnectProfile(f, i) == ConnectTo(f, i) \/ ConnectTls(f, i)

(* The embedded simulator, which is started first if it does not run.       *)
ConnectDemo(f) == \E i \in Simulated :
  Start(f, [NoFlow EXCEPT !.pc = "dialling", !.way = "demo", !.ied = i])

SwitchTo(f, i) ==
  /\ i \in conns.open
  /\ Start(f, [NoFlow EXCEPT !.pc = "choosing", !.does = "switch", !.ied = i])

CloseConn(f, i) ==
  /\ i \in conns.open
  /\ Start(f, [NoFlow EXCEPT !.pc = "closing", !.does = "close", !.ied = i])

(* A step of the backend, which the window does not see yet.                *)
StepTo(f, pc) == flows' = [flows EXCEPT ![f].pc = pc]
Finish(f) == flows' = [flows EXCEPT ![f] = NoFlow]
OnlyFlows == UNCHANGED <<window, reading, command, audited, used>>

Dialled(f, way) ==
  /\ flows[f].pc = "dialling" /\ flows[f].way = way
  /\ clients' = [clients EXCEPT ![flows[f].ied] = way]
  /\ StepTo(f, "activating")
  /\ UNCHANGED active /\ OnlyFlows

(* connect, connect_tls, connect_tls_demo: the client goes into the table,  *)
(* in the place of one of the same address, before it becomes the active    *)
(* one.                                                                     *)
ConnectedPlain(f) == Dialled(f, "plain")
ConnectedTls(f) == Dialled(f, "tls")
ConnectedTlsDemo(f) == Dialled(f, "demo")

ConnectFails(f) ==
  /\ flows[f].pc = "dialling"
  /\ Finish(f)
  /\ UNCHANGED backend /\ OnlyFlows

(* set_active looks into the table and lets it go before it sets the name.  *)
SetActive(f) ==
  /\ flows[f].pc = "choosing"
  /\ IF flows[f].ied \in Open THEN StepTo(f, "activating") ELSE Finish(f)
  /\ UNCHANGED backend /\ OnlyFlows

Activate(f) ==
  /\ flows[f].pc = "activating"
  /\ active' = flows[f].ied
  /\ StepTo(f, "listing")
  /\ UNCHANGED clients /\ OnlyFlows

(* disconnect_id chooses any connection that is left, lets the table go and *)
(* makes that one active if the active one was closed.                      *)
DisconnectId(f) ==
  /\ flows[f].pc = "closing"
  /\ clients' = [clients EXCEPT ![flows[f].ied] = NoIed]
  /\ \E next \in IF Open = {flows[f].ied} THEN {NoIed} ELSE Open \ {flows[f].ied} :
       flows' = [flows EXCEPT ![f].pc = "closed", ![f].way = next]
  /\ UNCHANGED active /\ OnlyFlows

Succeed(f) ==
  /\ flows[f].pc = "closed"
  /\ active' = IF active = flows[f].ied THEN flows[f].way ELSE active
  /\ StepTo(f, "listing")
  /\ UNCHANGED clients /\ OnlyFlows

(* connections: the active name first, then the table.                      *)
ListActive(f) ==
  /\ flows[f].pc = "listing"
  /\ flows' = [flows EXCEPT ![f].pc = "listingOpen", ![f].ied = active]
  /\ UNCHANGED backend /\ OnlyFlows

ListOpen(f) ==
  /\ flows[f].pc = "listingOpen"
  /\ flows' = [flows EXCEPT ![f].pc = "listed", ![f].open = Open]
  /\ UNCHANGED backend /\ OnlyFlows

(* switchView begins with an empty view, with nothing watched and with      *)
(* commands disarmed; the ticks under way go on, unless none is connected.  *)
EmptyView == [NoView EXCEPT !.model = view.model]
StaysArmed == armed
Disarmed == FALSE
Late(t) == [got |-> t.got, late |-> TRUE]
Unwatched(open) ==
  [poll EXCEPT !.watching = FALSE,
               !.ticks = IF open = {} THEN {} ELSE {Late(t) : t \in @}]

(* refreshConns and, in the same turn of the window, the start of           *)
(* switchView; closeAndRefresh, which leaves an empty window when nothing   *)
(* is left, commands as they were.                                          *)
Refresh(f) ==
  /\ flows[f].pc = "listed"
  /\ conns' = [open |-> flows[f].open,
               active |-> IF flows[f].ied \in flows[f].open THEN flows[f].ied ELSE NoIed]
  /\ IF flows[f].does = "close" /\ flows[f].open = {}
     THEN /\ view' = NoView
          /\ Finish(f)
          /\ UNCHANGED armed
     ELSE /\ view' = EmptyView
          /\ armed' = Disarmed
          /\ StepTo(f, "discovering")
  /\ poll' = Unwatched(flows[f].open)
  /\ UNCHANGED <<backend, dialog, reading, command, audited, used>>

(* discover walks the model of the client that is active when it starts.    *)
Discover(f) ==
  /\ flows[f].pc = "discovering"
  /\ flows' = [flows EXCEPT ![f].pc = "walking", ![f].ied = active]
  /\ UNCHANGED backend /\ OnlyFlows

(* The walk fails, also because the client is gone, or ends with the model. *)
ShowModel(f) ==
  /\ flows[f].pc = "walking"
  /\ \E got \in {NoIed, flows[f].ied} : view' = [view EXCEPT !.model = got]
  /\ Finish(f)
  /\ UNCHANGED <<backend, conns, armed, dialog, poll, reading, command, audited, used>>

-----------------------------------------------------------------------------
(* Readings: of the node that the user selects, of an attribute, of what he *)
(* begins to watch, and of what was written.                                *)
ReadingAsked == [NoReading EXCEPT !.pc = "asked"]

StartReading ==
  /\ Connected /\ MayAsk
  /\ reading = NoReading
  /\ reading' = ReadingAsked
  /\ UNCHANGED <<backend, window, flows, command, audited, used>>

SelectNode == ~dialog.open /\ StartReading

ReadActive ==
  /\ reading.pc = "asked"
  /\ reading' = [pc |-> "reading", ied |-> active]
  /\ UNCHANGED <<backend, window, flows, command, audited, used>>

(* The value is shown whatever has become of the view since.                *)
ShowValue ==
  /\ reading.pc = "reading"
  /\ \E got \in {{}, {reading.ied} \ {NoIed}} : view' = [view EXCEPT !.values = @ \cup got]
  /\ reading' = NoReading
  /\ UNCHANGED <<backend, conns, armed, dialog, poll, flows, command, audited, used>>

-----------------------------------------------------------------------------
(* The watch list, which is polled by a timer. A timer that is switched off *)
(* is one that does not fire; switching it, or another period, cancels the  *)
(* ticks under way.                                                         *)
OnlyPoll == UNCHANGED <<backend, conns, armed, dialog, view, flows, command, audited, used>>

AddWatch ==
  /\ MayAsk /\ ~dialog.open
  /\ poll' = [poll EXCEPT !.watching = TRUE]
  /\ IF Connected THEN reading = NoReading /\ reading' = ReadingAsked ELSE UNCHANGED reading
  /\ OnlyPoll

DropOnBoard ==
  /\ MayAsk /\ ~dialog.open
  /\ poll' = [poll EXCEPT !.watching = TRUE]
  /\ UNCHANGED reading /\ OnlyPoll

RemoveWatch ==
  /\ ~dialog.open
  /\ poll' = [poll EXCEPT !.watching = FALSE]
  /\ UNCHANGED reading /\ OnlyPoll

SetPolling ==
  /\ ~dialog.open
  /\ poll' = [poll EXCEPT !.ticks = {}]
  /\ UNCHANGED reading /\ OnlyPoll

(* The timer waits neither for the last tick nor for a change to end.       *)
Tick ==
  /\ Connected /\ poll.watching
  /\ Cardinality(poll.ticks) < MaxTicks
  /\ poll' = [poll EXCEPT !.ticks = @ \cup {NewTick}]
  /\ UNCHANGED reading /\ OnlyPoll

(* Each reference is read from the connection that is active by then.       *)
TickReads(t) ==
  /\ Found(active)
  /\ poll' = [poll EXCEPT !.ticks = (@ \ {t}) \cup {[t EXCEPT !.got = @ \cup {active}]}]
  /\ UNCHANGED reading /\ OnlyPoll

(* At the end all that was read is shown, whatever has become of the view.  *)
TickShows(t) ==
  /\ poll' = [poll EXCEPT !.ticks = @ \ {t}]
  /\ view' = IF t.late THEN [view EXCEPT !.late = @ \cup t.got]
                       ELSE [view EXCEPT !.values = @ \cup t.got]
  /\ UNCHANGED <<backend, conns, armed, dialog, flows, reading, command, audited, used>>

-----------------------------------------------------------------------------
(* Commands, which need the armed mode and a confirmation, on an IED in     *)
(* service by typing a word.                                                *)
Arm ==
  /\ Connected /\ MayAsk /\ ~dialog.open
  /\ armed' = ~armed
  /\ used' = [used EXCEPT !.armedFor = IF armed THEN NoIed ELSE conns.active]
  /\ UNCHANGED <<backend, conns, dialog, view, poll, flows, reading, command, audited>>

AskUser(what) ==
  /\ what \in Commands
  /\ Connected /\ MayAsk /\ armed /\ ~dialog.open
  /\ used.begun < MaxBegun
  /\ dialog' = [open |-> TRUE, does |-> what, danger |-> DangerZone,
                ied |-> conns.active, armedFor |-> used.armedFor]
  /\ used' = [used EXCEPT !.begun = @ + 1]
  /\ UNCHANGED <<backend, conns, armed, view, poll, flows, reading, command, audited>>

AskWrite == AskUser("write")
OperateFromBoard == AskUser("operate")
AskActivateSg == AskUser("activate")
AskConfirmSg == AskUser("confirm")

(* A command that is sent at once: a selection, changes of a report control *)
(* block, and the choice of the setting group to edit, which asks for the   *)
(* armed mode.                                                              *)
SendAtOnce(what) ==
  /\ what \in Commands
  /\ Connected /\ MayAsk /\ ~dialog.open
  /\ command = NoCommand
  /\ used.begun < MaxBegun
  /\ command' = [NoCommand EXCEPT !.pc = "confirmed",
                    !.asked = [open |-> TRUE, does |-> what, danger |-> DangerZone,
                               ied |-> conns.active, armedFor |-> used.armedFor]]
  /\ used' = [used EXCEPT !.begun = @ + 1]
  /\ UNCHANGED <<backend, window, flows, reading, audited>>

SelectFromBoard == armed /\ SendAtOnce("select")
RcbApply == SendAtOnce("report")
DoEnable == SendAtOnce("enable")
SelectEditSg == armed /\ SendAtOnce("edit")

Cancel ==
  /\ dialog.open
  /\ dialog' = NoDialog
  /\ UNCHANGED <<backend, conns, armed, view, poll, flows, reading, command, audited, used>>

(* With the word, if the dialog asks for it.                                *)
ConfirmPending ==
  /\ dialog.open
  /\ command = NoCommand
  /\ command' = [NoCommand EXCEPT !.pc = "confirmed", !.asked = dialog]
  /\ dialog' = NoDialog
  /\ UNCHANGED <<backend, conns, armed, view, poll, flows, reading, audited, used>>

OnlyCommand == UNCHANGED <<backend, window, flows, reading, audited, used>>

(* current, in two steps.                                                   *)
CurrentName ==
  /\ command.pc = "confirmed"
  /\ command' = [command EXCEPT !.pc = "named", !.ied = active]
  /\ OnlyCommand

CurrentClient ==
  /\ command.pc = "named"
  /\ command' = IF Found(command.ied) THEN [command EXCEPT !.pc = "taken"] ELSE NoCommand
  /\ OnlyCommand

(* active_id, for the audit log.                                            *)
ActiveId ==
  /\ command.pc = "taken"
  /\ command' = [command EXCEPT !.pc = "sending", !.tag = active]
  /\ OnlyCommand

(* The IED takes the command or refuses it; either way it is audited.       *)
Audit == audited' = command

(* What was written, and the setting groups, are read again.                *)
Executed(whats, reads) ==
  /\ command.pc = "sending" /\ command.asked.does \in whats
  /\ Audit
  /\ command' = NoCommand
  /\ reading' = IF reads /\ reading = NoReading THEN ReadingAsked ELSE reading
  /\ UNCHANGED <<backend, window, flows, used>>

Write == Executed({"write"}, TRUE)
Operate == Executed({"operate"}, FALSE)
Select == Executed({"select"}, FALSE)
SgSelectActive == Executed({"activate"}, TRUE)
SgSelectEdit == Executed({"edit"}, TRUE)
SgConfirmEdit == Executed({"confirm"}, TRUE)
RcbWrite == Executed({"report"}, FALSE)
EnableReport == Executed({"enable"}, FALSE)

-----------------------------------------------------------------------------
DesktopNext ==
  \/ \E f \in Flows, i \in Ieds : ConnectTo(f, i) \/ ConnectTls(f, i) \/ ConnectProfile(f, i)
                                  \/ SwitchTo(f, i) \/ CloseConn(f, i)
  \/ \E f \in Flows :
       \/ ConnectDemo(f) \/ ConnectedPlain(f) \/ ConnectedTls(f) \/ ConnectedTlsDemo(f)
       \/ ConnectFails(f) \/ SetActive(f) \/ Activate(f) \/ DisconnectId(f) \/ Succeed(f)
       \/ ListActive(f) \/ ListOpen(f) \/ Refresh(f) \/ Discover(f) \/ ShowModel(f)
  \/ SelectNode \/ ReadActive \/ ShowValue
  \/ AddWatch \/ DropOnBoard \/ RemoveWatch \/ SetPolling \/ Tick
  \/ \E t \in poll.ticks : TickReads(t) \/ TickShows(t)
  \/ Arm \/ AskWrite \/ OperateFromBoard \/ AskActivateSg \/ AskConfirmSg \/ Cancel
  \/ SelectFromBoard \/ RcbApply \/ DoEnable \/ SelectEditSg
  \/ ConfirmPending \/ CurrentName \/ CurrentClient \/ ActiveId
  \/ Write \/ Operate \/ Select \/ SgSelectActive \/ SgSelectEdit \/ SgConfirmEdit
  \/ RcbWrite \/ EnableReport

DesktopSpec == DesktopInit /\ [][DesktopNext]_desktopVars

-----------------------------------------------------------------------------
DialogType ==
  [open : BOOLEAN, does : Guarded \cup AtOnce, danger : BOOLEAN,
   ied : IedOrNone, armedFor : IedOrNone]
CommandType ==
  [pc : {"idle", "confirmed", "named", "taken", "sending"}, ied : IedOrNone, tag : IedOrNone,
   asked : DialogType]

TickType == [got : SUBSET Ieds, late : BOOLEAN]

DesktopTypeOK ==
  /\ clients \in [Ieds -> Ways \cup {NoIed}] /\ active \in IedOrNone
  /\ conns.open \subseteq Ieds /\ conns.active \in conns.open \cup {NoIed}
  /\ armed \in BOOLEAN /\ dialog \in DialogType
  /\ view.model \in IedOrNone /\ view.values \cup view.late \subseteq Ieds
  /\ poll \in [watching : BOOLEAN, ticks : SUBSET TickType]
  /\ \A f \in Flows : flows[f].ied \in IedOrNone /\ flows[f].open \subseteq Ieds
  /\ reading.ied \in IedOrNone /\ command \in CommandType /\ audited \in CommandType
  /\ used.begun \in 0..MaxBegun

(* Of a user who waits: a command has reached the IED that the window       *)
(* showed when it was asked for, for which commands were armed, on one in   *)
(* service after the word was typed, and the audit log names it. (current,  *)
(* audit, switchView, confirmPending)                                       *)
CommandsGoWhereShown ==
  ~Haste /\ audited # NoCommand =>
    /\ audited.ied = audited.asked.ied /\ audited.ied = audited.tag
    /\ audited.asked.does \in Guarded =>
         /\ audited.ied = audited.asked.armedFor
         /\ audited.ied \notin Simulated => audited.asked.danger

(* Of the same user: what is shown between two changes is of the active     *)
(* IED, except what ticks have left that began before the view was emptied; *)
(* and those under way that began since have read no other. (switchView,    *)
(* closeAndRefresh, the polling effect)                                     *)
ViewIsOfTheActive ==
  ~Haste /\ ~Changing =>
    /\ conns.active = active /\ conns.open = Open
    /\ view.model \in {active, NoIed}
    /\ view.values \subseteq {active}
    /\ \A t \in poll.ticks : t.late \/ t.got \subseteq {active}

(* Where the user begins nothing beside a change, both hold.                *)
PatientUseIsSafe == CommandsGoWhereShown /\ ViewIsOfTheActive

(* "Las maniobras sobre un IED REAL exigen la barrera reforzada"            *)
(* (App.tsx:749): a command that has reached an IED in service was          *)
(* confirmed with the word. Not so when a change of connection ends while   *)
(* the dialog is open.                                                      *)
RealIedsAreGuarded ==
  /\ audited # NoCommand /\ audited.asked.does \in Guarded
  /\ audited.ied \notin Simulated
  => audited.asked.danger
=============================================================================
