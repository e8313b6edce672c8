------------------------------ MODULE Workbench ------------------------------
(***************************************************************************)
(* What the desktop application runs besides its connections: live IEDs,   *)
(* each a server for an SCL file of the user with a directory of its own   *)
(* from which clients may fetch that file; and the tasks that watch or     *)
(* publish GOOSE and sampled values, one of each kind.                     *)
(***************************************************************************)
EXTENDS Integers, FiniteSets

CONSTANTS
  Binds,     \* addresses to listen on
  SclFiles,  \* SCL files
  Slots,     \* kinds of task: goose_mon, sv_mon, goose_pub, sv_pub
  Calls,     \* calls to the backend that may be under way at once
  MaxCalled  \* bound on the calls

(* A file has a path that is not empty.                                     *)
Nothing == "nothing"

ASSUME WorkbenchAssumption ==
  MaxCalled \in Nat /\ IsFiniteSet(Calls) /\ Nothing \notin SclFiles

VARIABLES
  live,      \* AppState.sims_live: the SCL file served at an address
  listening, \* addresses taken, also by a server that is about to end
  files,     \* the temporary directory of an address
  running,   \* tasks of each kind that run
  slot,      \* whether AppState holds a task of the kind
  lit,       \* what the window shows of it: gooseOn, svOn, goosePubOn, svPubOn
  invoked,     \* the calls under way
  called,    \* how many there have been
  overlap    \* whether the user makes calls while others are under way

workbenchVars == <<live, listening, files, running, slot, lit, invoked, called, overlap>>

NoCall == [pc |-> "idle", bind |-> Nothing, scl |-> Nothing, kind |-> Nothing]

WorkbenchInit ==
  /\ live = [b \in Binds |-> Nothing]
  /\ listening = {}
  /\ files = [b \in Binds |-> {}]
  /\ running = [k \in Slots |-> 0]
  /\ slot = [k \in Slots |-> FALSE]
  /\ lit = [k \in Slots |-> FALSE]
  /\ invoked = [c \in Calls |-> NoCall]
  /\ called = 0
  /\ overlap \in BOOLEAN

Idle == \A c \in Calls : invoked[c] = NoCall

Invoke(c, what) ==
  /\ invoked[c] = NoCall
  /\ overlap \/ Idle
  /\ called < MaxCalled
  /\ invoked' = [invoked EXCEPT ![c] = what]
  /\ called' = called + 1
  /\ UNCHANGED <<live, listening, files, running, slot, lit, overlap>>

GoOn(c, pc) == invoked' = [invoked EXCEPT ![c].pc = pc]
Return(c) == invoked' = [invoked EXCEPT ![c] = NoCall]
OnlyServers == UNCHANGED <<running, slot, lit, called, overlap>>
OnlyTasks == UNCHANGED <<live, listening, files, called, overlap>>

-----------------------------------------------------------------------------
(* sim_live_start, for the user who adds a live IED where the window lists  *)
(* none, if he waits.                                                       *)
AddLiveSim(c, b, scl) ==
  /\ overlap \/ (live[b] = Nothing /\ b \notin listening)
  /\ Invoke(c, [NoCall EXCEPT !.pc = "starting", !.bind = b, !.scl = scl])

(* The directory is made and filled before the address is known to be free, *)
(* and keeps what it has.                                                   *)
CopyScl(c) ==
  /\ invoked[c].pc = "starting"
  /\ files' = [files EXCEPT ![invoked[c].bind] = @ \cup {invoked[c].scl}]
  /\ GoOn(c, "copied")
  /\ UNCHANGED <<live, listening>> /\ OnlyServers

Bind(c) ==
  /\ invoked[c].pc = "copied"
  /\ IF invoked[c].bind \in listening
     THEN Return(c) /\ UNCHANGED listening
     ELSE GoOn(c, "bound") /\ listening' = listening \cup {invoked[c].bind}
  /\ UNCHANGED <<live, files>> /\ OnlyServers

(* Whoever has bound the address finds no entry for it in the table.        *)
Register(c) ==
  /\ invoked[c].pc = "bound"
  /\ live' = [live EXCEPT ![invoked[c].bind] = invoked[c].scl]
  /\ Return(c)
  /\ UNCHANGED <<listening, files>> /\ OnlyServers

StopLiveSim(c, b) ==
  /\ live[b] # Nothing
  /\ Invoke(c, [NoCall EXCEPT !.pc = "stopping", !.bind = b])

(* What remains of the directory. Slip: it is left where it is.             *)
Kept(b) == files[b]
Removed(b) == {}

(* sim_live_stop, under the lock of the table: the entry goes, the server   *)
(* is told to end, the directory is removed. Nothing, if the entry is gone. *)
SimLiveStop(c) ==
  /\ invoked[c].pc = "stopping"
  /\ live' = [live EXCEPT ![invoked[c].bind] = Nothing]
  /\ files' = IF live[invoked[c].bind] = Nothing THEN files
              ELSE [files EXCEPT ![invoked[c].bind] = Removed(invoked[c].bind)]
  /\ Return(c)
  /\ UNCHANGED listening /\ OnlyServers

(* The server ends and with it its socket.                                  *)
ServerEnds(b) ==
  /\ b \in listening /\ live[b] = Nothing
  /\ \A c \in Calls : ~(invoked[c].pc = "bound" /\ invoked[c].bind = b)
  /\ listening' = listening \ {b}
  /\ UNCHANGED <<live, files, invoked>> /\ OnlyServers

-----------------------------------------------------------------------------
(* Tasks: goose_start, sv_start, goose_pub_start, sv_pub_start, which fail  *)
(* where the interface cannot be opened, and their stops.                   *)
StartTask(c, k) == Invoke(c, [NoCall EXCEPT !.pc = "opening", !.kind = k])
StopTask(c, k) == Invoke(c, [NoCall EXCEPT !.pc = "taking", !.kind = k])

OpenAndSpawn(c) ==
  /\ invoked[c].pc = "opening"
  /\ \/ Return(c) /\ UNCHANGED running
     \/ GoOn(c, "spawned") /\ running' = [running EXCEPT ![invoked[c].kind] = @ + 1]
  /\ UNCHANGED <<slot, lit>> /\ OnlyTasks

(* The task in the slot, if there is one, is told to end. Slip: it is not.  *)
AbortsNothing(k) == running' = running

AbortOld(k) == running' = [running EXCEPT ![k] = IF slot[k] THEN @ - 1 ELSE @]

Replace(c) ==
  /\ invoked[c].pc = "spawned"
  /\ AbortOld(invoked[c].kind)
  /\ slot' = [slot EXCEPT ![invoked[c].kind] = TRUE]
  /\ GoOn(c, "started")
  /\ UNCHANGED lit /\ OnlyTasks

Take(c) ==
  /\ invoked[c].pc = "taking"
  /\ running' = [running EXCEPT ![invoked[c].kind] = IF slot[invoked[c].kind] THEN @ - 1 ELSE @]
  /\ slot' = [slot EXCEPT ![invoked[c].kind] = FALSE]
  /\ GoOn(c, "stopped")
  /\ UNCHANGED lit /\ OnlyTasks

(* gooseStart, gooseStop and their like in the window, when the call is     *)
(* back. Two calls may come back in another order than they were served.    *)
ShowTask(c) ==
  /\ invoked[c].pc \in {"started", "stopped"}
  /\ lit' = [lit EXCEPT ![invoked[c].kind] = invoked[c].pc = "started"]
  /\ Return(c)
  /\ UNCHANGED <<running, slot>> /\ OnlyTasks

-----------------------------------------------------------------------------
WorkbenchNext ==
  \/ \E c \in Calls, b \in Binds : StopLiveSim(c, b) \/ \E scl \in SclFiles : AddLiveSim(c, b, scl)
  \/ \E c \in Calls : CopyScl(c) \/ Bind(c) \/ Register(c) \/ SimLiveStop(c)
  \/ \E b \in Binds : ServerEnds(b)
  \/ \E c \in Calls, k \in Slots : StartTask(c, k) \/ StopTask(c, k)
  \/ \E c \in Calls : OpenAndSpawn(c) \/ Replace(c) \/ Take(c) \/ ShowTask(c)

WorkbenchSpec == WorkbenchInit /\ [][WorkbenchNext]_workbenchVars

-----------------------------------------------------------------------------
WorkbenchTypeOK ==
  /\ live \in [Binds -> SclFiles \cup {Nothing}] /\ listening \subseteq Binds
  /\ files \in [Binds -> SUBSET SclFiles]
  /\ running \in [Slots -> Nat] /\ slot \in [Slots -> BOOLEAN] /\ lit \in [Slots -> BOOLEAN]
  /\ \A c \in Calls : invoked[c].bind \in Binds \cup {Nothing}
  /\ called \in 0..MaxCalled

(* However calls overlap, a task that runs and has been entered can be      *)
(* stopped: there is one for a slot that is taken, none for an empty one,   *)
(* and those that calls are about to enter. (goose_start, goose_stop)       *)
TasksAreHeld ==
  \A k \in Slots :
    running[k] = (IF slot[k] THEN 1 ELSE 0)
                   + Cardinality({c \in Calls : invoked[c].pc = "spawned" /\ invoked[c].kind = k})

(* Of a user who waits: a live IED exposes its SCL file and no other, and   *)
(* the window shows the tasks that run. (sim_live_start, sim_live_stop)     *)
LiveIedsServeTheirOwn ==
  ~overlap /\ Idle =>
    /\ \A b \in Binds : live[b] # Nothing => files[b] = {live[b]} /\ b \in listening
    /\ lit = slot
=============================================================================
