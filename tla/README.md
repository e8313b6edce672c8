# A TLA+ model of IEC-61850-Studio

The repository is a Rust library and desktop application for IEC 61850: an MMS
server (a simulated IED) and client over an ISO stack, GOOSE and sampled values
on Ethernet, an SCL parser, and programs built on them.  This directory holds
TLA+ specifications of its components, TLC configurations that check small
instances, and TLAPS proofs.  Paths are relative to the repository (`src/`);
`server.rs`, `client.rs` are those of `crates/iec61850-mms/src`, `publisher.rs`
and `subscriber.rs` those of `crates/iec61850-goose/src` or
`crates/iec61850-sv/src`, `lib.rs` and `App.tsx` those of `apps/iec61850-tauri`.

## 1. Inventory

### MMS server (`server.rs`)

| Part | State | Operations | Correct if | Module |
|---|---|---|---|---|
| Listener, association, roles | permits, handshake, contexts, `Role`, idle timer | `serve`, `handle_connection`, `AuthPolicy`, `transport/tls.rs` | nobody is served without a role that allows it, permits come back | Association |
| Value store, `ServerHandle` | map (domain, item) -> value, channel `change_tx` (1024) | `apply_value`, `store_write` | subscribers learn of every change or that they lost some | UrcbReporting, BrcbReporting |
| Reservations of RCBs | `Reservations` shared by all connections | `check_rcb_reservation`, `ReservationGuard::drop`, window of `ResvTms` | one user per block, no orphaned lock | RcbReservation |
| Buffered reporting | `Buffers`, `buffering_task`, `buffer_tx`, cursors | append, notify, `drain_buffer`, `set_rpt_ena`, `set_entry_id`, `purge_buf` | every buffered entry is sent, in order, losses flagged by BufOvfl | BrcbReporting |
| Unbuffered reporting | `RcbRuntime` of each connection | `on_value_change`, `general_interrogation`, `on_integrity` | the last report shows the last value | UrcbReporting |
| Control | selections of each connection | `$SBO`, `SBOw`, `Oper`, `Cancel` | an operation uses up one unexpired selection | ControlDialogue |
| Setting groups | `ActSG`, `EditSG`, values, edit buffer | SelectActive, SelectEdit, edit, Confirm | the confirmed group holds what was edited for it | SettingGroups |
| Files, obtainFile | open files, one reverse transfer | open, read, close, delete, rename, `obtain_file_step` | a transferred file is the one that was offered | FileTransfer |
| Names, data sets, logs | model, data sets of the connection | `from_model`, `get_name_list`, `define_named_variable_list`, `read_journal` | a list in pages is the list, an answer is about what was asked | ServerNamespace, MmsDialogue |

A connection is one task: a `tokio::select!` (biased) over idle, request, change,
notification and integrity timer.  Tasks meet in the store (`RwLock`), in the
tables behind mutexes, and through two `tokio::sync::broadcast` channels that
drop the oldest messages of a slow receiver.  **Hard:** checks and effects in
separate critical sections, notifications lost or early, limits reached,
connections that end between any two steps, reads dropped by the select.

### MMS client (`client.rs`)

A reader task gives answers by invokeID (`pending`) to the tasks that wait,
passes reports on (`report_tx`, 256), terminations of commands (`term_tx`) and
answers reverse file requests; requests of any task share the writer behind a
mutex.  **Hard:** late answers, a blocked reader, requests registered while the
connection ends, one slot for the last control error.  Modules: MmsClient,
ControlDialogue, FileTransfer, MmsDialogue.

### Transport, upper layers, codecs (`transport/`, `upper/`, `mms/`, `iec61850-ber`)

TSDUs are cut into COTP DT TPDUs, each in a TPKT packet, and put together by the
other end.  Session, presentation, ACSE and MMS are codecs, but what one side
writes the other has to read, and what a context means is agreed at the start.
**Hard:** partial reads that are dropped, boundaries of fragments, contexts in an
order nobody tested, optional fields that only one side knows.  Modules:
TsduTransport, Negotiation, UpperPdus, BerTlv, MmsPdus, MmsFilePdus, ReportPdus.

### GOOSE, sampled values, layer 2

A publisher task sends a state and repeats it at growing intervals; a subscriber
task follows `stNum`/`sqNum` of each control block, with a simulation mode,
verification of signatures and a sweep of expired blocks.  Sampled values are
alike with one counter and several samples to a frame.  Keys live in rings of
validity periods.  **Hard:** loss, duplication, restarts, wrapping counters,
deadlines, a full channel of events, keys changed under way.  Modules: Goose,
GoosePublisher, GooseSubscriber, SampledValues, SignedFrames.

### Desktop application (`apps/iec61850-tauri`)

The backend keeps a table of connections and an active one behind separate locks,
live IEDs with their directories, and one task for each kind of monitor and
publisher; the window keeps a copy of what it was told and asks before it
operates.  **Hard:** calls of the window overlap, the active connection changes
between question and answer.  Modules: Desktop, Workbench.

SCL, the facade, the native GUI and simulator and the fuzzers are not modelled
(section 7).  `PROJECT.json` lists every component with its state of modelling
and every hazard at its line.

## 2. Modules

```
RcbReservation ── BrcbReporting ── MCBrcbReporting ── MCBrcbScenarios
     └─ MCRcbReservation ── MCRcbScenarios
TsduDelivery  <── implemented by ── TsduTransport ── MCTsduScenarios ──────────┐
GooseNumbers ── GoosePublisher, GooseSubscriber ── Goose ──┐                   ├─ MCNetworks
SampledValues, SignedFrames ───────────────────────────────┴─ MCGooseScenarios ┘
BerTlv ── MmsPdus ── MmsFilePdus, ReportPdus ── MmsDialogue ───┐
   └──┐                             ServerNamespace ──┘        │
Negotiation ── UpperPdus ─────────────────────────────┘        │
   └────────── Association ─┐  ControlDialogue, FileTransfer   │
Broadcast ── UrcbReporting ─┤  SettingGroups, MmsClient        │
        Desktop, Workbench ─┴───────────────────────────── MmsServices ── MCMmsServices
```

| Proofs | About |
|---|---|
| BrcbReporting_proofs | RcbReservation, BrcbReporting |
| ServerObjects_proofs | UrcbReporting, SettingGroups, FileTransfer |
| ControlDialogue_proofs | ControlDialogue |
| Association_proofs | Association |
| MmsClient_proofs | MmsClient |
| Networks_proofs | TsduTransport and TsduDelivery, SignedFrames, SampledValues |
| Goose_proofs | Goose, GoosePublisher, GooseSubscriber |
| Desktop_proofs | Desktop, Workbench |

`MC*` modules give the constants of the instances; each `.cfg` is one run.
Where several scenarios or services share no state, one run follows one of them
in each behaviour, chosen at the start: their state spaces add up and do not
multiply, and what holds of every behaviour holds of each.  `Slip:` comments mark
variants of an operator with a plausible mistake.  No specification uses them;
one put in the place of its original makes TLC find the property violated that is
to catch the mistake.

**RcbReservation.**  `resv` is `Reservations`, one entry per block: owner, `secs`
of `ResvTms`, and `left`, the seconds to go instead of the instant `until`
(`Alive` for `None`).  A write is two steps as in `handle_write`: `Grant`/`Refuse`
is `check_rcb_reservation` under its mutex, `TakeEffect` the effect after the
mutex is released.  `DropConnection` is the end of `handle_connection` with
`ReservationGuard::drop`.  `conn_id` is new for every connection.  Roles without
permission for reporting never get to the check.

**BrcbReporting** (with Broadcast) extends it with the way of a value:
`WriteValue`, the buffering task in steps `TakeChange`, `SkipLostChanges`
(`Lagged`), `AppendEntry` (under the buffer lock) and `Notify` (after it), and
the effects of writes: `EnableBlock`, `WriteEntryID`, `DisableBlock`,
`PurgeBuffer`, `WriteOther`.  `HandleNotice`, `NoteLag`, `CloseLagging` are the
arms of the loop for `buffer_rx`.  Every action conjoins the action of
`RcbReservation` it is an instance of, so that what is proved of the reservations
alone carries over (lemma `StepsOfReservation`).
An entry is its EntryID; enabling takes the cursor and drains in one step (in the
code the lock is released between, which only lets entries come that the drain
then sends too).

**UrcbReporting.**  A writer stores a value under the lock and announces it after
(`StoreValue`, `Announce`), so writers may overtake each other.  The connection
compares what is announced with `last_values` (`HandleChange`); `GeneralInterrogation` and
`Integrity` report the store and leave `last_values` alone; lag adds to a count
that is never reset, and closes the connection.  Members are sets of leaves: a
data object is read from the store when one of its leaves changes, and a leaf
listed after its data object is never looked at, since `member_covering` takes
the first member that fits.  Reports that reach the client make up `shown`.

**ControlDialogue.**  Both ends of a connection: calls of the client (select,
operate, enhanced operate, cancel, time-outs) and the server's `SBO`, `SBOw`,
`Oper`, `Cancel` with selections that run out, a role without the right to
control and an object without a status item, both refused without a
LastApplError.  Answers find their call by invokeID; `last_appl_error` is one
slot and terminations go to every waiting call.  As in `client.rs`, a termination
is recognised by its item, and an error by a reference that *ends with* the item of
the call (`ends_with`, 718 and 961): an error of `Q1CSWI1` is one of `CSWI1` too.
Items are tuples of their parts, so that `ItemOf` says which of them end alike.

**FileTransfer.**  Downloads as `download_file`, uploads as `upload_file` with
the server's `obtain_file_step`, which takes any response for the one it awaits,
and the reader's `handle_reverse_request`, which does not answer for a file that
is not offered.  A reverse read has no bound on its number (`frsm`), files are
replaced, renamed and removed by others between two reads.  What was obtained may
fail to be written: nothing is stored then, and the call has an error.

**SettingGroups.**  SGCB, groups, the one edit buffer of a device: selecting for
edit leaves the buffer as it is, confirming copies and empties it.

**MmsClient.**  `Ask` with `next_id` over a wrapping space, `pending`, time-outs,
the reader task with the blocking channel of reports, the end of the connection
with `Drained`, what waits, a request registered after the drain.  `seen` is what
the application took; `ReportsAreKept` compares it, the channel and the reports on
the wire (the one the reader holds is its first) with what was sent.

**Association**, over Negotiation (the choice of contexts and limits, which the
codecs of UpperPdus share).  Listener with a socket in hand waiting for a
permit, TLS with trust, validity and revocation (CRL, OCSP, stale sources), CR/CC,
CONNECT/CP/AARQ with contexts in any order, policy (none, token, passwords,
certificates) and role, Initiate with its negotiation, requests allowed by role
and functional constraint, conclude, idle timer that starts again with every
round of the loop, time-outs, lost streams.

**BerTlv, MmsPdus, MmsFilePdus, ReportPdus, UpperPdus.**  Pure
definitions: a PDU is a tree of TLVs, identifiers and integers are octets, names
are tuples of their segments.  `Write…` is an encoder, `Read…` the other side's
decoder with the order of fields, the optional ones and the failures.
**ServerNamespace** derives names, data sets, control blocks with the values they
start with, and pages from a model as `from_model` does, and reads the store
over it (`Written` is what the application has set).  **MmsDialogue** lets a client associate and call through all
layers with a server of this repository or another one, reports in between;
MCDialogue holds its model, questions and answers.  These modules use RECURSIVE
operators and only TLC uses them.

**Desktop.**  `conns`, `active` of the backend, the window's copy (`conns`,
`view`, `armed`, `dialog`) and flows of calls (connect, switch, close, read,
operate) that are cut where the code awaits.  `poll` is the watch list with its
timer: a tick starts whenever something is watched, reads one reference after the
other from the connection that is active by then, and shows what it has read at the
end.  A tick is nobody's wish: it starts and ends during a dialog or a change of
connection, and a change does not cancel it (the effect of `App.tsx` 1024-1057
depends on `polling`, `connected` and `pollMs`).  A tick that was under way when the
view was emptied is `late`, and what it shows is kept apart.  A timer that is
switched off is one that does not fire.  `Haste` lets the user begin something
before a change of connection has ended; a user who waits (`Haste = FALSE`) sees to
what he began himself, and cannot wait for a tick.  **Workbench**: live IEDs by
address with their directories, tasks in slots, each call cut where the code
takes a lock or awaits.

**MmsServices** puts these services side by side.

**TsduTransport, TsduDelivery.**  `data_tpdus` with its boundaries, `tpkt::frame`,
`IsoWriter::send_data` behind the mutex, `IsoReader::recv_data` with its two reads
for each packet and `reassemble_into` with its bound.  A packet is two units on
the stream, so that a read may be dropped between header and TPDU, or inside one.
`SelectLoop` tells the server's reader (an arm of a select) from the client's (a
task).  What is left over after a dropped read is assumed to fail the check of
the TPKT version.  `TsduDelivery` is the promise: TSDUs whole, once, in order.

**GoosePublisher, GooseSubscriber, Goose.**  `pub[p]` are the local variables of
the publisher's `run`, its actions the arms of its loop.  The subscriber's `run`
is `TakeFrame`, `PassOverFrame` (`sim_gate`), `RejectFrame` (signature), `Sweep`;
while it waits for room in the channel of events it does nothing.  `Goose` puts
the wire between them: a queue that is the socket's buffer too, with loss,
copies and the drop on overflow; whether the application takes its events at once is
chosen at the start (`prompt`).  Time is in ticks: a tick happens when all tasks
that can run have run; frames take less than a tick.

**SampledValues.**  The same for samples, with `Packed` of them in a frame, a
counter that starts again with the second, and an application that may hold the
subscriber up in the middle of a frame.  **SignedFrames**: header, lengths,
padding and tag of a frame as what a receiver makes of them; rings of keys with
their periods, a key being known by its place in the provision, the newest of them
and those that are purged; hosts whose clocks differ.

## 3. Runs

| Run | Bounds | What it shows |
|---|---|---|
| `control_blocks` (MCRcbScenarios) | one block, two clients, three connections, `ResvTms` 0 or 2, all kinds of writes; or two blocks with a common item, one connection, two writes | the first: `ExclusiveUnlessReleased`, `LiveReservationsHaveOwners`, `HeldBlockIsNotTaken`, `OrphanedBlockIsFreed`; the second: `BlocksEntryIsSent` |
| `buffered_reporting` (MCBrcbScenarios) | one block in three scenarios: two connections that resume and purge, capacity 2, three writes, channels of 1 and no tolerance for lag; one such connection with channels of 2 and a lag tolerated; two connections that share a block that was given up, capacities of 1, two writes | `EntryIdsAreConsecutive`, `LossIsSignalled`, `NoLostWakeup` |
| `networks` (MCNetworks) | see below | `EventsTellTruth`, `NoFalseAlarm`, `SimulatedAndRealDoNotMix`, `RestingCatchesUp`, `SilentIsNoticed`, `SampleLossIsTold`, `RotationLosesNothing`, `TaskImplementsDelivery` (the refinement), `ReceivedEndsInOrder`, `EverythingArrivesAtTask` |
| `services` (MmsServices) | see below | `AssociatedIsAdmitted`, `DataUnderAgreedContext`, `LastReportIsCurrent`, `ResultsAreTrue`, `OperatedAsOftenAsSelected`, `TransfersAreExact`, `UndisturbedEdit`, `OwnAnswer`, `ReportsAreKept`, `PatientUseIsSafe`, `TasksAreHeld`, `LiveIedsServeTheirOwn`, `BothSidesMeanTheSame`, `NamesAndListsAreWhole` |
| `services_liveness` | the same under fairness, with fewer calls and requests, and with reports that get lost (below) | `AcceptLoopGoesOn`, `IntegrityRepairs`, `CallsEnd` |

Each passing run checks the types too, one invariant for all its modules.

**`networks`, by scenario.**  *lossy*: one publisher, two faults, two states, six
frames, intervals 1, 2, 4, an application that takes events at once.
*simulation*: a real and a simulating publisher of one block, a slow application,
four frames, a fault, a restart.  *resting*, under fairness: three states, counters of 3 that
wrap, frames lost in a full socket, a restart, a second publisher whose frames do
not verify; the subscriber ends with the last state.  *silent*, under fairness: a
publisher that goes is noticed, though the other keeps the loop busy.  *samples*:
a merging unit with eight samples over a wrap at 5, a restart, two faults, two
samples to a frame, a tester that simulates and a stranger without the key.
*keys*: rings that overlap, are out of order, hold tags of two lengths or nothing,
clocks that differ by one either way, frames with and without padding.  *link*:
two tasks that write TSDUs of 0, 2, 3, 5 and 7 octets in TPDUs of 2 with a bound
of 5, three sends, received by a task, and by an arm of a select.

**`services`, by service.**  *association*: one permit and two peers, every kind
of policy and source of revocation with certificates that are good, untrusted,
expired, revoked and unknown, contexts swapped, without MMS, with other transfer
syntaxes.  *reporting*: a leaf and a data object of two leaves, two writers, three
writes, channel of 2, lag tolerated once, an integrity period.  *control*: two
objects, one enhanced with selection, the other direct and normal with an item that
ends with the first one's; both open to everybody, or the first one blocked, the
second without a status and a role that may control but not read; three calls.  *files*: two
transfers of two blocks, one file removed, renamed or replaced by others.
*settings*: two clients, two groups, two settings.  *requests*: three requests
whose invokeIDs wrap, three reports over a channel of one.  *desktop*: an IED in
service and a simulator, three changes of connection and commands in all, commands
to write, operate and select (the five others in `services_liveness`), one
tick of the watch list at a time, a user who waits (`Haste = FALSE`), so that one
change at a time is all there can be; `desktop_guard` has a hasty user and two
changes at once.  *workbench*: two addresses, two SCL
files, two calls at once and five in all.  *dialogue*: an association with or
without password and guard (if the client has a password, this repository's server
asks for one and the other implementation does not), three calls out of all services, reports,
terminations and reasons between them, values nested up to the limit.

**`services_liveness`.**  For `IntegrityRepairs` a report has to go astray first.
Two writers, three writes, a channel of one and a lag tolerated once make the
connection lose a change; two writers that store in one order and announce in the
other make one overtake; a data set of a leaf and a data object of the same item
has changes that cross a general interrogation, and a leaf that another member
covers.  In each of these the client is left with an old value, and only the
integrity period, which reports the store whatever the connection has seen, mends
it.  (An integrity period that reports what was last seen to change passes if there
is one writer with room in the channel, and fails here.)

**Why the bounds are enough.**  Three connections are two that compete and one
that comes later.  Capacities of one or two make "full", "one dropped" and "all
dropped" happen with three writes; the code uses 64, 256 and 1024 and does nothing
else with the numbers.  With TPDUs of two octets the lengths are empty, one full
TPDU, one and a half, the longest TSDU allowed, and one too long.  Wrapping needs
counters of 3 or 4; runs about order use more numbers than frames, and say so by
`MaxFrames < Counters`.  Two calls that overlap and one before them are what a
slot for the last error, or a table of selections, can confuse.  A page in the
dialogue has 25 names and the directory a few more than one page.  Deadlock is not
checked: connections, writes, calls and frames are bounded, and the model stops
when they are used up.

**Fairness.**  The buffering task, announcements of values and the effects of
granted writes are weakly fair: they are tasks of the runtime that wait for
nothing but short locks.  The arms of a connection for notifications are strongly
fair in `control_blocks`, because the select is `biased` and prefers requests:
what is assumed is that no client keeps its socket readable for ever.  Readers,
writers, the accept loop and timers run.  Calls of
control, transfers and requests must end without any timer as long as the
connection is there: the time-out of a control call (`GiveUp`) is fair only when
nothing else can end it: the connection is lost, or it waits for a termination of
an object that sends none.  Requests need an application that takes its reports (`TakeReport`).  GOOSE: each arm of the publisher's loop is weakly fair (its
select is not biased), frames that are not lost arrive, the application takes its
events, time goes on.  Nothing assumes that a connection ends, that a client
writes, that a peer speaks, or that a publisher changes.

## 4. Where the code does otherwise

Runs that are expected to fail state what a comment or a guide says; the quotes
are in `PROJECT.json`.

| Run | What TLC finds |
|---|---|
| `reservation_own_window` | the `ResvTms` window keeps out the client that left it |
| `buffered_reenable` | enabling again skips entries that are still buffered |
| `transport_dropped_read` | the server loses the first fragments of a request when another arm is ready (`recv_data` is not cancellation safe) |
| `upload_mixed` | with three uploads at once, the server stores one under the name of another: it does not compare invokeIDs of reverse answers |
| `idle_sessions` | a silent peer keeps its session while values change, since every round of the loop starts the idle timer again |
| `desktop_guard` | an operation asked for on the simulator is confirmed, without the word, on an IED in service that became active meanwhile |
| `reports_read` | a client that asks for the references of the members loses the values: the encoder echoes the bit and leaves the field out |

What the passing properties leave room for, on purpose, because the code does:

- *Reporting.*  `Resv = FALSE` gives away a block that stays enabled; a write
  granted before another connection reserved the block takes effect after it;
  changes that the buffering task lost leave no trace; the count of lag is never
  reset and two channels share it; a leaf listed in a data set after its data
  object gets no report of its changes (`server.rs` 2853, hence
  `LastReportIsCurrent` speaks of members that no earlier one covers); a general interrogation that crosses a change
  of a data object leaves the client behind until the integrity period.
- *Control and files.*  Selections are kept by connection, so that two clients may
  hold one object; a termination of one call is taken by another call
  on the same item, and an error by any call whose item its reference ends with,
  though a comment says "LastApplError del mismo objeto" (`client.rs` 712), hence
  `ResultsAreTrue` speaks of calls with no other such call beside them; a
  reverse open for a file that is not offered any more is not answered, and the
  server's one transfer stays taken for the rest of the connection.
- *Setting groups.*  Selecting for edit does not empty the buffer: one client may
  confirm what another staged (hence `UndisturbedEdit`).
- *Client.*  A request registered after the reader has ended waits for its time-out;
  an application that does not read reports stops every answer.
- *Association.*  The client ignores the TPDU size that the CC confirms, and the
  server confirms 1024 whatever was asked; the AARE's EXTERNAL always names
  context 3; `connect_cpa` writes a selector with tag 1 where the decoder of the
  other way has 3.
- *Names.*  `resolve_dataset` gives two nodes with a data set of one name the
  members of the first; members with an `ldInst` are named by IED and instance
  and ignore an `ldName`; structures come in alphabetical order where a comment
  (`server.rs` 906-916) promises that of the SCL; a dynamic data set hides a
  static one, and report entries are then named after the wrong list; values that
  cannot be encoded are skipped where a comment says they become empty
  (`report.rs` 419); an attribute that is a structure, read by name, answers with
  the 0 that `iter_data_attributes` put in the store and not with its components,
  as `handle_read` looks for a stored value first (`server.rs` 943-945).
- *Process bus.*  The first state of a restarted publisher is called a
  retransmission if the one before had `stNum` 1; frames may wait in the socket
  while their block expires; samples lost across the start of a second pass for
  "Sample" or "Wrap"; a subscriber whose clock is behind rejects frames at a
  change of keys although a comment of the key store says that none are lost.
- *Desktop.*  A tick of the watch list that is under way at a change of connection
  puts values of the IED before into the view that was emptied for the next, although
  a comment has the view start afresh (`App.tsx` 1158), hence `ViewIsOfTheActive`
  speaks of all values but those of late ticks.  A hasty user sees values of one IED for another, and the audit log
  may name another IED than the one that was commanded (`Haste`); a second start
  of a live IED that fails leaves its file with the one that runs.

## 5. Proofs

Checked by TLAPS for all values of the constants, under the named assumptions in
the modules (types and positive sizes), which TLC evaluates in the runs.

Each safety theorem has the same shape: an inductive invariant, a lemma for each
action, and what follows.  Where TLC can evaluate such an invariant it was first
checked in a run of the instance.

**BrcbReporting_proofs.**  *Reservations.*  `ReservationIInv` adds to the type
invariant that entries name accepted connections (`EntriesAreKnown`: or else a new
connection could find its number in the table), that a connection that uses a block
and has not given it up has its reservation (`EnabledIsReserved`), and that an
enabling write between check and effect still has it (`EnablingIsReserved`: this is
what the gap between the two steps needs, since a running connection's reservation
has no deadline).  From it: `TypeCorrect`, `Exclusion`, `NoOrphanedLock` and, as an
action property, `HolderKeepsBlock`.  *Reporting.*  Every step of the composed
system is a step of `RcbReservation` or leaves its variables alone (the lemma
`StepsOfReservation`, by how the module is built), so `ReportingIsExclusive` follows
without another induction.  `IInv` joins the
type invariant, `EntryIdsAreConsecutive`, `LossIsSignalled` and `NoLostWakeup` with
`NotifiesOneBlock` (the task notifies before it appends again).  They carry each
other: that a drain leaves nothing unsent needs that the newest EntryID is the
highest.  Lemmas say what the channel (`SentMessage`, `ReceivedMessage`), the
buffer (`PushedBuffer`) and a drain (`DrainKeeps`) do.  Theorems:
`ReportingTypeCorrect`, `EntryIdsIdentify`, `LossesAreSignalled`, `WakeupsAreKept`.

**ServerObjects_proofs.**  *Reports.*  `LastReportIsCurrent` speaks of a moment
when nothing is under way; `UrcbIInv` says where a value is until then.
`StoreIsOnItsWay`: the value in the store is with the writer that stored it last,
or it is the last of its item in the channel, or the connection knows it, or the
item is overtaken.  `VersionsDiffer` tells the writers apart.  `LeafFollows` and
`ObjectFollows`: what the client was shown is what the connection knows, for a leaf,
and the store, for a data object none of whose leaves is under way.  A lag or a
crossing is recorded, and frees from this.  Theorem: `ClientsAreCurrent`.
*Setting groups.*  `SessionsAreKnown`, and `SessionOwnsBuffer`: as long as nobody
disturbs the editor the buffer holds what it wrote, over the group it selected.
Theorems: `UndisturbedEditsRead`, and the action property
`EditingLeavesTheActiveView`.
*Files.*  `FileIInv` follows the messages.  A download has one under way
(`DownloadGoesOn`): what the client got is what was read of the open file before it
(`RequestFits`), or all but what it carries (`AnswerFits`), whatever happens to the
file in the provider.  The messages of a reverse read name no transfer; of an upload
that was alone when it began, `AskedFirst` says that no earlier upload can leave one
behind, since none is under way and any other is asked for later, and
`ObtainedAlone` that then the one message there is goes on with its file
(`ReverseRequestFits`, `ReverseAnswerFits`), even after the call gave up.  Where
messages stand in a queue is argued with `At` and `Fewer`.  Theorem: `FilesAreExact`.

**ControlDialogue_proofs.**  `ControlIInv` has three parts.  `ServedIInv`: a request
is served once, and only while it has no verdict.  `SelectionsAreUnused` counts: the
operations of an object, and one more if a selection is held, are at most the
selections granted.  `TruthIInv` follows messages that do not name their call:
replies and errors come in the order the requests were served, so that what is
heard by a call is either its own or was heard before it began, if no call beside it
has an item that ends with its own, or its own ends with.
Theorems: `OperatedNoMoreThanSelected`, `AloneCallsTellTheTruth`.

**MmsClient_proofs.**  `PendingWait` and `WaitersPend` make the table of requests
exact, `AnswersAreLabelled` and `AnsweredUnderItsId` say of which request an answer
on the wire is, `ReaderHoldsReport` what the reader is stopped by.  Theorems:
`RequestsGetTheirOwnAnswers` (as long as the counter of ids has not come round, as
the property has it), `NoReportIsLost`, and the action property
`AnsweredOnceForAll`.

**Association_proofs.**  `AssociationIInv` says of every peer which states of the two
ends go together and what is under way (`Dialogue`), that whoever is served has a
role its credentials give (`Admission`), and of the listener that permits and
connections that are served add up (`PermitsAddUp`) and what waits is what the
server has not looked at (`BacklogWaits`).  Theorems: `AssociationTypeCorrect`,
`AssociatedAreAdmitted`, `DataGoUnderAgreedContexts`.

**Networks_proofs.**  *Link.*  `LinkIInv` follows the TPDUs: writers take turns
(`WritersTakeTurns`), packets are header and TPDU (`PacketsInOrder`), neighbours
in the stream are neighbours of a TSDU (`WrittenFollows`), and what the reader keeps
goes on in what it will read (`PartsContinue`, `AheadContinues`).  Any TSDU received is the
end of one (`ReceivedAreEnds`), in the order of sending (`ReceivedAscends`), and with
no read dropped none is missing (`NothingMissed`).  Theorems: `EndsInOrder` for any
reader; `TaskReceivesAsSent` and the refinement `LinkImplementsDelivery` for a reader
with a task of its own.  *Keys.*  What is signed carries the newest valid key of the
publisher; a finite ring has a newest key since a set of numbers has a least
element; and rings that share it, with clocks close enough, agree on it.  Theorem:
`NothingLostInRotation`.  *Samples.*  `SvIInv` says that every run of a publisher has
a place in its samples (`CountedFrom`) from which `smpCnt` is counted, modulo the
wrap: in the publisher, on the wire, in hand and in what is kept.  Samples of one run
then differ in `smpCnt` by their distance up to whole rounds (`WholeRounds`), which is
what an event says (`TellsLoss`).  The model counts with a remainder;
`CountedOneByOne` shows it to be the publisher's loop, sample by sample.  Assumed is
a wrap from 2 to 65535.  Theorem: `LossIsTold`.

**Goose_proofs.**  The invariants build on each other.  `Typed` also bounds the
intervals: a publisher that is given a TMax below TMin starts with TMin all the same.
`Sources`: frames are of states that their publisher has had, and a track is due to a
publisher whose frames verify.  `Told`: of a publisher that is alone and was not
restarted, the track, the wire and the publisher are in the order of its states
(`Ordered`, which losses and copies do not change); `stNum` is the number of the state
until it comes round (`Numbered`); and each state has a first frame from which `sqNum`
counts (`Counted`, a function of the states that a new state extends).  `EventsTell`
then compares the frame of an event with the one before it.  Theorem:
`GooseEventsTellTruth`; that no loss goes unnoticed is stated for runs with fewer
frames than numbers, as a loss of a whole round of them cannot be seen.  `Calm` is
about a segment without losses: each `sqNum` follows the one before, on the wire and
from the track to the wire, and with an empty wire the track allows the rest of the
publisher's interval and one interval more (`LastIsCurrent`), so that the sweep finds
nothing.  Theorem: `GooseNoFalseAlarm`, for intervals and counters of any size.  The
action property `GooseSimulationIsKeptApart` follows from blocks that were seen
simulated being latched (`SimulatedAreLatched`).

**Desktop_proofs.**  `DesktopIInv`: of a user who waits (`Haste = FALSE`), either one
change of connection is under way or commands and reads for the IED that is shown
(`OneChange`, `AtRest`, `OnItsWay`, `CommandsGoWhereShown`).  Ticks of the watch list
go on beside it: those that began since the view was emptied have read from the
active connection only (`TicksFit`, whenever no change is under way), and from when the
view is emptied to when the model is shown nothing is watched, so that there are none
but late ones (`Emptied`).  `WorkbenchIInv`: every
task that runs is in its slot or with the call that is about to put it there, in
whatever order calls interleave; with a user who waits, what an address serves is
what it was started with.  Theorems: `PatientUse`, `NoTaskIsLost`,
`PatientUsersSeeTheirOwn`.

The induction theorems of the library take an operator as parameter, which the
provers cannot instantiate; where an argument needs induction over numbers or a
finite set it takes a least counterexample instead (`LeastNumber`, `Highest`).

**Only model-checked:**

- liveness (`OrphanedBlockIsFreed`, `BlocksEntryIsSent`, `EverythingArrivesAtTask`,
  `RestingCatchesUp`, `SilentIsNoticed`, the properties of `services_liveness`),
  which needs fairness and ENABLED and is out of the prover's reach;
- `BothSidesMeanTheSame`, `NamesAndListsAreWhole`, over recursive codecs;
- `NetworkTypeOK`, `ServicesTypeOK`: types of all modules of a run; the parts for
  modules with proofs are theorems (`GooseTypeOK`, `LinkTypeCorrect`, ...).

## 6. What could come next

1. An abstract specification of an edit session and of a file transfer, refined by
   SettingGroups and FileTransfer where one client works alone.
2. The codecs with recursive functions in the place of recursive operators, so that
   `BothSidesMeanTheSame` could be argued for values nested to any depth.

## 7. Not modelled

SCL (parsing, resolution, writing, validation), the facade and its builders, the
native GUI, the simulator's program and the fuzzers: sequential transformations,
reexports, thin programs and test material, covered by the repository's own tests
and corpora.  Of the rest, left to the libraries or to unit tests: cryptography
and the parsing of certificates, revocation lists and OCSP answers; the BER of GOOSE and
SV PDUs; floats, times and qualities as values; the texts of errors; sockets and
capture, which are system calls; the desktop's profiles, network scan and trees; the listing of
directories.  `enable_report` of the client is a sequence of writes, each of them
among those the clients of RcbReservation make in any order.
Payloads are numbers or names wherever that tells them apart.
