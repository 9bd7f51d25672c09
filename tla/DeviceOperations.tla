-------------------------- MODULE DeviceOperations --------------------------
(***************************************************************************)
(* The window's operations on devices (src/ui/window.rs): the marker of a  *)
(* row (`pending' of a Device), the notices that change it, cancellation,  *)
(* and the lists and batches that replace rows under a running operation.  *)
(*                                                                         *)
(* The event worker is reduced to what EventWorker shows of it: a window   *)
(* of merged changes, a list after a burst, and Reconnected with a fresh   *)
(* list after a loss.  What an operation does to the rules is RuleCache's. *)
(* The daemon, the bridge, the desktop and the user are external.          *)
(***************************************************************************)
EXTENDS DeviceStore, Sequences

CONSTANTS
    Ops,                \* the operations the user may start
    Policies,           \* the policies the user may ask for
    AllowTarget,        \* Target::Allow
    CHANNEL_CAPACITY,
    MaxDisturbances     \* bound: changes of the daemon that no operation
                        \* asked for, and losses of the worker's connection;
                        \* a second operation counts for all of them

ASSUME DeviceOperationsAssumption ==
    /\ AllowTarget \in Targets
    /\ {AllowTarget, "reject"} \subseteq Policies
    /\ Policies \subseteq Targets \cup {"reject"}
    /\ UnknownTarget \notin Targets /\ "reject" \notin Targets
    /\ None \notin Row /\ None \notin Ids
    /\ None \notin {"Started", "WaitingForAuthentication", "PossiblyNoAgent"}
    /\ CHANNEL_CAPACITY \in Nat /\ CHANNEL_CAPACITY > 0
    /\ MaxDisturbances \in Nat

VARIABLES
    daemon,         \* the devices the daemon has
    version,        \* how often they have changed
    link,           \* the worker's connection: "up" or "lost"
    disturbances,   \* how much has happened, see MaxDisturbances
    pending,        \* the coalescer's window
    outbox,         \* what the worker has still to send
    request,        \* each operation's call, until the daemon executes it
    answered,       \* the operations whose reply is there
    task,           \* the task that waits for it
    cancelling,     \* its cancellation has still to be sent
    notices,        \* how many of its notices were due
    asking,         \* whose reload_devices task waits for the list
    read,           \* the list it has read and not sent
    channel,
    table,          \* State.devices, without the markers
    marker,         \* the `pending' of each row
    ops,            \* State.ops: the device of each operation waited for
    connected,
    confirming,     \* the device the Reject dialog asks about
    offered,        \* Notifier.offered: the device a notification offers
    seen,           \* history: the newest version an applied event was about
    late,           \* history: the last list applied was older than that
    fresh,          \* history: no list was applied since Reconnected
    obscured,       \* history: operations whose row did not exist all the
                    \* time, or that were not alone on it
    revived         \* history: an operation's list was applied since
                    \* ConnectionLost, before the worker's own

daemonVars == <<daemon, version>>
workerVars == <<link, disturbances, pending, outbox>>
taskVars == <<request, answered, task, cancelling, notices, asking, read>>
userVars == <<confirming, offered>>
viewVars == <<table, marker, ops, connected>>
historyVars == <<seen, late, fresh, obscured, revived>>
vars == <<daemonVars, workerVars, taskVars, channel, userVars, viewVars,
          historyVars>>

-----------------------------------------------------------------------------
\* PendingKind, in the order the notices show them.
Stages == <<"Started", "WaitingForAuthentication", "PossiblyNoAgent">>
PendingKind == {Stages[n] : n \in 1..Len(Stages)}

\* A policy is a target, or "reject", which removes the device.
Call == [id: Ids, policy: Policies]

\* A list with the version it was read at, and whose read it was.
List == [devices: Table, version: Nat]

UiEvent ==
    [type: {"DeviceSnapshot"}, list: List, worker: BOOLEAN]
    \cup [type: {"DeviceBatch"}, batch: Window, version: Nat]
    \cup [type: {"ConnectionLost", "Reconnected"}]
    \cup [type: {"OperationFinished"}, op: Ops,
          result: {"answered", "inconclusive", "cancelled"}]

Event(t) == [type |-> t]
Snapshot(list, worker) ==
    [type |-> "DeviceSnapshot", list |-> list, worker |-> worker]
Finished(o, r) == [type |-> "OperationFinished", op |-> o, result |-> r]

\* The window, flushed now.
Batch == [type |-> "DeviceBatch", batch |-> pending, version |-> version]

\* What listDevices answers now.
ListDevices == [devices |-> daemon, version |-> version]

TypeOK ==
    /\ daemon \in Table /\ version \in Nat
    /\ link \in {"up", "lost"} /\ disturbances \in 0..MaxDisturbances
    /\ pending \in Window
    /\ outbox \in Seq(UiEvent) /\ channel \in Seq(UiEvent)
    /\ Len(channel) <= CHANNEL_CAPACITY
    /\ request \in [Ops -> Call \cup {None}] /\ answered \in SUBSET Ops
    /\ task \in [Ops -> {"none", "waiting", "finished", "aborted"}]
    /\ cancelling \in SUBSET Ops
    /\ notices \in [Ops -> 0..2]
    /\ asking \in SUBSET Ops /\ read \in [Ops -> List \cup {None}]
    /\ table \in Table
    /\ marker \in [Ids -> PendingKind \cup {None}]
    /\ ops \in [Ops -> Ids \cup {None}]
    /\ connected \in BOOLEAN
    /\ confirming \in Ids \cup {None}
    /\ offered \in [id: Ids, desc: Descriptions] \cup {None}
    /\ seen \in Nat
    /\ late \in BOOLEAN /\ fresh \in BOOLEAN /\ revived \in BOOLEAN
    /\ obscured \in SUBSET Ops

Init ==
    /\ daemon \in [Ids -> [target: Targets, desc: Descriptions] \cup {None}]
    /\ version = 0
    /\ link = "up" /\ disturbances = 0
    /\ pending = EmptyWindow
    /\ outbox = <<Snapshot(ListDevices, TRUE)>>
    /\ channel = <<>>
    /\ request = [o \in Ops |-> None] /\ answered = {}
    /\ task = [o \in Ops |-> "none"]
    /\ cancelling = {}
    /\ notices = [o \in Ops |-> 0]
    /\ asking = {} /\ read = [o \in Ops |-> None]
    /\ table = EmptyTable
    /\ marker = [i \in Ids |-> None]
    /\ ops = [o \in Ops |-> None]
    /\ connected = FALSE
    /\ confirming = None /\ offered = None
    /\ seen = 0 /\ late = FALSE /\ fresh = TRUE
    /\ obscured = {} /\ revived = FALSE

-----------------------------------------------------------------------------
(* The daemon and the worker.                                              *)

\* A change of the daemon's devices and the signal of it, which the worker
\* merges into its window.
Signalled(signal) ==
    /\ version' = version + 1
    /\ pending' = IF link = "up" THEN Push(pending, signal) ELSE pending

Inserted(i, row) ==
    [kind |-> "Presence", id |-> i, event |-> "Insert",
     target |-> row.target, desc |-> row.desc]
Removed(i) ==
    [kind |-> "Presence", id |-> i, event |-> "Remove",
     target |-> daemon[i].target, desc |-> daemon[i].desc]
Decided(i, t) ==
    [kind |-> "Policy", id |-> i, target |-> t, desc |-> daemon[i].desc]

Disturbance ==
    disturbances < MaxDisturbances /\ disturbances' = disturbances + 1

DaemonChanges ==
    /\ Disturbance
    /\ UNCHANGED <<link, outbox, taskVars, channel, userVars, viewVars,
                   historyVars>>

Plug(i, row) ==
    /\ daemon[i] = None
    /\ daemon' = [daemon EXCEPT ![i] = row]
    /\ Signalled(Inserted(i, row))
    /\ DaemonChanges

Unplug(i) ==
    /\ daemon[i] # None
    /\ daemon' = [daemon EXCEPT ![i] = None]
    /\ Signalled(Removed(i))
    /\ DaemonChanges

\* Another client decides.
Decide(i, t) ==
    /\ daemon[i] # None
    /\ daemon' = [daemon EXCEPT ![i].target = t]
    /\ Signalled(Decided(i, t))
    /\ DaemonChanges

\* The daemon executes a request on the device that has the id now, whether or
\* not anybody still waits.
Answer(o) ==
    /\ request' = [request EXCEPT ![o] = None]
    /\ answered' = IF task[o] = "waiting" THEN answered \cup {o} ELSE answered

DaemonActs(o) ==
    /\ request[o] # None
    /\ LET i == request[o].id
           policy == request[o].policy
       IN  /\ daemon[i] # None
           /\ IF policy = "reject"
              THEN /\ daemon' = [daemon EXCEPT ![i] = None]
                   /\ Signalled(Removed(i))
              ELSE /\ daemon' = [daemon EXCEPT ![i].target = policy]
                   /\ Signalled(Decided(i, policy))
    /\ Answer(o)
    /\ UNCHANGED <<link, disturbances, outbox, task, cancelling, notices,
                   asking, read, channel, userVars, viewVars, historyVars>>

\* Not authorized, or no such device.
DaemonRefuses(o) ==
    /\ request[o] # None
    /\ Answer(o)
    /\ UNCHANGED <<daemonVars, workerVars, task, cancelling, notices, asking,
                   read, channel, userVars, viewVars, historyVars>>

\* flush.  (A burst replaces the window by a list, which acts on the table
\* like those read here after operations.)
Flush ==
    /\ link = "up" /\ outbox = <<>> /\ Changed(pending) # {}
    /\ outbox' = <<Batch>>
    /\ pending' = EmptyWindow
    /\ UNCHANGED <<daemonVars, link, disturbances, taskVars, channel, userVars,
                   viewVars, historyVars>>

\* The session ends; a window is flushed or, if a call failed, dropped.
LinkLost ==
    /\ link = "up" /\ Disturbance
    /\ link' = "lost"
    /\ pending' = EmptyWindow
    /\ \/ outbox' = Append(outbox, Event("ConnectionLost"))
       \/ /\ Changed(pending) # {}
          /\ outbox' = outbox \o <<Batch, Event("ConnectionLost")>>
    /\ UNCHANGED <<daemonVars, taskVars, channel, userVars, viewVars,
                   historyVars>>

LinkBack ==
    /\ link = "lost"
    /\ link' = "up"
    /\ outbox' = outbox \o <<Event("Reconnected"), Snapshot(ListDevices, TRUE)>>
    /\ UNCHANGED <<daemonVars, disturbances, pending, taskVars, channel, userVars,
                   viewVars, historyVars>>

\* Mutant: a sender that does not wait for room.
PutAnyway(event) == channel' = Append(channel, event)

\* tx.send(event).await
Put(event) ==
    /\ Len(channel) < CHANNEL_CAPACITY
    /\ channel' = Append(channel, event)

WorkerSends ==
    /\ outbox # <<>>
    /\ Put(Head(outbox))
    /\ outbox' = Tail(outbox)
    /\ UNCHANGED <<daemonVars, link, disturbances, pending, taskVars, userVars,
                   viewVars, historyVars>>

-----------------------------------------------------------------------------
(* Operations and reads: their tasks (commands.rs, reload_devices).        *)

\* The task's end: the reply, or none, which proves nothing.
Finish(o) ==
    /\ task[o] = "waiting"
    /\ \/ o \in answered /\ Put(Finished(o, "answered"))
       \/ Put(Finished(o, "inconclusive"))
    /\ task' = [task EXCEPT ![o] = "finished"]
    /\ answered' = answered \ {o}
    /\ UNCHANGED <<daemonVars, workerVars, request, cancelling, notices, asking,
                   read, userVars, viewVars, historyVars>>

CancelSends(o) ==
    /\ o \in cancelling
    /\ Put(Finished(o, "cancelled"))
    /\ cancelling' = cancelling \ {o}
    /\ UNCHANGED <<daemonVars, workerVars, request, answered, task, notices,
                   asking, read, userVars, viewVars, historyVars>>

\* list_devices is answered, and that is sent later.
ReadDevices(o) ==
    /\ o \in asking
    /\ asking' = asking \ {o}
    /\ read' = [read EXCEPT ![o] = ListDevices]
    /\ UNCHANGED <<daemonVars, workerVars, request, answered, task, cancelling,
                   notices, channel, userVars, viewVars, historyVars>>

\* It fails, and nothing is sent.
ReadFails(o) ==
    /\ o \in asking
    /\ asking' = asking \ {o}
    /\ UNCHANGED <<daemonVars, workerVars, request, answered, task, cancelling,
                   notices, read, channel, userVars, viewVars, historyVars>>

SendDevices(o) ==
    /\ read[o] # None
    /\ Put(Snapshot(read[o], FALSE))
    /\ read' = [read EXCEPT ![o] = None]
    /\ UNCHANGED <<daemonVars, workerVars, request, answered, task, cancelling,
                   notices, asking, userVars, viewVars, historyVars>>

-----------------------------------------------------------------------------
(* The window.                                                             *)

\* Mutant: a missing row does not keep a marker from being set.
SetPendingAnyway(i, kind) == [marker EXCEPT ![i] = kind]

\* DeviceStore::set_pending
SetPending(i, kind) ==
    [marker EXCEPT ![i] = IF table[i] = None THEN @ ELSE kind]

\* Operations on a device that the window waits for.
On(i) == {o \in Ops : ops[o] = i}

\* start_device_op
StartDeviceOp(o, i, policy) ==
    /\ task[o] = "none"
    /\ IF \A p \in Ops : task[p] = "none" THEN UNCHANGED disturbances
       ELSE disturbances = 0 /\ disturbances' = MaxDisturbances
    /\ ops' = [ops EXCEPT ![o] = i]
    /\ task' = [task EXCEPT ![o] = "waiting"]
    /\ request' = [request EXCEPT ![o] = [id |-> i, policy |-> policy]]
    /\ marker' = SetPending(i, "Started")
    /\ obscured' = obscured \cup (IF On(i) # {} THEN On(i) \cup {o} ELSE {})
                            \cup (IF table[i] = None THEN {o} ELSE {})
    /\ UNCHANGED <<daemonVars, link, pending, outbox, answered, cancelling,
                   notices, asking, read, channel, table, connected, seen, late,
                   fresh, revived>>

\* A row's actions are there while it has no marker, and the list is
\* sensitive while connected.
HasActions(i) == connected /\ table[i] # None /\ marker[i] = None

\* on_device_action: Allow and Block start at once, Reject asks first.
ClickPolicy(o, i, policy) ==
    /\ HasActions(i) /\ confirming = None
    /\ StartDeviceOp(o, i, policy)
    /\ UNCHANGED userVars

ClickReject(i) ==
    /\ \E o \in Ops : task[o] = "none"
    /\ HasActions(i) /\ confirming = None
    /\ confirming' = i
    /\ UNCHANGED <<daemonVars, workerVars, taskVars, channel, offered, viewVars,
                   historyVars>>

ConfirmReject(o) ==
    /\ confirming # None
    /\ StartDeviceOp(o, confirming, "reject")
    /\ confirming' = None
    /\ UNCHANGED offered

DismissReject ==
    /\ confirming # None
    /\ confirming' = None
    /\ UNCHANGED <<daemonVars, workerVars, taskVars, channel, offered, viewVars,
                   historyVars>>

\* Notifier::still_offered
StillOffered ==
    table[offered.id] # None /\ table[offered.id].desc = offered.desc

\* allow_from_notification: only the device that was offered.  The desktop
\* takes the notification away.  (Another click only shows the window.)
AllowFromNotification(o) ==
    /\ offered # None /\ StillOffered
    /\ StartDeviceOp(o, offered.id, AllowTarget)
    /\ offered' = None
    /\ UNCHANGED confirming

\* present: the notification is withdrawn.
Present ==
    /\ offered # None
    /\ offered' = None
    /\ UNCHANGED <<daemonVars, workerVars, taskVars, channel, confirming,
                   viewVars, historyVars>>

\* A notice is due; it changes the row only if the operation still runs.
Notice(o) ==
    /\ ops[o] # None /\ notices[o] < 2
    /\ notices' = [notices EXCEPT ![o] = @ + 1]
    /\ marker' = SetPending(ops[o], Stages[notices[o] + 2])
    /\ UNCHANGED <<daemonVars, workerVars, request, answered, task, cancelling,
                   asking, read, channel, userVars, table, ops, connected,
                   historyVars>>

\* cancel_device_op takes any operation on the row's device, aborts its task
\* unless it is_finished, and reads the devices again.  A task that is just
\* sending may get its result out before the abort takes effect.
Cancel(o) ==
    /\ ops[o] # None
    /\ connected /\ table[ops[o]] # None /\ marker[ops[o]] # None
    /\ ops' = [ops EXCEPT ![o] = None]
    /\ marker' = SetPending(ops[o], None)
    /\ \/ /\ task[o] = "finished"
          /\ UNCHANGED <<task, answered, cancelling>>
       \/ /\ task[o] = "waiting"
          /\ cancelling' = cancelling \cup {o}
          /\ \/ o \in answered /\ UNCHANGED <<task, answered>>
             \/ /\ task' = [task EXCEPT ![o] = "aborted"]
                /\ answered' = answered \ {o}
    /\ asking' = asking \cup {o}
    /\ UNCHANGED <<daemonVars, workerVars, request, notices, read, channel,
                   userVars, table, connected, historyVars>>

\* Mutant: the rows of a list come without markers.
KeepNoMarkers(rows) == [i \in Ids |-> None]

\* DeviceStore::replace and apply: a row that stays keeps its marker, and a new
\* one has none.
KeepMarkers(rows) ==
    [i \in Ids |-> IF table[i] # None /\ rows[i] # None THEN marker[i] ELSE None]

Replace(list) == list.devices

\* Notifier::announce: the notification offers the device if it is alone.
Offer(new, rows) ==
    offered' = IF Cardinality(new) = 1
               THEN LET i == CHOOSE i \in new : TRUE
                    IN  [id |-> i, desc |-> rows[i].desc]
               ELSE None

\* announce_new: rows that were not there and are not allowed; as a toast, which
\* changes nothing, or as a notification.
Announce(rows) ==
    LET new == {i \in Ids : /\ table[i] = None /\ rows[i] # None
                            /\ rows[i].target # AllowTarget}
    IN  UNCHANGED offered \/ (new # {} /\ Offer(new, rows))

\* The rows after an event, and what happens to operations whose row is gone.
Show(rows) ==
    /\ table' = rows
    /\ marker' = KeepMarkers(rows)
    /\ obscured' = obscured \cup
            {o \in Ops : ops[o] # None /\ rows[ops[o]] = None}

Newest(v) == IF v > seen THEN v ELSE seen

ApplySnapshot(list, worker) ==
    /\ Show(Replace(list))
    /\ connected' = TRUE
    /\ IF connected THEN Announce(Replace(list)) ELSE UNCHANGED offered
    /\ seen' = Newest(list.version) /\ late' = (list.version < seen)
    /\ fresh' = FALSE
    /\ revived' = (~worker /\ (revived \/ ~connected))
    /\ UNCHANGED <<ops, asking>>

ApplyNewBatch(batch, v) ==
    /\ Show(ApplyBatch(table, batch))
    /\ Announce(ApplyBatch(table, batch))
    /\ seen' = Newest(v)
    /\ UNCHANGED <<ops, asking, connected, late, fresh, revived>>

\* Mutant: the list stays usable.
ApplyConnectionLostQuietly ==
    /\ revived' = FALSE
    /\ UNCHANGED <<connected, table, marker, ops, asking, offered, seen, late,
                   fresh, obscured>>

ApplyConnectionLost ==
    /\ connected' = FALSE
    /\ revived' = FALSE
    /\ UNCHANGED <<table, marker, ops, asking, offered, seen, late, fresh,
                   obscured>>

ApplyReconnected ==
    /\ Show(EmptyTable)
    /\ fresh' = TRUE
    /\ UNCHANGED <<ops, asking, connected, offered, seen, late, revived>>

\* finish: unknown ids are operations the user cancelled.
ApplyFinished(o, result) ==
    IF ops[o] = None
    THEN UNCHANGED <<table, marker, ops, asking, connected, offered, historyVars>>
    ELSE /\ ops' = [ops EXCEPT ![o] = None]
         /\ marker' = SetPending(ops[o], None)
         /\ asking' = IF result = "inconclusive" THEN asking \cup {o} ELSE asking
         /\ UNCHANGED <<table, connected, offered, historyVars>>

\* MainWindow::apply
Apply ==
    /\ channel # <<>>
    /\ channel' = Tail(channel)
    /\ LET event == Head(channel)
       IN  \/ /\ event.type = "DeviceSnapshot"
              /\ ApplySnapshot(event.list, event.worker)
           \/ /\ event.type = "DeviceBatch"
              /\ ApplyNewBatch(event.batch, event.version)
           \/ event.type = "ConnectionLost" /\ ApplyConnectionLost
           \/ event.type = "Reconnected" /\ ApplyReconnected
           \/ /\ event.type = "OperationFinished"
              /\ ApplyFinished(event.op, event.result)
    /\ UNCHANGED <<daemonVars, workerVars, request, answered, task, cancelling,
                   notices, read, confirming>>

Daemon ==
    \/ \E i \in Ids, row \in [target: Targets, desc: Descriptions] : Plug(i, row)
    \/ \E i \in Ids : Unplug(i)
    \/ \E i \in Ids, t \in Targets : Decide(i, t)
    \/ \E o \in Ops : DaemonActs(o) \/ DaemonRefuses(o)
    \/ LinkLost \/ LinkBack

User ==
    \/ \E o \in Ops, i \in Ids, policy \in Policies \ {"reject"} :
            ClickPolicy(o, i, policy)
    \/ \E i \in Ids : ClickReject(i)
    \/ \E o \in Ops : ConfirmReject(o) \/ AllowFromNotification(o) \/ Cancel(o)
    \/ DismissReject \/ Present

System ==
    \/ Flush \/ WorkerSends \/ Apply
    \/ \E o \in Ops :
        \/ Finish(o) \/ CancelSends(o) \/ Notice(o)
        \/ ReadDevices(o) \/ ReadFails(o) \/ SendDevices(o)

Next == Daemon \/ User \/ System

Spec == Init /\ [][Next]_vars

-----------------------------------------------------------------------------
(* Properties.                                                             *)

\* Nothing is on its way to the window; operations may wait for the daemon.
Delivered ==
    /\ outbox = <<>> /\ channel = <<>>
    /\ answered = {} /\ cancelling = {} /\ asking = {}
    /\ \A o \in Ops : read[o] = None

\* A row that shows a spinner and a Cancel button has an operation to cancel:
\* no marker outlives its operation, through notices that are due late, lists
\* and batches that replace the row, recycled ids and several operations on
\* one device (window.rs start_device_op, finish; device_store.rs replace).
MarkedRowHasOperation ==
    \A i \in Ids : marker[i] # None => table[i] # None /\ On(i) # {}

\* An operation that was always alone on its row, and whose row was always
\* there, is marked on it until it ends: no list, batch or other operation
\* takes its Cancel button away.
LoneOperationIsMarked ==
    \A o \in Ops : ops[o] # None /\ o \notin obscured =>
        table[ops[o]] # None /\ marker[ops[o]] # None

\* "A row with an operation in flight shows a spinner and a Cancel button in
\* place of its actions" (src/ui/device_view.rs).
InFlightIsMarked ==
    \A o \in Ops : ops[o] # None /\ connected /\ table[ops[o]] # None =>
        marker[ops[o]] # None

\* Once everything is delivered, the table is the daemon's, whatever the lists
\* read after cancelled and inconclusive operations raced with, unless an older
\* list was applied after newer news (window.rs cancel_device_op, mod.rs
\* reload_devices).
TableConverges ==
    Delivered /\ link = "up" /\ Changed(pending) = {} /\ ~late => table = daemon

\* Once everything is delivered, the list is usable exactly while the worker is
\* connected, unless an operation's list arrived while it was not.
ConnectionShown == Delivered /\ ~revived => (connected <=> link = "up")

\* "The first snapshot after (re)connecting announces nothing" (window.rs).
FirstSnapshotIsQuiet == [][fresh /\ ~fresh' => offered' = offered]_vars
=============================================================================
