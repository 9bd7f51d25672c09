---------------------------- MODULE EventWorker ----------------------------
(***************************************************************************)
(* The event worker (src/dbus/worker.rs) between the daemon's signals and  *)
(* the interface's device table.                                           *)
(*                                                                         *)
(* Each kind of signal has a stream of its own, subscribed to one after    *)
(* the other; select_all takes from any stream that has an item, so order  *)
(* holds within a stream only.  What one handler sends is `outbox': the    *)
(* worker does nothing else until the bounded channel took all of it.      *)
(*                                                                         *)
(* `daemon' is the truth the interface should end up showing.  The daemon, *)
(* the bridge and the bus are external: they do what the code relies on    *)
(* and documents, in any order, up to the bounds MaxChanges and MaxLosses. *)
(***************************************************************************)
EXTENDS DeviceStore, Sequences

CONSTANTS
    ProvisionalTarget,  \* the target an insertion carries before its decision
    CHANNEL_CAPACITY,   \* of the channel to the interface
    MaxChanges,         \* bound: what the daemon does in one behaviour
    MaxLosses           \* bound: how often the bridge or the connection goes

\* A device as the daemon knows it.
DaemonDevice == [target: Targets, desc: Descriptions, decided: BOOLEAN]

ASSUME EventWorkerAssumption ==
    /\ ProvisionalTarget \in Targets
    /\ UnknownTarget \notin Targets
    /\ None \notin Row /\ None \notin DaemonDevice
    /\ None \notin 0..(MAX_LATENCY + 1)
    /\ CHANNEL_CAPACITY \in Nat /\ CHANNEL_CAPACITY > 0
    /\ MaxChanges \in Nat /\ MaxLosses \in Nat

VARIABLES
    daemon,         \* the devices of the daemon, None where there is none
    plugged,        \* descriptions used so far: every insertion is a new one
    changes,        \* how much the daemon has done
    bridge_up,      \* the bridge owns its name and serves calls
    closed,         \* the bus connection was closed
    losses,         \* how often either was lost
    unreported,     \* the ruleset changed and the interface was not told since
    subscribed,     \* how many streams of Subscriptions exist
    streams,        \* the items each stream has buffered
    pc,             \* where `run' is
    ever_connected, \* an earlier run reached `ready'
    pending,        \* the coalescer's window
    age,            \* ticks since the window opened, None when closed
    waited,         \* ticks since the loop last computed its budget
    outbox,         \* what the current handler has still to send
    channel,        \* the channel to the interface
    view,           \* the interface's device table
    decided,        \* history: descriptions whose decision was taken
    gone,           \* history: descriptions whose removal was taken
    disturbed       \* history: how this session's feed was out of order

daemonVars  == <<daemon, plugged, changes, bridge_up, closed, losses>>
workerVars  == <<pc, ever_connected, pending, age, waited>>
historyVars == <<decided, gone, disturbed>>
vars == <<daemonVars, unreported, subscribed, streams, workerVars, outbox,
          channel, view, historyVars>>

-----------------------------------------------------------------------------
\* In the order `subscribe' makes them.
Subscriptions ==
    <<"presence", "changed", "applied", "exceptions", "parameters", "owner">>
Streams == {Subscriptions[n] : n \in 1..Len(Subscriptions)}
DeviceStreams == {"presence", "changed", "applied"}

Incoming ==
    [type: {"Device"}, signal: DeviceSignal, invalidates_rules: BOOLEAN]
    \cup [type: {"Exception", "Parameter", "OwnerLost"}]

UiEvent ==
    [type: {"DeviceSnapshot"}, devices: Table]
    \cup [type: {"DeviceBatch"}, batch: Window]
    \cup [type: {"Reconnected", "ConnectionLost", "ObservationGap",
                 "InvalidateRuleCache", "DaemonException", "ParameterChanged"}]

Event(t) == [type |-> t]
Snapshot(devices) == [type |-> "DeviceSnapshot", devices |-> devices]
Batch(batch) == [type |-> "DeviceBatch", batch |-> batch]

\* listDevices: what the daemon would answer now.
ListDevices ==
    [i \in Ids |-> IF daemon[i] = None THEN None
                   ELSE [target |-> daemon[i].target, desc |-> daemon[i].desc]]

TypeOK ==
    /\ daemon \in [Ids -> DaemonDevice \cup {None}]
    /\ plugged \in SUBSET Descriptions
    /\ changes \in 0..MaxChanges
    /\ bridge_up \in BOOLEAN /\ closed \in BOOLEAN /\ losses \in 0..MaxLosses
    /\ unreported \in BOOLEAN
    /\ subscribed \in 0..Len(Subscriptions)
    /\ streams \in [Streams -> Seq(Incoming)]
    /\ pc \in {"subscribe", "list", "relist", "loop", "lost"}
    /\ ever_connected \in BOOLEAN
    /\ pending \in Window
    /\ age \in 0..(MAX_LATENCY + 1) \cup {None}
    /\ waited \in 0..QUIET_WINDOW
    /\ outbox \in Seq(UiEvent)
    /\ channel \in Seq(UiEvent)
    /\ view \in Table
    /\ decided \in SUBSET Descriptions
    /\ gone \in SUBSET Descriptions
    /\ disturbed \in SUBSET {"gap", "restart", "overtaken", "split"}

Init ==
    /\ daemon = [i \in Ids |-> None]
    /\ plugged = {}
    /\ changes = 0
    /\ bridge_up = TRUE /\ closed = FALSE /\ losses = 0
    /\ unreported = FALSE
    /\ subscribed = 0
    /\ streams = [s \in Streams |-> <<>>]
    /\ pc = "subscribe"
    /\ ever_connected = FALSE
    /\ pending = EmptyWindow
    /\ age = None /\ waited = 0
    /\ outbox = <<>>
    /\ channel = <<>>
    /\ view = EmptyTable
    /\ decided = {} /\ gone = {} /\ disturbed = {}

-----------------------------------------------------------------------------
(* The daemon and the bridge (external).                                   *)

Subscribed == {Subscriptions[n] : n \in 1..subscribed}
Hears(s) == s \in Subscribed /\ bridge_up /\ ~closed

\* A device signal goes to the streams of `on'.  It is lost in the gap when
\* another stream is already listening and one of these is not yet.
Emit(on, signal, permanent) ==
    /\ streams' = [s \in Streams |->
            IF s \in on /\ Hears(s)
            THEN Append(streams[s], [type |-> "Device", signal |-> signal,
                          invalidates_rules |-> permanent /\ s = "changed"])
            ELSE streams[s]]
    /\ disturbed' = IF subscribed > 0 /\ (on \ Subscribed) # {}
                    THEN disturbed \cup {"gap"} ELSE disturbed

DaemonStep ==
    /\ changes < MaxChanges
    /\ changes' = changes + 1
    /\ UNCHANGED <<bridge_up, closed, losses, subscribed, workerVars, outbox,
                   channel, view, decided, gone>>

\* An insertion: present with a provisional target, not decided yet.
Plug(i, d) ==
    /\ daemon[i] = None
    /\ DaemonStep
    /\ plugged' = plugged \cup {d}
    /\ daemon' = [daemon EXCEPT ![i] = [target |-> ProvisionalTarget,
                                        desc |-> d, decided |-> FALSE]]
    /\ Emit({"presence"}, [kind |-> "Presence", id |-> i, event |-> "Insert",
                           target |-> ProvisionalTarget, desc |-> d], FALSE)
    /\ UNCHANGED unreported

\* Its attributes change before the decision.
Update(i) ==
    /\ daemon[i] # None /\ ~daemon[i].decided
    /\ DaemonStep
    /\ Emit({"presence"}, [kind |-> "Presence", id |-> i, event |-> "Update",
                           target |-> ProvisionalTarget,
                           desc |-> daemon[i].desc], FALSE)
    /\ UNCHANGED <<daemon, plugged, unreported>>

\* DevicePolicyApplied: the rules decide.
Decide(i, t) ==
    /\ daemon[i] # None /\ ~daemon[i].decided
    /\ DaemonStep
    /\ daemon' = [daemon EXCEPT ![i].target = t, ![i].decided = TRUE]
    /\ Emit({"applied"}, [kind |-> "Policy", id |-> i, target |-> t,
                          desc |-> daemon[i].desc], FALSE)
    /\ UNCHANGED <<plugged, unreported>>

\* A client applies a policy: DevicePolicyChanged, with a rule id when the
\* change is permanent, and DevicePolicyApplied.
ChangePolicy(i, t, permanent) ==
    /\ daemon[i] # None /\ daemon[i].decided
    /\ DaemonStep
    /\ daemon' = [daemon EXCEPT ![i].target = t]
    /\ Emit({"changed", "applied"}, [kind |-> "Policy", id |-> i, target |-> t,
                                     desc |-> daemon[i].desc], permanent)
    /\ unreported' = (unreported \/ permanent)
    /\ UNCHANGED plugged

Unplug(i) ==
    /\ daemon[i] # None
    /\ DaemonStep
    /\ daemon' = [daemon EXCEPT ![i] = None]
    /\ Emit({"presence"}, [kind |-> "Presence", id |-> i, event |-> "Remove",
                           target |-> daemon[i].target,
                           desc |-> daemon[i].desc], FALSE)
    /\ UNCHANGED <<plugged, unreported>>

\* ExceptionMessage: the ruleset may have changed with it.
RaiseException ==
    /\ DaemonStep
    /\ unreported' = TRUE
    /\ streams' = IF Hears("exceptions")
                  THEN [streams EXCEPT !["exceptions"] =
                                           Append(@, Event("Exception"))]
                  ELSE streams
    /\ UNCHANGED <<daemon, plugged, disturbed>>

ChangeParameter ==
    /\ DaemonStep
    /\ streams' = IF Hears("parameters")
                  THEN [streams EXCEPT !["parameters"] =
                                           Append(@, Event("Parameter"))]
                  ELSE streams
    /\ UNCHANGED <<daemon, plugged, unreported, disturbed>>

\* The bridge leaves the bus; the daemon lives on unheard.  Nobody notices
\* while streams exist and the owner is not yet watched.
BridgeLost ==
    /\ bridge_up /\ losses < MaxLosses
    /\ bridge_up' = FALSE
    /\ losses' = losses + 1
    /\ streams' = IF Hears("owner")
                  THEN [streams EXCEPT !["owner"] = Append(@, Event("OwnerLost"))]
                  ELSE streams
    /\ disturbed' = IF Subscribed # {} /\ "owner" \notin Subscribed
                    THEN disturbed \cup {"restart"} ELSE disturbed
    /\ UNCHANGED <<daemon, plugged, changes, closed, unreported, subscribed,
                   workerVars, outbox, channel, view, decided, gone>>

BridgeBack ==
    /\ ~bridge_up
    /\ bridge_up' = TRUE
    /\ UNCHANGED <<daemon, plugged, changes, closed, losses, unreported,
                   subscribed, streams, workerVars, outbox, channel, view,
                   historyVars>>

ConnectionClosed ==
    /\ ~closed /\ losses < MaxLosses /\ pc # "lost"
    /\ closed' = TRUE
    /\ losses' = losses + 1
    /\ UNCHANGED <<daemon, plugged, changes, bridge_up, unreported, subscribed,
                   streams, workerVars, outbox, channel, view, historyVars>>

-----------------------------------------------------------------------------
(* The worker.                                                             *)

\* send().await: one event into the channel, once it has room.
Send ==
    /\ outbox # <<>>
    /\ Len(channel) < CHANNEL_CAPACITY
    /\ channel' = Append(channel, Head(outbox))
    /\ outbox' = Tail(outbox)
    /\ waited' = 0
    /\ UNCHANGED <<daemonVars, unreported, subscribed, streams, pc,
                   ever_connected, pending, age, view, historyVars>>

\* Nothing left to send: the handler is past its awaits.
Idle == outbox = <<>>

\* subscribe: one more stream, a round trip to the bus.
Subscribe ==
    /\ pc = "subscribe" /\ Idle /\ ~closed
    /\ subscribed' = subscribed + 1
    /\ pc' = IF subscribed' = Len(Subscriptions) THEN "list" ELSE pc
    /\ UNCHANGED <<daemonVars, unreported, streams, ever_connected, pending,
                   age, waited, outbox, channel, view, historyVars>>

\* The first listDevices is answered: `ready', and what a fresh connection
\* tells the interface.
Start ==
    /\ pc = "list" /\ Idle /\ bridge_up /\ ~closed
    /\ ever_connected' = TRUE
    /\ outbox' = (IF ever_connected THEN <<Event("Reconnected")>> ELSE <<>>)
                 \o <<Snapshot(ListDevices), Event("InvalidateRuleCache")>>
    /\ pc' = "loop"
    /\ waited' = 0
    /\ UNCHANGED <<daemonVars, unreported, subscribed, streams, pending, age,
                   channel, view, historyVars>>

\* `snapshot' after a burst: listDevices is answered.
Resync ==
    /\ pc = "relist" /\ Idle /\ bridge_up /\ ~closed
    /\ outbox' = <<Snapshot(ListDevices)>>
    /\ pc' = "loop"
    /\ waited' = 0
    /\ UNCHANGED <<daemonVars, unreported, subscribed, streams, ever_connected,
                   pending, age, channel, view, historyVars>>

\* flush: nothing is sent for an empty window.
Flush == IF Changed(pending) = {} THEN <<>> ELSE <<Batch(pending)>>

\* The run ends with WorkerExit::Lost; the supervisor reports it.
Exit(sending) ==
    /\ outbox' = sending \o <<Event("ConnectionLost")>>
    /\ pc' = "lost"
    /\ pending' = EmptyWindow /\ age' = None /\ waited' = 0

\* A subscription or a call fails: nothing is flushed.
CallFails ==
    /\ pc \in {"subscribe", "list", "relist"} /\ Idle
    /\ closed \/ (pc # "subscribe" /\ ~bridge_up)
    /\ Exit(<<>>)
    /\ UNCHANGED <<daemonVars, unreported, subscribed, streams, ever_connected,
                   channel, view, historyVars>>

SignalsReady == \E s \in Streams : streams[s] # <<>>

\* The order signals of one device really had, against the order they are
\* taken in: a policy signal taken after its device's removal, or a presence
\* signal taken when its device's decision has left the window.
Disturbance(signal) ==
    IF signal.kind = "Policy"
    THEN IF signal.desc \in gone THEN {"overtaken"} ELSE {}
    ELSE IF /\ signal.event # "Remove"
            /\ signal.desc \in decided
            /\ ~(/\ pending[signal.id] # None
                 /\ pending[signal.id].policy_decided)
         THEN {"split"} ELSE {}

TakeHistory(signal) ==
    /\ decided' = IF signal.kind = "Policy"
                  THEN decided \cup {signal.desc} ELSE decided
    /\ gone' = IF signal.kind = "Presence" /\ signal.event = "Remove"
               THEN gone \cup {signal.desc} ELSE gone
    /\ disturbed' = disturbed \cup Disturbance(signal)

\* Mutant: a permanent change does not invalidate the rules.
InvalidationNone(item) == <<>>

Invalidation(item) ==
    IF item.invalidates_rules THEN <<Event("InvalidateRuleCache")>> ELSE <<>>

\* Mutant: a signal does not open the window it is merged into.
OpenWindowNever == age

\* window_start.get_or_insert(now)
OpenWindow == IF age = None THEN 0 ELSE age

\* Incoming::Device: merged into the window; past the threshold the window
\* is dropped and a snapshot asked for.
TakeDevice(s) ==
    /\ pc = "loop" /\ Idle
    /\ streams[s] # <<>> /\ Head(streams[s]).type = "Device"
    /\ LET item   == Head(streams[s])
           merged == Push(pending, item.signal)
       IN  /\ streams' = [streams EXCEPT ![s] = Tail(@)]
           /\ IF NeedsResync(merged)
              THEN /\ pending' = EmptyWindow /\ age' = None
                   /\ outbox' = Invalidation(item) \o <<Event("ObservationGap")>>
                   /\ pc' = "relist"
              ELSE /\ pending' = merged /\ age' = OpenWindow
                   /\ outbox' = Invalidation(item)
                   /\ UNCHANGED pc
           /\ TakeHistory(item.signal)
    /\ waited' = 0
    /\ UNCHANGED <<daemonVars, unreported, subscribed, ever_connected, channel,
                   view>>

\* Incoming::Exception and Incoming::Parameter: passed on, out of band.
TakeOther(s, type, sending) ==
    /\ pc = "loop" /\ Idle
    /\ streams[s] # <<>> /\ Head(streams[s]).type = type
    /\ streams' = [streams EXCEPT ![s] = Tail(@)]
    /\ outbox' = sending
    /\ waited' = 0
    /\ UNCHANGED <<daemonVars, unreported, subscribed, pc, ever_connected,
                   pending, age, channel, view, historyVars>>

TakeException ==
    TakeOther("exceptions", "Exception",
              <<Event("DaemonException"), Event("InvalidateRuleCache")>>)

TakeParameter ==
    TakeOther("parameters", "Parameter", <<Event("ParameterChanged")>>)

\* Incoming::OwnerLost, or the end of the closed connection's streams.
Lose ==
    /\ pc = "loop" /\ Idle
    /\ \/ streams["owner"] # <<>>
       \/ closed /\ ~SignalsReady
    /\ Exit(Flush)
    /\ UNCHANGED <<daemonVars, unreported, subscribed, streams, ever_connected,
                   channel, view, historyVars>>

\* The timeout armed at the top of the loop has run out.
TimerExpired == age # None /\ waited >= Budget(age - waited)

\* timeout(budget, next) gives up: only if no item was ready.
Timeout ==
    /\ pc = "loop" /\ Idle /\ ~SignalsReady
    /\ TimerExpired
    /\ outbox' = Flush
    /\ pending' = EmptyWindow /\ age' = None /\ waited' = 0
    /\ UNCHANGED <<daemonVars, unreported, subscribed, streams, pc,
                   ever_connected, channel, view, historyVars>>

\* The supervisor runs the worker again, on a new connection.
Restart ==
    /\ pc = "lost" /\ Idle
    /\ pc' = "subscribe"
    /\ subscribed' = 0
    /\ streams' = [s \in Streams |-> <<>>]
    /\ closed' = FALSE
    /\ decided' = {} /\ gone' = {} /\ disturbed' = {}
    /\ UNCHANGED <<daemon, plugged, changes, bridge_up, losses, unreported,
                   ever_connected, pending, age, waited, outbox, channel, view>>

-----------------------------------------------------------------------------
\* The interface takes one event (MainWindow::apply), here only for the
\* device table and the knowledge that the ruleset may have changed.
Apply ==
    /\ channel # <<>>
    /\ channel' = Tail(channel)
    /\ LET event == Head(channel)
       IN  /\ view' = CASE event.type = "DeviceSnapshot" -> event.devices
                        [] event.type = "DeviceBatch" ->
                                ApplyBatch(view, event.batch)
                        [] event.type = "Reconnected" -> EmptyTable
                        [] OTHER -> view
           /\ unreported' = (unreported /\ event.type # "InvalidateRuleCache")
    /\ UNCHANGED <<daemonVars, subscribed, streams, workerVars, outbox,
                   historyVars>>

\* Time passes while a window is open, but not past a timeout that is due.
Tick ==
    /\ age # None
    /\ ~(pc = "loop" /\ Idle /\ ~SignalsReady /\ TimerExpired)
    /\ ~(waited = QUIET_WINDOW /\ age = MAX_LATENCY + 1)
    /\ age' = IF age <= MAX_LATENCY THEN age + 1 ELSE age
    /\ waited' = IF Idle /\ waited < QUIET_WINDOW THEN waited + 1 ELSE waited
    /\ UNCHANGED <<daemonVars, unreported, subscribed, streams, pc,
                   ever_connected, pending, outbox, channel, view, historyVars>>

Daemon ==
    \/ \E i \in Ids :
        \/ /\ plugged # Descriptions
           /\ Plug(i, CHOOSE d \in Descriptions : d \notin plugged)
        \/ Update(i)
        \/ \E t \in Targets : Decide(i, t)
        \/ \E t \in Targets, permanent \in BOOLEAN :
                ChangePolicy(i, t, permanent)
        \/ Unplug(i)
    \/ RaiseException
    \/ ChangeParameter
    \/ BridgeLost
    \/ ConnectionClosed

Worker ==
    \/ Send \/ Subscribe \/ Start \/ Resync \/ CallFails
    \/ \E s \in DeviceStreams : TakeDevice(s)
    \/ TakeException \/ TakeParameter \/ Lose \/ Timeout \/ Restart

Next == Daemon \/ BridgeBack \/ Worker \/ Apply \/ Tick

Spec == Init /\ [][Next]_vars

-----------------------------------------------------------------------------
(* Properties.                                                             *)

\* Everything the daemon did has reached the table: connected, and nothing is
\* buffered, pending, being sent or waiting in the channel.
Quiescent ==
    /\ pc = "loop" /\ bridge_up /\ ~closed
    /\ ~SignalsReady /\ Changed(pending) = {} /\ Idle /\ channel = <<>>

\* Once everything has been delivered, the table has a row for every device
\* the daemon has: whatever order the streams are taken in, through recycled
\* ids, burst resynchronizations and reconnections, no insertion is lost,
\* unless the bridge restarted unnoticed between the subscriptions
\* (worker.rs run, coalesce.rs push, device_store.rs apply).
NoDeviceMissing ==
    Quiescent /\ "restart" \notin disturbed =>
        \A i \in Ids : daemon[i] # None => view[i] # None

\* Once everything has been delivered, the table shows exactly the daemon's
\* devices with the targets it decided, unless a signal of this session was
\* lost between two subscriptions or two streams overtook each other around a
\* removal or a resynchronization (the merge rules of coalesce.rs).
TargetsConverge ==
    Quiescent /\ disturbed = {} => view = ListDevices

\* "device state is fully described by the signals" (docs/architecture.md):
\* once everything has been delivered the table is the daemon's, without the
\* exceptions TargetsConverge makes.
DisplayIsDaemons == Quiescent => view = ListDevices

\* Once everything has been delivered, the interface was told to read the
\* rules again after the last change of the ruleset the bridge could report:
\* a permanent decision, an exception, or anything while disconnected.
RulesetChangeReported == Quiescent => ~unreported

\* A window is open exactly while changes are pending: the loop never waits
\* without a deadline on changes it holds, nor flushes a window it dropped
\* (worker.rs run, coalesce.rs window_start).
PendingHasDeadline == age = None <=> Changed(pending) = {}

\* Time never passes on a window older than MAX_LATENCY while the loop waits
\* with no signal to take: the flush comes first (coalesce.rs budget).
LatencyCeiling ==
    [][Tick => age < MAX_LATENCY \/ SignalsReady \/ pc # "loop" \/ ~Idle]_vars

\* The worker is scheduled, the daemon answers, time passes, and GTK takes
\* events; what the daemon and the bridge do is never required to happen.
Fairness ==
    /\ WF_vars(Worker) /\ WF_vars(Apply) /\ WF_vars(Tick)

FairSpec == Spec /\ Fairness

\* If the bridge and the connection stay up, everything the daemon did reaches
\* the table: signals, windows, sends under backpressure, resynchronizations
\* and reconnections all drain (worker.rs run, supervisor.rs supervise).
Settles == <>[](bridge_up /\ ~closed) => <>[]Quiescent
=============================================================================
