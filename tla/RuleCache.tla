----------------------------- MODULE RuleCache -----------------------------
(***************************************************************************)
(* The interface's copy of the ruleset: when it is marked stale, when it   *)
(* is read again, and what becomes of the answers (src/ui/window.rs,       *)
(* src/ui/mod.rs), together with the operations that change the ruleset    *)
(* and their cancellation (src/dbus/commands.rs).                          *)
(*                                                                         *)
(* The ruleset is its version number.  Every read and every operation is a *)
(* task of its own on another thread; all of them and the event worker     *)
(* write to the one bounded channel the interface applies events from.     *)
(* The event worker is reduced to what EventWorker shows of it: what it    *)
(* hears it reports, and a new connection starts with an invalidation.     *)
(***************************************************************************)
EXTENDS Naturals, FiniteSets, Sequences

CONSTANTS
    Ops,                \* the operations the user may start
    None,               \* an absent value
    CHANNEL_CAPACITY,
    MaxDisturbances,    \* bound: operations started, changes of the ruleset by
                        \* other clients, losses of the worker's connection,
                        \* and calls that fail while it is up
    MaxShows            \* bound: how often the policy page is opened

ASSUME RuleCacheAssumption ==
    /\ IsFiniteSet(Ops)
    /\ CHANNEL_CAPACITY \in Nat /\ CHANNEL_CAPACITY > 0
    /\ MaxDisturbances \in Nat /\ MaxShows \in Nat

VARIABLES
    ruleset,        \* the daemon's ruleset
    link,           \* the worker's connection: "up" or "lost"
    disturbances,   \* how much has happened, see MaxDisturbances
    outbox,         \* what the worker has still to send
    request,        \* each operation's call, and what the daemon made of it
    task,           \* the task that waits for its reply
    cancelling,     \* how many events its cancellation has still to send
    asking,         \* how many reload_rules tasks wait for the rules
    answered,       \* how many have each version of them, and have still to send it
    device_reads,   \* how many reload_devices tasks are in flight
    channel,
    ops,            \* State.ops: the operations the interface waits for, and
                    \* what each of them does
    rules_stale, connected,
    visible,        \* the policy page is the visible one
    shows,          \* how often it was opened
    shown,          \* the rules of the page, None before the first answer
    error,          \* the error of a failed read: "shown" instead of the rules,
                    \* "covered" by them again without another read, or "none"
    due,            \* history: the version the interface has to get to know
    newest          \* history: the newest version an answer applied so far was
                    \* about, or could have been had it not failed

daemonVars == <<ruleset, request, due>>
workerVars == <<link, outbox>>
taskVars == <<task, cancelling, ops>>
readVars == <<asking, answered, device_reads>>
pageVars == <<visible, shows>>
viewVars == <<rules_stale, connected, shown, error, newest>>
vars == <<daemonVars, workerVars, taskVars, readVars, channel, pageVars,
          viewVars, disturbances>>

-----------------------------------------------------------------------------
\* A device decision for good or for the session, or adding or removing a
\* rule.  Only device operations have a Cancel button.
Kinds == {"permanent", "session", "rule"}

Results == {"ok", "refused", "stale", "inconclusive"}
Versions == 0..MaxDisturbances

ASSUME NoneIsAbsent == None \notin Kinds /\ None \notin Results /\ None \notin Versions

UiEvent ==
    [type: {"DeviceSnapshot", "InvalidateRuleCache", "ConnectionLost",
            "Reconnected"}]
    \cup [type: {"OperationFinished"}, op: Ops, result: Results \cup {"cancelled"}]
    \cup [type: {"RuleSnapshot"}, rules: Versions]
    \cup [type: {"RuleSnapshotFailed"}]

Event(t) == [type |-> t]
Finished(o, r) == [type |-> "OperationFinished", op |-> o, result |-> r]

TypeOK ==
    /\ ruleset \in Versions /\ due \in Versions
    /\ disturbances \in 0..MaxDisturbances
    /\ link \in {"up", "lost"}
    /\ outbox \in Seq(UiEvent) /\ channel \in Seq(UiEvent)
    /\ Len(channel) <= CHANNEL_CAPACITY
    /\ request \in [Ops -> Kinds \cup {None, "ok", "refused", "stale"}]
    /\ task \in [Ops -> {"none", "waiting", "finished", "aborted"}]
    /\ cancelling \in [Ops -> 0..2]
    /\ ops \in [Ops -> Kinds \cup {None}]
    /\ asking \in Nat /\ answered \in [Versions -> Nat] /\ device_reads \in Nat
    /\ rules_stale \in BOOLEAN /\ connected \in BOOLEAN
    /\ visible \in BOOLEAN /\ shows \in 0..MaxShows
    /\ shown \in Versions \cup {None} /\ error \in {"none", "shown", "covered"}
    /\ newest \in Versions

Init ==
    /\ ruleset = 0 /\ due = 0
    /\ disturbances = 0
    /\ link = "up"
    /\ outbox = <<Event("DeviceSnapshot"), Event("InvalidateRuleCache")>>
    /\ channel = <<>>
    /\ request = [o \in Ops |-> None]
    /\ task = [o \in Ops |-> "none"]
    /\ cancelling = [o \in Ops |-> 0]
    /\ ops = [o \in Ops |-> None]
    /\ asking = 0 /\ answered = [v \in Versions |-> 0] /\ device_reads = 0
    /\ rules_stale = TRUE /\ connected = FALSE
    /\ visible = FALSE /\ shows = 0
    /\ shown = None /\ error = "none"
    /\ newest = 0

Room == Len(channel) < CHANNEL_CAPACITY
Disturbance ==
    disturbances < MaxDisturbances /\ disturbances' = disturbances + 1
Fails == IF link = "up" THEN Disturbance ELSE UNCHANGED disturbances

\* Mutant: a sender that does not wait for room.
PutAnyway(event) == channel' = Append(channel, event)

\* tx.send(event).await
Put(event) == Room /\ channel' = Append(channel, event)

-----------------------------------------------------------------------------
(* The daemon, other clients and the bus (external).                       *)

\* A change the bridge signals: the worker hears of it, or invalidates when
\* it is connected again.
Signalled ==
    /\ due' = ruleset'
    /\ outbox' = IF link = "up" THEN Append(outbox, Event("InvalidateRuleCache"))
                 ELSE outbox

\* Another client changes the ruleset: permanent device decisions are
\* signalled, editing the rules is not.
Edit(signalled) ==
    /\ Disturbance
    /\ ruleset' = ruleset + 1
    /\ IF signalled THEN Signalled ELSE UNCHANGED <<due, outbox>>
    /\ UNCHANGED <<request, link, taskVars, readVars, channel, pageVars, viewVars>>

\* The daemon's answer is there for the task, if it still waits.
Answer(o, result) ==
    request' = [request EXCEPT ![o] = IF task[o] = "waiting" THEN result ELSE None]

\* The daemon executes a request, whether or not anybody still waits.  A
\* permanent decision is signalled; a rule is due because its operation is
\* still to be finished, with a reply or with the loss of the reply.
DaemonActs(o) ==
    /\ request[o] \in Kinds
    /\ Answer(o, "ok")
    /\ ruleset' = IF request[o] = "session" THEN ruleset ELSE ruleset + 1
    /\ \/ request[o] = "permanent" /\ Signalled
       \/ request[o] = "rule" /\ ops[o] # None /\ due' = ruleset' /\ UNCHANGED outbox
       \/ /\ request[o] = "session" \/ (request[o] = "rule" /\ ops[o] = None)
          /\ UNCHANGED <<due, outbox>>
    /\ UNCHANGED <<link, taskVars, readVars, channel, pageVars, viewVars,
                   disturbances>>

\* A request is refused, or the rule it names has changed (Stale).
DaemonRefuses(o) ==
    /\ request[o] \in Kinds
    /\ \E result \in {"refused", "stale"} :
        /\ result = "stale" => request[o] = "rule"
        /\ Answer(o, result)
    /\ UNCHANGED <<ruleset, due, workerVars, taskVars, readVars, channel,
                   pageVars, viewVars, disturbances>>

LinkLost ==
    /\ link = "up" /\ Disturbance
    /\ link' = "lost"
    /\ outbox' = Append(outbox, Event("ConnectionLost"))
    /\ UNCHANGED <<daemonVars, taskVars, readVars, channel, pageVars, viewVars>>

LinkBack ==
    /\ link = "lost"
    /\ link' = "up"
    /\ outbox' = outbox \o <<Event("Reconnected"), Event("DeviceSnapshot"),
                             Event("InvalidateRuleCache")>>
    /\ UNCHANGED <<daemonVars, taskVars, readVars, channel, pageVars,
                   viewVars, disturbances>>

WorkerSends ==
    /\ outbox # <<>>
    /\ Put(Head(outbox))
    /\ outbox' = Tail(outbox)
    /\ UNCHANGED <<daemonVars, link, taskVars, readVars, pageVars,
                   viewVars, disturbances>>

-----------------------------------------------------------------------------
(* Operations: commands::spawn, the task's await and its send, cancel.     *)

\* The user starts it; the call may fail before it reaches the daemon.
Start(o, kind) ==
    /\ task[o] = "none" /\ Disturbance
    /\ ops' = [ops EXCEPT ![o] = kind]
    /\ task' = [task EXCEPT ![o] = "waiting"]
    /\ \E call \in {kind, "refused"} : request' = [request EXCEPT ![o] = call]
    /\ UNCHANGED <<ruleset, due, workerVars, cancelling, readVars, channel,
                   pageVars, viewVars>>

\* work.await returns the answer, or the loss of the connection before the
\* answer, which proves nothing (Inconclusive).
Answered(o) == request[o] \in {"ok", "refused", "stale"}
Outcome(o, result) ==
    \/ Answered(o) /\ result = request[o] /\ UNCHANGED disturbances
    \/ result = "inconclusive" /\ Fails

\* Mutant: the result is dropped if the channel is full.
FinishOrDrop(o) ==
    /\ task[o] = "waiting"
    /\ \E result \in Results :
        /\ Outcome(o, result)
        /\ Put(Finished(o, result)) \/ (~Room /\ UNCHANGED channel)
    /\ task' = [task EXCEPT ![o] = "finished"]
    /\ request' = [request EXCEPT ![o] = IF Answered(o) THEN None ELSE @]
    /\ UNCHANGED <<ruleset, due, workerVars, cancelling, ops, readVars, pageVars,
                   viewVars>>

\* The end of the task: work.await, and its result sent.
Finish(o) ==
    /\ task[o] = "waiting"
    /\ \E result \in Results : Outcome(o, result) /\ Put(Finished(o, result))
    /\ task' = [task EXCEPT ![o] = "finished"]
    /\ request' = [request EXCEPT ![o] = IF Answered(o) THEN None ELSE @]
    /\ UNCHANGED <<ruleset, due, workerVars, cancelling, ops, readVars, pageVars,
                   viewVars>>

\* cancel_device_op: the operation is forgotten, its task aborted unless it
\* is_finished, and the devices are read again.  A task that is just sending
\* may get its result out before the abort takes effect.
Cancel(o) ==
    /\ ops[o] \in {"permanent", "session"}
    /\ ops' = [ops EXCEPT ![o] = None]
    /\ \/ task[o] = "finished" /\ UNCHANGED <<task, cancelling, request>>
       \/ /\ task[o] = "waiting"
          /\ cancelling' = [cancelling EXCEPT ![o] = 2]
          /\ \/ Answered(o) /\ UNCHANGED <<task, request>>
             \/ /\ task' = [task EXCEPT ![o] = "aborted"]
                /\ request' = [request EXCEPT ![o] = IF Answered(o) THEN None ELSE @]
    /\ device_reads' = device_reads + 1
    /\ UNCHANGED <<ruleset, due, workerVars, asking, answered, channel, pageVars, viewVars,
                   disturbances>>

\* The task cancel spawns: both events, one after the other.
CancelSends(o) ==
    /\ cancelling[o] > 0
    /\ Put(IF cancelling[o] = 2 THEN Finished(o, "cancelled")
                                ELSE Event("InvalidateRuleCache"))
    /\ cancelling' = [cancelling EXCEPT ![o] = @ - 1]
    /\ UNCHANGED <<daemonVars, workerVars, task, ops, readVars, pageVars,
                   viewVars, disturbances>>

-----------------------------------------------------------------------------
(* reload_rules and reload_devices.                                        *)

\* list_rules is answered with the rules of that moment.
ReadRules ==
    /\ asking > 0 /\ link = "up"
    /\ asking' = asking - 1
    /\ answered' = [answered EXCEPT ![ruleset] = @ + 1]
    /\ UNCHANGED <<daemonVars, workerVars, taskVars, device_reads, channel,
                   pageVars, viewVars, disturbances>>

\* The answer is sent; the tasks are not ordered.
SendRules(version) ==
    /\ answered[version] > 0
    /\ answered' = [answered EXCEPT ![version] = @ - 1]
    /\ Put([type |-> "RuleSnapshot", rules |-> version])
    /\ UNCHANGED <<daemonVars, workerVars, taskVars, asking, device_reads,
                   pageVars, viewVars, disturbances>>

\* There is no answer, and that is sent.
SendNoRules ==
    /\ asking > 0 /\ Fails
    /\ asking' = asking - 1
    /\ Put(Event("RuleSnapshotFailed"))
    /\ UNCHANGED <<daemonVars, workerVars, taskVars, answered, device_reads,
                   pageVars, viewVars>>

\* The devices are sent, or nothing if they cannot be read.
FinishDeviceRead ==
    /\ device_reads > 0
    /\ device_reads' = device_reads - 1
    /\ \/ link = "up" /\ Put(Event("DeviceSnapshot")) /\ UNCHANGED disturbances
       \/ Fails /\ UNCHANGED channel
    /\ UNCHANGED <<daemonVars, workerVars, taskVars, asking, answered, pageVars, viewVars>>

-----------------------------------------------------------------------------
(* The interface.                                                          *)

\* reload_policy_if_needed
ReloadIfNeeded(page, conn) ==
    IF page /\ conn /\ rules_stale
    THEN rules_stale' = FALSE /\ asking' = asking + 1
    ELSE UNCHANGED <<rules_stale, asking>>

\* Mutant: the mark alone, until the page is opened again.
MarkStaleOnly(times) ==
    /\ rules_stale' = (rules_stale \/ times > 0)
    /\ UNCHANGED asking

\* mark_rules_stale, so many times in one handler.
MarkStale(times) ==
    IF visible /\ connected /\ times > 0
    THEN /\ rules_stale' = FALSE
         /\ asking' = asking + times
    ELSE /\ rules_stale' = (rules_stale \/ times > 0)
         /\ UNCHANGED asking

\* The user opens or leaves the policy page.
ShowPage ==
    /\ ~visible /\ shows < MaxShows
    /\ visible' = TRUE /\ shows' = shows + 1
    /\ ReloadIfNeeded(TRUE, connected)
    /\ UNCHANGED <<daemonVars, workerVars, taskVars, answered, device_reads, channel,
                   connected, shown, error, newest, disturbances>>

LeavePage ==
    /\ visible
    /\ visible' = FALSE
    /\ UNCHANGED <<daemonVars, workerVars, taskVars, readVars, channel, shows,
                   viewVars, disturbances>>

\* How often `finish' marks the rules as stale for one outcome.
Marks(k, result) ==
    Cardinality({c \in {"inconclusive", "stale", "kind"} :
        \/ c = result
        \/ c = "kind" /\ (k = "rule" \/ (k = "permanent" /\ result = "ok"))})

\* Mutant: the rules shown are checked by another read.
SetRulesAndCheck(rules) == shown' = rules /\ error' = "none" /\ MarkStale(1)

\* PolicyView::set_rules
SetRules(rules) ==
    shown' = rules /\ error' = "none" /\ UNCHANGED <<asking, rules_stale>>

\* Mutant: the rules that could not be read count as read.
FailedForGood == error' = "shown" /\ UNCHANGED <<asking, rules_stale>>

\* RuleSnapshotFailed: read again when the page is opened the next time.
Failed == rules_stale' = TRUE /\ error' = "shown" /\ UNCHANGED asking

\* PolicyView::set_blocks lists the rules it has again, also over an error.
SetBlocks == error' = IF error = "shown" THEN "covered" ELSE error

\* MainWindow::apply
Apply ==
    /\ channel # <<>>
    /\ channel' = Tail(channel)
    /\ LET event == Head(channel)
       IN  \/ /\ event.type = "DeviceSnapshot"
              /\ connected' = TRUE
              /\ ReloadIfNeeded(visible, TRUE)
              /\ UNCHANGED <<ops, device_reads, shown, error, newest>>
           \/ /\ event.type = "InvalidateRuleCache"
              /\ MarkStale(1)
              /\ UNCHANGED <<ops, device_reads, connected, shown, error, newest>>
           \/ /\ event.type = "ConnectionLost"
              /\ connected' = FALSE
              /\ UNCHANGED <<ops, asking, device_reads, rules_stale, shown, error, newest>>
           \/ /\ event.type = "Reconnected"
              /\ rules_stale' = TRUE
              /\ SetBlocks
              /\ UNCHANGED <<ops, asking, device_reads, connected, shown, newest>>
           \/ /\ event.type = "RuleSnapshot"
              /\ SetRules(event.rules)
              /\ newest' = IF newest > event.rules THEN newest ELSE event.rules
              /\ UNCHANGED <<ops, device_reads, connected>>
           \/ /\ event.type = "RuleSnapshotFailed"
              /\ Failed
              /\ newest' = ruleset
              /\ UNCHANGED <<ops, device_reads, connected, shown>>
           \/ /\ event.type = "OperationFinished" /\ ops[event.op] # None
              /\ ops' = [ops EXCEPT ![event.op] = None]
              /\ MarkStale(Marks(ops[event.op], event.result))
              /\ device_reads' = IF event.result = "inconclusive"
                                 THEN device_reads + 1 ELSE device_reads
              /\ UNCHANGED error \/ (event.result = "refused" /\ SetBlocks)
              /\ UNCHANGED <<connected, shown, newest>>
           \/ /\ event.type = "OperationFinished" /\ ops[event.op] = None
              /\ UNCHANGED <<ops, asking, device_reads, viewVars>>
    /\ UNCHANGED <<daemonVars, workerVars, answered, task, cancelling, pageVars, disturbances>>

Environment ==
    \/ \E signalled \in BOOLEAN : Edit(signalled)
    \/ \E o \in Ops : DaemonActs(o) \/ DaemonRefuses(o)
    \/ \E o \in Ops : Cancel(o)
    \/ \E o \in Ops, kind \in Kinds : Start(o, kind)
    \/ \E o \in Ops : ~Answered(o) /\ Finish(o)
    \/ LinkLost \/ ShowPage \/ LeavePage
    \/ LinkBack

System ==
    \/ WorkerSends
    \/ \E o \in Ops : Answered(o) /\ Finish(o)
    \/ \E o \in Ops : CancelSends(o)
    \/ ReadRules \/ SendNoRules
    \/ \E version \in Versions : SendRules(version)
    \/ FinishDeviceRead
    \/ Apply

Next == Environment \/ System

Spec == Init /\ [][Next]_vars

-----------------------------------------------------------------------------
(* Properties.                                                             *)

\* Connected, and nothing is on its way to the interface: at most operations
\* whose request the daemon has not answered are in flight.
AtRest ==
    /\ link = "up" /\ outbox = <<>> /\ channel = <<>>
    /\ asking = 0 /\ answered = [v \in Versions |-> 0] /\ device_reads = 0
    /\ \A o \in Ops : cancelling[o] = 0 /\ ~Answered(o)

\* What is shown is older than what an answer applied before was about.
Overtaken == shown # None /\ shown < newest
Current(version) == shown # None /\ shown >= version

\* At rest, the page shows at least the last change the interface could learn
\* of (signalled, made by an operation of its own, or made while disconnected),
\* or its error, and a hidden page at least knows that its rules are stale:
\* through cancelled and inconclusive operations, failed reads and outages,
\* unless an older answer was sent after a newer one, or a refused write has
\* covered the error (mark_rules_stale, finish, reload_rules, set_blocks).
RulesConverge ==
    AtRest => \/ Overtaken
              \/ Current(due)
              \/ IF visible THEN error # "none" ELSE rules_stale

\* At rest, a page whose last read failed is still marked, so that opening it
\* reads again, however reads and failures interleaved, and even if the error
\* is covered by old rules.
ErrorIsRetried == AtRest /\ error # "none" => rules_stale

\* At rest, the interface waits for no operation whose task is over: each
\* ended by its outcome or by its cancellation, although the channel was full
\* and results were aborted or arrived after the cancellation.
NoOperationForgotten == AtRest => \A o \in Ops : ops[o] # None => task[o] = "waiting"

\* "the policy view becoming visible: opportunistic; covers CLI edits that
\* produced no signal" (docs/architecture.md): whenever the page is opened
\* while connected, the rules are read again.
OpeningRereads ==
    [][~visible /\ visible' /\ connected => asking' > asking]_vars

\* Tasks are scheduled, reads and the daemon's replies arrive, and GTK takes
\* events; what users, other clients and the link do is not required.
FairSpec == Spec /\ WF_vars(System)

\* The interface comes to rest: reads and invalidations do not feed each
\* other, and backpressure blocks nobody for ever.
Settles == <>[](link = "up") => <>[]AtRest
=============================================================================
