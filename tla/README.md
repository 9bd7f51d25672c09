# Formal models of USBGuard GUI

TLA+ specifications of the parts of this program whose correctness depends on
order: signals, tasks, timers, reconnections and events that cross from the
Tokio side to GTK. TLC checks them on small instances; TLAPS proves some of the
results for every value of the constants. `PROJECT.json` maps each definition to
the source lines it models, and lists runs, mutants, hazards, findings and
theorems. Paths below are relative to the repository root.

Contents: [the system](#the-system), [modules](#modules), [runs](#runs),
[findings](#findings), [fairness](#fairness), [proofs](#proofs),
[what is not modelled](#what-is-not-modelled), [next](#next).

## The system

The program is a GTK client of USBGuard's D-Bus bridge. A Tokio runtime talks to
the bus; the GTK thread owns all interface state and learns everything through
one bounded channel of `UiEvent`s (`src/model/event.rs`).

| Component | State it keeps | Operations | Talks to |
|---|---|---|---|
| Supervisor, `dbus/supervisor.rs` | backoff, `ever_connected` | `supervise`, `wait_for_bridge` | runs the worker; sends `ConnectionLost` |
| Event worker, `dbus/worker.rs` | six signal streams, the loop | `subscribe`, `run`, `flush`, `snapshot` | daemon signals in, `UiEvent`s out |
| Coalescer, `dbus/coalesce.rs` | the pending window, its age | `push`, `budget`, `needs_resync`, `take`, `clear` | owned by the worker |
| Device table, `device_store.rs` | a row per device id, with an operation marker | `replace`, `apply`, `set_pending`, `clear` | owned by the window |
| Window, `ui/window.rs` | table, `rules_stale`, `connected`, `access`, `denials`, `ops`, history | `apply` and the user's actions | starts operations and reads |
| Operations, `dbus/commands.rs` | a task per operation | `spawn`, `cancel`, `stage` | sends `OperationFinished` |
| Reads, `ui/mod.rs` | none | `reload_rules`, `reload_devices`, `reload_parameters` | a task each; send their answer |
| Rule client, `dbus/client.rs` | none | `append_rule_after`, `remove_rule`, `remove_rule_at`, `apply_device_policy`, `set_parameter` | the daemon |
| Errors and diagnostics, `dbus/errors.rs`, `dbus/diagnostics.rs` | none | `classify`, `mutation_error`, `probe` | the access state of the window |
| Notifier, `ui/notify.rs` | the one offered device | `announce`, `still_offered`, `withdraw` | the window, the desktop |
| Policy page, `ui/policy_view.rs` | rules, parameter rows, blocks | `set_rules`, `set_parameter`, `set_blocks` | the window |
| Rule dialog, `ui/rule_dialog.rs` | the form, the text, the current rule | `recompute`, `build_guided`, Add | the rule language; the window |
| Preview, `ui/rule_preview.rs` | revision, request, closed | `activate`, `cancel`, `close` | the rule client |
| Tray, `ui/tray.rs` | a connection and an item | `start`, `update`, `stop` | the desktop's watcher |
| History, `ui/history.rs` | a capped log | `record_*`, `encode`, `from_setting` | the window |
| Rule language, `rules/` | none | tokenize, parse, render | the dialogs, the client, the table |

What is hard:

- *Order.* The six signal streams are merged without an order between them;
  every read, operation and cancellation is a task whose answer arrives at any
  time; the worker subscribes in several round trips while the daemon goes on.
- *Failure.* The bridge leaves and returns, owns its name without answering, or
  restarts unnoticed; the connection closes; a reply is lost and proves nothing.
- *Limits.* The channel is bounded, and handlers wait for room in the middle of
  a sequence of events; a burst drops the window and asks for a list.
- *Time.* A window must be flushed before its ceiling however signals arrive;
  the backoff must double and start over at the right moments.

What makes each component correct:

- worker, coalescer, table: at rest the table is the daemon's; no device is
  missing; no change waits without a deadline; every change of the ruleset that
  could be heard is reported;
- supervisor: connection events follow a fixed protocol; a failing bridge is
  spared and a returning one is found;
- rule cache and operations: the page converges to what the interface could
  learn; failed reads are retried; no operation is waited for after its end;
- device operations: an operation in flight is visible and cancellable on the
  row of its device, and on no other;
- rule client: nothing is removed or anchored to but the rule the user chose,
  and what the user is told of a write is true;
- access state and parameters: the indicator and the banner tell the truth, what was
  refused stays disabled, a row shows the daemon's value or what is being asked;
- rule language: a rule that was accepted survives its rendering, and no nesting
  exceeds the bound;
- rule dialog and preview: what is added is what was shown and checked; devices are
  shown only for the rule that is being edited;
- notifier: a click allows the device that was offered or none.

`PROJECT.json` lists the hazards behind these, each at its line.

## Modules

`DeviceStore` extends `Coalescer`, `EventWorker` and `DeviceOperations` extend
`DeviceStore`, `Supervisor` instantiates `ConnectionStatus` under a refinement mapping,
`RuleClient` and `Session` extend `DBusErrors`, and `RuleDialog` extends `RuleLanguage`.
Where two modules meet at the same code, each has the part its properties need:
`MainWindow::apply` and `finish` are in `EventWorker` and `DeviceOperations` for the
table, in `RuleCache` for the rules, in `Session` for the access state and the parameters.

### Coalescer, DeviceStore

Operators only. `pending` is a function from ids to entries, `None` where the id
has no pending change; `Push` is `Coalescer::push` with its three merge rules and
`LiveEntry`, which restarts an id that was removed in the same window. `Budget` is
the timeout of one turn of the loop. `ApplyBatch` is `DeviceStore::apply`. A rule
text with its attributes is one `Descriptions` value, i.e. which physical device
an id stands for. That abstraction loses how attribute maps accumulate key by
key, and that an empty rule text is skipped.

### EventWorker

From the daemon to the table. `daemon` is the truth; the actions from `Plug` to
`ConnectionClosed` are external and do what the daemon and the bridge document:
an insertion is signalled with a provisional target, its decision follows as
`DevicePolicyApplied`, a client's decision gives `DevicePolicyChanged` and
`DevicePolicyApplied`.

| Model | Code |
|---|---|
| `Subscribe`, `Streams` | one `receive_*().await` of `subscribe` each; `select_all` is the free choice of a stream in `TakeDevice` |
| `outbox`, `Send` | the `send(...).await`s of the handler that is running: nothing else happens in the worker until the channel took them |
| `Start`, `CallFails`, `Resync` | the calls of `listDevices` |
| `age`, `waited`, `Timeout` | `window_start` and `timeout(budget, next)`, whose timer fires only when no signal is ready |
| `Lose`, `Exit`, `Restart` | `OwnerLost`, the end of the streams, and the supervisor's next run, without its waits |
| `Apply` | `MainWindow::apply` for the table and `InvalidateRuleCache` only |

`unreported`, `decided`, `gone` and `disturbed` are history variables. `disturbed`
names the ways in which the feed of the current session was out of order: `gap` (a
signal was emitted to a stream that was not yet subscribed while another was),
`overtaken` (a policy signal taken after its device's removal), `split` (a presence
signal taken after the window with its decision was flushed or dropped) and
`restart` (the bridge went while its name was not yet watched).

### Supervisor, ConnectionStatus

`Supervisor` is `supervise` and `wait_for_bridge`, and of the worker the steps at
which a run can end. The three states of the bridge separate owning the name from
serving. Clocks: `elapsed` since `retry_started`, `rested` in the sleep after a broken
watch; both stop at `Horizon`, beyond every value they are compared with, so that
the state space is finite for finite constants. `ConnectionStatus` is what a reader
of the channel may rely on: `Reconnected` only after a list was once delivered and
lost, followed at once by a fresh list. `Conclusion` is the refinement mapping.
A watch that cannot be set up, whose query fails or whose stream ends (`WatchEnds`)
becomes a plain sleep. History variables: `gained` (how long ago the name was first
gained in this wait or sleep), `heard` (when the watch had its first gain once
`name_has_owner` had found no owner) and `failures` (attempts in a row that read no list).

### RuleCache

The rules page, the reads behind it and the operations that change rules. The
ruleset is a version number, the page its version and whether a failed read is `shown`
in its place or `covered` again: `set_blocks` lists the old rules over the error
(`SetBlocks`). `Apply` is one event of `MainWindow::apply`; `MarkStale(n)`
is `mark_rules_stale` called `n` times in one handler (`finish` calls it up to
twice). `asking` and `answered` count the `reload_rules` tasks, `device_reads` the
`reload_devices` tasks. `Cancel` models the race in `tokio::JoinHandle::abort`: a task
that is just sending its result may still send it. The event worker is reduced to
what `EventWorker` shows of it: it reports what it hears, and a new session starts
with `Reconnected`, a list and an invalidation. `due` is the history of the last
version the interface could learn of: a signalled change, a rule change of an
operation that is still waited for, anything a new session invalidates. `newest`
recognizes an answer that arrives after a newer one.

### DeviceOperations

Operations on devices and the rows that show them. `table` and `marker` are the two
halves of `DeviceStore`: the rows, and the `pending` of each row. Every event that
replaces rows goes through `Show`, which keeps the markers of rows that stay
(`replace` and `apply` do).

| Model | Code |
|---|---|
| `ClickPolicy`, `ClickReject`, `ConfirmReject`, `DismissReject` | `on_device_action`; the dialog captures the id and is answered whenever the user likes |
| `AllowFromNotification`, `StillOffered`, `Offer` | the notification's button, `still_offered`, `Notifier::announce` |
| `StartDeviceOp`, `request`, `task`, `ops` | `start_device_op`: the call, the task that waits for it, `State.ops` |
| `Notice` | the two `timeout_add_local_once` closures, at any time after the start |
| `Cancel`, `CancelSends` | `cancel_device_op` and `PendingOperation::cancel`, with the race of `RuleCache` |
| `asking`, `read`, `SendDevices` | a `reload_devices` task: the list is read at one moment and sent at a later one |
| `ApplyFinished` and the other `Apply*` | the branches of `MainWindow::apply` |

The daemon executes a request on whatever device holds the id by then. The worker
is reduced to a window that is flushed at some time, and to a loss after which
`Reconnected` comes with a fresh list; `EventWorker` has the rest. History
variables: `seen` and `late` (an older list was applied after newer news), `fresh`
(no list since `Reconnected`), `revived` (an operation's list was applied between
`ConnectionLost` and the worker's own), and `obscured`, the operations that were
not alone on their row or whose row was away for a while.

### DBusErrors, RuleClient

`DBusErrors` has operators only: `classify`, `to_app_error` and `mutation_error`, of an
error that is its D-Bus name and the phrases its message contains. `RuleClient` is the
life of an operation on the rules, from the handle the user points at to the message
that is shown.

| Model | Code |
|---|---|
| `Edit`, `DaemonRemoves`, `DaemonAppends` | external: other clients, and the daemon's execution of `removeRule` and `appendRule` by the id that is valid then; ids are handed out again |
| `SetRules` | the page's list, read at any time, also under an open dialog |
| `StartRemove`, `StartAppend`, `AskWhichRule` | `on_policy_action` and its dialogs, "Which rule?" among them |
| `ListRules` with `RemoveRule`, `RemoveRuleAt`, `AppendRuleAfter` | the clients of that name: `listRules`, `resolve`, and at most one write |
| `ListFails`, `Succeed`, `WriteFails` | what the call returns; a failure of the transport leaves the request on its way or not, executed or not |
| `told` | the branch of `MainWindow::finish` and `report` |

Between `listRules` and the write, the daemon offers no condition: an edit in that moment
is recorded in `changed`, and the properties name it as their exception
(`docs/architecture.md` §6.4 accepts it). Equal rules are told apart by position and id.

### RuleLanguage, RuleDialog

`RuleLanguage` is the lexer, the parser, the renderer and the builder of the guided form as
operators. A text is a sequence of glyphs: a delimiter, an escape letter or a control
character is one, and so is a keyword or a run of hexadecimal digits, as no rule looks
inside those. `Then` is the question mark of the code. What a text costs the code in
bytes (`MAX_INPUT_LEN`) is counted in glyphs. The loops of the code are recursive functions of
the place in the input, so that theorems can speak of them; a nested query is read by `Nested`,
the parser as a function of the text.

`RuleDialog` is the new-rule dialog with its preview. `Recompute` is `recompute`: the rule of
the visible mode, checked by rendering and parsing it, replaces `current`. `SwitchMode`
includes the `changed` signal that `set_text` emits at once. A preview is a local future
(`waiting`) with the revision it was started in; `Reply` is its end, at any time, also
after its task was aborted. A daemon's answer is known by its query.

### Session

What the window may do and says so: diagnosis, indicator, banner, refused writes, and the row
of a runtime parameter. `w` is the window, a record; each widget method is an operator from
a window to the window after the call, so that a handler reads as in the code
(`ReloadPolicyIfNeeded(ApplySnapshot(w))`). Probes, reads and operations are tasks with a
connection of their own: `ApplyDiagnosis`, `ApplyRead`, `ApplyList`, `ApplyOperation` and
`ApplyWrite` apply their answers in any order, and a probe has found any condition, for
however short the bridge was in it. Only the worker's events are a sequence (`feed`); a
parameter signal the worker has not read is lost with its connection (`LinkLost`).
History variables: `heard` (the newest version applied), `failed` (a read failed
since one was started last), `late` (a diagnosis "unreachable" was applied while the device list was live) and `revived` (a list read for an
operation made the window connected, and neither a loss nor a list of the worker was applied since).
One of the two parameters is modelled, since they differ in their values only; the
channel has no capacity here (`RuleCache` and `DeviceOperations` have it).

`MC*.tla` give the numeric constants small values, and `MCRuleDialog` its texts.

## Runs

| Run | Shows | Size |
|---|---|---|
| `event_worker` | `NoDeviceMissing`, `TargetsConverge`, `RulesetChangeReported`, `PendingHasDeadline`, `LatencyCeiling`, `Settles` | 570 000 states |
| `event_worker_display` | violated: `DisplayIsDaemons` | |
| `supervisor` | `BackoffDoubles`, `KeepsPromise`, `FailingServiceWaits`, `HeardAppearanceWakes`, `Recovers` | 69 000 states |
| `supervisor_appearance` | violated: `AppearanceWakes` | |
| `rule_cache` | `RulesConverge`, `ErrorIsRetried`, `NoOperationForgotten`, `Settles` | 1 376 000 states |
| `rule_cache_opening` | violated: `OpeningRereads` | |
| `device_operations` | `MarkedRowHasOperation`, `LoneOperationIsMarked`, `TableConverges`, `ConnectionShown` | 2 210 000 states |
| `device_operations_in_flight` | violated: `InFlightIsMarked` | |
| `device_operations_first` | violated: `FirstSnapshotIsQuiet` | |
| `rule_client` | `RemovesTheChosenRule`, `InsertsWhereChosen`, `MessagesAreTrue` | 3 156 000 states |
| `rule_dialog` | `RulesSurviveRendering`, `SubmittedIsShown`, `NestingBounded`, `PreviewAsksForTheAttributes`, `PreviewIsOfTheCurrentRule`, `SwitchKeepsTheRule`, `PreviewEnds` | 168 000 states |
| `session` | `DenialsDisableControls`, `ChoiceIsPending`, `RowConverges`, `IndicatorIsTrue` | 1 167 000 states |

Bounds, and why they are enough:

- `EventWorker.cfg`: two device ids that two physical devices share, two targets,
  three changes by the daemon, one loss (of the bridge or the connection);
  a quiet window of 1 tick under a ceiling of 2. The threshold of two devices makes bursts and
  resynchronizations happen; the capacity of two blocks the worker in the middle
  of its longest handlers; the clock separates the quiet window from the ceiling.
- `Supervisor.cfg`: the backoff runs from 1 to 4 ticks, so it doubles twice and is
  capped once. Nothing else is bounded: the bridge and the user act for ever.
- `RuleCache.cfg`: one operation, two disturbances (operations started, changes
  by others, outages, failing calls), two openings of the page, a channel of one
  place. Each pair of disturbances interleaves with everything else, so that an
  operation meets an outage, an edit or a lost reply, and a read meets a failure.
  Three disturbances at once are beyond the run.

- `DeviceOperations.cfg`: one id that two physical devices share, two operations
  (interchangeable, as are the devices: TLC checks one of each symmetric pair), a
  channel of one place, and two disturbances: changes of the daemon that no
  operation asked for, or losses of the connection. A second operation takes the
  place of both, so the run covers one operation under every pair of disturbances, and
  two operations that meet each other. Both together, and two ids in one list, are
  beyond the run; the four invariants are proved without these bounds.

- `RuleClient.cfg`: two operations (the second may be the answer to "Which rule?" of the first),
  two interchangeable rule texts, three ids, up to two rules and two edits by other
  clients. Two rules of one text are the smallest ambiguity, a removal and an insertion
  the smallest recycling of an id; every shape of a D-Bus error is tried at every call.
- `RuleDialog.cfg`: three edits and two previews, over nine rows of the form (one with more
  values than a set may have) and nine pasted texts chosen for their quotes, escapes, control
  characters, sets and nested queries (one of them too deep, one too long once it is
  rendered), and eight glyphs typed at any place. The limits of the code are scaled down (22 glyphs, sets of two, nesting of two), so that the
  texts exceed each of them.
- `Session.cfg`: one operation, two disturbances (changes by others, losses, bursts, failures,
  other writes), one choice, three values of which the row offers two. Each pair of
  disturbances interleaves with the start, two probes, reads and an own change.

`EventWorkerDisplay.cfg` allows no loss at all. Deadlock is checked in `Supervisor.cfg` and
`RuleClient.cfg` (the page can always be read again). The other models
have bounded environments and come to rest when these are exhausted and all work is
done, and a closed dialog stops.

A run has a mutant for each property: a definition changed the way a plausible
bug would, under which TLC finds the property violated. They are the operators
commented `Mutant`, next to the definition they replace.

## Findings

Five statements of the documentation or comments do not hold of the code; each
is a run TLC must find violated.

- `DisplayIsDaemons`. "Device state is fully described by the signals"
  (`docs/architecture.md` §5.6), and subscribing first means nothing is lost
  (§5.3). Subscribing takes several round trips, and streams have no common
  order: a decision emitted between two subscriptions is lost, and the buffered
  insertion then overwrites the decided target of the first list with its
  provisional one. `TargetsConverge` states what does hold.
- `AppearanceWakes`. A bridge that appears just before its owner is asked for, or
  while the loop already sleeps, waits for the whole backoff
  (`src/dbus/supervisor.rs:106-117`). `HeardAppearanceWakes` states what does hold:
  an appearance the watch has after the query found no owner is answered at once, or at the
  minimum after the loss.
- `OpeningRereads`. Opening the policy page reads the rules only if they were
  already marked stale (`src/ui/window.rs:558-567`), so a rule edited from the
  command line stays invisible, contrary to §5.6. `RulesConverge` states what
  does hold.
- `InFlightIsMarked`. `Reconnected` clears the table under running operations, and the
  rows of the fresh list have no marker to inherit: they offer Allow, Block and
  Reject again, and the operation cannot be cancelled (`src/ui/window.rs:1131`,
  `src/ui/device_view.rs:8-9`). A second operation on the same device, started from a
  notification, has the same effect when the first one ends.
  `LoneOperationIsMarked` states what does hold.
- `FirstSnapshotIsQuiet`. A list read for a cancelled operation and applied after
  `ConnectionLost` sets `connected` again, so the first list after `Reconnected` is
  compared with an empty table and everything that is not allowed is announced as
  just plugged in (`src/ui/window.rs:1041-1053`).

## Fairness

Fairness is assumed of the program's own scheduling, and never of users, other
clients, faults or the bridge.

- `EventWorker`: weak fairness of the worker (a Tokio task), of `Apply` (the GTK
  loop empties the channel) and of time. `BridgeBack` has none: `Settles` is about
  behaviours in which the bridge and the connection stay up from some point on.
- `Supervisor`: weak fairness of the loop and of time, and strong fairness of a
  successful `Connect`: a bus that is tried again and again is reached at last.
  Without it no connection can be promised.
- `RuleCache`: weak fairness of `System`, i.e. of tasks and the GTK loop. The daemon
  is not required to answer an operation, since a Polkit prompt may wait for ever.
- `RuleDialog`: weak fairness of `Reply`: a preview's task is answered, or the bus gives
  up the call or closes its connection. The user owes nothing, not even to close the dialog.
- `DeviceOperations`, `RuleClient` and `Session` state no liveness property and need no
  fairness; what holds "once everything is delivered" is an invariant about such states.

## Proofs

The modules `*Proofs` are checked by TLAPS for every value of the constants that
satisfies the named assumptions of the modules they extend: `None` is none of the values it
is used beside, durations, capacities and bounds are natural numbers and the ones
that must be positive are, the provisional target is a target, a policy is a target or
"reject", an absent diagnosis or version is no diagnosis or version, the minimum backoff is positive and no larger than the maximum, the ids that rules
are numbered with are ids, and operations are finitely many where they are counted.
The texts of rules are sequences of glyphs, among them those the language gives a meaning
(`Written`); `None` is no rule, text or error.

- `EventWorkerProofs!TypeCorrect`: `Spec => []TypeOK`. The interesting parts are
  the window (`PushType`: merging keeps entries complete, so a batch never creates
  a row without a target) and the table (`ApplyBatchType`).
- `EventWorkerProofs!DeadlineCorrect`: `PendingHasDeadline`. Inductive together with
  the type invariant; `PushChanges` says that a pushed window is never empty.
- `EventWorkerProofs!ReportCorrect`: `RulesetChangeReported`. It is not inductive:
  at rest nothing is on its way, but before that an unreported change must be
  somewhere. `WillBeReported` says where: in a stream that will be read, in the
  outbox or the channel, or in a session that has not started or has ended and
  will begin with an invalidation. `LossNoticed` is needed besides, since a change
  may be missed only while the loss that hides it is still to be noticed.
- `DeviceOperationsProofs!TypeCorrect`: `Spec => []TypeOK`.
- `DeviceOperationsProofs!MarkedRowsAreCancellable` and `LoneOperationsStayMarked`:
  `MarkedRowHasOperation` and `LoneOperationIsMarked`. Both fail alone: the end of an
  operation takes the marker of its row, which another operation may still need.
  `MarkerInv` adds that operations sharing a device are all obscured
  (`SharedIsObscured`) and that only a started operation is waited for
  (`StartedFirst`). The steps fall into four kinds, a lemma each: those that leave rows
  and operations alone, a start, an end, and a replacement of the rows.
- `EventWorkerProofs!LatencyIsBounded`: `LatencyCeiling`, by the clock: time cannot pass the
  deadline of a window, and pushing moves it at most to `opened + MAX_LATENCY`.
- `EventWorkerProofs!NoDeviceIsMissing` and `TableConvergesToDaemon`: `NoDeviceMissing` and
  `TargetsConverge`, which speak of rest only, from `HistoryInv`, which says of every moment
  what the signals still on their way will make of the table. Its parts: what is buffered is
  of the right kind and about devices that were plugged in (`ShapeInv`); the last signal of
  presence buffered for an id tells what the daemon has there (`FeedInv`); the last
  decision buffered for a device is the daemon's, and a decision about a
  device that is still to be announced was heard (`OrderInv`); a device nothing is buffered of is
  shown, or will be when the window is flushed and what is sent is applied (`PresentInv`),
  and, without losses and overtaking, with the right target (`DisplayInv`). `Shows(i, row)` is what
  is left of row `i` when the pending entry, the outbox and the channel have been applied; each action
  keeps it or changes it in the one way its lemma says.
- `DeviceOperationsProofs!TableConvergesToDaemon` and `ConnectionIsShown`: `TableConverges` and
  `ConnectionShown`, from `ConvergeInv`. A row that differs from the daemon's has
  a change pending or a list or batch on its way (`TableInv`); a batch the daemon has gone beyond is followed
  by a newer change or list of the worker (`BatchInv`); a list that was read is the daemon's in each
  row, or a newer change is on its way, or the window will know it as late (`ListInv`);
  `ConnectionLost` and `Reconnected` are followed by what restores or ends the connection
  (`LinkInv`). `Followed` says such a thing of the channel and the outbox together, and has a
  lemma for each way the two change.
- `SupervisorProofs!TypeCorrect`, `FailingServiceIsSpared` (an action property from
  an invariant about what the wait can have returned) and `Implements`
  (`Spec => KeepsPromise`): initial states map to initial states and each step of
  the supervisor is one of `ConnectionStatus` or a stutter, from an invariant that
  ties `told`, `shown`, `ready` and `ever_connected` to the program counter.
- `SupervisorProofs!BackoffIsExponential` and `AppearanceIsAnswered`: `BackoffDoubles`, by induction
  over the attempts in a row (an induction over a set of numbers, `NatSetInduction`, that the
  provers can instantiate), and `HeardAppearanceWakes`, from `HeardInv`: while the watch waits
  with an appearance no time passes, and the wait then returns `Appeared`, or `TimedOut` at the very
  time the appearance was heard, when the whole backoff is over already.

- `RuleCacheProofs!TypeCorrect`: `Spec => []TypeOK`. That the ruleset's version stays within its
  bound needs `CountInv`: each request in flight was counted when it was started.
- `RuleCacheProofs!OperationsEnd`, `ErrorsRetried`, `RulesAreCurrent`: what holds at rest. None of
  the three is inductive, since before the rest something is on its way; the invariants
  say what. `OpInv`: an operation the interface waits for has a waiting task or its event
  in the channel. `ErrorInv`: an error is marked, or an answer is on its way. `KnowInv`:
  the interface has been told of what is due, or will be told, or will be marked, or is
  marked while it is hidden or disconnected. `LiveInv` adds that a connected worker's
  interface knows it, or will hear it last. A step either appends to the channel (`NextKeeps`)
  or takes its head (`ApplyTakes`); the lemmas go by these two.
- `RuleClientProofs!TypeCorrect`: `Spec => []TypeOK`.
- `RuleClientProofs!MessagesTrue`: `MessagesAreTrue`, from `PhasesInv`, which ties `request`, `executed` and
  `told` to the phase of each operation; its core is that only `Inconclusive` comes of a
  transport failure (`FailureTypes`).
- `RuleClientProofs!RemovesChosen`, `InsertsChosen`: the action properties. They need that an id is
  one rule's at any time (`UniqueIds`) and that the target of a write that nobody got
  between still is the handle that was resolved (`HitsInv`).
- `SessionProofs!TypeCorrect`: `Spec => []TypeOK`. `Counted` bounds the versions: each operation
  changes the value once, and so does each disturbance. `Happened` says that no event, answer
  or operation names a version that was never a value.
- `SessionProofs!RefusedWritesAreOff`, `ChoicesAreSettled`, `ParameterIsCurrent`,
  `IndicatorTellsTheTruth`: the four properties of the window. Each handler is shown once to
  keep what holds of a window whatever the daemon does (`Handled`): the row is on or off as the
  refusals say (`RowOK`), the banner agrees with the diagnosis (`AccessOK`), and no mark and
  no read is lost (`Cared`). Only the first property is inductive as it stands. A choice is
  put back because while one is asked about or sent a value is known (`ChoiceOK`). What
  holds at rest needs what is on its way before: the window is connected or will be when it has
  applied the feed (`LiveOK`), a bridge that was not reachable is being probed (`LateOK`),
  and the current value was heard, is in an answer or an event, or will be read
  (`CurrentOK`). That a connection the worker does not have is claimed only with its loss still to
  be applied, or since a late list, is an invariant of its own (`LossOK`): without a connection
  every list of the worker in the feed has a loss behind it.

- `RuleLanguageProofs` has, but for `ParsingEnds`, lemmas only: what the lexer, the parser, the
  builder of the guided form and the renderer return, for every text, token list, rule and row.
  The code's loops are recursive
  functions of a place in a sequence, and that such a function exists and returns what is
  claimed is an induction. The library's induction theorems cannot be instantiated, so
  `NatSetInduction` is proved of a set of numbers, from the well-foundedness of strict inclusion
  of finite sets, and `Recursion` from it: a body that looks only ahead, and returns a member of a
  set if what lies ahead does, has a fixed point that does so everywhere. Each loop then takes
  a lemma about its body and one about its fixed point (`LexFromIs`, `ParenFromIs`,
  `SetFromIs`, `ConditionsFromIs`, `AttributesFromIs`, ...). A token list ends with the one token "End", and
  no parser reads beyond it (`TokenList`, `Read`); that an input is no longer than the code accepts
  is not needed. These lemmas hold for nested queries that are an arbitrary function.
- `RuleLanguageProofs!ParsingEnds`: `Nested`, whose recursion goes over all texts, is what its
  definition says, which a recursive function need not be. What a token list is read as depends
  only on the queries that stand in it as parameters (`RuleAsked`), and these are shorter
  than the text they stand in (`LexedShorter`). So the recursion goes by length (`KnownAt`,
  `NestedIs`), a text longer than the parser accepts needing none. It also says that the
  recursion of the code ends, whatever the texts nest.
- `RuleDialogProofs!TypeCorrect`: `Spec => []TypeOK`, from `TypesOK`: a rule the dialog holds is not
  only a `Rule` but one the parser returns (`RuleOf`), with distinct attributes, values of the
  kind its names call for and valid conditions; a rule the form makes is one up to the limit of
  values in a set (`AnyRuleOf`), and its text is a text (`RulePiecesTyped`).
- `RuleDialogProofs!SubmittedRuleIsShown`, `PreviewIsCurrent`, `SwitchingKeepsTheRule`:
  `SubmittedIsShown`, `PreviewIsOfTheCurrentRule` and the action property `SwitchKeepsTheRule`, for
  every text, row and limit. `DialogInv` is inductive: the rule that is shown is `Canonical`, its text
  reads back as it (`ShownInv`, which `render_checked` establishes and nothing but `recompute`
  disturbs); what was submitted is the current rule of a closed dialog (`SubmittedInv`); a preview
  of the current revision is about the current rule (`PreviewInv`). The lemma that
  carries the text mode is `RuleIsQuery`: a text read as a policy rule reads the same as a query.

- `RuleDialogProofs!RulesSurvive`: `RulesSurviveRendering`. A rule enters through the parser or through the
  builder, and both make rules with distinct attributes that say something (`EnteredSurvives`); its text is
  pieces with blanks between them. Half of the round trip is the lexer's (`RuleLanguageProofs`): of each
  piece it makes the tokens of what was rendered and goes on behind it (`Reads..`), so of a whole rendering
  it makes the rule's tokens and no others (`LexesRule`), or finds the text too long. The other half is the
  parser's (`RuleDialogProofs`): wherever the tokens of a value, an attribute, a condition, a
  clause or a rule stand in a token list, that is what it returns (`ValueBack`, `AttributeBack`,
  `ClauseBack`, `RuleBack`); a loop gets past what was written by induction over it (`..There`). The only
  refusals left are those the property names (`RefusedFor`).

- `RuleDialogProofs!PreviewAsks`: `PreviewAsksForTheAttributes`. The code renders the query without checking
  it again. It reads back because it is a rule of the same kind (`QueryTyped`) and no longer than the
  rule it was made of, which was accepted (`MatchedShortens`, `QueryFits`).

- `RuleDialogProofs!NestingIsBounded`: `NestingBounded`. The code bounds the parentheses of one text, not
  the recursion of the parser, and a query is lexed anew, without those around it. The bound carries over
  because a query that the parser asks for is a parameter of the text (`NestsAsked`), and a parameter
  stands where the search for the parenthesis that closed it was one level further in (`StandsInside`).
  That search passes each token the lexer makes of the query (`TokenPasses`), so a parameter of the query stands one
  level further in again (`LexedInside`), and the search never gets beyond its bound.

Only model-checked: every liveness property (`Settles`, `Recovers`, `PreviewEnds`): liveness under
fairness is out of the prover's reach.

## What is not modelled

`PROJECT.json` gives the status of every component. Not modelled, and why:

- the tray icon: `ui/tray.rs` implements the item itself on zbus, but the window's part of it is
  one flag and a handle, with one registration in flight at most. Starting and stopping are tasks
  that nothing orders; which of them the bus sees first, and what the desktop's watcher
  answers, is outside the program;
- the local history: a sequential list with a cap that only the GTK thread touches;
- widgets, layout, wording, translations, command line, settings files, packaging: no
  state that anything races for;
- the typed proxies are declarations; the bridge itself is external.

Within the modelled parts:

- formatting and logging, attribute maps key by key, malformed signals (dropped by
  `filter_map`, they never become an item), and the private test connection without a bus;
- bytes that are not UTF-8, the spelling of keywords and numbers, and `parse_device`;
- in `DeviceOperations`, a refused write that greys the actions of the rows (`Session` has it);
- a click on a notification beyond what `still_offered` checks: the call carries the id alone;
- the five steps of a probe: it is one answer about some moment, whatever the steps find.

Where the properties name an exception, the code does it and nothing in the repository
promises otherwise: a read or a list that is applied after a newer one (`Overtaken`, `late`),
an edit between `listRules` and the write (`changed`), a failed read of the parameters, which
is not repeated (`failed`), a form or a text whose rule is refused because its canonical text is too
long or has more values than the parser reads (`RulesSurviveRendering`), a refused write that covers the error of the rules page
(`src/ui/policy_view.rs:288`; `ErrorIsRetried` shows that the page stays marked).
Seen while modelling and not the subject of a run: a condition without its parameter is
reported at offset 0 (`src/rules/parser.rs:316`), while `docs/architecture.md` §7 promises a caret at the
offending token; a refusal from before a reconnection disables controls after it
(`src/ui/window.rs:1005`); a denied diagnosis is not probed again by a new list, only an
unreachable one is.

## Next

1. The history as a bounded log, should it ever be written by more than one thread.
