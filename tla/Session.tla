------------------------------ MODULE Session ------------------------------
(***************************************************************************)
(* What the interface may do and says so: the diagnosis of the access      *)
(* (src/dbus/diagnostics.rs), the connection indicator and the banner, the *)
(* writes that were refused, and the row of a runtime parameter            *)
(* (src/ui/window.rs, policy_view.rs).                                     *)
(*                                                                         *)
(* Probes, reads and operations are tasks with a connection of their own,  *)
(* and find the bridge at any time in any condition.  Each sends one       *)
(* event, as late as it likes, so their answers are applied in any order;  *)
(* only the worker's events are a sequence, `feed'.  The worker is reduced *)
(* to what EventWorker and Supervisor show of it, the lists of devices and *)
(* rules to the fact that they arrive.  The two parameters differ in       *)
(* nothing but their values; one is modelled.                              *)
(***************************************************************************)
EXTENDS Naturals, FiniteSets, Sequences, DBusErrors

CONSTANTS
    Ops,        \* the changes of the parameter the user may start
    None,       \* an absent value
    Values,     \* values the daemon may have for the parameter
    Allowed,    \* allowed_values, what the row offers
    Errors,     \* the errors the daemon and the bus answer with
    Outages,    \* how the bridge can be found away
    Agents,     \* what is known of a Polkit agent
    MaxDisturbances, \* bound: changes by others, losses, bursts, failed attempts
                     \* to connect, reads that fail, and writes of other kinds
    MaxChoices       \* bound: values selected and pages shown by the user

ASSUME SessionAssumption ==
    /\ IsFiniteSet(Ops)
    /\ Allowed \subseteq Values /\ None \notin Values
    /\ Errors \subseteq ErrorShape
    /\ Outages \subseteq {"no bus", "not installed", "not running"}
    /\ Agents \subseteq {"yes", "no", "unknown"}
    /\ MaxDisturbances \in Nat /\ MaxChoices \in Nat

VARIABLES
    values,         \* the values the parameter has had; the last one is current
    link,           \* the worker is connected
    ever,           \* and has been before
    feed,           \* the worker's events that are not applied yet
    disturbances,   \* see MaxDisturbances
    w,              \* the window: its State, its widgets, and how many of the
                    \* tasks it has started have no answer yet
    answered,       \* how many reads of the parameter are answered and not
                    \* applied, by the version they got
    op,             \* the operations
    choices,        \* see MaxChoices
    heard,          \* history: the newest version applied to the row
    failed,         \* history: a read failed since one was started last
    late,           \* history: a diagnosis "unreachable" was applied while the
                    \* device list was live, and no probe has been started since
    revived         \* history: a list read for an operation made the window
                    \* connected, and no loss and no list of the worker came since

workerVars == <<link, ever, feed>>
historyVars == <<heard, failed, late, revived>>
vars == <<values, workerVars, answered, historyVars, disturbances, w, op, choices>>

-----------------------------------------------------------------------------
Write == {"Devices", "Rules", "Parameters"}
Unreachable == {"BusUnavailable", "BridgeNotInstalled", "BridgeNotRunning"}
AccessState == {"Ok"} \cup Unreachable \cup Denials
Versions == 1..MaxDisturbances + Cardinality(Ops) + 1

ASSUME NoneIsAbsent == None \notin AccessState /\ None \notin Versions

\* The state of an outage, by probes 1 and 2 or, if the name is activatable, by
\* the error of the call that should have activated it.
Outage == [o \in Outages |-> CASE o = "no bus" -> "BusUnavailable"
                               [] o = "not installed" -> "BridgeNotInstalled"
                               [] o = "not running" -> "BridgeNotRunning"]

\* probe, probe_on: what a probe can find.
Diagnoses ==
    {"Ok"} \cup {Outage[o] : o \in Outages}
    \cup {Classify(err, agent) : err \in Errors, agent \in Agents}

TypeOK ==
    /\ link \in BOOLEAN /\ ever \in BOOLEAN
    /\ Len(values) \in Versions /\ \A v \in DOMAIN values : values[v] \in Values
    /\ \A i \in DOMAIN feed :
         \/ feed[i].type \in {"ConnectionLost", "Reconnected", "DeviceSnapshot",
                              "InvalidateRuleCache"}
         \/ feed[i].type = "ParameterChanged" /\ feed[i].version \in DOMAIN values
    /\ disturbances \in 0..MaxDisturbances /\ choices \in 0..MaxChoices
    /\ w.connected \in BOOLEAN /\ w.rules_stale \in BOOLEAN /\ w.visible \in BOOLEAN
    /\ w.access \in AccessState \cup {None}
    /\ w.denials \subseteq Write /\ w.blocks \subseteq Write
    /\ w.indicator \in {"Checking", "Connected", "ReadOnly", "Denied", "Disconnected"}
    /\ w.banner \in {"hidden", "lost", "problem"}
    /\ w.banner # "hidden" => w.indicator # "Checking"
    /\ w.known \in DOMAIN values \cup {None} /\ w.selected \in Allowed \cup {None}
    /\ w.sensitive \in BOOLEAN /\ w.asking \in Allowed \cup {None}
    /\ w.probing \in Nat /\ w.reading \in Nat /\ w.listing \in Nat
    /\ answered \in [Versions -> Nat]
    /\ DOMAIN op = Ops
    /\ \A o \in Ops : op[o].phase \in {"idle", "calling", "done"}
    /\ heard \in 0..Len(values) /\ failed \in BOOLEAN
    /\ late \in BOOLEAN /\ revived \in BOOLEAN

\* The window before the first event.  Its first probe runs once it is mapped,
\* which may be never.
NewWindow(mapped, page) ==
    [connected |-> FALSE, access |-> None, denials |-> {}, rules_stale |-> TRUE,
     visible |-> page, indicator |-> "Checking", banner |-> "hidden", blocks |-> {},
     known |-> None, selected |-> None, sensitive |-> FALSE, asking |-> None,
     probing |-> IF mapped THEN 1 ELSE 0, reading |-> 0, listing |-> 0]

Init ==
    /\ \E v \in Allowed : values = <<v>>
    /\ link = FALSE /\ ever = FALSE /\ feed = <<>> /\ disturbances = 0
    /\ \E mapped, page \in BOOLEAN : w = NewWindow(mapped, page)
    /\ answered = [v \in Versions |-> 0]
    /\ op = [o \in Ops |-> [phase |-> "idle"]]
    /\ choices = 0
    /\ heard = 0 /\ failed = FALSE /\ late = FALSE /\ revived = FALSE

-----------------------------------------------------------------------------
(* The daemon and the worker's connection.                                 *)

Event(type) == [type |-> type]

Disturb == disturbances < MaxDisturbances /\ disturbances' = disturbances + 1

\* The parameter changes, and the daemon signals it.
Change(value) ==
    /\ values' = Append(values, value)
    /\ feed' = IF link THEN Append(feed, [type |-> "ParameterChanged", version |-> Len(values')])
               ELSE feed

ForeignChange ==
    /\ Disturb
    /\ \E value \in Values \ {values[Len(values)]} : Change(value)
    /\ UNCHANGED <<link, ever, answered, historyVars, w, op, choices>>

\* The supervisor reports every attempt that fails.
ConnectFails ==
    /\ Disturb /\ ~link
    /\ feed' = Append(feed, Event("ConnectionLost"))
    /\ UNCHANGED <<values, link, ever, answered, historyVars, w, op, choices>>

Connect ==
    /\ ~link
    /\ link' = TRUE /\ ever' = TRUE
    /\ feed' = feed \o (IF ever THEN <<Event("Reconnected")>> ELSE <<>>)
                    \o <<Event("DeviceSnapshot"), Event("InvalidateRuleCache")>>
    /\ UNCHANGED <<values, disturbances, answered, historyVars, w, op, choices>>

\* Signals the worker has not read are lost with its connection.
LinkLost ==
    /\ Disturb /\ link /\ link' = FALSE
    /\ \E n \in 0..Len(feed) :
        /\ \A i \in n + 1..Len(feed) : feed[i].type = "ParameterChanged"
        /\ feed' = Append(SubSeq(feed, 1, n), Event("ConnectionLost"))
    /\ UNCHANGED <<values, ever, answered, historyVars, w, op, choices>>

\* A burst makes the worker read the devices again.
Resync ==
    /\ Disturb /\ link
    /\ feed' = Append(feed, Event("DeviceSnapshot"))
    /\ UNCHANGED <<values, link, ever, answered, historyVars, w, op, choices>>

-----------------------------------------------------------------------------
(* The tasks.                                                              *)

\* reload_parameters; an error is dropped.
ReadAnswers ==
    /\ w.reading > 0 /\ w' = [w EXCEPT !.reading = @ - 1]
    /\ \/ /\ answered' = [answered EXCEPT ![Len(values)] = @ + 1]
          /\ UNCHANGED <<failed, disturbances>>
       \/ Disturb /\ failed' = TRUE /\ UNCHANGED answered
    /\ UNCHANGED <<values, workerVars, heard, late, revived, op, choices>>

\* setParameter is executed.
Execute(o) ==
    /\ op[o].phase = "calling" /\ op[o].version = 0
    /\ IF values[Len(values)] = op[o].new THEN UNCHANGED <<values, feed>> ELSE Change(op[o].new)
    /\ op' = [op EXCEPT ![o].version = Len(values')]
    /\ UNCHANGED <<link, ever, answered, historyVars, disturbances, w, choices>>

-----------------------------------------------------------------------------
(* The widgets: each operator is the window after the call.                *)

ConnectedIndicator(win) ==
    IF {"Devices", "Rules"} \subseteq win.denials THEN "ReadOnly" ELSE "Connected"

UnreachableReported(win) == win.access \in Unreachable
AccessProblem(win) == win.access \notin {None, "Ok"}

\* The row offers the value of that version.
Offered(version) == version # None /\ values[version] \in Allowed
Shown(version) == IF Offered(version) THEN values[version] ELSE None

\* Mutant: the row is usable again with every value.
SetParameterUnblocked(win, version) ==
    [win EXCEPT !.known = version, !.selected = Shown(version), !.sensitive = Offered(version)]

\* PolicyView::set_parameter
SetParameter(win, version) ==
    [win EXCEPT !.known = version, !.selected = Shown(version),
                !.sensitive = Offered(version) /\ "Parameters" \notin win.blocks]

\* Mutant: nothing is put back.
RevertNothing(win) == win

\* PolicyView::revert_parameter
RevertParameter(win) == IF win.known = None THEN win ELSE SetParameter(win, win.known)

\* PolicyView::set_blocks, with the block of the device rows.
SetBlocks(win) ==
    [win EXCEPT !.blocks = win.denials,
                !.sensitive = Offered(win.known) /\ "Parameters" \notin win.denials]

ApplyDenials(win) ==
    [SetBlocks(win) EXCEPT !.indicator = IF win.connected /\ ~AccessProblem(win)
                                         THEN ConnectedIndicator(win) ELSE @]

DenyWrite(win, write) == ApplyDenials([win EXCEPT !.denials = @ \cup {write}])

\* Only a structural refusal disables the controls.
Report(win, write, error) ==
    IF error.type = "Denied" /\ error.state \in {"DeniedByBusPolicy", "DeniedByIpcAcl"}
    THEN DenyWrite(win, write) ELSE win

\* Mutant: the page's parameters are left to the signals.
ReloadNothing(win) == win

ReloadPolicyIfNeeded(win) ==
    IF win.visible /\ win.rules_stale /\ win.connected
    THEN [win EXCEPT !.rules_stale = FALSE, !.reading = @ + 1] ELSE win

MarkRulesStale(win) == ReloadPolicyIfNeeded([win EXCEPT !.rules_stale = TRUE])

\* DeviceSnapshot
ApplySnapshot(win) ==
    LET live == [win EXCEPT !.connected = TRUE]
    IN  ReloadPolicyIfNeeded(
            IF UnreachableReported(live) THEN [live EXCEPT !.probing = @ + 1]
            ELSE IF AccessProblem(live) THEN live
            ELSE [live EXCEPT !.banner = "hidden", !.indicator = ConnectedIndicator(live)])

ApplyConnectionLost(win) ==
    [win EXCEPT !.connected = FALSE, !.indicator = "Disconnected",
                !.banner = IF AccessProblem(win) THEN @ ELSE "lost"]

ApplyReconnected(win) ==
    [ApplyDenials([win EXCEPT !.rules_stale = TRUE, !.denials = {}]) EXCEPT !.probing = @ + 1]

\* Mutant: a good diagnosis is shown whether connected or not.
ApplyAccessAlways(win, access) ==
    IF access = "Ok"
    THEN [win EXCEPT !.access = access, !.indicator = ConnectedIndicator(win), !.banner = "hidden"]
    ELSE [win EXCEPT !.access = access, !.banner = "problem",
                     !.indicator = IF access \in Denials THEN "Denied" ELSE "Disconnected"]

\* Mutant: the banner alone reports a problem.
ApplyAccessBanner(win, access) ==
    [win EXCEPT !.access = access, !.banner = IF access = "Ok" THEN "hidden" ELSE "problem"]

\* AccessStateChanged
ApplyAccess(win, access) ==
    IF access = "Ok"
    THEN IF win.connected
         THEN [win EXCEPT !.access = access, !.indicator = ConnectedIndicator(win),
                          !.banner = "hidden"]
         ELSE [win EXCEPT !.access = access]
    ELSE [win EXCEPT !.access = access, !.banner = "problem",
                     !.indicator = IF access \in Denials THEN "Denied" ELSE "Disconnected"]

\* finish, for an operation and its result: what every write has in common,
Finish(win, write, result) ==
    LET reread == IF result.type = "Inconclusive"
                  THEN MarkRulesStale([win EXCEPT !.listing = @ + 1]) ELSE win
    IN  IF write = "Rules" THEN MarkRulesStale(reread) ELSE reread

\* and a change of the parameter.
FinishParameter(win, version, result) ==
    IF result.type = "Ok" THEN SetParameter(win, version)
    ELSE Report(RevertParameter(Finish(win, "Parameters", result)), "Parameters", result)

-----------------------------------------------------------------------------
(* What the window applies.                                                *)

\* History, for the window before and after.
Note(version) ==
    /\ heard' = IF version # None /\ version > heard THEN version ELSE heard
    /\ failed' = (failed /\ w'.reading <= w.reading)
    /\ late' = (late /\ w'.probing <= w.probing)

ApplyWorkerEvent ==
    /\ feed # <<>> /\ feed' = Tail(feed)
    /\ LET event == Head(feed)
       IN  \/ /\ event.type = "DeviceSnapshot"
              /\ w' = ApplySnapshot(w) /\ Note(None)
           \/ /\ event.type = "InvalidateRuleCache"
              /\ w' = MarkRulesStale(w) /\ Note(None)
           \/ /\ event.type = "ConnectionLost"
              /\ w' = ApplyConnectionLost(w) /\ Note(None)
           \/ /\ event.type = "Reconnected"
              /\ w' = ApplyReconnected(w) /\ Note(None)
           \/ /\ event.type = "ParameterChanged"
              /\ w' = SetParameter(w, event.version) /\ Note(event.version)
    /\ revived' = (revived /\ Head(feed).type \notin {"DeviceSnapshot", "ConnectionLost"})
    /\ UNCHANGED <<values, link, ever, answered, disturbances, op, choices>>

\* A probe has found some time ago what the bus and the bridge were then, and
\* however short they were so.
ApplyDiagnosis ==
    /\ w.probing > 0
    /\ \E d \in Diagnoses :
        /\ w' = [ApplyAccess(w, d) EXCEPT !.probing = @ - 1]
        /\ late' = (w.connected /\ d \in Unreachable)
    /\ UNCHANGED <<values, workerVars, answered, heard, failed, revived, disturbances, op, choices>>

\* The answer of a read, reported as a change.
ApplyRead ==
    /\ \E v \in Versions :
        /\ answered[v] > 0 /\ answered' = [answered EXCEPT ![v] = @ - 1]
        /\ w' = SetParameter(w, v) /\ Note(v)
    /\ UNCHANGED <<values, workerVars, revived, disturbances, op, choices>>

\* reload_devices has had a list some time ago, or an error, which is dropped.
ApplyList ==
    /\ w.listing > 0
    /\ LET rest == [w EXCEPT !.listing = @ - 1]
       IN  w' = rest \/ w' = ApplySnapshot(rest)
    /\ Note(None) /\ revived' = (revived \/ (w'.connected /\ ~w.connected))
    /\ UNCHANGED <<values, workerVars, answered, disturbances, op, choices>>

Refusals == {MutationError(err) : err \in Errors}

\* Client::set_parameter has returned some time ago: with success, with a
\* refusal, or with an error of the transport, after which nobody knows what
\* was executed (or will be: by then, ForeignChange does it).
ApplyOperation(o) ==
    /\ op[o].phase = "calling"
    /\ \/ /\ op[o].version > 0
          /\ w' = FinishParameter(w, op[o].version, [type |-> "Ok"]) /\ Note(op[o].version)
       \/ \E result \in Refusals :
            /\ result.type # "Inconclusive" => op[o].version = 0
            /\ w' = FinishParameter(w, None, result) /\ Note(None)
    /\ op' = [op EXCEPT ![o] = [phase |-> "done"]]
    /\ UNCHANGED <<values, workerVars, answered, revived, disturbances, choices>>

\* Another write the user has started some time ago.  A dialog or a
\* notification may offer it even after its refusal.
ApplyWrite ==
    /\ Disturb
    /\ \E write \in {"Devices", "Rules"}, result \in Refusals \cup {[type |-> "Ok"]} :
        w' = Report(Finish(w, write, result), write, result)
    /\ Note(None)
    /\ UNCHANGED <<values, workerVars, answered, revived, op, choices>>

-----------------------------------------------------------------------------
(* The user.                                                               *)

\* The policy page becomes visible, or another one.
SwitchPage ==
    /\ choices < MaxChoices /\ choices' = choices + 1
    /\ w' = ReloadPolicyIfNeeded([w EXCEPT !.visible = ~@])
    /\ Note(None)
    /\ UNCHANGED <<values, workerVars, answered, revived, disturbances, op>>

\* connect_selected_notify: a value other than the known one is asked about.
Select ==
    /\ w.sensitive /\ w.asking = None
    /\ choices < MaxChoices /\ choices' = choices + 1
    /\ \E new \in Allowed \ {w.selected} :
        w' = [w EXCEPT !.selected = new,
                       !.asking = IF new = values[w.known] THEN None ELSE new]
    /\ UNCHANGED <<values, workerVars, answered, historyVars, disturbances, op>>

\* The question is answered: start_set_parameter, or back to the known value.
Confirm(o) ==
    /\ w.asking # None /\ op[o].phase = "idle"
    /\ op' = [op EXCEPT ![o] = [phase |-> "calling", new |-> w.asking, version |-> 0]]
    /\ w' = [w EXCEPT !.asking = None]
    /\ UNCHANGED <<values, workerVars, answered, historyVars, disturbances, choices>>

Decline ==
    /\ w.asking # None
    /\ w' = RevertParameter([w EXCEPT !.asking = None])
    /\ UNCHANGED <<values, workerVars, answered, historyVars, disturbances, op, choices>>

Next ==
    \/ ForeignChange \/ ConnectFails \/ Connect \/ LinkLost \/ Resync \/ ReadAnswers
    \/ ApplyWorkerEvent \/ ApplyDiagnosis \/ ApplyRead \/ ApplyList
    \/ SwitchPage \/ Select \/ Decline
    \/ ApplyWrite \/ \E o \in Ops : Confirm(o) \/ Execute(o) \/ ApplyOperation(o)

Spec == Init /\ [][Next]_vars

-----------------------------------------------------------------------------
(* Properties.                                                             *)

\* Nothing is on its way to the window.
Rest ==
    /\ link /\ feed = <<>>
    /\ w.probing = 0 /\ w.reading = 0 /\ w.listing = 0
    /\ \A v \in Versions : answered[v] = 0
    /\ \A o \in Ops : op[o].phase \in {"idle", "done"}

\* The controls of a write are off exactly while its refusal stands, through
\* values that arrive, changes that are put back and reconnections
\* (deny_write, apply_denials, set_blocks, set_parameter).
DenialsDisableControls ==
    /\ w.blocks = w.denials
    /\ w.sensitive = (Offered(w.known) /\ "Parameters" \notin w.denials)

\* The row shows a value other than the last one known only while the user is
\* asked about it or its change runs: every refusal, failure and outcome
\* without a reply puts it back (revert_parameter).
ChoiceIsPending ==
    w.selected # Shown(w.known) =>
        \/ w.asking # None
        \/ \E o \in Ops : op[o].phase = "calling"

\* At rest the visible row has the daemon's value, after changes by others,
\* signals lost with a connection, reads and own changes in any order, unless
\* an older answer came last or a read failed (reload_parameters, finish).
RowConverges ==
    Rest /\ w.visible =>
        \/ w.known = Len(values)
        \/ w.known # None /\ w.known < heard
        \/ failed

\* The window has yet to apply a loss of the worker's connection.
LossIsComing == \E i \in DOMAIN feed : feed[i].type = "ConnectionLost"

\* The indicator and the banner tell the truth.  The window claims a connection
\* the worker does not have only until it has applied its loss, or since a list
\* read for an operation arrived (`revived': apply takes any list of devices for
\* a connection).  At rest they show what the last probe and the refused writes
\* come to, and a bridge that was not reachable is probed again when it lists
\* its devices, unless the probe's answer came after the list (`late')
\* (apply, apply_access, apply_denials, unreachable_reported).
IndicatorIsTrue ==
    /\ w.indicator \in {"Connected", "ReadOnly"} =>
        /\ w.connected /\ w.banner = "hidden"
        /\ link \/ revived \/ LossIsComing
    /\ Rest =>
        /\ w.connected
        /\ AccessProblem(w) => w.banner = "problem" /\ (UnreachableReported(w) => late)
        /\ ~AccessProblem(w) => w.banner = "hidden" /\ w.indicator = ConnectedIndicator(w)
=============================================================================
