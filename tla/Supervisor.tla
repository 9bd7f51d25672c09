---------------------------- MODULE Supervisor ----------------------------
(***************************************************************************)
(* Supervision and reconnection (src/dbus/supervisor.rs), with the life    *)
(* cycle of one run of the event worker (src/dbus/worker.rs) reduced to    *)
(* its steps that can fail.  Durations are in clock ticks.                 *)
(*                                                                         *)
(* The bridge is external: its name may be owned without it answering.     *)
(* An event is sent when the channel takes it; the channel's capacity is   *)
(* modelled in EventWorker.                                                *)
(***************************************************************************)
EXTENDS Naturals

CONSTANTS
    BACKOFF_MIN,    \* first retry delay, and the delay after an appearance
    BACKOFF_MAX     \* longest wait between retries

ASSUME SupervisorAssumption ==
    /\ BACKOFF_MIN \in Nat \ {0}
    /\ BACKOFF_MAX \in Nat
    /\ BACKOFF_MIN <= BACKOFF_MAX

VARIABLES
    bridge,         \* "absent", "failing" (its name is owned) or "serving"
    ui_open,        \* the interface still holds its end of the channel
    pc,             \* where `supervise' is
    ready,          \* the current run read the device list
    ever_connected, \* an earlier run did
    backoff,        \* how long to wait for the bridge
    elapsed,        \* ticks since retry_started
    rested,         \* ticks spent in the sleep of a broken watch
    status,         \* what the wait returned
    signalled,      \* the watch has buffered a gain of the name
    told,           \* the last connection event sent to the interface
    shown,          \* history: a device list was ever sent
    gained,         \* history: ticks since the name was gained in this wait,
                    \* NotGained if it was not
    heard,          \* history: `elapsed' when the watch first had a gain for the
                    \* wait to return, NotGained if it had none
    failures        \* history: waits since the daemon was last read

busVars == <<bridge, ui_open>>
loopVars == <<ready, ever_connected, backoff, told, shown, failures>>
waitVars == <<elapsed, rested, status, signalled, gained, heard>>
vars == <<busVars, pc, loopVars, waitVars>>

ServiceWait == {"Present", "Appeared", "TimedOut"}

Running == {"connect", "subscribe", "announce", "snapshot", "streaming"}
Waiting == {"watch", "check", "await", "rest"}

\* Every clock stops at the longest time it is ever compared with.
Horizon == 2 * BACKOFF_MAX + 1
Later(t) == IF t < Horizon THEN t + 1 ELSE t

NotGained == Horizon + 1

TypeOK ==
    /\ bridge \in {"absent", "failing", "serving"}
    /\ ui_open \in BOOLEAN
    /\ pc \in Running \cup {"report"} \cup Waiting \cup {"sleep", "done"}
    /\ ready \in BOOLEAN /\ ever_connected \in BOOLEAN
    /\ backoff \in BACKOFF_MIN..BACKOFF_MAX
    /\ elapsed \in 0..Horizon /\ rested \in 0..Horizon
    /\ status \in ServiceWait
    /\ told \in {"nothing", "ConnectionLost", "Reconnected", "DeviceSnapshot"}
    /\ signalled \in BOOLEAN /\ shown \in BOOLEAN
    /\ gained \in 0..Horizon \cup {NotGained}
    /\ heard \in 0..Horizon \cup {NotGained}
    /\ failures \in 0..BACKOFF_MAX

Init ==
    /\ bridge = "absent" /\ ui_open = TRUE
    /\ pc = "connect"
    /\ ready = FALSE /\ ever_connected = FALSE
    /\ backoff = BACKOFF_MIN
    /\ elapsed = 0 /\ rested = 0 /\ status = "TimedOut"
    /\ signalled = FALSE
    /\ told = "nothing"
    /\ shown = FALSE /\ gained = NotGained /\ heard = NotGained /\ failures = 0

Owned == bridge # "absent"

-----------------------------------------------------------------------------
(* The bridge and the user (external).                                     *)

\* The bridge starts, stops, or starts or stops answering.  A watch that
\* exists hears of a gain of the name.
BridgeBecomes(b) ==
    /\ bridge # b
    /\ bridge' = b
    /\ LET gains == ~Owned /\ b # "absent"
       IN  /\ signalled' = (signalled \/ (gains /\ pc \in {"check", "await"}))
           /\ gained' = IF gains /\ gained = NotGained
                           /\ pc \in {"watch", "check", "await", "sleep"}
                        THEN 0 ELSE gained
           /\ heard' = IF gains /\ heard = NotGained /\ pc = "await"
                       THEN elapsed ELSE heard
    /\ UNCHANGED <<ui_open, pc, loopVars, elapsed, rested, status>>

CloseUi ==
    /\ ui_open /\ ui_open' = FALSE
    /\ UNCHANGED <<bridge, pc, loopVars, waitVars>>

-----------------------------------------------------------------------------
(* One run of the event worker.                                            *)

\* connect().await: the bus connection and the local proxies, no round trip
\* to the bridge.
Connect ==
    /\ pc = "connect"
    /\ pc' \in {"subscribe", "report"}
    /\ ready' = FALSE
    /\ UNCHANGED <<busVars, ever_connected, backoff, told, shown, failures,
                   waitVars>>

\* Mutant: constructing the proxies counts as a connection.
ReadListEagerly ==
    /\ pc = "subscribe"
    /\ pc' = IF bridge = "serving"
             THEN IF ever_connected THEN "announce" ELSE "snapshot"
             ELSE "report"
    /\ ready' = TRUE
    /\ UNCHANGED <<busVars, ever_connected, backoff, told, shown, failures,
                   waitVars>>

\* subscribe and listDevices: `ready' only if the bridge answers.
ReadList ==
    /\ pc = "subscribe"
    /\ pc' = IF bridge = "serving"
             THEN IF ever_connected THEN "announce" ELSE "snapshot"
             ELSE "report"
    /\ ready' = (bridge = "serving")
    /\ UNCHANGED <<busVars, ever_connected, backoff, told, shown, failures,
                   waitVars>>

\* send(event).await: WorkerExit::UiClosed once the interface is gone.
SendEvent(event, from, to) ==
    /\ pc = from
    /\ pc' = IF ui_open THEN to ELSE "done"
    /\ told' = IF ui_open THEN event ELSE told
    /\ shown' = (shown \/ (ui_open /\ event = "DeviceSnapshot"))
    /\ UNCHANGED <<busVars, ready, ever_connected, backoff, failures, waitVars>>

Announce == SendEvent("Reconnected", "announce", "snapshot")
FirstSnapshot == SendEvent("DeviceSnapshot", "snapshot", "streaming")

\* A signal arrives for a closed interface: WorkerExit::UiClosed.
StreamToClosedUi ==
    /\ pc = "streaming" /\ ~ui_open
    /\ pc' = "done"
    /\ UNCHANGED <<busVars, loopVars, waitVars>>

\* WorkerExit::Lost: the owner left, a call failed, or the streams ended.
StreamLost ==
    /\ pc = "streaming" /\ bridge # "serving"
    /\ pc' = "report"
    /\ UNCHANGED <<busVars, loopVars, waitVars>>

-----------------------------------------------------------------------------
(* The supervision loop.                                                   *)

\* retry_started
NewWait ==
    /\ elapsed' = 0 /\ rested' = 0
    /\ signalled' = FALSE /\ gained' = NotGained /\ heard' = NotGained

\* Mutant: the backoff is never reset.
ReportWithoutReset ==
    /\ pc = "report"
    /\ ever_connected' = (ever_connected \/ ready)
    /\ backoff' = backoff
    /\ failures' = IF ready THEN 0 ELSE failures
    /\ pc' = IF ui_open THEN "watch" ELSE "done"
    /\ told' = IF ui_open THEN "ConnectionLost" ELSE told
    /\ NewWait
    /\ UNCHANGED <<busVars, ready, status, shown>>

\* The attempt is over: a ready one resets the backoff, and the interface is
\* told before the wait begins.
Report ==
    /\ pc = "report"
    /\ ever_connected' = (ever_connected \/ ready)
    /\ backoff' = IF ready THEN BACKOFF_MIN ELSE backoff
    /\ failures' = IF ready THEN 0 ELSE failures
    /\ pc' = IF ui_open THEN "watch" ELSE "done"
    /\ told' = IF ui_open THEN "ConnectionLost" ELSE told
    /\ NewWait
    /\ UNCHANGED <<busVars, ready, status, shown>>

\* tokio::select! on ui_tx.closed(), in either wait.
NoticeClosed ==
    /\ pc \in Waiting \cup {"sleep"} /\ ~ui_open
    /\ pc' = "done"
    /\ UNCHANGED <<busVars, loopVars, waitVars>>

WaitReturns(s) == pc' = "sleep" /\ status' = s

\* receive_name_owner_changed: the watch exists, or breaks.
Watch ==
    /\ pc = "watch"
    /\ pc' \in {"check", "rest"}
    /\ UNCHANGED <<busVars, loopVars, waitVars>>

\* name_has_owner, after the watch exists; the call may fail too.
Check ==
    /\ pc = "check"
    /\ \/ Owned /\ WaitReturns("Present") /\ UNCHANGED heard
       \/ /\ ~Owned /\ pc' = "await" /\ UNCHANGED status
          /\ heard' = IF signalled THEN elapsed ELSE heard
       \/ pc' = "rest" /\ UNCHANGED <<status, heard>>
    /\ UNCHANGED <<busVars, loopVars, elapsed, rested, signalled, gained>>

\* NameOwnerChanged with a new owner.
Appear ==
    /\ pc = "await" /\ signalled
    /\ WaitReturns("Appeared")
    /\ UNCHANGED <<busVars, loopVars, elapsed, rested, signalled, gained, heard>>

\* The watch breaks while it waits: what it has heard is returned before.
WatchEnds ==
    /\ pc = "await" /\ ~signalled
    /\ pc' = "rest"
    /\ UNCHANGED <<busVars, loopVars, waitVars>>

\* Mutant: nothing ends the wait of a broken watch.
WaitTimesOutWatching ==
    /\ pc \in {"watch", "check", "await"} /\ elapsed >= backoff
    /\ WaitReturns("TimedOut")
    /\ UNCHANGED <<busVars, loopVars, elapsed, rested, signalled, gained, heard>>

\* timeout(max, appeared), and the plain sleep after a broken watch.
WaitTimesOut ==
    /\ \/ pc \in {"watch", "check", "await"} /\ elapsed >= backoff
       \/ pc = "rest" /\ rested >= backoff
    /\ WaitReturns("TimedOut")
    /\ UNCHANGED <<busVars, loopVars, elapsed, rested, signalled, gained, heard>>

\* Mutant: any wait that saw the bridge retries after the minimum.
DelayAfterPresent == IF status = "TimedOut" THEN backoff ELSE BACKOFF_MIN

\* Mutant: an appearance ends the wait, not the delay.
DelayIgnoringAppearance == backoff

\* An already owned but failing service waits the whole backoff.
Delay == IF status = "Appeared" THEN BACKOFF_MIN ELSE backoff

\* Mutant: the wait doubles past its ceiling.
DoubledUncapped == 2 * backoff

Doubled == IF 2 * backoff <= BACKOFF_MAX THEN 2 * backoff ELSE BACKOFF_MAX

\* sleep_until(retry_started + delay), then the next attempt.
Retry ==
    /\ pc = "sleep" /\ elapsed >= Delay
    /\ pc' = "connect"
    /\ backoff' = Doubled
    /\ failures' = IF failures < BACKOFF_MAX THEN failures + 1 ELSE failures
    /\ UNCHANGED <<busVars, ready, ever_connected, told, shown, waitVars>>

\* A timer that has run out fires before time goes on.
TimerDue ==
    \/ pc \in {"watch", "check", "await"} /\ elapsed >= backoff
    \/ pc = "await" /\ signalled
    \/ pc = "rest" /\ rested >= backoff
    \/ pc = "sleep" /\ elapsed >= Delay

Tick ==
    /\ pc \in Waiting \cup {"sleep"}
    /\ ~TimerDue
    /\ elapsed' = Later(elapsed)
    /\ rested' = IF pc = "rest" THEN Later(rested) ELSE rested
    /\ gained' = IF gained # NotGained THEN Later(gained) ELSE gained
    /\ UNCHANGED <<busVars, pc, loopVars, status, signalled, heard>>

Loop ==
    \/ Connect \/ ReadList \/ Announce \/ FirstSnapshot \/ StreamLost
    \/ Report \/ NoticeClosed \/ Watch \/ Check \/ Appear \/ WaitTimesOut
    \/ Retry

Next ==
    \/ \E b \in {"absent", "failing", "serving"} : BridgeBecomes(b)
    \/ CloseUi \/ StreamToClosedUi \/ WatchEnds \/ Loop \/ Tick

Spec == Init /\ [][Next]_vars

-----------------------------------------------------------------------------
(* Properties.                                                             *)

\* What the interface can conclude from the events it was sent.
Conclusion ==
    CASE told = "nothing" -> "checking"
      [] told = "ConnectionLost" -> IF shown THEN "lost" ELSE "unreached"
      [] told = "Reconnected" -> "reviving"
      [] OTHER -> "live"

Promise == INSTANCE ConnectionStatus WITH status <- Conclusion

\* The events sent are those of ConnectionStatus: Reconnected only after a
\* device list had once been sent and its connection was lost, and always
\* followed at once by the fresh list (supervise, worker.rs run).
KeepsPromise == Promise!Spec

\* 2^n, as a function the provers can reason about.
Power2[n \in Nat] == IF n = 0 THEN 1 ELSE 2 * Power2[n - 1]

\* The wait after n attempts that read no devices.
Wait(n) ==
    IF BACKOFF_MIN * Power2[n] <= BACKOFF_MAX
    THEN BACKOFF_MIN * Power2[n] ELSE BACKOFF_MAX

\* The waits of one disconnection are MIN, 2 MIN, 4 MIN ... up to MAX, and
\* they start over exactly when an attempt had read the devices, however many
\* attempts got a bus connection only (supervise).
BackoffDoubles ==
    pc \in Waiting \cup {"sleep"} => backoff = Wait(failures)

\* A bridge that does not gain its name while the supervisor waits, owned
\* but failing or absent, is tried again only after the whole backoff.
FailingServiceWaits ==
    [][Retry /\ gained = NotGained => elapsed >= backoff]_vars

\* Once name_has_owner has found no owner, an appearance is never missed and
\* never kept waiting: the next attempt comes at the very time of the
\* appearance, or at the minimum after the loss if that is later, even if the
\* name was gained and lost before the query, the timeout runs out together
\* with the appearance, or the bridge goes or fails meanwhile (wait_for_bridge,
\* supervise).  An owner that the query does find is AppearanceWakes' case.
HeardAppearanceWakes ==
    [][Retry /\ heard # NotGained =>
            elapsed = IF heard > BACKOFF_MIN THEN heard ELSE BACKOFF_MIN]_vars

\* "a genuine appearance wakes a disconnected client within the minimum":
\* with the bridge serving, no time passes in the sleep once the name was
\* gained in this wait and both the minimum since then and the minimum between
\* two attempts are over.
AppearanceWakes ==
    [][Tick /\ pc = "sleep" /\ bridge = "serving" /\ gained # NotGained =>
            gained < BACKOFF_MIN \/ elapsed < BACKOFF_MIN]_vars

\* The runtime schedules the loop and time passes; connecting to the bus
\* succeeds again and again, if tried again and again.
Fairness ==
    /\ WF_vars(Loop) /\ WF_vars(Tick)
    /\ SF_vars(Connect /\ pc' = "subscribe")

FairSpec == Spec /\ Fairness

\* A bridge that stays and serves is found, from any state of the backoff,
\* the watch and the waits, and then kept.
Recovers ==
    <>[](bridge = "serving" /\ ui_open) => <>[](pc = "streaming")
=============================================================================
