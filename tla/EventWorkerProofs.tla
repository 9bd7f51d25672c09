------------------------- MODULE EventWorkerProofs -------------------------
(***************************************************************************)
(* Proofs about the event worker, for all ids, targets, descriptions,      *)
(* thresholds, capacities and bounds: type correctness, the deadline of    *)
(* pending changes, that a change of the ruleset is always reported, how   *)
(* long a window stays open, and that the table ends up showing what the   *)
(* daemon has.                                                             *)
(*                                                                         *)
(* The last of these is about everything between the daemon and the table. *)
(* `Shows' says what the window, the handler's outbox, the channel and the *)
(* table together will make of a device; HistoryInv relates that to what   *)
(* the streams still hold and to what the daemon has, in five parts:       *)
(* ShapeInv, FeedInv, OrderInv, PresentInv and DisplayInv, each kept by    *)
(* the daemon's steps and by the worker's.                                 *)
(***************************************************************************)
EXTENDS EventWorker, SequenceTheorems, FiniteSetTheorems, TLAPS

USE DEF DaemonDevice

-----------------------------------------------------------------------------
(* What the coalescer's and the device table's operators return.           *)

\* Whatever is merged into whatever window leaves a complete entry, or a
\* removal, under the signal's id.
LEMMA PushEntry ==
    ASSUME NEW w \in Window, NEW s \in DeviceSignal
    PROVE  s.id \in Ids /\ Push(w, s)[s.id] \in Entry
<1>. DEFINE e == w[s.id]
<1>. USE CoalescerAssumption
<1>1. s.id \in Ids /\ e \in Entry \cup {None}
  BY DEF DeviceSignal, Window
<1>2. s.target \in Targets /\ s.desc \in Descriptions
  BY DEF DeviceSignal
<1>3. /\ LiveEntry(e) \in [removed: BOOLEAN, observed_insert: BOOLEAN,
            observed_remove: BOOLEAN, target: Targets \cup {None},
            desc: Descriptions \cup {None}, policy_decided: BOOLEAN]
      /\ LiveEntry(e).policy_decided => LiveEntry(e).target # None
  BY <1>1 DEF LiveEntry, Fresh, Entry
<1>4. MergePolicy(e, s) \in Entry
  BY <1>2, <1>3 DEF MergePolicy, Entry
<1>5. MergeRemove(e) \in Entry
  BY <1>1 DEF MergeRemove, Fresh, Entry
<1>6. MergePresence(e, s) \in Entry
  BY <1>2, <1>3 DEF MergePresence, Entry
<1>. QED
  BY <1>1, <1>4, <1>5, <1>6 DEF Push, Window

LEMMA PushType ==
    ASSUME NEW w \in Window, NEW s \in DeviceSignal
    PROVE  Push(w, s) \in Window
<1>1. \A i \in Ids \ {s.id} : Push(w, s)[i] = w[i]
  BY DEF Push, Window
<1>2. Push(w, s) = [i \in Ids |-> Push(w, s)[i]]
  BY DEF Push, Window
<1>. QED
  BY <1>1, <1>2, PushEntry DEF Window

LEMMA ApplyBatchType ==
    ASSUME NEW rows \in Table, NEW batch \in Window
    PROVE  ApplyBatch(rows, batch) \in Table
<1>1. ASSUME NEW i \in Ids PROVE ApplyDelta(rows[i], batch[i]) \in Row \cup {None}
  <2>1. rows[i] \in Row \cup {None} /\ batch[i] \in Entry \cup {None}
    BY DEF Table, Window
  <2>2. CASE batch[i] = None
    BY <2>1, <2>2 DEF ApplyDelta
  <2>3. CASE batch[i] # None /\ batch[i].removed
    BY <2>3 DEF ApplyDelta
  <2>4. CASE batch[i] # None /\ ~batch[i].removed
    <3>1. batch[i].target \in Targets /\ batch[i].target # None
      BY <2>1, <2>4 DEF Entry
    <3>2. batch[i].desc \in Descriptions /\ batch[i].desc # None
      BY <2>1, <2>4 DEF Entry
    <3>. QED
      BY <2>4, <3>1, <3>2 DEF ApplyDelta, Row
  <2>. QED
    BY <2>2, <2>3, <2>4
<1>. QED
  BY <1>1 DEF ApplyBatch, Table

LEMMA EmptyTypes == EmptyTable \in Table /\ EmptyWindow \in Window
BY DEF EmptyTable, Table, EmptyWindow, Window

-----------------------------------------------------------------------------
(* Sequences that contain an element of a set.                             *)

Contains(q, G) == \E n \in 1..Len(q) : q[n] \in G

LEMMA ContainsAppend ==
    ASSUME NEW S, NEW q \in Seq(S), NEW x \in S, NEW G
    PROVE  Contains(Append(q, x), G) <=> (Contains(q, G) \/ x \in G)
<1>1. /\ Len(Append(q, x)) = Len(q) + 1 /\ Len(q) \in Nat
      /\ Append(q, x)[Len(q) + 1] = x
      /\ \A n \in 1..Len(q) : Append(q, x)[n] = q[n]
  OBVIOUS
<1>2. 1..(Len(q) + 1) = 1..Len(q) \cup {Len(q) + 1}
  BY <1>1
<1>. QED
  BY <1>1, <1>2 DEF Contains

LEMMA ContainsConcat ==
    ASSUME NEW S, NEW p \in Seq(S), NEW q \in Seq(S), NEW G,
           Contains(p, G) \/ Contains(q, G)
    PROVE  Contains(p \o q, G)
<1>1. /\ Len(p) \in Nat /\ Len(q) \in Nat /\ Len(p \o q) = Len(p) + Len(q)
      /\ \A n \in 1..Len(p) : (p \o q)[n] = p[n]
  OBVIOUS
<1>2. ASSUME NEW n \in 1..Len(q)
      PROVE  Len(p) + n \in 1..Len(p \o q) /\ (p \o q)[Len(p) + n] = q[n]
  BY <1>1
<1>3. CASE Contains(p, G)
  <2>1. PICK n \in 1..Len(p) : p[n] \in G
    BY <1>3 DEF Contains
  <2>2. n \in 1..Len(p \o q) /\ (p \o q)[n] \in G
    BY <1>1, <2>1
  <2>. QED
    BY <2>2 DEF Contains
<1>4. CASE Contains(q, G)
  <2>1. PICK n \in 1..Len(q) : q[n] \in G
    BY <1>4 DEF Contains
  <2>. QED
    BY <1>2, <2>1 DEF Contains
<1>. QED
  BY <1>3, <1>4

LEMMA ContainsTail ==
    ASSUME NEW S, NEW q \in Seq(S), q # <<>>, NEW G
    PROVE  Contains(q, G) <=> (Head(q) \in G \/ Contains(Tail(q), G))
<1>1. /\ Len(q) \in Nat \ {0} /\ Head(q) = q[1]
      /\ Len(Tail(q)) = Len(q) - 1
      /\ \A n \in 1..(Len(q) - 1) : Tail(q)[n] = q[n + 1]
  OBVIOUS
<1>2. ASSUME Contains(q, G), Head(q) \notin G PROVE Contains(Tail(q), G)
  <2>1. PICK n \in 1..Len(q) : q[n] \in G
    BY <1>2 DEF Contains
  <2>2. n # 1 /\ n - 1 \in 1..(Len(q) - 1) /\ Tail(q)[n - 1] = q[n]
    BY <1>1, <1>2, <2>1
  <2>. QED
    BY <1>1, <2>1, <2>2 DEF Contains
<1>3. ASSUME Head(q) \in G PROVE Contains(q, G)
  BY <1>1, <1>3 DEF Contains
<1>4. ASSUME Contains(Tail(q), G) PROVE Contains(q, G)
  <2>1. PICK n \in 1..(Len(q) - 1) : Tail(q)[n] \in G
    BY <1>1, <1>4 DEF Contains
  <2>2. n + 1 \in 1..Len(q) /\ q[n + 1] \in G
    BY <1>1, <2>1
  <2>. QED
    BY <2>2 DEF Contains
<1>. QED
  BY <1>2, <1>3, <1>4

-----------------------------------------------------------------------------
(* The streams.                                                            *)

LEMMA StreamNames ==
    /\ Len(Subscriptions) = 6
    /\ Streams = {"presence", "changed", "applied", "exceptions", "parameters",
                  "owner"}
<1>1. Len(Subscriptions) = 6
  BY DEF Subscriptions
<1>2. 1..6 = {1, 2, 3, 4, 5, 6}
  OBVIOUS
<1>3. /\ Subscriptions[1] = "presence" /\ Subscriptions[2] = "changed"
      /\ Subscriptions[3] = "applied" /\ Subscriptions[4] = "exceptions"
      /\ Subscriptions[5] = "parameters" /\ Subscriptions[6] = "owner"
  BY DEF Subscriptions
<1>. QED
  BY <1>1, <1>2, <1>3 DEF Streams

LEMMA DeviceStreamNames ==
    DeviceStreams \subseteq Streams /\ {"exceptions", "owner"} \cap DeviceStreams = {}
BY StreamNames DEF DeviceStreams

\* Once `subscribe' is over, every stream exists.
LEMMA AllSubscribed ==
    ASSUME subscribed = Len(Subscriptions)
    PROVE  Subscribed = Streams
BY DEF Subscribed, Streams

-----------------------------------------------------------------------------
(* Type correctness.                                                       *)

\* The subscriptions are complete exactly when `subscribe' has returned.
SubscribedInv ==
    /\ pc = "subscribe" => subscribed < Len(Subscriptions)
    /\ pc \in {"list", "relist", "loop"} => subscribed = Len(Subscriptions)

TypeInv == TypeOK /\ SubscribedInv

LEMMA EventTypes ==
    /\ \A t \in {"Reconnected", "ConnectionLost", "ObservationGap",
                 "InvalidateRuleCache", "DaemonException", "ParameterChanged"} :
            Event(t) \in UiEvent
    /\ \A t \in {"Exception", "Parameter", "OwnerLost"} : Event(t) \in Incoming
    /\ \A devices \in Table : Snapshot(devices) \in UiEvent
    /\ \A batch \in Window : Batch(batch) \in UiEvent
<1>1. \A t \in {"Reconnected", "ConnectionLost", "ObservationGap",
                "InvalidateRuleCache", "DaemonException", "ParameterChanged"} :
        Event(t) \in UiEvent
  BY DEF Event, UiEvent
<1>2. \A t \in {"Exception", "Parameter", "OwnerLost"} : Event(t) \in Incoming
  BY DEF Event, Incoming
<1>3. \A devices \in Table : Snapshot(devices) \in UiEvent
  BY DEF Snapshot, UiEvent
<1>4. \A batch \in Window : Batch(batch) \in UiEvent
  BY DEF Batch, UiEvent
<1>. QED
  BY <1>1, <1>2, <1>3, <1>4

LEMMA ListDevicesType == ASSUME TypeOK PROVE ListDevices \in Table
<1>1. \A i \in Ids : daemon[i] # None =>
            daemon[i].target \in Targets /\ daemon[i].desc \in Descriptions
  BY DEF TypeOK
<1>. QED
  BY <1>1 DEF ListDevices, Table, Row

LEMMA TypeInit == Init => TypeInv
<1>. SUFFICES ASSUME Init PROVE TypeInv
  OBVIOUS
<1>1. streams \in [Streams -> Seq(Incoming)]
  BY DEF Init
<1>2. daemon \in [Ids -> DaemonDevice \cup {None}]
  BY DEF Init
<1>3. waited \in 0..QUIET_WINDOW /\ changes \in 0..MaxChanges /\ losses \in 0..MaxLosses
  BY CoalescerAssumption, EventWorkerAssumption DEF Init
<1>4. subscribed \in 0..Len(Subscriptions) /\ SubscribedInv
  BY StreamNames DEF Init, SubscribedInv
<1>5. outbox \in Seq(UiEvent) /\ channel \in Seq(UiEvent)
  BY DEF Init
<1>. QED
  BY <1>1, <1>2, <1>3, <1>4, <1>5, EmptyTypes DEF Init, TypeInv, TypeOK

\* A device signal keeps the streams and the history well typed.
LEMMA EmitType ==
    ASSUME TypeOK, NEW on, NEW signal \in DeviceSignal,
           NEW permanent \in BOOLEAN, Emit(on, signal, permanent)
    PROVE  /\ streams' \in [Streams -> Seq(Incoming)]
           /\ disturbed' \in SUBSET {"gap", "restart", "overtaken", "split"}
<1>1. ASSUME NEW s \in Streams
      PROVE  Append(streams[s], [type |-> "Device", signal |-> signal,
                invalidates_rules |-> permanent /\ s = "changed"])
                \in Seq(Incoming)
  <2>1. [type |-> "Device", signal |-> signal,
         invalidates_rules |-> permanent /\ s = "changed"] \in Incoming
    BY DEF Incoming
  <2>2. streams[s] \in Seq(Incoming)
    BY DEF TypeOK
  <2>. QED
    BY <2>1, <2>2
<1>2. \A s \in Streams : streams[s] \in Seq(Incoming)
  BY DEF TypeOK
<1>3. streams' \in [Streams -> Seq(Incoming)]
  BY <1>1, <1>2 DEF Emit
<1>4. disturbed' \in SUBSET {"gap", "restart", "overtaken", "split"}
  BY DEF Emit, TypeOK
<1>. QED
  BY <1>3, <1>4

\* What the daemon and the bridge do.
LEMMA TypeDaemon == TypeInv /\ (Daemon \/ BridgeBack) => TypeInv'
<1>. SUFFICES ASSUME TypeInv, Daemon \/ BridgeBack PROVE TypeInv'
  OBVIOUS
<1>. USE EventWorkerAssumption DEF TypeInv, SubscribedInv
<1>1. ASSUME NEW i \in Ids, NEW d \in Descriptions, Plug(i, d) PROVE TypeInv'
  <2>. DEFINE signal == [kind |-> "Presence", id |-> i, event |-> "Insert",
                         target |-> ProvisionalTarget, desc |-> d]
  <2>1. signal \in DeviceSignal
    BY DEF DeviceSignal, PresenceEvents
  <2>2. /\ streams' \in [Streams -> Seq(Incoming)]
        /\ disturbed' \in SUBSET {"gap", "restart", "overtaken", "split"}
    BY <1>1, <2>1, EmitType DEF Plug
  <2>. QED
    BY <1>1, <2>2 DEF Plug, DaemonStep, TypeOK, workerVars
<1>2. ASSUME NEW i \in Ids, Update(i) PROVE TypeInv'
  <2>. DEFINE signal == [kind |-> "Presence", id |-> i, event |-> "Update",
                         target |-> ProvisionalTarget, desc |-> daemon[i].desc]
  <2>1. signal \in DeviceSignal
    BY <1>2 DEF DeviceSignal, PresenceEvents, TypeOK, Update
  <2>2. /\ streams' \in [Streams -> Seq(Incoming)]
        /\ disturbed' \in SUBSET {"gap", "restart", "overtaken", "split"}
    BY <1>2, <2>1, EmitType DEF Update
  <2>. QED
    BY <1>2, <2>2 DEF Update, DaemonStep, TypeOK, workerVars
<1>3. ASSUME NEW i \in Ids, NEW t \in Targets, Decide(i, t) PROVE TypeInv'
  <2>. DEFINE signal == [kind |-> "Policy", id |-> i, target |-> t,
                         desc |-> daemon[i].desc]
  <2>1. signal \in DeviceSignal
    BY <1>3 DEF DeviceSignal, TypeOK, Decide
  <2>2. /\ streams' \in [Streams -> Seq(Incoming)]
        /\ disturbed' \in SUBSET {"gap", "restart", "overtaken", "split"}
    BY <1>3, <2>1, EmitType DEF Decide
  <2>3. daemon' \in [Ids -> DaemonDevice \cup {None}]
    <3>1. [daemon[i] EXCEPT !.target = t, !.decided = TRUE]
            \in DaemonDevice
      BY <1>3 DEF Decide, TypeOK
    <3>. QED
      BY <1>3, <3>1 DEF Decide, TypeOK
  <2>. QED
    BY SMTT(30), <1>3, <2>2, <2>3 DEF Decide, DaemonStep, TypeOK, workerVars
<1>4. ASSUME NEW i \in Ids, NEW t \in Targets, NEW permanent \in BOOLEAN,
             ChangePolicy(i, t, permanent)
      PROVE  TypeInv'
  <2>. DEFINE signal == [kind |-> "Policy", id |-> i, target |-> t,
                         desc |-> daemon[i].desc]
  <2>1. signal \in DeviceSignal
    BY <1>4 DEF DeviceSignal, TypeOK, ChangePolicy
  <2>2. /\ streams' \in [Streams -> Seq(Incoming)]
        /\ disturbed' \in SUBSET {"gap", "restart", "overtaken", "split"}
    BY <1>4, <2>1, EmitType DEF ChangePolicy
  <2>3. daemon' \in [Ids -> DaemonDevice \cup {None}]
    <3>1. [daemon[i] EXCEPT !.target = t]
            \in DaemonDevice
      BY <1>4 DEF ChangePolicy, TypeOK
    <3>. QED
      BY <1>4, <3>1 DEF ChangePolicy, TypeOK
  <2>4. unreported' \in BOOLEAN
    BY <1>4 DEF ChangePolicy, TypeOK
  <2>. QED
    BY <1>4, <2>2, <2>3, <2>4 DEF ChangePolicy, DaemonStep, TypeOK, workerVars
<1>5. ASSUME NEW i \in Ids, Unplug(i) PROVE TypeInv'
  <2>. DEFINE signal == [kind |-> "Presence", id |-> i, event |-> "Remove",
                         target |-> daemon[i].target, desc |-> daemon[i].desc]
  <2>1. signal \in DeviceSignal
    BY <1>5 DEF DeviceSignal, PresenceEvents, TypeOK, Unplug
  <2>2. /\ streams' \in [Streams -> Seq(Incoming)]
        /\ disturbed' \in SUBSET {"gap", "restart", "overtaken", "split"}
    BY <1>5, <2>1, EmitType DEF Unplug
  <2>. QED
    BY <1>5, <2>2 DEF Unplug, DaemonStep, TypeOK, workerVars
<1>6. CASE RaiseException
  BY SMTT(30), <1>6, EventTypes, StreamNames
     DEF RaiseException, DaemonStep, TypeOK, workerVars
<1>7. CASE ChangeParameter
  BY SMTT(30), <1>7, EventTypes, StreamNames
     DEF ChangeParameter, DaemonStep, TypeOK, workerVars
<1>8. CASE BridgeLost
  <2>1. streams' \in [Streams -> Seq(Incoming)]
    BY <1>8, EventTypes, StreamNames DEF BridgeLost, TypeOK
  <2>2. disturbed' \in SUBSET {"gap", "restart", "overtaken", "split"}
    BY <1>8 DEF BridgeLost, TypeOK
  <2>3. losses' \in 0..MaxLosses
    BY <1>8 DEF BridgeLost, TypeOK
  <2>. QED
    BY <1>8, <2>1, <2>2, <2>3 DEF BridgeLost, TypeOK, workerVars
<1>9. CASE ConnectionClosed
  BY <1>9 DEF ConnectionClosed, TypeOK, workerVars, historyVars
<1>10. CASE BridgeBack
  BY <1>10 DEF BridgeBack, TypeOK, workerVars, historyVars
<1>11. ASSUME plugged # Descriptions
       PROVE  (CHOOSE d \in Descriptions : d \notin plugged) \in Descriptions
  BY <1>11 DEF TypeOK
<1>. QED
  BY <1>1, <1>2, <1>3, <1>4, <1>5, <1>6, <1>7, <1>8, <1>9, <1>10, <1>11
     DEF Daemon

\* What the worker, the interface and the clock do.
LEMMA TypeWorker == TypeInv /\ (Worker \/ Apply \/ Tick) => TypeInv'
<1>. SUFFICES ASSUME TypeInv, Worker \/ Apply \/ Tick PROVE TypeInv'
  OBVIOUS
<1>. USE CoalescerAssumption, EventWorkerAssumption DEF TypeInv, SubscribedInv
<1>1. CASE Send
  BY SMTT(30), <1>1 DEF Send, TypeOK, daemonVars, historyVars
<1>2. CASE Subscribe
  <2>1. /\ subscribed \in 0..6 /\ subscribed < 6
        /\ subscribed' = subscribed + 1
        /\ pc' = IF subscribed' = 6 THEN "list" ELSE "subscribe"
    BY <1>2, StreamNames DEF Subscribe, TypeOK
  <2>2. subscribed' \in 0..6
    BY <2>1
  <2>3. SubscribedInv' /\ subscribed' \in 0..Len(Subscriptions)
    BY <2>1, <2>2, StreamNames DEF SubscribedInv
  <2>4. UNCHANGED <<daemonVars, unreported, streams, ever_connected, pending,
                    age, waited, outbox, channel, view, historyVars>>
    BY <1>2 DEF Subscribe
  <2>. QED
    BY <2>1, <2>3, <2>4 DEF TypeOK, daemonVars, historyVars
<1>3. CASE Start
  BY SMTT(30), <1>3, EventTypes, ListDevicesType
     DEF Start, TypeOK, daemonVars, historyVars
<1>4. CASE Resync
  BY SMTT(30), <1>4, EventTypes, ListDevicesType
     DEF Resync, TypeOK, daemonVars, historyVars
<1>5. CASE CallFails
  BY SMTT(30), <1>5, EventTypes, EmptyTypes
     DEF CallFails, Exit, TypeOK, daemonVars, historyVars
<1>6. ASSUME NEW s \in Streams, TakeDevice(s) PROVE TypeInv'
  <2>. DEFINE item == Head(streams[s])
              merged == Push(pending, item.signal)
  <2>1. streams[s] \in Seq(Incoming) /\ streams[s] # <<>>
    BY <1>6 DEF TypeOK, TakeDevice
  <2>2. item \in Incoming /\ item.type = "Device" /\ Tail(streams[s]) \in Seq(Incoming)
    BY SMTT(30), <1>6, <2>1 DEF TakeDevice
  <2>3. item.signal \in DeviceSignal /\ item.invalidates_rules \in BOOLEAN
    BY <2>2 DEF Incoming
  <2>4. merged \in Window
    BY <2>3, PushType DEF TypeOK
  <2>5. Invalidation(item) \in Seq(UiEvent)
    BY EventTypes DEF Invalidation
  <2>6. outbox' \in Seq(UiEvent)
    <3>1. Event("ObservationGap") \in UiEvent
      BY EventTypes
    <3>2. <<Event("ObservationGap")>> \in Seq(UiEvent)
      BY <3>1
    <3>3. \/ outbox' = Invalidation(item)
          \/ outbox' = Invalidation(item) \o <<Event("ObservationGap")>>
      BY <1>6 DEF TakeDevice
    <3>. QED
      BY SMTT(30), <2>5, <3>2, <3>3
  <2>7. item.signal.desc \in Descriptions
    BY <2>3 DEF DeviceSignal
  <2>8. /\ decided' \in SUBSET Descriptions /\ gone' \in SUBSET Descriptions
        /\ disturbed' \in SUBSET {"gap", "restart", "overtaken", "split"}
    BY <1>6, <2>7 DEF TakeDevice, TakeHistory, Disturbance, TypeOK
  <2>9. pending' \in Window /\ age' \in 0..(MAX_LATENCY + 1) \cup {None}
    BY SMTT(30), <1>6, <2>4, EmptyTypes DEF TakeDevice, OpenWindow, TypeOK
  <2>10. streams' \in [Streams -> Seq(Incoming)]
    BY <1>6, <2>2 DEF TakeDevice, TypeOK
  <2>11. pc = "loop" /\ pc' \in {"relist", "loop"} /\ waited' \in 0..QUIET_WINDOW
    BY <1>6 DEF TakeDevice
  <2>12. UNCHANGED <<daemonVars, unreported, subscribed, ever_connected, channel,
                     view>>
    BY <1>6 DEF TakeDevice
  <2>. QED
    BY <2>6, <2>8, <2>9, <2>10, <2>11, <2>12 DEF TypeOK, daemonVars
<1>7. ASSUME NEW s \in Streams, NEW type, NEW sending \in Seq(UiEvent),
             TakeOther(s, type, sending)
      PROVE  TypeInv'
  <2>1. Tail(streams[s]) \in Seq(Incoming)
    BY <1>7 DEF TakeOther, TypeOK
  <2>2. streams' \in [Streams -> Seq(Incoming)] /\ outbox' \in Seq(UiEvent)
    BY <1>7, <2>1 DEF TakeOther, TypeOK
  <2>3. pc = "loop" /\ waited' \in 0..QUIET_WINDOW
    BY <1>7 DEF TakeOther
  <2>4. UNCHANGED <<daemonVars, unreported, subscribed, pc, ever_connected,
                    pending, age, channel, view, historyVars>>
    BY <1>7 DEF TakeOther
  <2>. QED
    BY <2>2, <2>3, <2>4 DEF TypeOK, daemonVars, historyVars
<1>8. CASE TakeException \/ TakeParameter
  <2>1. CASE TakeException
    <3>1. <<Event("DaemonException"), Event("InvalidateRuleCache")>> \in Seq(UiEvent)
      BY EventTypes
    <3>. QED
      BY <1>7, <2>1, <3>1, StreamNames DEF TakeException
  <2>2. CASE TakeParameter
    <3>1. <<Event("ParameterChanged")>> \in Seq(UiEvent)
      BY EventTypes
    <3>. QED
      BY <1>7, <2>2, <3>1, StreamNames DEF TakeParameter
  <2>. QED
    BY <1>8, <2>1, <2>2
<1>9. Flush \in Seq(UiEvent)
  BY EventTypes DEF Flush, TypeOK
<1>10. CASE Lose
  BY SMTT(30), <1>9, <1>10, EventTypes, EmptyTypes
     DEF Lose, Exit, TypeOK, daemonVars, historyVars
<1>11. CASE Timeout
  BY SMTT(30), <1>9, <1>11, EmptyTypes DEF Timeout, TypeOK, daemonVars, historyVars
<1>12. CASE Restart
  <2>1. streams' \in [Streams -> Seq(Incoming)]
    BY <1>12 DEF Restart
  <2>2. subscribed' \in 0..Len(Subscriptions) /\ SubscribedInv'
    BY <1>12, StreamNames DEF Restart
  <2>3. /\ pc' = "subscribe" /\ closed' = FALSE
        /\ decided' = {} /\ gone' = {} /\ disturbed' = {}
        /\ UNCHANGED <<daemon, plugged, changes, bridge_up, losses, unreported,
                       ever_connected, pending, age, waited, outbox, channel,
                       view>>
    BY <1>12 DEF Restart
  <2>. QED
    BY <2>1, <2>2, <2>3 DEF TypeOK
<1>13. CASE Apply
  <2>1. Head(channel) \in UiEvent /\ Tail(channel) \in Seq(UiEvent)
    BY <1>13 DEF Apply, TypeOK
  <2>2. view' \in Table
    <3>1. ASSUME Head(channel).type = "DeviceSnapshot"
          PROVE  Head(channel).devices \in Table
      BY <2>1, <3>1 DEF UiEvent
    <3>2. ASSUME Head(channel).type = "DeviceBatch"
          PROVE  ApplyBatch(view, Head(channel).batch) \in Table
      <4>1. Head(channel).batch \in Window
        BY <2>1, <3>2 DEF UiEvent
      <4>. QED
        BY <4>1, ApplyBatchType DEF TypeOK
    <3>. QED
      BY <1>13, <3>1, <3>2, EmptyTypes DEF Apply, TypeOK
  <2>. QED
    BY <1>13, <2>1, <2>2 DEF Apply, TypeOK, daemonVars, workerVars, historyVars
<1>14. CASE Tick
  <2>1. age' \in 0..(MAX_LATENCY + 1) /\ waited' \in 0..QUIET_WINDOW
    <3>1. age \in 0..(MAX_LATENCY + 1) /\ waited \in 0..QUIET_WINDOW
      BY <1>14 DEF Tick, TypeOK
    <3>2. /\ age' = IF age <= MAX_LATENCY THEN age + 1 ELSE age
          /\ waited' = IF Idle /\ waited < QUIET_WINDOW THEN waited + 1 ELSE waited
      BY <1>14 DEF Tick
    <3>3. MAX_LATENCY \in Nat /\ QUIET_WINDOW \in Nat
      OBVIOUS
    <3>. QED
      BY <3>1, <3>2, <3>3
  <2>2. UNCHANGED <<daemonVars, unreported, subscribed, streams, pc,
                    ever_connected, pending, outbox, channel, view, historyVars>>
    BY <1>14 DEF Tick
  <2>. QED
    BY <2>1, <2>2 DEF TypeOK, daemonVars, historyVars
<1>. QED
  BY <1>1, <1>2, <1>3, <1>4, <1>5, <1>6, <1>8, <1>10, <1>11, <1>12,
     <1>13, <1>14, DeviceStreamNames DEF Worker

LEMMA TypeNext == TypeInv /\ [Next]_vars => TypeInv'
<1>. SUFFICES ASSUME TypeInv, [Next]_vars PROVE TypeInv'
  OBVIOUS
<1>1. CASE UNCHANGED vars
  BY <1>1 DEF vars, daemonVars, workerVars, historyVars, TypeInv, TypeOK,
              SubscribedInv
<1>. QED
  BY <1>1, TypeDaemon, TypeWorker DEF Next

\* The worker's state, the streams, the window, what is being sent and the
\* table keep their types: no row ever shows a device without its target and
\* its description, whatever batches are applied in whatever order.
THEOREM TypeCorrect == Spec => []TypeOK
<1>1. Spec => []TypeInv
  BY TypeInit, TypeNext, PTL DEF Spec
<1>2. TypeInv => TypeOK
  BY DEF TypeInv
<1>. QED
  BY <1>1, <1>2, PTL

-----------------------------------------------------------------------------
(* The deadline of pending changes.                                        *)

\* What push leaves is never an empty window.
LEMMA PushChanges ==
    ASSUME NEW w \in Window, NEW s \in DeviceSignal
    PROVE  Changed(Push(w, s)) # {}
BY PushEntry, CoalescerAssumption DEF Changed

LEMMA DeadlineNext ==
    TypeInv /\ PendingHasDeadline /\ [Next]_vars => PendingHasDeadline'
<1>. SUFFICES ASSUME TypeInv, PendingHasDeadline, [Next]_vars
              PROVE  PendingHasDeadline'
  OBVIOUS
<1>. USE DEF PendingHasDeadline, Changed
<1>1. Changed(EmptyWindow) = {}
  BY DEF EmptyWindow
<1>2. ASSUME UNCHANGED <<pending, age>> PROVE PendingHasDeadline'
  BY <1>2
<1>3. CASE Daemon \/ BridgeBack \/ Apply
  BY <1>2, <1>3 DEF Daemon, Plug, Update, Decide, ChangePolicy, Unplug, RaiseException,
     ChangeParameter, BridgeLost, ConnectionClosed, BridgeBack, Apply,
     DaemonStep, workerVars
<1>4. CASE Send \/ Subscribe \/ Start \/ Resync \/ Restart
  BY <1>2, <1>4 DEF Send, Subscribe, Start, Resync, Restart
<1>5. CASE TakeException \/ TakeParameter
  BY <1>2, <1>5 DEF TakeException, TakeParameter, TakeOther
<1>6. CASE CallFails \/ Lose \/ Timeout
  BY <1>1, <1>6 DEF CallFails, Lose, Timeout, Exit
<1>7. ASSUME NEW s \in Streams, TakeDevice(s) PROVE PendingHasDeadline'
  <2>. DEFINE merged == Push(pending, Head(streams[s]).signal)
  <2>1. Head(streams[s]) \in Incoming /\ Head(streams[s]).type = "Device"
    BY <1>7 DEF TypeInv, TypeOK, TakeDevice
  <2>2. Head(streams[s]).signal \in DeviceSignal
    BY <2>1 DEF Incoming
  <2>3. Changed(merged) # {}
    BY <2>2, PushChanges DEF TypeInv, TypeOK
  <2>4. OpenWindow # None
    BY CoalescerAssumption, EventWorkerAssumption DEF OpenWindow
  <2>5. \/ pending' = EmptyWindow /\ age' = None
        \/ pending' = merged /\ age' = OpenWindow
    BY <1>7 DEF TakeDevice
  <2>. QED
    BY <1>1, <2>3, <2>4, <2>5
<1>8. CASE Tick
  <2>1. age # None /\ age' # None
    <3>1. age \in 0..(MAX_LATENCY + 1) /\ MAX_LATENCY \in Nat
      BY <1>8, CoalescerAssumption DEF Tick, TypeInv, TypeOK
    <3>2. age' \in 0..(MAX_LATENCY + 1)
      BY <1>8, <3>1 DEF Tick
    <3>. QED
      BY <1>8, <3>2, EventWorkerAssumption DEF Tick
  <2>2. pending' = pending
    BY <1>8 DEF Tick
  <2>. QED
    BY <2>1, <2>2
<1>9. CASE UNCHANGED vars
  BY <1>2, <1>9 DEF vars, workerVars
<1>. QED
  BY <1>3, <1>4, <1>5, <1>6, <1>7, <1>8, <1>9,
     DeviceStreamNames DEF Next, Worker

\* The loop never waits without a deadline on changes it holds: a window has
\* an opening time exactly while something is pending, through merges, burst
\* resynchronizations, flushes and lost connections.
THEOREM DeadlineCorrect == Spec => []PendingHasDeadline
<1>1. Init => PendingHasDeadline
  BY DEF Init, PendingHasDeadline, Changed, EmptyWindow
<1>. QED
  BY <1>1, TypeInit, TypeNext, DeadlineNext, PTL DEF Spec

-----------------------------------------------------------------------------
(* No change of the ruleset goes unreported.                               *)

InvalidationEvent == {Event("InvalidateRuleCache")}

\* The items whose handler sends InvalidateRuleCache.
Invalidating ==
    {item \in Incoming : \/ item.type = "Exception"
                         \/ item.type = "Device" /\ item.invalidates_rules}

\* Why the interface will yet be told: the run has still to start or is over,
\* and every run starts with an invalidation, or one is under way.
WillBeReported ==
    \/ pc \in {"subscribe", "list", "lost"}
    \/ closed
    \/ streams["owner"] # <<>>
    \/ Contains(streams["exceptions"], Invalidating)
    \/ Contains(streams["changed"], Invalidating)
    \/ Contains(outbox, InvalidationEvent)
    \/ Contains(channel, InvalidationEvent)

\* A bridge lost while the loop runs was noticed: its owner is watched.
LossNoticed ==
    pc \in {"loop", "relist"} /\ ~bridge_up /\ ~closed => streams["owner"] # <<>>

ReportInv == (unreported => WillBeReported) /\ LossNoticed

LEMMA ReportInit == Init => ReportInv
BY DEF Init, ReportInv, WillBeReported, LossNoticed

\* An invalidating signal reaches the loop, or the loop is told of its loss.
LEMMA EmitReports ==
    ASSUME TypeInv, ReportInv, NEW on, NEW signal \in DeviceSignal,
           NEW permanent \in BOOLEAN, Emit(on, signal, permanent),
           UNCHANGED <<pc, closed, bridge_up, outbox, channel>>,
           unreported' => unreported \/ (permanent /\ "changed" \in on)
    PROVE  ReportInv'
<1>. DEFINE x(s) == [type |-> "Device", signal |-> signal,
                     invalidates_rules |-> permanent /\ s = "changed"]
<1>1. ASSUME NEW s \in Streams
      PROVE  /\ x(s) \in Incoming /\ streams[s] \in Seq(Incoming)
             /\ streams'[s] = Append(streams[s], x(s)) \/ streams'[s] = streams[s]
  BY DEF Incoming, TypeInv, TypeOK, Emit
<1>2. ASSUME NEW s \in Streams, Contains(streams[s], Invalidating)
      PROVE  Contains(streams'[s], Invalidating)
  <2>1. Contains(Append(streams[s], x(s)), Invalidating)
    BY <1>1, <1>2, ContainsAppend
  <2>. QED
    BY <1>1, <1>2, <2>1
<1>3. ASSUME streams["owner"] # <<>> PROVE streams'["owner"] # <<>>
  BY <1>1, <1>3, StreamNames
<1>4. WillBeReported => WillBeReported'
  BY <1>2, <1>3, StreamNames DEF WillBeReported
<1>5. LossNoticed'
  BY <1>3 DEF LossNoticed, ReportInv
<1>6. ASSUME permanent, "changed" \in on PROVE WillBeReported'
  <2>1. CASE pc \in {"loop", "relist"} /\ bridge_up /\ ~closed
    <3>1. Hears("changed")
      BY <2>1, AllSubscribed, StreamNames DEF Hears, TypeInv, SubscribedInv
    <3>2. streams'["changed"] = Append(streams["changed"], x("changed"))
      BY <1>6, <3>1, StreamNames DEF Emit
    <3>3. x("changed") \in Invalidating
      BY <1>1, <1>6, StreamNames DEF Invalidating
    <3>4. Contains(streams'["changed"], Invalidating)
      BY <1>1, <3>2, <3>3, ContainsAppend, StreamNames
    <3>. QED
      BY <3>4 DEF WillBeReported
  <2>2. CASE pc \in {"loop", "relist"} /\ ~bridge_up /\ ~closed
    BY <1>3, <2>2 DEF ReportInv, LossNoticed, WillBeReported
  <2>3. CASE closed \/ pc \in {"subscribe", "list", "lost"}
    BY <2>3 DEF WillBeReported
  <2>. QED
    BY <2>1, <2>2, <2>3 DEF TypeInv, TypeOK
<1>. QED
  BY <1>4, <1>5, <1>6 DEF ReportInv

LEMMA ReportDaemon ==
    TypeInv /\ ReportInv /\ (Daemon \/ BridgeBack) => ReportInv'
<1>. SUFFICES ASSUME TypeInv, ReportInv, Daemon \/ BridgeBack PROVE ReportInv'
  OBVIOUS
<1>1. ASSUME DaemonStep
      PROVE  UNCHANGED <<pc, closed, bridge_up, outbox, channel>>
  BY <1>1 DEF DaemonStep, workerVars
<1>2. ASSUME NEW i \in Ids, NEW d \in Descriptions, Plug(i, d) PROVE ReportInv'
  <2>. DEFINE signal == [kind |-> "Presence", id |-> i, event |-> "Insert",
                         target |-> ProvisionalTarget, desc |-> d]
  <2>1. signal \in DeviceSignal
    BY EventWorkerAssumption DEF DeviceSignal, PresenceEvents
  <2>. QED
    BY <1>1, <1>2, <2>1, EmitReports DEF Plug
<1>3. ASSUME NEW i \in Ids, Update(i) PROVE ReportInv'
  <2>. DEFINE signal == [kind |-> "Presence", id |-> i, event |-> "Update",
                         target |-> ProvisionalTarget, desc |-> daemon[i].desc]
  <2>1. signal \in DeviceSignal
    BY <1>3, EventWorkerAssumption
       DEF DeviceSignal, PresenceEvents, TypeInv, TypeOK, Update
  <2>. QED
    BY <1>1, <1>3, <2>1, EmitReports DEF Update
<1>4. ASSUME NEW i \in Ids, NEW t \in Targets, Decide(i, t) PROVE ReportInv'
  <2>. DEFINE signal == [kind |-> "Policy", id |-> i, target |-> t,
                         desc |-> daemon[i].desc]
  <2>1. signal \in DeviceSignal
    BY <1>4 DEF DeviceSignal, TypeInv, TypeOK, Decide
  <2>. QED
    BY <1>1, <1>4, <2>1, EmitReports DEF Decide
<1>5. ASSUME NEW i \in Ids, NEW t \in Targets, NEW permanent \in BOOLEAN,
             ChangePolicy(i, t, permanent)
      PROVE  ReportInv'
  <2>. DEFINE signal == [kind |-> "Policy", id |-> i, target |-> t,
                         desc |-> daemon[i].desc]
  <2>1. signal \in DeviceSignal
    BY <1>5 DEF DeviceSignal, TypeInv, TypeOK, ChangePolicy
  <2>2. /\ Emit({"changed", "applied"}, signal, permanent)
        /\ unreported' => unreported \/ (permanent /\ "changed" \in {"changed", "applied"})
    BY <1>5 DEF ChangePolicy
  <2>. QED
    BY <1>1, <1>5, <2>1, <2>2, EmitReports DEF ChangePolicy
<1>6. ASSUME NEW i \in Ids, Unplug(i) PROVE ReportInv'
  <2>. DEFINE signal == [kind |-> "Presence", id |-> i, event |-> "Remove",
                         target |-> daemon[i].target, desc |-> daemon[i].desc]
  <2>1. signal \in DeviceSignal
    BY <1>6 DEF DeviceSignal, PresenceEvents, TypeInv, TypeOK, Unplug
  <2>. QED
    BY <1>1, <1>6, <2>1, EmitReports DEF Unplug
<1>7. CASE RaiseException
  <2>1. \A s \in Streams : streams[s] \in Seq(Incoming)
    BY DEF TypeInv, TypeOK
  <2>2. Event("Exception") \in Invalidating
    BY EventTypes DEF Invalidating, Event
  <2>3. streams'["owner"] = streams["owner"]
    BY <1>7, StreamNames DEF RaiseException, TypeInv, TypeOK
  <2>4. Hears("exceptions") => Contains(streams'["exceptions"], Invalidating)
    <3>1. Contains(Append(streams["exceptions"], Event("Exception")), Invalidating)
      BY <2>1, <2>2, EventTypes, StreamNames, ContainsAppend
    <3>. QED
      BY <1>7, <3>1, StreamNames DEF RaiseException, TypeInv, TypeOK
  <2>5. pc \in {"loop", "relist"} /\ bridge_up /\ ~closed => Hears("exceptions")
    BY AllSubscribed, StreamNames DEF Hears, TypeInv, SubscribedInv
  <2>6. WillBeReported'
    BY <1>1, <1>7, <2>3, <2>4, <2>5
       DEF RaiseException, ReportInv, LossNoticed, WillBeReported, TypeInv, TypeOK
  <2>. QED
    BY <1>1, <1>7, <2>3, <2>6 DEF RaiseException, ReportInv, LossNoticed
<1>8. CASE ChangeParameter
  <2>1. UNCHANGED <<streams["owner"], streams["exceptions"], streams["changed"]>>
    BY <1>8, StreamNames DEF ChangeParameter, TypeInv, TypeOK
  <2>. QED
    BY <1>1, <1>8, <2>1 DEF ChangeParameter, ReportInv, LossNoticed, WillBeReported
<1>9. CASE BridgeLost
  <2>1. UNCHANGED <<streams["exceptions"], streams["changed"]>>
    BY <1>9, StreamNames DEF BridgeLost, TypeInv, TypeOK
  <2>2. streams'["owner"] = streams["owner"] \/ streams'["owner"] # <<>>
    <3>1. streams["owner"] \in Seq(Incoming)
      BY StreamNames DEF TypeInv, TypeOK
    <3>2. Append(streams["owner"], Event("OwnerLost")) # <<>>
      BY <3>1, EventTypes
    <3>. QED
      BY <1>9, <3>2, StreamNames DEF BridgeLost, TypeInv, TypeOK
  <2>3. pc \in {"loop", "relist"} /\ ~closed => streams'["owner"] # <<>>
    <3>1. pc \in {"loop", "relist"} /\ ~closed => Hears("owner")
      BY <1>9, AllSubscribed, StreamNames DEF Hears, BridgeLost, TypeInv, SubscribedInv
    <3>2. streams["owner"] \in Seq(Incoming)
      BY StreamNames DEF TypeInv, TypeOK
    <3>3. Append(streams["owner"], Event("OwnerLost")) # <<>>
      BY <3>2, EventTypes
    <3>. QED
      BY <1>9, <3>1, <3>3, StreamNames DEF BridgeLost, TypeInv, TypeOK
  <2>. QED
    BY <1>9, <2>1, <2>2, <2>3
       DEF BridgeLost, workerVars, ReportInv, LossNoticed, WillBeReported
<1>10. CASE ConnectionClosed \/ BridgeBack
  BY <1>10 DEF ConnectionClosed, BridgeBack, workerVars, ReportInv, LossNoticed,
               WillBeReported
<1>11. ASSUME plugged # Descriptions
       PROVE  (CHOOSE d \in Descriptions : d \notin plugged) \in Descriptions
  BY <1>11 DEF TypeInv, TypeOK
<1>. QED
  BY <1>2, <1>3, <1>4, <1>5, <1>6, <1>7, <1>8, <1>9, <1>10, <1>11 DEF Daemon

LEMMA ReportWorker ==
    TypeInv /\ ReportInv /\ (Worker \/ Apply \/ Tick) => ReportInv'
<1>. SUFFICES ASSUME TypeInv, ReportInv, Worker \/ Apply \/ Tick
              PROVE  ReportInv'
  OBVIOUS
<1>1. CASE Send
  <2>1. outbox \in Seq(UiEvent) /\ channel \in Seq(UiEvent) /\ outbox # <<>>
    BY <1>1 DEF Send, TypeInv, TypeOK
  <2>2. Head(outbox) \in UiEvent
    BY <2>1
  <2>3. Contains(outbox, InvalidationEvent) =>
            \/ Head(outbox) \in InvalidationEvent
            \/ Contains(Tail(outbox), InvalidationEvent)
    BY <2>1, ContainsTail
  <2>4. \/ Contains(channel, InvalidationEvent)
        \/ Head(outbox) \in InvalidationEvent
        => Contains(Append(channel, Head(outbox)), InvalidationEvent)
    BY <2>1, <2>2, ContainsAppend
  <2>. QED
    BY <1>1, <2>3, <2>4
       DEF Send, daemonVars, ReportInv, WillBeReported, LossNoticed
<1>2. CASE Subscribe
  BY <1>2 DEF Subscribe, daemonVars, ReportInv, WillBeReported, LossNoticed
<1>3. CASE Start
  <2>. DEFINE opening == IF ever_connected THEN <<Event("Reconnected")>> ELSE <<>>
              told == <<Snapshot(ListDevices), Event("InvalidateRuleCache")>>
  <2>1. opening \in Seq(UiEvent) /\ told \in Seq(UiEvent)
    BY EventTypes, ListDevicesType DEF TypeInv
  <2>2. Len(told) = 2 /\ told[2] \in InvalidationEvent
    BY DEF InvalidationEvent
  <2>3. Contains(told, InvalidationEvent)
    BY <2>2 DEF Contains
  <2>4. Contains(outbox', InvalidationEvent)
    BY <1>3, <2>1, <2>3, ContainsConcat DEF Start
  <2>. QED
    BY <1>3, <2>4 DEF Start, daemonVars, ReportInv, WillBeReported, LossNoticed
<1>4. ~Contains(<<>>, InvalidationEvent)
  BY DEF Contains
<1>5. CASE Resync
  BY <1>4, <1>5
     DEF Resync, Idle, daemonVars, ReportInv, WillBeReported, LossNoticed
<1>6. CASE CallFails \/ Lose
  BY <1>6 DEF CallFails, Lose, Exit, ReportInv, WillBeReported, LossNoticed
<1>7. ASSUME NEW s \in DeviceStreams, TakeDevice(s) PROVE ReportInv'
  <2>. DEFINE item == Head(streams[s])
  <2>1. /\ s \in Streams
        /\ streams[s] \in Seq(Incoming) /\ streams[s] # <<>>
        /\ item \in Incoming /\ item.type = "Device"
        /\ outbox = <<>> /\ pc = "loop"
    BY <1>7, DeviceStreamNames DEF TypeInv, TypeOK, TakeDevice, Idle
  <2>2. ASSUME item \in Invalidating PROVE Contains(outbox', InvalidationEvent)
    <3>1. Invalidation(item) = <<Event("InvalidateRuleCache")>>
      BY <2>1, <2>2 DEF Invalidation, Invalidating
    <3>2. Contains(Invalidation(item), InvalidationEvent)
      BY <3>1 DEF Contains, InvalidationEvent
    <3>3. Invalidation(item) \in Seq(UiEvent) /\ <<Event("ObservationGap")>> \in Seq(UiEvent)
      <4>1. Event("InvalidateRuleCache") \in UiEvent /\ Event("ObservationGap") \in UiEvent
        BY EventTypes
      <4>2. <<Event("ObservationGap")>> \in Seq(UiEvent)
        BY <4>1
      <4>3. <<Event("InvalidateRuleCache")>> \in Seq(UiEvent)
        BY <4>1
      <4>. QED
        BY <3>1, <4>2, <4>3
    <3>4. \/ outbox' = Invalidation(item)
          \/ outbox' = Invalidation(item) \o <<Event("ObservationGap")>>
      BY <1>7 DEF TakeDevice
    <3>. QED
      BY <3>2, <3>3, <3>4, ContainsConcat
  <2>3. /\ streams' = [streams EXCEPT ![s] = Tail(@)]
        /\ streams \in [Streams -> Seq(Incoming)]
        /\ pc' \in {"relist", "loop"}
        /\ UNCHANGED <<closed, bridge_up, unreported, channel>>
    BY <1>7, <2>1 DEF TakeDevice, daemonVars, TypeInv, TypeOK
  <2>4. /\ streams'["owner"] = streams["owner"]
        /\ streams'["exceptions"] = streams["exceptions"]
    BY <2>3, DeviceStreamNames, StreamNames
  <2>5. Contains(streams["changed"], Invalidating) =>
            \/ Contains(streams'["changed"], Invalidating)
            \/ Contains(outbox', InvalidationEvent)
    <3>1. CASE s = "changed"
      <4>1. streams'["changed"] = Tail(streams["changed"])
        BY <2>1, <2>3, <3>1
      <4>. QED
        BY <2>1, <2>2, <3>1, <4>1, ContainsTail
    <3>2. CASE s # "changed"
      BY <2>3, <3>2, StreamNames
    <3>. QED
      BY <3>1, <3>2
  <2>6. LossNoticed'
    BY <2>1, <2>3, <2>4 DEF ReportInv, LossNoticed
  <2>7. unreported => WillBeReported'
    BY <1>4, <2>1, <2>3, <2>4, <2>5 DEF ReportInv, WillBeReported
  <2>. QED
    BY <2>3, <2>6, <2>7 DEF ReportInv
<1>8. CASE TakeException
  <2>1. /\ streams["exceptions"] \in Seq(Incoming) /\ pc' = pc
        /\ UNCHANGED <<closed, bridge_up, streams["owner"], streams["changed"]>>
    BY <1>8, StreamNames
       DEF TakeException, TakeOther, daemonVars, TypeInv, TypeOK
  <2>2. Contains(outbox', InvalidationEvent)
    <3>1. outbox' = <<Event("DaemonException"), Event("InvalidateRuleCache")>>
      BY <1>8 DEF TakeException, TakeOther
    <3>2. Len(outbox') = 2 /\ outbox'[2] \in InvalidationEvent
      BY <3>1 DEF InvalidationEvent
    <3>. QED
      BY <3>2 DEF Contains
  <2>. QED
    BY <2>1, <2>2 DEF ReportInv, WillBeReported, LossNoticed
<1>9. CASE TakeParameter
  <2>1. /\ outbox = <<>>
        /\ UNCHANGED <<pc, closed, bridge_up, unreported, channel, streams["owner"],
                       streams["exceptions"], streams["changed"]>>
    BY <1>9, StreamNames
       DEF TakeParameter, TakeOther, Idle, daemonVars, TypeInv, TypeOK
  <2>. QED
    BY <1>4, <2>1 DEF ReportInv, WillBeReported, LossNoticed
<1>10. CASE Timeout
  BY <1>4, <1>10
     DEF Timeout, Idle, daemonVars, ReportInv, WillBeReported, LossNoticed
<1>11. CASE Restart
  BY <1>11 DEF Restart, ReportInv, WillBeReported, LossNoticed
<1>12. CASE Apply
  <2>1. channel \in Seq(UiEvent) /\ channel # <<>>
    BY <1>12 DEF Apply, TypeInv, TypeOK
  <2>2. Head(channel) \in InvalidationEvent => ~unreported'
    <3>1. Head(channel) \in InvalidationEvent =>
              Head(channel).type = "InvalidateRuleCache"
      BY DEF InvalidationEvent, Event
    <3>2. unreported' = (unreported /\ Head(channel).type # "InvalidateRuleCache")
      BY <1>12 DEF Apply
    <3>. QED
      BY <3>1, <3>2
  <2>3. Contains(channel, InvalidationEvent) =>
            \/ Head(channel) \in InvalidationEvent
            \/ Contains(channel', InvalidationEvent)
    BY <1>12, <2>1, ContainsTail DEF Apply
  <2>. QED
    BY <1>12, <2>2, <2>3
       DEF Apply, daemonVars, workerVars, ReportInv, WillBeReported, LossNoticed
<1>13. CASE Tick
  BY <1>13 DEF Tick, daemonVars, ReportInv, WillBeReported, LossNoticed
<1>. QED
  BY <1>1, <1>2, <1>3, <1>5, <1>6, <1>7, <1>8, <1>9, <1>10, <1>11, <1>12, <1>13
     DEF Worker

LEMMA ReportNext == TypeInv /\ ReportInv /\ [Next]_vars => ReportInv'
<1>1. UNCHANGED vars /\ ReportInv => ReportInv'
  BY DEF vars, daemonVars, workerVars, ReportInv, WillBeReported, LossNoticed
<1>. QED
  BY <1>1, ReportDaemon, ReportWorker DEF Next

\* Once everything has been delivered, the interface was told to read the
\* rules again after every change of the ruleset: a permanent decision, an
\* exception, or whatever happened while nobody was listening.
THEOREM ReportCorrect == Spec => []RulesetChangeReported
<1>1. TypeInv /\ ReportInv => RulesetChangeReported
  <2>. SUFFICES ASSUME TypeInv, ReportInv, Quiescent PROVE ~unreported
    BY DEF RulesetChangeReported
  <2>1. \A s \in Streams : streams[s] = <<>>
    BY DEF Quiescent, SignalsReady
  <2>2. \A G : ~Contains(<<>>, G)
    BY DEF Contains
  <2>. QED
    BY <2>1, <2>2, StreamNames DEF Quiescent, Idle, ReportInv, WillBeReported
<1>. QED
  BY <1>1, ReportNext, ReportInit, TypeInit, TypeNext, PTL DEF Spec

-----------------------------------------------------------------------------
(* The ceiling of a window's age.                                          *)

\* Time never passes on a window older than MAX_LATENCY while the loop waits
\* with no signal to take, whatever kept the timer from being armed afresh:
\* the budget is cut short by what is left of the ceiling.
THEOREM LatencyIsBounded == Spec => LatencyCeiling
<1>1. TypeOK /\ [Next]_vars =>
        [Tick => age < MAX_LATENCY \/ SignalsReady \/ pc # "loop" \/ ~Idle]_vars
  <2>. SUFFICES ASSUME TypeOK, Tick, ~SignalsReady, pc = "loop", Idle
                PROVE  age < MAX_LATENCY
    OBVIOUS
  <2>1. age # None /\ ~(waited >= Budget(age - waited))
    BY DEF Tick, TimerExpired
  <2>2. age \in Nat /\ waited \in Nat
    BY <2>1, CoalescerAssumption DEF TypeOK
  <2>3. MAX_LATENCY \in Nat /\ QUIET_WINDOW \in Nat
    BY CoalescerAssumption
  <2>. QED
    BY <2>1, <2>2, <2>3 DEF Budget
<1>. QED
  BY <1>1, TypeCorrect, PTL DEF Spec, LatencyCeiling
-----------------------------------------------------------------------------
(* The last element of a sequence that is in a set.                        *)

LastIn(q, G, x) ==
    \E n \in 1..Len(q) : /\ q[n] = x /\ x \in G
                         /\ \A m \in (n + 1)..Len(q) : q[m] \notin G

AllIn(q, G) == \A n \in 1..Len(q) : q[n] \in G

LEMMA LastAppend ==
    ASSUME NEW S, NEW q \in Seq(S), NEW x \in S, NEW G, NEW y
    PROVE  LastIn(Append(q, x), G, y) <=> IF x \in G THEN y = x ELSE LastIn(q, G, y)
<1>. DEFINE r == Append(q, x)
            N == Len(q)
<1>1. /\ Len(r) = N + 1 /\ N \in Nat /\ r[N + 1] = x
      /\ \A n \in 1..N : r[n] = q[n]
  OBVIOUS
<1>. HIDE DEF r, N
<1>2. CASE x \in G
  <2>1. ASSUME LastIn(r, G, y) PROVE y = x
    <3>1. PICK n \in 1..Len(r) : r[n] = y /\ \A m \in (n + 1)..Len(r) : r[m] \notin G
      BY <2>1 DEF LastIn
    <3>2. n = N + 1
      BY <1>1, <1>2, <3>1
    <3>. QED
      BY <1>1, <3>1, <3>2
  <2>2. LastIn(r, G, x)
    <3>1. N + 1 \in 1..Len(r) /\ \A m \in (N + 1 + 1)..Len(r) : r[m] \notin G
      BY <1>1
    <3>. QED
      BY <1>1, <1>2, <3>1 DEF LastIn
  <2>. QED
    BY <1>2, <2>1, <2>2 DEF r
<1>3. CASE x \notin G
  <2>1. ASSUME LastIn(r, G, y) PROVE LastIn(q, G, y)
    <3>1. PICK n \in 1..Len(r) :
            r[n] = y /\ y \in G /\ \A m \in (n + 1)..Len(r) : r[m] \notin G
      BY <2>1 DEF LastIn
    <3>2. n \in 1..N /\ q[n] = y
      BY <1>1, <1>3, <3>1
    <3>3. \A m \in (n + 1)..N : q[m] \notin G
      BY <1>1, <3>1, <3>2
    <3>. QED
      BY <3>1, <3>2, <3>3 DEF LastIn, N
  <2>2. ASSUME LastIn(q, G, y) PROVE LastIn(r, G, y)
    <3>1. PICK n \in 1..N : q[n] = y /\ y \in G /\ \A m \in (n + 1)..N : q[m] \notin G
      BY <2>2 DEF LastIn, N
    <3>2. n \in 1..Len(r) /\ r[n] = y
      BY <1>1, <3>1
    <3>3. ASSUME NEW m \in (n + 1)..Len(r) PROVE r[m] \notin G
      BY <1>1, <1>3, <3>1
    <3>. QED
      BY <3>1, <3>2, <3>3 DEF LastIn
  <2>. QED
    BY <1>3, <2>1, <2>2 DEF r
<1>. QED
  BY <1>2, <1>3

\* Taking the head leaves the last element in place, or was the last one.
LEMMA LastTail ==
    ASSUME NEW S, NEW q \in Seq(S), q # <<>>, NEW G, NEW y
    PROVE  /\ LastIn(Tail(q), G, y) => LastIn(q, G, y)
           /\ Head(q) \in G /\ ~Contains(Tail(q), G) => LastIn(q, G, Head(q))
           /\ LastIn(q, G, y) /\ Contains(Tail(q), G) => LastIn(Tail(q), G, y)
           /\ LastIn(q, G, y) /\ ~Contains(Tail(q), G) => y = Head(q) /\ y \in G
<1>. DEFINE r == Tail(q)
            N == Len(q)
<1>1. /\ N \in Nat /\ N >= 1 /\ Len(r) = N - 1 /\ Head(q) = q[1]
      /\ \A n \in 1..(N - 1) : r[n] = q[n + 1]
  OBVIOUS
<1>. HIDE DEF r, N
<1>2. ASSUME LastIn(r, G, y) PROVE LastIn(q, G, y)
  <2>1. PICK n \in 1..(N - 1) :
          r[n] = y /\ y \in G /\ \A m \in (n + 1)..(N - 1) : r[m] \notin G
    BY <1>1, <1>2 DEF LastIn
  <2>2. n + 1 \in 1..N /\ q[n + 1] = y
    BY <1>1, <2>1
  <2>3. ASSUME NEW m \in (n + 1 + 1)..N PROVE q[m] \notin G
    <3>1. m - 1 \in (n + 1)..(N - 1) /\ m - 1 \in 1..(N - 1) /\ (m - 1) + 1 = m
      BY <1>1, <2>3
    <3>. QED
      BY <1>1, <2>1, <3>1
  <2>. QED
    BY <2>1, <2>2, <2>3 DEF LastIn, N
<1>3. ASSUME Head(q) \in G, ~Contains(r, G) PROVE LastIn(q, G, Head(q))
  <2>1. ASSUME NEW m \in (1 + 1)..N PROVE q[m] \notin G
    <3>1. m - 1 \in 1..(N - 1) /\ (m - 1) + 1 = m
      BY <1>1, <2>1
    <3>2. r[m - 1] \notin G
      BY <1>1, <1>3, <3>1 DEF Contains
    <3>. QED
      BY <1>1, <3>1, <3>2
  <2>2. 1 \in 1..N
    BY <1>1
  <2>. QED
    BY <1>1, <1>3, <2>1, <2>2 DEF LastIn, N
<1>4. ASSUME LastIn(q, G, y) 
      PROVE  IF Contains(r, G) THEN LastIn(r, G, y) ELSE y = Head(q) /\ y \in G
  <2>1. PICK n \in 1..N : q[n] = y /\ y \in G /\ \A m \in (n + 1)..N : q[m] \notin G
    BY <1>4 DEF LastIn, N
  <2>2. CASE n = 1
    <3>1. ASSUME NEW m \in 1..(N - 1) PROVE r[m] \notin G
      <4>1. m + 1 \in (n + 1)..N
        BY <1>1, <2>2, <3>1
      <4>. QED
        BY <1>1, <2>1, <4>1
    <3>2. ~Contains(r, G)
      BY <1>1, <3>1 DEF Contains
    <3>. QED
      BY <1>1, <2>1, <2>2, <3>2
  <2>3. CASE n # 1
    <3>1. n - 1 \in 1..(N - 1) /\ r[n - 1] = y
      BY <1>1, <2>1, <2>3
    <3>2. ASSUME NEW m \in ((n - 1) + 1)..(N - 1) PROVE r[m] \notin G
      <4>1. m \in 1..(N - 1) /\ m + 1 \in (n + 1)..N
        BY <1>1, <2>1, <2>3, <3>2
      <4>. QED
        BY <1>1, <2>1, <4>1
    <3>3. LastIn(r, G, y)
      BY <1>1, <2>1, <3>1, <3>2 DEF LastIn
    <3>4. Contains(r, G)
      BY <1>1, <2>1, <3>1 DEF Contains
    <3>. QED
      BY <3>3, <3>4
  <2>. QED
    BY <2>2, <2>3
<1>. QED
  BY <1>2, <1>3, <1>4 DEF r

LEMMA AllAppend ==
    ASSUME NEW S, NEW q \in Seq(S), NEW x \in S, NEW G, AllIn(q, G), x \in G
    PROVE  AllIn(Append(q, x), G)
<1>1. /\ Len(Append(q, x)) = Len(q) + 1 /\ Len(q) \in Nat
      /\ Append(q, x)[Len(q) + 1] = x
      /\ \A n \in 1..Len(q) : Append(q, x)[n] = q[n]
  OBVIOUS
<1>. QED
  BY <1>1 DEF AllIn

LEMMA AllTail ==
    ASSUME NEW S, NEW q \in Seq(S), q # <<>>, NEW G, AllIn(q, G)
    PROVE  Head(q) \in G /\ AllIn(Tail(q), G)
<1>1. /\ Len(q) \in Nat \ {0} /\ Head(q) = q[1]
      /\ Len(Tail(q)) = Len(q) - 1
      /\ \A n \in 1..(Len(q) - 1) : Tail(q)[n] = q[n + 1]
  OBVIOUS
<1>2. ASSUME NEW n \in 1..(Len(q) - 1) PROVE Tail(q)[n] \in G
  <2>1. n + 1 \in 1..Len(q)
    BY <1>1
  <2>. QED
    BY <1>1, <2>1 DEF AllIn
<1>. QED
  BY <1>1, <1>2 DEF AllIn

LEMMA EmptyContains ==
    \A G : ~Contains(<<>>, G) /\ AllIn(<<>>, G) /\ \A x : ~LastIn(<<>>, G, x)
BY DEF Contains, AllIn, LastIn

LEMMA LastContains ==
    ASSUME NEW q, NEW G, NEW x, LastIn(q, G, x)
    PROVE  Contains(q, G)
BY DEF LastIn, Contains
-----------------------------------------------------------------------------
(* What the table will show.                                               *)

\* The events that settle the row of device i, and how.
Touching(i) ==
    {e \in UiEvent : \/ e.type \in {"DeviceSnapshot", "Reconnected"}
                     \/ e.type = "DeviceBatch" /\ e.batch[i] # None}

Outcome(entry) ==
    IF entry.removed THEN None
    ELSE [target |-> entry.target, desc |-> entry.desc]

Effect(e, i) ==
    CASE e.type = "DeviceSnapshot" -> e.devices[i]
      [] e.type = "DeviceBatch" -> Outcome(e.batch[i])
      [] OTHER -> None

\* The queue q makes `row' of what device i showed before.
Delivers(q, before, i, row) ==
    \/ \E e \in UiEvent : LastIn(q, Touching(i), e) /\ row = Effect(e, i)
    \/ row = before /\ ~Contains(q, Touching(i))

\* What device i will show once the window is flushed and the channel empty.
Shows(i, row) ==
    IF pending[i] # None THEN row = Outcome(pending[i])
    ELSE Delivers(channel \o outbox, view[i], i, row)

\* One more event to deliver.
LEMMA DeliversAppend ==
    ASSUME NEW q \in Seq(UiEvent), NEW e \in UiEvent, NEW before, NEW i, NEW row
    PROVE  /\ e \in Touching(i) => Delivers(Append(q, e), before, i, Effect(e, i))
           /\ e \notin Touching(i) /\ Delivers(q, before, i, row) =>
                Delivers(Append(q, e), before, i, row)
<1>1. ASSUME e \in Touching(i)
      PROVE  LastIn(Append(q, e), Touching(i), e)
  BY <1>1, LastAppend
<1>2. ASSUME e \notin Touching(i), NEW x, LastIn(q, Touching(i), x)
      PROVE  LastIn(Append(q, e), Touching(i), x)
  BY <1>2, LastAppend
<1>3. ASSUME e \notin Touching(i), ~Contains(q, Touching(i))
      PROVE  ~Contains(Append(q, e), Touching(i))
  BY <1>3, ContainsAppend
<1>. QED
  BY <1>1, <1>2, <1>3 DEF Delivers

\* The next event is delivered.
LEMMA DeliversTail ==
    ASSUME NEW q \in Seq(UiEvent), q # <<>>, NEW before, NEW i, NEW row,
           Delivers(q, before, i, row), NEW after,
           after = IF Head(q) \in Touching(i) THEN Effect(Head(q), i) ELSE before
    PROVE  Delivers(Tail(q), after, i, row)
<1>1. CASE Contains(Tail(q), Touching(i))
  <2>1. Contains(q, Touching(i))
    BY <1>1, ContainsTail
  <2>2. PICK e \in UiEvent : LastIn(q, Touching(i), e) /\ row = Effect(e, i)
    BY <2>1 DEF Delivers
  <2>3. LastIn(Tail(q), Touching(i), e)
    BY <1>1, <2>2, LastTail
  <2>. QED
    BY <2>2, <2>3 DEF Delivers
<1>2. CASE ~Contains(Tail(q), Touching(i))
  <2>1. CASE Head(q) \in Touching(i)
    <3>1. Contains(q, Touching(i))
      BY <2>1, ContainsTail
    <3>2. PICK e \in UiEvent : LastIn(q, Touching(i), e) /\ row = Effect(e, i)
      BY <3>1 DEF Delivers
    <3>3. e = Head(q)
      BY <1>2, <3>2, LastTail
    <3>. QED
      BY <1>2, <2>1, <3>2, <3>3 DEF Delivers
  <2>2. CASE Head(q) \notin Touching(i)
    <3>1. ~Contains(q, Touching(i))
      BY <1>2, <2>2, ContainsTail
    <3>2. ASSUME NEW e, LastIn(q, Touching(i), e) PROVE FALSE
      BY <1>2, <2>2, <3>2, LastTail
    <3>. QED
      BY <1>2, <2>2, <3>2 DEF Delivers
  <2>. QED
    BY <2>1, <2>2
<1>. QED
  BY <1>1, <1>2

LEMMA DeliversNothing ==
    ASSUME NEW before, NEW i, NEW row
    PROVE  Delivers(<<>>, before, i, row) <=> row = before
BY EmptyContains DEF Delivers

\* The queue between the worker and the table.
LEMMA Queues ==
    ASSUME NEW p \in Seq(UiEvent), NEW q \in Seq(UiEvent)
    PROVE  /\ p \o q \in Seq(UiEvent)
           /\ p \o <<>> = p
           /\ \A e \in UiEvent : p \o <<e>> = Append(p, e)
           /\ \A e \in UiEvent, f \in UiEvent :
                p \o <<e, f>> = Append(Append(p, e), f)
           /\ q # <<>> => Append(p, Head(q)) \o Tail(q) = p \o q
           /\ p # <<>> => /\ p \o q # <<>>
                          /\ Head(p \o q) = Head(p)
                          /\ Tail(p \o q) = Tail(p) \o q
<1>1. p \o q \in Seq(UiEvent) /\ p \o <<>> = p
  BY ConcatProperties, ConcatEmptySeq
<1>2. ASSUME NEW e \in UiEvent PROVE p \o <<e>> = Append(p, e)
  BY AppendIsConcat
<1>3. ASSUME NEW e \in UiEvent, NEW f \in UiEvent
      PROVE  p \o <<e, f>> = Append(Append(p, e), f)
  <2>. DEFINE l == p \o <<e, f>>
              r == Append(Append(p, e), f)
  <2>1. /\ <<e, f>> \in Seq(UiEvent) /\ Len(<<e, f>>) = 2
        /\ <<e, f>>[1] = e /\ <<e, f>>[2] = f
    OBVIOUS
  <2>2. /\ Len(p) \in Nat /\ l \in Seq(UiEvent) /\ Len(l) = Len(p) + 2
        /\ \A n \in 1..Len(l) :
              l[n] = IF n <= Len(p) THEN p[n] ELSE <<e, f>>[n - Len(p)]
    BY <2>1, ConcatProperties
  <2>3. /\ r \in Seq(UiEvent) /\ Len(r) = Len(p) + 2
        /\ r[Len(p) + 1] = e /\ r[Len(p) + 2] = f
        /\ \A n \in 1..Len(p) : r[n] = p[n]
    OBVIOUS
  <2>4. ASSUME NEW n \in 1..(Len(p) + 2) PROVE l[n] = r[n]
    <3>1. CASE n \in 1..Len(p)
      BY <2>2, <2>3, <3>1
    <3>2. CASE n = Len(p) + 1
      <4>1. l[n] = <<e, f>>[1]
        BY <2>2, <3>2
      <4>. QED
        BY <2>1, <2>3, <3>2, <4>1
    <3>3. CASE n = Len(p) + 2
      <4>1. l[n] = <<e, f>>[2]
        BY <2>2, <3>3
      <4>. QED
        BY <2>1, <2>3, <3>3, <4>1
    <3>. QED
      BY <2>2, <3>1, <3>2, <3>3
  <2>. HIDE DEF l, r
  <2>5. l = r
    BY <2>2, <2>3, <2>4, SeqEqual
  <2>. QED
    BY <2>5 DEF l, r
<1>4. ASSUME q # <<>> PROVE Append(p, Head(q)) \o Tail(q) = p \o q
  <2>1. /\ Head(q) \in UiEvent /\ Tail(q) \in Seq(UiEvent)
        /\ <<Head(q)>> \in Seq(UiEvent)
    BY <1>4
  <2>2. Append(p, Head(q)) = p \o <<Head(q)>>
    BY <1>2, <2>1
  <2>3. q = <<Head(q)>> \o Tail(q)
    BY <1>4, HeadTailProperties
  <2>. QED
    BY <2>1, <2>2, <2>3, ConcatAssociative
<1>5. ASSUME p # <<>>
      PROVE  p \o q # <<>> /\ Head(p \o q) = Head(p) /\ Tail(p \o q) = Tail(p) \o q
  <2>1. /\ Head(p) \in UiEvent /\ Tail(p) \in Seq(UiEvent)
        /\ <<Head(p)>> \in Seq(UiEvent)
    BY <1>5
  <2>2. p = <<Head(p)>> \o Tail(p)
    BY <1>5, HeadTailProperties
  <2>3. p \o q = <<Head(p)>> \o (Tail(p) \o q)
    BY <2>1, <2>2, ConcatAssociative
  <2>4. Tail(p) \o q \in Seq(UiEvent)
    BY <2>1, ConcatProperties
  <2>. HIDE DEF Touching
  <2>. QED
    BY <2>1, <2>3, <2>4, ConcatSimplifications, HeadTailProperties, ConcatProperties
<1>. QED
  BY <1>1, <1>2, <1>3, <1>4, <1>5

-----------------------------------------------------------------------------
(* Items about a device.                                                   *)

Items(i) == {x \in Incoming : x.type = "Device" /\ x.signal.id = i}

ItemsOf(i, d) == {x \in Items(i) : x.signal.desc = d}

RemovalsOf(i, d) ==
    {x \in ItemsOf(i, d) : x.signal.kind = "Presence" /\ x.signal.event = "Remove"}

SightingsOf(i, d) ==
    {x \in ItemsOf(i, d) : x.signal.kind = "Presence" /\ x.signal.event # "Remove"}

Item(signal, permanent) ==
    [type |-> "Device", signal |-> signal, invalidates_rules |-> permanent]

LEMMA ItemType ==
    ASSUME NEW signal \in DeviceSignal, NEW permanent \in BOOLEAN
    PROVE  /\ Item(signal, permanent) \in Incoming
           /\ Item(signal, permanent).type = "Device"
           /\ Item(signal, permanent).signal = signal
BY DEF Item, Incoming

LEMMA ItemSets ==
    ASSUME NEW i, NEW d
    PROVE  /\ ItemsOf(i, d) \subseteq Items(i)
           /\ RemovalsOf(i, d) \subseteq Items(i)
           /\ SightingsOf(i, d) \subseteq Items(i)
           /\ RemovalsOf(i, d) \subseteq ItemsOf(i, d)
           /\ SightingsOf(i, d) \subseteq ItemsOf(i, d)
BY DEF ItemsOf, RemovalsOf, SightingsOf

LEMMA ContainsSubset ==
    ASSUME NEW q, NEW G, NEW H, G \subseteq H, Contains(q, G)
    PROVE  Contains(q, H)
BY DEF Contains

PolicyStreams == {"changed", "applied"}

PresenceFeed ==
    {x \in Incoming : /\ x.type = "Device" /\ x.signal.kind = "Presence"
                      /\ x.signal.event # "Remove" =>
                            x.signal.target = ProvisionalTarget}

PolicyFeed == {x \in Incoming : x.type = "Device" /\ x.signal.kind = "Policy"}

-----------------------------------------------------------------------------
(* The shape of what is buffered and pending.                              *)

\* A stream that does not exist yet has heard nothing.
UnheardInv == \A s \in Streams : s \notin Subscribed => streams[s] = <<>>

KindInv ==
    /\ AllIn(streams["presence"], PresenceFeed)
    /\ \A s \in PolicyStreams : AllIn(streams[s], PolicyFeed)

\* Every description heard of was plugged in.
PluggedInv ==
    /\ \A s \in PolicyStreams, i \in Ids, d \in Descriptions :
            Contains(streams[s], ItemsOf(i, d)) => d \in plugged
    /\ \A i \in Ids : daemon[i] # None => daemon[i].desc \in plugged

\* Only the loop holds pending changes, and no removal carries a decision.
WindowInv ==
    /\ pc # "loop" => pending = EmptyWindow
    /\ \A i \in Ids : pending[i] # None /\ pending[i].removed =>
            ~pending[i].policy_decided

UndecidedInv ==
    \A i \in Ids : daemon[i] # None /\ ~daemon[i].decided =>
        daemon[i].target = ProvisionalTarget

ShapeInv == UnheardInv /\ KindInv /\ PluggedInv /\ WindowInv /\ UndecidedInv

\* Neither the bridge nor the connection was lost since subscribing.
Good == ~closed /\ streams["owner"] = <<>> /\ "restart" \notin disturbed

\* The last thing heard of a device is the last thing that happened to it.
FeedOf(i) ==
    \A x \in Incoming : LastIn(streams["presence"], Items(i), x) =>
        IF daemon[i] = None THEN x.signal.event = "Remove"
        ELSE x.signal.event # "Remove" /\ x.signal.desc = daemon[i].desc

FeedInv ==
    Good => /\ ~bridge_up => \A s \in DeviceStreams : streams[s] = <<>>
            /\ \A i \in Ids : FeedOf(i)

\* The last decision buffered for the device that is there is the daemon's.
LastDecision(i) ==
    daemon[i] # None =>
        \A s \in PolicyStreams, x \in Incoming :
            LastIn(streams[s], ItemsOf(i, daemon[i].desc), x) =>
                x.signal.target = daemon[i].target

\* A buffered decision is about the device that is there, or one whose
\* removal was taken or is still to be taken.
OwnedDecisions(i) ==
    \A s \in PolicyStreams, d \in Descriptions :
        Contains(streams[s], ItemsOf(i, d)) =>
            \/ d \in gone
            \/ Contains(streams["presence"], RemovalsOf(i, d))
            \/ daemon[i] # None /\ daemon[i].desc = d

\* The decision about a device whose presence is still buffered was heard.
DecisionHeard(i) ==
    /\ daemon[i] # None /\ daemon[i].decided
    /\ Contains(streams["presence"], SightingsOf(i, daemon[i].desc))
    => \/ daemon[i].desc \in decided
       \/ Contains(streams["applied"], ItemsOf(i, daemon[i].desc))

NoPresence(i) == ~Contains(streams["presence"], Items(i))

NoPolicy(i, d) == \A s \in PolicyStreams : ~Contains(streams[s], ItemsOf(i, d))

\* Nothing was decided about a device still undecided.
NotYetDecided(i) ==
    daemon[i] # None /\ ~daemon[i].decided => NoPolicy(i, daemon[i].desc)

OrderOf(i) ==
    LastDecision(i) /\ OwnedDecisions(i) /\ DecisionHeard(i) /\ NotYetDecided(i)

OrderInv == Good /\ disturbed = {} => \A i \in Ids : OrderOf(i)

NoRemoval(i) == \A d \in Descriptions : ~Contains(streams["presence"], RemovalsOf(i, d))

\* A device that is there and of which nothing is buffered will be shown.
PresentOf(i) ==
    daemon[i] # None /\ NoPresence(i) => \E row \in Row : Shows(i, row)

PresentInv == Good /\ pc = "loop" => \A i \in Ids : PresentOf(i)

GoneShown(i) == daemon[i] = None /\ NoPresence(i) => Shows(i, None)

\* The right device is shown; once its decisions are taken, with its target.
TargetShown(i) ==
    daemon[i] # None /\ NoPresence(i) =>
        \E t \in Targets :
            /\ Shows(i, [target |-> t, desc |-> daemon[i].desc])
            /\ NoPolicy(i, daemon[i].desc) => t = daemon[i].target

\* A decision in the window is the device's own.
DecisionPending(i) ==
    /\ daemon[i] # None /\ pending[i] # None /\ pending[i].policy_decided
    /\ NoRemoval(i)
    => /\ daemon[i].desc \in decided
       /\ NoPolicy(i, daemon[i].desc) => pending[i].target = daemon[i].target

DisplayOf(i) == GoneShown(i) /\ TargetShown(i) /\ DecisionPending(i)

DisplayInv ==
    Good /\ disturbed = {} /\ pc = "loop" => \A i \in Ids : DisplayOf(i)

HistoryInv == ShapeInv /\ FeedInv /\ OrderInv /\ PresentInv /\ DisplayInv

LEMMA DeviceStreamSets ==
    /\ DeviceStreams = {"presence", "changed", "applied"}
    /\ PolicyStreams \subseteq DeviceStreams
    /\ "presence" \in DeviceStreams /\ "presence" \notin PolicyStreams
    /\ DeviceStreams \subseteq Streams /\ "owner" \in Streams
    /\ "owner" \notin DeviceStreams
BY StreamNames DEF DeviceStreams, PolicyStreams

LEMMA HistoryInit == Init => HistoryInv
<1>. SUFFICES ASSUME Init PROVE HistoryInv
  OBVIOUS
<1>1. \A s \in Streams : streams[s] = <<>>
  BY DEF Init
<1>2. /\ \A i \in Ids : daemon[i] = None
      /\ pc = "subscribe" /\ pending = EmptyWindow
  BY DEF Init
<1>3. \A i \in Ids : pending[i] = None
  BY <1>2 DEF EmptyWindow
<1>4. ShapeInv
  BY <1>1, <1>2, <1>3, EmptyContains, DeviceStreamSets
     DEF ShapeInv, UnheardInv, KindInv, PluggedInv, WindowInv, UndecidedInv
<1>5. FeedInv
  BY <1>1, EmptyContains, DeviceStreamSets DEF FeedInv, FeedOf
<1>6. OrderInv
  BY <1>1, <1>2, EmptyContains, DeviceStreamSets
     DEF OrderInv, OrderOf, LastDecision, OwnedDecisions, DecisionHeard, NotYetDecided
<1>7. PresentInv /\ DisplayInv
  BY <1>2 DEF PresentInv, DisplayInv
<1>. QED
  BY <1>4, <1>5, <1>6, <1>7 DEF HistoryInv

-----------------------------------------------------------------------------
(* Steps of the daemon that send a device signal.                          *)

\* The daemon does something to device i and signals it on the streams `on'.
Signals(i, on, signal) ==
    /\ i \in Ids /\ signal \in DeviceSignal /\ signal.id = i
    /\ on \in SUBSET DeviceStreams
    /\ DaemonStep
    /\ \E permanent \in BOOLEAN : Emit(on, signal, permanent)
    /\ \A j \in Ids : j # i => daemon'[j] = daemon[j]

Arrival(i, event, d) ==
    [kind |-> "Presence", id |-> i, event |-> event,
     target |-> ProvisionalTarget, desc |-> d]

Departure(i) ==
    [kind |-> "Presence", id |-> i, event |-> "Remove",
     target |-> daemon[i].target, desc |-> daemon[i].desc]

Decision(i, t) ==
    [kind |-> "Policy", id |-> i, target |-> t, desc |-> daemon[i].desc]

LEMMA DaemonRow ==
    ASSUME TypeInv, NEW i \in Ids, daemon[i] # None
    PROVE  /\ daemon[i] \in DaemonDevice
           /\ daemon[i].target \in Targets /\ daemon[i].desc \in Descriptions
           /\ daemon[i].decided \in BOOLEAN
BY DEF TypeInv, TypeOK

LEMMA PlugSignals ==
    ASSUME TypeInv, NEW i \in Ids, NEW d \in Descriptions, Plug(i, d)
    PROVE  Signals(i, {"presence"}, Arrival(i, "Insert", d))
BY EventWorkerAssumption, DeviceStreamSets
   DEF Plug, Signals, Arrival, DeviceSignal, PresenceEvents, TypeInv, TypeOK

LEMMA UpdateSignals ==
    ASSUME TypeInv, NEW i \in Ids, Update(i)
    PROVE  Signals(i, {"presence"}, Arrival(i, "Update", daemon[i].desc))
<1>1. daemon[i].desc \in Descriptions
  BY DaemonRow DEF Update
<1>. QED
  BY <1>1, EventWorkerAssumption, DeviceStreamSets
     DEF Update, Signals, Arrival, DeviceSignal, PresenceEvents

LEMMA DecideSignals ==
    ASSUME TypeInv, NEW i \in Ids, NEW t \in Targets, Decide(i, t)
    PROVE  Signals(i, {"applied"}, Decision(i, t))
<1>1. daemon[i].desc \in Descriptions
  BY DaemonRow DEF Decide
<1>. QED
  BY <1>1, DeviceStreamSets DEF Decide, Signals, Decision, DeviceSignal, TypeInv, TypeOK

LEMMA ChangeSignals ==
    ASSUME TypeInv, NEW i \in Ids, NEW t \in Targets, NEW permanent \in BOOLEAN,
           ChangePolicy(i, t, permanent)
    PROVE  Signals(i, {"changed", "applied"}, Decision(i, t))
<1>1. daemon[i].desc \in Descriptions
  BY DaemonRow DEF ChangePolicy
<1>2. Decision(i, t) \in DeviceSignal /\ Decision(i, t).id = i
  BY <1>1 DEF Decision, DeviceSignal
<1>3. \A j \in Ids : j # i => daemon'[j] = daemon[j]
  BY DEF ChangePolicy, TypeInv, TypeOK
<1>4. Emit({"changed", "applied"}, Decision(i, t), permanent) /\ DaemonStep
  BY DEF ChangePolicy, Decision
<1>. QED
  BY <1>2, <1>3, <1>4, DeviceStreamSets DEF Signals

LEMMA UnplugSignals ==
    ASSUME TypeInv, NEW i \in Ids, Unplug(i)
    PROVE  Signals(i, {"presence"}, Departure(i))
<1>1. daemon[i].target \in Targets /\ daemon[i].desc \in Descriptions
  BY DaemonRow DEF Unplug
<1>. QED
  BY <1>1, DeviceStreamSets
     DEF Unplug, Signals, Departure, DeviceSignal, PresenceEvents, TypeInv, TypeOK

\* What a signal does to the streams: the ones of `on' that hear it get it.
LEMMA SignalStreams ==
    ASSUME TypeInv, NEW i, NEW on, NEW signal, Signals(i, on, signal)
    PROVE  /\ \A s \in Streams :
                \/ ~(s \in on /\ Hears(s)) /\ streams'[s] = streams[s]
                \/ /\ s \in on /\ Hears(s)
                   /\ \E p \in BOOLEAN : streams'[s] = Append(streams[s], Item(signal, p))
           /\ disturbed \subseteq disturbed'
           /\ subscribed > 0 /\ ~(on \subseteq Subscribed) => "gap" \in disturbed'
           /\ "restart" \in disturbed' => "restart" \in disturbed
           /\ UNCHANGED <<bridge_up, closed, losses, subscribed, pc, ever_connected,
                          pending, age, waited, outbox, channel, view, decided, gone>>
<1>1. PICK permanent \in BOOLEAN : Emit(on, signal, permanent)
  BY DEF Signals
<1>2. ASSUME NEW s \in Streams, s \in on, Hears(s)
      PROVE  \E p \in BOOLEAN : streams'[s] = Append(streams[s], Item(signal, p))
  <2>1. streams'[s] = Append(streams[s], Item(signal, permanent /\ s = "changed"))
    BY <1>1, <1>2 DEF Emit, Item
  <2>2. (permanent /\ s = "changed") \in BOOLEAN
    OBVIOUS
  <2>. QED
    BY <2>1, <2>2
<1>3. ASSUME NEW s \in Streams, ~(s \in on /\ Hears(s)) PROVE streams'[s] = streams[s]
  BY <1>1, <1>3 DEF Emit
<1>4. /\ disturbed \subseteq disturbed'
      /\ subscribed > 0 /\ ~(on \subseteq Subscribed) => "gap" \in disturbed'
      /\ "restart" \in disturbed' => "restart" \in disturbed
  BY <1>1 DEF Emit
<1>5. UNCHANGED <<bridge_up, closed, losses, subscribed, pc, ever_connected,
                  pending, age, waited, outbox, channel, view, decided, gone>>
  BY DEF Signals, DaemonStep, workerVars
<1>. QED
  BY <1>2, <1>3, <1>4, <1>5

-----------------------------------------------------------------------------
(* The shape is kept.                                                      *)

LEMMA ShapeSignals ==
    ASSUME TypeInv, ShapeInv, NEW i, NEW on, NEW signal, Signals(i, on, signal),
           \/ /\ on = {"presence"} /\ signal.kind = "Presence"
              /\ signal.event # "Remove" => signal.target = ProvisionalTarget
           \/ /\ on \subseteq PolicyStreams /\ signal.kind = "Policy"
              /\ signal.desc \in plugged',
           plugged \subseteq plugged',
           daemon'[i] # None =>
               /\ daemon'[i].desc \in plugged'
               /\ ~daemon'[i].decided => daemon'[i].target = ProvisionalTarget
    PROVE  ShapeInv'
<1>1. \A s \in Streams :
        \/ ~(s \in on /\ Hears(s)) /\ streams'[s] = streams[s]
        \/ /\ s \in on /\ Hears(s)
           /\ \E p \in BOOLEAN : streams'[s] = Append(streams[s], Item(signal, p))
  BY SignalStreams
<1>2. /\ signal \in DeviceSignal /\ signal.id = i /\ i \in Ids
      /\ on \in SUBSET DeviceStreams
  BY DEF Signals
<1>3. UNCHANGED <<subscribed, pc, pending>>
  BY SignalStreams
<1>4. \A s \in Streams : streams[s] \in Seq(Incoming)
  BY DEF TypeInv, TypeOK
<1>5. \A p \in BOOLEAN : /\ Item(signal, p) \in Incoming
                         /\ Item(signal, p).type = "Device"
                         /\ Item(signal, p).signal = signal
  BY <1>2, ItemType
<1>6. UnheardInv'
  BY <1>1, <1>3 DEF ShapeInv, UnheardInv, Hears, Subscribed
<1>7. KindInv'
  <2>1. AllIn(streams'["presence"], PresenceFeed)
    <3>1. ASSUME NEW p \in BOOLEAN, "presence" \in on,
                 streams'["presence"] = Append(streams["presence"], Item(signal, p))
          PROVE  AllIn(streams'["presence"], PresenceFeed)
      <4>1. Item(signal, p) \in PresenceFeed
        BY <1>5, <3>1, DeviceStreamSets DEF PresenceFeed
      <4>. QED
        BY <1>4, <1>5, <3>1, <4>1, AllAppend, DeviceStreamSets
           DEF ShapeInv, KindInv
    <3>. QED
      BY <1>1, <3>1, DeviceStreamSets DEF ShapeInv, KindInv
  <2>2. ASSUME NEW s \in PolicyStreams PROVE AllIn(streams'[s], PolicyFeed)
    <3>1. ASSUME NEW p \in BOOLEAN, s \in on,
                 streams'[s] = Append(streams[s], Item(signal, p))
          PROVE  AllIn(streams'[s], PolicyFeed)
      <4>1. Item(signal, p) \in PolicyFeed
        BY <1>5, <2>2, <3>1, DeviceStreamSets DEF PolicyFeed
      <4>. QED
        BY <1>4, <1>5, <3>1, <4>1, AllAppend, DeviceStreamSets
           DEF ShapeInv, KindInv
    <3>. QED
      BY <1>1, <3>1, DeviceStreamSets DEF ShapeInv, KindInv
  <2>. QED
    BY <2>1, <2>2 DEF KindInv
<1>8. PluggedInv'
  <2>1. ASSUME NEW s \in PolicyStreams, NEW j \in Ids, NEW d \in Descriptions,
               Contains(streams'[s], ItemsOf(j, d))
        PROVE  d \in plugged'
    <3>1. CASE streams'[s] = streams[s]
      BY <2>1, <3>1 DEF ShapeInv, PluggedInv
    <3>2. ASSUME NEW p \in BOOLEAN, s \in on,
                 streams'[s] = Append(streams[s], Item(signal, p))
          PROVE  d \in plugged'
      <4>1. \/ Contains(streams[s], ItemsOf(j, d))
            \/ Item(signal, p) \in ItemsOf(j, d)
        BY <1>4, <1>5, <2>1, <3>2, ContainsAppend, DeviceStreamSets
      <4>2. ASSUME Item(signal, p) \in ItemsOf(j, d) PROVE d \in plugged'
        <5>1. d = signal.desc
          BY <1>5, <4>2 DEF ItemsOf
        <5>. QED
          BY <3>2, <5>1, <2>1, DeviceStreamSets
      <4>. QED
        BY <4>1, <4>2, <2>1 DEF ShapeInv, PluggedInv
    <3>. QED
      BY <1>1, <3>1, <3>2, DeviceStreamSets
  <2>2. ASSUME NEW j \in Ids, daemon'[j] # None PROVE daemon'[j].desc \in plugged'
    BY <2>2 DEF Signals, ShapeInv, PluggedInv
  <2>. QED
    BY <2>1, <2>2 DEF PluggedInv
<1>9. WindowInv'
  BY <1>3 DEF ShapeInv, WindowInv
<1>10. UndecidedInv'
  BY DEF Signals, ShapeInv, UndecidedInv
<1>. QED
  BY <1>6, <1>7, <1>8, <1>9, <1>10 DEF ShapeInv

LEMMA ShapeFrame ==
    ASSUME ShapeInv, UNCHANGED <<daemon, plugged>>, WindowInv',
           \A s \in DeviceStreams : streams'[s] = streams[s],
           \A s \in Streams \ DeviceStreams : s \notin Subscribed' => streams'[s] = <<>>,
           Subscribed \subseteq Subscribed'
    PROVE  ShapeInv'
<1>1. UnheardInv'
  BY DEF ShapeInv, UnheardInv
<1>2. KindInv' /\ PluggedInv' /\ UndecidedInv'
  BY DeviceStreamSets DEF ShapeInv, KindInv, PluggedInv, UndecidedInv
<1>. QED
  BY <1>1, <1>2 DEF ShapeInv

LEMMA ShapeDaemon == TypeInv /\ ShapeInv /\ (Daemon \/ BridgeBack) => ShapeInv'
<1>. SUFFICES ASSUME TypeInv, ShapeInv, Daemon \/ BridgeBack PROVE ShapeInv'
  OBVIOUS
<1>0. \A i \in Ids : daemon[i] # None => daemon[i].desc \in plugged
  BY DEF ShapeInv, PluggedInv
<1>1. ASSUME NEW i \in Ids, NEW d \in Descriptions, Plug(i, d) PROVE ShapeInv'
  <2>1. Signals(i, {"presence"}, Arrival(i, "Insert", d))
    BY <1>1, PlugSignals
  <2>2. /\ plugged' = plugged \cup {d}
        /\ daemon'[i] = [target |-> ProvisionalTarget, desc |-> d, decided |-> FALSE]
    BY <1>1 DEF Plug, TypeInv, TypeOK
  <2>. QED
    BY <2>1, <2>2, ShapeSignals DEF Arrival
<1>2. ASSUME NEW i \in Ids, Update(i) PROVE ShapeInv'
  <2>1. Signals(i, {"presence"}, Arrival(i, "Update", daemon[i].desc))
    BY <1>2, UpdateSignals
  <2>2. UNCHANGED <<plugged, daemon>>
    BY <1>2 DEF Update
  <2>. QED
    BY <1>0, <2>1, <2>2, ShapeSignals DEF Arrival, ShapeInv, UndecidedInv
<1>3. ASSUME NEW i \in Ids, NEW t \in Targets, Decide(i, t) PROVE ShapeInv'
  <2>1. Signals(i, {"applied"}, Decision(i, t))
    BY <1>3, DecideSignals
  <2>2. /\ plugged' = plugged /\ daemon[i] # None
        /\ daemon'[i].desc = daemon[i].desc /\ daemon'[i].decided
    BY <1>3, DaemonRow DEF Decide, TypeInv, TypeOK
  <2>. QED
    BY <1>0, <2>1, <2>2, ShapeSignals DEF Decision, PolicyStreams
<1>4. ASSUME NEW i \in Ids, NEW t \in Targets, NEW permanent \in BOOLEAN,
             ChangePolicy(i, t, permanent)
      PROVE  ShapeInv'
  <2>1. Signals(i, {"changed", "applied"}, Decision(i, t))
    BY <1>4, ChangeSignals
  <2>2. /\ plugged' = plugged /\ daemon[i] # None
        /\ daemon'[i].desc = daemon[i].desc /\ daemon'[i].decided
    BY <1>4, DaemonRow DEF ChangePolicy, TypeInv, TypeOK
  <2>. QED
    BY <1>0, <2>1, <2>2, ShapeSignals DEF Decision, PolicyStreams
<1>5. ASSUME NEW i \in Ids, Unplug(i) PROVE ShapeInv'
  <2>1. Signals(i, {"presence"}, Departure(i))
    BY <1>5, UnplugSignals
  <2>2. plugged' = plugged /\ daemon'[i] = None
    BY <1>5 DEF Unplug, TypeInv, TypeOK
  <2>. QED
    BY <2>1, <2>2, ShapeSignals DEF Departure
<1>6. ASSUME UNCHANGED <<daemon, plugged, pc, pending, subscribed>>,
             NEW s \in Streams \ DeviceStreams, NEW x,
             streams' = IF Hears(s) THEN [streams EXCEPT ![s] = x] ELSE streams
      PROVE  ShapeInv'
  <2>1. /\ Subscribed' = Subscribed
        /\ \A r \in DeviceStreams : streams'[r] = streams[r]
        /\ \A r \in Streams : r # s => streams'[r] = streams[r]
    BY <1>6, DeviceStreamSets DEF Subscribed, TypeInv, TypeOK
  <2>2. s \notin Subscribed => streams'[s] = streams[s]
    BY <1>6 DEF Hears
  <2>3. \A r \in Streams : r \notin Subscribed' => streams'[r] = <<>>
    BY <2>1, <2>2 DEF ShapeInv, UnheardInv
  <2>4. WindowInv'
    BY <1>6 DEF ShapeInv, WindowInv
  <2>. QED
    BY <1>6, <2>1, <2>3, <2>4, ShapeFrame
<1>7. {"exceptions", "parameters", "owner"} \subseteq Streams \ DeviceStreams
  BY StreamNames, DeviceStreamSets
<1>8. CASE RaiseException
  BY <1>6, <1>7, <1>8 DEF RaiseException, DaemonStep, workerVars
<1>9. CASE ChangeParameter
  BY <1>6, <1>7, <1>9 DEF ChangeParameter, DaemonStep, workerVars
<1>10. CASE BridgeLost
  BY <1>6, <1>7, <1>10 DEF BridgeLost, workerVars
<1>11. CASE ConnectionClosed \/ BridgeBack
  <2>1. UNCHANGED <<daemon, plugged, pc, pending, subscribed, streams>>
    BY <1>11 DEF ConnectionClosed, BridgeBack, workerVars
  <2>. QED
    BY <2>1 DEF ShapeInv, UnheardInv, KindInv, PluggedInv, WindowInv, UndecidedInv,
                Subscribed
<1>12. ASSUME plugged # Descriptions
       PROVE  (CHOOSE d \in Descriptions : d \notin plugged) \in Descriptions
  BY <1>12 DEF TypeInv, TypeOK
<1>. QED
  BY <1>1, <1>2, <1>3, <1>4, <1>5, <1>8, <1>9, <1>10, <1>11, <1>12 DEF Daemon

\* What push leaves under the signal's id, and elsewhere.
LEMMA PushRow ==
    ASSUME NEW w \in Window, NEW signal \in DeviceSignal
    PROVE  /\ \A i \in Ids : i # signal.id => Push(w, signal)[i] = w[i]
           /\ Push(w, signal)[signal.id] =
                CASE signal.kind = "Policy" -> MergePolicy(w[signal.id], signal)
                  [] signal.kind = "Presence" /\ signal.event = "Remove" ->
                        MergeRemove(w[signal.id])
                  [] OTHER -> MergePresence(w[signal.id], signal)
           /\ signal.id \in Ids /\ w[signal.id] \in Entry \cup {None}
<1>1. signal.id \in Ids
  BY DEF DeviceSignal
<1>. QED
  BY <1>1 DEF Push, Window

LEMMA MergeShapes ==
    ASSUME NEW e \in Entry \cup {None}, NEW signal
    PROVE  /\ ~MergePolicy(e, signal).removed /\ MergePolicy(e, signal).policy_decided
           /\ MergePolicy(e, signal).target = signal.target
           /\ MergePolicy(e, signal).desc = signal.desc
           /\ MergeRemove(e).removed /\ ~MergeRemove(e).policy_decided
           /\ ~MergePresence(e, signal).removed
           /\ MergePresence(e, signal).desc = signal.desc
           /\ MergePresence(e, signal).policy_decided <=>
                e # None /\ ~e.removed /\ e.policy_decided
           /\ MergePresence(e, signal).policy_decided =>
                MergePresence(e, signal).target = e.target
           /\ ~MergePresence(e, signal).policy_decided =>
                MergePresence(e, signal).target = signal.target
<1>. DEFINE l == LiveEntry(e)
            E == [removed: BOOLEAN, observed_insert: BOOLEAN, observed_remove: BOOLEAN,
                  target: Targets \cup {None}, desc: Descriptions \cup {None},
                  policy_decided: BOOLEAN]
<1>1. Fresh \in E /\ ~Fresh.removed /\ ~Fresh.policy_decided
  BY DEF Fresh
<1>2. e # None => e \in E
  BY DEF Entry
<1>3. /\ l \in E /\ ~l.removed
      /\ l.policy_decided <=> e # None /\ ~e.removed /\ e.policy_decided
      /\ l.policy_decided => l.target = e.target
  <2>1. CASE e = None
    BY <1>1, <2>1 DEF LiveEntry
  <2>2. CASE e # None /\ e.removed
    <3>1. l = [Fresh EXCEPT !.observed_remove = e.observed_remove]
      BY <2>2 DEF LiveEntry
    <3>. QED
      BY <1>1, <1>2, <2>2, <3>1
  <2>3. CASE e # None /\ ~e.removed
    <3>1. l = e
      BY <2>3 DEF LiveEntry
    <3>. QED
      BY <1>2, <2>3, <3>1
  <2>. QED
    BY <2>1, <2>2, <2>3
<1>. HIDE DEF l
<1>4. MergePolicy(e, signal) = [l EXCEPT !.target = signal.target,
                                         !.policy_decided = TRUE, !.desc = signal.desc]
  BY DEF MergePolicy, l
<1>5. MergeRemove(e) = [Fresh EXCEPT !.removed = TRUE, !.observed_remove = TRUE,
                            !.observed_insert = e # None /\ e.observed_insert]
  BY DEF MergeRemove
<1>6. MergePresence(e, signal) =
        [l EXCEPT !.observed_insert = l.observed_insert \/ signal.event = "Insert",
                  !.target = IF l.policy_decided THEN l.target ELSE signal.target,
                  !.desc = signal.desc]
  BY DEF MergePresence, l
<1>. QED
  BY <1>1, <1>3, <1>4, <1>5, <1>6

LEMMA TakeFacts ==
    ASSUME TypeInv, ShapeInv, NEW s \in DeviceStreams, TakeDevice(s)
    PROVE  /\ streams[s] \in Seq(Incoming) /\ streams[s] # <<>>
           /\ Head(streams[s]) \in Incoming /\ Head(streams[s]).type = "Device"
           /\ Head(streams[s]).signal \in DeviceSignal
           /\ streams'[s] = Tail(streams[s])
           /\ \A r \in Streams : r # s => streams'[r] = streams[r]
           /\ UNCHANGED <<daemonVars, unreported, subscribed, ever_connected, channel,
                          view>>
           /\ pc = "loop" /\ pc' \in {"loop", "relist"} /\ outbox = <<>>
           /\ pending \in Window
<1>1. /\ streams[s] \in Seq(Incoming) /\ streams[s] # <<>>
      /\ Head(streams[s]).type = "Device" /\ pending \in Window
  BY DeviceStreamSets DEF TakeDevice, TypeInv, TypeOK
<1>2. Head(streams[s]) \in Incoming
  BY <1>1
<1>3. Head(streams[s]).signal \in DeviceSignal
  BY <1>1, <1>2 DEF Incoming
<1>4. /\ streams'[s] = Tail(streams[s])
      /\ \A r \in Streams : r # s => streams'[r] = streams[r]
  BY DeviceStreamSets DEF TakeDevice, TypeInv, TypeOK
<1>5. /\ UNCHANGED <<daemonVars, unreported, subscribed, ever_connected, channel, view>>
      /\ pc = "loop" /\ pc' \in {"loop", "relist"} /\ outbox = <<>>
  BY DEF TakeDevice, Idle
<1>. QED
  BY <1>1, <1>2, <1>3, <1>4, <1>5

LEMMA ShapeTake ==
    ASSUME TypeInv, ShapeInv, NEW s \in DeviceStreams, TakeDevice(s)
    PROVE  ShapeInv'
<1>. DEFINE q == streams[s]
            signal == Head(q).signal
            merged == Push(pending, signal)
<1>1. /\ q \in Seq(Incoming) /\ q # <<>> /\ signal \in DeviceSignal
      /\ streams'[s] = Tail(q) /\ pending \in Window
      /\ \A r \in Streams : r # s => streams'[r] = streams[r]
      /\ UNCHANGED <<daemonVars, subscribed>>
      /\ pc = "loop" /\ pc' \in {"loop", "relist"}
  BY TakeFacts
<1>2. UNCHANGED <<daemon, plugged>> /\ Subscribed' = Subscribed
  BY <1>1 DEF daemonVars, Subscribed
<1>3. s \in Subscribed
  BY <1>1, DeviceStreamSets DEF ShapeInv, UnheardInv
<1>4. UnheardInv'
  BY <1>1, <1>2, <1>3 DEF ShapeInv, UnheardInv
<1>5. KindInv'
  <2>1. \A G : AllIn(q, G) => AllIn(Tail(q), G)
    BY <1>1, AllTail
  <2>. QED
    BY <1>1, <2>1, DeviceStreamSets DEF ShapeInv, KindInv
<1>6. PluggedInv'
  <2>1. \A G : Contains(Tail(q), G) => Contains(q, G)
    BY <1>1, ContainsTail
  <2>. QED
    BY <1>1, <1>2, <2>1, DeviceStreamSets DEF ShapeInv, PluggedInv
<1>7. UndecidedInv'
  BY <1>2 DEF ShapeInv, UndecidedInv
<1>8. WindowInv'
  <2>1. \/ pending' = EmptyWindow
        \/ pending' = merged /\ pc' = pc
    BY DEF TakeDevice
  <2>2. CASE pending' = EmptyWindow
    BY <2>2 DEF WindowInv, EmptyWindow
  <2>3. CASE pending' = merged /\ pc' = pc
    <3>1. merged[signal.id] # None /\ merged[signal.id].removed =>
                ~merged[signal.id].policy_decided
      <4>. DEFINE e == pending[signal.id]
      <4>1. e \in Entry \cup {None}
        BY <1>1, PushRow
      <4>2. merged[signal.id] \in {MergePolicy(e, signal), MergeRemove(e),
                                   MergePresence(e, signal)}
        BY <1>1, PushRow
      <4>. HIDE DEF e
      <4>. QED
        BY <4>1, <4>2, MergeShapes
    <3>2. \A i \in Ids : i # signal.id => merged[i] = pending[i]
      BY <1>1, PushRow
    <3>3. \A i \in Ids : merged[i] # None /\ merged[i].removed =>
                ~merged[i].policy_decided
      <4>. HIDE DEF merged, signal
      <4>. QED
        BY <3>1, <3>2 DEF ShapeInv, WindowInv
    <3>. QED
      BY <1>1, <2>3, <3>3 DEF WindowInv
  <2>. QED
    BY <2>1, <2>2, <2>3
<1>. QED
  BY <1>4, <1>5, <1>6, <1>7, <1>8 DEF ShapeInv

LEMMA ShapeWorker == TypeInv /\ ShapeInv /\ (Worker \/ Apply \/ Tick) => ShapeInv'
<1>. SUFFICES ASSUME TypeInv, ShapeInv, Worker \/ Apply \/ Tick PROVE ShapeInv'
  OBVIOUS
<1>1. WindowInv
  BY DEF ShapeInv
<1>2. EmptyWindow' = EmptyWindow /\ \A i \in Ids : EmptyWindow[i] = None
  BY DEF EmptyWindow
<1>3. ASSUME UNCHANGED <<daemon, plugged, streams, subscribed>>, WindowInv'
      PROVE  ShapeInv'
  <2>1. Subscribed' = Subscribed
    BY <1>3 DEF Subscribed
  <2>. QED
    BY <1>3, <2>1 DEF ShapeInv, UnheardInv, KindInv, PluggedInv, UndecidedInv
<1>4. CASE Send \/ Tick \/ Apply
  <2>1. UNCHANGED <<daemon, plugged, streams, subscribed, pc, pending>>
    BY <1>4 DEF Send, Tick, Apply, daemonVars, workerVars
  <2>. QED
    BY <1>1, <1>3, <2>1 DEF WindowInv
<1>5. CASE Subscribe
  <2>1. UNCHANGED <<daemon, plugged, streams, pending>> /\ pc = "subscribe"
    BY <1>5 DEF Subscribe, daemonVars
  <2>2. Subscribed \subseteq Subscribed'
    <3>1. subscribed' = subscribed + 1 /\ subscribed \in Nat
      BY <1>5 DEF Subscribe, TypeInv, TypeOK
    <3>. QED
      BY <3>1 DEF Subscribed
  <2>3. WindowInv'
    BY <1>1, <2>1 DEF WindowInv
  <2>4. \A s \in Streams \ DeviceStreams : s \notin Subscribed' => streams'[s] = <<>>
    BY <2>1, <2>2 DEF ShapeInv, UnheardInv
  <2>. QED
    BY <2>1, <2>2, <2>3, <2>4, ShapeFrame
<1>6. CASE Start \/ Resync
  <2>1. UNCHANGED <<daemon, plugged, streams, subscribed, pending>> /\ pc' = "loop"
    BY <1>6 DEF Start, Resync, daemonVars
  <2>. QED
    BY <1>1, <1>3, <2>1 DEF WindowInv
<1>7. CASE CallFails \/ Lose \/ Timeout
  <2>1. UNCHANGED <<daemon, plugged, streams, subscribed>> /\ pending' = EmptyWindow
    BY <1>7 DEF CallFails, Lose, Timeout, Exit, daemonVars
  <2>2. WindowInv'
    BY <1>2, <2>1 DEF WindowInv
  <2>. QED
    BY <1>3, <2>1, <2>2
<1>8. ASSUME NEW s \in Streams \ DeviceStreams, NEW type, NEW sending,
             TakeOther(s, type, sending)
      PROVE  ShapeInv'
  <2>1. /\ UNCHANGED <<daemon, plugged, subscribed, pending, pc>>
        /\ \A r \in Streams : r # s => streams'[r] = streams[r]
        /\ streams[s] # <<>>
    BY <1>8 DEF TakeOther, daemonVars, TypeInv, TypeOK
  <2>2. Subscribed' = Subscribed /\ s \in Subscribed
    BY <1>8, <2>1 DEF Subscribed, ShapeInv, UnheardInv
  <2>3. \A r \in Streams : r \notin Subscribed' => streams'[r] = <<>>
    BY <2>1, <2>2 DEF ShapeInv, UnheardInv
  <2>4. WindowInv'
    BY <1>1, <2>1 DEF WindowInv
  <2>. QED
    BY <1>8, <2>1, <2>2, <2>3, <2>4, ShapeFrame, DeviceStreamSets
<1>9. CASE TakeException \/ TakeParameter
  <2>1. {"exceptions", "parameters"} \subseteq Streams \ DeviceStreams
    BY StreamNames, DeviceStreamSets
  <2>. QED
    BY <1>8, <1>9, <2>1 DEF TakeException, TakeParameter
<1>10. CASE Restart
  <2>1. /\ \A s \in Streams : streams'[s] = <<>>
        /\ UNCHANGED <<daemon, plugged, pending>> /\ pc = "lost"
    BY <1>10 DEF Restart
  <2>2. UnheardInv' /\ KindInv' /\ UndecidedInv'
    BY <2>1, EmptyContains, DeviceStreamSets
       DEF ShapeInv, UnheardInv, KindInv, UndecidedInv
  <2>3. PluggedInv'
    BY <2>1, EmptyContains, DeviceStreamSets DEF ShapeInv, PluggedInv
  <2>4. WindowInv'
    BY <1>1, <2>1 DEF WindowInv
  <2>. QED
    BY <2>2, <2>3, <2>4 DEF ShapeInv
<1>. QED
  BY <1>4, <1>5, <1>6, <1>7, <1>9, <1>10, ShapeTake DEF Worker

-----------------------------------------------------------------------------
(* What changes for one device, and for the others.                        *)

\* Nothing about device i changes in the streams.
SameFeed(i) ==
    \A s \in DeviceStreams, G \in SUBSET Items(i) :
        /\ Contains(streams'[s], G) <=> Contains(streams[s], G)
        /\ \A x \in Incoming : LastIn(streams'[s], G, x) <=> LastIn(streams[s], G, x)

\* Every stream of `on' hears the signal, and no other stream of a device.
HeardBy(on, signal) ==
    \A s \in DeviceStreams :
        IF s \in on
        THEN \E p \in BOOLEAN : streams'[s] = Append(streams[s], Item(signal, p))
        ELSE streams'[s] = streams[s]

Unheard == \A s \in DeviceStreams : streams[s] = <<>> /\ streams'[s] = <<>>

LEMMA SignalElsewhere ==
    ASSUME TypeInv, NEW i, NEW on, NEW signal, Signals(i, on, signal),
           NEW j \in Ids, j # i
    PROVE  SameFeed(j)
<1>1. /\ signal \in DeviceSignal /\ signal.id = i
      /\ \A s \in Streams : streams[s] \in Seq(Incoming)
  BY DEF Signals, TypeInv, TypeOK
<1>2. ASSUME NEW s \in DeviceStreams, NEW G \in SUBSET Items(j), NEW p \in BOOLEAN,
             streams'[s] = Append(streams[s], Item(signal, p))
      PROVE  /\ Contains(streams'[s], G) <=> Contains(streams[s], G)
             /\ \A x \in Incoming :
                    LastIn(streams'[s], G, x) <=> LastIn(streams[s], G, x)
  <2>1. Item(signal, p) \in Incoming /\ Item(signal, p) \notin G
    BY <1>1, ItemType DEF Items
  <2>2. streams[s] \in Seq(Incoming)
    BY <1>1, DeviceStreamSets
  <2>. QED
    BY <1>2, <2>1, <2>2, ContainsAppend, LastAppend
<1>3. \A s \in DeviceStreams :
        \/ streams'[s] = streams[s]
        \/ \E p \in BOOLEAN : streams'[s] = Append(streams[s], Item(signal, p))
  BY SignalStreams, DeviceStreamSets
<1>. QED
  BY <1>2, <1>3 DEF SameFeed

LEMMA TakeElsewhere ==
    ASSUME TypeInv, ShapeInv, NEW s \in DeviceStreams, TakeDevice(s),
           NEW j \in Ids, j # Head(streams[s]).signal.id
    PROVE  SameFeed(j)
<1>. DEFINE q == streams[s]
<1>1. /\ q \in Seq(Incoming) /\ q # <<>>
      /\ streams'[s] = Tail(q)
      /\ \A r \in Streams : r # s => streams'[r] = streams[r]
  BY TakeFacts
<1>. HIDE DEF q
<1>2. ASSUME NEW G \in SUBSET Items(j)
      PROVE  /\ Contains(Tail(q), G) <=> Contains(q, G)
             /\ \A x \in Incoming : LastIn(Tail(q), G, x) <=> LastIn(q, G, x)
  <2>1. Head(q) \notin G
    BY DEF Items, q
  <2>2. Contains(Tail(q), G) <=> Contains(q, G)
    BY <1>1, <2>1, ContainsTail
  <2>3. ASSUME NEW x \in Incoming, LastIn(Tail(q), G, x) PROVE LastIn(q, G, x)
    BY <1>1, <2>3, LastTail
  <2>4. ASSUME NEW x \in Incoming, LastIn(q, G, x) PROVE LastIn(Tail(q), G, x)
    BY <1>1, <2>1, <2>4, LastTail
  <2>. QED
    BY <2>2, <2>3, <2>4
<1>3. ASSUME NEW r \in DeviceStreams, NEW G \in SUBSET Items(j)
      PROVE  /\ Contains(streams'[r], G) <=> Contains(streams[r], G)
             /\ \A x \in Incoming :
                    LastIn(streams'[r], G, x) <=> LastIn(streams[r], G, x)
  <2>1. CASE r = s
    BY <1>1, <1>2, <2>1 DEF q
  <2>2. CASE r # s
    BY <1>1, <2>2, DeviceStreamSets
  <2>. QED
    BY <2>1, <2>2
<1>. QED
  BY <1>3 DEF SameFeed

LEMMA StillFeed ==
    ASSUME \A s \in DeviceStreams : streams'[s] = streams[s], NEW j
    PROVE  SameFeed(j)
BY DEF SameFeed

LEMMA SignalHeard ==
    ASSUME TypeInv, ShapeInv, FeedInv, Good, NEW i, NEW on, NEW signal,
           Signals(i, on, signal), on \subseteq Subscribed \/ subscribed = 0
    PROVE  /\ Unheard \/ HeardBy(on, signal)
           /\ pc = "loop" /\ LossNoticed => HeardBy(on, signal)
<1>1. /\ \A s \in Streams :
            \/ ~(s \in on /\ Hears(s)) /\ streams'[s] = streams[s]
            \/ /\ s \in on /\ Hears(s)
               /\ \E p \in BOOLEAN : streams'[s] = Append(streams[s], Item(signal, p))
      /\ ~closed /\ streams["owner"] = <<>>
  BY SignalStreams DEF Good
<1>2. ASSUME on \subseteq Subscribed, bridge_up PROVE HeardBy(on, signal)
  BY <1>1, <1>2, DeviceStreamSets DEF HeardBy, Hears
<1>3. ASSUME on \subseteq Subscribed, ~bridge_up PROVE Unheard
  BY <1>1, <1>3, DeviceStreamSets DEF Unheard, Hears, FeedInv
<1>4. ASSUME subscribed = 0 PROVE Unheard
  <2>1. Subscribed = {}
    BY <1>4 DEF Subscribed
  <2>. QED
    BY <1>1, <2>1, DeviceStreamSets DEF Unheard, Hears, ShapeInv, UnheardInv
<1>5. ASSUME pc = "loop", LossNoticed PROVE bridge_up /\ on \subseteq Subscribed
  <2>1. bridge_up
    BY <1>1, <1>5 DEF LossNoticed, TypeInv, TypeOK
  <2>2. subscribed = Len(Subscriptions)
    BY <1>5 DEF TypeInv, SubscribedInv
  <2>3. subscribed # 0
    BY <2>2, StreamNames
  <2>. QED
    BY <2>1, <2>3
<1>. QED
  BY <1>2, <1>3, <1>4, <1>5 DEF TypeInv, TypeOK

LEMMA GoodSignals ==
    ASSUME TypeInv, NEW i, NEW on, NEW signal, Signals(i, on, signal)
    PROVE  Good' <=> Good
<1>1. "owner" \notin on /\ "owner" \in Streams
  BY DeviceStreamSets DEF Signals
<1>2. streams'["owner"] = streams["owner"]
  BY <1>1, SignalStreams
<1>3. /\ closed' = closed /\ disturbed \subseteq disturbed'
      /\ "restart" \in disturbed' => "restart" \in disturbed
  BY SignalStreams
<1>. QED
  BY <1>2, <1>3 DEF Good

\* The presence stream is the first to exist.
LEMMA PresenceFirst ==
    ASSUME TypeInv, subscribed # 0
    PROVE  "presence" \in Subscribed
<1>1. subscribed \in Nat /\ 1 \in 1..subscribed
  BY DEF TypeInv, TypeOK
<1>2. Subscriptions[1] = "presence"
  BY DEF Subscriptions
<1>. QED
  BY <1>1, <1>2 DEF Subscribed

-----------------------------------------------------------------------------
(* The last thing heard of a device is the last thing that happened to it. *)

LEMMA FeedOfSame ==
    ASSUME NEW j \in Ids, SameFeed(j), daemon'[j] = daemon[j], FeedOf(j)
    PROVE  FeedOf(j)'
<1>1. Items(j)' = Items(j)
  BY DEF Items
<1>. QED
  BY <1>1, DeviceStreamSets DEF SameFeed, FeedOf

LEMMA FeedFrame ==
    ASSUME FeedInv, UNCHANGED <<daemon, bridge_up, closed>>, disturbed \subseteq disturbed',
           \A s \in DeviceStreams \cup {"owner"} : streams'[s] = streams[s]
    PROVE  FeedInv'
<1>1. Good' => Good
  BY DEF Good
<1>2. ASSUME NEW j \in Ids, FeedOf(j) PROVE FeedOf(j)'
  BY <1>2, FeedOfSame, StillFeed
<1>. QED
  BY <1>1, <1>2 DEF FeedInv

\* A signal of a device's presence is now the last thing heard of it.
LEMMA FeedPresence ==
    ASSUME TypeInv, ShapeInv, FeedInv, NEW i, NEW signal,
           Signals(i, {"presence"}, signal),
           IF daemon'[i] = None THEN signal.event = "Remove"
           ELSE signal.event # "Remove" /\ signal.desc = daemon'[i].desc
    PROVE  FeedInv'
<1>. SUFFICES ASSUME Good' PROVE FeedInv'
  BY DEF FeedInv
<1>1. Good
  BY GoodSignals
<1>2. Unheard \/ HeardBy({"presence"}, signal)
  BY <1>1, PresenceFirst, SignalHeard
<1>3. i \in Ids /\ signal \in DeviceSignal /\ signal.id = i
  BY DEF Signals
<1>4. streams["presence"] \in Seq(Incoming)
  BY DeviceStreamSets DEF TypeInv, TypeOK
<1>5. ~bridge_up' => \A s \in DeviceStreams : streams'[s] = <<>>
  <2>1. bridge_up' = bridge_up
    BY SignalStreams
  <2>. SUFFICES ASSUME ~bridge_up PROVE \A s \in DeviceStreams : streams'[s] = <<>>
    BY <2>1
  <2>2. \A s \in Streams : streams'[s] = streams[s]
    BY SignalStreams DEF Hears
  <2>. QED
    BY <1>1, <2>2, DeviceStreamSets DEF FeedInv
<1>6. FeedOf(i)'
  <2>1. CASE Unheard
    BY <2>1, EmptyContains, DeviceStreamSets DEF Unheard, FeedOf
  <2>2. CASE HeardBy({"presence"}, signal)
    <3>1. PICK p \in BOOLEAN :
            streams'["presence"] = Append(streams["presence"], Item(signal, p))
      BY <2>2, DeviceStreamSets DEF HeardBy
    <3>2. /\ Item(signal, p) \in Incoming /\ Item(signal, p) \in Items(i)
          /\ Item(signal, p).signal = signal
      BY <1>3, ItemType DEF Items
    <3>3. ASSUME NEW x \in Incoming, LastIn(streams'["presence"], Items(i), x)
          PROVE  x = Item(signal, p)
      BY <1>4, <3>1, <3>2, <3>3, LastAppend
    <3>4. Items(i)' = Items(i)
      BY DEF Items
    <3>. QED
      BY <3>2, <3>3, <3>4 DEF FeedOf
  <2>. QED
    BY <1>2, <2>1, <2>2
<1>7. ASSUME NEW j \in Ids, j # i PROVE FeedOf(j)'
  BY <1>1, <1>7, FeedOfSame, SignalElsewhere DEF FeedInv, Signals
<1>. QED
  BY <1>5, <1>6, <1>7 DEF FeedInv

\* A decision leaves the presence stream alone.
LEMMA FeedDecision ==
    ASSUME TypeInv, ShapeInv, FeedInv, NEW i, NEW on \in SUBSET PolicyStreams, NEW signal,
           Signals(i, on, signal), daemon[i] # None, daemon'[i] # None,
           daemon'[i].desc = daemon[i].desc
    PROVE  FeedInv'
<1>. SUFFICES ASSUME Good' PROVE FeedInv'
  BY DEF FeedInv
<1>1. Good /\ i \in Ids
  BY GoodSignals DEF Signals
<1>2. streams'["presence"] = streams["presence"]
  BY SignalStreams, DeviceStreamSets
<1>3. ~bridge_up' => \A s \in DeviceStreams : streams'[s] = <<>>
  <2>1. bridge_up' = bridge_up
    BY SignalStreams
  <2>. SUFFICES ASSUME ~bridge_up PROVE \A s \in DeviceStreams : streams'[s] = <<>>
    BY <2>1
  <2>2. \A s \in Streams : streams'[s] = streams[s]
    BY SignalStreams DEF Hears
  <2>. QED
    BY <1>1, <2>2, DeviceStreamSets DEF FeedInv
<1>4. FeedOf(i)'
  <2>1. Items(i)' = Items(i) /\ FeedOf(i)
    BY <1>1 DEF Items, FeedInv
  <2>. QED
    BY <1>2, <2>1 DEF FeedOf
<1>5. ASSUME NEW j \in Ids, j # i PROVE FeedOf(j)'
  BY <1>1, <1>5, FeedOfSame, SignalElsewhere DEF FeedInv, Signals
<1>. QED
  BY <1>3, <1>4, <1>5 DEF FeedInv

LEMMA DecidedRow ==
    ASSUME TypeInv, NEW i \in Ids, NEW t \in Targets, Decide(i, t)
    PROVE  /\ daemon[i] # None /\ daemon'[i] # None /\ ~daemon[i].decided
           /\ daemon'[i].desc = daemon[i].desc
           /\ daemon'[i].target = t /\ daemon'[i].decided
<1>1. daemon[i] # None /\ ~daemon[i].decided /\ daemon[i] \in DaemonDevice
  BY DaemonRow DEF Decide
<1>2. daemon'[i] = [daemon[i] EXCEPT !.target = t, !.decided = TRUE]
  BY DEF Decide, TypeInv, TypeOK
<1>3. daemon'[i] \in DaemonDevice
  BY <1>1, <1>2
<1>. QED
  BY <1>1, <1>2, <1>3, EventWorkerAssumption

LEMMA ChangedRow ==
    ASSUME TypeInv, NEW i \in Ids, NEW t \in Targets, NEW permanent \in BOOLEAN,
           ChangePolicy(i, t, permanent)
    PROVE  /\ daemon[i] # None /\ daemon'[i] # None /\ daemon[i].decided
           /\ daemon'[i].desc = daemon[i].desc
           /\ daemon'[i].target = t /\ daemon'[i].decided
<1>1. daemon[i] # None /\ daemon[i].decided /\ daemon[i] \in DaemonDevice
  BY DaemonRow DEF ChangePolicy
<1>2. daemon'[i] = [daemon[i] EXCEPT !.target = t]
  BY DEF ChangePolicy, TypeInv, TypeOK
<1>3. daemon'[i] \in DaemonDevice
  BY <1>1, <1>2
<1>. QED
  BY <1>1, <1>2, <1>3, EventWorkerAssumption

\* A loss nobody notices comes before the first stream.
LEMMA QuietLoss ==
    ASSUME TypeInv, ShapeInv, BridgeLost, Good'
    PROVE  Good /\ \A s \in DeviceStreams : streams'[s] = <<>> /\ streams[s] = <<>>
<1>1. /\ UNCHANGED closed /\ disturbed \subseteq disturbed' /\ ~closed
      /\ streams' = IF Hears("owner")
                    THEN [streams EXCEPT !["owner"] =
                              Append(streams["owner"], Event("OwnerLost"))]
                    ELSE streams
      /\ Subscribed # {} => "owner" \in Subscribed
      /\ bridge_up
  BY DEF BridgeLost, Good
<1>2. \A s \in DeviceStreams : streams'[s] = streams[s]
  BY <1>1, DeviceStreamSets DEF TypeInv, TypeOK
<1>3. ~Hears("owner")
  <2>1. streams["owner"] \in Seq(Incoming) /\ Event("OwnerLost") \in Incoming
    BY DeviceStreamSets, EventTypes DEF TypeInv, TypeOK
  <2>2. Append(streams["owner"], Event("OwnerLost")) # <<>>
    BY <2>1
  <2>. QED
    BY <1>1, <2>2, DeviceStreamSets DEF Good, TypeInv, TypeOK
<1>4. Good
  BY <1>1, <1>3 DEF Good
<1>5. Subscribed = {}
  BY <1>1, <1>3 DEF Hears
<1>6. \A s \in DeviceStreams : streams[s] = <<>>
  BY <1>5, DeviceStreamSets DEF ShapeInv, UnheardInv
<1>. QED
  BY <1>2, <1>4, <1>6

LEMMA FeedDaemon ==
    TypeInv /\ ShapeInv /\ FeedInv /\ (Daemon \/ BridgeBack) => FeedInv'
<1>. SUFFICES ASSUME TypeInv, ShapeInv, FeedInv, Daemon \/ BridgeBack PROVE FeedInv'
  OBVIOUS
<1>1. ASSUME NEW i \in Ids, NEW d \in Descriptions, Plug(i, d) PROVE FeedInv'
  <2>1. Signals(i, {"presence"}, Arrival(i, "Insert", d))
    BY <1>1, PlugSignals
  <2>2. daemon'[i] = [target |-> ProvisionalTarget, desc |-> d, decided |-> FALSE]
    BY <1>1 DEF Plug, TypeInv, TypeOK
  <2>3. daemon'[i] \in DaemonDevice
    BY <2>2, EventWorkerAssumption
  <2>4. daemon'[i] # None
    BY <2>3, EventWorkerAssumption
  <2>. QED
    BY <2>1, <2>2, <2>4, FeedPresence DEF Arrival
<1>2. ASSUME NEW i \in Ids, Update(i) PROVE FeedInv'
  <2>1. Signals(i, {"presence"}, Arrival(i, "Update", daemon[i].desc))
    BY <1>2, UpdateSignals
  <2>. QED
    BY <1>2, <2>1, FeedPresence DEF Arrival, Update
<1>3. ASSUME NEW i \in Ids, NEW t \in Targets, Decide(i, t) PROVE FeedInv'
  <2>1. Signals(i, {"applied"}, Decision(i, t))
    BY <1>3, DecideSignals
  <2>2. /\ daemon[i] # None /\ daemon'[i] # None
        /\ daemon'[i].desc = daemon[i].desc
    BY <1>3, DecidedRow
  <2>. QED
    BY <2>1, <2>2, FeedDecision DEF PolicyStreams
<1>4. ASSUME NEW i \in Ids, NEW t \in Targets, NEW permanent \in BOOLEAN,
             ChangePolicy(i, t, permanent)
      PROVE  FeedInv'
  <2>1. Signals(i, {"changed", "applied"}, Decision(i, t))
    BY <1>4, ChangeSignals
  <2>2. /\ daemon[i] # None /\ daemon'[i] # None
        /\ daemon'[i].desc = daemon[i].desc
    BY <1>4, ChangedRow
  <2>. QED
    BY <2>1, <2>2, FeedDecision DEF PolicyStreams
<1>5. ASSUME NEW i \in Ids, Unplug(i) PROVE FeedInv'
  <2>1. Signals(i, {"presence"}, Departure(i))
    BY <1>5, UnplugSignals
  <2>2. daemon'[i] = None
    BY <1>5 DEF Unplug, TypeInv, TypeOK
  <2>. QED
    BY <2>1, <2>2, FeedPresence DEF Departure
<1>6. {"exceptions", "parameters"} \cap (DeviceStreams \cup {"owner"}) = {}
  BY StreamNames, DeviceStreamSets
<1>7. CASE RaiseException \/ ChangeParameter
  <2>1. UNCHANGED <<daemon, bridge_up, closed, disturbed>>
    BY <1>7 DEF RaiseException, ChangeParameter, DaemonStep
  <2>2. \A s \in DeviceStreams \cup {"owner"} : streams'[s] = streams[s]
    BY <1>6, <1>7, DeviceStreamSets
       DEF RaiseException, ChangeParameter, TypeInv, TypeOK
  <2>. QED
    BY <2>1, <2>2, FeedFrame
<1>8. CASE BridgeLost
  <2>. SUFFICES ASSUME Good' PROVE FeedInv'
    BY DEF FeedInv
  <2>1. \A s \in DeviceStreams : streams'[s] = <<>>
    BY <1>8, QuietLoss
  <2>. QED
    BY <2>1, EmptyContains, DeviceStreamSets DEF FeedInv, FeedOf
<1>9. CASE ConnectionClosed
  BY <1>9 DEF ConnectionClosed, FeedInv, Good
<1>10. CASE BridgeBack
  <2>1. UNCHANGED <<daemon, closed, disturbed, streams>> /\ bridge_up'
    BY <1>10 DEF BridgeBack, historyVars
  <2>. QED
    BY <2>1 DEF FeedInv, FeedOf, Good, Items
<1>11. ASSUME plugged # Descriptions
       PROVE  (CHOOSE d \in Descriptions : d \notin plugged) \in Descriptions
  BY <1>11 DEF TypeInv, TypeOK
<1>. QED
  BY <1>1, <1>2, <1>3, <1>4, <1>5, <1>7, <1>8, <1>9, <1>10, <1>11 DEF Daemon

\* The steps of the worker, the interface and the clock that leave the streams
\* of the devices, and what the daemon has, alone.
Still ==
    /\ UNCHANGED <<daemon, plugged, bridge_up, closed, decided, gone, disturbed>>
    /\ \A s \in DeviceStreams \cup {"owner"} : streams'[s] = streams[s]

LEMMA StillSteps ==
    ASSUME TypeInv,
           \/ Send \/ Subscribe \/ Start \/ Resync \/ CallFails \/ TakeException
           \/ TakeParameter \/ Lose \/ Timeout \/ Apply \/ Tick
    PROVE  Still
<1>1. CASE Send \/ Subscribe \/ Start \/ Resync \/ CallFails
  BY <1>1 DEF Send, Subscribe, Start, Resync, CallFails, Still, daemonVars, historyVars
<1>2. CASE Lose \/ Timeout \/ Apply \/ Tick
  BY <1>2 DEF Lose, Timeout, Apply, Tick, Still, daemonVars, historyVars
<1>3. {"exceptions", "parameters"} \cap (DeviceStreams \cup {"owner"}) = {}
  BY StreamNames, DeviceStreamSets
<1>4. CASE TakeException \/ TakeParameter
  BY ZenonT(60), <1>3, <1>4, DeviceStreamSets
     DEF TakeException, TakeParameter, TakeOther, Still, daemonVars, historyVars,
         TypeInv, TypeOK
<1>. QED
  BY <1>1, <1>2, <1>4

LEMMA GoodTake ==
    ASSUME TypeInv, ShapeInv, NEW s \in DeviceStreams, TakeDevice(s)
    PROVE  /\ Good' => Good
           /\ disturbed \subseteq disturbed'
           /\ gone \subseteq gone' /\ decided \subseteq decided'
<1>1. disturbed \subseteq disturbed' /\ gone \subseteq gone' /\ decided \subseteq decided'
  BY DEF TakeDevice, TakeHistory
<1>2. streams'["owner"] = streams["owner"] /\ closed' = closed
  BY TakeFacts, DeviceStreamSets DEF daemonVars
<1>. QED
  BY <1>1, <1>2 DEF Good

LEMMA FeedWorker ==
    TypeInv /\ ShapeInv /\ FeedInv /\ (Worker \/ Apply \/ Tick) => FeedInv'
<1>. SUFFICES ASSUME TypeInv, ShapeInv, FeedInv, Worker \/ Apply \/ Tick
              PROVE  FeedInv'
  OBVIOUS
<1>1. ASSUME Still PROVE FeedInv'
  BY <1>1, FeedFrame DEF Still
<1>2. ASSUME NEW s \in DeviceStreams, TakeDevice(s) PROVE FeedInv'
  <2>. SUFFICES ASSUME Good' PROVE FeedInv'
    BY DEF FeedInv
  <2>1. Good
    BY <1>2, GoodTake
  <2>2. /\ streams[s] \in Seq(Incoming) /\ streams[s] # <<>>
        /\ streams'[s] = Tail(streams[s])
        /\ \A r \in Streams : r # s => streams'[r] = streams[r]
        /\ UNCHANGED <<daemon, bridge_up>>
    BY <1>2, TakeFacts DEF daemonVars
  <2>3. bridge_up
    BY <2>1, <2>2 DEF FeedInv, TypeInv, TypeOK
  <2>4. ASSUME NEW i \in Ids PROVE FeedOf(i)'
    <3>1. FeedOf(i) /\ Items(i)' = Items(i)
      BY <2>1 DEF FeedInv, Items
    <3>2. CASE s = "presence"
      <4>1. \A x \in Incoming : LastIn(Tail(streams[s]), Items(i), x) =>
                LastIn(streams[s], Items(i), x)
        BY <2>2, LastTail
      <4>. QED
        BY <2>2, <3>1, <3>2, <4>1 DEF FeedOf
    <3>3. CASE s # "presence"
      <4>1. streams'["presence"] = streams["presence"]
        BY <2>2, <3>3, DeviceStreamSets
      <4>. QED
        BY <2>2, <3>1, <4>1 DEF FeedOf
    <3>. QED
      BY <3>2, <3>3
  <2>. QED
    BY <2>2, <2>3, <2>4 DEF FeedInv
<1>3. CASE Restart
  <2>1. \A s \in Streams : streams'[s] = <<>>
    BY <1>3 DEF Restart
  <2>. QED
    BY <2>1, EmptyContains, DeviceStreamSets DEF FeedInv, FeedOf
<1>. QED
  BY <1>1, <1>2, <1>3, StillSteps DEF Worker

-----------------------------------------------------------------------------
(* The order of decisions, insertions and removals.                        *)

LEMMA OrderOfSame ==
    ASSUME NEW j \in Ids, SameFeed(j), daemon'[j] = daemon[j], OrderOf(j),
           decided \subseteq decided', gone \subseteq gone'
    PROVE  OrderOf(j)'
<1>1. ASSUME NEW s \in DeviceStreams, NEW G, G \subseteq Items(j)
      PROVE  /\ Contains(streams'[s], G) <=> Contains(streams[s], G)
             /\ \A x \in Incoming : LastIn(streams'[s], G, x) <=> LastIn(streams[s], G, x)
  BY <1>1 DEF SameFeed
<1>2. \A d : /\ ItemsOf(j, d) \subseteq Items(j) /\ RemovalsOf(j, d) \subseteq Items(j)
             /\ SightingsOf(j, d) \subseteq Items(j)
  BY ItemSets
<1>3. LastDecision(j)'
  BY <1>1, <1>2, DeviceStreamSets DEF OrderOf, LastDecision
<1>4. OwnedDecisions(j)'
  BY <1>1, <1>2, DeviceStreamSets DEF OrderOf, OwnedDecisions
<1>5. DecisionHeard(j)'
  BY <1>1, <1>2, DeviceStreamSets DEF OrderOf, DecisionHeard, DeviceStreams
<1>6. NotYetDecided(j)'
  BY <1>1, <1>2, DeviceStreamSets DEF OrderOf, NotYetDecided, NoPolicy
<1>. QED
  BY <1>3, <1>4, <1>5, <1>6 DEF OrderOf

LEMMA OrderFrame ==
    ASSUME OrderInv, Good' => Good, disturbed \subseteq disturbed', daemon' = daemon,
           decided \subseteq decided', gone \subseteq gone',
           \A s \in DeviceStreams : streams'[s] = streams[s]
    PROVE  OrderInv'
<1>1. ASSUME NEW j \in Ids, OrderOf(j) PROVE OrderOf(j)'
  BY <1>1, OrderOfSame, StillFeed
<1>. QED
  BY <1>1 DEF OrderInv

LEMMA OrderUnheard ==
    ASSUME \A s \in DeviceStreams : streams'[s] = <<>>
    PROVE  OrderInv'
BY EmptyContains, DeviceStreamSets
   DEF OrderInv, OrderOf, LastDecision, OwnedDecisions, DecisionHeard, NotYetDecided,
       NoPolicy, DeviceStreams

\* A device arrives, changes before its decision, or leaves.
LEMMA OrderPresence ==
    ASSUME TypeInv, ShapeInv, FeedInv, OrderInv, NEW i, NEW signal,
           Signals(i, {"presence"}, signal),
           daemon'[i] # None =>
                /\ ~daemon'[i].decided
                /\ \/ daemon'[i] = daemon[i]
                   \/ daemon'[i].desc \in Descriptions \ plugged,
           daemon[i] # None =>
                daemon'[i] = daemon[i] \/ (daemon'[i] = None /\ signal = Departure(i))
    PROVE  OrderInv'
<1>. SUFFICES ASSUME Good', disturbed' = {} PROVE OrderInv'
  BY DEF OrderInv
<1>1. Good /\ disturbed = {}
  BY GoodSignals, SignalStreams
<1>2. Unheard \/ HeardBy({"presence"}, signal)
  BY <1>1, PresenceFirst, SignalHeard
<1>3. CASE Unheard
  BY <1>3, OrderUnheard DEF Unheard
<1>4. CASE HeardBy({"presence"}, signal)
  <2>0. i \in Ids /\ signal \in DeviceSignal /\ signal.id = i
    BY DEF Signals
  <2>1. /\ i \in Ids /\ signal \in DeviceSignal /\ signal.id = i /\ OrderOf(i)
        /\ UNCHANGED <<gone, decided>>
    BY <1>1, <2>0, SignalStreams DEF OrderInv
  <2>2. \A s \in PolicyStreams : streams'[s] = streams[s]
    BY <1>4, DeviceStreamSets DEF HeardBy
  <2>3. PICK p \in BOOLEAN :
          streams'["presence"] = Append(streams["presence"], Item(signal, p))
    BY <1>4, DeviceStreamSets DEF HeardBy
  <2>4. /\ Item(signal, p) \in Incoming /\ Item(signal, p).type = "Device"
        /\ Item(signal, p).signal = signal
        /\ streams["presence"] \in Seq(Incoming)
    BY <2>1, ItemType, DeviceStreamSets DEF TypeInv, TypeOK
  <2>5. \A G : Contains(streams'["presence"], G) <=>
              Contains(streams["presence"], G) \/ Item(signal, p) \in G
    BY <2>3, <2>4, ContainsAppend
  <2>6. \A d \in Descriptions : d \notin plugged => NoPolicy(i, d)
    BY <2>1 DEF ShapeInv, PluggedInv, NoPolicy
  <2>7. daemon'[i] # None =>
            daemon'[i] = daemon[i] \/ NoPolicy(i, daemon'[i].desc)
    BY <2>6
  <2>8. LastDecision(i)'
    <3>. SUFFICES ASSUME daemon'[i] # None, NEW s \in PolicyStreams, NEW x \in Incoming,
                         LastIn(streams[s], ItemsOf(i, daemon'[i].desc), x)
                  PROVE  x.signal.target = daemon'[i].target
      BY <2>2 DEF LastDecision
    <3>. QED
      BY <2>1, <2>7, LastContains DEF OrderOf, LastDecision, NoPolicy
  <2>9. OwnedDecisions(i)'
    <3>. SUFFICES ASSUME NEW s \in PolicyStreams, NEW d \in Descriptions,
                         Contains(streams[s], ItemsOf(i, d))
                  PROVE  \/ d \in gone
                         \/ Contains(streams'["presence"], RemovalsOf(i, d))
                         \/ daemon'[i] # None /\ daemon'[i].desc = d
      BY <2>1, <2>2 DEF OwnedDecisions
    <3>1. \/ d \in gone
          \/ Contains(streams["presence"], RemovalsOf(i, d))
          \/ daemon[i] # None /\ daemon[i].desc = d
      BY <2>1 DEF OrderOf, OwnedDecisions
    <3>2. ASSUME daemon[i] # None, daemon[i].desc = d, signal = Departure(i)
          PROVE  Item(signal, p) \in RemovalsOf(i, d)
      BY <2>1, <2>4, <3>2 DEF RemovalsOf, ItemsOf, Items, Departure
    <3>. QED
      BY <2>5, <3>1, <3>2
  <2>10. DecisionHeard(i)'
    BY DEF DecisionHeard
  <2>11. NotYetDecided(i)'
    <3>. SUFFICES ASSUME daemon'[i] # None PROVE NoPolicy(i, daemon'[i].desc)
      BY <2>2 DEF NotYetDecided, NoPolicy
    <3>. QED
      BY <2>1, <2>7 DEF OrderOf, NotYetDecided
  <2>12. OrderOf(i)'
    BY <2>8, <2>9, <2>10, <2>11 DEF OrderOf
  <2>13. ASSUME NEW j \in Ids, j # i PROVE OrderOf(j)'
    BY <1>1, <2>1, <2>13, OrderOfSame, SignalElsewhere DEF OrderInv, Signals
  <2>. QED
    BY <2>12, <2>13 DEF OrderInv
<1>. QED
  BY <1>2, <1>3, <1>4

\* A decision about a device: on both streams, or the first one.
LEMMA OrderDecision ==
    ASSUME TypeInv, ShapeInv, FeedInv, OrderInv, NEW i, NEW on \in SUBSET PolicyStreams,
           NEW t, Signals(i, on, Decision(i, t)), "applied" \in on,
           daemon[i] # None, daemon'[i] # None, daemon'[i].desc = daemon[i].desc,
           daemon'[i].target = t, daemon'[i].decided,
           on = PolicyStreams \/ ~daemon[i].decided
    PROVE  OrderInv'
<1>. DEFINE signal == Decision(i, t)
<1>. SUFFICES ASSUME Good', disturbed' = {} PROVE OrderInv'
  BY DEF OrderInv
<1>1. Good /\ disturbed = {}
  BY GoodSignals, SignalStreams
<1>2. Unheard \/ HeardBy(on, signal)
  <2>1. subscribed > 0 => on \subseteq Subscribed
    BY SignalStreams
  <2>2. subscribed \in Nat
    BY DEF TypeInv, TypeOK
  <2>. QED
    BY <1>1, <2>1, <2>2, SignalHeard
<1>3. CASE Unheard
  BY <1>3, OrderUnheard DEF Unheard
<1>4. CASE HeardBy(on, signal)
  <2>1. /\ i \in Ids /\ signal \in DeviceSignal /\ OrderOf(i)
        /\ UNCHANGED <<gone, decided>>
    BY <1>1, SignalStreams DEF Signals, OrderInv
  <2>2. /\ signal.id = i /\ signal.desc = daemon[i].desc /\ signal.target = t
        /\ signal.kind = "Policy"
    BY DEF Decision
  <2>. HIDE DEF signal
  <2>3. \A p \in BOOLEAN : /\ Item(signal, p) \in Incoming
                          /\ Item(signal, p).signal = signal
                          /\ \A d : Item(signal, p) \in ItemsOf(i, d) <=> d = daemon[i].desc
    BY <2>1, <2>2, ItemType DEF ItemsOf, Items
  <2>4. \A s \in DeviceStreams : streams[s] \in Seq(Incoming)
    BY DeviceStreamSets DEF TypeInv, TypeOK
  <2>5. streams'["presence"] = streams["presence"]
    BY <1>4, DeviceStreamSets DEF HeardBy
  <2>6. ASSUME NEW s \in PolicyStreams, s \in on
        PROVE  \E p \in BOOLEAN : streams'[s] = Append(streams[s], Item(signal, p))
    BY <1>4, <2>6, DeviceStreamSets DEF HeardBy
  <2>7. ASSUME NEW s \in PolicyStreams, s \notin on
        PROVE  streams'[s] = streams[s]
    BY <1>4, <2>7, DeviceStreamSets DEF HeardBy
  <2>8. LastDecision(i)'
    <3>. SUFFICES ASSUME NEW s \in PolicyStreams, NEW x \in Incoming,
                         LastIn(streams'[s], ItemsOf(i, daemon[i].desc), x)
                  PROVE  x.signal.target = t
      BY DEF LastDecision
    <3>1. CASE s \in on
      <4>1. PICK p \in BOOLEAN : streams'[s] = Append(streams[s], Item(signal, p))
        BY <2>6, <3>1
      <4>2. x = Item(signal, p)
        BY SMTT(30), <2>3, <2>4, <4>1, LastAppend, DeviceStreamSets
      <4>. QED
        BY <2>2, <2>3, <4>2
    <3>2. CASE s \notin on
      <4>1. Contains(streams[s], ItemsOf(i, daemon[i].desc))
        BY <2>7, <3>2, LastContains
      <4>2. ~daemon[i].decided
        BY <3>2
      <4>. QED
        BY <2>1, <4>1, <4>2 DEF OrderOf, NotYetDecided, NoPolicy
    <3>. QED
      BY <3>1, <3>2
  <2>9. OwnedDecisions(i)'
    <3>. SUFFICES ASSUME NEW s \in PolicyStreams, NEW d \in Descriptions,
                         Contains(streams'[s], ItemsOf(i, d)), d # daemon[i].desc
                  PROVE  d \in gone \/ Contains(streams["presence"], RemovalsOf(i, d))
      BY <2>1, <2>5 DEF OwnedDecisions
    <3>1. Contains(streams[s], ItemsOf(i, d))
      <4>1. ASSUME NEW p \in BOOLEAN, streams'[s] = Append(streams[s], Item(signal, p))
            PROVE  Contains(streams[s], ItemsOf(i, d))
        <5>1. Item(signal, p) \notin ItemsOf(i, d)
          BY <2>3
        <5>. QED
          BY SMTT(30), <2>3, <2>4, <4>1, <5>1, ContainsAppend, DeviceStreamSets
      <4>. QED
        BY <2>6, <2>7, <4>1
    <3>. QED
      BY <2>1, <3>1 DEF OrderOf, OwnedDecisions
  <2>10. DecisionHeard(i)'
    <3>1. PICK p \in BOOLEAN : streams'["applied"] = Append(streams["applied"], Item(signal, p))
      BY <2>6
    <3>2. Contains(streams'["applied"], ItemsOf(i, daemon[i].desc))
      BY <2>3, <2>4, <3>1, ContainsAppend, DeviceStreamSets
    <3>. QED
      BY <3>2 DEF DecisionHeard
  <2>11. NotYetDecided(i)'
    BY DEF NotYetDecided
  <2>12. OrderOf(i)'
    BY <2>8, <2>9, <2>10, <2>11 DEF OrderOf
  <2>13. ASSUME NEW j \in Ids, j # i PROVE OrderOf(j)'
    BY <1>1, <2>1, <2>13, OrderOfSame, SignalElsewhere DEF OrderInv, Signals
  <2>. QED
    BY <2>12, <2>13 DEF OrderInv
<1>. QED
  BY <1>2, <1>3, <1>4

LEMMA OrderDaemon ==
    TypeInv /\ ShapeInv /\ FeedInv /\ OrderInv /\ (Daemon \/ BridgeBack) => OrderInv'
<1>. SUFFICES ASSUME TypeInv, ShapeInv, FeedInv, OrderInv, Daemon \/ BridgeBack
              PROVE  OrderInv'
  OBVIOUS
<1>1. ASSUME NEW i \in Ids, NEW d \in Descriptions, d \notin plugged, Plug(i, d)
      PROVE  OrderInv'
  <2>1. Signals(i, {"presence"}, Arrival(i, "Insert", d))
    BY <1>1, PlugSignals
  <2>2. /\ daemon'[i] = [target |-> ProvisionalTarget, desc |-> d, decided |-> FALSE]
        /\ daemon[i] = None
    BY <1>1 DEF Plug, TypeInv, TypeOK
  <2>. QED
    BY <1>1, <2>1, <2>2, OrderPresence
<1>2. ASSUME NEW i \in Ids, Update(i) PROVE OrderInv'
  <2>1. Signals(i, {"presence"}, Arrival(i, "Update", daemon[i].desc))
    BY <1>2, UpdateSignals
  <2>2. daemon' = daemon /\ daemon[i] # None /\ ~daemon[i].decided
    BY <1>2 DEF Update
  <2>. QED
    BY <2>1, <2>2, OrderPresence
<1>3. ASSUME NEW i \in Ids, NEW t \in Targets, Decide(i, t) PROVE OrderInv'
  <2>1. Signals(i, {"applied"}, Decision(i, t))
    BY <1>3, DecideSignals
  <2>2. {"applied"} \in SUBSET PolicyStreams
    BY DEF PolicyStreams
  <2>. QED
    BY <1>3, <2>1, <2>2, DecidedRow, OrderDecision
<1>4. ASSUME NEW i \in Ids, NEW t \in Targets, NEW permanent \in BOOLEAN,
             ChangePolicy(i, t, permanent)
      PROVE  OrderInv'
  <2>1. Signals(i, PolicyStreams, Decision(i, t)) /\ "applied" \in PolicyStreams
    BY <1>4, ChangeSignals DEF PolicyStreams
  <2>. QED
    BY <1>4, <2>1, ChangedRow, OrderDecision
<1>5. ASSUME NEW i \in Ids, Unplug(i) PROVE OrderInv'
  <2>1. Signals(i, {"presence"}, Departure(i))
    BY <1>5, UnplugSignals
  <2>2. daemon'[i] = None
    BY <1>5 DEF Unplug, TypeInv, TypeOK
  <2>. QED
    BY <2>1, <2>2, OrderPresence
<1>6. {"exceptions", "parameters"} \cap (DeviceStreams \cup {"owner"}) = {}
  BY StreamNames, DeviceStreamSets
<1>7. CASE RaiseException \/ ChangeParameter
  <2>1. UNCHANGED <<daemon, closed, disturbed, decided, gone>>
    BY <1>7 DEF RaiseException, ChangeParameter, DaemonStep
  <2>2. \A s \in DeviceStreams \cup {"owner"} : streams'[s] = streams[s]
    BY <1>6, <1>7, DeviceStreamSets
       DEF RaiseException, ChangeParameter, TypeInv, TypeOK
  <2>. QED
    BY <2>1, <2>2, OrderFrame DEF Good
<1>8. CASE BridgeLost
  <2>. SUFFICES ASSUME Good' PROVE OrderInv'
    BY DEF OrderInv
  <2>. QED
    BY <1>8, QuietLoss, OrderUnheard
<1>9. CASE ConnectionClosed
  BY <1>9 DEF ConnectionClosed, OrderInv, Good
<1>10. CASE BridgeBack
  <2>1. UNCHANGED <<daemon, closed, disturbed, streams, decided, gone>>
    BY <1>10 DEF BridgeBack, historyVars
  <2>. QED
    BY <2>1, OrderFrame DEF Good
<1>11. ASSUME plugged # Descriptions
       PROVE  /\ (CHOOSE d \in Descriptions : d \notin plugged) \in Descriptions
              /\ (CHOOSE d \in Descriptions : d \notin plugged) \notin plugged
  BY <1>11 DEF TypeInv, TypeOK
<1>. QED
  BY <1>1, <1>2, <1>3, <1>4, <1>5, <1>7, <1>8, <1>9, <1>10, <1>11 DEF Daemon

\* What taking an item does to what a stream holds.
LEMMA TakeStreams ==
    ASSUME TypeInv, ShapeInv, NEW s \in DeviceStreams, TakeDevice(s),
           NEW r \in DeviceStreams, NEW G
    PROVE  /\ Contains(streams'[r], G) => Contains(streams[r], G)
           /\ Contains(streams[r], G) =>
                Contains(streams'[r], G) \/ (r = s /\ Head(streams[s]) \in G)
           /\ \A x : LastIn(streams'[r], G, x) => LastIn(streams[r], G, x)
<1>1. /\ streams[s] \in Seq(Incoming) /\ streams[s] # <<>>
      /\ streams'[s] = Tail(streams[s])
      /\ r # s => streams'[r] = streams[r]
  BY TakeFacts, DeviceStreamSets
<1>2. Contains(streams[s], G) <=> Head(streams[s]) \in G \/ Contains(Tail(streams[s]), G)
  BY <1>1, ContainsTail
<1>3. \A x : LastIn(Tail(streams[s]), G, x) => LastIn(streams[s], G, x)
  BY <1>1, LastTail
<1>. QED
  BY <1>1, <1>2, <1>3

LEMMA OrderTake ==
    ASSUME TypeInv, ShapeInv, OrderInv, NEW s \in DeviceStreams, TakeDevice(s)
    PROVE  OrderInv'
<1>. DEFINE item == Head(streams[s])
<1>. SUFFICES ASSUME Good', disturbed' = {}, NEW i \in Ids PROVE OrderOf(i)'
  BY DEF OrderInv
<1>1. OrderOf(i) /\ gone \subseteq gone' /\ decided \subseteq decided'
  BY GoodTake DEF OrderInv
<1>2. daemon' = daemon
  BY TakeFacts DEF daemonVars
<1>3. ASSUME NEW r \in DeviceStreams, NEW G
      PROVE  /\ Contains(streams'[r], G) => Contains(streams[r], G)
             /\ Contains(streams[r], G) =>
                    Contains(streams'[r], G) \/ (r = s /\ item \in G)
             /\ \A x : LastIn(streams'[r], G, x) => LastIn(streams[r], G, x)
  BY TakeStreams
<1>4. /\ item.signal.kind = "Policy" => item.signal.desc \in decided'
      /\ item.signal.kind = "Presence" /\ item.signal.event = "Remove" =>
            item.signal.desc \in gone'
  BY DEF TakeDevice, TakeHistory
<1>. HIDE DEF item
<1>5. LastDecision(i)'
  BY <1>1, <1>2, <1>3, DeviceStreamSets DEF OrderOf, LastDecision
<1>6. OwnedDecisions(i)'
  <2>. SUFFICES ASSUME NEW r \in PolicyStreams, NEW d \in Descriptions,
                       Contains(streams'[r], ItemsOf(i, d))
                PROVE  \/ d \in gone'
                       \/ Contains(streams'["presence"], RemovalsOf(i, d))
                       \/ daemon[i] # None /\ daemon[i].desc = d
    BY <1>2 DEF OwnedDecisions
  <2>1. \/ d \in gone
        \/ Contains(streams["presence"], RemovalsOf(i, d))
        \/ daemon[i] # None /\ daemon[i].desc = d
    BY <1>1, <1>3, DeviceStreamSets DEF OrderOf, OwnedDecisions
  <2>2. item \in RemovalsOf(i, d) => d \in gone'
    BY <1>4 DEF RemovalsOf, ItemsOf
  <2>. QED
    BY <1>1, <1>3, <2>1, <2>2, DeviceStreamSets
<1>7. DecisionHeard(i)'
  <2>. SUFFICES ASSUME daemon[i] # None, daemon[i].decided,
                       Contains(streams'["presence"], SightingsOf(i, daemon[i].desc))
                PROVE  \/ daemon[i].desc \in decided'
                       \/ Contains(streams'["applied"], ItemsOf(i, daemon[i].desc))
    BY <1>2 DEF DecisionHeard
  <2>1. \/ daemon[i].desc \in decided
        \/ Contains(streams["applied"], ItemsOf(i, daemon[i].desc))
    BY <1>1, <1>3, DeviceStreamSets DEF OrderOf, DecisionHeard
  <2>2. ASSUME "applied" = s, item \in ItemsOf(i, daemon[i].desc)
        PROVE  daemon[i].desc \in decided'
    <3>1. item.signal.kind = "Policy"
      <4>1. item \in PolicyFeed
        BY <2>2, TakeFacts, AllTail DEF ShapeInv, KindInv, PolicyStreams, item
      <4>. QED
        BY <4>1 DEF PolicyFeed
    <3>. QED
      BY <1>4, <2>2, <3>1 DEF ItemsOf
  <2>. QED
    BY <1>1, <1>3, <2>1, <2>2 DEF DeviceStreams
<1>8. NotYetDecided(i)'
  BY <1>1, <1>2, <1>3, DeviceStreamSets DEF OrderOf, NotYetDecided, NoPolicy
<1>. QED
  BY <1>5, <1>6, <1>7, <1>8 DEF OrderOf

LEMMA OrderWorker ==
    TypeInv /\ ShapeInv /\ OrderInv /\ (Worker \/ Apply \/ Tick) => OrderInv'
<1>. SUFFICES ASSUME TypeInv, ShapeInv, OrderInv, Worker \/ Apply \/ Tick
              PROVE  OrderInv'
  OBVIOUS
<1>1. ASSUME Still PROVE OrderInv'
  BY <1>1, OrderFrame DEF Still, Good
<1>2. CASE Restart
  <2>1. \A s \in Streams : streams'[s] = <<>>
    BY <1>2 DEF Restart
  <2>. QED
    BY <2>1, OrderUnheard, DeviceStreamSets
<1>. QED
  BY <1>1, <1>2, StillSteps, OrderTake DEF Worker

-----------------------------------------------------------------------------
(* What the steps of the daemon do to the display.                         *)

\* What a sequence contains, it contains last somewhere.
LEMMA LastExists ==
    ASSUME NEW S, NEW q \in Seq(S), NEW G, Contains(q, G)
    PROVE  \E x \in S : LastIn(q, G, x)
<1>. DEFINE N == Len(q)
            T == {n \in 1..N : q[n] \in G}
            rest(n) == n..N
            Rests == {rest(n) : n \in T}
<1>1. N \in Nat /\ T # {} /\ \A n \in 1..N : q[n] \in S
  BY DEF Contains
<1>2. Rests # {} /\ Rests \subseteq FiniteSubsetsOf(Nat)
  <2>1. ASSUME NEW n \in T PROVE IsFiniteSet(rest(n)) /\ rest(n) \subseteq Nat
    BY <1>1, FS_Interval
  <2>. QED
    BY <1>1, <2>1 DEF FiniteSubsetsOf
<1>3. PICK R \in Rests : \A C \in Rests : ~ (<<C, R>> \in StrictSubsetOrdering(Nat))
  <2>. HIDE DEF Rests
  <2>. QED
    BY <1>2, FS_StrictSubsetOrderingWellFounded, WFMin
<1>4. PICK n \in T : R = rest(n)
  OBVIOUS
<1>5. ASSUME NEW m \in (n + 1)..N, q[m] \in G PROVE FALSE
  <2>1. m \in T /\ n \in Nat /\ m \in Nat /\ n < m
    BY <1>1, <1>5
  <2>2. rest(m) \in Rests
    BY <2>1
  <2>3. rest(m) \subseteq rest(n) /\ n \in rest(n) /\ n \notin rest(m)
    BY <1>1, <2>1
  <2>4. rest(m) \subseteq Nat /\ rest(n) \subseteq Nat
    BY <1>1, <2>1
  <2>. HIDE DEF rest
  <2>5. <<rest(m), rest(n)>> \in StrictSubsetOrdering(Nat)
    BY <2>3, <2>4 DEF StrictSubsetOrdering
  <2>. QED
    BY <1>3, <1>4, <2>2, <2>5
<1>6. LastIn(q, G, q[n])
  BY <1>4, <1>5 DEF LastIn
<1>. QED
  BY <1>1, <1>4, <1>6

LEMMA LiveOutcome ==
    ASSUME NEW e \in Entry
    PROVE  /\ ~e.removed => /\ Outcome(e) = [target |-> e.target, desc |-> e.desc]
                            /\ e.target \in Targets /\ e.desc \in Descriptions
                            /\ Outcome(e) \in Row /\ Outcome(e) # None
           /\ e.removed => Outcome(e) = None
<1>1. ASSUME ~e.removed PROVE e.target \in Targets /\ e.desc \in Descriptions
  BY <1>1 DEF Entry
<1>2. ASSUME ~e.removed
      PROVE  Outcome(e) = [target |-> e.target, desc |-> e.desc] /\ Outcome(e) \in Row
  BY <1>1, <1>2 DEF Outcome, Row
<1>. QED
  BY <1>1, <1>2, EventWorkerAssumption DEF Outcome

\* The steps that leave what device i will show alone.
LEMMA ShowsSame ==
    ASSUME UNCHANGED <<pending, view>>, channel' \o outbox' = channel \o outbox
    PROVE  \A i, row : Shows(i, row)' <=> Shows(i, row)
BY DEF Shows, Delivers, Touching, Effect, Outcome

\* A device that is gone, and of whose removal nothing is left to take, is not
\* shown, so that no decision can be pending for it.
LEMMA NothingLeft ==
    ASSUME TypeInv, ShapeInv, NEW i \in Ids, FeedOf(i), GoneShown(i),
           daemon[i] = None, NoRemoval(i)
    PROVE  pending[i] # None => ~pending[i].policy_decided
<1>1. streams["presence"] \in Seq(Incoming) /\ AllIn(streams["presence"], PresenceFeed)
  BY DeviceStreamSets DEF TypeInv, TypeOK, ShapeInv, KindInv
<1>2. NoPresence(i)
  <2>. SUFFICES ASSUME Contains(streams["presence"], Items(i)) PROVE FALSE
    BY DEF NoPresence
  <2>1. PICK x \in Incoming : LastIn(streams["presence"], Items(i), x)
    BY <1>1, LastExists
  <2>2. x \in Items(i) /\ x.signal.event = "Remove"
    BY <2>1 DEF FeedOf, LastIn
  <2>3. x \in PresenceFeed
    BY <1>1, <2>1 DEF LastIn, AllIn
  <2>4. x.signal \in DeviceSignal /\ x.signal.kind = "Presence"
    BY <2>2, <2>3 DEF Items, PresenceFeed, Incoming
  <2>5. x.signal.desc \in Descriptions
    BY <2>4 DEF DeviceSignal
  <2>6. x \in RemovalsOf(i, x.signal.desc)
    BY <2>2, <2>4 DEF RemovalsOf, ItemsOf
  <2>7. Contains(streams["presence"], {x})
    BY <2>1 DEF LastIn, Contains
  <2>8. Contains(streams["presence"], RemovalsOf(i, x.signal.desc))
    BY <2>6, <2>7, ContainsSubset
  <2>. QED
    BY <2>5, <2>8 DEF NoRemoval
<1>3. Shows(i, None)
  BY <1>2 DEF GoneShown
<1>4. ASSUME pending[i] # None PROVE pending[i].removed
  <2>1. pending[i] \in Entry /\ Outcome(pending[i]) = None
    BY <1>3, <1>4 DEF Shows, TypeInv, TypeOK, Window
  <2>. QED
    BY <2>1, LiveOutcome
<1>. QED
  BY <1>4 DEF ShapeInv, WindowInv

\* Where nothing about device j happens.
LEMMA PresentSame ==
    ASSUME NEW j \in Ids, PresentOf(j), daemon'[j] = daemon[j],
           NoPresence(j)' => NoPresence(j),
           \A row : Shows(j, row) => Shows(j, row)'
    PROVE  PresentOf(j)'
BY DEF PresentOf

LEMMA DisplaySame ==
    ASSUME NEW j \in Ids, DisplayOf(j), daemon'[j] = daemon[j], SameFeed(j),
           \A row : Shows(j, row) => Shows(j, row)',
           pending'[j] = pending[j] \/ pending'[j] = None,
           decided \subseteq decided'
    PROVE  DisplayOf(j)'
<1>1. ASSUME NEW s \in DeviceStreams, NEW G, G \subseteq Items(j)
      PROVE  Contains(streams'[s], G) <=> Contains(streams[s], G)
  BY <1>1 DEF SameFeed
<1>2. /\ NoPresence(j)' <=> NoPresence(j)
      /\ \A d : NoPolicy(j, d)' <=> NoPolicy(j, d)
      /\ NoRemoval(j)' <=> NoRemoval(j)
  BY <1>1, ItemSets, DeviceStreamSets DEF NoPresence, NoPolicy, NoRemoval
<1>3. GoneShown(j)'
  BY <1>2 DEF DisplayOf, GoneShown
<1>4. TargetShown(j)'
  <2>. SUFFICES ASSUME daemon[j] # None, NoPresence(j)
                PROVE  \E t \in Targets :
                          /\ Shows(j, [target |-> t, desc |-> daemon[j].desc])'
                          /\ NoPolicy(j, daemon[j].desc) => t = daemon[j].target
    BY <1>2 DEF TargetShown
  <2>1. PICK t \in Targets :
          /\ Shows(j, [target |-> t, desc |-> daemon[j].desc])
          /\ NoPolicy(j, daemon[j].desc) => t = daemon[j].target
    BY DEF DisplayOf, TargetShown
  <2>2. Shows(j, [target |-> t, desc |-> daemon[j].desc])'
    BY <2>1
  <2>. QED
    BY <2>1, <2>2
<1>5. DecisionPending(j)'
  BY <1>2 DEF DisplayOf, DecisionPending
<1>. QED
  BY <1>3, <1>4, <1>5 DEF DisplayOf

\* While the loop runs and nothing was lost, every signal is heard.
LEMMA LoopHears ==
    ASSUME TypeInv, ShapeInv, FeedInv, LossNoticed, Good, pc = "loop",
           NEW i, NEW on, NEW signal, Signals(i, on, signal)
    PROVE  HeardBy(on, signal)
<1>1. Subscribed = Streams
  BY AllSubscribed DEF TypeInv, SubscribedInv
<1>2. on \subseteq Subscribed
  BY <1>1, DeviceStreamSets DEF Signals
<1>. QED
  BY <1>2, SignalHeard

\* The steps of the daemon leave what the worker has alone.
LEMMA SignalShows ==
    ASSUME NEW i, NEW on, NEW signal, Signals(i, on, signal)
    PROVE  \A j, row : Shows(j, row)' <=> Shows(j, row)
<1>1. UNCHANGED <<pending, view, channel, outbox>>
  BY DEF Signals, DaemonStep, workerVars
<1>. QED
  BY <1>1, ShowsSame

\* Of a device whose presence was just signalled, something is buffered.
LEMMA PresenceBuffered ==
    ASSUME TypeInv, NEW i, NEW signal, Signals(i, {"presence"}, signal),
           HeardBy({"presence"}, signal)
    PROVE  /\ ~NoPresence(i)'
           /\ \A s \in PolicyStreams : streams'[s] = streams[s]
           /\ NoRemoval(i)' => NoRemoval(i)
<1>1. PICK p \in BOOLEAN :
        streams'["presence"] = Append(streams["presence"], Item(signal, p))
  BY DeviceStreamSets DEF HeardBy
<1>2. /\ Item(signal, p) \in Incoming /\ Item(signal, p) \in Items(i)
      /\ streams["presence"] \in Seq(Incoming)
  BY ItemType, DeviceStreamSets DEF Items, Signals, TypeInv, TypeOK
<1>3. \A G : Contains(streams'["presence"], G) <=>
            Contains(streams["presence"], G) \/ Item(signal, p) \in G
  BY <1>1, <1>2, ContainsAppend
<1>4. ~NoPresence(i)'
  <2>1. Items(i)' = Items(i)
    BY DEF Items
  <2>. QED
    BY <1>2, <1>3, <2>1 DEF NoPresence
<1>5. NoRemoval(i)' => NoRemoval(i)
  BY <1>3 DEF NoRemoval, RemovalsOf, ItemsOf, Items
<1>6. \A s \in PolicyStreams : streams'[s] = streams[s]
  BY DeviceStreamSets DEF HeardBy
<1>. QED
  BY <1>4, <1>5, <1>6

LEMMA DisplayPresence ==
    ASSUME TypeInv, ShapeInv, FeedInv, LossNoticed, PresentInv, DisplayInv,
           NEW i, NEW signal, Signals(i, {"presence"}, signal),
           daemon[i] = None \/ daemon'[i] \in {None, daemon[i]}
    PROVE  PresentInv' /\ DisplayInv'
<1>. SUFFICES ASSUME Good', pc' = "loop"
              PROVE  /\ \A j \in Ids : PresentOf(j)'
                     /\ disturbed' = {} => \A j \in Ids : DisplayOf(j)'
  BY DEF PresentInv, DisplayInv
<1>1. /\ Good /\ pc = "loop" /\ UNCHANGED <<pending, decided>>
      /\ disturbed' = {} => disturbed = {}
      /\ i \in Ids /\ \A j \in Ids : j # i => daemon'[j] = daemon[j]
  <2>1. UNCHANGED <<pending, decided, pc>> /\ (disturbed' = {} => disturbed = {})
    BY SignalStreams
  <2>. QED
    BY <2>1, GoodSignals DEF Signals
<1>2. HeardBy({"presence"}, signal)
  BY <1>1, LoopHears
<1>3. \A j, row : Shows(j, row)' <=> Shows(j, row)
  BY SignalShows
<1>4. /\ ~NoPresence(i)'
      /\ NoRemoval(i)' => NoRemoval(i)
      /\ \A s \in PolicyStreams : streams'[s] = streams[s]
  BY <1>2, PresenceBuffered
<1>5. PresentOf(i)'
  BY <1>4 DEF PresentOf
<1>6. ASSUME NEW j \in Ids, j # i PROVE SameFeed(j)
  BY <1>6, SignalElsewhere
<1>7. ASSUME NEW j \in Ids, j # i PROVE PresentOf(j)'
  <2>1. NoPresence(j)' => NoPresence(j)
    BY <1>6, <1>7, DeviceStreamSets DEF SameFeed, NoPresence, Items
  <2>. QED
    BY <1>1, <1>3, <1>7, <2>1, PresentSame DEF PresentInv
<1>8. ASSUME disturbed' = {}, NEW j \in Ids, j # i PROVE DisplayOf(j)'
  BY <1>1, <1>3, <1>6, <1>8, DisplaySame DEF DisplayInv
<1>9. ASSUME disturbed' = {} PROVE DisplayOf(i)'
  <2>1. DisplayOf(i) /\ FeedOf(i)
    BY <1>1, <1>9 DEF DisplayInv, FeedInv
  <2>2. GoneShown(i)' /\ TargetShown(i)'
    BY <1>4 DEF GoneShown, TargetShown
  <2>3. DecisionPending(i)'
    <3>. SUFFICES ASSUME daemon'[i] # None, pending[i] # None, pending[i].policy_decided,
                         NoRemoval(i)
                  PROVE  /\ daemon'[i].desc \in decided
                         /\ NoPolicy(i, daemon'[i].desc) =>
                                pending[i].target = daemon'[i].target
      BY <1>1, <1>4 DEF DecisionPending, NoPolicy
    <3>1. daemon[i] # None
      BY <1>1, <2>1, NothingLeft DEF DisplayOf
    <3>2. daemon'[i] = daemon[i]
      BY <3>1
    <3>. QED
      BY <2>1, <3>1, <3>2 DEF DisplayOf, DecisionPending
  <2>. QED
    BY <2>2, <2>3 DEF DisplayOf
<1>. QED
  BY <1>5, <1>7, <1>8, <1>9

LEMMA DisplayDecision ==
    ASSUME TypeInv, ShapeInv, FeedInv, LossNoticed, PresentInv, DisplayInv,
           NEW i, NEW on \in SUBSET PolicyStreams, NEW t,
           Signals(i, on, Decision(i, t)), "applied" \in on,
           daemon[i] # None, daemon'[i] # None, daemon'[i].desc = daemon[i].desc
    PROVE  PresentInv' /\ DisplayInv'
<1>. DEFINE signal == Decision(i, t)
<1>. SUFFICES ASSUME Good', pc' = "loop"
              PROVE  /\ \A j \in Ids : PresentOf(j)'
                     /\ disturbed' = {} => \A j \in Ids : DisplayOf(j)'
  BY DEF PresentInv, DisplayInv
<1>1. /\ Good /\ pc = "loop" /\ UNCHANGED <<pending, decided>>
      /\ disturbed' = {} => disturbed = {}
      /\ i \in Ids /\ \A j \in Ids : j # i => daemon'[j] = daemon[j]
  <2>1. UNCHANGED <<pending, decided, pc>> /\ (disturbed' = {} => disturbed = {})
    BY SignalStreams
  <2>. QED
    BY <2>1, GoodSignals DEF Signals
<1>2. HeardBy(on, signal)
  BY <1>1, LoopHears
<1>3. \A j, row : Shows(j, row)' <=> Shows(j, row)
  BY SignalShows
<1>4. streams'["presence"] = streams["presence"]
  BY <1>2, DeviceStreamSets DEF HeardBy
<1>5. Contains(streams'["applied"], ItemsOf(i, daemon[i].desc))
  <2>1. PICK p \in BOOLEAN : streams'["applied"] = Append(streams["applied"], Item(signal, p))
    BY <1>2, DeviceStreamSets DEF HeardBy
  <2>2. signal \in DeviceSignal /\ signal.id = i /\ signal.desc = daemon[i].desc
    BY DEF Signals, Decision
  <2>3. streams["applied"] \in Seq(Incoming)
    BY DeviceStreamSets DEF TypeInv, TypeOK, DeviceStreams
  <2>. HIDE DEF signal
  <2>4. /\ Item(signal, p) \in Incoming
        /\ Item(signal, p) \in ItemsOf(i, daemon[i].desc)
    BY <2>2, ItemType DEF ItemsOf, Items
  <2>. QED
    BY <2>1, <2>3, <2>4, ContainsAppend
<1>6. NoPresence(i)' <=> NoPresence(i)
  BY <1>4 DEF NoPresence, Items
<1>7. PresentOf(i)'
  BY <1>1, <1>3, <1>6 DEF PresentInv, PresentOf
<1>8. ASSUME NEW j \in Ids, j # i PROVE SameFeed(j)
  BY <1>8, SignalElsewhere
<1>9. ASSUME NEW j \in Ids, j # i PROVE PresentOf(j)'
  <2>1. NoPresence(j)' => NoPresence(j)
    BY <1>8, <1>9, DeviceStreamSets DEF SameFeed, NoPresence, Items
  <2>. QED
    BY <1>1, <1>3, <1>9, <2>1, PresentSame DEF PresentInv
<1>10. ASSUME disturbed' = {}, NEW j \in Ids, j # i PROVE DisplayOf(j)'
  BY <1>1, <1>3, <1>8, <1>10, DisplaySame DEF DisplayInv
<1>11. ASSUME disturbed' = {} PROVE DisplayOf(i)'
  <2>1. DisplayOf(i)
    BY <1>1, <1>11 DEF DisplayInv
  <2>2. /\ Contains(streams'["applied"], ItemsOf(i, daemon'[i].desc))
        /\ "applied" \in PolicyStreams
    BY <1>5 DEF PolicyStreams
  <2>3. GoneShown(i)'
    BY DEF GoneShown
  <2>4. TargetShown(i)'
    BY <1>3, <1>6, <2>1, <2>2 DEF DisplayOf, TargetShown, NoPolicy
  <2>5. DecisionPending(i)'
    BY <1>1, <1>4, <2>1, <2>2
       DEF DisplayOf, DecisionPending, NoRemoval, RemovalsOf, ItemsOf, Items, NoPolicy
  <2>. QED
    BY <2>3, <2>4, <2>5 DEF DisplayOf
<1>. QED
  BY <1>7, <1>9, <1>10, <1>11

-----------------------------------------------------------------------------
(* What the steps of the worker and the interface do to the display.       *)

LEMMA DisplayKept ==
    ASSUME PresentInv, DisplayInv, daemon' = daemon, decided \subseteq decided',
           Good' => Good, disturbed \subseteq disturbed',
           \A s \in DeviceStreams : streams'[s] = streams[s],
           pc' = "loop" => pc = "loop",
           \A i \in Ids : pending'[i] = pending[i] \/ pending'[i] = None,
           \A i \in Ids : \A row : Shows(i, row) => Shows(i, row)'
    PROVE  PresentInv' /\ DisplayInv'
<1>1. ASSUME NEW i \in Ids, PresentOf(i) PROVE PresentOf(i)'
  <2>1. NoPresence(i)' <=> NoPresence(i)
    BY DeviceStreamSets DEF NoPresence, Items
  <2>. QED
    BY <1>1, <2>1, PresentSame
<1>2. ASSUME NEW i \in Ids, DisplayOf(i) PROVE DisplayOf(i)'
  BY <1>2, DisplaySame, StillFeed
<1>. QED
  BY <1>1, <1>2 DEF PresentInv, DisplayInv

\* A fresh list is on its way.
LEMMA DisplayFresh ==
    ASSUME TypeInv', pending' = EmptyWindow,
           \A i \in Ids : Shows(i, ListDevices[i])', daemon' = daemon
    PROVE  PresentInv' /\ DisplayInv'
<1>1. ASSUME NEW i \in Ids PROVE PresentOf(i)' /\ DisplayOf(i)'
  <2>1. pending'[i] = None
    BY DEF EmptyWindow
  <2>2. daemon'[i] # None =>
            /\ ListDevices[i] = [target |-> daemon'[i].target, desc |-> daemon'[i].desc]
            /\ daemon'[i].target \in Targets /\ ListDevices[i] \in Row
    BY DEF TypeInv, TypeOK, ListDevices, Row
  <2>3. daemon'[i] = None => ListDevices[i] = None
    BY DEF ListDevices
  <2>4. Shows(i, ListDevices[i])'
    OBVIOUS
  <2>5. PresentOf(i)'
    BY <2>2, <2>4 DEF PresentOf, ListDevices
  <2>6. GoneShown(i)'
    BY <2>3, <2>4 DEF GoneShown, ListDevices
  <2>7. TargetShown(i)'
    BY <2>2, <2>4 DEF TargetShown, ListDevices
  <2>8. DecisionPending(i)'
    BY <2>1 DEF DecisionPending
  <2>. QED
    BY <2>5, <2>6, <2>7, <2>8 DEF DisplayOf
<1>. QED
  BY <1>1 DEF PresentInv, DisplayInv

\* Which events settle the row of a device.
LEMMA TouchingEvents ==
    ASSUME NEW i \in Ids
    PROVE  /\ \A t \in {"ConnectionLost", "ObservationGap", "InvalidateRuleCache",
                        "DaemonException", "ParameterChanged"} :
                    Event(t) \in UiEvent /\ Event(t) \notin Touching(i)
           /\ \A devices \in Table :
                /\ Snapshot(devices) \in UiEvent /\ Snapshot(devices) \in Touching(i)
                /\ Effect(Snapshot(devices), i) = devices[i]
           /\ \A batch \in Window :
                /\ Batch(batch) \in UiEvent
                /\ Batch(batch) \in Touching(i) <=> batch[i] # None
                /\ Effect(Batch(batch), i) = Outcome(batch[i])
<1>1. ASSUME NEW t \in {"ConnectionLost", "ObservationGap", "InvalidateRuleCache",
                        "DaemonException", "ParameterChanged"}
      PROVE  Event(t) \in UiEvent /\ Event(t) \notin Touching(i)
  <2>1. Event(t) \in UiEvent
    BY EventTypes
  <2>2. Event(t).type = t
    BY DEF Event
  <2>. QED
    BY <2>1, <2>2 DEF Touching
<1>2. ASSUME NEW devices \in Table
      PROVE  /\ Snapshot(devices) \in UiEvent /\ Snapshot(devices) \in Touching(i)
             /\ Effect(Snapshot(devices), i) = devices[i]
  <2>1. Snapshot(devices) \in UiEvent
    BY EventTypes
  <2>2. /\ Snapshot(devices).type = "DeviceSnapshot"
        /\ Snapshot(devices).devices = devices
    BY DEF Snapshot
  <2>. QED
    BY <2>1, <2>2 DEF Touching, Effect
<1>3. ASSUME NEW batch \in Window
      PROVE  /\ Batch(batch) \in UiEvent
             /\ Batch(batch) \in Touching(i) <=> batch[i] # None
             /\ Effect(Batch(batch), i) = Outcome(batch[i])
  <2>1. Batch(batch) \in UiEvent
    BY EventTypes
  <2>2. Batch(batch).type = "DeviceBatch" /\ Batch(batch).batch = batch
    BY DEF Batch
  <2>. QED
    BY <2>1, <2>2 DEF Touching, Effect
<1>. QED
  BY <1>1, <1>2, <1>3

\* An event that settles no row follows what is in the channel.
LEMMA ShowsBeyond ==
    ASSUME TypeInv, NEW i \in Ids, outbox = <<>>, UNCHANGED <<channel, view>>,
           pending'[i] = pending[i],
           \/ outbox' = <<>>
           \/ \E e \in UiEvent : e \notin Touching(i) /\ outbox' = <<e>>
           \/ \E e \in UiEvent, f \in UiEvent :
                /\ e \notin Touching(i) /\ f \notin Touching(i)
                /\ outbox' = <<e, f>>
    PROVE  \A row : Shows(i, row) => Shows(i, row)'
<1>1. channel \in Seq(UiEvent) /\ outbox \in Seq(UiEvent)
  BY DEF TypeInv, TypeOK
<1>2. channel \o outbox = channel
  BY <1>1, Queues
<1>3. ASSUME NEW row, Delivers(channel, view[i], i, row)
      PROVE  Delivers(channel \o outbox', view[i], i, row)
  <2>1. CASE outbox' = <<>>
    BY <1>2, <1>3, <2>1
  <2>2. ASSUME NEW e \in UiEvent, e \notin Touching(i), outbox' = <<e>>
        PROVE  Delivers(channel \o outbox', view[i], i, row)
    <3>1. channel \o outbox' = Append(channel, e)
      BY <1>1, <2>2, Queues
    <3>. QED
      BY <1>1, <1>3, <2>2, <3>1, DeliversAppend
  <2>3. ASSUME NEW e \in UiEvent, NEW f \in UiEvent,
               e \notin Touching(i), f \notin Touching(i), outbox' = <<e, f>>
        PROVE  Delivers(channel \o outbox', view[i], i, row)
    <3>1. channel \o outbox' = Append(Append(channel, e), f)
      BY <1>1, <2>3, Queues
    <3>2. Append(channel, e) \in Seq(UiEvent)
      BY <1>1
    <3>3. Delivers(Append(channel, e), view[i], i, row)
      BY <1>1, <1>3, <2>3, DeliversAppend
    <3>. QED
      BY <2>3, <3>1, <3>2, <3>3, DeliversAppend
  <2>. QED
    BY <2>1, <2>2, <2>3
<1>4. \A row : Shows(i, row) <=>
            IF pending[i] # None THEN row = Outcome(pending[i])
            ELSE Delivers(channel, view[i], i, row)
  BY <1>2 DEF Shows
<1>5. \A row : Shows(i, row)' <=>
            IF pending[i] # None THEN row = Outcome(pending[i])
            ELSE Delivers(channel \o outbox', view[i], i, row)
  BY DEF Shows, Delivers, Touching, Effect, Outcome
<1>. QED
  BY <1>3, <1>4, <1>5

LEMMA ShowsSend == TypeInv /\ Send => \A i, row : Shows(i, row) => Shows(i, row)'
<1>. SUFFICES ASSUME TypeInv, Send
              PROVE  \A i, row : Shows(i, row) => Shows(i, row)'
  OBVIOUS
<1>1. /\ channel \in Seq(UiEvent) /\ outbox \in Seq(UiEvent) /\ outbox # <<>>
      /\ channel' = Append(channel, Head(outbox)) /\ outbox' = Tail(outbox)
      /\ UNCHANGED <<pending, view>>
  BY DEF Send, TypeInv, TypeOK
<1>2. channel' \o outbox' = channel \o outbox
  BY <1>1, Queues
<1>. QED
  BY <1>1, <1>2, ShowsSame

\* A flush says of every pending device what the window said.
LEMMA ShowsFlush ==
    TypeInv /\ Timeout => \A i \in Ids : \A row : Shows(i, row) => Shows(i, row)'
<1>. SUFFICES ASSUME TypeInv, Timeout, NEW i \in Ids
              PROVE  \A row : Shows(i, row) => Shows(i, row)'
  OBVIOUS
<1>1. /\ channel \in Seq(UiEvent) /\ outbox = <<>> /\ outbox' = Flush
      /\ pending' = EmptyWindow /\ pending \in Window /\ UNCHANGED <<channel, view>>
  BY DEF Timeout, Idle, TypeInv, TypeOK
<1>2. pending'[i] = None
  BY <1>1 DEF EmptyWindow
<1>3. CASE Changed(pending) = {}
  <2>1. pending[i] = None /\ outbox' = <<>>
    BY <1>1, <1>3 DEF Changed, Flush
  <2>. QED
    BY <1>1, <1>2, <2>1, ShowsBeyond
<1>4. CASE Changed(pending) # {}
  <2>1. outbox' = <<Batch(pending)>> /\ Batch(pending) \in UiEvent
    BY <1>1, <1>4, TouchingEvents DEF Flush
  <2>2. channel \o outbox' = Append(channel, Batch(pending)) /\ channel \o outbox = channel
    BY <1>1, <2>1, Queues
  <2>3. ASSUME NEW row, Shows(i, row)
        PROVE  Delivers(Append(channel, Batch(pending)), view[i], i, row)
    <3>1. CASE pending[i] # None
      <4>1. row = Outcome(pending[i])
        BY <2>3, <3>1 DEF Shows
      <4>2. Batch(pending) \in Touching(i) /\ Effect(Batch(pending), i) = Outcome(pending[i])
        BY <1>1, <3>1, TouchingEvents
      <4>. QED
        BY <1>1, <2>1, <4>1, <4>2, DeliversAppend
    <3>2. CASE pending[i] = None
      <4>1. Delivers(channel, view[i], i, row)
        BY <2>2, <2>3, <3>2 DEF Shows
      <4>2. Batch(pending) \notin Touching(i)
        BY <1>1, <3>2, TouchingEvents
      <4>. QED
        BY <1>1, <2>1, <4>1, <4>2, DeliversAppend
    <3>. QED
      BY <3>1, <3>2
  <2>4. \A row : Shows(i, row)' <=> Delivers(channel \o outbox', view[i], i, row)
    BY <1>1, <1>2 DEF Shows, Delivers, Touching, Effect, Outcome
  <2>. QED
    BY <2>2, <2>3, <2>4
<1>. QED
  BY <1>3, <1>4

\* Applying an event makes the table what the event says.
LEMMA ApplyRow ==
    ASSUME TypeInv, Apply, NEW i \in Ids
    PROVE  view'[i] = IF Head(channel) \in Touching(i) THEN Effect(Head(channel), i)
                      ELSE view[i]
<1>. DEFINE event == Head(channel)
<1>1. /\ event \in UiEvent
      /\ view' = CASE event.type = "DeviceSnapshot" -> event.devices
                   [] event.type = "DeviceBatch" -> ApplyBatch(view, event.batch)
                   [] event.type = "Reconnected" -> EmptyTable
                   [] OTHER -> view
  BY DEF Apply, TypeInv, TypeOK
<1>. HIDE DEF event
<1>2. CASE event.type = "DeviceBatch"
  <2>1. event.batch \in Window
    BY <1>1, <1>2 DEF UiEvent
  <2>2. event.batch[i] \in Entry \cup {None}
    BY <2>1 DEF Window
  <2>3. view'[i] = ApplyDelta(view[i], event.batch[i])
    BY <1>1, <1>2 DEF ApplyBatch
  <2>4. CASE event.batch[i] = None
    <3>1. view'[i] = view[i]
      BY <2>3, <2>4 DEF ApplyDelta
    <3>2. event \notin Touching(i)
      BY <1>2, <2>4 DEF Touching
    <3>. QED
      BY <3>1, <3>2 DEF event
  <2>5. CASE event.batch[i] # None
    <3>1. event \in Touching(i) /\ Effect(event, i) = Outcome(event.batch[i])
      BY <1>1, <1>2, <2>5 DEF Touching, Effect
    <3>2. ~event.batch[i].removed =>
              event.batch[i].target # None /\ event.batch[i].desc # None
      BY <2>2, <2>5 DEF Entry
    <3>3. ApplyDelta(view[i], event.batch[i]) = Outcome(event.batch[i])
      BY <2>5, <3>2 DEF ApplyDelta, Outcome
    <3>. QED
      BY <2>3, <3>1, <3>3 DEF event
  <2>. QED
    BY <2>4, <2>5
<1>3. CASE event.type = "DeviceSnapshot"
  <2>1. event \in Touching(i) /\ Effect(event, i) = event.devices[i]
    BY <1>1, <1>3 DEF Touching, Effect
  <2>. QED
    BY <1>1, <1>3, <2>1 DEF event
<1>4. CASE event.type = "Reconnected"
  <2>1. event \in Touching(i) /\ Effect(event, i) = None
    BY <1>1, <1>4 DEF Touching, Effect
  <2>2. view'[i] = None
    BY <1>1, <1>4 DEF EmptyTable
  <2>. QED
    BY <2>1, <2>2 DEF event
<1>5. CASE event.type \notin {"DeviceBatch", "DeviceSnapshot", "Reconnected"}
  <2>1. event \notin Touching(i) /\ view' = view
    BY <1>1, <1>5 DEF Touching
  <2>. QED
    BY <2>1 DEF event
<1>. QED
  BY <1>2, <1>3, <1>4, <1>5

LEMMA ShowsApply ==
    TypeInv /\ Apply => \A i \in Ids : \A row : Shows(i, row) => Shows(i, row)'
<1>. SUFFICES ASSUME TypeInv, Apply, NEW i \in Ids, NEW row, Shows(i, row)
              PROVE  Shows(i, row)'
  OBVIOUS
<1>. DEFINE q == channel \o outbox
<1>1. /\ channel \in Seq(UiEvent) /\ outbox \in Seq(UiEvent) /\ channel # <<>>
      /\ channel' = Tail(channel) /\ UNCHANGED <<pending, outbox>>
  BY DEF Apply, workerVars, TypeInv, TypeOK
<1>2. /\ q \in Seq(UiEvent) /\ q # <<>> /\ Head(q) = Head(channel)
      /\ Tail(q) = channel' \o outbox'
  BY <1>1, Queues
<1>3. CASE pending[i] # None
  BY <1>1, <1>3 DEF Shows, Outcome
<1>4. CASE pending[i] = None
  <2>1. Delivers(q, view[i], i, row)
    BY <1>4 DEF Shows
  <2>2. view'[i] = IF Head(q) \in Touching(i) THEN Effect(Head(q), i) ELSE view[i]
    BY <1>2, ApplyRow
  <2>. HIDE DEF q
  <2>3. Delivers(Tail(q), view'[i], i, row)
    BY <1>2, <2>1, <2>2, DeliversTail
  <2>4. Delivers(channel' \o outbox', view'[i], i, row)
    BY <1>2, <2>3
  <2>5. pending'[i] = None
    BY <1>1, <1>4
  <2>. QED
    BY <2>4, <2>5 DEF Shows, Delivers, Touching, Effect, Outcome
<1>. QED
  BY <1>3, <1>4

\* The list the daemon answered is the last thing in the queue that counts.
LEMMA ShowsList ==
    ASSUME TypeInv, ShapeInv, Start \/ Resync
    PROVE  pending' = EmptyWindow /\ \A i \in Ids : Shows(i, ListDevices[i])'
<1>. DEFINE list == Snapshot(ListDevices)
            inv == Event("InvalidateRuleCache")
            opening == IF Start /\ ever_connected THEN <<Event("Reconnected")>> ELSE <<>>
            q == channel \o opening
<1>1. /\ pending' = EmptyWindow /\ UNCHANGED <<channel, view>>
      /\ channel \in Seq(UiEvent) /\ ListDevices \in Table
  BY ListDevicesType DEF Start, Resync, ShapeInv, WindowInv, TypeInv, TypeOK
<1>2. list \in UiEvent /\ inv \in UiEvent
  BY <1>1, EventTypes
<1>3. opening \in Seq(UiEvent)
  <2>1. Event("Reconnected") \in UiEvent
    BY EventTypes
  <2>. QED
    BY <2>1
<1>4. \/ outbox' = opening \o <<list, inv>>
      \/ outbox' = opening \o <<list>>
  <2>1. CASE Start
    BY <2>1 DEF Start
  <2>2. CASE Resync /\ ~Start
    <3>1. outbox' = <<list>> /\ opening = <<>>
      BY <2>2 DEF Resync
    <3>2. <<list>> \in Seq(UiEvent)
      BY <1>2
    <3>3. <<>> \o <<list>> = <<list>>
      BY <3>2, ConcatEmptySeq
    <3>. QED
      BY <3>1, <3>3
  <2>. QED
    BY <2>1, <2>2
<1>. HIDE DEF list, inv, opening
<1>5. q \in Seq(UiEvent)
  BY <1>1, <1>3, Queues
<1>6. \/ channel' \o outbox' = Append(Append(q, list), inv)
      \/ channel' \o outbox' = Append(q, list)
  <2>1. <<list, inv>> \in Seq(UiEvent) /\ <<list>> \in Seq(UiEvent)
    BY <1>2
  <2>2. /\ channel \o (opening \o <<list, inv>>) = q \o <<list, inv>>
        /\ channel \o (opening \o <<list>>) = q \o <<list>>
    BY SMTT(30), <1>1, <1>3, <2>1, ConcatAssociative
  <2>. HIDE DEF q
  <2>3. q \o <<list>> = Append(q, list)
    BY <1>2, <1>5, Queues
  <2>4. q \o <<list, inv>> = Append(Append(q, list), inv)
    BY <1>2, <1>5, Queues
  <2>5. channel' = channel
    BY <1>1
  <2>. QED
    BY <1>4, <2>2, <2>3, <2>4, <2>5
<1>. HIDE DEF q
<1>7. ASSUME NEW i \in Ids PROVE Shows(i, ListDevices[i])'
  <2>1. /\ list \in Touching(i) /\ Effect(list, i) = ListDevices[i]
        /\ inv \notin Touching(i)
    BY <1>1, TouchingEvents DEF list, inv
  <2>2. Delivers(Append(q, list), view[i], i, ListDevices[i])
    BY <1>2, <1>5, <2>1, DeliversAppend
  <2>3. Append(q, list) \in Seq(UiEvent)
    BY <1>2, <1>5
  <2>4. Delivers(Append(Append(q, list), inv), view[i], i, ListDevices[i])
    BY <1>2, <2>1, <2>2, <2>3, DeliversAppend
  <2>5. Delivers(channel' \o outbox', view[i], i, ListDevices[i])
    BY <1>6, <2>2, <2>4
  <2>6. pending'[i] = None /\ view' = view /\ ListDevices' = ListDevices
    BY SMTT(30), <1>1 DEF EmptyWindow, Start, Resync, daemonVars, ListDevices
  <2>. QED
    BY <2>5, <2>6 DEF Shows, Delivers, Touching, Effect, Outcome
<1>. QED
  BY <1>1, <1>7

-----------------------------------------------------------------------------
(* What taking a signal does to the display.                               *)

\* A signal is merged into the window: of its device the window now decides.
LEMMA TakeMerged ==
    ASSUME TypeInv, ShapeInv, NEW s \in DeviceStreams, TakeDevice(s), pc' = "loop",
           NEW signal, signal = Head(streams[s]).signal, NEW i, i = signal.id
    PROVE  /\ pending[i] \in Entry \cup {None}
           /\ pending'[i] \in Entry /\ pending'[i] # None
           /\ pending'[i] =
                CASE signal.kind = "Policy" -> MergePolicy(pending[i], signal)
                  [] signal.kind = "Presence" /\ signal.event = "Remove" ->
                        MergeRemove(pending[i])
                  [] OTHER -> MergePresence(pending[i], signal)
           /\ \A row : Shows(i, row)' <=> row = Outcome(pending'[i])
<1>1. pending' = Push(pending, signal)
  BY DEF TakeDevice
<1>2. signal \in DeviceSignal /\ pending \in Window
  BY TakeFacts
<1>3. i = signal.id
  OBVIOUS
<1>4. pending'[i] \in Entry
  BY <1>1, <1>2, <1>3, PushEntry
<1>5. /\ pending[i] \in Entry \cup {None}
      /\ pending'[i] = CASE signal.kind = "Policy" -> MergePolicy(pending[i], signal)
                         [] signal.kind = "Presence" /\ signal.event = "Remove" ->
                                MergeRemove(pending[i])
                         [] OTHER -> MergePresence(pending[i], signal)
  BY <1>1, <1>2, <1>3, PushRow
<1>6. pending'[i] # None
  BY <1>4, CoalescerAssumption
<1>7. \A row : Shows(i, row)' <=> row = Outcome(pending'[i])
  BY <1>6 DEF Shows, Outcome
<1>. QED
  BY <1>4, <1>5, <1>6, <1>7

\* For the other devices nothing changes.
LEMMA TakeOthers ==
    ASSUME TypeInv, ShapeInv, NEW s \in DeviceStreams, TakeDevice(s), pc' = "loop",
           NEW j \in Ids, j # Head(streams[s]).signal.id
    PROVE  /\ pending'[j] = pending[j] /\ SameFeed(j) /\ daemon' = daemon
           /\ \A row : Shows(j, row) => Shows(j, row)'
<1>1. pending'[j] = pending[j]
  <2>. DEFINE signal == Head(streams[s]).signal
  <2>1. pending' = Push(pending, signal)
    BY DEF TakeDevice
  <2>2. signal \in DeviceSignal /\ pending \in Window /\ j # signal.id
    BY TakeFacts
  <2>. HIDE DEF signal
  <2>. QED
    BY <2>1, <2>2, PushRow
<1>2. outbox = <<>> /\ UNCHANGED <<channel, view, daemon>>
  BY TakeFacts DEF daemonVars
<1>3. \/ outbox' = <<>>
      \/ \E e \in UiEvent : e \notin Touching(j) /\ outbox' = <<e>>
  <2>1. outbox' = Invalidation(Head(streams[s]))
    BY DEF TakeDevice
  <2>2. /\ Event("InvalidateRuleCache") \in UiEvent
        /\ Event("InvalidateRuleCache") \notin Touching(j)
    BY TouchingEvents
  <2>. QED
    BY <2>1, <2>2 DEF Invalidation
<1>4. \A row : Shows(j, row) => Shows(j, row)'
  BY <1>1, <1>2, <1>3, ShowsBeyond
<1>. QED
  BY <1>1, <1>2, <1>4, TakeElsewhere

\* What the streams held, and hold, of the device the signal is about.
LEMMA TakeHead ==
    ASSUME TypeInv, ShapeInv, NEW s \in DeviceStreams, TakeDevice(s)
    PROVE  /\ Head(streams[s]) \in Incoming /\ Head(streams[s]).type = "Device"
           /\ Head(streams[s]).signal \in DeviceSignal
           /\ \A G : Head(streams[s]) \in G /\ ~Contains(streams'[s], G) =>
                        LastIn(streams[s], G, Head(streams[s]))
           /\ \A G : Head(streams[s]) \in G => Contains(streams[s], G)
           /\ s = "presence" => Head(streams[s]) \in PresenceFeed
           /\ s \in PolicyStreams => Head(streams[s]) \in PolicyFeed
<1>1. /\ streams[s] \in Seq(Incoming) /\ streams[s] # <<>>
      /\ streams'[s] = Tail(streams[s])
      /\ Head(streams[s]) \in Incoming /\ Head(streams[s]).type = "Device"
      /\ Head(streams[s]).signal \in DeviceSignal
  BY TakeFacts
<1>2. \A G : Head(streams[s]) \in G /\ ~Contains(streams'[s], G) =>
                LastIn(streams[s], G, Head(streams[s]))
  BY <1>1, LastTail
<1>3. \A G : Head(streams[s]) \in G => Contains(streams[s], G)
  BY <1>1, ContainsTail
<1>4. \A G : AllIn(streams[s], G) => Head(streams[s]) \in G
  BY <1>1, AllTail
<1>. QED
  BY <1>1, <1>2, <1>3, <1>4 DEF ShapeInv, KindInv

LEMMA PresentTake ==
    ASSUME TypeInv, ShapeInv, FeedInv, PresentInv, NEW s \in DeviceStreams, TakeDevice(s)
    PROVE  PresentInv'
<1>. SUFFICES ASSUME Good', pc' = "loop" PROVE \A j \in Ids : PresentOf(j)'
  BY DEF PresentInv
<1>1. Good /\ pc = "loop" /\ daemon' = daemon
  BY GoodTake, TakeFacts DEF daemonVars
<1>2. ASSUME NEW j \in Ids, j # Head(streams[s]).signal.id PROVE PresentOf(j)'
  <2>1. NoPresence(j)' => NoPresence(j)
    BY <1>2, TakeOthers, DeviceStreamSets DEF SameFeed, NoPresence, Items
  <2>. QED
    BY <1>1, <1>2, <2>1, TakeOthers, PresentSame DEF PresentInv
<1>3. ASSUME NEW item, item = Head(streams[s]), NEW i \in Ids, i = item.signal.id,
             daemon[i] # None, NoPresence(i)'
      PROVE  \E row \in Row : Shows(i, row)'
  <2>. DEFINE signal == item.signal
  <2>1. /\ pending[i] \in Entry \cup {None} /\ pending'[i] \in Entry
        /\ pending'[i] = CASE signal.kind = "Policy" -> MergePolicy(pending[i], signal)
                           [] signal.kind = "Presence" /\ signal.event = "Remove" ->
                                MergeRemove(pending[i])
                           [] OTHER -> MergePresence(pending[i], signal)
        /\ \A row : Shows(i, row)' <=> row = Outcome(pending'[i])
    <3>1. signal = Head(streams[s]).signal /\ i = signal.id
      BY <1>3
    <3>. HIDE DEF signal
    <3>. QED
      BY <3>1, TakeMerged
  <2>2. ~(signal.kind = "Presence" /\ signal.event = "Remove")
    <3>. SUFFICES ASSUME signal.kind = "Presence", signal.event = "Remove" PROVE FALSE
      OBVIOUS
    <3>1. s = "presence"
      BY <1>3, TakeHead DEF PolicyFeed, PolicyStreams, DeviceStreams
    <3>2. item \in Items(i)
      BY <1>3, TakeHead DEF Items
    <3>3. ~Contains(streams'["presence"], Items(i))
      BY <1>3 DEF NoPresence, Items
    <3>4. LastIn(streams["presence"], Items(i), item)
      BY <1>3, <3>1, <3>2, <3>3, TakeHead
    <3>5. FeedOf(i)
      BY <1>1, <1>3 DEF FeedInv
    <3>. QED
      BY <1>3, <3>4, <3>5, TakeHead DEF FeedOf
  <2>. HIDE DEF signal
  <2>3. ~pending'[i].removed
    BY <2>1, <2>2, MergeShapes
  <2>4. Outcome(pending'[i]) \in Row
    BY <2>1, <2>3, LiveOutcome
  <2>. QED
    BY <2>1, <2>4
<1>4. ASSUME NEW i \in Ids, i = Head(streams[s]).signal.id PROVE PresentOf(i)'
  BY <1>1, <1>3, <1>4 DEF PresentOf
<1>. QED
  BY <1>2, <1>4

\* A decision is taken: it is of the device that is there.
LEMMA TakePolicy ==
    ASSUME TypeInv, ShapeInv, OrderInv, NEW s \in PolicyStreams, TakeDevice(s),
           pc' = "loop", Good, disturbed' = {}, NEW item, item = Head(streams[s]),
           NEW i \in Ids, i = item.signal.id, DisplayOf(i)
    PROVE  DisplayOf(i)'
<1>. DEFINE signal == item.signal
            d == signal.desc
<1>0. s \in DeviceStreams
  BY DeviceStreamSets
<1>1. item \in PolicyFeed /\ signal \in DeviceSignal
  BY <1>0, TakeHead
<1>2. signal.kind = "Policy" /\ d \in Descriptions /\ signal.target \in Targets
      /\ item \in ItemsOf(i, d)
  BY <1>1 DEF PolicyFeed, ItemsOf, Items, DeviceSignal
<1>3. /\ disturbed = {} /\ daemon' = daemon /\ OrderOf(i)
      /\ streams'["presence"] = streams["presence"]
  <2>1. disturbed = {} /\ OrderOf(i)
    BY <1>0, GoodTake DEF OrderInv
  <2>. QED
    BY <1>0, <2>1, TakeFacts, DeviceStreamSets DEF daemonVars
<1>4. d \notin gone /\ d \in decided'
  BY <1>2 DEF TakeDevice, TakeHistory, Disturbance
<1>5. \/ Contains(streams["presence"], RemovalsOf(i, d))
      \/ daemon[i] # None /\ daemon[i].desc = d
  <2>1. Contains(streams[s], ItemsOf(i, d))
    BY <1>0, <1>2, TakeHead
  <2>. QED
    BY <1>2, <1>3, <1>4, <2>1 DEF OrderOf, OwnedDecisions
<1>e. PICK old, new : old = pending[i] /\ new = pending'[i]
  OBVIOUS
<1>6. /\ old \in Entry \cup {None} /\ new \in Entry /\ new = MergePolicy(old, signal)
      /\ \A row : Shows(i, row)' <=> row = Outcome(new)
  <2>1. signal = Head(streams[s]).signal /\ i = signal.id
    OBVIOUS
  <2>. HIDE DEF signal
  <2>2. /\ pending[i] \in Entry \cup {None} /\ pending'[i] \in Entry
        /\ pending'[i] = MergePolicy(pending[i], signal)
        /\ \A row : Shows(i, row)' <=> row = Outcome(pending'[i])
    BY <1>0, <1>2, <2>1, TakeMerged
  <2>. QED
    BY <1>e, <2>2
<1>7. ~new.removed /\ new.target = signal.target /\ new.desc = d
  <2>. HIDE DEF signal
  <2>. QED
    BY <1>6, MergeShapes DEF d
<1>8. Shows(i, [target |-> signal.target, desc |-> d])'
  <2>1. Outcome(new) = [target |-> signal.target, desc |-> d]
    BY <1>6, <1>7, LiveOutcome
  <2>. QED
    BY <1>6, <2>1
<1>9. ASSUME daemon[i] # None, daemon[i].desc = d, ~Contains(streams'[s], ItemsOf(i, d))
      PROVE  signal.target = daemon[i].target
  <2>1. LastIn(streams[s], ItemsOf(i, d), item)
    BY <1>0, <1>2, <1>9, TakeHead
  <2>. QED
    BY <1>0, <1>3, <1>9, <2>1, TakeHead DEF OrderOf, LastDecision
<1>10. NoPresence(i)' => ~Contains(streams["presence"], RemovalsOf(i, d))
  BY <1>3, ItemSets, ContainsSubset DEF NoPresence, Items
<1>11. GoneShown(i)'
  BY SMTT(30), <1>3, <1>5, <1>10 DEF GoneShown
<1>12. TargetShown(i)'
  <2>. SUFFICES ASSUME daemon[i] # None, NoPresence(i)'
                PROVE  /\ Shows(i, [target |-> signal.target, desc |-> daemon[i].desc])'
                       /\ ~Contains(streams'[s], ItemsOf(i, daemon[i].desc)) =>
                            signal.target = daemon[i].target
    BY <1>2, <1>3 DEF TargetShown, NoPolicy, ItemsOf, Items
  <2>1. daemon[i].desc = d /\ daemon'[i].desc = d
    BY <1>3, <1>5, <1>10
  <2>. QED
    BY <1>8, <1>9, <2>1
<1>13. DecisionPending(i)'
  <2>. SUFFICES ASSUME daemon[i] # None, NoRemoval(i)'
                PROVE  /\ daemon[i].desc \in decided'
                       /\ ~Contains(streams'[s], ItemsOf(i, daemon[i].desc)) =>
                            signal.target = daemon[i].target
    BY <1>e, <1>3, <1>7 DEF DecisionPending, NoPolicy, ItemsOf, Items
  <2>1. daemon[i].desc = d
    BY SMTT(30), <1>2, <1>3, <1>5 DEF NoRemoval, RemovalsOf, ItemsOf, Items
  <2>. QED
    BY SMTT(30), <1>4, <1>9, <2>1
<1>. QED
  BY <1>11, <1>12, <1>13 DEF DisplayOf

\* A removal is taken.
LEMMA TakeRemoval ==
    ASSUME TypeInv, ShapeInv, FeedInv, TakeDevice("presence"), pc' = "loop", Good,
           NEW item, item = Head(streams["presence"]), NEW i \in Ids,
           i = item.signal.id, item.signal.event = "Remove"
    PROVE  DisplayOf(i)'
<1>. DEFINE signal == item.signal
<1>0. "presence" \in DeviceStreams
  BY DeviceStreamSets
<1>1. item \in PresenceFeed
  BY <1>0, TakeHead
<1>2. item \in Items(i) /\ signal.kind = "Presence" /\ item \in Incoming
  BY <1>1 DEF PresenceFeed, Items
<1>3. FeedOf(i) /\ daemon' = daemon
  BY <1>0, TakeFacts DEF FeedInv, daemonVars
<1>4. /\ pending[i] \in Entry \cup {None} /\ pending'[i] \in Entry
      /\ pending'[i] = MergeRemove(pending[i])
      /\ \A row : Shows(i, row)' <=> row = Outcome(pending'[i])
  BY ZenonT(60), <1>0, <1>2, TakeMerged
<1>5. pending'[i].removed /\ ~pending'[i].policy_decided
  BY <1>4, MergeShapes
<1>6. NoPresence(i)' => daemon[i] = None
  <2>. SUFFICES ASSUME ~Contains(streams'["presence"], Items(i)) PROVE daemon[i] = None
    BY DEF NoPresence, Items
  <2>1. LastIn(streams["presence"], Items(i), item)
    BY <1>0, <1>2, TakeHead
  <2>. QED
    BY <1>2, <1>3, <2>1 DEF FeedOf
<1>7. Shows(i, None)'
  BY <1>4, <1>5, LiveOutcome
<1>. QED
  BY <1>3, <1>5, <1>6, <1>7 DEF DisplayOf, GoneShown, TargetShown, DecisionPending

\* An insertion or an update is taken: it keeps the decision the window has,
\* and there is none to keep before one was taken.
LEMMA TakeSighting ==
    ASSUME TypeInv, ShapeInv, FeedInv, OrderInv, TakeDevice("presence"), pc' = "loop",
           Good, disturbed' = {}, NEW item, item = Head(streams["presence"]),
           NEW i \in Ids, i = item.signal.id, item.signal.event # "Remove", DisplayOf(i)
    PROVE  DisplayOf(i)'
<1>. DEFINE signal == item.signal
            d == signal.desc
<1>0. "presence" \in DeviceStreams
  BY DeviceStreamSets
<1>1. item \in PresenceFeed /\ signal \in DeviceSignal /\ item \in Incoming
  BY <1>0, TakeHead
<1>2. /\ signal.kind = "Presence" /\ signal.target = ProvisionalTarget
      /\ item \in SightingsOf(i, d) /\ item \in Items(i) /\ d \in Descriptions
  BY <1>1 DEF PresenceFeed, SightingsOf, ItemsOf, Items, DeviceSignal
<1>3. disturbed = {} /\ OrderOf(i) /\ FeedOf(i)
  BY <1>0, GoodTake DEF OrderInv, FeedInv
<1>4. daemon' = daemon /\ \A r \in PolicyStreams : streams'[r] = streams[r]
  BY SMTT(30), <1>0, TakeFacts, DeviceStreamSets DEF daemonVars
<1>5. d \in decided => pending[i] # None /\ pending[i].policy_decided
  BY <1>2 DEF TakeDevice, TakeHistory, Disturbance
<1>6. decided \subseteq decided'
  BY <1>0, GoodTake
<1>e. PICK old, new : old = pending[i] /\ new = pending'[i]
  OBVIOUS
<1>7. /\ old \in Entry \cup {None} /\ new \in Entry /\ new = MergePresence(old, signal)
      /\ \A row : Shows(i, row)' <=> row = Outcome(new)
  <2>1. signal = Head(streams["presence"]).signal /\ i = signal.id /\ signal.event # "Remove"
    OBVIOUS
  <2>. HIDE DEF signal
  <2>2. /\ pending[i] \in Entry \cup {None} /\ pending'[i] \in Entry
        /\ pending'[i] = MergePresence(pending[i], signal)
        /\ \A row : Shows(i, row)' <=> row = Outcome(pending'[i])
    BY <1>0, <1>2, <2>1, TakeMerged
  <2>. QED
    BY <1>e, <2>2
<1>8. NoRemoval(i)' => NoRemoval(i)
  <2>1. \A e \in Descriptions : item \notin RemovalsOf(i, e)
    BY DEF RemovalsOf
  <2>2. \A G : Contains(streams["presence"], G) =>
                Contains(streams'["presence"], G) \/ item \in G
    BY <1>0, TakeStreams
  <2>. QED
    BY <2>1, <2>2 DEF NoRemoval, RemovalsOf, ItemsOf, Items
<1>9. ASSUME NoPresence(i)' PROVE daemon[i] # None /\ daemon[i].desc = d
  <2>1. ~Contains(streams'["presence"], Items(i))
    BY <1>9 DEF NoPresence, Items
  <2>2. LastIn(streams["presence"], Items(i), item)
    BY <1>0, <1>2, <2>1, TakeHead
  <2>. QED
    BY <1>1, <1>3, <2>2 DEF FeedOf
<1>10. NoPresence(i)' => NoRemoval(i)'
  BY ItemSets, ContainsSubset DEF NoPresence, NoRemoval, RemovalsOf, ItemsOf, Items
<1>11. \A e : NoPolicy(i, e)' <=> NoPolicy(i, e)
  BY <1>4 DEF NoPolicy, ItemsOf, Items
<1>. HIDE DEF signal, d
<1>12. /\ ~new.removed /\ new.desc = signal.desc
       /\ new.policy_decided => /\ old # None /\ old.policy_decided /\ new.target = old.target
       /\ ~new.policy_decided =>
            new.target = signal.target /\ (old = None \/ old.removed \/ ~old.policy_decided)
  BY <1>7, MergeShapes
<1>13. ~new.policy_decided => old = None \/ ~old.policy_decided
  <2>1. old # None /\ old.removed => ~old.policy_decided
    BY <1>e DEF ShapeInv, WindowInv
  <2>. QED
    BY <1>12, <2>1
<1>14. DecisionPending(i)'
  <2>. SUFFICES ASSUME daemon[i] # None, new.policy_decided, NoRemoval(i)
                PROVE  /\ daemon[i].desc \in decided
                       /\ NoPolicy(i, daemon[i].desc) => new.target = daemon[i].target
    BY <1>e, <1>4, <1>6, <1>8 DEF DecisionPending, NoPolicy, ItemsOf, Items
  <2>. QED
    BY <1>e, <1>12 DEF DisplayOf, DecisionPending
<1>15. GoneShown(i)'
  BY SMTT(30), <1>4, <1>9 DEF GoneShown
<1>16. TargetShown(i)'
  <2>. SUFFICES ASSUME daemon[i] # None, NoPresence(i)'
                PROVE  \E t \in Targets :
                          /\ Shows(i, [target |-> t, desc |-> daemon[i].desc])'
                          /\ NoPolicy(i, daemon[i].desc) => t = daemon[i].target
    BY <1>4 DEF TargetShown, NoPolicy, ItemsOf, Items
  <2>0. PICK t : t = new.target
    OBVIOUS
  <2>1. daemon[i].desc = d /\ NoRemoval(i)
    BY <1>8, <1>9, <1>10
  <2>2. t \in Targets /\ Shows(i, [target |-> t, desc |-> d])'
    <3>1. Outcome(new) = [target |-> t, desc |-> d] /\ t \in Targets
      BY <1>7, <1>12, <2>0, LiveOutcome DEF d
    <3>. QED
      BY <1>7, <3>1
  <2>3. ASSUME NoPolicy(i, d) PROVE t = daemon[i].target
    <3>1. CASE new.policy_decided
      BY <1>e, <1>12, <2>0, <2>1, <2>3, <3>1 DEF DisplayOf, DecisionPending
    <3>2. CASE ~new.policy_decided
      <4>1. d \notin decided
        BY <1>e, <1>5, <1>13, <3>2
      <4>2. ~Contains(streams["applied"], ItemsOf(i, d))
        BY <2>3 DEF NoPolicy, PolicyStreams
      <4>3. Contains(streams["presence"], SightingsOf(i, d))
        BY SMTT(30), <1>0, <1>2, TakeHead
      <4>4. ~daemon[i].decided
        BY <1>3, <2>1, <4>1, <4>2, <4>3 DEF OrderOf, DecisionHeard
      <4>5. daemon[i].target = ProvisionalTarget
        BY <4>4 DEF ShapeInv, UndecidedInv
      <4>. QED
        BY <1>2, <1>12, <2>0, <3>2, <4>5 DEF signal
    <3>. QED
      BY <3>1, <3>2
  <2>4. daemon'[i].desc = d
    BY <1>4, <2>1
  <2>. QED
    BY <2>1, <2>2, <2>3, <2>4
<1>. QED
  BY <1>14, <1>15, <1>16 DEF DisplayOf

LEMMA DisplayTake ==
    ASSUME TypeInv, ShapeInv, FeedInv, OrderInv, DisplayInv,
           NEW s \in DeviceStreams, TakeDevice(s)
    PROVE  DisplayInv'
<1>. SUFFICES ASSUME Good', disturbed' = {}, pc' = "loop"
              PROVE  \A j \in Ids : DisplayOf(j)'
  BY DEF DisplayInv
<1>1. /\ Good /\ pc = "loop" /\ disturbed = {} /\ decided \subseteq decided'
      /\ \A j \in Ids : DisplayOf(j)
  BY GoodTake, TakeFacts DEF DisplayInv
<1>2. ASSUME NEW j \in Ids, j # Head(streams[s]).signal.id PROVE DisplayOf(j)'
  BY <1>1, <1>2, TakeOthers, DisplaySame
<1>3. ASSUME NEW item, item = Head(streams[s]), NEW i \in Ids, i = item.signal.id
      PROVE  DisplayOf(i)'
  <2>1. CASE s \in PolicyStreams
    BY <1>1, <1>3, <2>1, TakePolicy
  <2>2. CASE s = "presence" /\ item.signal.event = "Remove"
    BY <1>1, <1>3, <2>2, TakeRemoval
  <2>3. CASE s = "presence" /\ item.signal.event # "Remove"
    BY <1>1, <1>3, <2>3, TakeSighting
  <2>. QED
    BY <2>1, <2>2, <2>3 DEF DeviceStreams, PolicyStreams
<1>. QED
  BY <1>2, <1>3

-----------------------------------------------------------------------------
(* The display is right whenever the daemon's last word was heard.         *)

DisplayBoth == PresentInv /\ DisplayInv

LEMMA DisplayDaemon ==
    /\ TypeInv /\ ReportInv /\ ShapeInv /\ FeedInv /\ DisplayBoth
    /\ Daemon \/ BridgeBack
    => DisplayBoth'
<1>. SUFFICES ASSUME TypeInv, ReportInv, ShapeInv, FeedInv, PresentInv, DisplayInv,
                     Daemon \/ BridgeBack
              PROVE  PresentInv' /\ DisplayInv'
  BY DEF DisplayBoth
<1>0. LossNoticed
  BY DEF ReportInv
<1>1. ASSUME NEW i \in Ids, NEW d \in Descriptions, Plug(i, d)
      PROVE  PresentInv' /\ DisplayInv'
  <2>1. Signals(i, {"presence"}, Arrival(i, "Insert", d)) /\ daemon[i] = None
    BY <1>1, PlugSignals DEF Plug
  <2>. QED
    BY <1>0, <2>1, DisplayPresence
<1>2. ASSUME NEW i \in Ids, Update(i) PROVE PresentInv' /\ DisplayInv'
  <2>1. Signals(i, {"presence"}, Arrival(i, "Update", daemon[i].desc)) /\ daemon' = daemon
    BY <1>2, UpdateSignals DEF Update
  <2>. QED
    BY <1>0, <2>1, DisplayPresence
<1>3. ASSUME NEW i \in Ids, NEW t \in Targets, Decide(i, t)
      PROVE  PresentInv' /\ DisplayInv'
  <2>1. Signals(i, {"applied"}, Decision(i, t))
    BY <1>3, DecideSignals
  <2>2. {"applied"} \in SUBSET PolicyStreams
    BY DEF PolicyStreams
  <2>. QED
    BY <1>0, <1>3, <2>1, <2>2, DecidedRow, DisplayDecision
<1>4. ASSUME NEW i \in Ids, NEW t \in Targets, NEW permanent \in BOOLEAN,
             ChangePolicy(i, t, permanent)
      PROVE  PresentInv' /\ DisplayInv'
  <2>1. Signals(i, PolicyStreams, Decision(i, t)) /\ "applied" \in PolicyStreams
    BY <1>4, ChangeSignals DEF PolicyStreams
  <2>. QED
    BY <1>0, <1>4, <2>1, ChangedRow, DisplayDecision
<1>5. ASSUME NEW i \in Ids, Unplug(i) PROVE PresentInv' /\ DisplayInv'
  <2>1. Signals(i, {"presence"}, Departure(i))
    BY <1>5, UnplugSignals
  <2>2. daemon'[i] = None
    BY <1>5 DEF Unplug, TypeInv, TypeOK
  <2>. QED
    BY <1>0, <2>1, <2>2, DisplayPresence
<1>6. ASSUME UNCHANGED <<daemon, decided, disturbed, pc, pending, view, channel, outbox>>,
             Good' => Good, \A s \in DeviceStreams : streams'[s] = streams[s]
      PROVE  PresentInv' /\ DisplayInv'
  <2>1. \A i, row : Shows(i, row) => Shows(i, row)'
    BY <1>6, ShowsSame
  <2>. QED
    BY <1>6, <2>1, DisplayKept
<1>7. {"exceptions", "parameters"} \cap (DeviceStreams \cup {"owner"}) = {}
  BY StreamNames, DeviceStreamSets
<1>8. CASE RaiseException \/ ChangeParameter
  <2>1. /\ UNCHANGED <<daemon, decided, disturbed, pc, pending, view, channel, outbox>>
        /\ closed' = closed
    BY <1>8 DEF RaiseException, ChangeParameter, DaemonStep, workerVars
  <2>2. \A s \in DeviceStreams \cup {"owner"} : streams'[s] = streams[s]
    BY <1>7, <1>8, DeviceStreamSets
       DEF RaiseException, ChangeParameter, TypeInv, TypeOK
  <2>. QED
    BY <1>6, <2>1, <2>2 DEF Good
<1>9. CASE BridgeBack
  <2>1. UNCHANGED <<daemon, decided, disturbed, pc, pending, view, channel, outbox,
                    closed, streams>>
    BY <1>9 DEF BridgeBack, workerVars, historyVars
  <2>. QED
    BY <1>6, <2>1 DEF Good
<1>10. CASE BridgeLost
  <2>. SUFFICES ASSUME Good', pc' = "loop" PROVE FALSE
    BY DEF PresentInv, DisplayInv
  <2>1. pc = "loop" /\ bridge_up /\ bridge_up' = FALSE
    BY <1>10 DEF BridgeLost, workerVars
  <2>2. closed' = closed /\ Hears("owner")
    BY <1>10, <2>1, AllSubscribed, DeviceStreamSets
       DEF BridgeLost, Good, Hears, TypeInv, SubscribedInv
  <2>3. streams'["owner"] = Append(streams["owner"], Event("OwnerLost"))
    BY <1>10, <2>2, DeviceStreamSets DEF BridgeLost, TypeInv, TypeOK
  <2>4. streams["owner"] \in Seq(Incoming) /\ Event("OwnerLost") \in Incoming
    BY DeviceStreamSets, EventTypes DEF TypeInv, TypeOK
  <2>5. Append(streams["owner"], Event("OwnerLost")) # <<>>
    BY <2>4
  <2>. QED
    BY <2>3, <2>5 DEF Good
<1>11. CASE ConnectionClosed
  BY <1>11 DEF ConnectionClosed, PresentInv, DisplayInv, Good
<1>12. ASSUME plugged # Descriptions
       PROVE  (CHOOSE d \in Descriptions : d \notin plugged) \in Descriptions
  BY <1>12 DEF TypeInv, TypeOK
<1>. QED
  BY <1>1, <1>2, <1>3, <1>4, <1>5, <1>8, <1>9, <1>10, <1>11, <1>12 DEF Daemon

LEMMA DisplayWorker ==
    /\ TypeInv /\ TypeInv' /\ ShapeInv /\ FeedInv /\ OrderInv /\ DisplayBoth
    /\ Worker \/ Apply \/ Tick
    => DisplayBoth'
<1>. SUFFICES ASSUME TypeInv, TypeInv', ShapeInv, FeedInv, OrderInv, PresentInv,
                     DisplayInv, Worker \/ Apply \/ Tick
              PROVE  PresentInv' /\ DisplayInv'
  BY DEF DisplayBoth
<1>1. ASSUME pc' # "loop" PROVE PresentInv' /\ DisplayInv'
  BY <1>1 DEF PresentInv, DisplayInv
<1>2. CASE Subscribe \/ CallFails \/ Lose \/ Restart
  <2>1. pc' # "loop"
    BY <1>2 DEF Subscribe, CallFails, Lose, Exit, Restart
  <2>. QED
    BY <1>1, <2>1
<1>3. CASE Start \/ Resync
  <2>1. daemon' = daemon
    BY <1>3, StillSteps DEF Still
  <2>. QED
    BY <1>3, <2>1, ShowsList, DisplayFresh
<1>4. ASSUME Still, pc' = pc,
             \A i \in Ids : pending'[i] = pending[i] \/ pending'[i] = None,
             \A i \in Ids : \A row : Shows(i, row) => Shows(i, row)'
      PROVE  PresentInv' /\ DisplayInv'
  BY <1>4, DisplayKept DEF Still, Good
<1>5. CASE Send
  <2>1. pc' = pc /\ pending' = pending
    BY <1>5 DEF Send
  <2>. QED
    BY <1>4, <1>5, <2>1, StillSteps, ShowsSend
<1>6. CASE Apply
  <2>1. pc' = pc /\ pending' = pending
    BY <1>6 DEF Apply, workerVars
  <2>. QED
    BY <1>4, <1>6, <2>1, StillSteps, ShowsApply
<1>7. CASE Timeout
  <2>1. pc' = pc /\ \A i \in Ids : pending'[i] = None
    BY <1>7 DEF Timeout, EmptyWindow
  <2>. QED
    BY <1>4, <1>7, <2>1, StillSteps, ShowsFlush
<1>8. CASE Tick
  <2>1. UNCHANGED <<pc, pending, view, channel, outbox>>
    BY <1>8 DEF Tick
  <2>2. \A i, row : Shows(i, row) => Shows(i, row)'
    BY <2>1, ShowsSame
  <2>. QED
    BY <1>4, <1>8, <2>1, <2>2, StillSteps
<1>9. CASE TakeException \/ TakeParameter
  <2>1. /\ UNCHANGED <<pc, pending, view, channel>> /\ outbox = <<>>
        /\ \/ outbox' = <<Event("DaemonException"), Event("InvalidateRuleCache")>>
           \/ outbox' = <<Event("ParameterChanged")>>
    BY <1>9 DEF TakeException, TakeParameter, TakeOther, Idle
  <2>2. ASSUME NEW i \in Ids PROVE \A row : Shows(i, row) => Shows(i, row)'
    <3>1. \A t \in {"DaemonException", "InvalidateRuleCache", "ParameterChanged"} :
            Event(t) \in UiEvent /\ Event(t) \notin Touching(i)
      BY TouchingEvents
    <3>2. \/ \E e \in UiEvent : e \notin Touching(i) /\ outbox' = <<e>>
          \/ \E e \in UiEvent, f \in UiEvent :
                /\ e \notin Touching(i) /\ f \notin Touching(i)
                /\ outbox' = <<e, f>>
      BY <2>1, <3>1
    <3>. QED
      BY <2>1, <3>2, ShowsBeyond
  <2>. QED
    BY <1>4, <1>9, <2>1, <2>2, StillSteps
<1>10. ASSUME NEW s \in DeviceStreams, TakeDevice(s) PROVE PresentInv' /\ DisplayInv'
  BY <1>10, PresentTake, DisplayTake
<1>. QED
  BY <1>2, <1>3, <1>5, <1>6, <1>7, <1>8, <1>9, <1>10 DEF Worker

LEMMA HistoryNext ==
    TypeInv /\ TypeInv' /\ ReportInv /\ HistoryInv /\ [Next]_vars => HistoryInv'
<1>. SUFFICES ASSUME TypeInv, TypeInv', ReportInv, HistoryInv, [Next]_vars
              PROVE  HistoryInv'
  OBVIOUS
<1>1. ShapeInv /\ FeedInv /\ OrderInv /\ DisplayBoth
  BY DEF HistoryInv, DisplayBoth
<1>2. CASE Daemon \/ BridgeBack
  <2>1. ShapeInv' /\ FeedInv' /\ OrderInv' /\ DisplayBoth'
    BY <1>1, <1>2, ShapeDaemon, FeedDaemon, OrderDaemon, DisplayDaemon
  <2>. QED
    BY <2>1 DEF HistoryInv, DisplayBoth
<1>3. CASE Worker \/ Apply \/ Tick
  <2>1. ShapeInv' /\ FeedInv' /\ OrderInv' /\ DisplayBoth'
    BY <1>1, <1>3, ShapeWorker, FeedWorker, OrderWorker, DisplayWorker
  <2>. QED
    BY <2>1 DEF HistoryInv, DisplayBoth
<1>4. CASE UNCHANGED vars
  <2>1. /\ UNCHANGED <<daemon, plugged, bridge_up, closed, subscribed, streams, pc,
                       pending, outbox, channel, view, decided, gone, disturbed>>
        /\ Subscribed' = Subscribed
    BY <1>4 DEF vars, daemonVars, workerVars, historyVars, Subscribed
  <2>2. ShapeInv'
    BY <1>1, <2>1 DEF ShapeInv, UnheardInv, KindInv, PluggedInv, WindowInv, UndecidedInv
  <2>3. FeedInv'
    BY <1>1, <2>1, FeedFrame
  <2>4. OrderInv'
    BY <1>1, <2>1, OrderFrame DEF Good
  <2>5. \A i, row : Shows(i, row) => Shows(i, row)'
    BY <2>1, ShowsSame
  <2>6. DisplayBoth'
    BY <1>1, <2>1, <2>5, DisplayKept DEF Good, DisplayBoth
  <2>. QED
    BY <2>2, <2>3, <2>4, <2>6 DEF HistoryInv, DisplayBoth
<1>. QED
  BY <1>2, <1>3, <1>4 DEF Next

LEMMA HistoryCorrect == Spec => [](TypeInv /\ HistoryInv)
<1>1. TypeInv /\ ReportInv /\ [Next]_vars => ReportInv'
  BY ReportNext
<1>. QED
  BY <1>1, TypeInit, TypeNext, ReportInit, HistoryInit, HistoryNext, PTL DEF Spec

\* What is shown once nothing is left to deliver.
LEMMA ShownAtRest ==
    ASSUME TypeInv, Quiescent, NEW i \in Ids
    PROVE  /\ \A row : Shows(i, row) <=> row = view[i]
           /\ NoPresence(i) /\ \A d : NoPolicy(i, d)
           /\ pc = "loop" /\ ("restart" \notin disturbed => Good)
<1>1. /\ \A s \in Streams : streams[s] = <<>>
      /\ Changed(pending) = {} /\ outbox = <<>> /\ channel = <<>>
      /\ pc = "loop" /\ ~closed
  BY DEF Quiescent, SignalsReady, Idle
<1>2. pending[i] = None /\ channel \o outbox = <<>>
  <2>1. channel \o outbox = <<>>
    BY <1>1
  <2>. QED
    BY <1>1, <2>1 DEF Changed
<1>3. \A row : Shows(i, row) <=> row = view[i]
  BY <1>2, DeliversNothing DEF Shows
<1>. QED
  BY <1>1, <1>3, EmptyContains, DeviceStreamSets DEF NoPresence, NoPolicy, Good

\* No device is ever missing once everything has been delivered: the last
\* thing buffered of a device is the last thing that happened to it, and what
\* the window, the channel and the table together show follows from it.
THEOREM NoDeviceIsMissing == Spec => []NoDeviceMissing
<1>1. TypeInv /\ HistoryInv => NoDeviceMissing
  <2>. SUFFICES ASSUME TypeInv, HistoryInv, Quiescent, "restart" \notin disturbed,
                       NEW i \in Ids, daemon[i] # None
                PROVE  view[i] # None
    BY DEF NoDeviceMissing
  <2>1. PresentOf(i)
    BY ShownAtRest DEF HistoryInv, PresentInv
  <2>2. PICK row \in Row : Shows(i, row)
    BY <2>1, ShownAtRest DEF PresentOf
  <2>3. view[i] \in Row
    BY <2>2, ShownAtRest
  <2>. QED
    BY <2>3, EventWorkerAssumption
<1>. QED
  BY <1>1, HistoryCorrect, PTL

\* In a session whose streams did not overtake each other, the table converges
\* to the daemon's devices with the targets it decided: no provisional target
\* hides a decision, and a decision taken before the presence it belongs to
\* waits for it in the window.
THEOREM TableConvergesToDaemon == Spec => []TargetsConverge
<1>1. TypeInv /\ HistoryInv => TargetsConverge
  <2>. SUFFICES ASSUME TypeInv, HistoryInv, Quiescent, disturbed = {}
                PROVE  view = ListDevices
    BY DEF TargetsConverge
  <2>1. ASSUME NEW i \in Ids PROVE view[i] = ListDevices[i]
    <3>1. DisplayOf(i) /\ NoPresence(i) /\ \A d : NoPolicy(i, d)
      BY ShownAtRest DEF HistoryInv, DisplayInv
    <3>2. CASE daemon[i] = None
      BY <3>1, <3>2, ShownAtRest DEF DisplayOf, GoneShown, ListDevices
    <3>3. CASE daemon[i] # None
      <4>1. Shows(i, [target |-> daemon[i].target, desc |-> daemon[i].desc])
        BY <3>1, <3>3 DEF DisplayOf, TargetShown
      <4>. QED
        BY <3>3, <4>1, ShownAtRest DEF ListDevices
    <3>. QED
      BY <3>2, <3>3
  <2>2. view \in Table /\ ListDevices \in Table
    BY ListDevicesType DEF TypeInv, TypeOK
  <2>. HIDE DEF ListDevices
  <2>. QED
    BY <2>1, <2>2 DEF Table
<1>. QED
  BY <1>1, HistoryCorrect, PTL
=============================================================================
