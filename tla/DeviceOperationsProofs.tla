----------------------- MODULE DeviceOperationsProofs -----------------------
(***************************************************************************)
(* Proofs about DeviceOperations, for every value of its constants: its    *)
(* types, that a marked row has an operation to cancel, that an operation  *)
(* that is alone on its row stays marked, and that, once everything is     *)
(* delivered, the table is the daemon's and the connection is shown.       *)
(***************************************************************************)
EXTENDS DeviceOperations, TLAPS

USE DEF viewVars, userVars, taskVars, daemonVars, workerVars, historyVars

-----------------------------------------------------------------------------
(* What the coalescer's and the device table's operators return.           *)

\* Whatever is merged into whatever window leaves a complete entry, or a
\* removal, under the signal's id.
LEMMA PushEntry ==
    ASSUME NEW w \in Window, NEW s \in DeviceSignal
    PROVE  s.id \in Ids /\ Push(w, s)[s.id] \in Entry
<1>. DEFINE e == w[s.id]
<1>. USE CoalescerAssumption
<1>1. s.id \in Ids /\ e \in Entry \cup {None}
  BY DEF DeviceSignal, Window
<1>2. s.target \in Targets /\ s.desc \in Descriptions
  BY DEF DeviceSignal
<1>3. /\ LiveEntry(e) \in [removed: BOOLEAN, observed_insert: BOOLEAN,
            observed_remove: BOOLEAN, target: Targets \cup {None},
            desc: Descriptions \cup {None}, policy_decided: BOOLEAN]
      /\ LiveEntry(e).policy_decided => LiveEntry(e).target # None
  BY <1>1 DEF LiveEntry, Fresh, Entry
<1>4. MergePolicy(e, s) \in Entry
  BY <1>2, <1>3 DEF MergePolicy, Entry
<1>5. MergeRemove(e) \in Entry
  BY <1>1 DEF MergeRemove, Fresh, Entry
<1>6. MergePresence(e, s) \in Entry
  BY <1>2, <1>3 DEF MergePresence, Entry
<1>. QED
  BY <1>1, <1>4, <1>5, <1>6 DEF Push, Window

LEMMA PushType ==
    ASSUME NEW w \in Window, NEW s \in DeviceSignal
    PROVE  Push(w, s) \in Window
<1>1. \A i \in Ids \ {s.id} : Push(w, s)[i] = w[i]
  BY DEF Push, Window
<1>2. Push(w, s) = [i \in Ids |-> Push(w, s)[i]]
  BY DEF Push, Window
<1>. QED
  BY <1>1, <1>2, PushEntry DEF Window

LEMMA ApplyBatchType ==
    ASSUME NEW rows \in Table, NEW batch \in Window
    PROVE  ApplyBatch(rows, batch) \in Table
<1>1. ASSUME NEW i \in Ids PROVE ApplyDelta(rows[i], batch[i]) \in Row \cup {None}
  <2>1. rows[i] \in Row \cup {None} /\ batch[i] \in Entry \cup {None}
    BY DEF Table, Window
  <2>2. CASE batch[i] = None
    BY <2>1, <2>2 DEF ApplyDelta
  <2>3. CASE batch[i] # None /\ batch[i].removed
    BY <2>3 DEF ApplyDelta
  <2>4. CASE batch[i] # None /\ ~batch[i].removed
    <3>1. batch[i].target \in Targets /\ batch[i].target # None
      BY <2>1, <2>4 DEF Entry
    <3>2. batch[i].desc \in Descriptions /\ batch[i].desc # None
      BY <2>1, <2>4 DEF Entry
    <3>. QED
      BY <2>4, <3>1, <3>2 DEF ApplyDelta, Row
  <2>. QED
    BY <2>2, <2>3, <2>4
<1>. QED
  BY <1>1 DEF ApplyBatch, Table

LEMMA EmptyTypes == EmptyTable \in Table /\ EmptyWindow \in Window
BY DEF EmptyTable, Table, EmptyWindow, Window

-----------------------------------------------------------------------------
(* Type correctness.                                                       *)

LEMMA StageKinds ==
    /\ None \notin PendingKind
    /\ "Started" \in PendingKind
    /\ \A n \in 2..3 : Stages[n] \in PendingKind
<1>1. PendingKind = {"Started", "WaitingForAuthentication", "PossiblyNoAgent"}
  BY DEF PendingKind, Stages
<1>2. \A n \in 2..3 : n = 2 \/ n = 3
  OBVIOUS
<1>. QED
  BY <1>1, <1>2, DeviceOperationsAssumption DEF Stages

LEMMA EventTypes ==
    /\ \A t \in {"ConnectionLost", "Reconnected"} : Event(t) \in UiEvent
    /\ \A list \in List, worker \in BOOLEAN : Snapshot(list, worker) \in UiEvent
    /\ \A o \in Ops, r \in {"answered", "inconclusive", "cancelled"} :
            Finished(o, r) \in UiEvent
<1>1. \A t \in {"ConnectionLost", "Reconnected"} : Event(t) \in UiEvent
  BY DEF Event, UiEvent
<1>2. \A list \in List, worker \in BOOLEAN : Snapshot(list, worker) \in UiEvent
  BY DEF Snapshot, UiEvent
<1>3. \A o \in Ops, r \in {"answered", "inconclusive", "cancelled"} :
            Finished(o, r) \in UiEvent
  BY DEF Finished, UiEvent
<1>. QED
  BY <1>1, <1>2, <1>3

\* What the daemon and the worker would send now.
LEMMA SentTypes ==
    ASSUME TypeOK
    PROVE  ListDevices \in List /\ Batch \in UiEvent
<1>1. ListDevices \in List
  BY DEF TypeOK, ListDevices, List
<1>2. Batch \in UiEvent
  BY DEF TypeOK, Batch, UiEvent
<1>. QED
  BY <1>1, <1>2

LEMMA TypeInit == Init => TypeOK
<1>. SUFFICES ASSUME Init PROVE TypeOK
  OBVIOUS
<1>1. daemon \in Table /\ version \in Nat
  BY DEF Init, Table, Row
<1>2. ListDevices \in List
  BY <1>1 DEF ListDevices, List
<1>3. outbox \in Seq(UiEvent) /\ channel \in Seq(UiEvent) /\ Len(channel) = 0
  <2>. DEFINE first == Snapshot(ListDevices, TRUE)
  <2>1. first \in UiEvent
    BY <1>2, EventTypes
  <2>2. outbox = <<first>> /\ channel = <<>>
    BY DEF Init
  <2>. HIDE DEF first
  <2>. QED
    BY <2>1, <2>2
<1>4. /\ pending \in Window /\ table \in Table
      /\ Len(channel) <= CHANNEL_CAPACITY
  BY <1>3, EmptyTypes, DeviceOperationsAssumption DEF Init
<1>5. /\ link \in {"up", "lost"} /\ disturbances \in 0..MaxDisturbances
      /\ answered \in SUBSET Ops /\ cancelling \in SUBSET Ops
      /\ asking \in SUBSET Ops /\ obscured \in SUBSET Ops
      /\ seen \in Nat /\ notices \in [Ops -> 0..2]
  BY DeviceOperationsAssumption DEF Init
<1>6. /\ request \in [Ops -> Call \cup {None}]
      /\ task \in [Ops -> {"none", "waiting", "finished", "aborted"}]
      /\ read \in [Ops -> List \cup {None}]
      /\ marker \in [Ids -> PendingKind \cup {None}]
      /\ ops \in [Ops -> Ids \cup {None}]
      /\ confirming \in Ids \cup {None}
      /\ offered \in [id: Ids, desc: Descriptions] \cup {None}
  BY DEF Init
<1>7. connected \in BOOLEAN /\ late \in BOOLEAN /\ fresh \in BOOLEAN /\ revived \in BOOLEAN
  BY DEF Init
<1>. QED
  BY <1>1, <1>3, <1>4, <1>5, <1>6, <1>7 DEF TypeOK

\* A signal keeps the version and the window well typed.
LEMMA SignalledType ==
    ASSUME TypeOK, NEW signal \in DeviceSignal, Signalled(signal)
    PROVE  version' \in Nat /\ pending' \in Window
BY PushType DEF TypeOK, Signalled

\* A send keeps the channel within its capacity.
LEMMA PutType ==
    ASSUME TypeOK, NEW event \in UiEvent, Put(event)
    PROVE  channel' \in Seq(UiEvent) /\ Len(channel') <= CHANNEL_CAPACITY
<1>1. channel \in Seq(UiEvent) /\ Len(channel) < CHANNEL_CAPACITY
  BY DEF TypeOK, Put
<1>2. channel' = Append(channel, event) /\ Len(channel') = Len(channel) + 1
  BY <1>1 DEF Put
<1>. QED
  BY <1>1, <1>2, DeviceOperationsAssumption

LEMMA TypeDaemon == TypeOK /\ Daemon => TypeOK'
<1>. SUFFICES ASSUME TypeOK, Daemon PROVE TypeOK'
  OBVIOUS
<1>. USE DeviceOperationsAssumption
<1>1. ASSUME NEW i \in Ids, NEW row \in [target: Targets, desc: Descriptions],
             Plug(i, row)
      PROVE  TypeOK'
  <2>1. Inserted(i, row) \in DeviceSignal
    BY DEF Inserted, DeviceSignal, PresenceEvents
  <2>2. version' \in Nat /\ pending' \in Window
    BY <1>1, <2>1, SignalledType DEF Plug
  <2>3. daemon' \in Table
    BY <1>1 DEF Plug, TypeOK, Table, Row
  <2>. QED
    BY <1>1, <2>2, <2>3 DEF Plug, DaemonChanges, Disturbance, TypeOK
<1>2. ASSUME NEW i \in Ids, Unplug(i) PROVE TypeOK'
  <2>1. Removed(i) \in DeviceSignal
    BY <1>2 DEF Unplug, Removed, DeviceSignal, PresenceEvents, TypeOK, Table, Row
  <2>2. version' \in Nat /\ pending' \in Window
    BY <1>2, <2>1, SignalledType DEF Unplug
  <2>3. daemon' \in Table
    BY <1>2 DEF Unplug, TypeOK, Table
  <2>. QED
    BY <1>2, <2>2, <2>3 DEF Unplug, DaemonChanges, Disturbance, TypeOK
<1>3. ASSUME NEW i \in Ids, NEW t \in Targets, Decide(i, t) PROVE TypeOK'
  <2>1. Decided(i, t) \in DeviceSignal
    BY <1>3 DEF Decide, Decided, DeviceSignal, TypeOK, Table, Row
  <2>2. version' \in Nat /\ pending' \in Window
    BY <1>3, <2>1, SignalledType DEF Decide
  <2>3. daemon' \in Table
    BY <1>3 DEF Decide, TypeOK, Table, Row
  <2>. QED
    BY <1>3, <2>2, <2>3 DEF Decide, DaemonChanges, Disturbance, TypeOK
<1>4. ASSUME NEW o \in Ops, DaemonActs(o) PROVE TypeOK'
  <2>. DEFINE i == request[o].id
              policy == request[o].policy
  <2>1. i \in Ids /\ policy \in Policies /\ daemon[i] \in Row
    BY <1>4 DEF DaemonActs, TypeOK, Call, Table
  <2>2. daemon' \in Table /\ version' \in Nat /\ pending' \in Window
    <3>1. CASE policy = "reject"
      <4>1. Removed(i) \in DeviceSignal
        BY <2>1 DEF Removed, DeviceSignal, PresenceEvents, Row
      <4>2. Signalled(Removed(i)) /\ daemon' = [daemon EXCEPT ![i] = None]
        BY <1>4, <3>1 DEF DaemonActs
      <4>. QED
        BY <4>1, <4>2, SignalledType DEF TypeOK, Table
    <3>2. CASE policy # "reject"
      <4>1. Decided(i, policy) \in DeviceSignal
        BY <2>1, <3>2 DEF Decided, DeviceSignal, Row
      <4>2. /\ Signalled(Decided(i, policy))
            /\ daemon' = [daemon EXCEPT ![i].target = policy]
        BY <1>4, <3>2 DEF DaemonActs
      <4>. QED
        BY <2>1, <3>2, <4>1, <4>2, SignalledType DEF TypeOK, Table, Row
    <3>. QED
      BY <3>1, <3>2
  <2>. QED
    BY <1>4, <2>2 DEF DaemonActs, Answer, TypeOK
<1>5. ASSUME NEW o \in Ops, DaemonRefuses(o) PROVE TypeOK'
  BY <1>5 DEF DaemonRefuses, Answer, TypeOK
<1>6. CASE LinkLost
  <2>1. outbox' \in Seq(UiEvent)
    <3>. DEFINE lost == Event("ConnectionLost")
    <3>1. outbox \in Seq(UiEvent) /\ lost \in UiEvent /\ Batch \in UiEvent
      BY SentTypes, EventTypes DEF TypeOK
    <3>2. outbox' = Append(outbox, lost) \/ outbox' = outbox \o <<Batch, lost>>
      BY <1>6 DEF LinkLost
    <3>. DEFINE batch == Batch
    <3>3. batch \in UiEvent
      BY <3>1
    <3>. HIDE DEF lost, batch
    <3>4. Append(outbox, lost) \in Seq(UiEvent)
      BY <3>1
    <3>5. <<batch, lost>> \in Seq(UiEvent)
      BY <3>1, <3>3
    <3>6. outbox \o <<batch, lost>> \in Seq(UiEvent)
      BY <3>1, <3>5
    <3>. QED
      BY <3>2, <3>4, <3>6 DEF batch
  <2>. QED
    BY <1>6, <2>1, EmptyTypes DEF LinkLost, Disturbance, TypeOK
<1>7. CASE LinkBack
  <2>1. outbox' \in Seq(UiEvent)
    <3>. DEFINE back == Event("Reconnected")
                list == Snapshot(ListDevices, TRUE)
    <3>1. outbox \in Seq(UiEvent) /\ back \in UiEvent /\ list \in UiEvent
      BY SentTypes, EventTypes DEF TypeOK
    <3>2. outbox' = outbox \o <<back, list>>
      BY <1>7 DEF LinkBack
    <3>. HIDE DEF back, list
    <3>. QED
      BY <3>1, <3>2
  <2>. QED
    BY <1>7, <2>1 DEF LinkBack, TypeOK
<1>. QED
  BY <1>1, <1>2, <1>3, <1>4, <1>5, <1>6, <1>7 DEF Daemon

\* The worker, the tasks and the notices.
LEMMA TypeTasks ==
    ASSUME TypeOK, Flush \/ WorkerSends \/
           \E o \in Ops : \/ Finish(o) \/ CancelSends(o) \/ Notice(o)
                          \/ ReadDevices(o) \/ ReadFails(o) \/ SendDevices(o)
    PROVE  TypeOK'
<1>1. CASE Flush
  <2>1. outbox' \in Seq(UiEvent)
    BY <1>1, SentTypes DEF Flush
  <2>. QED
    BY <1>1, <2>1, EmptyTypes DEF Flush, TypeOK
<1>2. CASE WorkerSends
  <2>1. outbox \in Seq(UiEvent) /\ outbox # <<>>
    BY <1>2 DEF WorkerSends, TypeOK
  <2>2. Head(outbox) \in UiEvent /\ Tail(outbox) \in Seq(UiEvent)
    BY <2>1
  <2>3. channel' \in Seq(UiEvent) /\ Len(channel') <= CHANNEL_CAPACITY
    BY <1>2, <2>2, PutType DEF WorkerSends
  <2>. QED
    BY <1>2, <2>2, <2>3 DEF WorkerSends, TypeOK
<1>3. ASSUME NEW o \in Ops, Finish(o) PROVE TypeOK'
  <2>1. channel' \in Seq(UiEvent) /\ Len(channel') <= CHANNEL_CAPACITY
    BY <1>3, EventTypes, PutType DEF Finish
  <2>. QED
    BY <1>3, <2>1 DEF Finish, TypeOK
<1>4. ASSUME NEW o \in Ops, CancelSends(o) PROVE TypeOK'
  <2>1. channel' \in Seq(UiEvent) /\ Len(channel') <= CHANNEL_CAPACITY
    BY <1>4, EventTypes, PutType DEF CancelSends
  <2>. QED
    BY <1>4, <2>1 DEF CancelSends, TypeOK
<1>5. ASSUME NEW o \in Ops, Notice(o) PROVE TypeOK'
  <2>1. /\ notices[o] + 1 \in 0..2 /\ notices[o] + 2 \in 2..3
        /\ Stages[notices[o] + 2] \in PendingKind
    BY <1>5, StageKinds DEF Notice, TypeOK
  <2>2. marker' \in [Ids -> PendingKind \cup {None}]
    BY <1>5, <2>1 DEF Notice, SetPending, TypeOK
  <2>. QED
    BY <1>5, <2>1, <2>2 DEF Notice, TypeOK
<1>6. ASSUME NEW o \in Ops, ReadDevices(o) \/ ReadFails(o) PROVE TypeOK'
  BY <1>6, SentTypes DEF ReadDevices, ReadFails, TypeOK
<1>7. ASSUME NEW o \in Ops, SendDevices(o) PROVE TypeOK'
  <2>1. read[o] \in List
    BY <1>7 DEF SendDevices, TypeOK
  <2>2. channel' \in Seq(UiEvent) /\ Len(channel') <= CHANNEL_CAPACITY
    BY <1>7, <2>1, EventTypes, PutType DEF SendDevices
  <2>. QED
    BY <1>7, <2>2 DEF SendDevices, TypeOK
<1>. QED
  BY <1>1, <1>2, <1>3, <1>4, <1>5, <1>6, <1>7

LEMMA TypeStart ==
    ASSUME TypeOK, NEW o \in Ops, NEW i \in Ids, NEW policy \in Policies,
           StartDeviceOp(o, i, policy),
           confirming' \in Ids \cup {None},
           offered' \in [id: Ids, desc: Descriptions] \cup {None}
    PROVE  TypeOK'
<1>1. disturbances' \in 0..MaxDisturbances
  BY DeviceOperationsAssumption DEF StartDeviceOp, TypeOK
<1>2. request' \in [Ops -> Call \cup {None}]
  BY DEF StartDeviceOp, TypeOK, Call
<1>3. marker' \in [Ids -> PendingKind \cup {None}]
  BY StageKinds DEF StartDeviceOp, SetPending, TypeOK
<1>4. obscured' \in SUBSET Ops
  BY DEF StartDeviceOp, TypeOK, On
<1>. QED
  BY <1>1, <1>2, <1>3, <1>4 DEF StartDeviceOp, TypeOK

LEMMA TypeUser == TypeOK /\ User => TypeOK'
<1>. SUFFICES ASSUME TypeOK, User PROVE TypeOK'
  OBVIOUS
<1>0. /\ confirming \in Ids \cup {None}
      /\ offered \in [id: Ids, desc: Descriptions] \cup {None}
  BY DEF TypeOK
<1>1. ASSUME NEW o \in Ops, NEW i \in Ids, NEW policy \in Policies,
             ClickPolicy(o, i, policy)
      PROVE  TypeOK'
  BY <1>1, <1>0, TypeStart DEF ClickPolicy
<1>2. ASSUME NEW o \in Ops, ConfirmReject(o) PROVE TypeOK'
  <2>1. confirming \in Ids /\ "reject" \in Policies
    BY <1>2, <1>0, DeviceOperationsAssumption DEF ConfirmReject
  <2>. QED
    BY <1>2, <1>0, <2>1, TypeStart DEF ConfirmReject
<1>3. ASSUME NEW o \in Ops, AllowFromNotification(o) PROVE TypeOK'
  BY <1>3, <1>0, TypeStart, DeviceOperationsAssumption DEF AllowFromNotification
<1>4. ASSUME NEW i \in Ids, ClickReject(i) PROVE TypeOK'
  BY <1>4 DEF ClickReject, TypeOK
<1>5. CASE DismissReject \/ Present
  BY <1>5 DEF DismissReject, Present, TypeOK
<1>6. ASSUME NEW o \in Ops, Cancel(o) PROVE TypeOK'
  BY <1>6 DEF Cancel, SetPending, TypeOK
<1>. QED
  BY <1>1, <1>2, <1>3, <1>4, <1>5, <1>6 DEF User

LEMMA OfferedType ==
    ASSUME TypeOK, NEW rows \in Table, Announce(rows)
    PROVE  offered' \in [id: Ids, desc: Descriptions] \cup {None}
<1>. DEFINE new == {i \in Ids : /\ table[i] = None /\ rows[i] # None
                                /\ rows[i].target # AllowTarget}
<1>1. CASE UNCHANGED offered
  BY <1>1 DEF TypeOK
<1>2. CASE new # {} /\ Offer(new, rows)
  <2>. DEFINE i == CHOOSE i \in new : TRUE
  <2>1. i \in new
    BY <1>2
  <2>2. i \in Ids /\ rows[i].desc \in Descriptions
    BY <2>1 DEF Table, Row
  <2>. HIDE DEF new, i
  <2>. QED
    BY <1>2, <2>2 DEF i, Offer
<1>. QED
  BY <1>1, <1>2 DEF Announce

LEMMA ShowType ==
    ASSUME TypeOK, NEW rows \in Table, Show(rows)
    PROVE  /\ table' \in Table /\ marker' \in [Ids -> PendingKind \cup {None}]
           /\ obscured' \in SUBSET Ops
BY DEF TypeOK, Show, KeepMarkers

LEMMA TypeApply == TypeOK /\ Apply => TypeOK'
<1>. SUFFICES ASSUME TypeOK, Apply PROVE TypeOK'
  OBVIOUS
<1>. DEFINE event == Head(channel)
<1>1. /\ event \in UiEvent /\ channel' \in Seq(UiEvent)
      /\ Len(channel') <= CHANNEL_CAPACITY
  <2>1. channel \in Seq(UiEvent) /\ channel # <<>> /\ channel' = Tail(channel)
    BY DEF TypeOK, Apply
  <2>2. Len(Tail(channel)) = Len(channel) - 1 /\ Len(channel) \in Nat
    BY <2>1
  <2>. QED
    BY <2>1, <2>2, DeviceOperationsAssumption DEF TypeOK
<1>. HIDE DEF event
<1>2. CASE event.type = "DeviceSnapshot" /\ ApplySnapshot(event.list, event.worker)
  <2>1. /\ event.list.devices \in Table /\ event.list.version \in Nat
        /\ event.worker \in BOOLEAN
    BY <1>1, <1>2 DEF UiEvent, List
  <2>2. Replace(event.list) \in Table
    BY <2>1 DEF Replace
  <2>3. /\ table' \in Table /\ marker' \in [Ids -> PendingKind \cup {None}]
        /\ obscured' \in SUBSET Ops
    BY <1>2, <2>2, ShowType DEF ApplySnapshot
  <2>4. offered' \in [id: Ids, desc: Descriptions] \cup {None}
    BY <1>2, <2>2, OfferedType DEF ApplySnapshot, TypeOK
  <2>5. seen' \in Nat
    BY <1>2, <2>1 DEF ApplySnapshot, Newest, TypeOK
  <2>6. late' \in BOOLEAN /\ fresh' \in BOOLEAN /\ revived' \in BOOLEAN
    <3>1. /\ late' = (event.list.version < seen) /\ fresh' = FALSE
          /\ revived' = (~event.worker /\ (revived \/ ~connected))
      BY <1>2, Zenon DEF ApplySnapshot
    <3>2. (event.list.version < seen) \in BOOLEAN
      BY SMT
    <3>3. (~event.worker /\ (revived \/ ~connected)) \in BOOLEAN
      BY Zenon
    <3>. QED
      BY <3>1, <3>2, <3>3, Zenon
  <2>7. connected' \in BOOLEAN
    BY <1>2 DEF ApplySnapshot
  <2>. QED
    BY <1>1, <1>2, <2>3, <2>4, <2>5, <2>6, <2>7 DEF Apply, ApplySnapshot, TypeOK
<1>3. CASE event.type = "DeviceBatch" /\ ApplyNewBatch(event.batch, event.version)
  <2>1. event.batch \in Window /\ event.version \in Nat
    BY <1>1, <1>3 DEF UiEvent
  <2>2. ApplyBatch(table, event.batch) \in Table
    BY <2>1, ApplyBatchType DEF TypeOK
  <2>3. /\ table' \in Table /\ marker' \in [Ids -> PendingKind \cup {None}]
        /\ obscured' \in SUBSET Ops
    BY <1>3, <2>2, ShowType DEF ApplyNewBatch
  <2>4. offered' \in [id: Ids, desc: Descriptions] \cup {None}
    BY <1>3, <2>2, OfferedType DEF ApplyNewBatch
  <2>5. seen' \in Nat
    BY <1>3, <2>1 DEF ApplyNewBatch, Newest, TypeOK
  <2>. QED
    BY <1>1, <1>3, <2>3, <2>4, <2>5 DEF Apply, ApplyNewBatch, TypeOK
<1>4. CASE ApplyConnectionLost
  BY <1>1, <1>4 DEF Apply, ApplyConnectionLost, TypeOK
<1>5. CASE ApplyReconnected
  <2>1. /\ table' \in Table /\ marker' \in [Ids -> PendingKind \cup {None}]
        /\ obscured' \in SUBSET Ops
    BY <1>5, EmptyTypes, ShowType DEF ApplyReconnected
  <2>. QED
    BY <1>1, <1>5, <2>1 DEF Apply, ApplyReconnected, TypeOK
<1>6. CASE event.type = "OperationFinished" /\ ApplyFinished(event.op, event.result)
  <2>1. event.op \in Ops
    BY <1>1, <1>6 DEF UiEvent
  <2>2. CASE ops[event.op] = None
    BY <1>1, <1>6, <2>2 DEF Apply, ApplyFinished, TypeOK
  <2>3. CASE ops[event.op] # None
    <3>1. marker' \in [Ids -> PendingKind \cup {None}]
      BY <1>6, <2>3 DEF ApplyFinished, SetPending, TypeOK
    <3>2. ops' \in [Ops -> Ids \cup {None}] /\ asking' \in SUBSET Ops
      BY ZenonT(60), <1>6, <2>1, <2>3 DEF ApplyFinished, TypeOK
    <3>. QED
      BY <1>1, <1>6, <2>3, <3>1, <3>2 DEF Apply, ApplyFinished, TypeOK
  <2>. QED
    BY <2>2, <2>3
<1>. QED
  BY <1>2, <1>3, <1>4, <1>5, <1>6 DEF Apply, event

LEMMA TypeNext == TypeOK /\ [Next]_vars => TypeOK'
<1>. SUFFICES ASSUME TypeOK, [Next]_vars PROVE TypeOK'
  OBVIOUS
<1>1. CASE UNCHANGED vars
  BY <1>1 DEF vars, TypeOK
<1>. QED
  BY <1>1, TypeDaemon, TypeTasks, TypeUser, TypeApply DEF Next, System

\* The window's state keeps its types: whatever lists, batches and results
\* arrive, a row is complete, a marker is one of the three notices, and the
\* channel never holds more than its capacity.
THEOREM TypeCorrect == Spec => []TypeOK
BY TypeInit, TypeNext, PTL DEF Spec

-----------------------------------------------------------------------------
(* The inductive invariant.                                                *)

\* The types markers depend on.
WindowType ==
    /\ marker \in [Ids -> PendingKind \cup {None}]
    /\ ops \in [Ops -> Ids \cup {None}]
    /\ task \in [Ops -> {"none", "waiting", "finished", "aborted"}]
    /\ notices \in [Ops -> 0..2]
    /\ confirming \in Ids \cup {None}
    /\ offered # None => offered.id \in Ids

\* Only a started operation is waited for.
StartedFirst == \A o \in Ops : task[o] = "none" => ops[o] = None

\* Operations that share a device are all obscured.
SharedIsObscured ==
    \A o, p \in Ops : o # p /\ ops[o] # None /\ ops[o] = ops[p] =>
        o \in obscured /\ p \in obscured

MarkerInv ==
    /\ WindowType /\ StartedFirst /\ SharedIsObscured
    /\ MarkedRowHasOperation /\ LoneOperationIsMarked

LEMMA MarkerInit == Init => MarkerInv
BY DEF Init, MarkerInv, WindowType, StartedFirst, SharedIsObscured,
       MarkedRowHasOperation, LoneOperationIsMarked

\* Steps that leave the rows, their markers and the operations alone.
LEMMA MarkerFrame ==
    ASSUME MarkerInv,
           UNCHANGED <<table, marker, ops, obscured, notices>>,
           task' \in [Ops -> {"none", "waiting", "finished", "aborted"}],
           \A o \in Ops : task'[o] = "none" => task[o] = "none",
           confirming' \in Ids \cup {None},
           offered' # None => offered'.id \in Ids
    PROVE  MarkerInv'
BY DEF MarkerInv, WindowType, StartedFirst, SharedIsObscured,
       MarkedRowHasOperation, LoneOperationIsMarked, On

\* The daemon, the worker, and the tasks.
LEMMA MarkerOutside ==
    ASSUME MarkerInv, Daemon \/ Flush \/ WorkerSends \/
           \E o \in Ops : \/ Finish(o) \/ CancelSends(o)
                          \/ ReadDevices(o) \/ ReadFails(o) \/ SendDevices(o)
    PROVE  MarkerInv'
<1>1. UNCHANGED <<table, marker, ops, obscured, notices, confirming, offered>>
  BY DEF Daemon, Plug, Unplug, Decide, DaemonChanges, DaemonActs,
         DaemonRefuses, LinkLost, LinkBack, Flush, WorkerSends, Finish,
         CancelSends, ReadDevices, ReadFails, SendDevices
<1>2. \/ UNCHANGED task
      \/ \E o \in Ops : task[o] = "waiting" /\ task' = [task EXCEPT ![o] = "finished"]
  BY DEF Daemon, Plug, Unplug, Decide, DaemonChanges, DaemonActs,
         DaemonRefuses, LinkLost, LinkBack, Flush, WorkerSends, Finish,
         CancelSends, ReadDevices, ReadFails, SendDevices
<1>3. /\ task' \in [Ops -> {"none", "waiting", "finished", "aborted"}]
      /\ \A o \in Ops : task'[o] = "none" => task[o] = "none"
  BY <1>2 DEF MarkerInv, WindowType
<1>4. /\ confirming' \in Ids \cup {None}
      /\ offered' # None => offered'.id \in Ids
  BY <1>1 DEF MarkerInv, WindowType
<1>. QED
  BY <1>1, <1>3, <1>4, MarkerFrame

\* An operation starts: it is alone on its row, or obscures what is there.
LEMMA MarkerStart ==
    ASSUME MarkerInv, NEW o \in Ops, NEW i \in Ids, NEW policy,
           StartDeviceOp(o, i, policy),
           confirming' \in Ids \cup {None},
           offered' # None => offered'.id \in Ids
    PROVE  MarkerInv'
<1>. USE DEF MarkerInv
<1>1. /\ ops[o] = None /\ ops' = [ops EXCEPT ![o] = i] /\ table' = table
      /\ task' = [task EXCEPT ![o] = "waiting"] /\ UNCHANGED notices
  BY DEF StartDeviceOp, StartedFirst
<1>2. marker' = [marker EXCEPT ![i] = IF table[i] = None THEN @ ELSE "Started"]
  BY DEF StartDeviceOp, SetPending
<1>3. /\ obscured \subseteq obscured'
      /\ table[i] = None => o \in obscured'
      /\ \A p \in Ops : ops[p] = i => p \in obscured' /\ o \in obscured'
  BY DEF StartDeviceOp, On
<1>4. i # None
  BY DeviceOperationsAssumption
<1>5. WindowType'
  BY <1>1, <1>2, StageKinds DEF WindowType
<1>6. StartedFirst'
  BY <1>1 DEF StartedFirst, WindowType
<1>7. SharedIsObscured'
  BY <1>1, <1>3 DEF SharedIsObscured, WindowType
<1>8. MarkedRowHasOperation'
  <2>. SUFFICES ASSUME NEW j \in Ids, marker'[j] # None
                PROVE  table'[j] # None /\ \E p \in Ops : ops'[p] = j
    BY DEF MarkedRowHasOperation, On
  <2>1. CASE j = i
    BY <2>1, <1>1, <1>2 DEF WindowType, MarkedRowHasOperation
  <2>2. CASE j # i
    <3>1. PICK p \in Ops : ops[p] = j
      BY <2>2, <1>2 DEF WindowType, MarkedRowHasOperation, On
    <3>2. p # o
      BY <3>1, <1>1, DeviceOperationsAssumption
    <3>. QED
      BY <2>2, <3>1, <3>2, <1>1, <1>2 DEF WindowType, MarkedRowHasOperation
  <2>. QED
    BY <2>1, <2>2
<1>9. LoneOperationIsMarked'
  <2>. SUFFICES ASSUME NEW p \in Ops, ops'[p] # None, p \notin obscured'
                PROVE  table'[ops'[p]] # None /\ marker'[ops'[p]] # None
    BY DEF LoneOperationIsMarked
  <2>1. CASE p = o
    BY <2>1, <1>1, <1>2, <1>3, StageKinds DEF WindowType
  <2>2. CASE p # o
    BY <2>2, <1>1, <1>2, <1>3 DEF WindowType, LoneOperationIsMarked
  <2>. QED
    BY <2>1, <2>2
<1>. QED
  BY <1>5, <1>6, <1>7, <1>8, <1>9

\* An operation is no longer waited for, and the marker of its row is taken.
LEMMA MarkerEnd ==
    ASSUME MarkerInv, NEW o \in Ops, ops[o] # None,
           ops' = [ops EXCEPT ![o] = None],
           marker' = SetPending(ops[o], None),
           UNCHANGED <<table, obscured, notices, confirming, offered>>,
           task' \in [Ops -> {"none", "waiting", "finished", "aborted"}],
           \A p \in Ops : task'[p] = "none" => task[p] = "none"
    PROVE  MarkerInv'
<1>. USE DEF MarkerInv
<1>1. ops[o] \in Ids
  BY DEF WindowType
<1>2. /\ \A j \in Ids : j # ops[o] => marker'[j] = marker[j]
      /\ marker'[ops[o]] = None
      /\ marker' \in [Ids -> PendingKind \cup {None}]
  BY <1>1 DEF SetPending, WindowType, MarkedRowHasOperation
<1>3. \A p \in Ops : ops'[p] # None => p # o /\ ops'[p] = ops[p]
  BY DEF WindowType
<1>4. WindowType'
  BY <1>2 DEF WindowType
<1>5. StartedFirst' /\ SharedIsObscured'
  BY <1>3 DEF StartedFirst, SharedIsObscured, WindowType
<1>6. MarkedRowHasOperation'
  <2>. SUFFICES ASSUME NEW j \in Ids, marker'[j] # None
                PROVE  table'[j] # None /\ \E p \in Ops : ops'[p] = j
    BY DEF MarkedRowHasOperation, On
  <2>1. j # ops[o] /\ marker[j] # None
    BY <1>2
  <2>2. PICK p \in Ops : ops[p] = j
    BY <2>1 DEF MarkedRowHasOperation, On
  <2>. QED
    BY <2>1, <2>2 DEF MarkedRowHasOperation, WindowType
<1>7. LoneOperationIsMarked'
  <2>. SUFFICES ASSUME NEW p \in Ops, ops'[p] # None, p \notin obscured
                PROVE  table[ops[p]] # None /\ marker'[ops[p]] # None
    BY <1>3 DEF LoneOperationIsMarked
  <2>1. p # o /\ ops[p] # None
    BY <1>3
  <2>2. ops[p] # ops[o]
    BY <2>1 DEF SharedIsObscured
  <2>3. ops[p] \in Ids
    BY <2>1 DEF WindowType
  <2>. QED
    BY <1>2, <2>1, <2>2, <2>3 DEF LoneOperationIsMarked
<1>. QED
  BY <1>4, <1>5, <1>6, <1>7

\* Rows are replaced: those that stay keep their markers, and the operations of
\* the others are obscured.
LEMMA MarkerShow ==
    ASSUME MarkerInv, NEW rows, Show(rows),
           UNCHANGED <<ops, task, notices, confirming>>,
           offered' # None => offered'.id \in Ids
    PROVE  MarkerInv'
<1>. USE DEF MarkerInv
<1>1. /\ table' = rows
      /\ marker' = [j \in Ids |-> IF table[j] # None /\ rows[j] # None
                                  THEN marker[j] ELSE None]
      /\ obscured \subseteq obscured'
      /\ \A o \in Ops : ops[o] # None /\ rows[ops[o]] = None => o \in obscured'
  BY DEF Show, KeepMarkers
<1>2. WindowType' /\ StartedFirst' /\ SharedIsObscured'
  BY <1>1 DEF WindowType, StartedFirst, SharedIsObscured
<1>3. MarkedRowHasOperation'
  BY <1>1 DEF MarkedRowHasOperation, On
<1>4. LoneOperationIsMarked'
  <2>. SUFFICES ASSUME NEW o \in Ops, ops[o] # None, o \notin obscured'
                PROVE  rows[ops[o]] # None /\ marker'[ops[o]] # None
    BY <1>1 DEF LoneOperationIsMarked
  <2>1. ops[o] \in Ids
    BY DEF WindowType
  <2>. QED
    BY <2>1, <1>1 DEF LoneOperationIsMarked
<1>. QED
  BY <1>2, <1>3, <1>4

LEMMA OfferedId ==
    ASSUME offered # None => offered.id \in Ids, NEW rows, Announce(rows)
    PROVE  offered' # None => offered'.id \in Ids
<1>. DEFINE new == {i \in Ids : /\ table[i] = None /\ rows[i] # None
                                /\ rows[i].target # AllowTarget}
<1>1. CASE UNCHANGED offered
  BY <1>1
<1>2. CASE new # {} /\ Offer(new, rows)
  <2>1. (CHOOSE i \in new : TRUE) \in Ids
    BY <1>2
  <2>. HIDE DEF new
  <2>. QED
    BY <1>2, <2>1 DEF Offer
<1>. QED
  BY <1>1, <1>2 DEF Announce

\* A result names an operation.
LEMMA FinishedOps ==
    ASSUME TypeOK, channel # <<>>, Head(channel).type = "OperationFinished"
    PROVE  Head(channel).op \in Ops
<1>1. Head(channel) \in UiEvent
  BY DEF TypeOK
<1>. QED
  BY <1>1 DEF UiEvent

\* The window takes an event.
LEMMA MarkerApply == TypeOK /\ MarkerInv /\ Apply => MarkerInv'
<1>. SUFFICES ASSUME TypeOK, MarkerInv, Apply PROVE MarkerInv'
  OBVIOUS
<1>0. /\ UNCHANGED <<task, notices, confirming>>
      /\ offered # None => offered.id \in Ids
      /\ task' \in [Ops -> {"none", "waiting", "finished", "aborted"}]
      /\ confirming' \in Ids \cup {None}
  BY DEF Apply, MarkerInv, WindowType
<1>1. CASE \E list, worker : ApplySnapshot(list, worker)
  <2>1. PICK list, worker : ApplySnapshot(list, worker)
    BY <1>1
  <2>2. Show(Replace(list)) /\ UNCHANGED ops
    BY <2>1 DEF ApplySnapshot
  <2>3. offered' # None => offered'.id \in Ids
    BY <2>1, <1>0, OfferedId DEF ApplySnapshot
  <2>. QED
    BY <2>2, <2>3, <1>0, MarkerShow
<1>2. CASE \E batch, v : ApplyNewBatch(batch, v)
  <2>1. PICK batch, v : ApplyNewBatch(batch, v)
    BY <1>2
  <2>2. Show(ApplyBatch(table, batch)) /\ UNCHANGED ops
    BY <2>1 DEF ApplyNewBatch
  <2>3. offered' # None => offered'.id \in Ids
    BY <2>1, <1>0, OfferedId DEF ApplyNewBatch
  <2>. QED
    BY <2>2, <2>3, <1>0, MarkerShow
<1>3. CASE ApplyConnectionLost
  BY <1>3, <1>0, MarkerFrame DEF ApplyConnectionLost
<1>4. CASE ApplyReconnected
  BY <1>4, <1>0, MarkerShow DEF ApplyReconnected
<1>5. CASE \E o \in Ops : \E result : ApplyFinished(o, result)
  <2>1. PICK o \in Ops : \E result : ApplyFinished(o, result)
    BY <1>5
  <2>2. CASE ops[o] = None
    BY <2>1, <2>2, <1>0, MarkerFrame DEF ApplyFinished
  <2>3. CASE ops[o] # None
    BY <2>1, <2>3, <1>0, MarkerEnd DEF ApplyFinished
  <2>. QED
    BY <2>2, <2>3
<1>6. Head(channel).type = "OperationFinished" => Head(channel).op \in Ops
  BY FinishedOps DEF Apply
<1>. QED
  BY <1>1, <1>2, <1>3, <1>4, <1>5, <1>6 DEF Apply

\* What the user and the timers do.
LEMMA MarkerUser ==
    MarkerInv /\ (User \/ \E o \in Ops : Notice(o)) => MarkerInv'
<1>. SUFFICES ASSUME MarkerInv, User \/ \E o \in Ops : Notice(o) PROVE MarkerInv'
  OBVIOUS
<1>0. WindowType
  BY DEF MarkerInv
<1>1. ASSUME NEW o \in Ops, NEW i \in Ids, NEW policy \in Policies,
             ClickPolicy(o, i, policy)
      PROVE  MarkerInv'
  BY <1>1, <1>0, MarkerStart DEF ClickPolicy, WindowType
<1>2. ASSUME NEW o \in Ops, ConfirmReject(o) PROVE MarkerInv'
  BY <1>2, <1>0, MarkerStart DEF ConfirmReject, WindowType
<1>3. ASSUME NEW o \in Ops, AllowFromNotification(o) PROVE MarkerInv'
  BY <1>3, <1>0, MarkerStart DEF AllowFromNotification, WindowType
<1>4. ASSUME NEW i \in Ids, ClickReject(i) PROVE MarkerInv'
  BY <1>4, <1>0, MarkerFrame DEF ClickReject, WindowType
<1>5. CASE DismissReject \/ Present
  BY <1>5, <1>0, MarkerFrame DEF DismissReject, Present, WindowType
<1>6. ASSUME NEW o \in Ops, Cancel(o) PROVE MarkerInv'
  <2>1. /\ task' \in [Ops -> {"none", "waiting", "finished", "aborted"}]
        /\ \A p \in Ops : task'[p] = "none" => task[p] = "none"
    BY <1>6, <1>0 DEF Cancel, WindowType
  <2>. QED
    BY <1>6, <2>1, MarkerEnd DEF Cancel
<1>7. ASSUME NEW o \in Ops, Notice(o) PROVE MarkerInv'
  <2>1. /\ ops[o] \in Ids /\ notices[o] + 2 \in 2..3 /\ notices[o] + 1 \in 0..2
        /\ Stages[notices[o] + 2] \in PendingKind
    BY <1>7, <1>0, StageKinds DEF Notice, WindowType
  <2>2. marker' = [marker EXCEPT ![ops[o]] =
                    IF table[ops[o]] = None THEN @ ELSE Stages[notices[o] + 2]]
    BY <1>7 DEF Notice, SetPending
  <2>3. UNCHANGED <<table, ops, obscured, task, confirming, offered>>
    BY <1>7 DEF Notice
  <2>4. notices' \in [Ops -> 0..2] /\ marker' \in [Ids -> PendingKind \cup {None}]
    BY <1>7, <1>0, <2>1, <2>2 DEF Notice, WindowType
  <2>5. WindowType' /\ StartedFirst' /\ SharedIsObscured'
    BY <2>3, <2>4 DEF MarkerInv, WindowType, StartedFirst, SharedIsObscured
  <2>6. \A j \in Ids : \/ marker'[j] = marker[j]
                       \/ /\ j = ops[o] /\ table[j] # None
                          /\ marker'[j] # None
    BY <1>0, <2>1, <2>2, StageKinds DEF WindowType
  <2>7. MarkedRowHasOperation'
    BY <2>3, <2>6 DEF MarkerInv, MarkedRowHasOperation, On
  <2>8. LoneOperationIsMarked'
    BY <1>0, <2>3, <2>6 DEF MarkerInv, LoneOperationIsMarked, WindowType
  <2>. QED
    BY <2>5, <2>7, <2>8 DEF MarkerInv
<1>. QED
  BY <1>1, <1>2, <1>3, <1>4, <1>5, <1>6, <1>7 DEF User

LEMMA MarkerNext == TypeOK /\ MarkerInv /\ [Next]_vars => MarkerInv'
<1>. SUFFICES ASSUME TypeOK, MarkerInv, [Next]_vars PROVE MarkerInv'
  OBVIOUS
<1>1. CASE UNCHANGED vars
  BY <1>1, MarkerFrame DEF vars, MarkerInv, WindowType
<1>. QED
  BY <1>1, MarkerOutside, MarkerUser, MarkerApply DEF Next, System

\* A row shows a spinner and a Cancel button only while an operation on its
\* device is waited for, however lists, batches, notices and operations
\* interleave (window.rs start_device_op, finish, cancel_device_op).
THEOREM MarkedRowsAreCancellable == Spec => []MarkedRowHasOperation
<1>1. MarkerInv => MarkedRowHasOperation
  BY DEF MarkerInv
<1>. QED
  BY <1>1, TypeCorrect, MarkerInit, MarkerNext, PTL DEF Spec

\* An operation alone on a row that stays is marked there until it ends: lists,
\* batches and other devices' operations never take its Cancel button away.
THEOREM LoneOperationsStayMarked == Spec => []LoneOperationIsMarked
<1>1. MarkerInv => LoneOperationIsMarked
  BY DEF MarkerInv
<1>. QED
  BY <1>1, TypeCorrect, MarkerInit, MarkerNext, PTL DEF Spec

-----------------------------------------------------------------------------
(* Queues: what they hold, and what follows what in two of them, the       *)
(* channel and what the worker has still to send into it.                  *)

Elems(q) == {q[n] : n \in 1..Len(q)}

\* Each element of F in the queue q, which r is going to be appended to, has an
\* element of G behind it.
Followed(q, r, F, G) ==
    /\ \A m \in 1..Len(q) : q[m] \in F =>
            \/ \E n \in 1..Len(q) : m < n /\ q[n] \in G
            \/ \E n \in 1..Len(r) : r[n] \in G
    /\ \A m \in 1..Len(r) : r[m] \in F =>
            \E n \in 1..Len(r) : m < n /\ r[n] \in G

LEMMA Appended ==
    ASSUME NEW S, NEW q \in Seq(S), NEW x \in S
    PROVE  /\ Len(Append(q, x)) = Len(q) + 1 /\ Len(q) \in Nat
           /\ Append(q, x)[Len(q) + 1] = x
           /\ \A n \in 1..Len(q) : Append(q, x)[n] = q[n]
           /\ 1..(Len(q) + 1) = 1..Len(q) \cup {Len(q) + 1}
OBVIOUS

LEMMA Taken ==
    ASSUME NEW S, NEW q \in Seq(S), q # <<>>
    PROVE  /\ Len(q) \in Nat \ {0} /\ Head(q) = q[1] /\ Head(q) \in S
           /\ Tail(q) \in Seq(S) /\ Len(Tail(q)) = Len(q) - 1
           /\ \A n \in 1..(Len(q) - 1) : Tail(q)[n] = q[n + 1]
OBVIOUS

LEMMA ElemsAppend ==
    ASSUME NEW S, NEW q \in Seq(S), NEW x \in S
    PROVE  Elems(Append(q, x)) = Elems(q) \cup {x}
BY Appended DEF Elems

LEMMA ElemsTail ==
    ASSUME NEW S, NEW q \in Seq(S), q # <<>>
    PROVE  Elems(q) = {Head(q)} \cup Elems(Tail(q))
<1>1. ASSUME NEW n \in 1..Len(q) PROVE q[n] \in {Head(q)} \cup Elems(Tail(q))
  <2>1. CASE n = 1
    BY <2>1, Taken
  <2>2. CASE n # 1
    <3>1. n - 1 \in 1..(Len(q) - 1) /\ (n - 1) + 1 = n
      BY <2>2, Taken
    <3>2. Tail(q)[n - 1] = q[n]
      BY <3>1, Taken
    <3>. QED
      BY <3>1, <3>2, Taken DEF Elems
  <2>. QED
    BY <2>1, <2>2
<1>2. Head(q) \in Elems(q)
  BY Taken DEF Elems
<1>3. ASSUME NEW n \in 1..(Len(q) - 1) PROVE Tail(q)[n] \in Elems(q)
  <2>1. n + 1 \in 1..Len(q)
    BY Taken
  <2>. QED
    BY <2>1, Taken DEF Elems
<1>4. Elems(Tail(q)) \subseteq Elems(q)
  BY <1>3, Taken DEF Elems
<1>5. Elems(q) \subseteq {Head(q)} \cup Elems(Tail(q))
  BY <1>1 DEF Elems
<1>. QED
  BY <1>2, <1>4, <1>5, Zenon

LEMMA ElemsTypes ==
    ASSUME NEW S, NEW q \in Seq(S)
    PROVE  Elems(q) \subseteq S
BY DEF Elems

\* Two elements at the end.
LEMMA AppendTwo ==
    ASSUME NEW S, NEW q \in Seq(S), NEW x \in S, NEW y \in S
    PROVE  q \o <<x, y>> = Append(Append(q, x), y)
OBVIOUS

\* A put of something that needs no follower.
LEMMA FollowedPut ==
    ASSUME NEW S, NEW q \in Seq(S), NEW r \in Seq(S), NEW x \in S, NEW F, NEW G,
           Followed(q, r, F, G), x \notin F
    PROVE  Followed(Append(q, x), r, F, G)
<1>. DEFINE p == Append(q, x)
<1>1. /\ Len(p) = Len(q) + 1 /\ Len(q) \in Nat /\ p[Len(q) + 1] = x
      /\ \A n \in 1..Len(q) : p[n] = q[n]
      /\ 1..Len(p) = 1..Len(q) \cup {Len(q) + 1}
  BY Appended
<1>. HIDE DEF p
<1>2. ASSUME NEW m \in 1..Len(p), p[m] \in F
      PROVE  \/ \E n \in 1..Len(p) : m < n /\ p[n] \in G
             \/ \E n \in 1..Len(r) : r[n] \in G
  <2>1. m \in 1..Len(q) /\ q[m] \in F
    BY <1>1, <1>2
  <2>2. CASE \E n \in 1..Len(q) : m < n /\ q[n] \in G
    BY <1>1, <2>2
  <2>. QED
    BY <2>1, <2>2 DEF Followed
<1>3. Followed(p, r, F, G)
  BY <1>2 DEF Followed
<1>. QED
  BY <1>3 DEF p

\* The sender puts the first of its queue.
LEMMA FollowedMove ==
    ASSUME NEW S, NEW q \in Seq(S), NEW r \in Seq(S), r # <<>>, NEW F, NEW G,
           Followed(q, r, F, G)
    PROVE  Followed(Append(q, Head(r)), Tail(r), F, G)
<1>. DEFINE x == Head(r)
            p == Append(q, x)
            t == Tail(r)
<1>0. /\ Len(r) \in Nat \ {0} /\ x = r[1] /\ x \in S /\ t \in Seq(S)
      /\ Len(t) = Len(r) - 1 /\ \A n \in 1..(Len(r) - 1) : t[n] = r[n + 1]
  BY Taken
<1>. HIDE DEF x, t
<1>1. /\ Len(p) = Len(q) + 1 /\ Len(q) \in Nat /\ p[Len(q) + 1] = x
      /\ \A n \in 1..Len(q) : p[n] = q[n]
      /\ 1..Len(p) = 1..Len(q) \cup {Len(q) + 1}
  BY <1>0, Appended
<1>. HIDE DEF p
\* What is behind the first element of r is in its tail.
<1>2. ASSUME NEW n \in 1..Len(r), 1 < n PROVE n - 1 \in 1..Len(t) /\ t[n - 1] = r[n]
  <2>1. n - 1 \in 1..(Len(r) - 1) /\ (n - 1) + 1 = n
    BY <1>0, <1>2
  <2>. QED
    BY <1>0, <2>1
<1>3. ASSUME NEW m \in 1..Len(p), p[m] \in F
      PROVE  \/ \E n \in 1..Len(p) : m < n /\ p[n] \in G
             \/ \E n \in 1..Len(t) : t[n] \in G
  <2>1. CASE m \in 1..Len(q)
    <3>1. \/ \E n \in 1..Len(q) : m < n /\ q[n] \in G
          \/ \E n \in 1..Len(r) : r[n] \in G
      BY <1>1, <1>3, <2>1 DEF Followed
    <3>2. CASE \E n \in 1..Len(q) : m < n /\ q[n] \in G
      BY <1>1, <3>2
    <3>3. ASSUME NEW n \in 1..Len(r), r[n] \in G
          PROVE  \/ \E k \in 1..Len(p) : m < k /\ p[k] \in G
                 \/ \E k \in 1..Len(t) : t[k] \in G
      <4>1. CASE n = 1
        <5>1. Len(q) + 1 \in 1..Len(p) /\ m < Len(q) + 1 /\ p[Len(q) + 1] \in G
          BY <1>0, <1>1, <2>1, <3>3, <4>1
        <5>. QED
          BY <5>1
      <4>2. CASE 1 < n
        BY <1>2, <3>3, <4>2
      <4>. QED
        BY <4>1, <4>2
    <3>. QED
      BY <3>1, <3>2, <3>3
  <2>2. CASE m = Len(q) + 1
    <3>1. r[1] \in F /\ 1 \in 1..Len(r)
      BY <1>0, <1>1, <1>3, <2>2
    <3>2. PICK n \in 1..Len(r) : 1 < n /\ r[n] \in G
      BY <3>1 DEF Followed
    <3>. QED
      BY <1>2, <3>2
  <2>. QED
    BY <1>1, <2>1, <2>2
<1>4. ASSUME NEW m \in 1..Len(t), t[m] \in F
      PROVE  \E n \in 1..Len(t) : m < n /\ t[n] \in G
  <2>1. m + 1 \in 1..Len(r) /\ r[m + 1] \in F
    BY <1>0, <1>4
  <2>2. PICK n \in 1..Len(r) : m + 1 < n /\ r[n] \in G
    BY <2>1 DEF Followed
  <2>3. 1 < n /\ m < n - 1
    BY <2>2, <1>0
  <2>. QED
    BY <1>2, <2>2, <2>3
<1>5. Followed(p, t, F, G)
  BY <1>3, <1>4 DEF Followed
<1>. QED
  BY <1>5 DEF p, t, x

\* The receiver takes the first of the queue: what follows it stays.
LEMMA FollowedTail ==
    ASSUME NEW S, NEW q \in Seq(S), q # <<>>, NEW r \in Seq(S), NEW F, NEW G,
           Followed(q, r, F, G)
    PROVE  /\ Followed(Tail(q), r, F, G)
           /\ Head(q) \in F => \E x \in Elems(Tail(q)) \cup Elems(r) : x \in G
<1>. DEFINE t == Tail(q)
<1>0. /\ Len(q) \in Nat \ {0} /\ Head(q) = q[1]
      /\ Len(t) = Len(q) - 1 /\ \A n \in 1..(Len(q) - 1) : t[n] = q[n + 1]
  BY Taken
<1>. HIDE DEF t
<1>2. ASSUME NEW n \in 1..Len(q), 1 < n PROVE n - 1 \in 1..Len(t) /\ t[n - 1] = q[n]
  <2>1. n - 1 \in 1..(Len(q) - 1) /\ (n - 1) + 1 = n
    BY <1>0, <1>2
  <2>. QED
    BY <1>0, <2>1
<1>3. ASSUME NEW m \in 1..Len(t), t[m] \in F
      PROVE  \/ \E n \in 1..Len(t) : m < n /\ t[n] \in G
             \/ \E n \in 1..Len(r) : r[n] \in G
  <2>1. m + 1 \in 1..Len(q) /\ q[m + 1] \in F
    BY <1>0, <1>3
  <2>2. \/ \E n \in 1..Len(q) : m + 1 < n /\ q[n] \in G
        \/ \E n \in 1..Len(r) : r[n] \in G
    BY <2>1 DEF Followed
  <2>3. ASSUME NEW n \in 1..Len(q), m + 1 < n, q[n] \in G
        PROVE  \E k \in 1..Len(t) : m < k /\ t[k] \in G
    <3>1. 1 < n /\ m < n - 1
      BY <2>3, <1>0
    <3>. QED
      BY <1>2, <2>3, <3>1
  <2>. QED
    BY <2>2, <2>3
<1>4. Followed(t, r, F, G)
  BY <1>3 DEF Followed
<1>5. ASSUME Head(q) \in F PROVE \E x \in Elems(t) \cup Elems(r) : x \in G
  <2>1. q[1] \in F /\ 1 \in 1..Len(q)
    BY <1>0, <1>5
  <2>2. \/ \E n \in 1..Len(q) : 1 < n /\ q[n] \in G
        \/ \E n \in 1..Len(r) : r[n] \in G
    BY <2>1 DEF Followed
  <2>. QED
    BY <1>2, <2>2 DEF Elems
<1>. QED
  BY <1>4, <1>5 DEF t

\* The sender has something more to send, which needs no follower.
LEMMA FollowedSend ==
    ASSUME NEW S, NEW q \in Seq(S), NEW r \in Seq(S), NEW x \in S, NEW F, NEW G,
           Followed(q, r, F, G), x \notin F
    PROVE  Followed(q, Append(r, x), F, G)
<1>. DEFINE p == Append(r, x)
<1>1. /\ Len(p) = Len(r) + 1 /\ Len(r) \in Nat /\ p[Len(r) + 1] = x
      /\ \A n \in 1..Len(r) : p[n] = r[n]
      /\ 1..Len(p) = 1..Len(r) \cup {Len(r) + 1}
  BY Appended
<1>. HIDE DEF p
<1>2. ASSUME NEW n \in 1..Len(r) PROVE n \in 1..Len(p) /\ p[n] = r[n]
  BY <1>1
<1>3. ASSUME NEW m \in 1..Len(p), p[m] \in F PROVE m \in 1..Len(r) /\ r[m] \in F
  BY <1>1, <1>3
<1>4. Followed(q, p, F, G)
  <2>1. ASSUME NEW m \in 1..Len(q), q[m] \in F
        PROVE  \/ \E n \in 1..Len(q) : m < n /\ q[n] \in G
               \/ \E n \in 1..Len(p) : p[n] \in G
    <3>1. \/ \E n \in 1..Len(q) : m < n /\ q[n] \in G
          \/ \E n \in 1..Len(r) : r[n] \in G
      BY <2>1 DEF Followed
    <3>. QED
      BY <1>2, <3>1
  <2>2. ASSUME NEW m \in 1..Len(p), p[m] \in F
        PROVE  \E n \in 1..Len(p) : m < n /\ p[n] \in G
    <3>1. PICK n \in 1..Len(r) : m < n /\ r[n] \in G
      BY <1>3, <2>2 DEF Followed
    <3>. QED
      BY <1>2, <3>1
  <2>. QED
    BY <2>1, <2>2 DEF Followed
<1>. QED
  BY <1>4 DEF p

\* It is what all were waiting for.
LEMMA FollowedClose ==
    ASSUME NEW S, NEW q \in Seq(S), NEW r \in Seq(S), NEW x \in S, NEW F, NEW G,
           x \in G, x \notin F
    PROVE  Followed(q, Append(r, x), F, G)
<1>. DEFINE p == Append(r, x)
<1>1. /\ Len(p) = Len(r) + 1 /\ Len(r) \in Nat /\ p[Len(r) + 1] = x
      /\ 1..Len(p) = 1..Len(r) \cup {Len(r) + 1}
  BY Appended
<1>. HIDE DEF p
<1>2. Len(p) \in 1..Len(p) /\ p[Len(p)] \in G
  BY <1>1
<1>3. ASSUME NEW m \in 1..Len(p), p[m] \in F PROVE m < Len(p)
  BY <1>1, <1>3
<1>4. Followed(q, p, F, G)
  BY <1>2, <1>3 DEF Followed
<1>. QED
  BY <1>4 DEF p

LEMMA FollowedNone ==
    ASSUME NEW q, NEW r, NEW F, NEW G, \A x \in Elems(q) \cup Elems(r) : x \notin F
    PROVE  Followed(q, r, F, G)
BY DEF Followed, Elems

LEMMA FollowedSubset ==
    ASSUME NEW q, NEW r, NEW F, NEW G, NEW E, Followed(q, r, F, G),
           \A x \in Elems(q) \cup Elems(r) : x \in E => x \in F
    PROVE  Followed(q, r, E, G)
<1>1. /\ \A m \in 1..Len(q) : q[m] \in E => q[m] \in F
      /\ \A m \in 1..Len(r) : r[m] \in E => r[m] \in F
  BY DEF Elems
<1>. QED
  BY <1>1 DEF Followed

-----------------------------------------------------------------------------
(* What the table, the lists on their way and the window know together.    *)

\* What is on its way to the window.
Held == Elems(channel) \cup Elems(outbox)

AnyList == {e \in UiEvent : e.type = "DeviceSnapshot"}
WorkerList == {e \in AnyList : e.worker}
Changes(i) == {e \in UiEvent : e.type = "DeviceBatch" /\ e.batch[i] # None}

\* The row an entry leaves, whatever the row was.
Outcome(e) ==
    IF e.removed THEN None ELSE [target |-> e.target, desc |-> e.desc]

\* Changes the daemon has gone beyond.
Stale(i) == {e \in Changes(i) : Outcome(e.batch[i]) # daemon[i]}

VersionOf(e) == IF e.type = "DeviceBatch" THEN e.version ELSE e.list.version

\* The lists that were read and are not applied.
Lists == {read[o] : o \in {p \in Ops : read[p] # None}}
         \cup {e.list : e \in Held \cap AnyList}

\* What the worker merges is what the daemon has.
PendingInv ==
    /\ (link = "lost" => pending = EmptyWindow)
    /\ link = "up" =>
        \A i \in Ids : pending[i] # None => Outcome(pending[i]) = daemon[i]

\* A row of a list is the daemon's, or will be overridden, or the list will be
\* known to be late.
Covered(list, i) ==
    \/ list.devices[i] = daemon[i]
    \/ pending[i] # None
    \/ list.version < seen
    \/ \E e \in Held : e \in AnyList \cup Changes(i) /\ VersionOf(e) > list.version

Informed(list) ==
    /\ list.version <= version
    /\ (list.version = version => list.devices = daemon)
    /\ link = "up" => \A i \in Ids : Covered(list, i)

ListInv == \A list \in Lists : Informed(list)

\* A change the daemon has gone beyond is followed by a newer one.
BatchInv ==
    link = "up" => \A i \in Ids : pending[i] = None =>
        Followed(channel, outbox, Stale(i), WorkerList \cup Changes(i))

\* A row of the table is the daemon's, or will be overridden.
TableInv ==
    link = "up" /\ ~late => \A i \in Ids :
        \/ table[i] = daemon[i]
        \/ pending[i] # None
        \/ \E e \in Held : e \in AnyList \cup Changes(i)

\* The worker's events tell the state of its connection, and a list follows
\* each reconnection.
LostEvents == {e \in UiEvent : e.type = "ConnectionLost"}
BackEvents == {e \in UiEvent : e.type = "Reconnected"}

LinkInv ==
    /\ Followed(channel, outbox, BackEvents, WorkerList)
    /\ (link = "up" =>
        /\ Followed(channel, outbox, LostEvents, WorkerList)
        /\ connected \/ \E e \in Held : e \in WorkerList)
    /\ (link = "lost" =>
        /\ Followed(channel, outbox, WorkerList, LostEvents)
        /\ ~revived /\ connected => \E e \in Held : e \in LostEvents)

ConvergeInv == PendingInv /\ ListInv /\ BatchInv /\ TableInv /\ LinkInv

\* What an event is.
LEMMA EventKinds ==
    /\ \A list \in List, worker \in BOOLEAN :
        LET e == Snapshot(list, worker)
        IN  /\ e \in AnyList /\ e.list = list /\ VersionOf(e) = list.version
            /\ e \in WorkerList <=> worker
            /\ \A i : e \notin Changes(i)
            /\ e \notin LostEvents \cup BackEvents
    /\ Event("ConnectionLost") \in LostEvents
    /\ Event("ConnectionLost") \notin AnyList \cup BackEvents
    /\ Event("Reconnected") \in BackEvents
    /\ Event("Reconnected") \notin AnyList \cup LostEvents
    /\ \A i : Event("ConnectionLost") \notin Changes(i) /\ Event("Reconnected") \notin Changes(i)
    /\ \A o \in Ops, r \in {"answered", "inconclusive", "cancelled"} :
        LET e == Finished(o, r)
        IN  /\ e \notin AnyList \cup LostEvents \cup BackEvents
            /\ \A i : e \notin Changes(i)
<1>1. ASSUME NEW list \in List, NEW worker \in BOOLEAN
      PROVE  LET e == Snapshot(list, worker)
             IN  /\ e \in AnyList /\ e.list = list /\ VersionOf(e) = list.version
                 /\ e \in WorkerList <=> worker
                 /\ \A i : e \notin Changes(i)
                 /\ e \notin LostEvents \cup BackEvents
  <2>. DEFINE e == Snapshot(list, worker)
  <2>1. /\ e \in UiEvent /\ e.type = "DeviceSnapshot" /\ e.list = list
        /\ e.worker = worker
    BY EventTypes DEF Snapshot
  <2>. HIDE DEF e
  <2>2. /\ e \in AnyList /\ VersionOf(e) = list.version
        /\ e \in WorkerList <=> worker
        /\ \A i : e \notin Changes(i)
        /\ e \notin LostEvents \cup BackEvents
    BY <2>1 DEF AnyList, WorkerList, Changes, LostEvents, BackEvents, VersionOf
  <2>. QED
    BY <2>1, <2>2 DEF e
<1>2. \A t \in {"ConnectionLost", "Reconnected"} :
        Event(t) \in UiEvent /\ Event(t).type = t
  BY EventTypes DEF Event
<1>3. \A o \in Ops, r \in {"answered", "inconclusive", "cancelled"} :
        Finished(o, r).type = "OperationFinished"
  BY DEF Finished
<1>4. ASSUME NEW o \in Ops, NEW r \in {"answered", "inconclusive", "cancelled"}
      PROVE  LET e == Finished(o, r)
             IN  /\ e \notin AnyList \cup LostEvents \cup BackEvents
                 /\ \A i : e \notin Changes(i)
  BY <1>3 DEF AnyList, Changes, LostEvents, BackEvents
<1>5. /\ Event("ConnectionLost") \in LostEvents
      /\ Event("ConnectionLost") \notin AnyList \cup BackEvents
      /\ Event("Reconnected") \in BackEvents
      /\ Event("Reconnected") \notin AnyList \cup LostEvents
      /\ \A i : /\ Event("ConnectionLost") \notin Changes(i)
                /\ Event("Reconnected") \notin Changes(i)
  BY <1>2 DEF AnyList, Changes, LostEvents, BackEvents
<1>. QED
  BY <1>1, <1>4, <1>5

LEMMA BatchKind ==
    ASSUME TypeOK
    PROVE  /\ Batch \in UiEvent /\ VersionOf(Batch) = version
           /\ Batch \notin AnyList \cup LostEvents \cup BackEvents
           /\ \A i \in Ids : Batch \in Changes(i) <=> pending[i] # None
<1>. DEFINE e == Batch
<1>1. /\ e \in UiEvent /\ e.type = "DeviceBatch" /\ e.batch = pending
      /\ e.version = version
  BY SentTypes DEF Batch
<1>. HIDE DEF e
<1>2. /\ VersionOf(e) = version
      /\ e \notin AnyList \cup LostEvents \cup BackEvents
      /\ \A i \in Ids : e \in Changes(i) <=> pending[i] # None
  BY <1>1 DEF VersionOf, AnyList, LostEvents, BackEvents, Changes
<1>. QED
  BY <1>1, <1>2 DEF e

\* What is held has a type, and so have the lists.
LEMMA HeldTypes ==
    ASSUME TypeOK
    PROVE  /\ Held \subseteq UiEvent
           /\ \A e \in AnyList : e.list \in List
           /\ \A list \in Lists : list \in List
<1>1. Held \subseteq UiEvent
  BY ElemsTypes DEF TypeOK, Held
<1>2. \A e \in AnyList : e.list \in List
  BY DEF AnyList, UiEvent
<1>3. \A o \in Ops : read[o] # None => read[o] \in List
  BY DEF TypeOK
<1>. QED
  BY <1>1, <1>2, <1>3 DEF Lists

LEMMA ConvergeInit == Init => ConvergeInv
<1>. SUFFICES ASSUME Init PROVE ConvergeInv
  OBVIOUS
<1>0. TypeOK
  BY TypeInit
<1>. DEFINE first == Snapshot(ListDevices, TRUE)
<1>1. /\ outbox = <<first>> /\ channel = <<>> /\ first \in UiEvent
      /\ first \in WorkerList /\ first \in AnyList
      /\ first \notin LostEvents \cup BackEvents
      /\ \A i : first \notin Changes(i)
      /\ first.list = ListDevices
  BY <1>0, SentTypes, EventTypes, EventKinds DEF Init
<1>. HIDE DEF first
<1>2. Held = {first}
  <2>1. Elems(<<first>>) = {first}
    BY <1>1 DEF Elems
  <2>2. Elems(<< >>) = {}
    BY DEF Elems
  <2>. QED
    BY <1>1, <2>1, <2>2 DEF Held
<1>3. /\ version = 0 /\ link = "up" /\ pending = EmptyWindow
      /\ read = [o \in Ops |-> None]
  BY DEF Init
<1>4. PendingInv
  BY <1>3 DEF PendingInv, EmptyWindow
<1>5. ListInv
  <2>1. \A list \in Lists : list = ListDevices
    BY <1>1, <1>2, <1>3 DEF Lists
  <2>. QED
    BY <2>1, <1>3 DEF ListInv, ListDevices, Informed, Covered
<1>6. \A x \in Elems(channel) \cup Elems(outbox) : x = first
  BY <1>2 DEF Held
<1>7. BatchInv
  <2>. SUFFICES ASSUME NEW i \in Ids
                PROVE  Followed(channel, outbox, Stale(i), WorkerList \cup Changes(i))
    BY DEF BatchInv
  <2>1. \A x \in Elems(channel) \cup Elems(outbox) : x \notin Stale(i)
    BY <1>1, <1>6 DEF Stale
  <2>. QED
    BY <2>1, FollowedNone
<1>8. TableInv
  BY <1>1, <1>2 DEF TableInv
<1>9. LinkInv
  <2>1. \A x \in Elems(channel) \cup Elems(outbox) : x \notin LostEvents \cup BackEvents
    BY <1>1, <1>6
  <2>2. /\ Followed(channel, outbox, BackEvents, WorkerList)
        /\ Followed(channel, outbox, LostEvents, WorkerList)
    BY <2>1, FollowedNone
  <2>. QED
    BY <1>1, <1>2, <1>3, <2>2 DEF LinkInv
<1>. QED
  BY <1>4, <1>5, <1>7, <1>8, <1>9 DEF ConvergeInv

\* A list stays covered while nothing is taken and nothing changes.
LEMMA InformedFrame ==
    ASSUME NEW list, Informed(list), UNCHANGED <<daemon, version, link, pending, seen>>,
           \A e \in Held : e \in Held'
    PROVE  Informed(list)'
<1>1. ASSUME NEW i \in Ids, Covered(list, i) PROVE Covered(list, i)'
  BY <1>1 DEF Covered
<1>. QED
  BY <1>1 DEF Informed

\* The list the daemon would answer now.
LEMMA InformedNow ==
    ASSUME TypeOK PROVE Informed(ListDevices)
BY DEF Informed, Covered, ListDevices, TypeOK

\* Events are moved, or added that say nothing of the worker's connection.
LEMMA ConvergeFrame ==
    ASSUME TypeOK, ConvergeInv, NEW N,
           UNCHANGED <<daemon, version, link, pending, table, connected, seen,
                       late, revived>>,
           \A e \in Held : e \in Held',
           \A list \in Lists' : list \in Lists \/ Informed(list),
           \A e \in N : /\ e \notin WorkerList \cup LostEvents \cup BackEvents
                        /\ \A i : e \notin Changes(i),
           \A F, G : (\A e \in N : e \notin F) /\ Followed(channel, outbox, F, G) =>
                        Followed(channel', outbox', F, G)
    PROVE  ConvergeInv'
<1>1. PendingInv'
  BY DEF ConvergeInv, PendingInv
<1>2. ListInv'
  <2>1. ASSUME NEW list \in Lists' PROVE Informed(list)'
    BY <2>1, InformedFrame DEF ConvergeInv, ListInv
  <2>. QED
    BY <2>1 DEF ListInv
<1>3. BatchInv'
  <2>. SUFFICES ASSUME link = "up", NEW i \in Ids, pending[i] = None
                PROVE  Followed(channel', outbox', Stale(i)', WorkerList \cup Changes(i))
    BY DEF BatchInv
  <2>1. Followed(channel, outbox, Stale(i), WorkerList \cup Changes(i))
    BY DEF ConvergeInv, BatchInv
  <2>2. \A e \in N : e \notin Stale(i)
    BY DEF Stale
  <2>3. Stale(i)' = Stale(i)
    BY DEF Stale
  <2>. QED
    BY <2>1, <2>2, <2>3, Zenon
<1>4. TableInv'
  BY DEF ConvergeInv, TableInv
<1>5. LinkInv'
  <2>1. /\ Followed(channel, outbox, BackEvents, WorkerList) =>
            Followed(channel', outbox', BackEvents, WorkerList)
        /\ Followed(channel, outbox, LostEvents, WorkerList) =>
            Followed(channel', outbox', LostEvents, WorkerList)
        /\ Followed(channel, outbox, WorkerList, LostEvents) =>
            Followed(channel', outbox', WorkerList, LostEvents)
    BY Zenon
  <2>. QED
    BY <2>1 DEF ConvergeInv, LinkInv
<1>. QED
  BY <1>1, <1>2, <1>3, <1>4, <1>5 DEF ConvergeInv

\* Nothing is sent or taken.
LEMMA ConvergeQuiet ==
    ASSUME TypeOK, ConvergeInv,
           UNCHANGED <<daemon, version, link, pending, outbox, channel, table,
                       connected, seen, late, revived>>,
           \A o \in Ops : read'[o] \in {read[o], None, ListDevices}
    PROVE  ConvergeInv'
<1>1. Held' = Held
  BY DEF Held
<1>2. ASSUME NEW list \in Lists' PROVE list \in Lists \/ Informed(list)
  BY <1>1, InformedNow DEF Lists
<1>. QED
  <2>. DEFINE N == {}
  <2>1. /\ \A e \in N : /\ e \notin WorkerList \cup LostEvents \cup BackEvents
                        /\ \A i : e \notin Changes(i)
        /\ \A F, G : (\A e \in N : e \notin F) /\ Followed(channel, outbox, F, G) =>
                        Followed(channel', outbox', F, G)
    OBVIOUS
  <2>. HIDE DEF N
  <2>. QED
    BY <1>1, <1>2, <2>1, ConvergeFrame

\* A task sends a result or a list it has read.
LEMMA ConvergePut ==
    ASSUME TypeOK, ConvergeInv, NEW x \in UiEvent, Put(x),
           x \notin WorkerList \cup LostEvents \cup BackEvents,
           \A i : x \notin Changes(i),
           x \in AnyList => x.list \in Lists,
           UNCHANGED <<daemon, version, link, pending, outbox, table,
                       connected, seen, late, revived>>,
           \A o \in Ops : read'[o] \in {read[o], None}
    PROVE  ConvergeInv'
<1>1. channel \in Seq(UiEvent) /\ outbox \in Seq(UiEvent)
  BY DEF TypeOK
<1>2. channel' = Append(channel, x) /\ Held' = Held \cup {x}
  BY <1>1, ElemsAppend DEF Put, Held
<1>3. ASSUME NEW list \in Lists' PROVE list \in Lists
  BY <1>2 DEF Lists
<1>4. ASSUME NEW F, NEW G, x \notin F, Followed(channel, outbox, F, G)
      PROVE  Followed(channel', outbox', F, G)
  <2>1. Followed(Append(channel, x), outbox, F, G)
    BY <1>1, <1>4, FollowedPut, Zenon
  <2>. QED
    BY <1>2, <2>1
<1>. QED
  <2>. DEFINE N == {x}
  <2>1. /\ \A e \in N : /\ e \notin WorkerList \cup LostEvents \cup BackEvents
                        /\ \A i : e \notin Changes(i)
        /\ \A F, G : (\A e \in N : e \notin F) /\ Followed(channel, outbox, F, G) =>
                        Followed(channel', outbox', F, G)
    BY <1>4, Zenon
  <2>2. \A e \in Held : e \in Held'
    BY <1>2
  <2>. HIDE DEF N
  <2>. QED
    BY <1>3, <2>1, <2>2, ConvergeFrame

\* The worker sends what is first.
LEMMA ConvergeMove == TypeOK /\ ConvergeInv /\ WorkerSends => ConvergeInv'
<1>. SUFFICES ASSUME TypeOK, ConvergeInv, WorkerSends PROVE ConvergeInv'
  OBVIOUS
<1>1. channel \in Seq(UiEvent) /\ outbox \in Seq(UiEvent) /\ outbox # <<>>
  BY DEF TypeOK, WorkerSends
<1>2. /\ channel' = Append(channel, Head(outbox)) /\ outbox' = Tail(outbox)
      /\ Head(outbox) \in UiEvent
  BY <1>1, Taken DEF WorkerSends, Put
<1>3. Held' = Held
  <2>1. Elems(channel') = Elems(channel) \cup {Head(outbox)}
    BY <1>1, <1>2, ElemsAppend
  <2>2. Elems(outbox) = {Head(outbox)} \cup Elems(outbox')
    BY <1>1, <1>2, ElemsTail
  <2>. QED
    BY <2>1, <2>2, Zenon DEF Held
<1>4. ASSUME NEW list \in Lists' PROVE list \in Lists
  BY <1>3 DEF Lists, WorkerSends
<1>5. ASSUME NEW F, NEW G, Followed(channel, outbox, F, G)
      PROVE  Followed(channel', outbox', F, G)
  <2>1. Followed(Append(channel, Head(outbox)), Tail(outbox), F, G)
    BY <1>1, <1>5, FollowedMove, Zenon
  <2>. QED
    BY <1>2, <2>1
<1>6. UNCHANGED <<daemon, version, link, pending, table, connected, seen, late,
                  revived>>
  BY DEF WorkerSends
<1>. QED
  <2>. DEFINE N == {}
  <2>1. /\ \A e \in N : /\ e \notin WorkerList \cup LostEvents \cup BackEvents
                        /\ \A i : e \notin Changes(i)
        /\ \A F, G : (\A e \in N : e \notin F) /\ Followed(channel, outbox, F, G) =>
                        Followed(channel', outbox', F, G)
    BY <1>5, Zenon
  <2>. HIDE DEF N
  <2>. QED
    BY <1>3, <1>4, <1>6, <2>1, ConvergeFrame

\* Where a signal is merged there is an entry, and the others stay.
LEMMA PushAt ==
    ASSUME NEW w \in Window, NEW s \in DeviceSignal
    PROVE  /\ Push(w, s)[s.id] # None
           /\ \A j \in Ids : j # s.id => Push(w, s)[j] = w[j]
<1>1. Push(w, s)[s.id] # None
  BY PushEntry, CoalescerAssumption
<1>2. \A j \in Ids : j # s.id => Push(w, s)[j] = w[j]
  BY DEF Push, Window
<1>. QED
  BY <1>1, <1>2

\* What a window's entry leaves after one more signal: the signal's row, or none.
LEMMA PushOutcome ==
    ASSUME NEW w \in Window, NEW s \in DeviceSignal
    PROVE  /\ s.kind = "Policy" =>
                Outcome(Push(w, s)[s.id]) = [target |-> s.target, desc |-> s.desc]
           /\ s.kind = "Presence" /\ s.event = "Remove" =>
                Outcome(Push(w, s)[s.id]) = None
           /\ s.kind = "Presence" /\ s.event = "Insert"
              /\ (w[s.id] # None => Outcome(w[s.id]) = None) =>
                Outcome(Push(w, s)[s.id]) = [target |-> s.target, desc |-> s.desc]
<1>. DEFINE e == w[s.id]
<1>0. s.id \in Ids /\ e \in Entry \cup {None}
  BY DEF DeviceSignal, Window
<1>1. Push(w, s)[s.id] = CASE s.kind = "Policy" -> MergePolicy(e, s)
          [] s.kind = "Presence" /\ s.event = "Remove" -> MergeRemove(e)
          [] OTHER -> MergePresence(e, s)
  BY <1>0 DEF Push, Window
<1>2. /\ ~LiveEntry(e).removed
      /\ e = None \/ e.removed => ~LiveEntry(e).policy_decided
      /\ LiveEntry(e) \in [removed: BOOLEAN, observed_insert: BOOLEAN,
            observed_remove: BOOLEAN, target: Targets \cup {None},
            desc: Descriptions \cup {None}, policy_decided: BOOLEAN]
  BY <1>0 DEF LiveEntry, Fresh, Entry
<1>3. ASSUME s.kind = "Policy"
      PROVE  Outcome(Push(w, s)[s.id]) = [target |-> s.target, desc |-> s.desc]
  <2>1. /\ ~MergePolicy(e, s).removed /\ MergePolicy(e, s).target = s.target
        /\ MergePolicy(e, s).desc = s.desc
    BY <1>2 DEF MergePolicy
  <2>. QED
    BY <1>1, <1>3, <2>1 DEF Outcome
<1>4. ASSUME s.kind = "Presence", s.event = "Remove"
      PROVE  Outcome(Push(w, s)[s.id]) = None
  <2>1. MergeRemove(e).removed
    BY DEF MergeRemove, Fresh
  <2>. QED
    BY <1>1, <1>4, <2>1 DEF Outcome
<1>5. ASSUME s.kind = "Presence", s.event = "Insert", e # None => Outcome(e) = None
      PROVE  Outcome(Push(w, s)[s.id]) = [target |-> s.target, desc |-> s.desc]
  <2>1. e = None \/ e.removed
    <3>1. CASE e # None /\ ~e.removed
      <4>1. [target |-> e.target, desc |-> e.desc] = None
        BY <1>5, <3>1 DEF Outcome
      <4>2. e.target \in Targets /\ e.desc \in Descriptions
        BY <1>0, <3>1 DEF Entry
      <4>. QED
        BY <4>1, <4>2, DeviceOperationsAssumption DEF Row
    <3>. QED
      BY <3>1
  <2>2. ~LiveEntry(e).policy_decided
    BY <1>2, <2>1
  <2>3. /\ ~MergePresence(e, s).removed /\ MergePresence(e, s).target = s.target
        /\ MergePresence(e, s).desc = s.desc
    BY <1>2, <2>2 DEF MergePresence
  <2>. QED
    BY <1>1, <1>5, <2>3 DEF Outcome
<1>. QED
  BY <1>3, <1>4, <1>5

\* One device changes, and the worker merges the signal of it.
LEMMA ConvergeChange ==
    ASSUME TypeOK, ConvergeInv, NEW i \in Ids, NEW s \in DeviceSignal, s.id = i,
           Signalled(s),
           \A j \in Ids : j # i => daemon'[j] = daemon[j],
           link = "up" => Outcome(pending'[i]) = daemon'[i],
           UNCHANGED <<link, read, outbox, channel, table, connected, seen, late,
                       revived>>
    PROVE  ConvergeInv'
<1>0. Held' = Held /\ Lists' = Lists
  BY DEF Held, Lists
<1>1. /\ version \in Nat /\ version' = version + 1
      /\ link = "up" => /\ pending'[i] # None
                        /\ \A j \in Ids : j # i => pending'[j] = pending[j]
      /\ link = "lost" => pending' = pending
  BY PushAt DEF Signalled, TypeOK
<1>2. PendingInv'
  BY <1>1 DEF ConvergeInv, PendingInv
<1>3. ListInv'
  <2>. SUFFICES ASSUME NEW list \in Lists PROVE Informed(list)'
    BY <1>0 DEF ListInv
  <2>1. Informed(list) /\ list.version \in Nat
    BY HeldTypes DEF ConvergeInv, ListInv, List
  <2>2. list.version <= version' /\ list.version # version'
    BY <1>1, <2>1 DEF Informed
  <2>3. ASSUME NEW j \in Ids, link = "up" PROVE Covered(list, j)'
    <3>1. CASE j = i
      BY <1>1, <2>3, <3>1 DEF Covered
    <3>2. CASE j # i
      BY <1>0, <1>1, <2>1, <2>3, <3>2 DEF Informed, Covered
    <3>. QED
      BY <3>1, <3>2
  <2>. QED
    BY <2>2, <2>3 DEF Informed
<1>4. BatchInv'
  <2>. SUFFICES ASSUME link = "up", NEW j \in Ids, pending'[j] = None
                PROVE  Followed(channel, outbox, Stale(j)', WorkerList \cup Changes(j))
    BY DEF BatchInv
  <2>1. j # i /\ pending[j] = None
    BY <1>1
  <2>2. Stale(j)' = Stale(j)
    BY <2>1 DEF Stale
  <2>. QED
    BY <2>1, <2>2 DEF ConvergeInv, BatchInv
<1>5. TableInv'
  <2>. SUFFICES ASSUME link = "up", ~late, NEW j \in Ids
                PROVE  \/ table[j] = daemon'[j]
                       \/ pending'[j] # None
                       \/ \E e \in Held : e \in AnyList \cup Changes(j)
    BY <1>0 DEF TableInv
  <2>1. CASE j = i
    BY <1>1, <2>1
  <2>2. CASE j # i
    BY <1>1, <2>2 DEF ConvergeInv, TableInv
  <2>. QED
    BY <2>1, <2>2
<1>6. LinkInv'
  BY <1>0 DEF ConvergeInv, LinkInv
<1>. QED
  BY <1>2, <1>3, <1>4, <1>5, <1>6 DEF ConvergeInv

\* The daemon.
LEMMA ConvergeDaemon ==
    ASSUME TypeOK, ConvergeInv,
           \/ \E i \in Ids, row \in [target: Targets, desc: Descriptions] : Plug(i, row)
           \/ \E i \in Ids : Unplug(i)
           \/ \E i \in Ids, t \in Targets : Decide(i, t)
           \/ \E o \in Ops : DaemonActs(o) \/ DaemonRefuses(o)
    PROVE  ConvergeInv'
<1>0. pending \in Window /\ daemon \in Table
  BY DEF TypeOK
<1>1. ASSUME NEW i \in Ids, NEW row \in [target: Targets, desc: Descriptions],
             Plug(i, row)
      PROVE  ConvergeInv'
  <2>. DEFINE s == Inserted(i, row)
  <2>1. /\ s \in DeviceSignal /\ s.id = i /\ s.kind = "Presence"
        /\ s.event = "Insert" /\ [target |-> s.target, desc |-> s.desc] = row
    BY DEF Inserted, DeviceSignal, PresenceEvents
  <2>2. /\ Signalled(s) /\ daemon' = [daemon EXCEPT ![i] = row] /\ daemon[i] = None
        /\ UNCHANGED <<link, read, outbox, channel, table, connected, seen, late,
                       revived>>
    BY <1>1 DEF Plug, DaemonChanges
  <2>. HIDE DEF s
  <2>3. link = "up" /\ pending[i] # None => Outcome(pending[i]) = None
    BY <2>2 DEF ConvergeInv, PendingInv
  <2>4. link = "up" => Outcome(pending'[i]) = row
    BY <1>0, <2>1, <2>2, <2>3, PushOutcome DEF Signalled
  <2>5. daemon'[i] = row /\ \A j \in Ids : j # i => daemon'[j] = daemon[j]
    BY <1>0, <2>2 DEF Table
  <2>. QED
    BY <2>1, <2>2, <2>4, <2>5, ConvergeChange
\* A removal, asked for or not.
<1>2. ASSUME NEW i \in Ids, daemon[i] # None, daemon' = [daemon EXCEPT ![i] = None],
             Signalled(Removed(i)),
             UNCHANGED <<link, read, outbox, channel, table, connected, seen, late,
                         revived>>
      PROVE  ConvergeInv'
  <2>. DEFINE s == Removed(i)
  <2>1. /\ s \in DeviceSignal /\ s.id = i /\ s.kind = "Presence"
        /\ s.event = "Remove"
    BY <1>0, <1>2 DEF Removed, DeviceSignal, PresenceEvents, Table, Row
  <2>2. PICK signal : signal = s
    OBVIOUS
  <2>3. Signalled(signal) /\ signal \in DeviceSignal
    BY <1>2, <2>1, <2>2
  <2>. HIDE DEF s
  <2>4. link = "up" => Outcome(pending'[i]) = None
    BY <1>0, <2>1, <2>2, <2>3, PushOutcome DEF Signalled
  <2>5. daemon'[i] = None /\ \A j \in Ids : j # i => daemon'[j] = daemon[j]
    BY <1>0, <1>2 DEF Table
  <2>. QED
    BY <1>2, <2>1, <2>2, <2>3, <2>4, <2>5, ConvergeChange
\* A decision, asked for or not.
<1>3. ASSUME NEW i \in Ids, NEW t \in Targets, daemon[i] # None,
             daemon' = [daemon EXCEPT ![i].target = t], Signalled(Decided(i, t)),
             UNCHANGED <<link, read, outbox, channel, table, connected, seen, late,
                         revived>>
      PROVE  ConvergeInv'
  <2>. DEFINE s == Decided(i, t)
  <2>0. daemon[i] \in Row
    BY <1>0, <1>3 DEF Table
  <2>1. /\ s \in DeviceSignal /\ s.id = i /\ s.kind = "Policy"
        /\ s.target = t /\ s.desc = daemon[i].desc
    BY <2>0, <1>3 DEF Decided, DeviceSignal, Row
  <2>2. PICK signal : signal = s
    OBVIOUS
  <2>3. Signalled(signal) /\ signal \in DeviceSignal
    BY <1>3, <2>1, <2>2
  <2>. HIDE DEF s
  <2>4. link = "up" => Outcome(pending'[i]) = [target |-> t, desc |-> daemon[i].desc]
    BY <1>0, <2>1, <2>2, <2>3, PushOutcome DEF Signalled
  <2>5. /\ daemon'[i] = [target |-> t, desc |-> daemon[i].desc]
        /\ \A j \in Ids : j # i => daemon'[j] = daemon[j]
    BY <1>0, <1>3, <2>0 DEF Table, Row
  <2>. QED
    BY <1>3, <2>1, <2>2, <2>3, <2>4, <2>5, ConvergeChange
<1>4. ASSUME NEW i \in Ids, Unplug(i) PROVE ConvergeInv'
  BY <1>4, <1>2 DEF Unplug, DaemonChanges
<1>5. ASSUME NEW i \in Ids, NEW t \in Targets, Decide(i, t) PROVE ConvergeInv'
  BY <1>5, <1>3 DEF Decide, DaemonChanges
<1>6. ASSUME NEW o \in Ops, DaemonActs(o) PROVE ConvergeInv'
  <2>. DEFINE i == request[o].id
              policy == request[o].policy
  <2>1. /\ i \in Ids /\ policy \in Policies /\ daemon[i] # None
        /\ policy # "reject" => policy \in Targets
    BY <1>6, DeviceOperationsAssumption DEF DaemonActs, TypeOK, Call
  <2>2. UNCHANGED <<link, read, outbox, channel, table, connected, seen, late,
                    revived>>
    BY <1>6 DEF DaemonActs
  <2>3. CASE policy = "reject"
    <3>1. daemon' = [daemon EXCEPT ![i] = None] /\ Signalled(Removed(i))
      BY <1>6, <2>3 DEF DaemonActs
    <3>. QED
      BY <1>2, <2>1, <2>2, <3>1
  <2>4. CASE policy # "reject"
    <3>1. /\ daemon' = [daemon EXCEPT ![i].target = policy]
          /\ Signalled(Decided(i, policy))
      BY <1>6, <2>4 DEF DaemonActs
    <3>. QED
      BY <1>3, <2>1, <2>2, <2>4, <3>1
  <2>. QED
    BY <2>3, <2>4
<1>7. ASSUME NEW o \in Ops, DaemonRefuses(o) PROVE ConvergeInv'
  BY <1>7, ConvergeQuiet DEF DaemonRefuses
<1>. QED
  BY <1>1, <1>4, <1>5, <1>6, <1>7

\* The window is flushed: what was pending is now the newest of the events.
LEMMA ConvergeFlush == TypeOK /\ ConvergeInv /\ Flush => ConvergeInv'
<1>. SUFFICES ASSUME TypeOK, ConvergeInv, Flush PROVE ConvergeInv'
  OBVIOUS
<1>0. PICK x : x = Batch
  OBVIOUS
<1>1. /\ x \in UiEvent /\ VersionOf(x) = version
      /\ x \notin AnyList \cup LostEvents \cup BackEvents
      /\ \A i \in Ids : x \in Changes(i) <=> pending[i] # None
      /\ x.batch = pending
  BY <1>0, BatchKind DEF Batch
<1>2. /\ link = "up" /\ outbox = <<>> /\ outbox' = <<x>>
      /\ pending' = EmptyWindow /\ channel \in Seq(UiEvent)
      /\ outbox \in Seq(UiEvent)
      /\ UNCHANGED <<daemon, version, link, channel, read, table, connected,
                     seen, late, revived>>
  BY <1>0 DEF Flush, TypeOK
<1>3. outbox' = Append(outbox, x)
  BY <1>1, <1>2
<1>4. Held' = Held \cup {x}
  <2>0. outbox \in Seq(UiEvent) /\ x \in UiEvent
    BY <1>1, <1>2
  <2>1. Elems(Append(outbox, x)) = Elems(outbox) \cup {x}
    BY <2>0, ElemsAppend
  <2>. QED
    BY <1>2, <1>3, <2>1 DEF Held
<1>5. Lists' = Lists
  BY <1>1, <1>2, <1>4 DEF Lists
<1>6. ASSUME NEW F, NEW G, x \notin F, Followed(channel, outbox, F, G)
      PROVE  Followed(channel', outbox', F, G)
  <2>1. Followed(channel, Append(outbox, x), F, G)
    BY <1>1, <1>2, <1>6, FollowedSend, Zenon
  <2>. QED
    BY <1>2, <1>3, <2>1
<1>7. PendingInv'
  BY <1>2 DEF PendingInv, EmptyWindow
<1>8. ListInv'
  <2>. SUFFICES ASSUME NEW list \in Lists PROVE Informed(list)'
    BY <1>5 DEF ListInv
  <2>1. Informed(list) /\ list.version \in Nat /\ version \in Nat
    BY HeldTypes DEF ConvergeInv, ListInv, List, TypeOK
  <2>2. ASSUME NEW i \in Ids PROVE Covered(list, i)'
    <3>1. CASE list.version = version
      BY <1>2, <2>1, <3>1 DEF Informed, Covered
    <3>2. CASE list.version # version /\ pending[i] # None
      <4>1. list.version < version
        BY <2>1, <3>2 DEF Informed
      <4>. QED
        BY <1>1, <1>4, <3>2, <4>1 DEF Covered
    <3>3. CASE pending[i] = None
      BY <1>2, <1>4, <2>1, <3>3 DEF Informed, Covered
    <3>. QED
      BY <3>1, <3>2, <3>3
  <2>. QED
    BY <1>2, <2>1, <2>2 DEF Informed
<1>9. BatchInv'
  <2>. SUFFICES ASSUME NEW i \in Ids
                PROVE  Followed(channel', outbox', Stale(i), WorkerList \cup Changes(i))
    BY <1>2 DEF BatchInv, Stale
  <2>1. x \notin Stale(i)
    BY <1>1, <1>2 DEF Stale, ConvergeInv, PendingInv
  <2>2. CASE pending[i] = None
    <3>1. Followed(channel, outbox, Stale(i), WorkerList \cup Changes(i))
      BY <1>2, <2>2 DEF ConvergeInv, BatchInv
    <3>. QED
      BY <1>6, <2>1, <3>1, Zenon
  <2>3. CASE pending[i] # None
    <3>1. x \in WorkerList \cup Changes(i)
      BY <1>1, <2>3
    <3>2. Followed(channel, Append(outbox, x), Stale(i), WorkerList \cup Changes(i))
      BY <1>1, <1>2, <2>1, <3>1, FollowedClose, Zenon
    <3>. QED
      BY <1>2, <1>3, <3>2
  <2>. QED
    BY <2>2, <2>3
<1>10. TableInv'
  BY <1>1, <1>2, <1>4 DEF ConvergeInv, TableInv
<1>11. LinkInv'
  <2>1. /\ Followed(channel', outbox', BackEvents, WorkerList)
        /\ Followed(channel', outbox', LostEvents, WorkerList)
    BY <1>1, <1>2, <1>6 DEF ConvergeInv, LinkInv
  <2>. QED
    BY <1>2, <1>4, <2>1 DEF ConvergeInv, LinkInv
<1>. QED
  BY <1>7, <1>8, <1>9, <1>10, <1>11 DEF ConvergeInv

\* The connection is lost: the window may be, too, but a list will follow.
LEMMA ConvergeLost == TypeOK /\ ConvergeInv /\ LinkLost => ConvergeInv'
<1>. SUFFICES ASSUME TypeOK, ConvergeInv, LinkLost PROVE ConvergeInv'
  OBVIOUS
<1>0. PICK x, lost : x = Batch /\ lost = Event("ConnectionLost")
  OBVIOUS
<1>1. /\ x \in UiEvent /\ x \notin AnyList \cup LostEvents \cup BackEvents
      /\ lost \in UiEvent /\ lost \in LostEvents /\ lost \notin AnyList \cup BackEvents
  BY <1>0, BatchKind, EventKinds, EventTypes
<1>2. /\ link = "up" /\ link' = "lost" /\ pending' = EmptyWindow
      /\ outbox' = Append(outbox, lost) \/ outbox' = outbox \o <<x, lost>>
      /\ channel \in Seq(UiEvent) /\ outbox \in Seq(UiEvent)
      /\ UNCHANGED <<daemon, version, channel, read, table, connected,
                     seen, late, revived>>
  BY <1>0 DEF LinkLost, TypeOK
<1>3. PICK front \in Seq(UiEvent) :
        /\ outbox' = Append(front, lost)
        /\ front = outbox \/ front = Append(outbox, x)
  <2>1. CASE outbox' = Append(outbox, lost)
    BY <1>2, <2>1
  <2>2. CASE outbox' = outbox \o <<x, lost>>
    <3>. DEFINE p == Append(outbox, x)
    <3>1. outbox' = Append(p, lost)
      BY <1>1, <1>2, <2>2, AppendTwo
    <3>2. p \in Seq(UiEvent)
      BY <1>1, <1>2
    <3>. HIDE DEF p
    <3>3. p = Append(outbox, x)
      BY DEF p
    <3>. QED
      BY <3>1, <3>2, <3>3
  <2>. QED
    BY <1>2, <2>1, <2>2
<1>4. /\ Held \subseteq Held' /\ lost \in Held'
      /\ Held' \subseteq Held \cup {x, lost}
  <2>1. Elems(outbox') = Elems(front) \cup {lost}
    BY <1>1, <1>3, ElemsAppend
  <2>2. Elems(front) = Elems(outbox) \/ Elems(front) = Elems(outbox) \cup {x}
    BY ZenonT(60), <1>1, <1>2, <1>3, ElemsAppend
  <2>. QED
    BY <1>2, <2>1, <2>2 DEF Held
<1>5. Lists' = Lists
  BY <1>1, <1>2, <1>4 DEF Lists
<1>6. PendingInv' /\ BatchInv' /\ TableInv'
  BY <1>2 DEF PendingInv, BatchInv, TableInv
<1>7. ListInv'
  BY <1>2, <1>5 DEF ConvergeInv, ListInv, Informed
<1>8. LinkInv'
  <2>1. Followed(channel, front, BackEvents, WorkerList)
    <3>1. Followed(channel, outbox, BackEvents, WorkerList)
      BY DEF ConvergeInv, LinkInv
    <3>2. Followed(channel, Append(outbox, x), BackEvents, WorkerList)
      BY <1>1, <1>2, <3>1, FollowedSend
    <3>. QED
      BY <1>3, <3>1, <3>2
  <2>2. Followed(channel, outbox', BackEvents, WorkerList)
    <3>1. Followed(channel, Append(front, lost), BackEvents, WorkerList)
      BY <1>1, <1>2, <1>3, <2>1, FollowedSend
    <3>. QED
      BY <1>3, <3>1
  <2>3. lost \notin WorkerList
    BY <1>1 DEF WorkerList
  <2>4. Followed(channel, outbox', WorkerList, LostEvents)
    <3>1. Followed(channel, Append(front, lost), WorkerList, LostEvents)
      BY <1>1, <1>2, <1>3, <2>3, FollowedClose
    <3>. QED
      BY <1>3, <3>1
  <2>. QED
    BY <1>1, <1>2, <1>4, <2>2, <2>4 DEF LinkInv
<1>. QED
  BY <1>6, <1>7, <1>8 DEF ConvergeInv

\* The worker is connected again, and has read the devices.
LEMMA ConvergeBack == TypeOK /\ ConvergeInv /\ LinkBack => ConvergeInv'
<1>. SUFFICES ASSUME TypeOK, ConvergeInv, LinkBack PROVE ConvergeInv'
  OBVIOUS
<1>0. PICK now, back, x :
        /\ now = ListDevices /\ back = Event("Reconnected")
        /\ x = Snapshot(ListDevices, TRUE)
  OBVIOUS
<1>1. /\ x \in UiEvent /\ x \in WorkerList /\ x \in AnyList
      /\ x \notin LostEvents \cup BackEvents
      /\ \A i : x \notin Changes(i)
      /\ x.list = now /\ VersionOf(x) = version
      /\ now.version = version /\ now.devices = daemon
  <2>1. now \in List /\ now.version = version /\ now.devices = daemon
    BY <1>0, SentTypes DEF ListDevices
  <2>2. x = Snapshot(now, TRUE)
    BY <1>0
  <2>. QED
    BY <2>1, <2>2, EventKinds, EventTypes
<1>2. /\ back \in UiEvent /\ back \in BackEvents
      /\ back \notin AnyList \cup LostEvents
      /\ \A i : back \notin Changes(i)
  BY <1>0, EventKinds, EventTypes
<1>3. /\ link = "lost" /\ link' = "up" /\ outbox' = outbox \o <<back, x>>
      /\ channel \in Seq(UiEvent) /\ outbox \in Seq(UiEvent)
      /\ UNCHANGED <<daemon, version, pending, channel, read, table, connected,
                     seen, late, revived>>
  BY <1>0 DEF LinkBack, TypeOK
<1>4. PICK front \in Seq(UiEvent) :
        front = Append(outbox, back) /\ outbox' = Append(front, x)
  <2>. DEFINE p == Append(outbox, back)
  <2>1. outbox' = Append(p, x) /\ p \in Seq(UiEvent)
    BY <1>1, <1>2, <1>3, AppendTwo
  <2>. HIDE DEF p
  <2>2. p = Append(outbox, back)
    BY DEF p
  <2>. QED
    BY <2>1, <2>2
<1>5. Held' = Held \cup {back, x}
  <2>1. Elems(front) = Elems(outbox) \cup {back}
    BY <1>2, <1>3, <1>4, ElemsAppend
  <2>0. front \in Seq(UiEvent) /\ x \in UiEvent
    BY <1>1
  <2>2. Elems(Append(front, x)) = Elems(front) \cup {x}
    BY <2>0, ElemsAppend
  <2>. QED
    BY <1>3, <1>4, <2>1, <2>2 DEF Held
<1>6. ASSUME NEW list \in Lists' PROVE list \in Lists \/ list = now
  BY <1>1, <1>2, <1>3, <1>5 DEF Lists
<1>7. pending = EmptyWindow
  BY <1>3 DEF ConvergeInv, PendingInv
<1>8. PendingInv'
  BY <1>3, <1>7 DEF PendingInv, EmptyWindow
<1>9. ListInv'
  <2>. SUFFICES ASSUME NEW list \in Lists' PROVE Informed(list)'
    BY DEF ListInv
  <2>1. CASE list = now
    BY <1>1, <1>3, <2>1 DEF Informed, Covered, TypeOK
  <2>2. CASE list \in Lists
    <3>1. Informed(list) /\ list.version \in Nat /\ version \in Nat
      BY <2>2, HeldTypes DEF ConvergeInv, ListInv, List, TypeOK
    <3>2. ASSUME NEW i \in Ids PROVE Covered(list, i)'
      <4>1. CASE list.version = version
        BY <1>3, <3>1, <4>1 DEF Informed, Covered
      <4>2. CASE list.version # version
        <5>1. list.version < version
          BY <3>1, <4>2 DEF Informed
        <5>. QED
          BY <1>1, <1>5, <5>1 DEF Covered
      <4>. QED
        BY <4>1, <4>2
    <3>. QED
      BY <1>3, <3>1, <3>2 DEF Informed
  <2>. QED
    BY <1>6, <2>1, <2>2
<1>10. ASSUME NEW F, x \notin F PROVE Followed(channel', outbox', F, WorkerList)
  <2>1. Followed(channel, Append(front, x), F, WorkerList)
    BY <1>1, <1>3, <1>4, <1>10, FollowedClose
  <2>. QED
    BY <1>3, <1>4, <2>1
<1>11. BatchInv'
  <2>. SUFFICES ASSUME NEW i \in Ids
                PROVE  Followed(channel', outbox', Stale(i), WorkerList \cup Changes(i))
    BY <1>3 DEF BatchInv, Stale
  <2>1. x \notin Stale(i) /\ x \in WorkerList \cup Changes(i)
    BY <1>1 DEF Stale
  <2>2. Followed(channel, Append(front, x), Stale(i), WorkerList \cup Changes(i))
    BY <1>1, <1>3, <1>4, <2>1, FollowedClose, Zenon
  <2>. QED
    BY <1>3, <1>4, <2>2
<1>12. TableInv'
  BY <1>1, <1>5 DEF TableInv
<1>13. LinkInv'
  <2>1. /\ Followed(channel', outbox', BackEvents, WorkerList)
        /\ Followed(channel', outbox', LostEvents, WorkerList)
    BY <1>1, <1>10
  <2>. QED
    BY <1>1, <1>3, <1>5, <2>1 DEF LinkInv
<1>. QED
  BY <1>8, <1>9, <1>11, <1>12, <1>13 DEF ConvergeInv

\* What an entry leaves does not depend on the row it changes.
LEMMA DeltaOutcome ==
    ASSUME NEW row, NEW e \in Entry
    PROVE  ApplyDelta(row, e) = Outcome(e)
<1>1. e # None /\ (~e.removed => e.target # None /\ e.desc # None)
  BY CoalescerAssumption DEF Entry
<1>. QED
  BY <1>1 DEF ApplyDelta, Outcome

\* The window takes an event: what the queues know of the others stays true.
LEMMA ConvergeTaken ==
    ASSUME TypeOK, ConvergeInv, channel # <<>>, channel' = Tail(channel),
           NEW x \in UiEvent, x = Head(channel),
           UNCHANGED <<daemon, version, link, pending, outbox, read>>,
           seen' \in Nat, seen <= seen',
           \A i \in Ids : x \in AnyList \cup Changes(i) => VersionOf(x) <= seen'
    PROVE  /\ PendingInv' /\ ListInv' /\ BatchInv'
           /\ Held = {x} \cup Held' /\ Lists' \subseteq Lists
           /\ link = "up" =>
                /\ \A i \in Ids : pending[i] = None /\ x \in Stale(i) =>
                        \E e \in Held' : e \in WorkerList \cup Changes(i)
                /\ Followed(channel', outbox', LostEvents, WorkerList)
                /\ x \in LostEvents => \E e \in Held' : e \in WorkerList
           /\ link = "lost" =>
                /\ Followed(channel', outbox', WorkerList, LostEvents)
                /\ x \in WorkerList => \E e \in Held' : e \in LostEvents
           /\ Followed(channel', outbox', BackEvents, WorkerList)
           /\ x \in BackEvents => \E e \in Held' : e \in WorkerList
<1>0. channel \in Seq(UiEvent) /\ outbox \in Seq(UiEvent) /\ seen \in Nat
  BY DEF TypeOK
<1>1. Held = {x} \cup Held'
  <2>1. Elems(channel) = {x} \cup Elems(channel')
    BY <1>0, ElemsTail
  <2>. QED
    BY <2>1 DEF Held
<1>2. Lists' \subseteq Lists
  BY <1>1 DEF Lists
<1>3. ASSUME NEW F, NEW G, Followed(channel, outbox, F, G)
      PROVE  /\ Followed(channel', outbox', F, G)
             /\ x \in F => \E e \in Held' : e \in G
  <2>1. /\ Followed(Tail(channel), outbox, F, G)
        /\ Head(channel) \in F =>
                \E e \in Elems(Tail(channel)) \cup Elems(outbox) : e \in G
    BY <1>0, <1>3, FollowedTail, Zenon
  <2>. QED
    BY <2>1 DEF Held
<1>4. PendingInv'
  BY DEF ConvergeInv, PendingInv
<1>5. ListInv'
  <2>. SUFFICES ASSUME NEW list \in Lists PROVE Informed(list)'
    BY <1>2 DEF ListInv
  <2>1. Informed(list) /\ list.version \in Nat
    BY HeldTypes DEF ConvergeInv, ListInv, List
  <2>2. ASSUME link = "up", NEW i \in Ids PROVE Covered(list, i)'
    <3>1. Covered(list, i)
      BY <2>1, <2>2 DEF Informed
    <3>2. CASE list.version < seen
      BY <1>0, <2>1, <3>2 DEF Covered
    <3>3. ASSUME NEW e \in Held, e \in AnyList \cup Changes(i),
                 VersionOf(e) > list.version
          PROVE  Covered(list, i)'
      <4>1. CASE e = x
        <5>1. VersionOf(x) \in Nat
          BY <3>3, <4>1, HeldTypes DEF VersionOf, Changes, AnyList, UiEvent, List
        <5>2. list.version < seen'
          BY <2>1, <3>3, <4>1, <5>1
        <5>. QED
          BY <5>2 DEF Covered
      <4>2. CASE e # x
        BY <1>1, <3>3, <4>2 DEF Covered
      <4>. QED
        BY <4>1, <4>2
    <3>. QED
      BY <3>1, <3>2, <3>3 DEF Covered
  <2>. QED
    BY <2>1, <2>2 DEF Informed
<1>6. ASSUME link = "up", NEW i \in Ids, pending[i] = None
      PROVE  /\ Followed(channel', outbox', Stale(i), WorkerList \cup Changes(i))
             /\ x \in Stale(i) => \E e \in Held' : e \in WorkerList \cup Changes(i)
  <2>1. Followed(channel, outbox, Stale(i), WorkerList \cup Changes(i))
    BY <1>6 DEF ConvergeInv, BatchInv
  <2>. QED
    BY <1>3, <2>1, Zenon
<1>7. BatchInv'
  BY <1>6 DEF BatchInv, Stale
<1>8. /\ Followed(channel, outbox, BackEvents, WorkerList)
      /\ link = "up" => Followed(channel, outbox, LostEvents, WorkerList)
      /\ link = "lost" => Followed(channel, outbox, WorkerList, LostEvents)
  BY DEF ConvergeInv, LinkInv
<1>9. /\ Followed(channel', outbox', BackEvents, WorkerList)
      /\ x \in BackEvents => \E e \in Held' : e \in WorkerList
  BY <1>3, <1>8, Zenon
<1>10. ASSUME link = "up"
       PROVE  /\ Followed(channel', outbox', LostEvents, WorkerList)
              /\ x \in LostEvents => \E e \in Held' : e \in WorkerList
  BY <1>3, <1>8, <1>10, Zenon
<1>11. ASSUME link = "lost"
       PROVE  /\ Followed(channel', outbox', WorkerList, LostEvents)
              /\ x \in WorkerList => \E e \in Held' : e \in LostEvents
  BY <1>3, <1>8, <1>11, Zenon
<1>. QED
  BY <1>1, <1>2, <1>4, <1>5, <1>6, <1>7, <1>9, <1>10, <1>11

LEMMA ConvergeApply == TypeOK /\ ConvergeInv /\ Apply => ConvergeInv'
<1>. SUFFICES ASSUME TypeOK, ConvergeInv, Apply PROVE ConvergeInv'
  OBVIOUS
<1>0. PICK x : x = Head(channel)
  OBVIOUS
<1>1. /\ channel # <<>> /\ channel' = Tail(channel) /\ x \in UiEvent
      /\ UNCHANGED <<daemon, version, link, pending, outbox, read>>
      /\ seen \in Nat /\ connected \in BOOLEAN /\ revived \in BOOLEAN
      /\ late \in BOOLEAN
      /\ link \in {"up", "lost"}
  BY <1>0, Taken DEF Apply, TypeOK
<1>2. x \in Held
  <2>1. Elems(channel) = {x} \cup Elems(Tail(channel))
    BY <1>0, <1>1, ElemsTail DEF TypeOK
  <2>. QED
    BY <2>1 DEF Held
\* A list.
<1>3. CASE x.type = "DeviceSnapshot" /\ ApplySnapshot(x.list, x.worker)
  <2>. DEFINE list == x.list
  <2>1. /\ x \in AnyList /\ VersionOf(x) = list.version /\ list \in List
        /\ list \in Lists /\ list.version \in Nat
        /\ x.worker \in BOOLEAN /\ x \in WorkerList <=> x.worker
        /\ x \notin LostEvents \cup BackEvents
        /\ \A i : x \notin Changes(i)
    <3>1. x \in AnyList
      BY <1>1, <1>3 DEF AnyList
    <3>2. VersionOf(x) = list.version /\ x.worker \in BOOLEAN
      BY <1>1, <1>3 DEF VersionOf, UiEvent
    <3>3. x \in WorkerList <=> x.worker
      BY <3>1 DEF WorkerList
    <3>4. x \notin LostEvents \cup BackEvents /\ \A i : x \notin Changes(i)
      BY <1>3 DEF LostEvents, BackEvents, Changes
    <3>5. list \in List /\ list.version \in Nat
      BY <3>1, HeldTypes DEF List
    <3>6. list \in Lists
      BY <1>2, <3>1 DEF Lists
    <3>. QED
      BY <3>1, <3>2, <3>3, <3>4, <3>5, <3>6
  <2>2. Informed(list)
    BY <2>1 DEF ConvergeInv, ListInv
  <2>3. /\ table' = list.devices /\ connected' = TRUE
        /\ seen' = Newest(list.version) /\ late' = (list.version < seen)
        /\ revived' = (~x.worker /\ (revived \/ ~connected))
    BY <1>3 DEF ApplySnapshot, Show, Replace
  <2>. HIDE DEF list
  <2>4. seen' \in Nat /\ seen <= seen' /\ VersionOf(x) <= seen'
    BY <1>1, <2>1, <2>3 DEF Newest
  <2>5. /\ PendingInv' /\ ListInv' /\ BatchInv'
        /\ Held = {x} \cup Held'
        /\ link = "up" => Followed(channel', outbox', LostEvents, WorkerList)
        /\ link = "lost" =>
             /\ Followed(channel', outbox', WorkerList, LostEvents)
             /\ x \in WorkerList => \E e \in Held' : e \in LostEvents
        /\ Followed(channel', outbox', BackEvents, WorkerList)
    BY <1>0, <1>1, <2>4, ConvergeTaken
  <2>6. TableInv'
    <3>. SUFFICES ASSUME link = "up", ~late', NEW i \in Ids
                  PROVE  \/ list.devices[i] = daemon[i]
                         \/ pending[i] # None
                         \/ \E e \in Held' : e \in AnyList \cup Changes(i)
      BY <1>1, <2>3 DEF TableInv
    <3>1. Covered(list, i) /\ ~(list.version < seen)
      BY <2>2, <2>3 DEF Informed
    <3>2. ASSUME NEW e \in Held, e \in AnyList \cup Changes(i),
                 VersionOf(e) > list.version
          PROVE  e \in Held'
      BY <2>1, <2>5, <3>2
    <3>. QED
      BY <3>1, <3>2 DEF Covered
  <2>7. ASSUME link = "lost", ~revived' PROVE \E e \in Held' : e \in LostEvents
    <3>1. CASE x.worker
      BY <2>1, <2>5, <2>7, <3>1
    <3>2. CASE ~x.worker
      <4>1. ~revived /\ connected
        BY <2>3, <2>7, <3>2
      <4>2. PICK e \in Held : e \in LostEvents
        BY <2>7, <4>1 DEF ConvergeInv, LinkInv
      <4>. QED
        BY <2>1, <2>5, <4>2
    <3>. QED
      BY <3>1, <3>2, <2>1
  <2>8. LinkInv'
    BY <1>1, <2>3, <2>5, <2>7 DEF LinkInv
  <2>. QED
    BY <2>5, <2>6, <2>8 DEF ConvergeInv
\* Changes.
<1>4. CASE x.type = "DeviceBatch" /\ ApplyNewBatch(x.batch, x.version)
  <2>1. /\ VersionOf(x) = x.version /\ x.version \in Nat
        /\ x.batch \in Window
        /\ x \notin AnyList \cup LostEvents \cup BackEvents \cup WorkerList
        /\ \A i \in Ids : x \in Changes(i) <=> x.batch[i] # None
    BY <1>1, <1>4 DEF VersionOf, UiEvent, AnyList, LostEvents, BackEvents,
                      WorkerList, Changes
  <2>2. /\ table' = ApplyBatch(table, x.batch) /\ seen' = Newest(x.version)
        /\ UNCHANGED <<connected, late, revived>>
    BY <1>4 DEF ApplyNewBatch, Show
  <2>3. seen' \in Nat /\ seen <= seen' /\ VersionOf(x) <= seen'
    BY <1>1, <2>1, <2>2 DEF Newest
  <2>4. /\ PendingInv' /\ ListInv' /\ BatchInv'
        /\ Held = {x} \cup Held'
        /\ link = "up" =>
             /\ \A i \in Ids : pending[i] = None /\ x \in Stale(i) =>
                     \E e \in Held' : e \in WorkerList \cup Changes(i)
             /\ Followed(channel', outbox', LostEvents, WorkerList)
        /\ link = "lost" => Followed(channel', outbox', WorkerList, LostEvents)
        /\ Followed(channel', outbox', BackEvents, WorkerList)
    BY <1>0, <1>1, <2>3, ConvergeTaken
  <2>5. TableInv'
    <3>. SUFFICES ASSUME link = "up", ~late, NEW i \in Ids, pending[i] = None
                  PROVE  \/ table'[i] = daemon[i]
                         \/ \E e \in Held' : e \in AnyList \cup Changes(i)
      BY <1>1, <2>2 DEF TableInv
    <3>1. table'[i] = ApplyDelta(table[i], x.batch[i])
      BY <2>2 DEF ApplyBatch
    <3>2. CASE x.batch[i] = None
      <4>1. table'[i] = table[i] /\ x \notin AnyList \cup Changes(i)
        BY <2>1, <3>1, <3>2 DEF ApplyDelta
      <4>. QED
        BY <2>4, <4>1 DEF ConvergeInv, TableInv
    <3>3. CASE x.batch[i] # None
      <4>1. table'[i] = Outcome(x.batch[i]) /\ x \in Changes(i)
        BY <2>1, <3>1, <3>3, DeltaOutcome DEF Window
      <4>2. CASE x \in Stale(i)
        BY <2>4, <4>2 DEF WorkerList
      <4>3. CASE x \notin Stale(i)
        BY <4>1, <4>3 DEF Stale
      <4>. QED
        BY <4>2, <4>3
    <3>. QED
      BY <3>2, <3>3
  <2>6. LinkInv'
    BY <1>1, <2>1, <2>2, <2>4 DEF ConvergeInv, LinkInv
  <2>. QED
    BY <2>4, <2>5, <2>6 DEF ConvergeInv
\* The connection, and results.
<1>5. CASE /\ x.type \in {"ConnectionLost", "Reconnected", "OperationFinished"}
           /\ x.type = "ConnectionLost" => ApplyConnectionLost
           /\ x.type = "Reconnected" => ApplyReconnected
           /\ x.type = "OperationFinished" => ApplyFinished(x.op, x.result)
  <2>1. /\ x \notin AnyList /\ x \notin WorkerList
        /\ \A i : x \notin Changes(i)
        /\ x \in LostEvents <=> x.type = "ConnectionLost"
        /\ x \in BackEvents <=> x.type = "Reconnected"
    BY <1>1, <1>5 DEF AnyList, WorkerList, Changes, LostEvents, BackEvents
  <2>2. /\ x.type = "ConnectionLost" =>
                connected' = FALSE /\ UNCHANGED table
        /\ x.type # "ConnectionLost" => UNCHANGED <<connected, revived>>
        /\ x.type = "OperationFinished" => UNCHANGED table
        /\ UNCHANGED <<seen, late>>
    BY <1>5 DEF ApplyConnectionLost, ApplyReconnected, ApplyFinished, Show
  <2>3. seen' \in Nat /\ seen <= seen'
    BY <1>1, <2>2
  <2>4. /\ PendingInv' /\ ListInv' /\ BatchInv'
        /\ Held = {x} \cup Held'
        /\ link = "up" =>
             /\ Followed(channel', outbox', LostEvents, WorkerList)
             /\ x \in LostEvents => \E e \in Held' : e \in WorkerList
        /\ link = "lost" => Followed(channel', outbox', WorkerList, LostEvents)
        /\ Followed(channel', outbox', BackEvents, WorkerList)
        /\ x \in BackEvents => \E e \in Held' : e \in WorkerList
    BY <1>0, <1>1, <2>1, <2>3, ConvergeTaken
  <2>5. TableInv'
    <3>. SUFFICES ASSUME link = "up", ~late, NEW i \in Ids
                  PROVE  \/ table'[i] = daemon[i]
                         \/ pending[i] # None
                         \/ \E e \in Held' : e \in AnyList \cup Changes(i)
      BY <1>1, <2>2 DEF TableInv
    <3>1. CASE x.type = "Reconnected"
      BY <2>1, <2>4, <3>1 DEF WorkerList
    <3>2. CASE x.type # "Reconnected"
      <4>1. table' = table
        BY <1>5, <2>2, <3>2
      <4>. QED
        BY <2>1, <2>4, <4>1 DEF ConvergeInv, TableInv
    <3>. QED
      BY <3>1, <3>2
  <2>6. LinkInv'
    <3>1. CASE x.type = "ConnectionLost"
      BY <1>1, <2>1, <2>2, <2>4, <3>1 DEF LinkInv
    <3>2. CASE x.type # "ConnectionLost"
      BY <1>1, <2>1, <2>2, <2>4, <3>2 DEF ConvergeInv, LinkInv
    <3>. QED
      BY <3>1, <3>2
  <2>. QED
    BY <2>4, <2>5, <2>6 DEF ConvergeInv
<1>6. \/ x.type = "DeviceSnapshot" /\ ApplySnapshot(x.list, x.worker)
      \/ x.type = "DeviceBatch" /\ ApplyNewBatch(x.batch, x.version)
      \/ x.type = "ConnectionLost" /\ ApplyConnectionLost
      \/ x.type = "Reconnected" /\ ApplyReconnected
      \/ x.type = "OperationFinished" /\ ApplyFinished(x.op, x.result)
  BY <1>0, Zenon DEF Apply
<1>. QED
  BY <1>3, <1>4, <1>5, <1>6

LEMMA ConvergeNext == TypeOK /\ ConvergeInv /\ [Next]_vars => ConvergeInv'
<1>. SUFFICES ASSUME TypeOK, ConvergeInv, [Next]_vars PROVE ConvergeInv'
  OBVIOUS
<1>1. CASE UNCHANGED vars
  BY <1>1, ConvergeQuiet DEF vars
<1>2. CASE Daemon
  BY <1>2, ConvergeDaemon, ConvergeLost, ConvergeBack DEF Daemon
<1>3. CASE User
  <2>1. UNCHANGED <<daemon, version, link, pending, outbox, channel, table,
                    connected, seen, late, revived, read>>
    BY <1>3 DEF User, ClickPolicy, ClickReject, ConfirmReject, DismissReject,
                AllowFromNotification, Present, Cancel, StartDeviceOp
  <2>. QED
    BY <2>1, ConvergeQuiet
<1>4. ASSUME NEW o \in Ops, Finish(o) PROVE ConvergeInv'
  <2>1. PICK r \in {"answered", "inconclusive", "cancelled"} : Put(Finished(o, r))
    BY <1>4 DEF Finish
  <2>2. /\ Finished(o, r) \in UiEvent
        /\ Finished(o, r) \notin AnyList \cup LostEvents \cup BackEvents
        /\ \A i : Finished(o, r) \notin Changes(i)
    BY EventTypes, EventKinds
  <2>3. UNCHANGED <<daemon, version, link, pending, outbox, table, connected,
                    seen, late, revived, read>>
    BY <1>4 DEF Finish
  <2>. QED
    BY <2>1, <2>2, <2>3, ConvergePut DEF WorkerList
<1>5. ASSUME NEW o \in Ops, CancelSends(o) PROVE ConvergeInv'
  <2>. DEFINE x == Finished(o, "cancelled")
  <2>1. Put(x)
    BY <1>5 DEF CancelSends
  <2>2. /\ x \in UiEvent
        /\ x \notin AnyList \cup LostEvents \cup BackEvents
        /\ \A i : x \notin Changes(i)
    BY EventTypes, EventKinds
  <2>3. UNCHANGED <<daemon, version, link, pending, outbox, table, connected,
                    seen, late, revived, read>>
    BY <1>5 DEF CancelSends
  <2>. HIDE DEF x
  <2>. QED
    BY <2>1, <2>2, <2>3, ConvergePut DEF WorkerList
<1>6. ASSUME NEW o \in Ops, ReadDevices(o) \/ ReadFails(o) PROVE ConvergeInv'
  <2>1. UNCHANGED <<daemon, version, link, pending, outbox, channel, table,
                    connected, seen, late, revived>>
    BY <1>6 DEF ReadDevices, ReadFails
  <2>2. \A p \in Ops : read'[p] \in {read[p], None, ListDevices}
    BY <1>6 DEF ReadDevices, ReadFails, TypeOK
  <2>. QED
    BY <2>1, <2>2, ConvergeQuiet
<1>7. ASSUME NEW o \in Ops, SendDevices(o) PROVE ConvergeInv'
  <2>. DEFINE list == read[o]
              x == Snapshot(list, FALSE)
  <2>1. list \in List /\ list \in Lists /\ Put(x)
    BY <1>7 DEF SendDevices, TypeOK, Lists
  <2>2. /\ x \in UiEvent /\ x.list = list /\ x \notin WorkerList
        /\ x \notin LostEvents \cup BackEvents
        /\ \A i : x \notin Changes(i)
    BY <2>1, EventTypes, EventKinds
  <2>3. \A p \in Ops : read'[p] \in {read[p], None}
    BY <1>7 DEF SendDevices, TypeOK
  <2>4. UNCHANGED <<daemon, version, link, pending, outbox, table, connected,
                    seen, late, revived>>
    BY <1>7 DEF SendDevices
  <2>5. PICK y : y = x
    OBVIOUS
  <2>6. Put(y)
    BY <2>1, <2>5
  <2>7. y.list \in Lists
    BY <2>1, <2>2, <2>5
  <2>. HIDE DEF x, list
  <2>. QED
    BY <2>2, <2>3, <2>4, <2>5, <2>6, <2>7, ConvergePut
<1>8. ASSUME NEW o \in Ops, Notice(o) PROVE ConvergeInv'
  BY <1>8, ConvergeQuiet DEF Notice
<1>. QED
  BY <1>1, <1>2, <1>3, <1>4, <1>5, <1>6, <1>7, <1>8, ConvergeMove,
     ConvergeFlush, ConvergeApply DEF Next, System

\* At rest nothing is held.
LEMMA NothingHeld == TypeOK /\ outbox = <<>> /\ channel = <<>> => Held = {}
BY DEF Held, Elems

\* Once everything is delivered the table is the daemon's, whatever lists were
\* read after cancelled and inconclusive operations and raced with changes,
\* batches and reconnections, unless the last list applied was a late one
\* (window.rs cancel_device_op, mod.rs reload_devices).
THEOREM TableConvergesToDaemon == Spec => []TableConverges
<1>1. TypeOK /\ ConvergeInv => TableConverges
  <2>. SUFFICES ASSUME TypeOK, ConvergeInv, Delivered, link = "up",
                       Changed(pending) = {}, ~late
                PROVE  table = daemon
    BY DEF TableConverges
  <2>1. Held = {} /\ \A i \in Ids : pending[i] = None
    BY NothingHeld DEF Delivered, Changed
  <2>2. \A i \in Ids : table[i] = daemon[i]
    BY <2>1 DEF ConvergeInv, TableInv
  <2>. QED
    BY <2>2 DEF TypeOK, Table
<1>. QED
  BY <1>1, TypeCorrect, ConvergeInit, ConvergeNext, PTL DEF Spec

\* Once everything is delivered the list is usable exactly while the worker is
\* connected, through any number of losses, unless an operation's list arrived
\* while the worker was not connected (window.rs apply).
THEOREM ConnectionIsShown == Spec => []ConnectionShown
<1>1. TypeOK /\ ConvergeInv => ConnectionShown
  <2>. SUFFICES ASSUME TypeOK, ConvergeInv, Delivered, ~revived
                PROVE  connected <=> link = "up"
    BY DEF ConnectionShown
  <2>1. Held = {} /\ link \in {"up", "lost"}
    BY NothingHeld DEF Delivered, TypeOK
  <2>. QED
    BY <2>1 DEF ConvergeInv, LinkInv
<1>. QED
  BY <1>1, TypeCorrect, ConvergeInit, ConvergeNext, PTL DEF Spec
=============================================================================
