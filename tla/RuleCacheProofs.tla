---------------------------- MODULE RuleCacheProofs ----------------------------
(***************************************************************************)
(* Proofs about RuleCache, for every value of its constants: its types,    *)
(* and what is true at rest: no operation is forgotten, an error is        *)
(* retried, and the page shows what it could learn of.                     *)
(***************************************************************************)
EXTENDS RuleCache, FiniteSetTheorems, SequenceTheorems, TLAPS

USE DEF daemonVars, workerVars, taskVars, readVars, pageVars, viewVars, vars

-----------------------------------------------------------------------------
(* Sequences of events.                                                    *)

LEMMA Appended ==
    ASSUME NEW s \in Seq(UiEvent), NEW event \in UiEvent
    PROVE  /\ Append(s, event) \in Seq(UiEvent)
           /\ Len(Append(s, event)) = Len(s) + 1
           /\ DOMAIN s = 1..Len(s) /\ DOMAIN Append(s, event) = 1..(Len(s) + 1)
           /\ Len(s) \in Nat
           /\ \A i \in DOMAIN s : Append(s, event)[i] = s[i]
           /\ Append(s, event)[Len(s) + 1] = event
BY AppendProperties, LenProperties

LEMMA Rest ==
    ASSUME NEW s \in Seq(UiEvent), s # <<>>
    PROVE  /\ Tail(s) \in Seq(UiEvent)
           /\ Len(Tail(s)) = Len(s) - 1
           /\ DOMAIN s = 1..Len(s) /\ DOMAIN Tail(s) = 1..(Len(s) - 1)
           /\ Len(s) \in Nat /\ Len(s) >= 1
           /\ \A i \in DOMAIN Tail(s) : Tail(s)[i] = s[i + 1]
           /\ Head(s) = s[1] /\ Head(s) \in UiEvent
<1>1. /\ Tail(s) \in Seq(UiEvent) /\ Len(Tail(s)) = Len(s) - 1
      /\ \A i \in 1..Len(Tail(s)) : Tail(s)[i] = s[i + 1]
      /\ Head(s) \in UiEvent
  BY HeadTailProperties
<1>2. DOMAIN s = 1..Len(s) /\ DOMAIN Tail(s) = 1..Len(Tail(s)) /\ Len(s) \in Nat
  BY <1>1, LenProperties
<1>3. Len(s) >= 1 /\ Head(s) = s[1]
  BY <1>2
<1>. QED
  BY <1>1, <1>2, <1>3

LEMMA EventTypes ==
    /\ \A t \in {"DeviceSnapshot", "InvalidateRuleCache", "ConnectionLost", "Reconnected",
                 "RuleSnapshotFailed"} : Event(t) \in UiEvent
    /\ \A o \in Ops, r \in Results \cup {"cancelled"} : Finished(o, r) \in UiEvent
    /\ \A v \in Versions : [type |-> "RuleSnapshot", rules |-> v] \in UiEvent
<1>1. \A t \in {"DeviceSnapshot", "InvalidateRuleCache", "ConnectionLost", "Reconnected",
                 "RuleSnapshotFailed"} : Event(t) \in UiEvent
  BY DEF Event, UiEvent
<1>2. \A o \in Ops, r \in Results \cup {"cancelled"} : Finished(o, r) \in UiEvent
  BY DEF Finished, UiEvent
<1>3. \A v \in Versions : [type |-> "RuleSnapshot", rules |-> v] \in UiEvent
  BY DEF UiEvent
<1>. QED
  BY <1>1, <1>2, <1>3

\* The events of a new connection: the old ones, the reconnection, and a list
\* and an invalidation at the end.
LEMMA Resumed ==
    ASSUME NEW s \in Seq(UiEvent),
           NEW t, t = s \o <<Event("Reconnected"), Event("DeviceSnapshot"),
                             Event("InvalidateRuleCache")>>
    PROVE  /\ t \in Seq(UiEvent)
           /\ Len(s) \in Nat /\ DOMAIN t = 1..(Len(s) + 3)
           /\ t[Len(s) + 2].type = "DeviceSnapshot"
           /\ t[Len(s) + 3].type = "InvalidateRuleCache"
<1>. DEFINE u == <<Event("Reconnected"), Event("DeviceSnapshot"), Event("InvalidateRuleCache")>>
<1>1. u \in Seq(UiEvent) /\ Len(u) = 3
  BY EventTypes
<1>2. u[2].type = "DeviceSnapshot" /\ u[3].type = "InvalidateRuleCache"
  BY DEF Event
<1>. HIDE DEF u
<1>3. /\ s \o u \in Seq(UiEvent) /\ Len(s \o u) = Len(s) + Len(u)
      /\ \A i \in 1..(Len(s) + Len(u)) : (s \o u)[i] = IF i <= Len(s) THEN s[i] ELSE u[i - Len(s)]
  BY <1>1, ConcatProperties
<1>4. Len(s) \in Nat /\ DOMAIN (s \o u) = 1..Len(s \o u)
  BY <1>3, LenProperties
<1>5. (s \o u)[Len(s) + 2] = u[2] /\ (s \o u)[Len(s) + 3] = u[3]
  <2>1. /\ Len(s) + 2 \in 1..(Len(s) + Len(u)) /\ Len(s) + 3 \in 1..(Len(s) + Len(u))
        /\ ~(Len(s) + 2 <= Len(s)) /\ ~(Len(s) + 3 <= Len(s))
        /\ Len(s) + 2 - Len(s) = 2 /\ Len(s) + 3 - Len(s) = 3
    BY <1>1, <1>4
  <2>. QED
    BY <1>3, <2>1
<1>. QED
  BY <1>1, <1>2, <1>3, <1>4, <1>5 DEF u

-----------------------------------------------------------------------------
(* Type correctness.                                                       *)

\* The requests that may still change the ruleset: each of them, and each
\* change, was a disturbance.
InFlight == {o \in Ops : request[o] \in Kinds}
CountInv == ruleset + Cardinality(InFlight) <= disturbances

Typed == TypeOK /\ CountInv

LEMMA InFlightFinite ==
    /\ IsFiniteSet(InFlight) /\ Cardinality(InFlight) \in Nat
    /\ \A o : /\ Cardinality(InFlight \ {o}) \in Nat
              /\ Cardinality(InFlight \ {o}) <= Cardinality(InFlight)
              /\ o \in InFlight => Cardinality(InFlight \ {o}) = Cardinality(InFlight) - 1
              /\ Cardinality(InFlight \cup {o}) \in Nat
              /\ Cardinality(InFlight \cup {o}) <= Cardinality(InFlight) + 1
<1>1. IsFiniteSet(InFlight) /\ Cardinality(InFlight) \in Nat
  <2>1. IsFiniteSet(InFlight)
    BY RuleCacheAssumption, FS_Subset DEF InFlight
  <2>. QED
    BY <2>1, FS_CardinalityType
<1>2. ASSUME NEW o
      PROVE  /\ Cardinality(InFlight \ {o}) =
                  IF o \in InFlight THEN Cardinality(InFlight) - 1 ELSE Cardinality(InFlight)
             /\ Cardinality(InFlight \cup {o}) =
                  IF o \in InFlight THEN Cardinality(InFlight) ELSE Cardinality(InFlight) + 1
             /\ IsFiniteSet(InFlight \ {o})
  BY <1>1, FS_RemoveElement, FS_AddElement
<1>3. ASSUME NEW o PROVE Cardinality(InFlight \ {o}) \in Nat
  BY <1>2, FS_CardinalityType
<1>4. ASSUME NEW o
      PROVE  /\ Cardinality(InFlight \ {o}) <= Cardinality(InFlight)
             /\ o \in InFlight => Cardinality(InFlight \ {o}) = Cardinality(InFlight) - 1
             /\ Cardinality(InFlight \cup {o}) \in Nat
             /\ Cardinality(InFlight \cup {o}) <= Cardinality(InFlight) + 1
  <2>. DEFINE n == Cardinality(InFlight)
              less == Cardinality(InFlight \ {o})
              more == Cardinality(InFlight \cup {o})
  <2>1. /\ n \in Nat
        /\ o \in InFlight => less = n - 1 /\ more = n
        /\ o \notin InFlight => less = n /\ more = n + 1
    BY <1>1, <1>2
  <2>. HIDE DEF n, less, more
  <2>2. less <= n /\ (o \in InFlight => less = n - 1) /\ more \in Nat /\ more <= n + 1
    BY <2>1
  <2>. QED
    BY <2>2 DEF n, less, more
<1>. QED
  BY <1>1, <1>3, <1>4

\* A send keeps the channel within its capacity.
LEMMA PutType ==
    ASSUME TypeOK, NEW event \in UiEvent, Put(event)
    PROVE  /\ channel' \in Seq(UiEvent) /\ Len(channel') <= CHANNEL_CAPACITY
           /\ channel' = Append(channel, event)
<1>1. channel \in Seq(UiEvent) /\ Len(channel) < CHANNEL_CAPACITY
  BY DEF TypeOK, Put, Room
<1>2. channel' = Append(channel, event)
  BY DEF Put
<1>3. Len(channel') = Len(channel) + 1 /\ Len(channel) \in Nat /\ channel' \in Seq(UiEvent)
  BY <1>1, <1>2, Appended
<1>. QED
  BY <1>1, <1>2, <1>3, RuleCacheAssumption

LEMMA TypedInit == Init => Typed
<1>. SUFFICES ASSUME Init PROVE Typed
  OBVIOUS
<1>1. outbox \in Seq(UiEvent)
  BY EventTypes DEF Init
<1>2. channel \in Seq(UiEvent) /\ Len(channel) <= CHANNEL_CAPACITY
  BY RuleCacheAssumption DEF Init
<1>3. TypeOK
  BY <1>1, <1>2, RuleCacheAssumption DEF Init, TypeOK, Versions
<1>4. InFlight = {}
  BY NoneIsAbsent DEF Init, InFlight
<1>5. CountInv
  BY <1>4, FS_EmptySet DEF Init, CountInv
<1>. QED
  BY <1>3, <1>5 DEF Typed

\* Whoever counts his step keeps the count within its bound.
LEMMA Counted ==
    ASSUME TypeOK, Disturbance \/ Fails \/ UNCHANGED disturbances
    PROVE  disturbances' \in 0..MaxDisturbances /\ disturbances' >= disturbances
BY RuleCacheAssumption DEF TypeOK, Disturbance, Fails

\* While it holds, the ruleset's version keeps its bound.
LEMMA VersionBounded ==
    ASSUME ruleset \in Nat, disturbances \in 0..MaxDisturbances, CountInv
    PROVE  ruleset \in Versions
BY InFlightFinite, RuleCacheAssumption DEF CountInv, Versions

\* An answered request, and one that is given up, is not in flight any more.
LEMMA CountAnswered ==
    ASSUME Typed, NEW o \in Ops, NEW x, x \notin Kinds, request' = [request EXCEPT ![o] = x]
    PROVE  InFlight' = InFlight \ {o}
BY DEF Typed, TypeOK, InFlight

LEMMA CountFrame ==
    ASSUME Typed, UNCHANGED ruleset,
           \/ UNCHANGED request
           \/ \E o \in Ops : \E x : x \notin Kinds /\ request' = [request EXCEPT ![o] = x],
           Disturbance \/ Fails \/ UNCHANGED disturbances
    PROVE  /\ CountInv' /\ ruleset' \in Versions
           /\ disturbances' \in 0..MaxDisturbances
<1>1. disturbances' \in 0..MaxDisturbances /\ disturbances' >= disturbances
  BY Counted DEF Typed
<1>2. ruleset \in Nat /\ disturbances \in Nat /\ MaxDisturbances \in Nat
  BY RuleCacheAssumption DEF Typed, TypeOK, Versions
<1>3. InFlight' = InFlight \/ \E o \in Ops : InFlight' = InFlight \ {o}
  BY CountAnswered DEF InFlight
<1>4. Cardinality(InFlight') <= Cardinality(InFlight) /\ Cardinality(InFlight') \in Nat
  <2>1. CASE InFlight' = InFlight
    BY <2>1, InFlightFinite
  <2>2. ASSUME NEW o \in Ops, InFlight' = InFlight \ {o}
        PROVE  Cardinality(InFlight') <= Cardinality(InFlight) /\ Cardinality(InFlight') \in Nat
    BY <2>2, InFlightFinite
  <2>. QED
    BY <1>3, <2>1, <2>2
<1>5. CountInv'
  BY <1>1, <1>2, <1>4, InFlightFinite DEF CountInv, Typed
<1>. QED
  BY <1>1, <1>5 DEF Typed, TypeOK

LEMMA AnswerType ==
    ASSUME TypeOK, NEW o \in Ops, NEW result \in {"ok", "refused", "stale"}, Answer(o, result)
    PROVE  /\ request' \in [Ops -> Kinds \cup {None, "ok", "refused", "stale"}]
           /\ \E x : x \notin Kinds /\ request' = [request EXCEPT ![o] = x]
BY NoneIsAbsent DEF Answer, TypeOK, Kinds

LEMMA SignalledType ==
    ASSUME TypeOK, ruleset' \in Versions, Signalled
    PROVE  due' \in Versions /\ outbox' \in Seq(UiEvent)
BY EventTypes, Appended DEF Signalled, TypeOK

LEMMA TypedEdit == ASSUME Typed, NEW signalled \in BOOLEAN, Edit(signalled) PROVE Typed'
<1>1. /\ disturbances' = disturbances + 1 /\ disturbances' \in 0..MaxDisturbances
      /\ ruleset' = ruleset + 1 /\ UNCHANGED request
  BY Counted DEF Typed, Edit, Disturbance
<1>2. ruleset \in Nat /\ disturbances \in Nat /\ MaxDisturbances \in Nat
  BY RuleCacheAssumption DEF Typed, TypeOK, Versions
<1>3. InFlight' = InFlight
  BY <1>1 DEF InFlight
<1>4. CountInv' /\ ruleset' \in Versions
  BY <1>1, <1>2, <1>3, InFlightFinite DEF CountInv, Typed, Versions
<1>5. due' \in Versions /\ outbox' \in Seq(UiEvent)
  BY <1>4, SignalledType DEF Edit, Typed, TypeOK
<1>. QED
  BY <1>1, <1>4, <1>5 DEF Edit, Typed, TypeOK

LEMMA TypedActs == ASSUME Typed, NEW o \in Ops, DaemonActs(o) PROVE Typed'
<1>1. /\ request[o] \in Kinds /\ UNCHANGED disturbances
      /\ ruleset' = ruleset \/ ruleset' = ruleset + 1
  BY DEF DaemonActs
<1>2. ruleset \in Nat /\ disturbances \in 0..MaxDisturbances /\ MaxDisturbances \in Nat
  BY RuleCacheAssumption DEF Typed, TypeOK, Versions
<1>3. request' \in [Ops -> Kinds \cup {None, "ok", "refused", "stale"}]
      /\ InFlight' = InFlight \ {o}
  BY AnswerType, CountAnswered DEF DaemonActs, Typed
<1>4. Cardinality(InFlight') = Cardinality(InFlight) - 1 /\ Cardinality(InFlight') \in Nat
  <2>1. o \in InFlight
    BY <1>1 DEF InFlight
  <2>. QED
    BY <1>3, <2>1, InFlightFinite
<1>5. CountInv' /\ ruleset' \in Versions
  BY <1>1, <1>2, <1>4, InFlightFinite DEF CountInv, Typed, Versions
<1>6. due' \in Versions /\ outbox' \in Seq(UiEvent)
  BY <1>5, SignalledType DEF DaemonActs, Typed, TypeOK
<1>. QED
  BY <1>1, <1>3, <1>5, <1>6 DEF DaemonActs, Typed, TypeOK

LEMMA TypedOperation ==
    ASSUME Typed, NEW o \in Ops,
           \/ DaemonRefuses(o) \/ Finish(o) \/ Cancel(o) \/ CancelSends(o)
           \/ \E kind \in Kinds : Start(o, kind)
    PROVE  Typed'
<1>. USE DEF Typed
<1>1. CASE DaemonRefuses(o)
  <2>1. PICK result \in {"refused", "stale"} : Answer(o, result)
    BY <1>1 DEF DaemonRefuses
  <2>2. /\ request' \in [Ops -> Kinds \cup {None, "ok", "refused", "stale"}]
        /\ \E x : x \notin Kinds /\ request' = [request EXCEPT ![o] = x]
    BY <2>1, AnswerType
  <2>3. CountInv'
    BY <1>1, <2>2, CountFrame DEF DaemonRefuses
  <2>. QED
    BY <1>1, <2>2, <2>3 DEF DaemonRefuses, TypeOK
<1>2. CASE Finish(o)
  <2>1. PICK result \in Results : Outcome(o, result) /\ Put(Finished(o, result))
    BY <1>2 DEF Finish
  <2>2. channel' \in Seq(UiEvent) /\ Len(channel') <= CHANNEL_CAPACITY
    BY <2>1, EventTypes, PutType
  <2>3. UNCHANGED request \/ \E x : x \notin Kinds /\ request' = [request EXCEPT ![o] = x]
    BY <1>2, NoneIsAbsent DEF Finish, TypeOK
  <2>4. request' \in [Ops -> Kinds \cup {None, "ok", "refused", "stale"}]
    BY <1>2 DEF Finish, TypeOK
  <2>5. Fails \/ UNCHANGED disturbances
    BY <2>1 DEF Outcome
  <2>6. CountInv' /\ disturbances' \in 0..MaxDisturbances
    BY <1>2, <2>3, <2>5, CountFrame DEF Finish
  <2>. QED
    BY <1>2, <2>2, <2>4, <2>6 DEF Finish, TypeOK
<1>3. CASE Cancel(o)
  <2>1. UNCHANGED request \/ \E x : x \notin Kinds /\ request' = [request EXCEPT ![o] = x]
    BY <1>3, NoneIsAbsent DEF Cancel, TypeOK
  <2>2. request' \in [Ops -> Kinds \cup {None, "ok", "refused", "stale"}]
    BY <1>3 DEF Cancel, TypeOK
  <2>3. CountInv'
    BY <1>3, <2>1, CountFrame DEF Cancel
  <2>4. task' \in [Ops -> {"none", "waiting", "finished", "aborted"}]
    BY <1>3 DEF Cancel, TypeOK
  <2>5. cancelling' \in [Ops -> 0..2]
    BY <1>3 DEF Cancel, TypeOK
  <2>6. ops' \in [Ops -> Kinds \cup {None}] /\ device_reads' \in Nat
    BY <1>3 DEF Cancel, TypeOK
  <2>. QED
    BY <1>3, <2>2, <2>3, <2>4, <2>5, <2>6 DEF Cancel, TypeOK
<1>4. CASE CancelSends(o)
  <2>1. channel' \in Seq(UiEvent) /\ Len(channel') <= CHANNEL_CAPACITY
    BY <1>4, EventTypes, PutType DEF CancelSends
  <2>2. cancelling' \in [Ops -> 0..2]
    BY <1>4 DEF CancelSends, TypeOK
  <2>3. CountInv'
    BY <1>4, CountFrame DEF CancelSends
  <2>. QED
    BY <1>4, <2>1, <2>2, <2>3 DEF CancelSends, TypeOK
<1>5. ASSUME NEW kind \in Kinds, Start(o, kind) PROVE Typed'
  <2>1. /\ disturbances' = disturbances + 1 /\ disturbances' \in 0..MaxDisturbances
        /\ UNCHANGED ruleset
    BY <1>5, Counted DEF Start, Disturbance
  <2>2. /\ request' \in [Ops -> Kinds \cup {None, "ok", "refused", "stale"}]
        /\ ops' \in [Ops -> Kinds \cup {None}]
        /\ task' \in [Ops -> {"none", "waiting", "finished", "aborted"}]
    BY <1>5 DEF Start, TypeOK
  <2>3. InFlight' = InFlight \cup {o} \/ InFlight' = InFlight \ {o}
    BY <1>5 DEF Start, TypeOK, InFlight, Kinds
  <2>4. Cardinality(InFlight') <= Cardinality(InFlight) + 1 /\ Cardinality(InFlight') \in Nat
    <3>1. CASE InFlight' = InFlight \cup {o}
      BY <3>1, InFlightFinite
    <3>2. CASE InFlight' = InFlight \ {o}
      <4>. DEFINE n == Cardinality(InFlight)
                  m == Cardinality(InFlight')
      <4>1. m <= n /\ m \in Nat /\ n \in Nat
        BY <3>2, InFlightFinite
      <4>. HIDE DEF n, m
      <4>2. m <= n + 1 /\ m \in Nat
        BY <4>1
      <4>. QED
        BY <4>2 DEF n, m
    <3>. QED
      BY <2>3, <3>1, <3>2
  <2>5. ruleset \in Nat /\ disturbances \in Nat
    BY DEF TypeOK, Versions
  <2>6. CountInv'
    BY <2>1, <2>4, <2>5, InFlightFinite DEF CountInv
  <2>. QED
    BY <1>5, <2>1, <2>2, <2>6 DEF Start, TypeOK
<1>. QED
  BY <1>1, <1>2, <1>3, <1>4, <1>5

LEMMA TypedWorker ==
    ASSUME Typed, LinkLost \/ LinkBack \/ WorkerSends
    PROVE  Typed'
<1>. USE DEF Typed
<1>1. CountInv' /\ disturbances' \in 0..MaxDisturbances
  BY CountFrame DEF LinkLost, LinkBack, WorkerSends
<1>2. CASE LinkLost
  BY <1>1, <1>2, EventTypes, Appended DEF LinkLost, TypeOK
<1>3. CASE LinkBack
  <2>1. outbox' \in Seq(UiEvent)
    BY <1>3, Resumed DEF LinkBack, TypeOK
  <2>. QED
    BY <1>1, <1>3, <2>1 DEF LinkBack, TypeOK
<1>4. CASE WorkerSends
  <2>1. Head(outbox) \in UiEvent /\ outbox' \in Seq(UiEvent)
    BY <1>4, Rest DEF WorkerSends, TypeOK
  <2>2. channel' \in Seq(UiEvent) /\ Len(channel') <= CHANNEL_CAPACITY
    BY <1>4, <2>1, PutType DEF WorkerSends
  <2>. QED
    BY <1>1, <1>4, <2>1, <2>2 DEF WorkerSends, TypeOK
<1>. QED
  BY <1>2, <1>3, <1>4

LEMMA TypedReads ==
    ASSUME Typed, \/ ReadRules \/ SendNoRules \/ FinishDeviceRead
                  \/ \E version \in Versions : SendRules(version)
    PROVE  Typed'
<1>. USE DEF Typed
<1>1. CountInv' /\ disturbances' \in 0..MaxDisturbances
  BY CountFrame DEF ReadRules, SendNoRules, FinishDeviceRead, SendRules
<1>2. CASE ReadRules
  BY <1>1, <1>2 DEF ReadRules, TypeOK
<1>3. CASE SendNoRules
  <2>1. channel' \in Seq(UiEvent) /\ Len(channel') <= CHANNEL_CAPACITY
    BY <1>3, EventTypes, PutType DEF SendNoRules
  <2>. QED
    BY <1>1, <1>3, <2>1 DEF SendNoRules, TypeOK
<1>4. CASE FinishDeviceRead
  <2>1. channel' \in Seq(UiEvent) /\ Len(channel') <= CHANNEL_CAPACITY
    BY <1>4, EventTypes, PutType DEF FinishDeviceRead, TypeOK
  <2>. QED
    BY <1>1, <1>4, <2>1 DEF FinishDeviceRead, TypeOK
<1>5. ASSUME NEW version \in Versions, SendRules(version) PROVE Typed'
  <2>1. channel' \in Seq(UiEvent) /\ Len(channel') <= CHANNEL_CAPACITY
    BY <1>5, EventTypes, PutType DEF SendRules
  <2>2. answered' \in [Versions -> Nat]
    BY <1>5 DEF SendRules, TypeOK
  <2>. QED
    BY <1>1, <1>5, <2>1, <2>2 DEF SendRules, TypeOK
<1>. QED
  BY <1>2, <1>3, <1>4, <1>5

LEMMA CausesFinite == IsFiniteSet({"inconclusive", "stale", "kind"})
<1>1. IsFiniteSet({})
  BY FS_EmptySet
<1>2. IsFiniteSet({} \cup {"inconclusive"})
  BY <1>1, FS_AddElement
<1>3. IsFiniteSet(({} \cup {"inconclusive"}) \cup {"stale"})
  BY <1>2, FS_AddElement
<1>4. IsFiniteSet((({} \cup {"inconclusive"}) \cup {"stale"}) \cup {"kind"})
  BY <1>3, FS_AddElement
<1>5. (({} \cup {"inconclusive"}) \cup {"stale"}) \cup {"kind"} = {"inconclusive", "stale", "kind"}
  OBVIOUS
<1>. QED
  BY <1>4, <1>5

LEMMA MarksType == \A k, result : Marks(k, result) \in Nat
<1>. TAKE k, result
<1>1. IsFiniteSet({c \in {"inconclusive", "stale", "kind"} :
        \/ c = result
        \/ c = "kind" /\ (k = "rule" \/ (k = "permanent" /\ result = "ok"))})
  BY CausesFinite, FS_Subset
<1>. QED
  BY <1>1, FS_CardinalityType DEF Marks

LEMMA ReloadType ==
    ASSUME TypeOK, NEW page, NEW conn, ReloadIfNeeded(page, conn)
    PROVE  asking' \in Nat /\ rules_stale' \in BOOLEAN
<1>1. CASE page /\ conn /\ rules_stale
  <2>1. rules_stale' = FALSE /\ asking' = asking + 1
    BY <1>1, Zenon DEF ReloadIfNeeded
  <2>2. asking' \in Nat
    BY <2>1 DEF TypeOK
  <2>3. rules_stale' \in BOOLEAN
    BY <2>1, Zenon
  <2>. QED
    BY <2>2, <2>3
<1>2. CASE ~(page /\ conn /\ rules_stale)
  BY <1>2, Zenon DEF ReloadIfNeeded, TypeOK
<1>. QED
  BY <1>1, <1>2

LEMMA MarkType ==
    ASSUME TypeOK, NEW n \in Nat, MarkStale(n)
    PROVE  asking' \in Nat /\ rules_stale' \in BOOLEAN
<1>1. CASE visible /\ connected /\ n > 0
  <2>1. rules_stale' = FALSE /\ asking' = asking + n
    BY <1>1, Zenon DEF MarkStale
  <2>2. asking' \in Nat
    BY <2>1 DEF TypeOK
  <2>3. rules_stale' \in BOOLEAN
    BY <2>1, Zenon
  <2>. QED
    BY <2>2, <2>3
<1>2. CASE ~(visible /\ connected /\ n > 0)
  BY <1>2, Zenon DEF MarkStale, TypeOK
<1>. QED
  BY <1>1, <1>2

LEMMA TypedPage == ASSUME Typed, ShowPage \/ LeavePage \/ Apply PROVE Typed'
<1>. USE DEF Typed
<1>1. CountInv' /\ disturbances' \in 0..MaxDisturbances
  BY CountFrame DEF ShowPage, LeavePage, Apply
<1>2. CASE ShowPage
  <2>1. asking' \in Nat /\ rules_stale' \in BOOLEAN
    BY <1>2, ReloadType DEF ShowPage
  <2>2. shows' \in 0..MaxShows
    BY <1>2, RuleCacheAssumption DEF ShowPage, TypeOK
  <2>. QED
    BY <1>1, <1>2, <2>1, <2>2 DEF ShowPage, TypeOK
<1>3. CASE LeavePage
  BY <1>1, <1>3 DEF LeavePage, TypeOK
<1>4. CASE Apply
  <2>. DEFINE event == Head(channel)
  <2>1. /\ channel' \in Seq(UiEvent) /\ Len(channel') <= CHANNEL_CAPACITY
        /\ event \in UiEvent
    BY <1>4, Rest, RuleCacheAssumption DEF Apply, TypeOK
  <2>2. event.type = "RuleSnapshot" => event.rules \in Versions
    BY <2>1 DEF UiEvent
  <2>3. event.type = "OperationFinished" => event.op \in Ops
    BY <2>1 DEF UiEvent
  <2>. HIDE DEF event
  <2>4. ASSUME NEW n \in Nat, MarkStale(n) PROVE asking' \in Nat /\ rules_stale' \in BOOLEAN
    BY <2>4, MarkType
  <2>5. ASSUME ReloadIfNeeded(visible, TRUE) PROVE asking' \in Nat /\ rules_stale' \in BOOLEAN
    BY <2>5, ReloadType
  <2>6. /\ asking' \in Nat /\ rules_stale' \in BOOLEAN /\ connected' \in BOOLEAN
        /\ ops' \in [Ops -> Kinds \cup {None}] /\ device_reads' \in Nat
        /\ shown' \in Versions \cup {None} /\ error' \in {"none", "shown", "covered"}
        /\ newest' \in Versions
    <3>1. CASE /\ event.type = "DeviceSnapshot" /\ connected' = TRUE
               /\ ReloadIfNeeded(visible, TRUE)
               /\ UNCHANGED <<ops, device_reads, shown, error, newest>>
      BY <2>5, <3>1 DEF TypeOK
    <3>2. CASE /\ event.type = "InvalidateRuleCache" /\ MarkStale(1)
               /\ UNCHANGED <<ops, device_reads, connected, shown, error, newest>>
      BY <2>4, <3>2 DEF TypeOK
    <3>3. CASE /\ event.type = "ConnectionLost" /\ connected' = FALSE
               /\ UNCHANGED <<ops, asking, device_reads, rules_stale, shown, error, newest>>
      BY <3>3 DEF TypeOK
    <3>4. CASE /\ event.type = "Reconnected" /\ rules_stale' = TRUE /\ SetBlocks
               /\ UNCHANGED <<ops, asking, device_reads, connected, shown, newest>>
      BY <3>4 DEF TypeOK, SetBlocks
    <3>5. CASE /\ event.type = "RuleSnapshot" /\ SetRules(event.rules)
               /\ newest' = IF newest > event.rules THEN newest ELSE event.rules
               /\ UNCHANGED <<ops, device_reads, connected>>
      BY <2>2, <3>5 DEF TypeOK, SetRules
    <3>6. CASE /\ event.type = "RuleSnapshotFailed" /\ Failed /\ newest' = ruleset
               /\ UNCHANGED <<ops, device_reads, connected, shown>>
      BY <3>6 DEF TypeOK, Failed
    <3>7. CASE /\ event.type = "OperationFinished" /\ ops[event.op] # None
               /\ ops' = [ops EXCEPT ![event.op] = None]
               /\ MarkStale(Marks(ops[event.op], event.result))
               /\ device_reads' = IF event.result = "inconclusive"
                                  THEN device_reads + 1 ELSE device_reads
               /\ UNCHANGED error \/ (event.result = "refused" /\ SetBlocks)
               /\ UNCHANGED <<connected, shown, newest>>
      <4>1. asking' \in Nat /\ rules_stale' \in BOOLEAN
        BY <2>4, <3>7, MarksType
      <4>2. ops' \in [Ops -> Kinds \cup {None}]
        BY <2>3, <3>7 DEF TypeOK
      <4>3. device_reads' \in Nat
        BY <3>7 DEF TypeOK
      <4>4. error' \in {"none", "shown", "covered"}
        BY <3>7 DEF TypeOK, SetBlocks
      <4>. QED
        BY <3>7, <4>1, <4>2, <4>3, <4>4 DEF TypeOK
    <3>8. CASE /\ event.type = "OperationFinished" /\ ops[event.op] = None
               /\ UNCHANGED <<ops, asking, device_reads, viewVars>>
      BY <3>8 DEF TypeOK
    <3>. QED
      BY <1>4, <3>1, <3>2, <3>3, <3>4, <3>5, <3>6, <3>7, <3>8 DEF Apply, event
  <2>. QED
    BY <1>1, <1>4, <2>1, <2>6 DEF Apply, TypeOK
<1>. QED
  BY <1>2, <1>3, <1>4

LEMMA TypedNext == Typed /\ [Next]_vars => Typed'
<1>. SUFFICES ASSUME Typed, [Next]_vars PROVE Typed'
  OBVIOUS
<1>1. CASE UNCHANGED vars
  BY <1>1 DEF Typed, TypeOK, CountInv, InFlight
<1>2. CASE Next
  BY <1>2, TypedEdit, TypedActs, TypedOperation, TypedWorker, TypedReads, TypedPage
     DEF Next, Environment, System
<1>. QED
  BY <1>1, <1>2

\* Every variable keeps its type and every queue its capacity: the ruleset's
\* version is bounded because each request in flight was counted.
THEOREM TypeCorrect == Spec => []TypeOK
<1>1. Typed => TypeOK
  BY DEF Typed
<1>. QED
  BY <1>1, TypedInit, TypedNext, PTL DEF Spec

-----------------------------------------------------------------------------
(* What is on its way stays on its way until it is applied.                *)

Arrives(type) == \E i \in DOMAIN channel : channel[i].type = type
Delivered(o) ==
    \E i \in DOMAIN channel : channel[i].type = "OperationFinished" /\ channel[i].op = o

\* Nothing but the interface takes an event off the channel.
Kept == \A i \in DOMAIN channel : i \in DOMAIN channel' /\ channel'[i] = channel[i]

LEMMA PutKeeps ==
    ASSUME Typed, NEW event \in UiEvent, Put(event)
    PROVE  Kept /\ \E j \in DOMAIN channel' : channel'[j] = event
<1>1. channel \in Seq(UiEvent) /\ channel' = Append(channel, event)
  BY DEF Typed, TypeOK, Put
<1>2. Kept
  BY <1>1, Appended DEF Kept
<1>3. Len(channel) + 1 \in DOMAIN channel' /\ channel'[Len(channel) + 1] = event
  BY <1>1, Appended
<1>. QED
  BY <1>2, <1>3

LEMMA NextKeeps == ASSUME Typed, Next, ~Apply PROVE Kept
<1>1. ASSUME UNCHANGED channel PROVE Kept
  BY <1>1 DEF Kept
<1>2. ASSUME NEW o \in Ops, Finish(o) PROVE Kept
  <2>1. PICK result \in Results : Put(Finished(o, result))
    BY <1>2 DEF Finish
  <2>. QED
    BY <2>1, EventTypes, PutKeeps
<1>3. ASSUME NEW o \in Ops, CancelSends(o) PROVE Kept
  BY <1>3, EventTypes, PutKeeps DEF CancelSends
<1>4. CASE WorkerSends
  <2>1. Head(outbox) \in UiEvent
    BY <1>4, Rest DEF WorkerSends, Typed, TypeOK
  <2>. QED
    BY <1>4, <2>1, PutKeeps DEF WorkerSends
<1>5. ASSUME NEW version \in Versions, SendRules(version) PROVE Kept
  BY <1>5, EventTypes, PutKeeps DEF SendRules
<1>6. CASE SendNoRules
  BY <1>6, EventTypes, PutKeeps DEF SendNoRules
<1>7. CASE FinishDeviceRead
  BY <1>1, <1>7, EventTypes, PutKeeps DEF FinishDeviceRead
<1>8. ASSUME \/ \E signalled \in BOOLEAN : Edit(signalled)
             \/ \E o \in Ops : DaemonActs(o) \/ DaemonRefuses(o) \/ Cancel(o)
             \/ \E o \in Ops, kind \in Kinds : Start(o, kind)
             \/ LinkLost \/ LinkBack \/ ShowPage \/ LeavePage \/ ReadRules
      PROVE  Kept
  BY <1>1, <1>8 DEF Edit, DaemonActs, DaemonRefuses, Cancel, Start, LinkLost, LinkBack,
                    ShowPage, LeavePage, ReadRules
<1>. QED
  BY <1>2, <1>3, <1>4, <1>5, <1>6, <1>7, <1>8 DEF Next, Environment, System

\* The interface takes the oldest event, and leaves the others.
LEMMA ApplyTakes ==
    ASSUME Typed, Apply
    PROVE  /\ Head(channel) \in UiEvent /\ channel # <<>>
           /\ DOMAIN channel = 1..Len(channel) /\ Len(channel) \in Nat /\ Head(channel) = channel[1]
           /\ DOMAIN channel' = 1..(Len(channel) - 1)
           /\ \A j \in DOMAIN channel' : channel'[j] = channel[j + 1]
           /\ \A i \in DOMAIN channel :
                channel[i] = Head(channel) \/ \E j \in DOMAIN channel' : channel'[j] = channel[i]
<1>1. channel \in Seq(UiEvent) /\ channel # <<>> /\ channel' = Tail(channel)
  BY DEF Typed, TypeOK, Apply
<1>2. /\ DOMAIN channel = 1..Len(channel) /\ DOMAIN channel' = 1..(Len(channel) - 1)
      /\ Len(channel) \in Nat /\ Head(channel) = channel[1] /\ Head(channel) \in UiEvent
      /\ \A j \in DOMAIN channel' : channel'[j] = channel[j + 1]
  BY <1>1, Rest
<1>3. ASSUME NEW i \in DOMAIN channel
      PROVE  channel[i] = Head(channel) \/ \E j \in DOMAIN channel' : channel'[j] = channel[i]
  <2>1. CASE i = 1
    BY <1>2, <2>1
  <2>2. CASE i # 1
    <3>1. i - 1 \in DOMAIN channel' /\ (i - 1) + 1 = i
      BY <1>2, <2>2
    <3>2. channel'[i - 1] = channel[i]
      BY <1>2, <3>1
    <3>. QED
      BY <3>1, <3>2
  <2>. QED
    BY <2>1, <2>2
<1>. QED
  BY <1>1, <1>2, <1>3

\* What a handler does to the mark and the reads it starts: a mark is kept or
\* becomes a read, and no read is taken back.
Cared == /\ rules_stale => rules_stale' \/ asking' > 0
         /\ asking > 0 => asking' > 0

LEMMA ReloadCares ==
    ASSUME Typed, NEW page, NEW conn, ReloadIfNeeded(page, conn) PROVE Cared
<1>0. asking \in Nat
  BY DEF Typed, TypeOK
<1>1. CASE page /\ conn /\ rules_stale
  <2>1. rules_stale' = FALSE /\ asking' = asking + 1
    BY <1>1, Zenon DEF ReloadIfNeeded
  <2>2. asking' > 0
    BY <1>0, <2>1
  <2>. QED
    BY <2>2, Zenon DEF Cared
<1>2. CASE ~(page /\ conn /\ rules_stale)
  BY <1>2, Zenon DEF ReloadIfNeeded, Cared
<1>. QED
  BY <1>1, <1>2

LEMMA MarkCares ==
    ASSUME Typed, NEW n \in Nat, MarkStale(n)
    PROVE  /\ Cared
           /\ n > 0 => asking' > 0 \/ (rules_stale' /\ ~(visible /\ connected))
<1>0. asking \in Nat
  BY DEF Typed, TypeOK
<1>1. CASE visible /\ connected /\ n > 0
  <2>1. rules_stale' = FALSE /\ asking' = asking + n
    BY <1>1, Zenon DEF MarkStale
  <2>2. asking' > 0
    BY <1>0, <1>1, <2>1
  <2>. QED
    BY <2>2, Zenon DEF Cared
<1>2. CASE ~(visible /\ connected /\ n > 0)
  <2>1. /\ rules_stale' = (rules_stale \/ n > 0)
        /\ UNCHANGED asking
    BY <1>2, Zenon DEF MarkStale
  <2>. QED
    BY <1>2, <2>1, Zenon DEF Cared
<1>. QED
  BY <1>1, <1>2

-----------------------------------------------------------------------------
(* No operation is forgotten.                                              *)

\* The interface waits for an operation while its task does, or while its
\* result is on its way; and it remembers which kind it is.
OpInv == \A o \in Ops :
    /\ ops[o] # None => task[o] = "waiting" \/ Delivered(o)
    /\ ops[o] # None => task[o] # "none"
    /\ ops[o] # None /\ request[o] \in Kinds => request[o] = ops[o]

LEMMA OpKeeps == ASSUME Kept PROVE \A o : Delivered(o) => Delivered(o)'
BY DEF Kept, Delivered

LEMMA OpNext == Typed /\ OpInv /\ [Next]_vars => OpInv'
<1>. SUFFICES ASSUME Typed, OpInv, [Next]_vars PROVE OpInv'
  OBVIOUS
<1>. USE DEF Typed
<1>0. /\ ops \in [Ops -> Kinds \cup {None}] /\ request \in [Ops -> Kinds \cup {None, "ok", "refused", "stale"}]
      /\ task \in [Ops -> {"none", "waiting", "finished", "aborted"}]
  BY DEF TypeOK
<1>1. ASSUME Kept, UNCHANGED <<ops, task, request>> PROVE OpInv'
  BY <1>1, OpKeeps DEF OpInv
<1>2. CASE UNCHANGED vars
  BY <1>1, <1>2 DEF Kept
<1>3. CASE Next /\ ~Apply
  <2>0. Kept
    BY <1>3, NextKeeps
  <2>1. ASSUME NEW o \in Ops, DaemonActs(o) \/ DaemonRefuses(o) PROVE OpInv'
    <3>1. PICK result \in {"ok", "refused", "stale"} : Answer(o, result)
      BY <2>1 DEF DaemonActs, DaemonRefuses
    <3>2. UNCHANGED <<ops, task>>
      BY <2>1 DEF DaemonActs, DaemonRefuses
    <3>3. \A p \in Ops : request'[p] \in Kinds => request'[p] = request[p]
      BY <1>0, <3>1, NoneIsAbsent DEF Answer, Kinds
    <3>. QED
      BY <2>0, <3>2, <3>3, OpKeeps DEF OpInv
  <2>2. ASSUME NEW o \in Ops, Cancel(o) PROVE OpInv'
    <3>1. /\ \A p \in Ops \ {o} : ops'[p] = ops[p] /\ task'[p] = task[p] /\ request'[p] = request[p]
          /\ ops'[o] = None
      BY <1>0, <2>2 DEF Cancel
    <3>. QED
      BY <2>0, <3>1, OpKeeps DEF OpInv
  <2>3. ASSUME NEW o \in Ops, NEW kind \in Kinds, Start(o, kind) PROVE OpInv'
    <3>1. /\ \A p \in Ops \ {o} : ops'[p] = ops[p] /\ task'[p] = task[p] /\ request'[p] = request[p]
          /\ task'[o] = "waiting" /\ ops'[o] = kind
          /\ request'[o] \in {kind, "refused"}
      BY <1>0, <2>3 DEF Start
    <3>2. "refused" \notin Kinds
      BY DEF Kinds
    <3>. QED
      BY <2>0, <3>1, <3>2, OpKeeps DEF OpInv
  <2>4. ASSUME NEW o \in Ops, Finish(o) PROVE OpInv'
    <3>1. PICK result \in Results : Put(Finished(o, result))
      BY <2>4 DEF Finish
    <3>2. Delivered(o)'
      <4>1. PICK j \in DOMAIN channel' : channel'[j] = Finished(o, result)
        BY <3>1, EventTypes, PutKeeps
      <4>. QED
        BY <4>1 DEF Delivered, Finished
    <3>3. /\ UNCHANGED ops /\ task'[o] = "finished"
          /\ \A p \in Ops \ {o} : task'[p] = task[p]
          /\ \A p \in Ops : request'[p] \in Kinds => request'[p] = request[p]
      BY <1>0, <2>4, NoneIsAbsent DEF Finish
    <3>. QED
      BY <2>0, <3>2, <3>3, OpKeeps DEF OpInv
  <2>5. ASSUME \/ \E signalled \in BOOLEAN : Edit(signalled)
               \/ \E o \in Ops : CancelSends(o)
               \/ LinkLost \/ LinkBack \/ ShowPage \/ LeavePage \/ ReadRules
               \/ WorkerSends \/ SendNoRules \/ FinishDeviceRead
               \/ \E version \in Versions : SendRules(version)
        PROVE  OpInv'
    <3>1. UNCHANGED <<ops, task, request>>
      BY <2>5 DEF Edit, CancelSends, LinkLost, LinkBack, ShowPage, LeavePage, ReadRules,
                  WorkerSends, SendNoRules, FinishDeviceRead, SendRules
    <3>. QED
      BY <1>1, <2>0, <3>1
  <2>. QED
    BY <1>3, <2>1, <2>2, <2>3, <2>4, <2>5 DEF Next, Environment, System
<1>4. CASE Apply
  <2>. DEFINE event == Head(channel)
  <2>1. /\ UNCHANGED <<task, request>> /\ event \in UiEvent
        /\ \A i \in DOMAIN channel :
             channel[i] = event \/ \E j \in DOMAIN channel' : channel'[j] = channel[i]
    BY <1>4, ApplyTakes DEF Apply
  <2>2. \/ event.type = "OperationFinished" /\ ops' = [ops EXCEPT ![event.op] = None]
        \/ event.type = "OperationFinished" /\ UNCHANGED ops /\ ops[event.op] = None
        \/ event.type # "OperationFinished" /\ UNCHANGED ops
    BY <1>4 DEF Apply
  <2>3. event.type = "OperationFinished" => event.op \in Ops
    BY <2>1 DEF UiEvent
  <2>. HIDE DEF event
  <2>4. ASSUME NEW o \in Ops, ops'[o] # None
        PROVE  ops'[o] = ops[o] /\ (Delivered(o) => Delivered(o)')
    <3>1. ops'[o] = ops[o] /\ ~(event.type = "OperationFinished" /\ event.op = o)
      BY <1>0, <2>2, <2>3, <2>4
    <3>. QED
      BY <2>1, <3>1 DEF Delivered
  <2>. QED
    BY <2>1, <2>4 DEF OpInv
<1>. QED
  BY <1>2, <1>3, <1>4

\* At rest, the interface waits for no operation whose task is over, because
\* an operation it waits for either has a waiting task or an event on its way.
THEOREM OperationsEnd == Spec => []NoOperationForgotten
<1>1. Init => OpInv
  BY DEF Init, OpInv
<1>2. OpInv => NoOperationForgotten
  <2>1. ASSUME channel = <<>>, NEW o PROVE ~Delivered(o)
    BY <2>1 DEF Delivered
  <2>. QED
    BY <2>1 DEF OpInv, NoOperationForgotten, AtRest
<1>. QED
  BY <1>1, <1>2, TypedInit, TypedNext, OpNext, PTL DEF Spec

-----------------------------------------------------------------------------
(* An error is retried.                                                    *)

\* An error is marked as stale, or another answer is on its way.
ErrorInv ==
    error # "none" =>
        \/ rules_stale \/ asking > 0 \/ \E v \in Versions : answered[v] > 0
        \/ Arrives("RuleSnapshot") \/ Arrives("RuleSnapshotFailed")

LEMMA ErrorNext == Typed /\ ErrorInv /\ [Next]_vars => ErrorInv'
<1>. SUFFICES ASSUME Typed, ErrorInv, [Next]_vars PROVE ErrorInv'
  OBVIOUS
<1>0. /\ asking \in Nat /\ answered \in [Versions -> Nat] /\ ruleset \in Versions
  BY DEF Typed, TypeOK
<1>a. ASSUME Kept, NEW t PROVE Arrives(t) => Arrives(t)'
  BY <1>a DEF Kept, Arrives
<1>1. CASE UNCHANGED vars
  BY <1>1 DEF ErrorInv, Arrives
<1>2. CASE Next /\ ~Apply
  <2>0. Kept
    BY <1>2, NextKeeps
  <2>1. CASE ShowPage
    <3>1. Cared /\ UNCHANGED <<error, answered>>
      BY <2>1, ReloadCares DEF ShowPage
    <3>. QED
      BY <1>a, <2>0, <3>1 DEF ErrorInv, Cared
  <2>2. CASE ReadRules
    <3>1. answered'[ruleset] > 0
      BY <1>0, <2>2 DEF ReadRules
    <3>. QED
      BY <1>0, <3>1, <2>2 DEF ErrorInv, ReadRules
  <2>3. ASSUME NEW version \in Versions, SendRules(version) PROVE ErrorInv'
    <3>1. PICK j \in DOMAIN channel' : channel'[j] = [type |-> "RuleSnapshot", rules |-> version]
      BY <2>3, EventTypes, PutKeeps DEF SendRules
    <3>. QED
      BY <3>1 DEF ErrorInv, Arrives
  <2>4. CASE SendNoRules
    <3>1. PICK j \in DOMAIN channel' : channel'[j] = Event("RuleSnapshotFailed")
      BY <2>4, EventTypes, PutKeeps DEF SendNoRules
    <3>. QED
      BY <3>1 DEF ErrorInv, Arrives, Event
  <2>5. ASSUME \/ \E signalled \in BOOLEAN : Edit(signalled)
               \/ \E o \in Ops : \/ DaemonActs(o) \/ DaemonRefuses(o) \/ Cancel(o)
                                 \/ CancelSends(o) \/ Finish(o)
               \/ \E o \in Ops, kind \in Kinds : Start(o, kind)
               \/ LinkLost \/ LinkBack \/ LeavePage \/ WorkerSends \/ FinishDeviceRead
        PROVE  ErrorInv'
    <3>1. UNCHANGED <<error, rules_stale, asking, answered>>
      BY <2>5 DEF Edit, DaemonActs, DaemonRefuses, Cancel, CancelSends, Finish, Start,
                  LinkLost, LinkBack, LeavePage, WorkerSends, FinishDeviceRead
    <3>. QED
      BY <1>a, <2>0, <3>1 DEF ErrorInv
  <2>. QED
    BY <1>2, <2>1, <2>2, <2>3, <2>4, <2>5 DEF Next, Environment, System
<1>3. CASE Apply
  <2>. DEFINE event == Head(channel)
  <2>1. /\ UNCHANGED answered /\ event \in UiEvent
        /\ \A i \in DOMAIN channel :
             channel[i] = event \/ \E j \in DOMAIN channel' : channel'[j] = channel[i]
    BY <1>3, ApplyTakes DEF Apply
  <2>2. \/ error' = "none"
        \/ rules_stale' = TRUE
        \/ /\ event.type \notin {"RuleSnapshot", "RuleSnapshotFailed"}
           /\ error' # "none" => error # "none"
           /\ Cared
    <3>1. CASE event.type = "DeviceSnapshot"
      BY <1>3, <3>1, ReloadCares DEF Apply
    <3>2. CASE event.type = "InvalidateRuleCache"
      BY <1>3, <3>2, MarkCares DEF Apply
    <3>3. CASE event.type = "ConnectionLost"
      BY <1>3, <3>3 DEF Apply, Cared
    <3>4. CASE event.type = "Reconnected"
      BY <1>3, <3>4 DEF Apply
    <3>5. CASE event.type = "RuleSnapshot"
      BY <1>3, <3>5 DEF Apply, SetRules
    <3>6. CASE event.type = "RuleSnapshotFailed"
      BY <1>3, <3>6 DEF Apply, Failed
    <3>7. CASE event.type = "OperationFinished"
      <4>1. CASE UNCHANGED <<asking, rules_stale, error>>
        BY <3>7, <4>1 DEF Cared
      <4>2. CASE /\ \E n \in Nat : MarkStale(n)
                 /\ UNCHANGED error \/ SetBlocks
        BY <3>7, <4>2, MarkCares DEF SetBlocks
      <4>. QED
        BY <1>3, <3>7, <4>1, <4>2, MarksType DEF Apply
    <3>. QED
      BY <2>1, <3>1, <3>2, <3>3, <3>4, <3>5, <3>6, <3>7 DEF UiEvent
  <2>. HIDE DEF event
  <2>3. ASSUME event.type \notin {"RuleSnapshot", "RuleSnapshotFailed"},
               NEW t \in {"RuleSnapshot", "RuleSnapshotFailed"}, Arrives(t)
        PROVE  Arrives(t)'
    BY <2>1, <2>3 DEF Arrives
  <2>. QED
    BY <2>1, <2>2, <2>3 DEF ErrorInv, Cared
<1>. QED
  BY <1>1, <1>2, <1>3

\* At rest, a page whose last read failed is marked, so that opening it reads
\* again: until then, an error is marked or another answer is on its way.
THEOREM ErrorsRetried == Spec => []ErrorIsRetried
<1>1. Init => ErrorInv
  BY DEF Init, ErrorInv
<1>2. Typed /\ ErrorInv => ErrorIsRetried
  <2>. SUFFICES ASSUME Typed, ErrorInv, AtRest, error # "none" PROVE rules_stale
    BY DEF ErrorIsRetried
  <2>1. \A t : ~Arrives(t)
    BY DEF AtRest, Arrives
  <2>2. ~(asking > 0) /\ \A v \in Versions : ~(answered[v] > 0)
    BY DEF AtRest
  <2>. QED
    BY <2>1, <2>2 DEF ErrorInv
<1>. QED
  BY <1>1, <1>2, TypedInit, TypedNext, ErrorNext, PTL DEF Spec

-----------------------------------------------------------------------------
(* The interface learns whether it is connected.                           *)

NoLoss(s) == \A i \in DOMAIN s : s[i].type # "ConnectionLost"

\* A list, and no loss of the connection after it.
ListLast(s) ==
    \E i \in DOMAIN s : /\ s[i].type = "DeviceSnapshot"
                        /\ \A j \in DOMAIN s : j > i => s[j].type # "ConnectionLost"

\* While the link is up, the interface knows that it is connected, or the list
\* that tells it so is on its way and no loss of the connection after it.
LiveInv ==
    link = "up" =>
        \/ ListLast(outbox)
        \/ NoLoss(outbox) /\ (ListLast(channel) \/ (connected /\ NoLoss(channel)))

\* What one more event does to either.
LEMMA OneMore ==
    ASSUME NEW s \in Seq(UiEvent), NEW event \in UiEvent, event.type # "ConnectionLost"
    PROVE  /\ NoLoss(s) => NoLoss(Append(s, event))
           /\ ListLast(s) => ListLast(Append(s, event))
           /\ event.type = "DeviceSnapshot" => ListLast(Append(s, event))
<1>. DEFINE t == Append(s, event)
            n == Len(s)
<1>1. /\ DOMAIN s = 1..n /\ DOMAIN t = 1..(n + 1) /\ n \in Nat
      /\ \A i \in DOMAIN s : t[i] = s[i]
      /\ t[n + 1] = event
  BY Appended
<1>. HIDE DEF t, n
<1>2. \A j \in DOMAIN t : j \in DOMAIN s \/ j = n + 1
  BY <1>1
<1>3. NoLoss(s) => NoLoss(t)
  BY <1>1, <1>2 DEF NoLoss
<1>4. ListLast(s) => ListLast(t)
  <2>1. \A i \in DOMAIN s : i \in DOMAIN t
    BY <1>1
  <2>. QED
    BY <1>1, <1>2, <2>1 DEF ListLast
<1>5. event.type = "DeviceSnapshot" => ListLast(t)
  <2>1. n + 1 \in DOMAIN t /\ \A j \in DOMAIN t : ~(j > n + 1)
    BY <1>1
  <2>. QED
    BY <1>1, <2>1 DEF ListLast
<1>. QED
  BY <1>3, <1>4, <1>5 DEF t

\* What one event less leaves of them.
LEMMA OneLess ==
    ASSUME NEW s \in Seq(UiEvent), s # <<>>
    PROVE  /\ NoLoss(s) => NoLoss(Tail(s)) /\ Head(s).type # "ConnectionLost"
           /\ ListLast(s) => \/ ListLast(Tail(s))
                             \/ Head(s).type = "DeviceSnapshot" /\ NoLoss(Tail(s))
<1>. DEFINE t == Tail(s)
            n == Len(s)
<1>1. /\ DOMAIN s = 1..n /\ DOMAIN t = 1..(n - 1) /\ n \in Nat /\ n >= 1
      /\ \A i \in DOMAIN t : t[i] = s[i + 1]
      /\ Head(s) = s[1]
  BY Rest
<1>. HIDE DEF t, n
<1>2. \A j \in DOMAIN t : j + 1 \in DOMAIN s /\ j \in Nat /\ j + 1 > 1
  BY <1>1
<1>3. 1 \in DOMAIN s
  BY <1>1
<1>4. NoLoss(s) => NoLoss(t) /\ Head(s).type # "ConnectionLost"
  BY <1>1, <1>2, <1>3 DEF NoLoss
<1>5. ASSUME NEW i \in DOMAIN s, s[i].type = "DeviceSnapshot",
             \A j \in DOMAIN s : j > i => s[j].type # "ConnectionLost"
      PROVE  ListLast(t) \/ (Head(s).type = "DeviceSnapshot" /\ NoLoss(t))
  <2>1. CASE i = 1
    BY <1>1, <1>2, <1>5, <2>1 DEF NoLoss
  <2>2. CASE i # 1
    <3>1. i - 1 \in DOMAIN t /\ (i - 1) + 1 = i /\ i \in Nat
      BY <1>1, <2>2
    <3>2. t[i - 1].type = "DeviceSnapshot"
      BY <1>1, <1>5, <3>1
    <3>3. \A j \in DOMAIN t : j > i - 1 => j + 1 > i
      BY <1>2, <3>1
    <3>4. \A j \in DOMAIN t : j > i - 1 => t[j].type # "ConnectionLost"
      BY <1>1, <1>2, <1>5, <3>3
    <3>. QED
      BY <3>1, <3>2, <3>4 DEF ListLast
  <2>. QED
    BY <2>1, <2>2
<1>6. ListLast(s) => ListLast(t) \/ (Head(s).type = "DeviceSnapshot" /\ NoLoss(t))
  BY <1>5 DEF ListLast
<1>. QED
  BY <1>4, <1>6 DEF t

LEMMA LiveInit == Init => LiveInv
<1>. SUFFICES ASSUME Init PROVE LiveInv
  OBVIOUS
<1>1. outbox = <<Event("DeviceSnapshot"), Event("InvalidateRuleCache")>>
  BY DEF Init
<1>2. DOMAIN outbox = 1..2
  BY <1>1
<1>3. outbox[1].type = "DeviceSnapshot" /\ outbox[2].type = "InvalidateRuleCache"
  BY <1>1 DEF Event
<1>4. \A j \in DOMAIN outbox : outbox[j].type # "ConnectionLost"
  BY <1>2, <1>3
<1>5. ListLast(outbox)
  BY <1>2, <1>3, <1>4 DEF ListLast
<1>. QED
  BY <1>5 DEF LiveInv

LEMMA LiveNext == Typed /\ LiveInv /\ [Next]_vars => LiveInv'
<1>. SUFFICES ASSUME Typed, LiveInv, [Next]_vars, link' = "up" PROVE LiveInv'
  BY DEF LiveInv
<1>0. outbox \in Seq(UiEvent) /\ channel \in Seq(UiEvent)
  BY DEF Typed, TypeOK
\* An event that is not the loss of the connection keeps what the channel tells.
<1>a. ASSUME NEW event \in UiEvent, event.type # "ConnectionLost", Put(event),
             UNCHANGED <<outbox, link, connected>>
      PROVE  LiveInv'
  <2>1. channel' = Append(channel, event)
    BY <1>a DEF Put
  <2>2. (NoLoss(channel) => NoLoss(channel')) /\ (ListLast(channel) => ListLast(channel'))
    BY <1>0, <1>a, <2>1, OneMore
  <2>. QED
    BY <1>a, <2>2 DEF LiveInv
<1>1. ASSUME UNCHANGED <<outbox, channel, link, connected>> PROVE LiveInv'
  BY <1>1 DEF LiveInv, ListLast, NoLoss
<1>2. ASSUME Signalled, UNCHANGED <<channel, link, connected>> PROVE LiveInv'
  <2>1. outbox' = Append(outbox, Event("InvalidateRuleCache"))
    BY <1>2 DEF Signalled
  <2>2. (NoLoss(outbox) => NoLoss(outbox')) /\ (ListLast(outbox) => ListLast(outbox'))
    BY <1>0, <2>1, EventTypes, OneMore DEF Event
  <2>. QED
    BY <1>2, <2>2 DEF LiveInv, ListLast, NoLoss
<1>3. ASSUME NEW o \in Ops, Finish(o) PROVE LiveInv'
  <2>1. PICK result \in Results : Put(Finished(o, result))
    BY <1>3 DEF Finish
  <2>. QED
    BY <1>a, <1>3, <2>1, EventTypes DEF Finish, Finished
<1>4. ASSUME NEW o \in Ops, CancelSends(o) PROVE LiveInv'
  <2>1. PICK event \in {Finished(o, "cancelled"), Event("InvalidateRuleCache")} : Put(event)
    BY <1>4 DEF CancelSends
  <2>2. event \in UiEvent /\ event.type # "ConnectionLost"
    BY <2>1, EventTypes DEF Finished, Event
  <2>. QED
    BY <1>a, <1>4, <2>1, <2>2 DEF CancelSends
<1>5. ASSUME NEW version \in Versions, SendRules(version) PROVE LiveInv'
  BY <1>a, <1>5, EventTypes DEF SendRules
<1>6. CASE SendNoRules
  BY <1>a, <1>6, EventTypes DEF SendNoRules, Event
<1>7. CASE FinishDeviceRead
  BY <1>a, <1>1, <1>7, EventTypes DEF FinishDeviceRead, Event
<1>8. CASE LinkBack
  <2>. DEFINE n == Len(outbox)
  <2>1. /\ n \in Nat /\ DOMAIN outbox' = 1..(n + 3)
        /\ outbox'[n + 2].type = "DeviceSnapshot"
        /\ outbox'[n + 3].type = "InvalidateRuleCache"
    BY <1>0, <1>8, Resumed DEF LinkBack
  <2>. HIDE DEF n
  <2>2. /\ n + 2 \in DOMAIN outbox'
        /\ \A j \in DOMAIN outbox' : j > n + 2 => j = n + 3
    BY <2>1
  <2>3. ListLast(outbox')
    BY <2>1, <2>2 DEF ListLast
  <2>. QED
    BY <2>3 DEF LiveInv
<1>9. CASE WorkerSends
  <2>. DEFINE head == Head(outbox)
  <2>1. /\ head \in UiEvent /\ outbox' = Tail(outbox) /\ channel' = Append(channel, head)
        /\ UNCHANGED <<link, connected>>
        /\ NoLoss(outbox) => NoLoss(outbox') /\ head.type # "ConnectionLost"
        /\ ListLast(outbox) => ListLast(outbox') \/ (head.type = "DeviceSnapshot" /\ NoLoss(outbox'))
    BY <1>0, <1>9, Rest, OneLess DEF WorkerSends, Put
  <2>2. /\ head.type = "DeviceSnapshot" => ListLast(channel')
        /\ head.type # "ConnectionLost" /\ NoLoss(channel) => NoLoss(channel')
        /\ head.type # "ConnectionLost" /\ ListLast(channel) => ListLast(channel')
    BY <1>0, <2>1, OneMore
  <2>. HIDE DEF head
  <2>. QED
    <3>1. CASE ListLast(outbox)
      <4>1. ListLast(outbox') \/ (NoLoss(outbox') /\ ListLast(channel'))
        BY <2>1, <2>2, <3>1
      <4>. QED
        BY <4>1, Zenon DEF LiveInv
    <3>2. CASE NoLoss(outbox) /\ ListLast(channel)
      <4>1. NoLoss(outbox') /\ ListLast(channel')
        BY <2>1, <2>2, <3>2
      <4>. QED
        BY <4>1, Zenon DEF LiveInv
    <3>3. CASE NoLoss(outbox) /\ connected /\ NoLoss(channel)
      <4>1. NoLoss(outbox') /\ connected' /\ NoLoss(channel')
        BY <2>1, <2>2, <3>3, Zenon
      <4>. QED
        BY <4>1, Zenon DEF LiveInv
    <3>4. link = "up"
      BY <2>1
    <3>. QED
      BY <3>1, <3>2, <3>3, <3>4, Zenon DEF LiveInv
<1>10. CASE Apply
  <2>. DEFINE head == Head(channel)
  <2>1. /\ channel' = Tail(channel) /\ UNCHANGED <<link, outbox>>
        /\ NoLoss(channel) => NoLoss(channel') /\ head.type # "ConnectionLost"
        /\ ListLast(channel) => ListLast(channel') \/ (head.type = "DeviceSnapshot" /\ NoLoss(channel'))
    BY <1>0, <1>10, OneLess DEF Apply
  <2>2. /\ head.type = "DeviceSnapshot" => connected' = TRUE
        /\ head.type # "ConnectionLost" => connected' = TRUE \/ UNCHANGED connected
    BY <1>10 DEF Apply
  <2>. HIDE DEF head
  <2>3. (ListLast(outbox) => ListLast(outbox')) /\ (NoLoss(outbox) => NoLoss(outbox'))
    BY <2>1
  <2>. QED
    BY <2>1, <2>2, <2>3 DEF LiveInv
<1>11. ASSUME \/ \E o \in Ops : DaemonRefuses(o) \/ Cancel(o)
              \/ \E o \in Ops, kind \in Kinds : Start(o, kind)
              \/ ShowPage \/ LeavePage \/ ReadRules
              \/ UNCHANGED vars
       PROVE  LiveInv'
  BY <1>1, <1>11 DEF DaemonRefuses, Cancel, Start, ShowPage, LeavePage, ReadRules
<1>12. ASSUME NEW o \in Ops, DaemonActs(o) PROVE LiveInv'
  BY <1>1, <1>2, <1>12 DEF DaemonActs
<1>13. ASSUME NEW signalled \in BOOLEAN, Edit(signalled) PROVE LiveInv'
  BY <1>1, <1>2, <1>13 DEF Edit
<1>14. CASE LinkLost
  BY <1>14 DEF LinkLost
<1>. QED
  BY <1>3, <1>4, <1>5, <1>6, <1>7, <1>8, <1>9, <1>10, <1>11, <1>12, <1>13, <1>14
     DEF Next, Environment, System

-----------------------------------------------------------------------------
(* The rules converge.                                                     *)

\* What the interface has to know of is due.  It has been told of it; or an
\* answer about it, or the occasion to ask, is on its way; or the page is
\* marked and will ask once it is visible and connected.
Informed == newest >= due /\ (shown # None \/ error # "none")

WillRead ==
    \/ asking > 0
    \/ \E v \in Versions : v >= due /\ answered[v] > 0
    \/ \E i \in DOMAIN channel : channel[i].type = "RuleSnapshot" /\ channel[i].rules >= due
    \/ Arrives("RuleSnapshotFailed")

Sent(type) == \E i \in DOMAIN outbox : outbox[i].type = type
Ending(o) == ops[o] = "rule" /\ ((task[o] = "waiting" /\ Answered(o)) \/ Delivered(o))

WillMark ==
    \/ link = "lost"
    \/ Sent("InvalidateRuleCache") \/ Arrives("InvalidateRuleCache")
    \/ \E o \in Ops : cancelling[o] > 0
    \/ \E o \in Ops : Ending(o)

Marked == rules_stale /\ ~(visible /\ connected)

KnowInv == due <= ruleset /\ (Informed \/ WillRead \/ WillMark \/ Marked)

\* Steps that tell the interface nothing and change nothing it has to know.
LEMMA KnowFrame ==
    ASSUME KnowInv, Kept, UNCHANGED <<due, newest, shown, error>>, due' <= ruleset',
           WillRead => WillRead',
           link = "lost" => link' = "lost" \/ Sent("InvalidateRuleCache")',
           Sent("InvalidateRuleCache") =>
                Sent("InvalidateRuleCache")' \/ Arrives("InvalidateRuleCache")',
           \A o \in Ops : cancelling[o] > 0 =>
                cancelling'[o] > 0 \/ Arrives("InvalidateRuleCache")',
           \A o \in Ops : Ending(o) => Ending(o)',
           Marked => Marked' \/ WillRead'
    PROVE  KnowInv'
<1>1. Arrives("InvalidateRuleCache") => Arrives("InvalidateRuleCache")'
  BY DEF Kept, Arrives
<1>2. WillMark => WillMark'
  BY <1>1 DEF WillMark
<1>3. Informed => Informed'
  BY DEF Informed
<1>. QED
  BY <1>2, <1>3 DEF KnowInv

LEMMA ReadsKeep ==
    ASSUME Kept, UNCHANGED <<asking, answered, due>>
    PROVE  WillRead => WillRead'
BY DEF Kept, WillRead, Arrives

LEMMA EndingKeeps ==
    ASSUME Kept, NEW o \in Ops, Ending(o), ops'[o] = ops[o],
           Answered(o) => task'[o] = task[o] /\ request'[o] = request[o]
    PROVE  Ending(o)'
BY OpKeeps DEF Ending, Answered

LEMMA SentKeeps ==
    ASSUME UNCHANGED outbox, NEW t PROVE Sent(t) => Sent(t)'
BY DEF Sent

\* A change the bridge signals is reported, or found out when it is connected.
LEMMA KnowSignalled ==
    ASSUME Typed, Typed', Signalled, UNCHANGED link PROVE KnowInv'
<1>1. due' = ruleset' /\ ruleset' \in Nat
  BY DEF Typed, TypeOK, Versions, Signalled
<1>2. CASE link = "lost"
  BY <1>1, <1>2 DEF KnowInv, WillMark
<1>3. CASE link = "up"
  <2>1. outbox \in Seq(UiEvent) /\ outbox' = Append(outbox, Event("InvalidateRuleCache"))
    BY <1>3 DEF Typed, TypeOK, Signalled
  <2>2. /\ Len(outbox) + 1 \in DOMAIN outbox'
        /\ outbox'[Len(outbox) + 1] = Event("InvalidateRuleCache")
    BY <2>1, EventTypes, Appended
  <2>3. Sent("InvalidateRuleCache")'
    BY <2>2 DEF Sent, Event
  <2>. QED
    BY <1>1, <2>3 DEF KnowInv, WillMark
<1>. QED
  BY <1>2, <1>3 DEF Typed, TypeOK

LEMMA KnowDaemon ==
    ASSUME Typed, Typed', OpInv, KnowInv,
           \/ \E signalled \in BOOLEAN : Edit(signalled)
           \/ \E o \in Ops : DaemonActs(o) \/ DaemonRefuses(o)
    PROVE  KnowInv'
<1>0. /\ ruleset \in Nat /\ due \in Nat /\ due <= ruleset
      /\ request \in [Ops -> Kinds \cup {None, "ok", "refused", "stale"}]
      /\ task \in [Ops -> {"none", "waiting", "finished", "aborted"}]
  <2>1. ruleset \in Nat /\ due \in Nat
    BY RuleCacheAssumption DEF Typed, TypeOK, Versions
  <2>. QED
    BY <2>1 DEF Typed, TypeOK, KnowInv
\* Whatever becomes of a request that is not answered yet, it ends nothing.
<1>a. ASSUME UNCHANGED <<due, newest, shown, error, asking, answered, channel, link, outbox,
                         cancelling, ops, task, rules_stale, visible, connected>>,
             due' <= ruleset',
             \A p \in Ops : Answered(p) => request'[p] = request[p]
      PROVE  KnowInv'
  <2>1. Kept
    BY <1>a DEF Kept
  <2>2. \A p \in Ops : Ending(p) => Ending(p)'
    BY <1>a, <2>1, EndingKeeps
  <2>3. Marked => Marked'
    BY <1>a, Zenon DEF Marked
  <2>. QED
    BY <1>a, <2>1, <2>2, <2>3, ReadsKeep, SentKeeps, KnowFrame
<1>1. ASSUME NEW signalled \in BOOLEAN, Edit(signalled) PROVE KnowInv'
  <2>1. CASE signalled
    BY <1>1, <2>1, KnowSignalled DEF Edit
  <2>2. CASE ~signalled
    <3>1. due' <= ruleset'
      BY <1>0, <1>1, <2>2 DEF Edit
    <3>. QED
      BY <1>a, <1>1, <2>2, <3>1 DEF Edit
  <2>. QED
    BY <2>1, <2>2
<1>2. ASSUME NEW o \in Ops, NEW result, request[o] \in Kinds, Answer(o, result)
      PROVE  \A p \in Ops : Answered(p) => request'[p] = request[p]
  BY <1>0, <1>2, NoneIsAbsent DEF Answer, Answered, Kinds
<1>3. ASSUME NEW o \in Ops, DaemonRefuses(o) PROVE KnowInv'
  <2>1. PICK result \in {"refused", "stale"} : Answer(o, result)
    BY <1>3 DEF DaemonRefuses
  <2>2. \A p \in Ops : Answered(p) => request'[p] = request[p]
    BY <1>2, <1>3, <2>1 DEF DaemonRefuses
  <2>. QED
    BY <1>0, <1>3, <1>a, <2>2 DEF DaemonRefuses
<1>4. ASSUME NEW o \in Ops, DaemonActs(o) PROVE KnowInv'
  <2>0. /\ request[o] \in Kinds /\ Answer(o, "ok")
        /\ ruleset' = ruleset \/ ruleset' = ruleset + 1
        /\ UNCHANGED <<newest, shown, error, asking, answered, channel, link,
                       cancelling, ops, task, rules_stale, visible, connected>>
    BY <1>4 DEF DaemonActs
  <2>1. CASE Signalled
    BY <2>0, <2>1, KnowSignalled
  <2>2. CASE request[o] = "rule" /\ ops[o] # None /\ due' = ruleset'
    <3>1. ops[o] = "rule" /\ (task[o] = "waiting" \/ Delivered(o))
      BY <2>0, <2>2 DEF OpInv
    <3>2. task[o] = "waiting" => Answered(o)'
      BY <1>0, <2>0 DEF Answer, Answered
    <3>3. Ending(o)'
      BY <2>0, <3>1, <3>2 DEF Ending, Delivered
    <3>4. due' <= ruleset'
      BY <1>0, <2>0, <2>2
    <3>. QED
      BY <3>3, <3>4 DEF KnowInv, WillMark
  <2>3. CASE UNCHANGED <<due, outbox>>
    <3>1. due' <= ruleset'
      BY <1>0, <2>0, <2>3
    <3>2. \A p \in Ops : Answered(p) => request'[p] = request[p]
      BY <1>2, <2>0
    <3>. QED
      BY <1>a, <2>0, <2>3, <3>1, <3>2
  <2>. QED
    BY <1>4, <2>1, <2>2, <2>3 DEF DaemonActs
<1>. QED
  BY <1>1, <1>3, <1>4

LEMMA KnowOperation ==
    ASSUME Typed, OpInv, KnowInv, NEW o \in Ops,
           \/ Finish(o) \/ Cancel(o) \/ CancelSends(o)
           \/ \E kind \in Kinds : Start(o, kind)
    PROVE  KnowInv'
<1>0. /\ ops \in [Ops -> Kinds \cup {None}] /\ task \in [Ops -> {"none", "waiting", "finished", "aborted"}]
      /\ request \in [Ops -> Kinds \cup {None, "ok", "refused", "stale"}]
      /\ cancelling \in [Ops -> 0..2]
  BY DEF Typed, TypeOK
<1>1. /\ UNCHANGED <<ruleset, due, newest, shown, error, asking, answered, link, outbox,
                     rules_stale, visible, connected>>
      /\ due' <= ruleset'
  BY DEF Finish, Cancel, CancelSends, Start, KnowInv
<1>2. Kept
  <2>1. CASE Finish(o)
    <3>1. PICK result \in Results : Put(Finished(o, result))
      BY <2>1 DEF Finish
    <3>. QED
      BY <3>1, EventTypes, PutKeeps
  <2>2. CASE CancelSends(o)
    BY <2>2, EventTypes, PutKeeps DEF CancelSends
  <2>3. CASE UNCHANGED channel
    BY <2>3 DEF Kept
  <2>. QED
    BY <2>1, <2>2, <2>3 DEF Cancel, Start
<1>3. Marked => Marked'
  BY <1>1, Zenon DEF Marked
<1>4. ASSUME \A p \in Ops : cancelling[p] > 0 =>
                cancelling'[p] > 0 \/ Arrives("InvalidateRuleCache")',
             \A p \in Ops : Ending(p) => Ending(p)'
      PROVE  KnowInv'
  BY <1>1, <1>2, <1>3, <1>4, ReadsKeep, SentKeeps, KnowFrame
<1>5. CASE Finish(o)
  <2>1. PICK result \in Results : Put(Finished(o, result))
    BY <1>5 DEF Finish
  <2>2. Delivered(o)'
    <3>1. PICK j \in DOMAIN channel' : channel'[j] = Finished(o, result)
      BY <2>1, EventTypes, PutKeeps
    <3>. QED
      BY <3>1 DEF Delivered, Finished
  <2>3. /\ UNCHANGED <<ops, cancelling>>
        /\ \A p \in Ops \ {o} : task'[p] = task[p] /\ request'[p] = request[p]
    BY <1>0, <1>5 DEF Finish
  <2>4. \A p \in Ops : Ending(p) => Ending(p)'
    <3>1. Ending(o) => Ending(o)'
      BY <2>2, <2>3 DEF Ending
    <3>2. \A p \in Ops \ {o} : Ending(p) => Ending(p)'
      BY <1>2, <2>3, EndingKeeps
    <3>. QED
      BY <3>1, <3>2
  <2>. QED
    BY <1>4, <2>3, <2>4
<1>6. CASE Cancel(o)
  <2>1. /\ ops[o] # "rule"
        /\ \A p \in Ops \ {o} : /\ task'[p] = task[p] /\ request'[p] = request[p]
                                /\ ops'[p] = ops[p] /\ cancelling'[p] = cancelling[p]
        /\ cancelling'[o] = 2 \/ cancelling'[o] = cancelling[o]
    BY <1>0, <1>6 DEF Cancel
  <2>2. \A p \in Ops : Ending(p) => Ending(p)'
    <3>1. ~Ending(o)
      BY <2>1 DEF Ending
    <3>2. \A p \in Ops \ {o} : Ending(p) => Ending(p)'
      BY <1>2, <2>1, EndingKeeps
    <3>. QED
      BY <3>1, <3>2
  <2>. QED
    BY <1>4, <2>1, <2>2
<1>7. CASE CancelSends(o)
  <2>1. /\ UNCHANGED <<ops, task, request>>
        /\ \A p \in Ops \ {o} : cancelling'[p] = cancelling[p]
    BY <1>0, <1>7 DEF CancelSends
  <2>2. cancelling'[o] > 0 \/ Arrives("InvalidateRuleCache")'
    <3>1. CASE cancelling[o] = 2
      BY <1>0, <1>7, <3>1 DEF CancelSends
    <3>2. CASE cancelling[o] # 2
      <4>1. PICK j \in DOMAIN channel' : channel'[j] = Event("InvalidateRuleCache")
        BY <1>7, <3>2, EventTypes, PutKeeps DEF CancelSends
      <4>. QED
        BY <4>1 DEF Arrives, Event
    <3>. QED
      BY <3>1, <3>2
  <2>3. \A p \in Ops : Ending(p) => Ending(p)'
    BY <1>2, <2>1, EndingKeeps
  <2>. QED
    BY <1>4, <2>1, <2>2, <2>3
<1>8. ASSUME NEW kind \in Kinds, Start(o, kind) PROVE KnowInv'
  <2>1. /\ task[o] = "none" /\ UNCHANGED cancelling
        /\ \A p \in Ops \ {o} : /\ task'[p] = task[p] /\ request'[p] = request[p]
                                /\ ops'[p] = ops[p]
    BY <1>0, <1>8 DEF Start
  <2>2. \A p \in Ops : Ending(p) => Ending(p)'
    <3>1. ~Ending(o)
      BY <2>1, NoneIsAbsent DEF Ending, OpInv, Kinds
    <3>2. \A p \in Ops \ {o} : Ending(p) => Ending(p)'
      BY <1>2, <2>1, EndingKeeps
    <3>. QED
      BY <3>1, <3>2
  <2>. QED
    BY <1>4, <2>1, <2>2
<1>. QED
  BY <1>5, <1>6, <1>7, <1>8

LEMMA KnowWorker ==
    ASSUME Typed, KnowInv, LinkLost \/ LinkBack \/ WorkerSends
    PROVE  KnowInv'
<1>0. outbox \in Seq(UiEvent) /\ link \in {"up", "lost"}
  BY DEF Typed, TypeOK
<1>1. /\ UNCHANGED <<ruleset, due, newest, shown, error, asking, answered, cancelling,
                     ops, task, request, rules_stale, visible, connected>>
      /\ due' <= ruleset'
  BY DEF LinkLost, LinkBack, WorkerSends, KnowInv
<1>2. Kept
  <2>1. CASE WorkerSends
    BY <2>1, <1>0, Rest, PutKeeps DEF WorkerSends
  <2>2. CASE UNCHANGED channel
    BY <2>2 DEF Kept
  <2>. QED
    BY <2>1, <2>2 DEF LinkLost, LinkBack
<1>3. Marked => Marked'
  BY <1>1, Zenon DEF Marked
<1>4. \A p \in Ops : Ending(p) => Ending(p)'
  BY <1>1, <1>2, EndingKeeps
<1>5. link = "lost" => link' = "lost" \/ Sent("InvalidateRuleCache")'
  <2>1. CASE LinkBack
    <3>. DEFINE n == Len(outbox)
    <3>1. /\ n \in Nat /\ DOMAIN outbox' = 1..(n + 3)
          /\ outbox'[n + 3].type = "InvalidateRuleCache"
      BY <1>0, <2>1, Resumed DEF LinkBack
    <3>. HIDE DEF n
    <3>2. n + 3 \in DOMAIN outbox'
      BY <3>1
    <3>. QED
      BY <3>1, <3>2 DEF Sent
  <2>. QED
    BY <2>1 DEF LinkLost, WorkerSends
<1>6. Sent("InvalidateRuleCache") =>
         Sent("InvalidateRuleCache")' \/ Arrives("InvalidateRuleCache")'
  <2>. SUFFICES ASSUME NEW i \in DOMAIN outbox, outbox[i].type = "InvalidateRuleCache"
                PROVE  Sent("InvalidateRuleCache")' \/ Arrives("InvalidateRuleCache")'
    BY DEF Sent
  <2>1. CASE LinkLost
    <3>1. i \in DOMAIN outbox' /\ outbox'[i] = outbox[i]
      BY <1>0, <2>1, EventTypes, Appended DEF LinkLost
    <3>. QED
      BY <3>1 DEF Sent
  <2>2. CASE LinkBack
    <3>. DEFINE u == <<Event("Reconnected"), Event("DeviceSnapshot"), Event("InvalidateRuleCache")>>
    <3>1. u \in Seq(UiEvent) /\ outbox' = outbox \o u
      BY <2>2, EventTypes DEF LinkBack
    <3>. HIDE DEF u
    <3>2. i \in DOMAIN outbox' /\ outbox'[i] = outbox[i]
      BY <1>0, <3>1, ConcatProperties, LenProperties
    <3>. QED
      BY <3>2 DEF Sent
  <2>3. CASE WorkerSends
    <3>1. /\ DOMAIN outbox = 1..Len(outbox) /\ DOMAIN outbox' = 1..(Len(outbox) - 1)
          /\ Len(outbox) \in Nat /\ Head(outbox) = outbox[1]
          /\ \A j \in DOMAIN outbox' : outbox'[j] = outbox[j + 1]
          /\ Head(outbox) \in UiEvent /\ Put(Head(outbox))
      BY <1>0, <2>3, Rest DEF WorkerSends
    <3>2. CASE i = 1
      <4>1. PICK j \in DOMAIN channel' : channel'[j] = Head(outbox)
        BY <3>1, PutKeeps
      <4>. QED
        BY <3>1, <3>2, <4>1 DEF Arrives
    <3>3. CASE i # 1
      <4>1. i - 1 \in DOMAIN outbox' /\ (i - 1) + 1 = i
        BY <3>1, <3>3
      <4>2. outbox'[i - 1] = outbox[i]
        BY <3>1, <4>1
      <4>. QED
        BY <4>1, <4>2 DEF Sent
    <3>. QED
      BY <3>2, <3>3
  <2>. QED
    BY <2>1, <2>2, <2>3
<1>. QED
  BY <1>1, <1>2, <1>3, <1>4, <1>5, <1>6, ReadsKeep, KnowFrame

LEMMA KnowReads ==
    ASSUME Typed, KnowInv,
           \/ ReadRules \/ SendNoRules \/ FinishDeviceRead \/ ShowPage \/ LeavePage
           \/ \E version \in Versions : SendRules(version)
    PROVE  KnowInv'
<1>0. /\ asking \in Nat /\ answered \in [Versions -> Nat] /\ ruleset \in Versions
      /\ due <= ruleset
  BY DEF Typed, TypeOK, KnowInv
<1>1. /\ UNCHANGED <<ruleset, due, newest, shown, error, cancelling, ops, task, request,
                     link, outbox, connected>>
      /\ due' <= ruleset'
  BY DEF ReadRules, SendNoRules, FinishDeviceRead, ShowPage, LeavePage, SendRules, KnowInv
<1>2. Kept
  <2>1. ASSUME NEW version \in Versions, SendRules(version) PROVE Kept
    BY <2>1, EventTypes, PutKeeps DEF SendRules
  <2>2. CASE SendNoRules
    BY <2>2, EventTypes, PutKeeps DEF SendNoRules
  <2>3. CASE UNCHANGED channel
    BY <2>3 DEF Kept
  <2>4. CASE FinishDeviceRead
    BY <2>3, <2>4, EventTypes, PutKeeps DEF FinishDeviceRead
  <2>. QED
    BY <2>1, <2>2, <2>3, <2>4 DEF ReadRules, ShowPage, LeavePage
<1>3. \A p \in Ops : Ending(p) => Ending(p)'
  BY <1>1, <1>2, EndingKeeps
<1>4. ASSUME WillRead => WillRead', Marked => Marked' \/ WillRead' PROVE KnowInv'
  BY <1>1, <1>2, <1>3, <1>4, SentKeeps, KnowFrame
<1>5. CASE ReadRules
  <2>1. WillRead'
    <3>1. answered'[ruleset] > 0
      BY <1>0, <1>5 DEF ReadRules
    <3>. QED
      BY <1>0, <1>1, <3>1 DEF WillRead
  <2>. QED
    BY <1>4, <2>1
<1>6. CASE SendNoRules
  <2>1. PICK j \in DOMAIN channel' : channel'[j] = Event("RuleSnapshotFailed")
    BY <1>6, EventTypes, PutKeeps DEF SendNoRules
  <2>2. WillRead'
    BY <2>1 DEF WillRead, Arrives, Event
  <2>. QED
    BY <1>4, <2>2
<1>7. ASSUME NEW version \in Versions, SendRules(version) PROVE KnowInv'
  <2>1. PICK j \in DOMAIN channel' : channel'[j] = [type |-> "RuleSnapshot", rules |-> version]
    BY <1>7, EventTypes, PutKeeps DEF SendRules
  <2>2. /\ UNCHANGED <<asking, rules_stale, visible>>
        /\ \A v \in Versions \ {version} : answered'[v] = answered[v]
    BY <1>0, <1>7 DEF SendRules
  <2>3. WillRead => WillRead'
    <3>1. CASE version >= due
      BY <1>1, <2>1, <3>1 DEF WillRead
    <3>2. CASE ~(version >= due)
      BY <1>1, <1>2, <2>2, <3>2 DEF WillRead, Kept, Arrives
    <3>. QED
      BY <3>1, <3>2
  <2>4. Marked => Marked'
    BY <1>1, <2>2, Zenon DEF Marked
  <2>. QED
    BY <1>4, <2>3, <2>4
<1>8. CASE FinishDeviceRead
  <2>1. UNCHANGED <<asking, answered, rules_stale, visible>>
    BY <1>8 DEF FinishDeviceRead
  <2>2. Marked => Marked'
    BY <1>1, <2>1, Zenon DEF Marked
  <2>. QED
    BY <1>1, <1>2, <1>4, <2>1, <2>2, ReadsKeep
<1>9. CASE LeavePage
  <2>1. UNCHANGED <<asking, answered, rules_stale>> /\ visible' = FALSE
    BY <1>9 DEF LeavePage
  <2>2. Marked => Marked'
    BY <2>1, Zenon DEF Marked
  <2>. QED
    BY <1>1, <1>2, <1>4, <2>1, <2>2, ReadsKeep
<1>10. CASE ShowPage
  <2>1. /\ UNCHANGED <<answered, channel>> /\ ReloadIfNeeded(TRUE, connected)
        /\ asking > 0 => asking' > 0
        /\ rules_stale => rules_stale' \/ asking' > 0
    BY <1>10, ReloadCares DEF ShowPage, Cared
  <2>2. WillRead => WillRead'
    BY <1>1, <1>2, <2>1 DEF WillRead, Kept, Arrives
  <2>3. Marked => Marked' \/ asking' > 0
    <3>1. CASE connected /\ rules_stale
      <4>1. asking' = asking + 1
        BY <2>1, <3>1, Zenon DEF ReloadIfNeeded
      <4>. QED
        BY <1>0, <4>1
    <3>2. CASE ~(connected /\ rules_stale)
      <4>1. UNCHANGED <<rules_stale, connected>>
        BY <1>1, <2>1, <3>2, Zenon DEF ReloadIfNeeded
      <4>. QED
        BY <3>2, <4>1, Zenon DEF Marked
    <3>. QED
      BY <3>1, <3>2
  <2>4. asking' > 0 => WillRead'
    BY DEF WillRead
  <2>. QED
    BY <1>4, <2>2, <2>3, <2>4
<1>. QED
  BY <1>5, <1>6, <1>7, <1>8, <1>9, <1>10

LEMMA RuleMarks == \A result : Marks("rule", result) \in Nat /\ Marks("rule", result) > 0
<1>. SUFFICES ASSUME NEW result PROVE Marks("rule", result) > 0
  BY MarksType
<1>. DEFINE S == {c \in {"inconclusive", "stale", "kind"} :
        \/ c = result
        \/ c = "kind" /\ ("rule" = "rule" \/ ("rule" = "permanent" /\ result = "ok"))}
<1>1. IsFiniteSet(S)
  BY CausesFinite, FS_Subset
<1>2. "kind" \in S
  OBVIOUS
<1>3. Marks("rule", result) = Cardinality(S)
  BY DEF Marks
<1>. HIDE DEF S
<1>4. Cardinality(S) \in Nat /\ Cardinality(S) # 0
  BY <1>1, <1>2, FS_CardinalityType, FS_EmptySet
<1>. QED
  BY <1>3, <1>4

LEMMA KnowApply == ASSUME Typed, KnowInv, Apply PROVE KnowInv'
<1>. DEFINE event == Head(channel)
<1>0. /\ ruleset \in Nat /\ due \in Nat /\ due <= ruleset /\ newest \in Nat
      /\ ops \in [Ops -> Kinds \cup {None}] /\ asking \in Nat
  <2>1. ruleset \in Nat /\ due \in Nat /\ newest \in Nat
    BY RuleCacheAssumption DEF Typed, TypeOK, Versions
  <2>. QED
    BY <2>1 DEF Typed, TypeOK, KnowInv
<1>1. /\ UNCHANGED <<ruleset, due, link, outbox, request, task, cancelling, answered, visible>>
      /\ event \in UiEvent
      /\ \A i \in DOMAIN channel :
            channel[i] = event \/ \E j \in DOMAIN channel' : channel'[j] = channel[i]
  BY ApplyTakes DEF Apply
<1>. HIDE DEF event
<1>2. due' <= ruleset' /\ due' \in Nat
  BY <1>0, <1>1
<1>3. SUFFICES Informed' \/ WillRead' \/ WillMark' \/ Marked'
  BY <1>2 DEF KnowInv
<1>4. asking' > 0 => WillRead'
  BY DEF WillRead
\* What the other events are about is still to come.
<1>5. ASSUME NEW t, Arrives(t), event.type # t PROVE Arrives(t)'
  BY <1>1, <1>5 DEF Arrives
<1>6. ASSUME NEW o \in Ops, Ending(o), ops'[o] = ops[o],
             ~(event.type = "OperationFinished" /\ event.op = o)
      PROVE  WillMark'
  <2>1. Delivered(o) => Delivered(o)'
    BY <1>1, <1>6 DEF Delivered
  <2>. QED
    BY <1>1, <1>6, <2>1 DEF WillMark, Ending, Answered
<1>7. ASSUME WillMark, event.type # "InvalidateRuleCache",
             \A o \in Ops : Ending(o) => /\ ops'[o] = ops[o]
                                         /\ ~(event.type = "OperationFinished" /\ event.op = o)
      PROVE  WillMark'
  <2>1. CASE link = "lost" \/ Sent("InvalidateRuleCache") \/ \E o \in Ops : cancelling[o] > 0
    BY <1>1, <2>1 DEF WillMark, Sent
  <2>2. CASE Arrives("InvalidateRuleCache")
    BY <1>5, <1>7, <2>2 DEF WillMark
  <2>3. ASSUME NEW o \in Ops, Ending(o) PROVE WillMark'
    BY <1>6, <1>7, <2>3
  <2>. QED
    BY <1>7, <2>1, <2>2, <2>3 DEF WillMark
<1>8. ASSUME WillRead, event.type \notin {"RuleSnapshot", "RuleSnapshotFailed"},
             asking > 0 => asking' > 0
      PROVE  WillRead'
  <2>1. CASE asking > 0
    BY <1>4, <1>8, <2>1
  <2>2. CASE \E v \in Versions : v >= due /\ answered[v] > 0
    BY <1>1, <2>2 DEF WillRead
  <2>3. ASSUME NEW i \in DOMAIN channel, channel[i].type = "RuleSnapshot", channel[i].rules >= due
        PROVE  WillRead'
    BY <1>1, <1>8, <2>3 DEF WillRead
  <2>4. CASE Arrives("RuleSnapshotFailed")
    BY <1>5, <1>8, <2>4 DEF WillRead
  <2>. QED
    BY <1>8, <2>1, <2>2, <2>3, <2>4 DEF WillRead
<1>9. ASSUME Informed, UNCHANGED <<newest, shown>>, error # "none" => error' # "none"
      PROVE  Informed'
  BY <1>1, <1>9 DEF Informed
<1>10. CASE event.type = "DeviceSnapshot"
  <2>1. /\ connected' = TRUE /\ UNCHANGED <<ops, newest, shown, error>>
        /\ ReloadIfNeeded(visible, TRUE)
    BY <1>10 DEF Apply, event
  <2>2. asking > 0 => asking' > 0
    BY <2>1, ReloadCares DEF Cared
  <2>3. Marked => Marked' \/ asking' > 0
    <3>1. CASE visible /\ rules_stale
      <4>1. asking' = asking + 1
        BY <2>1, <3>1, Zenon DEF ReloadIfNeeded
      <4>. QED
        BY <1>0, <4>1
    <3>2. CASE ~(visible /\ rules_stale)
      <4>1. UNCHANGED rules_stale
        BY <2>1, <3>2, Zenon DEF ReloadIfNeeded
      <4>. QED
        BY <1>1, <3>2, <4>1, Zenon DEF Marked
    <3>. QED
      BY <3>1, <3>2
  <2>4. WillMark => WillMark'
    BY <1>7, <1>10, <2>1
  <2>5. WillRead => WillRead'
    BY <1>8, <1>10, <2>2
  <2>6. Informed => Informed'
    BY <1>9, <2>1
  <2>. QED
    BY <1>4, <2>3, <2>4, <2>5, <2>6 DEF KnowInv
<1>11. CASE event.type = "InvalidateRuleCache"
  <2>1. MarkStale(1) /\ UNCHANGED connected
    BY <1>11 DEF Apply, event
  <2>2. asking' > 0 \/ (rules_stale' /\ ~(visible /\ connected))
    BY <2>1, MarkCares
  <2>3. asking' > 0 \/ Marked'
    BY <1>1, <2>1, <2>2, Zenon DEF Marked
  <2>. QED
    BY <1>4, <2>3
<1>12. CASE event.type \in {"ConnectionLost", "Reconnected"}
  <2>1. UNCHANGED <<ops, asking, newest, shown>> /\ (error # "none" => error' # "none")
    BY <1>12 DEF Apply, event, SetBlocks
  <2>2. \/ connected' = FALSE /\ UNCHANGED rules_stale
        \/ rules_stale' = TRUE /\ UNCHANGED connected
    BY <1>12 DEF Apply, event
  <2>3. Marked => Marked'
    BY <1>1, <2>2, Zenon DEF Marked
  <2>4. WillMark => WillMark'
    BY <1>7, <1>12, <2>1
  <2>5. WillRead => WillRead'
    BY <1>8, <1>12, <2>1
  <2>6. Informed => Informed'
    BY <1>9, <2>1
  <2>. QED
    BY <2>3, <2>4, <2>5, <2>6 DEF KnowInv
<1>13. CASE event.type = "RuleSnapshot"
  <2>1. /\ shown' = event.rules /\ UNCHANGED <<asking, rules_stale, ops, connected>>
        /\ newest' = IF newest > event.rules THEN newest ELSE event.rules
    BY <1>13 DEF Apply, event, SetRules
  <2>2. event.rules \in Versions /\ event.rules \in Nat
    <3>1. event.rules \in Versions
      BY <1>1, <1>13 DEF UiEvent
    <3>. QED
      BY <3>1, RuleCacheAssumption DEF Versions
  <2>3. shown' # None
    BY <2>1, <2>2, NoneIsAbsent
  <2>4. newest' >= newest /\ newest' >= event.rules
    BY <1>0, <2>1, <2>2
  <2>5. Informed => Informed'
    <3>1. newest >= due => newest' >= due'
      BY <1>0, <1>1, <2>1, <2>2
    <3>. QED
      BY <2>3, <3>1 DEF Informed
  <2>6. event.rules >= due => Informed'
    <3>1. event.rules >= due => newest' >= due'
      BY <1>0, <1>1, <2>1, <2>2
    <3>. QED
      BY <2>3, <3>1 DEF Informed
  <2>7. WillRead => WillRead' \/ Informed'
    <3>1. CASE asking > 0
      BY <1>4, <2>1, <3>1
    <3>2. CASE \E v \in Versions : v >= due /\ answered[v] > 0
      BY <1>1, <3>2 DEF WillRead
    <3>3. ASSUME NEW i \in DOMAIN channel, channel[i].type = "RuleSnapshot", channel[i].rules >= due
          PROVE  WillRead' \/ Informed'
      <4>1. CASE channel[i] = event
        BY <2>6, <3>3, <4>1
      <4>2. CASE \E j \in DOMAIN channel' : channel'[j] = channel[i]
        BY <1>1, <3>3, <4>2 DEF WillRead
      <4>. QED
        BY <1>1, <4>1, <4>2
    <3>4. CASE Arrives("RuleSnapshotFailed")
      BY <1>5, <1>13, <3>4 DEF WillRead
    <3>. QED
      BY <3>1, <3>2, <3>3, <3>4 DEF WillRead
  <2>8. Marked => Marked'
    BY <1>1, <2>1, Zenon DEF Marked
  <2>9. WillMark => WillMark'
    BY <1>7, <1>13, <2>1
  <2>. QED
    BY <2>5, <2>7, <2>8, <2>9 DEF KnowInv
<1>14. CASE event.type = "RuleSnapshotFailed"
  <2>1. error' = "shown" /\ newest' = ruleset
    BY <1>14 DEF Apply, event, Failed
  <2>. QED
    BY <1>0, <1>1, <2>1 DEF Informed
<1>15. CASE event.type = "OperationFinished"
  <2>0. event.op \in Ops
    BY <1>1, <1>15 DEF UiEvent
  <2>1. CASE ops[event.op] = None /\ UNCHANGED <<ops, asking, viewVars>>
    <3>1. Marked => Marked'
      BY <1>1, <2>1, Zenon DEF Marked
    <3>2. \A o \in Ops : Ending(o) => event.op # o
      BY <2>1, NoneIsAbsent DEF Ending, Kinds
    <3>3. WillMark => WillMark'
      BY <1>7, <1>15, <2>1, <3>2
    <3>4. WillRead => WillRead'
      BY <1>8, <1>15, <2>1
    <3>5. Informed => Informed'
      BY <1>9, <2>1
    <3>. QED
      BY <3>1, <3>3, <3>4, <3>5 DEF KnowInv
  <2>2. CASE /\ ops' = [ops EXCEPT ![event.op] = None]
             /\ MarkStale(Marks(ops[event.op], event.result))
             /\ UNCHANGED error \/ SetBlocks
             /\ UNCHANGED <<connected, shown, newest>>
    <3>1. Cared
      BY <2>2, MarksType, MarkCares
    <3>2. ops[event.op] = "rule" => asking' > 0 \/ (rules_stale' /\ ~(visible /\ connected))
      BY <2>2, RuleMarks, MarkCares
    <3>3. ops[event.op] = "rule" => asking' > 0 \/ Marked'
      BY <1>1, <2>2, <3>2, Zenon DEF Marked
    <3>4. Marked => Marked' \/ asking' > 0
      BY <1>1, <2>2, <3>1, Zenon DEF Marked, Cared
    <3>5. WillMark => WillMark' \/ Marked' \/ asking' > 0
      <4>1. CASE Ending(event.op)
        BY <3>3, <4>1 DEF Ending
      <4>2. CASE ~Ending(event.op)
        <5>1. \A o \in Ops : Ending(o) => ops'[o] = ops[o] /\ event.op # o
          BY <1>0, <2>2, <4>2
        <5>. QED
          BY <1>7, <1>15, <5>1
      <4>. QED
        BY <4>1, <4>2
    <3>6. WillRead => WillRead'
      BY <1>8, <1>15, <3>1 DEF Cared
    <3>7. Informed => Informed'
      <4>1. error # "none" => error' # "none"
        BY <2>2 DEF SetBlocks
      <4>. QED
        BY <1>9, <2>2, <4>1
    <3>. QED
      BY <1>4, <3>4, <3>5, <3>6, <3>7 DEF KnowInv
  <2>. QED
    BY <1>15, <2>1, <2>2 DEF Apply, event
<1>. QED
  BY <1>1, <1>10, <1>11, <1>12, <1>13, <1>14, <1>15 DEF UiEvent

LEMMA KnowNext == Typed /\ Typed' /\ OpInv /\ KnowInv /\ [Next]_vars => KnowInv'
<1>. SUFFICES ASSUME Typed, Typed', OpInv, KnowInv, [Next]_vars PROVE KnowInv'
  OBVIOUS
<1>1. CASE UNCHANGED vars
  BY <1>1, Zenon
     DEF KnowInv, Informed, WillRead, WillMark, Marked, Sent, Arrives, Ending, Answered, Delivered
<1>2. CASE Next
  BY <1>2, KnowDaemon, KnowOperation, KnowWorker, KnowReads, KnowApply
     DEF Next, Environment, System
<1>. QED
  BY <1>1, <1>2

\* At rest, the page shows what is due or its error, or is marked, unless an
\* older answer overtook a newer one: the interface then knows that it is
\* connected, nothing is on its way, so it has been told or the page is marked
\* and hidden.
THEOREM RulesAreCurrent == Spec => []RulesConverge
<1>1. Init => OpInv /\ ErrorInv /\ KnowInv
  <2>1. Init => OpInv /\ ErrorInv
    BY DEF Init, OpInv, ErrorInv
  <2>2. ASSUME Init PROVE KnowInv
    <3>1. rules_stale = TRUE /\ visible = FALSE /\ due <= ruleset
      BY <2>2 DEF Init
    <3>2. Marked
      BY <3>1, Zenon DEF Marked
    <3>. QED
      BY <3>1, <3>2 DEF KnowInv
  <2>. QED
    BY <2>1, <2>2
<1>2. Typed /\ OpInv /\ ErrorInv /\ LiveInv /\ KnowInv => RulesConverge
  <2>. SUFFICES ASSUME Typed, OpInv, ErrorInv, LiveInv, KnowInv, AtRest
                PROVE  \/ Overtaken \/ Current(due)
                       \/ IF visible THEN error # "none" ELSE rules_stale
    BY DEF RulesConverge
  <2>0. newest \in Nat /\ due \in Nat /\ (shown # None => shown \in Nat)
    BY RuleCacheAssumption DEF Typed, TypeOK, Versions
  <2>1. /\ \A t : ~Arrives(t) /\ ~Sent(t)
        /\ \A o : ~Delivered(o)
        /\ ~ListLast(outbox) /\ ~ListLast(channel)
    BY DEF AtRest, Arrives, Sent, Delivered, ListLast
  <2>2. connected
    BY <2>1, Zenon DEF LiveInv, AtRest
  <2>3. ~WillRead
    <3>1. ~(asking > 0) /\ \A v \in Versions : ~(answered[v] > 0)
      BY DEF AtRest
    <3>2. DOMAIN channel = {}
      BY DEF AtRest
    <3>. QED
      BY <2>1, <3>1, <3>2 DEF WillRead
  <2>4. ~WillMark
    <3>1. \A o \in Ops : ~(cancelling[o] > 0) /\ ~Ending(o)
      BY <2>1 DEF AtRest, Ending
    <3>. QED
      BY <2>1, <3>1 DEF WillMark, AtRest
  <2>5. CASE Marked
    BY <2>2, <2>5, Zenon DEF Marked
  <2>6. CASE Informed
    <3>1. CASE shown # None
      BY <2>0, <2>6, <3>1 DEF Informed, Overtaken, Current
    <3>2. CASE error # "none"
      <4>1. rules_stale
        BY <2>1, <2>3, <3>2 DEF ErrorInv, AtRest
      <4>. QED
        BY <3>2, <4>1, Zenon
    <3>. QED
      BY <2>6, <3>1, <3>2 DEF Informed
  <2>. QED
    BY <2>3, <2>4, <2>5, <2>6 DEF KnowInv
<1>. QED
  BY <1>1, <1>2, TypedInit, TypedNext, LiveInit, LiveNext, OpNext, ErrorNext, KnowNext, PTL DEF Spec
=============================================================================
