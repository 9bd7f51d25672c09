-------------------------- MODULE SupervisorProofs --------------------------
(***************************************************************************)
(* Proofs about the supervisor, for every minimum and maximum backoff:     *)
(* type correctness (the backoff stays within its bounds), that the events *)
(* sent are those ConnectionStatus promises, and that a bridge that does   *)
(* not gain its name is left alone for the whole backoff.                  *)
(***************************************************************************)
EXTENDS Supervisor, FiniteSetTheorems, TLAPS

USE DEF Running, Waiting

-----------------------------------------------------------------------------
(* Type correctness.                                                       *)

LEMMA Clocks ==
    /\ Horizon \in Nat /\ 0 \in 0..Horizon
    /\ BACKOFF_MIN \in BACKOFF_MIN..BACKOFF_MAX /\ 0 \in 0..BACKOFF_MAX
    /\ \A t \in 0..Horizon : Later(t) \in 0..Horizon
    /\ NotGained \notin 0..Horizon
BY SupervisorAssumption DEF Horizon, Later, NotGained

LEMMA TypeInit == Init => TypeOK
BY SupervisorAssumption, Clocks DEF Init, TypeOK, ServiceWait

\* Closing the interface changes nothing else.
LEMMA TypeClose == ASSUME TypeOK, CloseUi PROVE TypeOK'
<1>1. /\ bridge' \in {"absent", "failing", "serving"} /\ ui_open' \in BOOLEAN
      /\ pc' \in Running \cup {"report"} \cup Waiting \cup {"sleep", "done"}
  BY DEF TypeOK, CloseUi
<1>2. /\ ready' \in BOOLEAN /\ ever_connected' \in BOOLEAN /\ shown' \in BOOLEAN
      /\ backoff' \in BACKOFF_MIN..BACKOFF_MAX /\ failures' \in 0..BACKOFF_MAX
      /\ told' \in {"nothing", "ConnectionLost", "Reconnected", "DeviceSnapshot"}
  BY DEF TypeOK, CloseUi, loopVars
<1>3. /\ elapsed' \in 0..Horizon /\ rested' \in 0..Horizon /\ status' \in ServiceWait
      /\ signalled' \in BOOLEAN
      /\ gained' \in 0..Horizon \cup {NotGained} /\ heard' \in 0..Horizon \cup {NotGained}
  BY DEF TypeOK, CloseUi, waitVars
<1>. QED
  BY <1>1, <1>2, <1>3 DEF TypeOK

LEMMA TypeNext == TypeOK /\ [Next]_vars => TypeOK'
<1>. SUFFICES ASSUME TypeOK, [Next]_vars PROVE TypeOK'
  OBVIOUS
<1>1. CASE CloseUi
  BY <1>1, TypeClose
<1>. USE SupervisorAssumption, Clocks DEF TypeOK, busVars, loopVars, waitVars
<1>2. ASSUME NEW b \in {"absent", "failing", "serving"}, BridgeBecomes(b)
      PROVE  TypeOK'
  BY <1>2 DEF BridgeBecomes
<1>3. CASE StreamToClosedUi
  BY <1>3 DEF StreamToClosedUi
<1>4. CASE Connect
  BY <1>4 DEF Connect
<1>5. CASE ReadList
  BY <1>5 DEF ReadList
<1>6. CASE Announce \/ FirstSnapshot
  BY <1>6 DEF Announce, FirstSnapshot, SendEvent
<1>7. CASE StreamLost
  BY <1>7 DEF StreamLost
<1>8. CASE Report
  BY <1>8 DEF Report, NewWait
<1>9. CASE NoticeClosed \/ Watch \/ WatchEnds
  BY <1>9 DEF NoticeClosed, Watch, WatchEnds
<1>10. CASE Check \/ Appear \/ WaitTimesOut
  BY <1>10 DEF Check, Appear, WaitTimesOut, WaitReturns, ServiceWait
<1>11. CASE Retry
  <2>1. Doubled \in BACKOFF_MIN..BACKOFF_MAX
    BY DEF Doubled
  <2>. QED
    BY <1>11, <2>1 DEF Retry
<1>12. CASE Tick
  BY <1>12 DEF Tick
<1>13. CASE UNCHANGED vars
  BY <1>13 DEF vars
<1>. QED
  BY <1>1, <1>2, <1>3, <1>4, <1>5, <1>6, <1>7, <1>8, <1>9, <1>10, <1>11, <1>12,
     <1>13 DEF Next, Loop

\* The supervisor's state keeps its types: the backoff never leaves
\* BACKOFF_MIN..BACKOFF_MAX, however many attempts fail.
THEOREM TypeCorrect == Spec => []TypeOK
BY TypeInit, TypeNext, PTL DEF Spec

-----------------------------------------------------------------------------
(* The events sent are those of ConnectionStatus.                          *)

\* Where the loop is decides what the interface was last told; a device list
\* was shown exactly if some run that is over was ready, except for the run
\* that has just shown its own.
PromiseInv ==
    /\ pc \in Waiting \cup {"connect", "subscribe", "sleep"} =>
            /\ told \in {"nothing", "ConnectionLost"}
            /\ ever_connected <=> shown
            /\ told = "nothing" => ~shown
    /\ pc = "announce" => ready /\ ever_connected /\ shown /\ told = "ConnectionLost"
    /\ pc = "snapshot" =>
            /\ ready
            /\ \/ ever_connected /\ shown /\ told = "Reconnected"
               \/ ~ever_connected /\ ~shown /\ told \in {"nothing", "ConnectionLost"}
    /\ pc = "streaming" => ready /\ shown /\ told = "DeviceSnapshot"
    /\ pc = "report" =>
            \/ ready /\ shown /\ told = "DeviceSnapshot"
            \/ /\ ~ready
               /\ told \in {"nothing", "ConnectionLost"}
               /\ ever_connected <=> shown
               /\ told = "nothing" => ~shown

LEMMA PromiseInit == Init => PromiseInv
BY DEF Init, PromiseInv

LEMMA PromiseNext == TypeOK /\ PromiseInv /\ [Next]_vars => PromiseInv'
<1>. SUFFICES ASSUME TypeOK, PromiseInv, [Next]_vars PROVE PromiseInv'
  OBVIOUS
<1>. USE DEF TypeOK, PromiseInv, busVars, loopVars, waitVars
<1>1. ASSUME NEW b \in {"absent", "failing", "serving"}, BridgeBecomes(b)
      PROVE  PromiseInv'
  BY <1>1 DEF BridgeBecomes
<1>2. CASE CloseUi \/ StreamToClosedUi
  BY <1>2 DEF CloseUi, StreamToClosedUi
<1>3. CASE Connect
  BY <1>3 DEF Connect
<1>4. CASE ReadList
  BY <1>4 DEF ReadList
<1>5. CASE Announce
  BY <1>5 DEF Announce, SendEvent
<1>6. CASE FirstSnapshot
  BY <1>6 DEF FirstSnapshot, SendEvent
<1>7. CASE StreamLost
  BY <1>7 DEF StreamLost
<1>8. CASE Report
  BY <1>8 DEF Report
<1>9. CASE NoticeClosed \/ Watch \/ WatchEnds
  BY <1>9 DEF NoticeClosed, Watch, WatchEnds
<1>10. CASE Check \/ Appear \/ WaitTimesOut
  BY <1>10 DEF Check, Appear, WaitTimesOut, WaitReturns
<1>11. CASE Retry \/ Tick
  BY <1>11 DEF Retry, Tick
<1>12. CASE UNCHANGED vars
  BY <1>12 DEF vars
<1>. QED
  BY <1>1, <1>2, <1>3, <1>4, <1>5, <1>6, <1>7, <1>8, <1>9, <1>10, <1>11, <1>12
     DEF Next, Loop

\* A step of the supervisor is a step of the promise, or no step at all.
LEMMA PromiseStep ==
    TypeOK /\ PromiseInv /\ [Next]_vars => [Promise!Next]_Conclusion
<1>. SUFFICES ASSUME TypeOK, PromiseInv, [Next]_vars
              PROVE  Promise!Next \/ Conclusion' = Conclusion
  OBVIOUS
<1>1. ASSUME UNCHANGED <<told, shown>> PROVE Conclusion' = Conclusion
  BY <1>1 DEF Conclusion
<1>2. CASE Announce
  <2>1. CASE ui_open
    <3>1. Conclusion = "lost" /\ Conclusion' = "reviving"
      BY <1>2, <2>1 DEF Announce, SendEvent, PromiseInv, Conclusion
    <3>. QED
      BY <3>1 DEF Promise!Next, Promise!Reconnect
  <2>2. CASE ~ui_open
    BY <1>1, <1>2, <2>2 DEF Announce, SendEvent, TypeOK
  <2>. QED
    BY <2>1, <2>2
<1>3. CASE FirstSnapshot
  <2>1. CASE ui_open
    <3>1. /\ Conclusion \in {"reviving", "checking", "unreached"}
          /\ Conclusion' = "live"
      BY <1>3, <2>1 DEF FirstSnapshot, SendEvent, PromiseInv, Conclusion
    <3>. QED
      BY <3>1 DEF Promise!Next, Promise!Refresh, Promise!FirstContact
  <2>2. CASE ~ui_open
    BY <1>1, <1>3, <2>2 DEF FirstSnapshot, SendEvent, TypeOK
  <2>. QED
    BY <2>1, <2>2
<1>4. CASE Report
  <2>1. CASE ui_open
    <3>1. \/ Conclusion = "live" /\ Conclusion' = "lost"
          \/ Conclusion = "checking" /\ Conclusion' = "unreached"
          \/ Conclusion' = Conclusion
      BY <1>4, <2>1 DEF Report, PromiseInv, Conclusion
    <3>. QED
      BY <3>1 DEF Promise!Next, Promise!Lose, Promise!NeverReached
  <2>2. CASE ~ui_open
    BY <1>1, <1>4, <2>2 DEF Report
  <2>. QED
    BY <2>1, <2>2
<1>5. ASSUME NEW b \in {"absent", "failing", "serving"}, BridgeBecomes(b)
      PROVE  Conclusion' = Conclusion
  BY <1>1, <1>5 DEF BridgeBecomes, loopVars
<1>6. CASE \/ CloseUi \/ StreamToClosedUi \/ Tick \/ StreamLost \/ NoticeClosed \/ Watch
           \/ WatchEnds
  BY <1>1, <1>6
     DEF CloseUi, StreamToClosedUi, Tick, StreamLost, NoticeClosed, Watch, WatchEnds, loopVars
<1>7. CASE Connect \/ ReadList \/ Check \/ Appear \/ WaitTimesOut \/ Retry
  BY <1>1, <1>7 DEF Connect, ReadList, Check, Appear, WaitTimesOut, Retry, loopVars
<1>8. CASE UNCHANGED vars
  BY <1>1, <1>8 DEF vars, loopVars
<1>. QED
  BY <1>2, <1>3, <1>4, <1>5, <1>6, <1>7, <1>8 DEF Next, Loop

\* The supervisor implements ConnectionStatus: no false reconnection, and
\* every reconnection is followed by the fresh device list.
THEOREM Implements == Spec => KeepsPromise
<1>1. Init => Promise!Init
  BY DEF Init, Promise!Init, Conclusion
<1>2. Spec => []TypeOK
  BY TypeCorrect
<1>3. Spec => []PromiseInv
  BY <1>2, PromiseInit, PromiseNext, PTL DEF Spec
<1>. QED
  BY <1>1, <1>2, <1>3, PromiseStep, PTL DEF Spec, KeepsPromise, Promise!Spec

-----------------------------------------------------------------------------
(* The whole backoff, unless the name was gained.                          *)

\* Appeared is only ever returned for a name gained in this very wait.
GainInv ==
    /\ signalled => gained # NotGained
    /\ pc = "sleep" /\ status = "Appeared" => gained # NotGained

LEMMA GainInit == Init => GainInv
BY DEF Init, GainInv

LEMMA GainNext == TypeOK /\ GainInv /\ [Next]_vars => GainInv'
<1>. SUFFICES ASSUME TypeOK, GainInv, [Next]_vars PROVE GainInv'
  OBVIOUS
<1>. USE DEF GainInv, busVars, loopVars, waitVars
<1>1. ASSUME NEW b \in {"absent", "failing", "serving"}, BridgeBecomes(b)
      PROVE  GainInv'
  <2>1. 0 # NotGained
    BY SupervisorAssumption DEF NotGained, Horizon
  <2>2. signalled' => gained' # NotGained
    BY <1>1, <2>1 DEF BridgeBecomes
  <2>3. gained # NotGained => gained' # NotGained
    BY <1>1 DEF BridgeBecomes
  <2>. QED
    BY <1>1, <2>2, <2>3 DEF BridgeBecomes
<1>2. CASE CloseUi \/ StreamToClosedUi \/ StreamLost \/ NoticeClosed \/ Watch \/ WatchEnds
  BY <1>2 DEF CloseUi, StreamToClosedUi, StreamLost, NoticeClosed, Watch, WatchEnds
<1>3. CASE Connect \/ ReadList \/ Announce \/ FirstSnapshot
  BY <1>3 DEF Connect, ReadList, Announce, FirstSnapshot, SendEvent
<1>4. CASE Report
  BY <1>4 DEF Report, NewWait
<1>5. CASE Check \/ Appear \/ WaitTimesOut
  BY <1>5 DEF Check, Appear, WaitTimesOut, WaitReturns
<1>6. CASE Retry
  BY <1>6 DEF Retry
<1>7. CASE Tick
  <2>1. gained # NotGained => gained' # NotGained
    BY <1>7, Clocks DEF Tick, TypeOK
  <2>. QED
    BY <1>7, <2>1 DEF Tick
<1>8. CASE UNCHANGED vars
  BY <1>8 DEF vars
<1>. QED
  BY <1>1, <1>2, <1>3, <1>4, <1>5, <1>6, <1>7, <1>8 DEF Next, Loop

\* Without a gain of the name during the wait, the next attempt comes only
\* after the whole backoff: an owned but failing bridge is never hammered.
THEOREM FailingServiceIsSpared == Spec => FailingServiceWaits
<1>1. TypeOK /\ GainInv /\ [Next]_vars =>
        [Retry /\ gained = NotGained => elapsed >= backoff]_vars
  BY DEF GainInv, Retry, Delay
<1>2. Spec => []GainInv
  BY TypeCorrect, GainInit, GainNext, PTL DEF Spec
<1>. QED
  BY <1>1, <1>2, TypeCorrect, PTL DEF Spec, FailingServiceWaits
-----------------------------------------------------------------------------
(* Powers of two.                                                          *)

\* Induction over the natural numbers, for a set: a number missing from S
\* would give a smallest initial segment whose end is missing, and initial
\* segments are finite sets, well-founded under strict inclusion.
LEMMA NatSetInduction ==
    ASSUME NEW S, 0 \in S, \A n \in Nat : n \in S => n + 1 \in S
    PROVE  Nat \subseteq S
<1>. SUFFICES ASSUME NEW m \in Nat, m \notin S PROVE FALSE
  OBVIOUS
<1>. DEFINE below(k) == 0..k
            Bad == {below(k) : k \in {j \in Nat : j \notin S}}
<1>1. Bad \subseteq FiniteSubsetsOf(Nat)
  <2>1. ASSUME NEW k \in Nat PROVE IsFiniteSet(below(k)) /\ below(k) \subseteq Nat
    BY FS_Interval
  <2>. QED
    BY <2>1 DEF FiniteSubsetsOf
<1>2. Bad # {}
  OBVIOUS
<1>3. PICK B \in Bad : \A C \in Bad : ~ (<<C, B>> \in StrictSubsetOrdering(Nat))
  <2>. HIDE DEF Bad
  <2>. QED
    BY <1>1, <1>2, FS_StrictSubsetOrderingWellFounded, WFMin
<1>4. PICK k \in Nat : k \notin S /\ B = below(k)
  OBVIOUS
<1>5. k # 0 /\ k - 1 \in Nat /\ k - 1 \notin S
  <2>1. k # 0
    BY <1>4
  <2>2. k - 1 \in Nat /\ (k - 1) + 1 = k
    BY <2>1
  <2>. QED
    BY <1>4, <2>1, <2>2
<1>6. below(k - 1) \in Bad
  BY <1>5
<1>7. below(k - 1) \subseteq Nat /\ below(k) \subseteq Nat
  OBVIOUS
<1>8. below(k - 1) \subseteq below(k) /\ below(k - 1) # below(k)
  <2>1. k \in below(k) /\ k \notin below(k - 1)
    BY <1>5
  <2>. QED
    BY <2>1, <1>5
<1>9. <<below(k - 1), below(k)>> \in StrictSubsetOrdering(Nat)
  <2>. HIDE DEF below
  <2>. QED
    BY <1>7, <1>8 DEF StrictSubsetOrdering
<1>. QED
  BY <1>3, <1>4, <1>6, <1>9

\* g is 2^n for every n up to m.
Doubles(g, m) == 
    /\ g[0] = 1
    /\ \A i \in 1..m : g[i] = 2 * g[i - 1]

LEMMA DoublesExists == \A m \in Nat : \E g \in [Nat -> Nat] : Doubles(g, m)
<1>. DEFINE S == {m \in Nat : \E g \in [Nat -> Nat] : Doubles(g, m)}
<1>1. 0 \in S
  <2>. DEFINE g == [i \in Nat |-> 1]
  <2>1. g \in [Nat -> Nat] /\ Doubles(g, 0)
    BY DEF Doubles
  <2>. QED
    BY <2>1
<1>2. ASSUME NEW m \in Nat, m \in S PROVE m + 1 \in S
  <2>1. PICK g \in [Nat -> Nat] : Doubles(g, m)
    BY <1>2
  <2>. DEFINE h == [g EXCEPT ![m + 1] = 2 * g[m]]
  <2>2. h \in [Nat -> Nat]
    OBVIOUS
  <2>3. h[0] = 1
    BY <2>1 DEF Doubles
  <2>4. ASSUME NEW i \in 1..(m + 1) PROVE h[i] = 2 * h[i - 1]
    <3>1. CASE i = m + 1
      BY <3>1
    <3>2. CASE i \in 1..m
      <4>1. g[i] = 2 * g[i - 1] /\ h[i] = g[i] /\ h[i - 1] = g[i - 1]
        BY <2>1, <3>2 DEF Doubles
      <4>. QED
        BY <4>1
    <3>. QED
      BY <3>1, <3>2
  <2>5. Doubles(h, m + 1)
    BY <2>3, <2>4 DEF Doubles
  <2>. HIDE DEF h
  <2>. QED
    BY <2>2, <2>5
<1>. HIDE DEF S
<1>3. Nat \subseteq S
  BY <1>1, <1>2, NatSetInduction
<1>. QED
  BY <1>3 DEF S

LEMMA DoublesUnique ==
    ASSUME NEW m \in Nat, NEW n \in Nat, NEW g \in [Nat -> Nat], NEW h \in [Nat -> Nat],
           Doubles(g, m), Doubles(h, n)
    PROVE  \A i \in Nat : i <= m /\ i <= n => g[i] = h[i]
<1>. DEFINE S == {i \in Nat : i <= m /\ i <= n => g[i] = h[i]}
<1>1. 0 \in S
  BY DEF Doubles
<1>2. ASSUME NEW i \in Nat, i \in S PROVE i + 1 \in S
  <2>. SUFFICES ASSUME i + 1 <= m, i + 1 <= n PROVE g[i + 1] = h[i + 1]
    OBVIOUS
  <2>1. g[i] = h[i]
    BY <1>2
  <2>2. i + 1 \in 1..m /\ i + 1 \in 1..n /\ (i + 1) - 1 = i
    OBVIOUS
  <2>. QED
    BY <2>1, <2>2 DEF Doubles
<1>. HIDE DEF S
<1>3. Nat \subseteq S
  BY <1>1, <1>2, NatSetInduction
<1>. QED
  BY <1>3 DEF S

LEMMA Power2Def ==
    /\ Power2 = [n \in Nat |-> IF n = 0 THEN 1 ELSE 2 * Power2[n - 1]]
<1>. DEFINE a(n) == CHOOSE g \in [Nat -> Nat] : Doubles(g, n)
            f == [n \in Nat |-> a(n)[n]]
<1>1. ASSUME NEW n \in Nat PROVE a(n) \in [Nat -> Nat] /\ Doubles(a(n), n)
  BY DoublesExists
<1>2. ASSUME NEW n \in Nat, n # 0 PROVE a(n)[n] = 2 * a(n - 1)[n - 1]
  <2>1. n - 1 \in Nat /\ n \in 1..n /\ n - 1 <= n
    BY <1>2
  <2>2. a(n)[n] = 2 * a(n)[n - 1]
    BY <1>1, <2>1 DEF Doubles
  <2>3. a(n)[n - 1] = a(n - 1)[n - 1]
    <3>1. /\ a(n) \in [Nat -> Nat] /\ Doubles(a(n), n)
          /\ a(n - 1) \in [Nat -> Nat] /\ Doubles(a(n - 1), n - 1)
      BY <1>1, <2>1
    <3>. HIDE DEF a
    <3>2. \A i \in Nat : i <= n /\ i <= n - 1 => a(n)[i] = a(n - 1)[i]
      BY ZenonT(60), <3>1, <2>1, DoublesUnique
    <3>. QED
      BY <3>2, <2>1
  <2>. QED
    BY <2>2, <2>3
<1>3. a(0)[0] = 1
  BY <1>1 DEF Doubles
<1>. HIDE DEF a
<1>4. f = [n \in Nat |-> IF n = 0 THEN 1 ELSE 2 * f[n - 1]]
  BY <1>2, <1>3
<1>. HIDE DEF f
<1>. QED
  BY <1>4 DEF Power2

LEMMA Power2Values ==
    /\ Power2[0] = 1
    /\ \A n \in Nat : Power2[n + 1] = 2 * Power2[n]
<1>1. 0 \in Nat /\ Power2[0] = 1
  BY Power2Def
<1>2. ASSUME NEW n \in Nat PROVE Power2[n + 1] = 2 * Power2[n]
  <2>1. n + 1 \in Nat /\ n + 1 # 0 /\ (n + 1) - 1 = n
    OBVIOUS
  <2>. QED
    BY <2>1, Power2Def
<1>. QED
  BY <1>1, <1>2

LEMMA Power2Bound == \A n \in Nat : Power2[n] \in Nat /\ Power2[n] > n
<1>. DEFINE S == {n \in Nat : Power2[n] \in Nat /\ Power2[n] > n}
<1>1. 0 \in S
  BY Power2Values
<1>2. ASSUME NEW n \in Nat, n \in S PROVE n + 1 \in S
  BY <1>2, Power2Values
<1>. HIDE DEF S
<1>3. Nat \subseteq S
  BY <1>1, <1>2, NatSetInduction
<1>. QED
  BY <1>3 DEF S

-----------------------------------------------------------------------------
(* The backoff doubles.                                                    *)

\* Doubling a wait gives the next one; at the ceiling it stays there.
LEMMA WaitDoubles ==
    ASSUME NEW n \in Nat
    PROVE  (IF 2 * Wait(n) <= BACKOFF_MAX THEN 2 * Wait(n) ELSE BACKOFF_MAX) = Wait(n + 1)
<1>. DEFINE w == BACKOFF_MIN * Power2[n]
<1>1. w \in Nat /\ w >= 0
  BY SupervisorAssumption, Power2Bound
<1>2. BACKOFF_MIN * Power2[n + 1] = 2 * w
  BY SupervisorAssumption, Power2Bound, Power2Values
<1>3. /\ Wait(n) = IF w <= BACKOFF_MAX THEN w ELSE BACKOFF_MAX
      /\ Wait(n + 1) = IF 2 * w <= BACKOFF_MAX THEN 2 * w ELSE BACKOFF_MAX
  BY <1>2 DEF Wait
<1>4. BACKOFF_MAX \in Nat /\ BACKOFF_MAX > 0
  BY SupervisorAssumption
<1>. HIDE DEF w
<1>. QED
  BY <1>1, <1>3, <1>4

\* The count of the failures stops where the wait has long reached its ceiling.
LEMMA WaitCeiling == Wait(BACKOFF_MAX) = BACKOFF_MAX
<1>1. BACKOFF_MAX \in Nat /\ BACKOFF_MIN \in Nat /\ BACKOFF_MIN >= 1
  BY SupervisorAssumption
<1>2. Power2[BACKOFF_MAX] \in Nat /\ Power2[BACKOFF_MAX] > BACKOFF_MAX
  BY <1>1, Power2Bound
<1>3. BACKOFF_MIN * Power2[BACKOFF_MAX] >= Power2[BACKOFF_MAX]
  <2>1. \A a \in Nat, p \in Nat : a >= 1 => a * p >= p
    OBVIOUS
  <2>. QED
    BY <1>1, <1>2, <2>1
<1>4. BACKOFF_MIN * Power2[BACKOFF_MAX] \in Nat
  BY <1>1, <1>2
<1>. QED
  BY <1>1, <1>2, <1>3, <1>4 DEF Wait

LEMMA WaitFirst == Wait(0) = BACKOFF_MIN
BY SupervisorAssumption, Power2Values DEF Wait

\* The wait of the number of failures, wherever the loop is.
BackoffInv == backoff = Wait(failures)

LEMMA BackoffInit == Init => BackoffInv
BY WaitFirst DEF Init, BackoffInv

LEMMA BackoffNext == TypeOK /\ BackoffInv /\ [Next]_vars => BackoffInv'
<1>. SUFFICES ASSUME TypeOK, BackoffInv, [Next]_vars PROVE BackoffInv'
  OBVIOUS
<1>1. (UNCHANGED <<backoff, failures>>) => BackoffInv'
  BY DEF BackoffInv
<1>2. ASSUME NEW b \in {"absent", "failing", "serving"}, BridgeBecomes(b)
      PROVE  BackoffInv'
  BY <1>1, <1>2 DEF BridgeBecomes, loopVars
<1>3. CASE \/ CloseUi \/ StreamToClosedUi \/ StreamLost \/ NoticeClosed \/ Watch
           \/ WatchEnds \/ Tick
  BY <1>1, <1>3
     DEF CloseUi, StreamToClosedUi, StreamLost, NoticeClosed, Watch, WatchEnds, Tick, loopVars
<1>4. CASE Connect \/ ReadList \/ Announce \/ FirstSnapshot
  BY <1>1, <1>4 DEF Connect, ReadList, Announce, FirstSnapshot, SendEvent
<1>5. CASE Check \/ Appear \/ WaitTimesOut
  BY <1>1, <1>5 DEF Check, Appear, WaitTimesOut, loopVars
<1>6. CASE Report
  BY <1>1, <1>6, WaitFirst DEF Report, BackoffInv
<1>7. CASE Retry
  <2>1. failures \in Nat /\ failures <= BACKOFF_MAX /\ BACKOFF_MAX \in Nat
    BY SupervisorAssumption DEF TypeOK
  <2>2. backoff' = Wait(failures + 1)
    BY <1>7, <2>1, WaitDoubles DEF Retry, Doubled, BackoffInv
  <2>3. CASE failures < BACKOFF_MAX
    BY <1>7, <2>2, <2>3 DEF Retry, BackoffInv
  <2>4. CASE failures = BACKOFF_MAX
    <3>1. backoff' = BACKOFF_MAX
      BY <1>7, <2>1, <2>4, WaitCeiling DEF Retry, Doubled, BackoffInv
    <3>2. failures' = failures
      BY <1>7, <2>1, <2>4 DEF Retry
    <3>. QED
      BY <2>4, <3>1, <3>2, WaitCeiling DEF BackoffInv
  <2>. QED
    BY <2>1, <2>3, <2>4
<1>8. CASE UNCHANGED vars
  BY <1>1, <1>8 DEF vars, loopVars
<1>. QED
  BY <1>2, <1>3, <1>4, <1>5, <1>6, <1>7, <1>8 DEF Next, Loop

\* The waits are MIN, 2 MIN, 4 MIN ... up to MAX, and start over exactly when
\* an attempt had read the devices, for every MIN and MAX.
THEOREM BackoffIsExponential == Spec => []BackoffDoubles
<1>1. Spec => []BackoffInv
  BY TypeCorrect, BackoffInit, BackoffNext, PTL DEF Spec
<1>2. BackoffInv => BackoffDoubles
  BY DEF BackoffInv, BackoffDoubles
<1>. QED
  BY <1>1, <1>2, PTL

-----------------------------------------------------------------------------
(* An appearance wakes the client.                                         *)

\* An appearance that was heard ends the wait at once; in the sleep it is the
\* answer, or the whole backoff was over as well, and no time passes but up to
\* the minimum.
HeardInv ==
    heard # NotGained /\ pc \in Waiting \cup {"sleep"} =>
        /\ heard <= elapsed
        /\ \/ pc = "await" /\ signalled /\ elapsed = heard
           \/ /\ pc = "sleep"
              /\ status = "Appeared" \/ heard >= backoff
              /\ elapsed = heard \/ elapsed <= BACKOFF_MIN

LEMMA HeardInit == Init => HeardInv
BY DEF Init, HeardInv

\* The clocks and the limits are numbers.
LEMMA Numbers ==
    ASSUME TypeOK
    PROVE  /\ elapsed \in Nat /\ elapsed <= Horizon /\ backoff \in Nat
           /\ BACKOFF_MIN \in Nat /\ BACKOFF_MIN <= backoff /\ BACKOFF_MIN < Horizon
           /\ Horizon \in Nat /\ elapsed # NotGained
           /\ heard # NotGained => heard \in Nat
BY SupervisorAssumption DEF TypeOK, Horizon, NotGained

LEMMA HeardNext == TypeOK /\ HeardInv /\ [Next]_vars => HeardInv'
<1>. SUFFICES ASSUME TypeOK, HeardInv, [Next]_vars PROVE HeardInv'
  OBVIOUS
<1>0. TypeOK'
  BY TypeNext
<1>. USE Numbers DEF HeardInv, busVars, loopVars, waitVars
<1>1. ASSUME NEW b \in {"absent", "failing", "serving"}, BridgeBecomes(b)
      PROVE  HeardInv'
  <2>1. UNCHANGED <<pc, elapsed, status, backoff>> /\ (signalled => signalled')
    BY <1>1 DEF BridgeBecomes
  <2>2. CASE heard' = heard
    BY <2>1, <2>2
  <2>3. CASE pc = "await" /\ heard' = elapsed /\ signalled'
    BY <2>1, <2>3
  <2>4. heard' = heard \/ (pc = "await" /\ heard' = elapsed /\ signalled')
    BY <1>1 DEF BridgeBecomes
  <2>. QED
    BY <2>2, <2>3, <2>4
<1>2. CASE CloseUi \/ StreamToClosedUi \/ StreamLost \/ NoticeClosed
  BY <1>2 DEF CloseUi, StreamToClosedUi, StreamLost, NoticeClosed
<1>3. CASE Connect \/ ReadList \/ Announce \/ FirstSnapshot
  BY <1>3 DEF Connect, ReadList, Announce, FirstSnapshot, SendEvent
<1>4. CASE Report
  BY <1>4 DEF Report, NewWait
<1>5. CASE Watch \/ WatchEnds
  BY <1>5 DEF Watch, WatchEnds
<1>6. CASE Check
  <2>1. pc = "check" /\ heard = NotGained /\ elapsed' = elapsed /\ signalled' = signalled
    BY <1>6 DEF Check
  <2>2. heard' = heard \/ (pc' = "await" /\ signalled /\ heard' = elapsed)
    BY <1>6 DEF Check
  <2>. QED
    BY <2>1, <2>2
<1>7. CASE Appear \/ WaitTimesOut
  BY <1>7 DEF Appear, WaitTimesOut, WaitReturns
<1>8. CASE Retry
  BY <1>8 DEF Retry
<1>9. CASE Tick
  <2>. SUFFICES ASSUME heard # NotGained PROVE HeardInv'
    BY <1>9 DEF Tick
  <2>1. pc = "sleep" /\ ~(elapsed >= Delay) /\ heard <= elapsed /\ heard \in Nat
    BY <1>9 DEF Tick, TimerDue
  <2>2. status = "Appeared" /\ elapsed < BACKOFF_MIN
    BY <2>1 DEF Delay
  <2>3. elapsed' = elapsed + 1
    BY <1>9, <2>2 DEF Tick, Later
  <2>4. UNCHANGED <<pc, status, heard, backoff>>
    BY <1>9 DEF Tick
  <2>. QED
    BY <2>1, <2>2, <2>3, <2>4
<1>10. CASE UNCHANGED vars
  BY <1>10 DEF vars
<1>. QED
  BY <1>1, <1>2, <1>3, <1>4, <1>5, <1>6, <1>7, <1>8, <1>9, <1>10 DEF Next, Loop

\* Once name_has_owner has found no owner, the next attempt after an
\* appearance comes when it was heard, or at the minimum if that is later, for
\* every minimum and maximum.
THEOREM AppearanceIsAnswered == Spec => HeardAppearanceWakes
<1>1. TypeOK /\ HeardInv /\ [Next]_vars =>
        [Retry /\ heard # NotGained =>
            elapsed = IF heard > BACKOFF_MIN THEN heard ELSE BACKOFF_MIN]_vars
  <2>. SUFFICES ASSUME TypeOK, HeardInv, Retry, heard # NotGained
                PROVE  elapsed = IF heard > BACKOFF_MIN THEN heard ELSE BACKOFF_MIN
    OBVIOUS
  <2>1. /\ heard \in Nat /\ heard <= elapsed
        /\ status = "Appeared" \/ heard >= backoff
        /\ elapsed = heard \/ elapsed <= BACKOFF_MIN
    BY Numbers DEF HeardInv, Retry
  <2>2. elapsed >= BACKOFF_MIN
    BY Numbers DEF Retry, Delay
  <2>. QED
    BY <2>1, <2>2, Numbers
<1>2. Spec => []HeardInv
  BY TypeCorrect, HeardInit, HeardNext, PTL DEF Spec
<1>. QED
  BY <1>1, <1>2, TypeCorrect, PTL DEF Spec, HeardAppearanceWakes
=============================================================================
