--------------------------- MODULE RuleClientProofs ---------------------------
(***************************************************************************)
(* Proofs about RuleClient, for every value of its constants: its types,   *)
(* that what the user is told of a write is true, and that a rule is       *)
(* removed, or added, where the user pointed.                              *)
(***************************************************************************)
EXTENDS RuleClient, FiniteSetTheorems, SequenceTheorems, TLAPS

USE DEF opVars, vars

-----------------------------------------------------------------------------
(* The errors.                                                             *)

\* Only a failure of the transport is reported as unreachable, and what the
\* client reports is an error it knows.
LEMMA AppErrorTypes ==
    ASSUME NEW err \in ErrorShape
    PROVE  /\ AppError(err) \in AppErrors
           /\ AppError(err).type # "Inconclusive"
           /\ AppError(err).type = "Unreachable" <=> Transport(err)
<1>. DEFINE state == Classify(err, "unknown")
<1>1. ~Transport(err) => state \in Denials
  BY DEF Classify, Transport, Denials
<1>. HIDE DEF state
<1>2. CASE Transport(err)
  <2>1. AppError(err) = Error("Unreachable")
    BY <1>2 DEF AppError, ToAppError
  <2>. QED
    BY <1>2, <2>1 DEF Error, AppErrors
<1>3. CASE ~Transport(err)
  <2>1. AppError(err) = Error("Rejected") \/ AppError(err) = Denied(state)
    BY <1>3 DEF AppError, ToAppError, state
  <2>. QED
    BY <1>1, <1>3, <2>1 DEF Error, Denied, AppErrors
<1>. QED
  BY <1>2, <1>3

LEMMA FailureTypes ==
    /\ ReadErrors \subseteq Failures \ {"Inconclusive"}
    /\ \A e \in WriteErrors :
        /\ e.type \in Failures
        /\ e.type = "Inconclusive" <=> e.transport
    /\ {"Stale", "Inconclusive"} \subseteq Failures
    /\ Failures \cap Success = {}
<1>0. \A err \in ErrorShape : MutationError(err) \in AppErrors
                              /\ (MutationError(err).type = "Inconclusive" <=> Transport(err))
  BY AppErrorTypes DEF MutationError, Error, AppErrors
<1>1. ReadErrors \subseteq Failures \ {"Inconclusive"}
  BY AppErrorTypes DEF ReadErrors, Failures
<1>2. \A e \in WriteErrors :
        /\ e.type \in Failures
        /\ e.type = "Inconclusive" <=> e.transport
  BY <1>0 DEF WriteErrors, Failures
<1>3. Error("Stale") \in AppErrors /\ Error("Inconclusive") \in AppErrors
  BY DEF Error, AppErrors
<1>4. {"Stale", "Inconclusive"} \subseteq Failures
  BY <1>3 DEF Error, Failures
<1>5. \A e \in AppErrors : e.type \notin Success
  BY DEF AppErrors, Success
<1>. QED
  BY <1>1, <1>2, <1>4, <1>5 DEF Failures

-----------------------------------------------------------------------------
(* Rulesets and what is found in them.                                     *)

LEMMA WithoutProperties ==
    ASSUME rules \in Seq(Rule), NEW i \in DOMAIN rules
    PROVE  /\ Without(i) \in Seq(Rule)
           /\ Len(Without(i)) = Len(rules) - 1
           /\ \A j \in 1..(Len(rules) - 1) :
                Without(i)[j] = IF j < i THEN rules[j] ELSE rules[j + 1]
<1>. DEFINE before == SubSeq(rules, 1, i - 1)
            after == SubSeq(rules, i + 1, Len(rules))
<1>1. /\ Len(rules) \in Nat /\ DOMAIN rules = 1..Len(rules)
      /\ \A j \in 1..Len(rules) : rules[j] \in Rule
  BY LenProperties, ElementOfSeq
<1>2. /\ before \in Seq(Rule) /\ Len(before) = i - 1
      /\ \A j \in 1..(i - 1) : before[j] = rules[j]
  <2>1. \A j \in 1..(i - 1) : rules[j] \in Rule
    BY <1>1
  <2>. QED
    BY <1>1, <2>1, SubSeqProperties, 1 \in Int, i - 1 \in Int
<1>3. /\ after \in Seq(Rule) /\ Len(after) = Len(rules) - i
      /\ \A j \in 1..(Len(rules) - i) : after[j] = rules[i + j]
  <2>1. \A j \in (i + 1)..Len(rules) : rules[j] \in Rule
    BY <1>1
  <2>2. /\ after \in Seq(Rule)
        /\ Len(after) = IF i + 1 <= Len(rules) THEN Len(rules) - (i + 1) + 1 ELSE 0
        /\ \A j \in 1..(Len(rules) - (i + 1) + 1) : after[j] = rules[(i + 1) + j - 1]
    BY <1>1, <2>1, SubSeqProperties, i + 1 \in Int, Len(rules) \in Int
  <2>. HIDE DEF after
  <2>3. Len(rules) - (i + 1) + 1 = Len(rules) - i
    BY <1>1
  <2>4. Len(after) = Len(rules) - i
    BY <1>1, <2>2
  <2>5. ASSUME NEW j \in 1..(Len(rules) - i) PROVE after[j] = rules[i + j]
    <3>1. (i + 1) + j - 1 = i + j
      BY <1>1
    <3>2. after[j] = rules[(i + 1) + j - 1]
      BY <2>2, <2>3
    <3>. QED
      BY <3>1, <3>2
  <2>. QED
    BY <2>2, <2>4, <2>5
<1>4. Without(i) = before \o after
  BY DEF Without
<1>. HIDE DEF before, after
<1>5. /\ before \o after \in Seq(Rule)
      /\ Len(before \o after) = Len(before) + Len(after)
      /\ \A j \in 1..(Len(before) + Len(after)) : (before \o after)[j] =
            IF j <= Len(before) THEN before[j] ELSE after[j - Len(before)]
  BY <1>2, <1>3, ConcatProperties
<1>6. ASSUME NEW j \in 1..(Len(rules) - 1)
      PROVE  (before \o after)[j] = IF j < i THEN rules[j] ELSE rules[j + 1]
  <2>1. (before \o after)[j] = IF j <= i - 1 THEN before[j] ELSE after[j - (i - 1)]
    BY SMTT(30), <1>1, <1>2, <1>3, <1>5
  <2>2. CASE j < i
    <3>1. j \in 1..(i - 1) /\ j <= i - 1
      BY <1>1, <2>2
    <3>. QED
      BY <1>2, <2>1, <2>2, <3>1
  <2>3. CASE j >= i
    <3>1. j - (i - 1) \in 1..(Len(rules) - i) /\ i + (j - (i - 1)) = j + 1
      BY <1>1, <2>3
    <3>2. (before \o after)[j] = after[j - (i - 1)]
      BY <1>1, <2>1, <2>3
    <3>3. after[j - (i - 1)] = rules[i + (j - (i - 1))]
      BY <1>3, <3>1
    <3>4. (before \o after)[j] = rules[j + 1]
      BY <3>1, <3>2, <3>3
    <3>5. ~(j < i)
      BY <1>1, <2>3
    <3>. QED
      BY <3>4, <3>5
  <2>4. j < i \/ j >= i
    BY <1>1
  <2>. QED
    BY <2>2, <2>3, <2>4
<1>. QED
  BY <1>1, <1>2, <1>3, <1>4, <1>5, <1>6

LEMMA InsertedProperties ==
    ASSUME rules \in Seq(Rule), NEW i \in 0..Len(rules), NEW rule \in Rule
    PROVE  /\ InsertedAfter(i, rule) \in Seq(Rule)
           /\ Len(InsertedAfter(i, rule)) = Len(rules) + 1
           /\ \A j \in 1..(Len(rules) + 1) :
                InsertedAfter(i, rule)[j] =
                    IF j <= i THEN rules[j] ELSE IF j = i + 1 THEN rule ELSE rules[j - 1]
<1>. DEFINE before == SubSeq(rules, 1, i)
            first == Append(before, rule)
            after == SubSeq(rules, i + 1, Len(rules))
<1>1. /\ Len(rules) \in Nat /\ DOMAIN rules = 1..Len(rules)
      /\ \A j \in 1..Len(rules) : rules[j] \in Rule
  BY LenProperties, ElementOfSeq
<1>2. /\ before \in Seq(Rule) /\ Len(before) = i
      /\ \A j \in 1..i : before[j] = rules[j]
  <2>1. \A j \in 1..i : rules[j] \in Rule
    BY <1>1
  <2>. QED
    BY <1>1, <2>1, SubSeqProperties, 1 \in Int, i \in Int
<1>3. /\ after \in Seq(Rule) /\ Len(after) = Len(rules) - i
      /\ \A j \in 1..(Len(rules) - i) : after[j] = rules[i + j]
  <2>1. \A j \in (i + 1)..Len(rules) : rules[j] \in Rule
    BY <1>1
  <2>2. /\ after \in Seq(Rule)
        /\ Len(after) = IF i + 1 <= Len(rules) THEN Len(rules) - (i + 1) + 1 ELSE 0
        /\ \A j \in 1..(Len(rules) - (i + 1) + 1) : after[j] = rules[(i + 1) + j - 1]
    BY <1>1, <2>1, SubSeqProperties, i + 1 \in Int, Len(rules) \in Int
  <2>. HIDE DEF after
  <2>3. Len(rules) - (i + 1) + 1 = Len(rules) - i
    BY <1>1
  <2>4. Len(after) = Len(rules) - i
    <3>1. CASE i + 1 <= Len(rules)
      BY <2>2, <2>3, <3>1
    <3>2. CASE ~(i + 1 <= Len(rules))
      <4>. DEFINE n == Len(rules)
      <4>0. n \in Nat /\ i \in 0..n /\ ~(i + 1 <= n)
        BY <1>1, <3>2
      <4>. HIDE DEF n
      <4>1. i = n /\ n - i = 0
        BY <4>0
      <4>. QED
        BY <2>2, <3>2, <4>1 DEF n
    <3>. QED
      BY <3>1, <3>2
  <2>5. ASSUME NEW j \in 1..(Len(rules) - i) PROVE after[j] = rules[i + j]
    <3>1. (i + 1) + j - 1 = i + j
      BY SMTT(30), <1>1
    <3>2. after[j] = rules[(i + 1) + j - 1]
      BY <2>2, <2>3
    <3>. QED
      BY <3>1, <3>2
  <2>. QED
    BY <2>2, <2>4, <2>5
<1>4. /\ first \in Seq(Rule) /\ Len(first) = i + 1
      /\ \A j \in 1..i : first[j] = rules[j]
      /\ first[i + 1] = rule
  <2>. HIDE DEF before
  <2>. QED
    BY <1>2, AppendProperties
<1>5. InsertedAfter(i, rule) = first \o after
  BY DEF InsertedAfter
<1>. HIDE DEF before, first, after
<1>6. /\ first \o after \in Seq(Rule)
      /\ Len(first \o after) = Len(first) + Len(after)
      /\ \A j \in 1..(Len(first) + Len(after)) : (first \o after)[j] =
            IF j <= Len(first) THEN first[j] ELSE after[j - Len(first)]
  BY <1>3, <1>4, ConcatProperties
<1>7. ASSUME NEW j \in 1..(Len(rules) + 1)
      PROVE  (first \o after)[j] =
                IF j <= i THEN rules[j] ELSE IF j = i + 1 THEN rule ELSE rules[j - 1]
  <2>1. CASE j <= i + 1
    <3>1. (first \o after)[j] = first[j]
      BY <1>1, <1>3, <1>4, <1>6, <2>1
    <3>2. j \in 1..i \/ (j = i + 1 /\ ~(j <= i))
      BY <1>1, <2>1
    <3>. QED
      BY <1>4, <3>1, <3>2
  <2>2. CASE j > i + 1
    <3>1. j - (i + 1) \in 1..(Len(rules) - i) /\ i + (j - (i + 1)) = j - 1
      BY <1>1, <2>2
    <3>2. (first \o after)[j] = after[j - (i + 1)]
      BY <1>1, <1>3, <1>4, <1>6, <2>2
    <3>3. after[j - (i + 1)] = rules[i + (j - (i + 1))]
      BY <1>3, <3>1
    <3>4. (first \o after)[j] = rules[j - 1]
      BY <3>1, <3>2, <3>3
    <3>5. ~(j <= i) /\ j # i + 1
      BY <1>1, <2>2
    <3>. QED
      BY <3>4, <3>5
  <2>3. j <= i + 1 \/ j > i + 1
    BY <1>1
  <2>. QED
    BY <2>1, <2>2, <2>3
<1>. QED
  BY <1>1, <1>3, <1>4, <1>5, <1>6, <1>7

LEMMA RenumberedProperties ==
    ASSUME rules \in Seq(Rule), DOMAIN rules \subseteq RuleIds
    PROVE  /\ Renumbered(rules) \in Seq(Rule)
           /\ Len(Renumbered(rules)) = Len(rules)
           /\ \A j \in 1..Len(rules) : Renumbered(rules)[j].id = j
<1>1. /\ Len(rules) \in Nat /\ DOMAIN rules = 1..Len(rules)
      /\ \A j \in 1..Len(rules) : rules[j] \in Rule
  BY LenProperties, ElementOfSeq
<1>2. \A j \in 1..Len(rules) : [rules[j] EXCEPT !.id = j] \in Rule
                               /\ [rules[j] EXCEPT !.id = j].id = j
  BY <1>1 DEF Rule
<1>3. Renumbered(rules) = [j \in 1..Len(rules) |-> [rules[j] EXCEPT !.id = j]]
  BY <1>1 DEF Renumbered
<1>4. Renumbered(rules) \in [1..Len(rules) -> Rule]
  BY <1>2, <1>3
<1>5. Renumbered(rules) \in Seq(Rule)
  BY <1>1, <1>4, SeqDef
<1>6. Len(Renumbered(rules)) = Len(rules)
  BY <1>1, <1>3, <1>5, LenProperties
<1>7. \A j \in 1..Len(rules) : Renumbered(rules)[j].id = j
  BY <1>2, <1>3
<1>. QED
  BY <1>5, <1>6, <1>7

\* What is listed are handles, one for each rule.
LEMMA HandleProperties ==
    ASSUME rules \in Seq(Rule)
    PROVE  /\ ToHandles(rules) \subseteq RuleHandle
           /\ IsFiniteSet(ToHandles(rules))
           /\ \A text : Resolve(rules, text) \subseteq ToHandles(rules)
                        /\ IsFiniteSet(Resolve(rules, text))
<1>1. /\ Len(rules) \in Nat /\ DOMAIN rules = 1..Len(rules)
      /\ \A j \in 1..Len(rules) : rules[j] \in Rule
  BY LenProperties, ElementOfSeq
<1>2. ToHandles(rules) \subseteq RuleHandle
  BY <1>1 DEF ToHandles, RuleHandle, Rule
<1>3. IsFiniteSet(ToHandles(rules))
  <2>. DEFINE handle == [i \in 1..Len(rules) |->
                    [id |-> rules[i].id, text |-> rules[i].text, position |-> i]]
  <2>1. handle \in Surjection(1..Len(rules), ToHandles(rules))
    BY <1>1 DEF Surjection, ToHandles
  <2>2. IsFiniteSet(1..Len(rules))
    BY <1>1, FS_Interval, 1 \in Int
  <2>. HIDE DEF handle
  <2>. QED
    BY <2>1, <2>2, FS_Surjection
<1>4. \A text : Resolve(rules, text) \subseteq ToHandles(rules)
  BY DEF Resolve
<1>. QED
  BY <1>2, <1>3, <1>4, FS_Subset

-----------------------------------------------------------------------------
(* Type correctness.                                                       *)

LEMMA TypeInit == Init => TypeOK
<1>. SUFFICES ASSUME Init PROVE TypeOK
  OBVIOUS
<1>1. rules \in Seq(Rule)
  <2>1. PICK n \in 0..MaxRules : \E texts \in [1..n -> Texts] :
            rules = [i \in 1..n |-> [id |-> i, text |-> texts[i]]]
    BY DEF Init
  <2>2. 1..n \subseteq RuleIds /\ n \in Nat
    BY RuleClientAssumption
  <2>3. rules \in [1..n -> Rule]
    BY <2>1, <2>2 DEF Rule
  <2>. QED
    BY <2>2, <2>3, SeqDef
<1>2. shown \subseteq RuleHandle
  BY <1>1, HandleProperties DEF Init
<1>3. \A o \in Ops : Cardinality(candidates[o]) = 0
  BY FS_EmptySet DEF Init
<1>. QED
  BY <1>1, <1>2, <1>3 DEF Init, TypeOK

\* Whoever changes the ruleset leaves one with an id and a text for each rule.
LEMMA ChangeTypes ==
    ASSUME TypeOK, NEW ruleset \in Seq(Rule), ChangeRules(ruleset)
    PROVE  rules' \in Seq(Rule) /\ changed' \in [Ops -> BOOLEAN]
BY DEF ChangeRules, TypeOK

LEMMA TypeDaemon == TypeOK /\ (Edit \/ \E o \in Ops : DaemonRemoves(o) \/ DaemonAppends(o)) => TypeOK'
<1>. SUFFICES ASSUME TypeOK,
                     Edit \/ \E o \in Ops : DaemonRemoves(o) \/ DaemonAppends(o)
              PROVE  TypeOK'
  OBVIOUS
<1>1. \A id \in Unused, text \in Texts : [id |-> id, text |-> text] \in Rule
  BY DEF Unused, Rule
<1>2. \A i \in 0..Len(rules), id \in Unused, text \in Texts :
        InsertedAfter(i, [id |-> id, text |-> text]) \in Seq(Rule)
  BY <1>1, InsertedProperties DEF TypeOK
<1>3. \A i \in DOMAIN rules : Without(i) \in Seq(Rule)
  BY WithoutProperties DEF TypeOK
<1>4. CASE Edit
  <2>1. rules' \in Seq(Rule) /\ changed' \in [Ops -> BOOLEAN]
    <3>1. CASE \E i \in DOMAIN rules : ChangeRules(Without(i))
      BY <1>3, <3>1, ChangeTypes
    <3>2. CASE \E i \in 0..Len(rules), id \in Unused, text \in Texts :
                ChangeRules(InsertedAfter(i, [id |-> id, text |-> text]))
      BY <1>2, <3>2, ChangeTypes
    <3>3. CASE DOMAIN rules \subseteq RuleIds /\ ChangeRules(Renumbered(rules))
      BY <3>3, ChangeTypes, RenumberedProperties DEF TypeOK
    <3>. QED
      BY <1>4, <3>1, <3>2, <3>3 DEF Edit
  <2>2. edits' \in Nat
    BY <1>4 DEF Edit, TypeOK
  <2>. QED
    BY <1>4, <2>1, <2>2 DEF Edit, TypeOK
<1>5. ASSUME NEW o \in Ops, DaemonRemoves(o) PROVE TypeOK'
  <2>1. rules' \in Seq(Rule) /\ changed' \in [Ops -> BOOLEAN]
    BY <1>3, <1>5, ChangeTypes DEF DaemonRemoves
  <2>. QED
    BY <1>5, <2>1 DEF DaemonRemoves, TypeOK
<1>6. ASSUME NEW o \in Ops, DaemonAppends(o) PROVE TypeOK'
  <2>1. rules' \in Seq(Rule) /\ changed' \in [Ops -> BOOLEAN]
    BY <1>2, <1>6, ChangeTypes, RuleClientAssumption DEF DaemonAppends
  <2>. QED
    BY <1>6, <2>1 DEF DaemonAppends, TypeOK
<1>. QED
  BY <1>4, <1>5, <1>6

LEMMA TypePage ==
    TypeOK /\ (SetRules \/ \E o \in Ops : StartRemove(o) \/ StartAppend(o) \/ AskWhichRule(o))
        => TypeOK'
<1>. SUFFICES ASSUME TypeOK, SetRules \/ \E o \in Ops :
                        StartRemove(o) \/ StartAppend(o) \/ AskWhichRule(o)
              PROVE  TypeOK'
  OBVIOUS
<1>1. CASE SetRules
  <2>1. shown' \subseteq RuleHandle
    BY <1>1, HandleProperties DEF SetRules, TypeOK
  <2>. QED
    BY <1>1, <2>1 DEF SetRules, TypeOK
<1>2. ASSUME NEW o \in Ops, StartRemove(o) PROVE TypeOK'
  <2>1. PICK handle \in shown : Start(o, "remove", handle, "listing")
    BY <1>2 DEF StartRemove
  <2>2. /\ kind' \in [Ops -> Kinds \cup {None}]
        /\ wanted' \in [Ops -> RuleHandle \cup {None}]
        /\ phase' \in [Ops -> {"idle", "listing", "writing", "asking", "done"}]
        /\ \A p \in Ops : phase'[p] = "asking" <=> phase[p] = "asking"
    BY <2>1 DEF Start, TypeOK, Kinds
  <2>. QED
    BY <1>2, <2>2 DEF StartRemove, TypeOK
<1>3. ASSUME NEW o \in Ops, StartAppend(o) PROVE TypeOK'
  <2>1. PICK handle \in shown \cup {None}, next \in {"listing", "writing", "done"} :
            Start(o, "append", handle, next)
    BY <1>3 DEF StartAppend
  <2>2. /\ kind' \in [Ops -> Kinds \cup {None}]
        /\ wanted' \in [Ops -> RuleHandle \cup {None}]
        /\ phase' \in [Ops -> {"idle", "listing", "writing", "asking", "done"}]
        /\ \A p \in Ops : phase'[p] = "asking" <=> phase[p] = "asking"
    BY <2>1 DEF Start, TypeOK, Kinds
  <2>3. request' \in [Ops -> BOOLEAN] /\ target' \in [Ops -> RuleIds \cup {APPEND_LAST}]
    BY <1>3 DEF StartAppend, TypeOK
  <2>4. told' \in [Ops -> Success \cup Failures \cup {None}]
    <3>1. told' = told \/ \E type \in ReadErrors : Tell(o, type)
      BY <1>3 DEF StartAppend
    <3>. QED
      BY <3>1, FailureTypes DEF Tell, TypeOK
  <2>. QED
    BY <1>3, <2>2, <2>3, <2>4 DEF StartAppend, TypeOK
<1>4. ASSUME NEW asker \in Ops, AskWhichRule(asker) PROVE TypeOK'
  <2>1. ~(Cardinality({}) > 1)
    BY FS_EmptySet
  <2>2. /\ kind' \in [Ops -> Kinds \cup {None}]
        /\ wanted' \in [Ops -> RuleHandle \cup {None}]
        /\ phase' \in [Ops -> {"idle", "listing", "writing", "asking", "done"}]
        /\ phase'[asker] = "done"
        /\ \A p \in Ops \ {asker} : phase'[p] = "asking" <=> phase[p] = "asking"
    <3>1. CASE \E o \in Ops, handle \in candidates[asker] :
                /\ phase[o] = "idle"
                /\ kind' = [kind EXCEPT ![o] = "remove at"]
                /\ wanted' = [wanted EXCEPT ![o] = handle]
                /\ phase' = [phase EXCEPT ![o] = "listing", ![asker] = "done"]
      <4>1. PICK o \in Ops, handle \in candidates[asker] :
                /\ phase[o] = "idle"
                /\ kind' = [kind EXCEPT ![o] = "remove at"]
                /\ wanted' = [wanted EXCEPT ![o] = handle]
                /\ phase' = [phase EXCEPT ![o] = "listing", ![asker] = "done"]
        BY <3>1
      <4>2. kind' \in [Ops -> Kinds \cup {None}]
        BY <4>1 DEF TypeOK, Kinds
      <4>3. handle \in RuleHandle
        BY DEF TypeOK
      <4>4. wanted' \in [Ops -> RuleHandle \cup {None}]
        BY <4>1, <4>3 DEF TypeOK
      <4>5. /\ phase' \in [Ops -> {"idle", "listing", "writing", "asking", "done"}]
            /\ phase'[asker] = "done"
            /\ \A p \in Ops \ {asker} : phase'[p] = "asking" <=> phase[p] = "asking"
        BY <4>1 DEF TypeOK
      <4>. QED
        BY <4>2, <4>4, <4>5
    <3>2. CASE phase' = [phase EXCEPT ![asker] = "done"] /\ UNCHANGED <<kind, wanted>>
      BY <3>2 DEF TypeOK
    <3>. QED
      BY <1>4, <3>1, <3>2 DEF AskWhichRule
  <2>3. /\ candidates' \in [Ops -> SUBSET RuleHandle]
        /\ candidates'[asker] = {}
        /\ \A p \in Ops \ {asker} : candidates'[p] = candidates[p]
    BY <1>4 DEF AskWhichRule, TypeOK
  <2>4. ASSUME NEW p \in Ops
        PROVE  phase'[p] = "asking" <=> Cardinality(candidates'[p]) > 1
    <3>1. CASE p = asker
      BY <2>1, <2>2, <2>3, <3>1
    <3>2. CASE p # asker
      BY <2>2, <2>3, <3>2 DEF TypeOK
    <3>. QED
      BY <3>1, <3>2
  <2>. QED
    BY <1>4, <2>2, <2>3, <2>4 DEF AskWhichRule, TypeOK
<1>. QED
  BY <1>1, <1>2, <1>3, <1>4

LEMMA TypeClient ==
    TypeOK /\ (\E o \in Ops : ListRules(o) \/ ListFails(o) \/ Succeed(o) \/ WriteFails(o))
        => TypeOK'
<1>. SUFFICES ASSUME TypeOK, NEW o \in Ops,
                     ListRules(o) \/ ListFails(o) \/ Succeed(o) \/ WriteFails(o)
              PROVE  TypeOK'
  OBVIOUS
<1>0. told' \in [Ops -> Success \cup Failures \cup {None}]
  <2>1. told' = told \/ \E message \in Success \cup Failures : Tell(o, message)
    <3>1. {"AlreadyGone", "Ambiguous", "Added", "Removed"} \subseteq Success
      BY DEF Success
    <3>2. CASE ListRules(o)
      BY <3>1, <3>2, FailureTypes
         DEF ListRules, RemoveRule, RemoveRuleAt, AppendRuleAfter, End, Write
    <3>3. CASE ListFails(o)
      BY <3>3, FailureTypes DEF ListFails, End
    <3>4. CASE Succeed(o)
      BY <3>1, <3>4 DEF Succeed, End
    <3>5. CASE WriteFails(o)
      BY <3>5, FailureTypes DEF WriteFails
    <3>. QED
      BY <3>2, <3>3, <3>4, <3>5
  <2>. QED
    BY <2>1 DEF Tell, TypeOK
<1>1. CASE ListRules(o)
  <2>. DEFINE found == Resolve(rules, wanted[o].text)
  <2>1. found \subseteq RuleHandle
    BY HandleProperties DEF TypeOK
  <2>. HIDE DEF found
  <2>2. RemoveRule(o, found) \/ RemoveRuleAt(o, found) \/ AppendRuleAfter(o, found)
    BY <1>1 DEF ListRules, found
  <2>3. CASE \E handle \in found : Write(o, handle)
    BY <1>0, <1>1, <2>1, <2>3 DEF Write, ListRules, RuleHandle, TypeOK
  <2>4. CASE \E message : End(o, message)
    BY <1>0, <1>1, <2>4 DEF End, ListRules, TypeOK
  <2>5. CASE /\ Cardinality(found) > 1
             /\ candidates' = [candidates EXCEPT ![o] = found]
             /\ phase' = [phase EXCEPT ![o] = "asking"]
             /\ UNCHANGED <<target, request>>
    BY <1>0, <1>1, <2>1, <2>5 DEF ListRules, TypeOK
  <2>. QED
    BY <2>2, <2>3, <2>4, <2>5 DEF RemoveRule, RemoveRuleAt, AppendRuleAfter
<1>2. CASE ListFails(o) \/ Succeed(o)
  BY <1>0, <1>2 DEF ListFails, Succeed, End, TypeOK
<1>3. CASE WriteFails(o)
  BY <1>0, <1>3 DEF WriteFails, TypeOK
<1>. QED
  BY <1>1, <1>2, <1>3

LEMMA TypeNext == TypeOK /\ [Next]_vars => TypeOK'
<1>. SUFFICES ASSUME TypeOK, [Next]_vars PROVE TypeOK'
  OBVIOUS
<1>1. CASE UNCHANGED vars
  BY <1>1 DEF TypeOK
<1>2. CASE Next
  BY <1>2, TypeDaemon, TypePage, TypeClient DEF Next
<1>. QED
  BY <1>1, <1>2

\* Ids and handles are what they should be, a question has at least two
\* candidates as long as it is open, and every message is one the window knows.
THEOREM TypeCorrect == Spec => []TypeOK
BY TypeInit, TypeNext, PTL DEF Spec

-----------------------------------------------------------------------------
(* Messages.                                                               *)

\* What the phase of an operation says of its message and of its write: a
\* request that is on its way has not been executed, and one that outlives
\* its task was reported as inconclusive.
PhaseInv(o) ==
    /\ phase[o] \in {"idle", "listing", "asking"} => ~request[o] /\ ~executed[o]
    /\ phase[o] \in {"idle", "listing"} => told[o] = None
    /\ phase[o] = "asking" => told[o] = "Ambiguous"
    /\ phase[o] = "writing" => told[o] = None /\ request[o] = ~executed[o]
    /\ phase[o] = "done" =>
        \/ told[o] = "Inconclusive" /\ (request[o] => ~executed[o])
        \/ /\ told[o] # None /\ ~request[o]
           /\ executed[o] = (told[o] \in {"Removed", "Added"})

PhasesInv == \A o \in Ops : PhaseInv(o)

\* What is told and known of an operation is its own.
LEMMA PhaseFrame ==
    ASSUME NEW o \in Ops, PhaseInv(o), phase'[o] = phase[o], told'[o] = told[o],
           request'[o] = request[o], executed'[o] = executed[o]
    PROVE  PhaseInv(o)'
BY DEF PhaseInv

LEMMA PhasesDaemon ==
    ASSUME TypeOK, PhasesInv, NEW o \in Ops, DaemonRemoves(o) \/ DaemonAppends(o)
    PROVE  PhasesInv'
<1>1. /\ request[o] /\ request' = [request EXCEPT ![o] = FALSE]
      /\ executed' = [executed EXCEPT ![o] = TRUE]
      /\ UNCHANGED <<phase, told>>
  BY DEF DaemonRemoves, DaemonAppends
<1>2. ASSUME NEW p \in Ops PROVE PhaseInv(p)'
  <2>1. CASE p = o
    BY <1>1, <2>1 DEF PhasesInv, PhaseInv, TypeOK
  <2>2. CASE p # o
    BY <1>1, <2>2, PhaseFrame DEF PhasesInv, TypeOK
  <2>. QED
    BY <2>1, <2>2
<1>. QED
  BY <1>2 DEF PhasesInv

LEMMA PhasesPage ==
    ASSUME TypeOK, PhasesInv, NEW o \in Ops,
           StartRemove(o) \/ StartAppend(o) \/ AskWhichRule(o)
    PROVE  PhasesInv'
<1>1. UNCHANGED executed
  BY DEF StartRemove, StartAppend, AskWhichRule
<1>2. CASE StartRemove(o) /\ UNCHANGED told
  <2>1. phase[o] = "idle" /\ phase' = [phase EXCEPT ![o] = "listing"] /\ UNCHANGED request
    BY <1>2 DEF StartRemove, Start
  <2>. QED
    BY <1>1, <1>2, <2>1 DEF PhasesInv, PhaseInv, TypeOK
<1>3. CASE StartAppend(o)
  <2>1. /\ phase[o] = "idle"
        /\ \/ /\ phase' = [phase EXCEPT ![o] = "listing"]
              /\ UNCHANGED <<request, told>>
           \/ /\ phase' = [phase EXCEPT ![o] = "writing"]
              /\ request' = [request EXCEPT ![o] = TRUE] /\ UNCHANGED told
           \/ /\ phase' = [phase EXCEPT ![o] = "done"] /\ UNCHANGED request
              /\ \E type \in ReadErrors : told' = [told EXCEPT ![o] = type]
    BY <1>3 DEF StartAppend, Start, Tell
  <2>2. \A type \in ReadErrors : type # None /\ type \notin {"Removed", "Added"}
    BY NoneIsAbsent, FailureTypes DEF Success
  <2>3. PhaseInv(o)'
    <3>0. ~request[o] /\ ~executed'[o] /\ told[o] = None
      BY <1>1, <2>1 DEF PhasesInv, PhaseInv
    <3>1. CASE phase' = [phase EXCEPT ![o] = "listing"] /\ UNCHANGED <<request, told>>
      BY <3>0, <3>1 DEF PhaseInv, TypeOK
    <3>2. CASE /\ phase' = [phase EXCEPT ![o] = "writing"]
               /\ request' = [request EXCEPT ![o] = TRUE] /\ UNCHANGED told
      BY <3>0, <3>2 DEF PhaseInv, TypeOK
    <3>3. ASSUME NEW type \in ReadErrors, phase' = [phase EXCEPT ![o] = "done"],
                 UNCHANGED request, told' = [told EXCEPT ![o] = type]
          PROVE  PhaseInv(o)'
      <4>1. phase'[o] = "done" /\ told'[o] = type /\ ~request'[o]
        BY <3>0, <3>3 DEF TypeOK
      <4>2. executed'[o] = FALSE
        BY <1>1, <3>0 DEF TypeOK
      <4>3. told'[o] # None /\ (told'[o] \in {"Removed", "Added"}) = FALSE
        BY <2>2, <4>1
      <4>. QED
        BY <4>1, <4>2, <4>3 DEF PhaseInv
    <3>. QED
      BY <2>1, <3>1, <3>2, <3>3
  <2>4. ASSUME NEW p \in Ops \ {o} PROVE PhaseInv(p)'
    <3>1. phase'[p] = phase[p] /\ request'[p] = request[p] /\ told'[p] = told[p]
      BY <2>1 DEF TypeOK
    <3>. QED
      BY <1>1, <3>1, PhaseFrame DEF PhasesInv
  <2>. QED
    BY <2>3, <2>4 DEF PhasesInv
<1>4. CASE AskWhichRule(o) /\ UNCHANGED told
  <2>1. UNCHANGED request /\ phase[o] = "asking"
    BY <1>4 DEF AskWhichRule
  <2>2. \/ \E p \in Ops : /\ phase[p] = "idle"
                          /\ phase' = [phase EXCEPT ![p] = "listing", ![o] = "done"]
        \/ phase' = [phase EXCEPT ![o] = "done"]
    BY <1>4 DEF AskWhichRule
  <2>3. ASSUME NEW p \in Ops
        PROVE  \/ phase'[p] = phase[p]
               \/ phase[p] = "idle" /\ phase'[p] = "listing"
               \/ phase[p] = "asking" /\ phase'[p] = "done"
    BY <2>1, <2>2 DEF TypeOK
  <2>4. "Ambiguous" # None
    BY NoneIsAbsent DEF Success
  <2>5. ASSUME NEW p \in Ops PROVE PhaseInv(p)'
    <3>1. /\ told'[p] = told[p] /\ executed'[p] = executed[p] /\ request'[p] = request[p]
          /\ PhaseInv(p)
      BY <1>1, <1>4, <2>1 DEF PhasesInv
    <3>2. CASE phase'[p] = phase[p]
      BY <3>1, <3>2, PhaseFrame
    <3>3. CASE phase[p] = "idle" /\ phase'[p] = "listing"
      BY <3>1, <3>3 DEF PhaseInv
    <3>4. CASE phase[p] = "asking" /\ phase'[p] = "done"
      BY <2>4, <3>1, <3>4 DEF PhaseInv, TypeOK
    <3>. QED
      BY <2>3, <3>2, <3>3, <3>4
  <2>. QED
    BY <2>5 DEF PhasesInv
<1>5. (StartRemove(o) \/ AskWhichRule(o)) => UNCHANGED told
  BY DEF StartRemove, AskWhichRule
<1>. QED
  BY <1>2, <1>3, <1>4, <1>5

LEMMA PhasesClient ==
    ASSUME TypeOK, PhasesInv, NEW o \in Ops,
           ListRules(o) \/ ListFails(o) \/ Succeed(o) \/ WriteFails(o)
    PROVE  PhasesInv'
<1>1. /\ UNCHANGED executed
      /\ \A p \in Ops \ {o} : /\ phase'[p] = phase[p] /\ told'[p] = told[p]
                             /\ request'[p] = request[p]
  BY DEF ListRules, ListFails, Succeed, WriteFails, RemoveRule, RemoveRuleAt, AppendRuleAfter,
         End, Write, Tell, TypeOK
<1>2. None \notin Success \cup Failures
  BY NoneIsAbsent
<1>3. CASE ListRules(o)
  <2>1. phase[o] = "listing"
    BY <1>3 DEF ListRules
  <2>2. \/ \E message \in {"AlreadyGone", "Stale"} : End(o, message)
        \/ \E handle : Write(o, handle)
        \/ Tell(o, "Ambiguous") /\ phase' = [phase EXCEPT ![o] = "asking"] /\ UNCHANGED request
    BY <1>3 DEF ListRules, RemoveRule, RemoveRuleAt, AppendRuleAfter
  <2>3. "AlreadyGone" # None /\ "Stale" # None
    BY <1>2, FailureTypes DEF Success
  <2>4. PhaseInv(o)'
    <3>1. ~request[o] /\ ~executed[o] /\ told[o] = None
      BY <2>1 DEF PhasesInv, PhaseInv
    <3>2. CASE \E message \in {"AlreadyGone", "Stale"} : End(o, message)
      BY <1>1, <2>3, <3>1, <3>2 DEF End, Tell, PhaseInv, TypeOK
    <3>3. CASE \E handle : Write(o, handle)
      BY <1>1, <3>1, <3>3 DEF Write, PhaseInv, TypeOK
    <3>4. CASE Tell(o, "Ambiguous") /\ phase' = [phase EXCEPT ![o] = "asking"] /\ UNCHANGED request
      BY <1>1, <3>1, <3>4 DEF Tell, PhaseInv, TypeOK
    <3>. QED
      BY <2>2, <3>2, <3>3, <3>4
  <2>. QED
    BY <1>1, <2>4, PhaseFrame DEF PhasesInv
<1>4. CASE ListFails(o)
  <2>1. phase[o] = "listing" /\ \E type \in ReadErrors : End(o, type)
    BY <1>4 DEF ListFails
  <2>2. \A type \in ReadErrors : type # None /\ type \notin {"Removed", "Added"}
    BY <1>2, FailureTypes DEF Success
  <2>3. PhaseInv(o)'
    BY <1>1, <2>1, <2>2 DEF End, Tell, PhasesInv, PhaseInv, TypeOK
  <2>. QED
    BY <1>1, <2>3, PhaseFrame DEF PhasesInv
<1>5. CASE Succeed(o)
  <2>1. /\ phase[o] = "writing" /\ executed[o]
        /\ \E message \in {"Added", "Removed"} : End(o, message)
    BY <1>5 DEF Succeed
  <2>2. "Added" # None /\ "Removed" # None
    BY <1>2 DEF Success
  <2>3. PhaseInv(o)'
    BY ZenonT(60), <1>1, <2>1, <2>2 DEF End, Tell, PhasesInv, PhaseInv, TypeOK
  <2>. QED
    BY <1>1, <2>3, PhaseFrame DEF PhasesInv
<1>6. CASE WriteFails(o)
  <2>1. phase[o] = "writing" /\ phase' = [phase EXCEPT ![o] = "done"]
    BY <1>6 DEF WriteFails
  <2>2. PICK err \in WriteErrors :
            /\ executed[o] => err.transport
            /\ Tell(o, err.type)
            /\ (err.transport /\ UNCHANGED request) \/ request' = [request EXCEPT ![o] = FALSE]
    BY <1>6 DEF WriteFails
  <2>3. /\ err.type # None /\ err.type \notin {"Removed", "Added"}
        /\ err.type = "Inconclusive" <=> err.transport
    BY <1>2, FailureTypes DEF Success
  <2>4. PhaseInv(o)'
    BY <1>1, <2>1, <2>2, <2>3 DEF Tell, PhasesInv, PhaseInv, TypeOK
  <2>. QED
    BY <1>1, <2>4, PhaseFrame DEF PhasesInv
<1>. QED
  BY <1>3, <1>4, <1>5, <1>6

LEMMA PhasesNext == TypeOK /\ PhasesInv /\ [Next]_vars => PhasesInv'
<1>. SUFFICES ASSUME TypeOK, PhasesInv, [Next]_vars PROVE PhasesInv'
  OBVIOUS
<1>1. CASE UNCHANGED <<phase, told, request, executed>>
  BY <1>1, PhaseFrame DEF PhasesInv
<1>2. CASE ~UNCHANGED <<phase, told, request, executed>>
  <2>1. Next /\ ~Edit /\ ~SetRules
    BY <1>2 DEF Edit, SetRules
  <2>. QED
    BY <2>1, PhasesDaemon, PhasesPage, PhasesClient DEF Next
<1>. QED
  BY <1>1, <1>2

LEMMA PhasesInit == Init => PhasesInv
BY DEF Init, PhasesInv, PhaseInv

\* What the user is told stays true: a write reported as done was executed, and
\* after any message but Inconclusive none will be.
THEOREM MessagesTrue == Spec => []MessagesAreTrue
<1>1. TypeOK /\ PhasesInv => MessagesAreTrue
  BY DEF PhasesInv, PhaseInv, MessagesAreTrue, TypeOK
<1>. QED
  BY <1>1, TypeCorrect, PhasesInit, PhasesNext, PTL DEF Spec

-----------------------------------------------------------------------------
(* Ids.                                                                    *)

\* At any one time an id is one rule's.
UniqueIds == \A i, j \in DOMAIN rules : rules[i].id = rules[j].id => i = j

LEMMA UniqueInit == Init => UniqueIds
BY DEF Init, UniqueIds

LEMMA UniqueWithout ==
    ASSUME rules \in Seq(Rule), UniqueIds, NEW n \in DOMAIN rules, rules' = Without(n),
           rules' \in Seq(Rule)
    PROVE  UniqueIds'
<1>1. DOMAIN rules = 1..Len(rules) /\ Len(rules) \in Nat
  BY SMTT(30), LenProperties
<1>2. DOMAIN rules' = 1..(Len(rules) - 1)
  BY <1>1, WithoutProperties, LenProperties
<1>. DEFINE old(j) == IF j < n THEN j ELSE j + 1
<1>3. ASSUME NEW j \in DOMAIN rules'
      PROVE  old(j) \in DOMAIN rules /\ rules'[j] = rules[old(j)]
  <2>1. rules'[j] = IF j < n THEN rules[j] ELSE rules[j + 1]
    BY <1>2, WithoutProperties
  <2>2. old(j) \in DOMAIN rules
    BY <1>1, <1>2
  <2>. QED
    BY <2>1, <2>2
<1>4. \A i, j \in DOMAIN rules' : old(i) = old(j) => i = j
  BY <1>1, <1>2
<1>. HIDE DEF old
<1>. QED
  BY <1>3, <1>4 DEF UniqueIds

LEMMA UniqueInserted ==
    ASSUME rules \in Seq(Rule), UniqueIds, NEW n \in 0..Len(rules), NEW rule \in Rule,
           rule.id \in Unused, rules' = InsertedAfter(n, rule), rules' \in Seq(Rule)
    PROVE  UniqueIds'
<1>1. DOMAIN rules = 1..Len(rules) /\ Len(rules) \in Nat
  BY LenProperties
<1>2. DOMAIN rules' = 1..(Len(rules) + 1)
  BY <1>1, InsertedProperties, LenProperties
<1>. DEFINE old(j) == IF j <= n THEN j ELSE j - 1
<1>3. ASSUME NEW j \in DOMAIN rules', j # n + 1
      PROVE  old(j) \in DOMAIN rules /\ rules'[j] = rules[old(j)]
  <2>1. rules'[j] = IF j <= n THEN rules[j] ELSE rules[j - 1]
    BY SMTT(30), <1>2, <1>3, InsertedProperties
  <2>2. old(j) \in DOMAIN rules
    BY <1>1, <1>2, <1>3
  <2>. QED
    BY <2>1, <2>2
<1>4. rules'[n + 1] = rule
  <2>1. n + 1 \in 1..(Len(rules) + 1) /\ ~(n + 1 <= n)
    BY <1>1
  <2>2. rules'[n + 1] = IF n + 1 <= n THEN rules[n + 1] ELSE
                        IF n + 1 = n + 1 THEN rule ELSE rules[n + 1 - 1]
    BY <2>1, InsertedProperties
  <2>. QED
    BY <2>1, <2>2
<1>5. \A i, j \in DOMAIN rules' : i # n + 1 /\ j # n + 1 /\ old(i) = old(j) => i = j
  BY <1>1, <1>2
<1>6. \A i \in DOMAIN rules : rules[i].id # rule.id
  BY DEF Unused
<1>. HIDE DEF old
<1>. QED
  BY SMTT(30), <1>3, <1>4, <1>5, <1>6 DEF UniqueIds

LEMMA UniqueNext == TypeOK /\ UniqueIds /\ [Next]_vars => UniqueIds'
<1>. SUFFICES ASSUME TypeOK, UniqueIds, [Next]_vars PROVE UniqueIds'
  OBVIOUS
<1>0. rules \in Seq(Rule) /\ rules' \in Seq(Rule)
  BY TypeNext DEF TypeOK
<1>1. \A id \in Unused, text \in Texts :
        [id |-> id, text |-> text] \in Rule /\ [id |-> id, text |-> text].id \in Unused
  BY DEF Unused, Rule
<1>2. CASE rules' = rules
  BY <1>2 DEF UniqueIds
<1>3. CASE Edit
  <2>1. CASE \E i \in DOMAIN rules : ChangeRules(Without(i))
    BY <1>0, <2>1, UniqueWithout DEF ChangeRules
  <2>2. CASE \E i \in 0..Len(rules), id \in Unused, text \in Texts :
                ChangeRules(InsertedAfter(i, [id |-> id, text |-> text]))
    BY <1>0, <1>1, <2>2, UniqueInserted DEF ChangeRules
  <2>3. CASE DOMAIN rules \subseteq RuleIds /\ ChangeRules(Renumbered(rules))
    <3>1. Len(rules') = Len(rules) /\ \A j \in 1..Len(rules) : rules'[j].id = j
      BY <1>0, <2>3, RenumberedProperties DEF ChangeRules
    <3>2. DOMAIN rules' = 1..Len(rules')
      BY <1>0, LenProperties
    <3>. QED
      BY <3>1, <3>2 DEF UniqueIds
  <2>. QED
    BY <1>3, <2>1, <2>2, <2>3 DEF Edit
<1>4. ASSUME NEW o \in Ops, DaemonRemoves(o) PROVE UniqueIds'
  BY <1>0, <1>4, UniqueWithout DEF DaemonRemoves, ChangeRules
<1>5. ASSUME NEW o \in Ops, DaemonAppends(o) PROVE UniqueIds'
  BY <1>0, <1>1, <1>5, UniqueInserted, RuleClientAssumption DEF DaemonAppends, ChangeRules
<1>6. Next => rules' = rules \/ Edit \/ \E o \in Ops : DaemonRemoves(o) \/ DaemonAppends(o)
  BY DEF Next, SetRules, StartRemove, StartAppend, AskWhichRule, ListRules, ListFails, Succeed,
         WriteFails
<1>. QED
  BY <1>2, <1>3, <1>4, <1>5, <1>6

-----------------------------------------------------------------------------
(* Where a write hits.                                                     *)

\* A new rule after the i-th goes where the user pointed.
InPlace(o, i) ==
    /\ rules[i].text = wanted[o].text
    /\ \/ i = wanted[o].position
       \/ \A j \in DOMAIN rules : rules[j].text = wanted[o].text => j = i

WantedInv(o) == phase[o] = "listing" => kind[o] \in Kinds /\ wanted[o] \in RuleHandle

RemovalInv(o) ==
    request[o] /\ ~changed[o] /\ kind[o] # "append" =>
        \A i \in DOMAIN rules : rules[i].id = target[o] => Chosen(o, i)

InsertInv(o) ==
    request[o] /\ kind[o] = "append" =>
        IF wanted[o] = None THEN target[o] = APPEND_LAST
        ELSE /\ target[o] \in RuleIds
             /\ ~changed[o] =>
                    \A i \in DOMAIN rules : rules[i].id = target[o] => InPlace(o, i)

HitInv(o) == WantedInv(o) /\ RemovalInv(o) /\ InsertInv(o)
HitsInv == \A o \in Ops : HitInv(o)

\* What a step of others does to an operation: its write, if it is on its way,
\* is noted to be overtaken when the ruleset changes.
Overtaken(o) ==
    /\ kind'[o] = kind[o] /\ wanted'[o] = wanted[o] /\ target'[o] = target[o]
    /\ phase'[o] = "listing" => phase[o] = "listing"
    /\ request'[o] => /\ request[o]
                      /\ changed'[o] \/ (rules' = rules /\ changed'[o] = changed[o])

LEMMA HitFrame ==
    ASSUME NEW o \in Ops, HitInv(o), Overtaken(o)
    PROVE  HitInv(o)'
<1>1. WantedInv(o)'
  BY DEF HitInv, WantedInv, Overtaken
<1>2. RemovalInv(o)'
  BY ZenonT(60) DEF HitInv, RemovalInv, Chosen, Overtaken
<1>3. InsertInv(o)'
  BY DEF HitInv, InsertInv, InPlace, Overtaken
<1>. QED
  BY <1>1, <1>2, <1>3 DEF HitInv

\* The rule that has the id of a handle that was just read is the one the
\* handle stands for.
LEMMA FoundProperties ==
    ASSUME TypeOK, UniqueIds, NEW text, NEW handle \in Resolve(rules, text),
           NEW i \in DOMAIN rules, rules[i].id = handle.id
    PROVE  /\ i = handle.position /\ rules[i].text = text
           /\ Cardinality(Resolve(rules, text)) = 1 =>
                \A j \in DOMAIN rules : rules[j].text = text => j = i
<1>1. PICK n \in DOMAIN rules :
        handle = [id |-> rules[n].id, text |-> rules[n].text, position |-> n]
  BY DEF Resolve, ToHandles
<1>2. i = n
  BY <1>1 DEF UniqueIds
<1>3. handle.text = text
  BY DEF Resolve
<1>4. ASSUME Cardinality(Resolve(rules, text)) = 1, NEW j \in DOMAIN rules, rules[j].text = text
      PROVE  j = i
  <2>. DEFINE other == [id |-> rules[j].id, text |-> rules[j].text, position |-> j]
  <2>1. other \in Resolve(rules, text)
    BY <1>4 DEF Resolve, ToHandles
  <2>2. other = handle
    BY <1>4, <2>1, HandleProperties, FS_Singleton DEF TypeOK
  <2>. QED
    BY <1>1, <1>2, <2>2
<1>. QED
  BY <1>1, <1>2, <1>3, <1>4

LEMMA HitsListing ==
    ASSUME TypeOK, UniqueIds, NEW o \in Ops, HitInv(o), PhaseInv(o), ListRules(o)
    PROVE  HitInv(o)'
<1>. DEFINE found == Resolve(rules, wanted[o].text)
<1>0. /\ phase[o] = "listing" /\ kind[o] \in Kinds /\ wanted[o] \in RuleHandle
      /\ wanted[o] # None /\ ~request[o]
      /\ UNCHANGED <<rules, kind, wanted>>
  BY NoneIsAbsent DEF ListRules, HitInv, WantedInv, PhaseInv
<1>1. /\ found \subseteq RuleHandle
      /\ \A h \in found : h.text = wanted[o].text
  BY HandleProperties DEF TypeOK, Resolve
<1>2. ASSUME ~request'[o], phase'[o] # "listing" PROVE HitInv(o)'
  BY <1>2 DEF HitInv, WantedInv, RemovalInv, InsertInv
<1>3. ASSUME NEW handle \in found, Write(o, handle),
             kind[o] = "remove" => Cardinality(found) = 1,
             kind[o] = "remove at" => handle = wanted[o],
             kind[o] = "append" => Cardinality(found) = 1 \/ handle.position = wanted[o].position
      PROVE  HitInv(o)'
  <2>1. /\ target'[o] = handle.id /\ phase'[o] = "writing" /\ target'[o] \in RuleIds
    BY <1>1, <1>3 DEF Write, TypeOK, RuleHandle
  <2>2. ASSUME NEW i \in DOMAIN rules, rules[i].id = handle.id
        PROVE  /\ i = handle.position /\ rules[i].text = wanted[o].text
               /\ Cardinality(found) = 1 =>
                    \A j \in DOMAIN rules : rules[j].text = wanted[o].text => j = i
    BY <2>2, FoundProperties
  <2>. HIDE DEF found
  <2>3. RemovalInv(o)'
    <3>1. ASSUME kind[o] # "append", NEW i \in DOMAIN rules, rules[i].id = handle.id
          PROVE  Chosen(o, i)
      BY <1>0, <1>3, <2>2, <3>1 DEF Chosen, Kinds
    <3>2. \A i : Chosen(o, i)' <=> Chosen(o, i)
      BY <1>0 DEF Chosen
    <3>. QED
      BY <1>0, <2>1, <3>1, <3>2 DEF RemovalInv
  <2>4. InsertInv(o)'
    <3>1. ASSUME kind[o] = "append", NEW i \in DOMAIN rules, rules[i].id = handle.id
          PROVE  InPlace(o, i)
      BY <1>3, <2>2, <3>1 DEF InPlace
    <3>. QED
      BY <1>0, <2>1, <3>1 DEF InsertInv, InPlace
  <2>. QED
    BY <2>1, <2>3, <2>4 DEF HitInv, WantedInv
<1>. HIDE DEF found
<1>4. \/ kind[o] = "remove" /\ RemoveRule(o, found)
      \/ kind[o] = "remove at" /\ RemoveRuleAt(o, found)
      \/ kind[o] = "append" /\ AppendRuleAfter(o, found)
  BY DEF ListRules, found
<1>5. CASE \E message : End(o, message)
  BY <1>0, <1>2, <1>5 DEF End, TypeOK
<1>6. CASE phase' = [phase EXCEPT ![o] = "asking"] /\ UNCHANGED request
  BY <1>0, <1>2, <1>6 DEF TypeOK
<1>7. CASE /\ kind[o] = "remove" /\ Cardinality(found) = 1
           /\ \E handle \in found : Write(o, handle)
  BY <1>3, <1>7
<1>8. CASE kind[o] = "remove at" /\ wanted[o] \in found /\ Write(o, wanted[o])
  BY <1>3, <1>8
<1>9. CASE /\ kind[o] = "append"
           /\ \E anchor \in IF Cardinality(found) = 1 THEN found
                           ELSE {h \in found : h.position = wanted[o].position} :
                Write(o, anchor)
  BY <1>3, <1>9
<1>. QED
  BY <1>4, <1>5, <1>6, <1>7, <1>8, <1>9 DEF RemoveRule, RemoveRuleAt, AppendRuleAfter

LEMMA HitsNext == TypeOK /\ PhasesInv /\ UniqueIds /\ HitsInv /\ [Next]_vars => HitsInv'
<1>. SUFFICES ASSUME TypeOK, PhasesInv, UniqueIds, HitsInv, [Next]_vars, NEW o \in Ops
              PROVE  HitInv(o)'
  BY DEF HitsInv
<1>0. HitInv(o) /\ PhaseInv(o)
  BY DEF HitsInv, PhasesInv
<1>1. CASE UNCHANGED vars
  BY <1>0, <1>1, HitFrame DEF Overtaken
<1>2. CASE Edit
  <2>1. changed'[o] = (changed[o] \/ request[o])
    BY <1>2 DEF Edit, ChangeRules
  <2>. QED
    BY <1>0, <1>2, <2>1, HitFrame DEF Edit, Overtaken
<1>3. CASE SetRules
  BY <1>0, <1>3, HitFrame DEF SetRules, Overtaken
<1>4. ASSUME NEW p \in Ops, DaemonRemoves(p) \/ DaemonAppends(p) PROVE HitInv(o)'
  <2>1. /\ changed'[o] = (changed[o] \/ request[o])
        /\ request' = [request EXCEPT ![p] = FALSE]
        /\ UNCHANGED <<kind, wanted, target, phase>>
    BY <1>4 DEF DaemonRemoves, DaemonAppends, ChangeRules
  <2>. QED
    BY <1>0, <2>1, HitFrame DEF Overtaken, TypeOK
<1>5. ASSUME NEW p \in Ops, StartRemove(p) PROVE HitInv(o)'
  <2>1. CASE p = o
    <3>1. ~request'[o] /\ kind'[o] \in Kinds /\ wanted'[o] \in RuleHandle
      BY <1>0, <1>5, <2>1 DEF StartRemove, Start, PhaseInv, TypeOK, Kinds
    <3>. QED
      BY <3>1 DEF HitInv, WantedInv, RemovalInv, InsertInv
  <2>2. CASE p # o
    BY <1>0, <1>5, <2>2, HitFrame DEF StartRemove, Start, Overtaken, TypeOK
  <2>. QED
    BY <2>1, <2>2
<1>6. ASSUME NEW p \in Ops, StartAppend(p) PROVE HitInv(o)'
  <2>1. CASE p = o /\ \E handle \in shown :
                Start(p, "append", handle, "listing") /\ UNCHANGED request
    <3>1. ~request'[o] /\ kind'[o] \in Kinds /\ wanted'[o] \in RuleHandle
      BY <1>0, <2>1 DEF Start, PhaseInv, TypeOK, Kinds
    <3>. QED
      BY <3>1 DEF HitInv, WantedInv, RemovalInv, InsertInv
  <2>2. CASE /\ p = o /\ Start(p, "append", None, "writing")
             /\ target' = [target EXCEPT ![p] = APPEND_LAST]
    <3>1. /\ phase'[o] = "writing" /\ kind'[o] = "append" /\ wanted'[o] = None
          /\ target'[o] = APPEND_LAST
      BY <2>2 DEF Start, TypeOK
    <3>. QED
      BY <3>1 DEF HitInv, WantedInv, RemovalInv, InsertInv
  <2>3. CASE p # o
    BY <1>0, <1>6, <2>3, HitFrame DEF StartAppend, Start, Overtaken, TypeOK
  <2>4. CASE p = o /\ Start(p, "append", None, "done") /\ UNCHANGED request
    <3>1. ~request'[o] /\ phase'[o] = "done"
      BY <1>0, <2>4 DEF Start, PhaseInv, TypeOK
    <3>. QED
      BY <3>1 DEF HitInv, WantedInv, RemovalInv, InsertInv
  <2>. QED
    BY <1>6, <2>1, <2>2, <2>3, <2>4 DEF StartAppend
<1>7. ASSUME NEW p \in Ops, AskWhichRule(p) PROVE HitInv(o)'
  <2>0. UNCHANGED <<rules, target, request, changed>> /\ phase[p] = "asking"
    BY <1>7 DEF AskWhichRule
  <2>1. ASSUME NEW q \in Ops, NEW handle \in candidates[p], phase[q] = "idle",
               kind' = [kind EXCEPT ![q] = "remove at"],
               wanted' = [wanted EXCEPT ![q] = handle],
               phase' = [phase EXCEPT ![q] = "listing", ![p] = "done"]
        PROVE  HitInv(o)'
    <3>1. CASE q = o
      <4>1. handle \in RuleHandle
        BY DEF TypeOK
      <4>2. ~request'[o] /\ kind'[o] \in Kinds /\ wanted'[o] \in RuleHandle
        BY <1>0, <2>0, <2>1, <3>1, <4>1 DEF PhaseInv, TypeOK, Kinds
      <4>. QED
        BY <4>2 DEF HitInv, WantedInv, RemovalInv, InsertInv
    <3>2. CASE q # o
      <4>1. /\ kind'[o] = kind[o] /\ wanted'[o] = wanted[o]
            /\ phase'[o] = phase[o] \/ phase'[o] = "done"
        BY <2>1, <3>2 DEF TypeOK
      <4>. QED
        BY <1>0, <2>0, <4>1, HitFrame DEF Overtaken
    <3>. QED
      BY <3>1, <3>2
  <2>2. CASE phase' = [phase EXCEPT ![p] = "done"] /\ UNCHANGED <<kind, wanted>>
    <3>1. phase'[o] = phase[o] \/ phase'[o] = "done"
      BY <2>2 DEF TypeOK
    <3>. QED
      BY <1>0, <2>0, <2>2, <3>1, HitFrame DEF Overtaken
  <2>. QED
    BY <1>7, <2>1, <2>2 DEF AskWhichRule
<1>8. ASSUME NEW p \in Ops, ListRules(p) PROVE HitInv(o)'
  <2>1. CASE p = o
    BY <1>0, <1>8, <2>1, HitsListing
  <2>2. CASE p # o
    BY ZenonT(60), <1>0, <1>8, <2>2, HitFrame
       DEF ListRules, RemoveRule, RemoveRuleAt, AppendRuleAfter, End, Write, Overtaken, TypeOK
  <2>. QED
    BY <2>1, <2>2
<1>9. ASSUME NEW p \in Ops, ListFails(p) \/ Succeed(p) PROVE HitInv(o)'
  BY <1>0, <1>9, HitFrame DEF ListFails, Succeed, End, Overtaken, TypeOK
<1>10. ASSUME NEW p \in Ops, WriteFails(p) PROVE HitInv(o)'
  <2>1. /\ UNCHANGED <<rules, kind, wanted, target, changed>>
        /\ phase' = [phase EXCEPT ![p] = "done"]
        /\ UNCHANGED request \/ request' = [request EXCEPT ![p] = FALSE]
    BY <1>10 DEF WriteFails
  <2>. QED
    BY <1>0, <2>1, HitFrame DEF Overtaken, TypeOK
<1>. QED
  BY <1>1, <1>2, <1>3, <1>4, <1>5, <1>6, <1>7, <1>8, <1>9, <1>10 DEF Next

LEMMA HitsInit == Init => HitsInv
BY DEF Init, HitsInv, HitInv, WantedInv, RemovalInv, InsertInv

LEMMA Inductive == Spec => [](TypeOK /\ PhasesInv /\ UniqueIds /\ HitsInv)
BY TypeCorrect, PhasesInit, PhasesNext, UniqueInit, UniqueNext, HitsInit, HitsNext, PTL DEF Spec

\* A removal that no change of the ruleset overtakes removes the rule the user
\* chose, never an heir of its id and never one of several equal rules.
THEOREM RemovesChosen == Spec => RemovesTheChosenRule
<1>1. HitsInv => [\A o \in Ops :
        DaemonRemoves(o) /\ ~changed[o] =>
            \E i \in DOMAIN rules : rules' = Without(i) /\ Chosen(o, i)]_vars
  BY DEF HitsInv, HitInv, RemovalInv, DaemonRemoves, ChangeRules
<1>. QED
  BY <1>1, Inductive, PTL DEF RemovesTheChosenRule

\* A rule is added where the user pointed: after a rule that reads like the
\* chosen one, the one in its place if there are several, or at the end.
THEOREM InsertsChosen == Spec => InsertsWhereChosen
<1>1. TypeOK /\ HitsInv => [\A o \in Ops :
        DaemonAppends(o) =>
            \/ changed[o] /\ wanted[o] # None
            \/ \E i \in 0..Len(rules), id \in Unused :
                /\ rules' = InsertedAfter(i, [id |-> id, text |-> NewText])
                /\ IF wanted[o] = None THEN i = Len(rules)
                   ELSE /\ i > 0 /\ rules[i].text = wanted[o].text
                        /\ \/ i = wanted[o].position
                           \/ \A j \in DOMAIN rules : rules[j].text = wanted[o].text => j = i]_vars
  <2>. SUFFICES ASSUME TypeOK, HitsInv, NEW o \in Ops, DaemonAppends(o),
                       ~(changed[o] /\ wanted[o] # None)
                PROVE  \E i \in 0..Len(rules), id \in Unused :
                /\ rules' = InsertedAfter(i, [id |-> id, text |-> NewText])
                /\ IF wanted[o] = None THEN i = Len(rules)
                   ELSE /\ i > 0 /\ rules[i].text = wanted[o].text
                        /\ \/ i = wanted[o].position
                           \/ \A j \in DOMAIN rules : rules[j].text = wanted[o].text => j = i
    OBVIOUS
  <2>1. PICK i \in 0..Len(rules), id \in Unused :
            /\ IF target[o] = APPEND_LAST THEN i = Len(rules)
               ELSE i > 0 /\ rules[i].id = target[o]
            /\ rules' = InsertedAfter(i, [id |-> id, text |-> NewText])
    BY DEF DaemonAppends, ChangeRules
  <2>2. request[o] /\ kind[o] = "append" /\ InsertInv(o)
    BY DEF DaemonAppends, HitsInv, HitInv
  <2>3. CASE wanted[o] = None
    BY <2>1, <2>2, <2>3 DEF InsertInv
  <2>4. CASE wanted[o] # None
    <3>1. target[o] # APPEND_LAST
      BY <2>2, <2>4, RuleClientAssumption DEF InsertInv, APPEND_LAST
    <3>2. i \in DOMAIN rules /\ i > 0 /\ rules[i].id = target[o]
      BY <2>1, <3>1, LenProperties DEF TypeOK
    <3>3. InPlace(o, i)
      BY <2>2, <2>4, <3>2 DEF InsertInv
    <3>. QED
      BY <2>1, <2>4, <3>2, <3>3 DEF InPlace
  <2>. QED
    BY <2>3, <2>4
<1>. QED
  BY <1>1, Inductive, PTL DEF InsertsWhereChosen
=============================================================================
