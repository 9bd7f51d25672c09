----------------------------- MODULE RuleClient -----------------------------
(***************************************************************************)
(* Removing and adding rules: the identity protocol of src/dbus/client.rs, *)
(* the policy page, the question which of several equal rules is meant and *)
(* the messages of src/ui/window.rs.                                       *)
(*                                                                         *)
(* The daemon is external: its ids are volatile, other clients edit the    *)
(* ruleset at any time, and it offers no conditional write.  Each operation *)
(* is a task with a connection of its own.  That a new rule is well formed *)
(* is RuleDialog's part; when the page is read again is RuleCache's.       *)
(***************************************************************************)
EXTENDS Naturals, FiniteSets, Sequences, DBusErrors

CONSTANTS
    Ops,        \* the operations the user may start
    Texts,      \* rule texts, one of them that of the rules the user adds
    NewText,
    None,       \* an absent value
    RuleIds,    \* the ids the daemon hands out
    MaxRules,   \* bound: rules other clients let the ruleset grow to
    MaxEdits    \* bound: changes of the ruleset by other clients

ASSUME RuleClientAssumption ==
    /\ NewText \in Texts
    /\ MaxRules \in Nat /\ MaxEdits \in Nat
    /\ RuleIds \subseteq Nat \ {0}
    /\ 1..MaxRules \subseteq RuleIds

VARIABLES
    rules,      \* the daemon's ruleset, in evaluation order
    edits,      \* how often other clients have changed it
    shown,      \* the handles of the policy page
    kind,       \* each operation: what it does,
    wanted,     \*   the handle it was started with (append: its anchor),
    phase,      \*   how far its task is,
    target,     \*   the id it has found,
    request,    \*   whether its write is on its way to the daemon,
    candidates, \*   and what "Which rule?" offers
    told,       \* the message each operation ended with
    executed,   \* history: the daemon has executed its write
    changed     \* history: the ruleset has changed while it was

opVars == <<kind, wanted, candidates>>
vars == <<rules, edits, shown, opVars, phase, target, request, told,
          executed, changed>>

-----------------------------------------------------------------------------
Rule == [id: RuleIds, text: Texts]
RuleHandle == [id: RuleIds, text: Texts, position: Nat]
Kinds == {"remove", "remove at", "append"}
APPEND_LAST == 0

Success == {"Removed", "AlreadyGone", "Ambiguous", "Added"}
Failures == {err.type : err \in AppErrors}

ASSUME NoneIsAbsent == None \notin Kinds \cup RuleHandle \cup Success \cup Failures

\* What the errors of a read and of a write come to.
ReadErrors == {AppError(err).type : err \in ErrorShape}
WriteErrors ==
    {[transport |-> Transport(err), type |-> MutationError(err).type] : err \in ErrorShape}

TypeOK ==
    /\ rules \in Seq(Rule)
    /\ edits \in Nat
    /\ shown \subseteq RuleHandle
    /\ kind \in [Ops -> Kinds \cup {None}]
    /\ wanted \in [Ops -> RuleHandle \cup {None}]
    /\ phase \in [Ops -> {"idle", "listing", "writing", "asking", "done"}]
    /\ target \in [Ops -> RuleIds \cup {APPEND_LAST}]
    /\ request \in [Ops -> BOOLEAN]
    /\ candidates \in [Ops -> SUBSET RuleHandle]
    /\ \A o \in Ops : phase[o] = "asking" <=> Cardinality(candidates[o]) > 1
    /\ told \in [Ops -> Success \cup Failures \cup {None}]
    /\ executed \in [Ops -> BOOLEAN]
    /\ changed \in [Ops -> BOOLEAN]

\* to_handles: listRules with the evaluation positions.
ToHandles(ruleset) ==
    {[id |-> ruleset[i].id, text |-> ruleset[i].text, position |-> i] :
        i \in DOMAIN ruleset}

\* What resolve finds: no handle is Gone, one is Unique, more are Ambiguous.
Resolve(ruleset, text) == {h \in ToHandles(ruleset) : h.text = text}

Init ==
    /\ \E n \in 0..MaxRules :
        \E texts \in [1..n -> Texts] : rules = [i \in 1..n |-> [id |-> i, text |-> texts[i]]]
    /\ edits = 0
    /\ shown = ToHandles(rules)
    /\ kind = [o \in Ops |-> None]
    /\ wanted = [o \in Ops |-> None]
    /\ phase = [o \in Ops |-> "idle"]
    /\ target = [o \in Ops |-> APPEND_LAST]
    /\ request = [o \in Ops |-> FALSE]
    /\ candidates = [o \in Ops |-> {}]
    /\ told = [o \in Ops |-> None]
    /\ executed = [o \in Ops |-> FALSE]
    /\ changed = [o \in Ops |-> FALSE]

-----------------------------------------------------------------------------
(* The daemon and its other clients (external).                            *)

Without(i) == SubSeq(rules, 1, i - 1) \o SubSeq(rules, i + 1, Len(rules))
InsertedAfter(i, rule) ==
    Append(SubSeq(rules, 1, i), rule) \o SubSeq(rules, i + 1, Len(rules))
Unused == RuleIds \ {rules[i].id : i \in DOMAIN rules}

\* The ids may be handed out again when the ruleset changes.
ChangeRules(ruleset) ==
    /\ rules' = ruleset
    /\ changed' = [o \in Ops |-> changed[o] \/ request[o]]

Renumbered(ruleset) == [i \in DOMAIN ruleset |-> [ruleset[i] EXCEPT !.id = i]]

\* Another client removes a rule, adds one, or has the ruleset loaded again.
Edit ==
    /\ edits < MaxEdits /\ edits' = edits + 1
    /\ \/ \E i \in DOMAIN rules : ChangeRules(Without(i))
       \/ /\ Len(rules) < MaxRules
          /\ \E i \in 0..Len(rules), id \in Unused, text \in Texts :
                ChangeRules(InsertedAfter(i, [id |-> id, text |-> text]))
       \/ /\ DOMAIN rules \subseteq RuleIds
          /\ ChangeRules(Renumbered(rules))
    /\ UNCHANGED <<shown, opVars, phase, target, request, told, executed>>

\* removeRule removes the rule that has the id now.
DaemonRemoves(o) ==
    /\ request[o] /\ kind[o] # "append"
    /\ \E i \in DOMAIN rules : rules[i].id = target[o] /\ ChangeRules(Without(i))
    /\ request' = [request EXCEPT ![o] = FALSE]
    /\ executed' = [executed EXCEPT ![o] = TRUE]
    /\ UNCHANGED <<edits, shown, opVars, phase, target, told>>

\* appendRule inserts after the rule that has the id now, or at the end.
DaemonAppends(o) ==
    /\ request[o] /\ kind[o] = "append"
    /\ \E i \in 0..Len(rules), id \in Unused :
        /\ IF target[o] = APPEND_LAST THEN i = Len(rules)
           ELSE i > 0 /\ rules[i].id = target[o]
        /\ ChangeRules(InsertedAfter(i, [id |-> id, text |-> NewText]))
    /\ request' = [request EXCEPT ![o] = FALSE]
    /\ executed' = [executed EXCEPT ![o] = TRUE]
    /\ UNCHANGED <<edits, shown, opVars, phase, target, told>>

-----------------------------------------------------------------------------
(* The policy page.                                                        *)

\* The page is read again, as late as one likes: what the user points at, and
\* what a dialog that is still open holds, may be long gone.
SetRules ==
    /\ shown' = ToHandles(rules)
    /\ UNCHANGED <<rules, edits, opVars, phase, target, request, told, executed,
                   changed>>

Tell(o, message) == told' = [told EXCEPT ![o] = message]

Start(o, what, handle, next) ==
    /\ phase[o] = "idle"
    /\ kind' = [kind EXCEPT ![o] = what]
    /\ wanted' = [wanted EXCEPT ![o] = handle]
    /\ phase' = [phase EXCEPT ![o] = next]

\* PolicyAction::Remove, confirmed.
StartRemove(o) ==
    /\ \E handle \in shown : Start(o, "remove", handle, "listing")
    /\ UNCHANGED <<rules, edits, shown, candidates, target, request, told, executed,
                   changed>>

\* PolicyAction::Add, submitted: after a rule of the dialog's list, or at the
\* end, which needs no list, and fails with nothing sent if it cannot connect.
StartAppend(o) ==
    /\ \/ \E handle \in shown :
            Start(o, "append", handle, "listing") /\ UNCHANGED <<request, target, told>>
       \/ /\ Start(o, "append", None, "writing")
          /\ target' = [target EXCEPT ![o] = APPEND_LAST]
          /\ request' = [request EXCEPT ![o] = TRUE]
          /\ UNCHANGED told
       \/ /\ Start(o, "append", None, "done")
          /\ \E type \in ReadErrors : Tell(o, type)
          /\ UNCHANGED <<request, target>>
    /\ UNCHANGED <<rules, edits, shown, candidates, executed, changed>>

\* "Which rule?" is answered: the operation o removes exactly that candidate.
\* Or the dialog is closed.
AskWhichRule(asker) ==
    /\ phase[asker] = "asking"
    /\ \/ \E o \in Ops, handle \in candidates[asker] :
            /\ phase[o] = "idle"
            /\ kind' = [kind EXCEPT ![o] = "remove at"]
            /\ wanted' = [wanted EXCEPT ![o] = handle]
            /\ phase' = [phase EXCEPT ![o] = "listing", ![asker] = "done"]
       \/ phase' = [phase EXCEPT ![asker] = "done"] /\ UNCHANGED <<kind, wanted>>
    /\ candidates' = [candidates EXCEPT ![asker] = {}]
    /\ UNCHANGED <<rules, edits, shown, target, request, told, executed, changed>>

-----------------------------------------------------------------------------
(* The client: listRules, then at most one write.                          *)

\* The task ends, and MainWindow::finish tells the user.
End(o, message) ==
    /\ Tell(o, message)
    /\ phase' = [phase EXCEPT ![o] = "done"]
    /\ UNCHANGED <<target, request, candidates>>

\* The write is sent with the id of that handle.
Write(o, handle) ==
    /\ target' = [target EXCEPT ![o] = handle.id]
    /\ request' = [request EXCEPT ![o] = TRUE]
    /\ phase' = [phase EXCEPT ![o] = "writing"]
    /\ UNCHANGED <<told, candidates>>

\* Mutant: one of several equal rules is as good as another.
RemoveAny(o, found) ==
    \/ found = {} /\ End(o, "AlreadyGone")
    \/ \E handle \in found : Write(o, handle)

\* Mutant: the question is asked even if there is one rule only.
RemoveAsks(o, found) ==
    \/ found = {} /\ End(o, "AlreadyGone")
    \/ /\ found # {}
       /\ candidates' = [candidates EXCEPT ![o] = found]
       /\ Tell(o, "Ambiguous")
       /\ phase' = [phase EXCEPT ![o] = "asking"]
       /\ UNCHANGED <<target, request>>

\* Client::remove_rule, and finish for its outcome.
RemoveRule(o, found) ==
    \/ found = {} /\ End(o, "AlreadyGone")
    \/ Cardinality(found) = 1 /\ \E handle \in found : Write(o, handle)
    \/ /\ Cardinality(found) > 1
       /\ candidates' = [candidates EXCEPT ![o] = found]
       /\ Tell(o, "Ambiguous")
       /\ phase' = [phase EXCEPT ![o] = "asking"]
       /\ UNCHANGED <<target, request>>

\* Client::remove_rule_at
RemoveRuleAt(o, found) ==
    IF wanted[o] \in found THEN Write(o, wanted[o]) ELSE End(o, "Stale")

\* Mutant: the anchor is used by the id it had.
AppendByOldId(o, found) == Write(o, wanted[o])

\* Client::append_rule_after
AppendRuleAfter(o, found) ==
    LET anchors == IF Cardinality(found) = 1 THEN found
                   ELSE {h \in found : h.position = wanted[o].position}
    IN  \/ \E anchor \in anchors : Write(o, anchor)
        \/ anchors = {} /\ End(o, "Stale")

\* list_rules().await has the ruleset of that moment.
ListRules(o) ==
    /\ phase[o] = "listing"
    /\ LET found == Resolve(rules, wanted[o].text)
       IN  \/ kind[o] = "remove" /\ RemoveRule(o, found)
           \/ kind[o] = "remove at" /\ RemoveRuleAt(o, found)
           \/ kind[o] = "append" /\ AppendRuleAfter(o, found)
    /\ changed' = [changed EXCEPT ![o] = FALSE]
    /\ UNCHANGED <<rules, edits, shown, kind, wanted, executed>>

\* The connection or the read fails: nothing has been sent.
ListFails(o) ==
    /\ phase[o] = "listing"
    /\ \E type \in ReadErrors : End(o, type)
    /\ UNCHANGED <<rules, edits, shown, kind, wanted, executed, changed>>

\* The reply of the executed write.
Succeed(o) ==
    /\ phase[o] = "writing" /\ executed[o]
    /\ End(o, IF kind[o] = "append" THEN "Added" ELSE "Removed")
    /\ UNCHANGED <<rules, edits, shown, kind, wanted, executed, changed>>

\* An error is returned instead.  The daemon refuses what it does not execute;
\* a failure of the transport may follow a write that was executed, or leave
\* the request on its way.
WriteFails(o) ==
    /\ phase[o] = "writing"
    /\ \E err \in WriteErrors :
        /\ executed[o] => err.transport
        /\ Tell(o, err.type)
        /\ \/ err.transport /\ UNCHANGED request
           \/ request' = [request EXCEPT ![o] = FALSE]
    /\ phase' = [phase EXCEPT ![o] = "done"]
    /\ UNCHANGED <<rules, edits, shown, opVars, target, executed, changed>>

Next ==
    \/ Edit \/ SetRules
    \/ \E o \in Ops : StartRemove(o) \/ StartAppend(o) \/ AskWhichRule(o)
    \/ \E o \in Ops : ListRules(o) \/ ListFails(o) \/ Succeed(o) \/ WriteFails(o)
    \/ \E o \in Ops : DaemonRemoves(o) \/ DaemonAppends(o)

Spec == Init /\ [][Next]_vars

-----------------------------------------------------------------------------
(* Properties.                                                             *)

\* The rule the daemon removes for o is its i-th: it has the text the user
\* pointed at, and it is the only one, or the very one that was chosen.
Chosen(o, i) ==
    /\ rules[i].text = wanted[o].text
    /\ \/ kind[o] = "remove" /\ \A j \in DOMAIN rules : rules[j].text = rules[i].text => j = i
       \/ kind[o] = "remove at" /\ wanted[o].position = i /\ wanted[o].id = rules[i].id

\* A removal that nobody gets between hits the rule that was chosen, whatever
\* happened to it, to its equals and to the ids since the page was read, and
\* never a rule that inherited its id or one of several equal ones
\* (remove_rule, remove_rule_at; the window that stays open is listRules to
\* removeRule).
RemovesTheChosenRule ==
    [][\A o \in Ops :
        DaemonRemoves(o) /\ ~changed[o] =>
            \E i \in DOMAIN rules : rules' = Without(i) /\ Chosen(o, i)]_vars

\* A rule is added after a rule that reads like the one that was chosen, and
\* among several equal ones after the one in its place; a rule for the end
\* goes to the end, even if the ruleset changes on the way (append_rule_after).
InsertsWhereChosen ==
    [][\A o \in Ops :
        DaemonAppends(o) =>
            \/ changed[o] /\ wanted[o] # None
            \/ \E i \in 0..Len(rules), id \in Unused :
                /\ rules' = InsertedAfter(i, [id |-> id, text |-> NewText])
                /\ IF wanted[o] = None THEN i = Len(rules)
                   ELSE /\ i > 0 /\ rules[i].text = wanted[o].text
                        /\ \/ i = wanted[o].position
                           \/ \A j \in DOMAIN rules : rules[j].text = wanted[o].text => j = i]_vars

\* The message is true for ever: what was reported as done is done, and after
\* any other message but Inconclusive nothing is done for the operation, not
\* even by a request that is still on its way (finish, report, mutation_error).
MessagesAreTrue ==
    \A o \in Ops : told[o] # None =>
        \/ told[o] = "Inconclusive"
        \/ executed[o] = (told[o] \in {"Removed", "Added"})
=============================================================================
