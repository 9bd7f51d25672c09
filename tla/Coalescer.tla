----------------------------- MODULE Coalescer -----------------------------
(***************************************************************************)
(* The burst coalescer (src/dbus/coalesce.rs): what one window of device   *)
(* signals is merged into, and for how long the window may stay open.      *)
(*                                                                         *)
(* The window is the function `pending' from device ids to entries, None   *)
(* where the id has no pending change.  A rule text and its attributes are *)
(* one description: which physical device an id stands for.  Durations are *)
(* in clock ticks.                                                         *)
(***************************************************************************)
EXTENDS Naturals, FiniteSets

CONSTANTS
    Ids,                \* device ids, recycled by the daemon
    Targets,            \* what a policy can decide for a device
    Descriptions,       \* rule text and attributes: the physical device
    None,               \* an absent Option
    QUIET_WINDOW,       \* emit once no event has arrived for this long
    MAX_LATENCY,        \* emit regardless after this long
    RESYNC_THRESHOLD    \* this many pending devices call for a snapshot

-----------------------------------------------------------------------------
\* A decoded device signal.  A removal's target and description are ignored.
PresenceEvents == {"Insert", "Update", "Remove"}

DeviceSignal ==
    [kind: {"Presence"}, id: Ids, event: PresenceEvents,
     target: Targets, desc: Descriptions]
    \cup
    [kind: {"Policy"}, id: Ids, target: Targets, desc: Descriptions]

\* A pending change is a removal, or knows both target and description.
Entry ==
    {e \in [removed: BOOLEAN, observed_insert: BOOLEAN, observed_remove: BOOLEAN,
            target: Targets \cup {None}, desc: Descriptions \cup {None},
            policy_decided: BOOLEAN] :
        ~e.removed => e.target # None /\ e.desc # None}

ASSUME CoalescerAssumption ==
    /\ None \notin Targets
    /\ None \notin Descriptions
    /\ None \notin Entry
    /\ QUIET_WINDOW \in Nat /\ QUIET_WINDOW > 0
    /\ MAX_LATENCY \in Nat /\ MAX_LATENCY > 0
    /\ RESYNC_THRESHOLD \in Nat /\ RESYNC_THRESHOLD > 0

Window == [Ids -> Entry \cup {None}]

EmptyWindow == [i \in Ids |-> None]

\* The ids a window holds a change for.
Changed(pending) == {i \in Ids : pending[i] # None}

-----------------------------------------------------------------------------
Fresh ==
    [removed |-> FALSE, observed_insert |-> FALSE, observed_remove |-> FALSE,
     target |-> None, desc |-> None, policy_decided |-> FALSE]

\* Mutants: a pending removal is kept, or the removal is not remembered.
LiveEntryKeepsRemoval(e) == IF e = None THEN Fresh ELSE e

\* The entry a live signal merges into: an id that comes back after a removal
\* in the same window is a new device, and its removal stays observed.
LiveEntry(e) ==
    CASE e = None -> Fresh
      [] e # None /\ e.removed ->
            [Fresh EXCEPT !.observed_remove = e.observed_remove]
      [] OTHER -> e

\* A removal supersedes whatever was pending for the device.
MergeRemove(e) ==
    [Fresh EXCEPT !.removed = TRUE,
                  !.observed_remove = TRUE,
                  !.observed_insert = e # None /\ e.observed_insert]

\* Mutant: a presence target overrides the policy decision.
MergePresenceOverrides(e, s) ==
    [LiveEntry(e) EXCEPT !.observed_insert = @ \/ s.event = "Insert",
                         !.target = s.target,
                         !.desc = s.desc]

\* A presence target is provisional: it never overrides a policy decision
\* already merged into this window.
MergePresence(e, s) ==
    LET live == LiveEntry(e)
    IN  [live EXCEPT !.observed_insert = @ \/ s.event = "Insert",
                     !.target = IF live.policy_decided THEN @ ELSE s.target,
                     !.desc = s.desc]

MergePolicy(e, s) ==
    [LiveEntry(e) EXCEPT !.target = s.target,
                         !.policy_decided = TRUE,
                         !.desc = s.desc]

\* Coalescer::push: the window after one more signal.
Push(pending, s) ==
    [pending EXCEPT ![s.id] =
        CASE s.kind = "Policy" -> MergePolicy(@, s)
          [] s.kind = "Presence" /\ s.event = "Remove" -> MergeRemove(@)
          [] OTHER -> MergePresence(@, s)]

NeedsResync(pending) == Cardinality(Changed(pending)) >= RESYNC_THRESHOLD

-----------------------------------------------------------------------------
\* Mutant: the ceiling is forgotten, each event restarts a quiet window.
BudgetWithoutCeiling(age) == QUIET_WINDOW

\* Coalescer::budget for a window opened `age' ticks ago: the quiet window,
\* cut short by what is left of the ceiling (saturating_sub).
Budget(age) ==
    LET left == IF age >= MAX_LATENCY THEN 0 ELSE MAX_LATENCY - age
    IN  IF QUIET_WINDOW <= left THEN QUIET_WINDOW ELSE left
=============================================================================
