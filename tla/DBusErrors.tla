----------------------------- MODULE DBusErrors -----------------------------
(***************************************************************************)
(* What the client makes of a D-Bus error (src/dbus/errors.rs).  An error  *)
(* is its name and the phrases its message contains; a local error (I/O,   *)
(* handshake) has no name.                                                 *)
(***************************************************************************)

\* `UNREACHABLE', the names of a transport failure.
UnreachableNames ==
    {"ServiceUnknown", "NameHasNoOwner", "NoReply", "Disconnected",
     "Spawn.ChildExited"}

DenialNames == {"AccessDenied", "AuthFailed", "InteractiveAuthorizationRequired"}

\* BUS_POLICY_PHRASES, what Polkit is recognised by, and "ipc" together with
\* one of the permission phrases.
Phrases == {"bus policy", "polkit", "ipc acl"}

ErrorShape ==
    [name: UnreachableNames \cup DenialNames \cup {"Failed", "other", "local"},
     phrases: SUBSET Phrases]

\* A failure of the transport, which says nothing of the request itself.
Transport(err) == err.name \in UnreachableNames \cup {"local"}

Denials ==
    {"DeniedByBusPolicy", "DeniedByPolkit", "DeniedByIpcAcl", "NoPolkitAgent",
     "DeniedUnattributed"}

IsIpcAclDenial(err) ==
    err.name \in {"Failed", "AccessDenied"} /\ "ipc acl" \in err.phrases

\* `agent_present' is the result of the diagnostics' probe 3, or "unknown".
Classify(err, agent_present) ==
    CASE err.name \in UnreachableNames -> "BridgeNotRunning"
      [] IsIpcAclDenial(err) -> "DeniedByIpcAcl"
      [] err.name \in DenialNames /\ ~IsIpcAclDenial(err)
         /\ "bus policy" \in err.phrases -> "DeniedByBusPolicy"
      [] err.name \in DenialNames /\ ~IsIpcAclDenial(err)
         /\ "bus policy" \notin err.phrases /\ "polkit" \in err.phrases ->
             IF agent_present = "no" THEN "NoPolkitAgent" ELSE "DeniedByPolkit"
      [] OTHER -> "DeniedUnattributed"

Error(type) == [type |-> type]
Denied(state) == [type |-> "Denied", state |-> state]

AppErrors ==
    [type: {"Unreachable", "Inconclusive", "Rejected", "Stale"}]
    \cup [type: {"Denied"}, state: Denials]

ToAppError(err, agent_present) ==
    LET state == Classify(err, agent_present)
    IN  CASE Transport(err) -> Error("Unreachable")
          [] ~Transport(err) /\ state = "DeniedUnattributed"
             /\ err.name \notin DenialNames -> Error("Rejected")
          [] OTHER -> Denied(state)

AppError(err) == ToAppError(err, "unknown")

\* Mutant: the error of a write is classified like the error of a read.
MutationErrorAsRead(err) == AppError(err)

\* A transport failure during a write cannot prove that the daemon did not act.
MutationError(err) ==
    IF AppError(err).type = "Unreachable" THEN Error("Inconclusive")
    ELSE AppError(err)
=============================================================================
