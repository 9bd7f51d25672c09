------------------------- MODULE ConnectionStatus -------------------------
(***************************************************************************)
(* What the supervisor promises the interface about the connection: the    *)
(* protocol of the events ConnectionLost, Reconnected and the first        *)
(* DeviceSnapshot of a session, without attempts, waits or clocks.         *)
(***************************************************************************)
VARIABLE status

Status ==
    {"checking",    \* nothing was said yet
     "unreached",   \* lost before the daemon was ever read
     "live",        \* a fresh device list was delivered
     "lost",        \* a connection that was live is gone
     "reviving"}    \* Reconnected: the caches are dropped, the list follows

Init == status = "checking"

\* The daemon's device list arrives for the first time: nothing to discard.
FirstContact == status \in {"checking", "unreached"} /\ status' = "live"

NeverReached == status = "checking" /\ status' = "unreached"

Lose == status = "live" /\ status' = "lost"

\* Only a connection that was live once can be reconnected ...
Reconnect == status = "lost" /\ status' = "reviving"

\* ... and nothing comes between Reconnected and the fresh list.
Refresh == status = "reviving" /\ status' = "live"

Next == FirstContact \/ NeverReached \/ Lose \/ Reconnect \/ Refresh

Spec == Init /\ [][Next]_status
=============================================================================
