---------------------------- MODULE MCSupervisor ----------------------------
(* Supervisor with waits of one, two and four ticks.                       *)
EXTENDS Supervisor

MCBackoffMin == 1
MCBackoffMax == 4
=============================================================================
