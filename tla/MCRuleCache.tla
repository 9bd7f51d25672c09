---------------------------- MODULE MCRuleCache ----------------------------
(* RuleCache with a channel of one event, so that every sender is blocked   *)
(* by every other.                                                          *)
EXTENDS RuleCache

MCChannelCapacity == 1
=============================================================================
