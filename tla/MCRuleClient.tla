---------------------------- MODULE MCRuleClient ----------------------------
(* RuleClient with two texts, so that rules can be equal or inherit an id.  *)
EXTENDS RuleClient, TLC

MCRuleIds == 1..3
MCSymmetry == Permutations(Ops)
=============================================================================
