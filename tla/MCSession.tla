----------------------------- MODULE MCSession -----------------------------
(* Session with one value the row does not offer, and an error of each kind. *)
EXTENDS Session, TLC

MCErrors == {
    [name |-> "NoReply", phrases |-> {}],
    [name |-> "Failed", phrases |-> {"ipc acl"}],
    [name |-> "AccessDenied", phrases |-> {"polkit"}] }
MCSymmetry == Permutations(Allowed)
=============================================================================
