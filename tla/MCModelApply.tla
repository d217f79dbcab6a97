---------------------------- MODULE MCModelApply ----------------------------
(***************************************************************************)
(* TLC instance of ModelApply: orders come from a sync connector, mails    *)
(* are sent by an actuator; the second model has no mails.                 *)
(***************************************************************************)
EXTENDS ModelApply, TLC

CONSTANTS order, mail, m1, m2

MCEnts == (m1 :> {order, mail}) @@ (m2 :> {order})

Sym == Permutations(Clients)
=============================================================================
