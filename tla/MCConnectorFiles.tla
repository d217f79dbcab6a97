-------------------------- MODULE MCConnectorFiles --------------------------
(* TLC instance of ConnectorFiles. *)
EXTENDS ConnectorFiles, TLC

CONSTANTS c1, c2, t1, t2, e1

Sym == Permutations(Clients) \cup Permutations(Targets)
=============================================================================
