------------------------------ MODULE MCSimRun ------------------------------
(***************************************************************************)
(* TLC instance of SimRun: four events in order, the last one coupled to   *)
(* the second, so that a satellite fires ahead of the linear order.  A run *)
(* starts with the second: the first is of another aggregate.              *)
(***************************************************************************)
EXTENDS SimRun

CONSTANTS e1, e2, e3, e4

MCOrder == <<e1, e2, e3, e4>>
MCCoupled == [e \in {e1, e2, e3, e4} |-> IF e = e2 THEN <<e4>> ELSE <<>>]
=============================================================================
