---------------------------- MODULE MCDeriveLog ----------------------------
(***************************************************************************)
(* TLC instance of DeriveLog.  Two tables: `meetings`, whose row m names a *)
(* cycle, and `quarters`, the cycle table with rows q1 and q2 of one       *)
(* subject; m belongs to q2, so a derive that sees m and q1 opens q2.      *)
(***************************************************************************)
EXTENDS DeriveLog, TLC

CONSTANTS meetings, quarters, planned, opened, closed, m, q1, q2, acme

MCRoot == [e \in Events |-> IF e = planned THEN meetings ELSE quarters]
MCTableOf == [i \in Ids |-> IF i = m THEN meetings ELSE quarters]
MCCreateOf == [t \in Tables |-> IF t = meetings THEN planned ELSE opened]
MCCycleOf == [i \in Ids |-> IF i = m THEN q2 ELSE NoId]
MCSubject == [i \in Ids |-> IF i = m THEN NoId ELSE acme]

ClientSymmetry == Permutations(Clients)
=============================================================================
