------------------------------ MODULE MCCases ------------------------------
(***************************************************************************)
(* TLC instance of Cases and NextActions: an order (the root), a task of   *)
(* the order, a note that references the task and belongs to quarter q2,   *)
(* whose subject also has quarter q1.  One model is a chain with a         *)
(* satellite in the middle, the other a fork that ends in a marker.        *)
(***************************************************************************)
EXTENDS NextActions

CONSTANTS order, task, note, q1, q2, opened, placed, assigned, done, noted

MCRefs == [i \in Ids |-> CASE i = task -> <<order>> [] i = note -> <<task>> [] OTHER -> <<>>]
MCCycleOf == [i \in Ids |-> IF i = note THEN q2 ELSE None]
MCSiblings == [i \in Ids |-> IF i \in {q1, q2} THEN {q1, q2} ELSE {}]
MCPlan == <<<<opened, q1>>, <<opened, q2>>, <<placed, order>>, <<assigned, task>>,
            <<done, task>>, <<noted, note>>>>
MCOpenedBy == [i \in Ids |-> opened]

MCKeys == <<noted, done, assigned, placed, opened>>

Chain == [own |-> Events \ {done}, commands |-> Events,
          follows |-> [e \in Events |-> CASE e = placed -> <<opened>>
                                          [] e = assigned -> <<placed>>
                                          [] e = done -> <<assigned>>
                                          [] e = noted -> <<done>>
                                          [] OTHER -> <<>>]]
Fork == [own |-> Events, commands |-> Events \ {opened},
         follows |-> [e \in Events |-> CASE e \in {assigned, noted} -> <<placed>>
                                         [] e = done -> <<assigned, noted>>
                                         [] e = opened -> <<done>>
                                         [] OTHER -> <<>>]]
MCGraphs == {Chain, Fork}

Symmetric == Permutations(Clients)
=============================================================================
