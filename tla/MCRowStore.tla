----------------------------- MODULE MCRowStore -----------------------------
(***************************************************************************)
(* TLC instance of RowStore: a declared column s, an extra column x.  The  *)
(* second record has the first one's last-modified date, another status,   *)
(* which the column stores in another form, and an extra; the third has    *)
(* moved on, and returns an empty status.                                  *)
(***************************************************************************)
EXTENDS RowStore, TLC

CONSTANTS s, x, open, paid, paid0, t1, t2

Rec(status, extra, created, updated) ==
    (s :> status) @@ (x :> extra) @@ ("createdAt" :> created) @@ ("updatedAt" :> updated)

MCRecords == {Rec(open, Absent, Absent, t1), Rec(paid0, open, t1, t1),
              Rec(None, paid, t2, t2)}
MCAffine == [k \in Columns |-> [v \in Vals |-> IF k = s /\ v = paid0 THEN paid ELSE v]]
MCRoles == {None, "updatedAt", s}
MCPatches == {s :> paid, s :> None}

Sym == Permutations(Connectors)
=============================================================================
