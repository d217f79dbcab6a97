---------------------------- MODULE StoreProofs ----------------------------
(***************************************************************************)
(* The two places where a writer meets what others have stored: the rows   *)
(* of a projection table (RowStore) and the cache of the dashboard reads   *)
(* (ReadCache), for any columns, values, keys and number of writers and    *)
(* readers.                                                                *)
(*                                                                         *)
(* That an update only overwrites what its writer has read is a statement  *)
(* about contents, but the store compares versions.  The inductive         *)
(* invariant ties the two together: of one insertion of the row, a version *)
(* has one content, and nobody has read a later version than the stored    *)
(* one (VersionTells).                                                     *)
(*                                                                         *)
(* A value of the cache is out of date only for one of the reasons         *)
(* StaleOnlyByOverlap names.  A compute that is under way will be stored,  *)
(* so the invariant says the same of what it has read (ComputesExplained). *)
(***************************************************************************)
EXTENDS RowStore, ReadCache, FiniteSetTheorems, TLAPS

\* Writers work on what the source, or the caller, supplied.
Working ==
    /\ \A c \in Connectors : at[c] = "write" => todo[c] \in Records /\ role[c] \in Roles
    /\ \A c \in Callers : at[c] # "idle" => todo[c] \in Patches

ReadsBorn == \A c \in Writers : seen[c] # NoRow => seen[c].born <= births

VersionTells ==
    \A c \in Writers :
        seen[c] # NoRow /\ row # NoRow /\ seen[c].born = row.born =>
            /\ seen[c].version <= row.version
            /\ seen[c].version = row.version => seen[c] = row

RowInv == TypeOK /\ Working /\ ReadsBorn /\ VersionTells

-----------------------------------------------------------------------------

\* What a writer hands to the store, before the columns give it their own form.
Given == Vals \cup {None, Absent, Wall}

\* What a column holds of it.
LEMMA StoredValue ==
    ASSUME NEW k \in Cols, NEW v \in Given
    PROVE  /\ Stored(k, v) \in Vals \cup {None, Wall}
           /\ v \in Vals => Stored(k, v) \in Vals
           /\ v \in Vals /\ k \notin Columns => Stored(k, v) = v
  <1>1. CASE v = Absent
    BY <1>1, RowAssumption DEF Stored
  <1>2. CASE k \in Columns /\ v \in Vals
    <2>1. Affine[k][v] \in Vals
      BY <1>2, RowAssumption
    <2> QED  BY <1>2, <2>1, RowAssumption DEF Stored
  <1>3. CASE v # Absent /\ ~(k \in Columns /\ v \in Vals)
    BY <1>3 DEF Stored, Given
  <1> QED  BY <1>1, <1>2, <1>3

\* What an inserted row has to be, and that no read is of it.
LEMMA InsertInv ==
    ASSUME RowInv, NEW cell \in [Cols -> Given], NEW provisional \in BOOLEAN,
           Insert(cell, provisional)
    PROVE  /\ row' \in Row /\ births' \in Nat /\ row'.born \in 1..births'
           /\ \A c \in Writers : seen[c] # NoRow =>
                  seen[c].born <= births' /\ seen[c].born # row'.born
  <1>1. births \in Nat /\ births' = births + 1
    BY DEF RowInv, TypeOK, Insert
  <1>2. row' \in Row /\ row'.born = births + 1
    <2> DEFINE kept == [k \in Cols |-> Stored(k, cell[k])]
    <2>1. kept \in Cells
      BY StoredValue DEF Cells
    <2>2. row' = [version |-> 0, provisional |-> provisional, born |-> births + 1,
                  cell |-> kept]
      BY DEF Insert
    <2> HIDE DEF kept
    <2> QED  BY <1>1, <2>1, <2>2 DEF Row
  <1>3. \A c \in Writers : seen[c] # NoRow => seen[c] \in Row /\ seen[c].born <= births
    BY DEF RowInv, TypeOK, ReadsBorn
  <1> QED  BY <1>1, <1>2, <1>3 DEF Row

\* An update of a matching row: it keeps its birth and moves on by one version.
LEMMA UpdateInv ==
    ASSUME RowInv, NEW c \in Writers, NEW set, seen[c] # NoRow,
           NEW provisional \in BOOLEAN,
           \A k \in DOMAIN set : set[k] \in Given,
           Update(c, set, provisional)
    PROVE  /\ row \in Row /\ row' \in Row /\ births' = births
           /\ row'.born = row.born /\ row'.version = row.version + 1
           /\ seen[c].version = row.version
           /\ row'.provisional = provisional
           /\ row'.cell = [k \in Cols |-> IF k \in DOMAIN set THEN Stored(k, set[k]) ELSE row.cell[k]]
  <1>1. row \in Row /\ row # NoRow /\ seen[c].version = row.version /\ births' = births
    BY DEF RowInv, TypeOK, Update, Matches
  <1> DEFINE cell == [k \in Cols |-> IF k \in DOMAIN set THEN Stored(k, set[k])
                                      ELSE row.cell[k]]
  <1>2. row.cell \in Cells /\ row.version \in Nat /\ row.born \in Nat
    BY <1>1 DEF Row
  <1>3. cell \in Cells
    BY <1>2, StoredValue DEF Cells
  <1>4. row' = [row EXCEPT !.version = @ + 1, !.provisional = provisional, !.cell = cell]
    BY DEF Update
  <1>5. row' = [version |-> row.version + 1, provisional |-> provisional,
                born |-> row.born, cell |-> cell]
    BY <1>1, <1>4 DEF Row
  <1> HIDE DEF cell
  <1>6. row' \in Row
    BY <1>2, <1>3, <1>5 DEF Row
  <1> QED  BY <1>1, <1>5, <1>6 DEF cell

\* When the row stays and a writer reads it or forgets what it read, versions still
\* tell.
LEMMA RowKept ==
    ASSUME RowInv, UNCHANGED <<row, births>>,
           \A d \in Writers : seen'[d] \in {seen[d], row, NoRow}
    PROVE  ReadsBorn' /\ VersionTells'
  <1>1. row # NoRow => row.born <= births /\ row.version \in Nat
    BY DEF RowInv, TypeOK, Row
  <1> QED  BY <1>1 DEF RowInv, TypeOK, ReadsBorn, VersionTells

\* The same when a row is inserted: its birth is new to everybody.
LEMMA RowInserted ==
    ASSUME RowInv, NEW cell \in [Cols -> Given], NEW provisional \in BOOLEAN,
           Insert(cell, provisional),
           \A d \in Writers : seen'[d] \in {seen[d], NoRow}
    PROVE  ReadsBorn' /\ VersionTells'
  BY InsertInv DEF ReadsBorn, VersionTells

\* The same when the row is updated: it has a version nobody has read.
LEMMA RowUpdated ==
    ASSUME RowInv, NEW c \in Writers, NEW set, seen[c] # NoRow,
           NEW provisional \in BOOLEAN,
           \A k \in DOMAIN set : set[k] \in Given,
           Update(c, set, provisional),
           \A d \in Writers : seen'[d] \in {seen[d], NoRow}
    PROVE  ReadsBorn' /\ VersionTells'
  <1>1. /\ row # NoRow /\ births' = births /\ row'.born = row.born
        /\ row'.version = row.version + 1 /\ row.version \in Nat
    BY UpdateInv, NoRowAssumption DEF Row
  <1>2. \A d \in Writers : seen[d] # NoRow => seen[d].version \in Nat
    BY DEF RowInv, TypeOK, Row
  <1>3. ReadsBorn'
    BY <1>1 DEF RowInv, ReadsBorn
  <1>4. VersionTells'
    <2> SUFFICES ASSUME NEW d \in Writers, seen'[d] # NoRow, seen'[d].born = row'.born
                 PROVE  seen'[d].version <= row.version
      BY <1>1, <1>2 DEF VersionTells
    <2> QED  BY <1>1 DEF RowInv, VersionTells
  <1> QED  BY <1>3, <1>4

\* What a writer that is over leaves of its own state.
LEMMA OverInv ==
    ASSUME RowInv, NEW c \in Writers, Over(c)
    PROVE  /\ at' \in [Writers -> {"idle", "classified", "write"}]
           /\ seen' \in [Writers -> Row \cup {NoRow}]
           /\ todo' \in [Writers -> Records \cup Patches \cup {None}]
           /\ role' \in [Writers -> Roles \cup {None}]
           /\ \A d \in Writers : seen'[d] \in {seen[d], NoRow}
           /\ Working'
  <1>1. \A d \in Writers : d # c => at'[d] = at[d] /\ todo'[d] = todo[d] /\ role'[d] = role[d]
    BY DEF RowInv, TypeOK, Over
  <1>2. at'[c] = "idle"
    BY DEF RowInv, TypeOK, Over
  <1>3. Working'
    BY <1>1, <1>2 DEF RowInv, Working, Writers
  <1> QED  BY <1>3 DEF RowInv, TypeOK, Over

\* Columns a pull sets.
LEMMA ChangedVals ==
    ASSUME NEW m \in Records, NEW cell, NEW u
    PROVE  /\ Changed(m, cell, u) \subseteq Cols
           /\ \A k \in Changed(m, cell, u) : m[k] \in Vals
  BY RowAssumption DEF Changed, HasValue

\* The bounded operations are counted.
LEMMA BegunOps ==
    ASSUME RowInv, ops < MaxOps, ops' = ops + 1
    PROVE  ops' \in 0..MaxOps
  BY RowAssumption DEF RowInv, TypeOK

\* Every connector's step keeps the invariant.
LEMMA PullInv ==
    ASSUME RowInv, NEW c \in Connectors, PullStep(c)
    PROVE  RowInv'
  <1> USE DEF Writers
  <1>1. ASSUME NEW m \in Records, NEW u \in Roles, PullFinds(c, m, u)
        PROVE  RowInv'
    <2>0. ops' \in 0..MaxOps
      BY <1>1, BegunOps DEF PullFinds, Begun
    <2>1. TypeOK'
      BY <1>1, <2>0 DEF RowInv, TypeOK, PullFinds
    <2>2. Working'
      BY <1>1, RowAssumption DEF RowInv, TypeOK, Working, PullFinds, Begun
    <2>3. \A d \in Writers : seen'[d] \in {seen[d], row, NoRow}
      BY <1>1 DEF RowInv, TypeOK, PullFinds
    <2> QED  BY <1>1, <2>1, <2>2, <2>3, RowKept DEF RowInv, PullFinds
  <1>2. CASE PullInserts(c)
    <2> DEFINE cell == todo[c]
    <2>1. todo[c] \in Records /\ role[c] \in Roles
      BY <1>2 DEF RowInv, Working, PullInserts
    <2>2. cell \in [Cols -> Given]
      BY <2>1, RowAssumption DEF Given
    <2>3. Insert(cell, FALSE) /\ Over(c) /\ ops' = ops /\ by' = <<todo[c], role[c]>>
      BY <1>2 DEF PullInserts
    <2> HIDE DEF cell
    <2>4. TypeOK'
      BY <2>1, <2>2, <2>3, InsertInv, OverInv DEF RowInv, TypeOK
    <2>5. ReadsBorn' /\ VersionTells'
      BY <2>2, <2>3, OverInv, RowInserted
    <2> QED  BY <2>3, <2>4, <2>5, OverInv DEF RowInv
  <1>3. CASE PullMerges(c)
    <2> DEFINE m == todo[c]
               taken == {k \in Declared : m[k] # Absent} \cup {k \in Extras : HasValue(m[k])}
                        \cup {"createdAt", "updatedAt"}
               set == [k \in taken |-> IF k = "updatedAt" THEN Wall ELSE m[k]]
    <2>1. m \in Records
      BY <1>3 DEF RowInv, Working, PullMerges
    <2>2. \A k \in DOMAIN set : set[k] \in Given
      BY <2>1, RowAssumption DEF Given, Cols
    <2>3. /\ seen[c] # NoRow /\ Update(c, set, FALSE)
          /\ Over(c) /\ ops' = ops /\ by' = None
      BY <1>3 DEF PullMerges
    <2> HIDE DEF m, taken, set
    <2>4. TypeOK'
      BY <2>2, <2>3, UpdateInv, OverInv, NoRowAssumption DEF RowInv, TypeOK
    <2>5. ReadsBorn' /\ VersionTells'
      BY <2>2, <2>3, OverInv, RowUpdated
    <2> QED  BY <2>3, <2>4, <2>5, OverInv DEF RowInv
  <1>4. CASE PullUpdates(c)
    <2> DEFINE m == todo[c]
               changed == Changed(m, seen[c].cell, role[c])
               set == [k \in changed |-> m[k]]
    <2>1. m \in Records /\ role[c] \in Roles
      BY <1>4 DEF RowInv, Working, PullUpdates
    <2>2. \A k \in DOMAIN set : set[k] \in Given
      BY <2>1, ChangedVals DEF Given
    <2>3. /\ seen[c] # NoRow /\ Update(c, set, row.provisional)
          /\ Over(c) /\ ops' = ops
          /\ by' \in {<<m, role[c]>>, None}
      BY <1>4 DEF PullUpdates
    <2> HIDE DEF m, changed, set
    <2>4. row.provisional \in BOOLEAN
      BY <2>3 DEF RowInv, TypeOK, Row, Update, Matches
    <2>5. TypeOK'
      <3>1. /\ row' \in Row /\ births' = births /\ row'.born = row.born
            /\ row # NoRow
        BY <2>2, <2>3, <2>4, UpdateInv, NoRowAssumption
      <3>2. by' \in (Records \X Roles) \cup {None}
        BY <2>1, <2>3
      <3> QED  BY <2>3, <3>1, <3>2, OverInv DEF RowInv, TypeOK
    <2>6. ReadsBorn' /\ VersionTells'
      BY <2>2, <2>3, <2>4, OverInv, RowUpdated
    <2> QED  BY <2>3, <2>5, <2>6, OverInv DEF RowInv
  <1>5. CASE PullSkips(c)
    <2>1. Over(c) /\ UNCHANGED <<row, births, by, ops>>
      BY <1>5 DEF PullSkips
    <2> QED  BY <2>1, OverInv, RowKept DEF RowInv, TypeOK
  <1> QED  BY <1>1, <1>2, <1>3, <1>4, <1>5 DEF PullStep

\* Every caller's step keeps the invariant.
LEMMA CommandInv ==
    ASSUME RowInv, NEW c \in Callers, CommandStep(c)
    PROVE  RowInv'
  <1> USE DEF Writers
  <1>1. ASSUME NEW p \in Patches, NEW creates \in BOOLEAN, CommandClassifies(c, p, creates)
        PROVE  RowInv'
    <2>1. ops' \in 0..MaxOps
      BY <1>1, BegunOps DEF CommandClassifies, Begun
    <2>2. TypeOK'
      BY <1>1, <2>1 DEF RowInv, TypeOK, CommandClassifies
    <2>3. Working'
      BY <1>1, RowAssumption DEF RowInv, TypeOK, Working, CommandClassifies
    <2> QED  BY <1>1, <2>2, <2>3, RowKept DEF RowInv, CommandClassifies
  <1>2. CASE CommandReads(c) /\ row = NoRow
    <2>1. Over(c) /\ UNCHANGED <<row, births, by, ops>>
      BY <1>2 DEF CommandReads
    <2> QED  BY <2>1, OverInv, RowKept DEF RowInv, TypeOK
  <1>3. CASE CommandReads(c) /\ row # NoRow
    <2>1. /\ at[c] = "classified" /\ at' = [at EXCEPT ![c] = "write"]
          /\ seen' = [seen EXCEPT ![c] = row]
          /\ UNCHANGED <<todo, role, row, births, by, ops>>
      BY <1>3 DEF CommandReads
    <2>2. TypeOK'
      BY <2>1 DEF RowInv, TypeOK
    <2>3. Working'
      BY <2>1, RowAssumption DEF RowInv, TypeOK, Working
    <2>4. \A d \in Writers : seen'[d] \in {seen[d], row, NoRow}
      BY <2>1 DEF RowInv, TypeOK
    <2> QED  BY <2>1, <2>2, <2>3, <2>4, RowKept DEF RowInv
  <1>4. CASE CommandInserts(c)
    <2> DEFINE cell == [k \in Cols |-> IF k \in Declared THEN todo[c][k]
                                       ELSE IF k \in Extras THEN None ELSE Wall]
    <2>1. todo[c] \in [Declared -> Vals \cup {None}]
      BY <1>4, RowAssumption DEF RowInv, Working, CommandInserts
    <2>2. cell \in [Cols -> Given]
      BY <2>1 DEF Given
    <2>3. Insert(cell, FALSE) /\ Over(c) /\ ops' = ops /\ by' = None
      BY <1>4 DEF CommandInserts
    <2> HIDE DEF cell
    <2>4. TypeOK'
      BY <2>2, <2>3, InsertInv, OverInv DEF RowInv, TypeOK
    <2>5. ReadsBorn' /\ VersionTells'
      BY <2>2, <2>3, OverInv, RowInserted
    <2> QED  BY <2>3, <2>4, <2>5, OverInv DEF RowInv
  <1>5. CASE CommandUpdates(c)
    <2> DEFINE given == {k \in Declared : todo[c][k] # None}
               set == [k \in given \cup {"updatedAt"} |->
                           IF k = "updatedAt" THEN Wall ELSE todo[c][k]]
    <2>1. todo[c] \in [Declared -> Vals \cup {None}]
      BY <1>5, RowAssumption DEF RowInv, Working, CommandUpdates
    <2>2. \A k \in DOMAIN set : set[k] \in Given
      BY <2>1 DEF Given
    <2>3. /\ seen[c] # NoRow /\ Over(c) /\ ops' = ops
          /\ \/ UNCHANGED <<row, births, by>>
             \/ Update(c, set, row.provisional) /\ by' = None
      BY <1>5 DEF CommandUpdates
    <2> HIDE DEF given, set
    <2>4. CASE UNCHANGED <<row, births, by>>
      BY <2>3, <2>4, OverInv, RowKept DEF RowInv, TypeOK
    <2>5. CASE Update(c, set, row.provisional) /\ by' = None
      <3>1. row.provisional \in BOOLEAN
        BY <2>5 DEF RowInv, TypeOK, Row, Update, Matches
      <3>2. /\ row' \in Row /\ births' = births /\ row'.born = row.born
            /\ row # NoRow
        BY <2>2, <2>3, <2>5, <3>1, UpdateInv, NoRowAssumption
      <3>3. TypeOK'
        BY <2>3, <2>5, <3>2, OverInv DEF RowInv, TypeOK
      <3>4. ReadsBorn' /\ VersionTells'
        BY <2>2, <2>3, <2>5, <3>1, OverInv, RowUpdated
      <3> QED  BY <2>3, <3>3, <3>4, OverInv DEF RowInv
    <2> QED  BY <2>3, <2>4, <2>5
  <1> QED  BY <1>1, <1>2, <1>3, <1>4, <1>5 DEF CommandStep

\* The invariant holds at first and is kept by every step.
THEOREM RowInvariant == Spec => []RowInv
  <1>1. Init => RowInv
    <2> SUFFICES ASSUME Init  PROVE RowInv
      OBVIOUS
    <2>1. TypeOK
      BY RowAssumption DEF Init, TypeOK
    <2>2. Working
      BY DEF Init, Working, Writers
    <2>3. ReadsBorn /\ VersionTells
      BY DEF Init, ReadsBorn, VersionTells
    <2> QED  BY <2>1, <2>2, <2>3 DEF RowInv
  <1>2. RowInv /\ [Next]_vars => RowInv'
    <2> SUFFICES ASSUME RowInv, [Next]_vars  PROVE RowInv'
      OBVIOUS
    <2>1. ASSUME NEW c \in Connectors, PullStep(c)  PROVE RowInv'
      BY <2>1, PullInv
    <2>2. ASSUME NEW c \in Callers, CommandStep(c)  PROVE RowInv'
      BY <2>2, CommandInv
    <2>3. ASSUME NEW c \in Writers, Refused(c)  PROVE RowInv'
      <3>1. Over(c) /\ UNCHANGED <<row, births, by, ops>>
        BY <2>3 DEF Refused
      <3> QED  BY <3>1, OverInv, RowKept DEF RowInv, TypeOK
    <2>4. ASSUME NEW p \in Patches, OpensCycle(p)  PROVE RowInv'
      <3> DEFINE cell == [k \in Cols |-> IF k \in Declared THEN p[k] ELSE None]
      <3>1. cell \in [Cols -> Given]
        BY RowAssumption DEF Given
      <3>2. /\ Insert(cell, TRUE) /\ by' = None /\ UNCHANGED <<at, seen, todo, role>>
            /\ ops' \in 0..MaxOps
        BY <2>4, BegunOps DEF OpensCycle
      <3> HIDE DEF cell
      <3>3. TypeOK' /\ Working'
        BY <3>1, <3>2, InsertInv DEF RowInv, TypeOK, Working
      <3> QED  BY <3>1, <3>2, <3>3, RowInserted DEF RowInv
    <2>5. CASE Deletes
      <3>1. /\ row' = NoRow /\ by' = None /\ UNCHANGED <<births, at, seen, todo, role>>
            /\ ops' \in 0..MaxOps
        BY <2>5, BegunOps DEF Deletes
      <3>2. TypeOK' /\ Working'
        BY <3>1 DEF RowInv, TypeOK, Working
      <3>3. ReadsBorn' /\ VersionTells'
        BY <3>1 DEF RowInv, ReadsBorn, VersionTells
      <3> QED  BY <3>2, <3>3 DEF RowInv
    <2>6. CASE Restart
      <3>1. ops' \in 0..MaxOps
        BY <2>6, BegunOps DEF Restart
      <3>2. TypeOK' /\ Working'
        BY <2>6, <3>1 DEF Restart, RowInv, TypeOK, Working, Writers
      <3>3. \A d \in Writers : seen'[d] \in {seen[d], row, NoRow}
        BY <2>6 DEF Restart
      <3> QED  BY <2>6, <3>2, <3>3, RowKept DEF RowInv, Restart
    <2>7. CASE UNCHANGED vars
      BY <2>7 DEF vars, RowInv, TypeOK, Working, ReadsBorn, VersionTells
    <2> QED  BY <2>1, <2>2, <2>3, <2>4, <2>5, <2>6, <2>7 DEF Next
  <1> QED  BY <1>1, <1>2, PTL DEF Spec

\* The rows and their writers stay well typed.
THEOREM RowTypeCorrect == Spec => []TypeOK
  BY RowInvariant, PTL DEF RowInv

-----------------------------------------------------------------------------

\* Only a writer that is over has changed a stored row into another one, and the
\* store matched what it had read.
LEMMA WriterMatched ==
    ASSUME RowInv, Next, NEW c \in Writers, at[c] = "write", at'[c] = "idle",
           row # NoRow, row' # row
    PROVE  seen[c] # NoRow /\ Matches(seen[c])
  <1> USE DEF RowInv, TypeOK
  <1>1. \A d \in Writers : Over(d) => d = c
    BY DEF Over
  <1>2. ASSUME NEW d \in Connectors, PullStep(d)  PROVE seen[c] # NoRow /\ Matches(seen[c])
    <2>1. d = c /\ (PullMerges(d) \/ PullUpdates(d))
      BY <1>1, <1>2 DEF PullStep, PullFinds, PullInserts, PullMerges, PullUpdates, PullSkips,
         Insert, Writers
    <2> QED  BY <2>1 DEF PullMerges, PullUpdates, Update
  <1>3. ASSUME NEW d \in Callers, CommandStep(d)  PROVE seen[c] # NoRow /\ Matches(seen[c])
    <2>1. d = c /\ CommandUpdates(d)
      BY <1>1, <1>3 DEF CommandStep, CommandClassifies, CommandReads, CommandInserts,
         CommandUpdates, Insert, Writers
    <2> QED  BY <2>1 DEF CommandUpdates, Update
  <1>4. ~ \E d \in Writers : Refused(d)
    BY DEF Refused
  <1>5. ~ \E p \in Patches : OpensCycle(p)
    BY DEF OpensCycle
  <1>6. ~ Deletes /\ ~ Restart
    BY DEF Deletes, Restart
  <1> QED  BY <1>2, <1>3, <1>4, <1>5, <1>6 DEF Next

\* No write is lost: a writer that overwrites a stored row has read exactly what it
\* overwrites, for any columns, values and number of writers.
THEOREM NothingOverwrittenUnread == Spec => NoLostUpdate
  <1>1. RowInv /\ [Next]_vars =>
            [\A c \in Writers :
                /\ at[c] = "write" /\ at'[c] = "idle"
                /\ row # NoRow /\ row' # row
                => /\ seen[c] # NoRow
                   /\ seen[c].born = row.born => seen[c] = row]_vars
    <2> SUFFICES ASSUME RowInv, [Next]_vars, NEW c \in Writers,
                        at[c] = "write", at'[c] = "idle", row # NoRow, row' # row
                 PROVE  /\ seen[c] # NoRow
                        /\ seen[c].born = row.born => seen[c] = row
      OBVIOUS
    <2>1. Next
      BY DEF vars
    <2> QED  BY <2>1, WriterMatched DEF RowInv, VersionTells, Matches
  <1> QED  BY <1>1, RowInvariant, PTL DEF NoLostUpdate, Spec

\* A connector's write to a row it read as it is, and not opened by a pass, is an
\* upsert.
LEMMA PullWrites ==
    ASSUME RowInv, Next, NEW c \in Connectors, at[c] = "write", at'[c] = "idle",
           row # NoRow, row' # row, ~row.provisional, seen[c] = row
    PROVE  PullUpdates(c)
  <1> USE DEF RowInv, TypeOK
  <1>1. \A d \in Writers : Over(d) => d = c
    BY DEF Over, Writers
  <1>2. ASSUME NEW d \in Connectors, PullStep(d)  PROVE PullUpdates(c)
    BY <1>1, <1>2 DEF PullStep, PullFinds, PullInserts, PullMerges, PullUpdates, PullSkips,
       Insert, Writers
  <1>3. ~ \E d \in Callers : CommandStep(d)
    BY <1>1, RowAssumption DEF CommandStep, CommandClassifies, CommandReads, CommandInserts,
       CommandUpdates, Writers
  <1>4. ~ \E d \in Writers : Refused(d)
    BY DEF Refused
  <1>5. ~ \E p \in Patches : OpensCycle(p)
    BY DEF OpensCycle
  <1>6. ~ Deletes /\ ~ Restart
    BY DEF Deletes, Restart
  <1> QED  BY <1>2, <1>3, <1>4, <1>5, <1>6 DEF Next

\* What a pull takes over from its record leaves witnessed cells witnessed.
LEMMA ChangedKeeps ==
    ASSUME NEW m \in Records, NEW cell \in Cells, NEW u, NEW k \in Cols, cell[k] # None
    PROVE  /\ (IF k \in Changed(m, cell, u) THEN Stored(k, m[k]) ELSE cell[k]) # None
           /\ k = "createdAt" => k \notin Changed(m, cell, u)
  <1>1. k \in Changed(m, cell, u) => Stored(k, m[k]) \in Vals
    BY ChangedVals, StoredValue DEF Given
  <1> QED  BY <1>1, RowAssumption DEF Changed

\* A pull never empties a witnessed cell nor moves a creation date of the row it has
\* read, whichever other writers there are.
THEOREM WitnessedStays == Spec => PullsKeepWitnessed
  <1>1. RowInv /\ [Next]_vars =>
            [\A c \in Connectors :
                /\ at[c] = "write" /\ at'[c] = "idle"
                /\ row # NoRow /\ row' # row /\ ~row.provisional
                /\ seen[c] # NoRow /\ seen[c].born = row.born
                => /\ \A k \in Cols : row.cell[k] # None => row'.cell[k] # None
                   /\ row.cell["createdAt"] # None
                          => row'.cell["createdAt"] = row.cell["createdAt"]]_vars
    <2> SUFFICES ASSUME RowInv, [Next]_vars, NEW c \in Connectors,
                        at[c] = "write", at'[c] = "idle", row # NoRow, row' # row,
                        ~row.provisional, seen[c] # NoRow, seen[c].born = row.born
                 PROVE  /\ \A k \in Cols : row.cell[k] # None => row'.cell[k] # None
                        /\ row.cell["createdAt"] # None
                               => row'.cell["createdAt"] = row.cell["createdAt"]
      OBVIOUS
    <2>1. Next
      BY DEF vars
    <2>2. c \in Writers /\ seen[c] = row
      BY <2>1, WriterMatched DEF RowInv, VersionTells, Matches, Writers
    <2>3. PullUpdates(c)
      BY <2>1, <2>2, PullWrites
    <2> DEFINE m == todo[c]
               changed == Changed(m, row.cell, role[c])
               set == [k \in changed |-> m[k]]
    <2>4. m \in Records /\ row \in Row
      BY DEF RowInv, TypeOK, Working
    <2>5. \A k \in DOMAIN set : set[k] \in Given
      BY <2>4, ChangedVals DEF Given
    <2>6. Update(c, set, row.provisional)
      BY <2>2, <2>3 DEF PullUpdates
    <2>7. row'.cell = [k \in Cols |-> IF k \in DOMAIN set THEN Stored(k, set[k])
                                      ELSE row.cell[k]]
      BY <2>2, <2>4, <2>5, <2>6, UpdateInv DEF Row
    <2>8. row'.cell = [k \in Cols |-> IF k \in changed THEN Stored(k, m[k]) ELSE row.cell[k]]
      BY <2>7
    <2>9. row.cell \in Cells /\ "createdAt" \in Cols
      BY <2>4 DEF Row, Cols
    <2> HIDE DEF changed, set
    <2>10. \A k \in Cols : row.cell[k] # None =>
               /\ row'.cell[k] # None
               /\ k = "createdAt" => row'.cell[k] = row.cell[k]
      BY <2>4, <2>8, <2>9, ChangedKeeps DEF changed
    <2> QED  BY <2>9, <2>10
  <1> QED  BY <1>1, RowInvariant, PTL DEF PullsKeepWitnessed, Spec

-----------------------------------------------------------------------------

\* What the store has just taken over from a record is changed again only where the
\* column has put it into another form.
Settled(m, cell, u) ==
    \A k \in Changed(m, cell, u) : k \in Columns /\ cell[k] = Stored(k, m[k])

\* A cell that was written from the record differs from it only in a column.
LEMMA WrittenSettles ==
    ASSUME NEW m \in Records, NEW u, NEW cell, NEW k \in Changed(m, cell, u),
           cell[k] = Stored(k, m[k])
    PROVE  k \in Columns
  <1>1. k \in Cols /\ m[k] \in Vals /\ m[k] # cell[k]
    BY ChangedVals DEF Changed
  <1> QED  BY <1>1, StoredValue DEF Given

\* What an insert or an upsert of a record leaves is settled.
LEMMA InsertSettles ==
    ASSUME NEW m \in Records, NEW u \in Roles
    PROVE  Settled(m, [k \in Cols |-> Stored(k, m[k])], u)
  <1> DEFINE next == [k \in Cols |-> Stored(k, m[k])]
  <1>1. \A k \in Changed(m, next, u) : next[k] = Stored(k, m[k])
    BY ChangedVals
  <1> HIDE DEF next
  <1>2. Settled(m, next, u)
    BY <1>1, WrittenSettles DEF Settled
  <1> QED  BY <1>2 DEF next

LEMMA UpsertSettles ==
    ASSUME NEW m \in Records, NEW u \in Roles, NEW cell \in Cells
    PROVE  Settled(m, [k \in Cols |-> IF k \in Changed(m, cell, u) THEN Stored(k, m[k])
                                      ELSE cell[k]], u)
  <1> DEFINE next == [k \in Cols |-> IF k \in Changed(m, cell, u) THEN Stored(k, m[k])
                                     ELSE cell[k]]
  <1>1. \A k \in Cols : next[k] = IF k \in Changed(m, cell, u) THEN Stored(k, m[k])
                                  ELSE cell[k]
    OBVIOUS
  <1> HIDE DEF next
  <1>2. \A k \in Changed(m, next, u) : k \in Changed(m, cell, u)
    <2>1. CASE u # None /\ HasValue(m[u]) /\ m[u] = cell[u]
      <3>1. u \in Cols /\ u \notin Extras /\ u \notin Changed(m, cell, u)
        BY <2>1, RowAssumption DEF Changed, Columns
      <3>2. next[u] = cell[u]
        BY <1>1, <3>1
      <3> QED  BY <1>1, <2>1, <3>2 DEF Changed
    <2>2. CASE ~ (u # None /\ HasValue(m[u]) /\ m[u] = cell[u])
      BY <1>1, <2>2 DEF Changed
    <2> QED  BY <2>1, <2>2
  <1>3. \A k \in Changed(m, next, u) : next[k] = Stored(k, m[k])
    BY <1>1, <1>2, ChangedVals
  <1>4. Settled(m, next, u)
    BY <1>3, WrittenSettles DEF Settled
  <1> QED  BY <1>4 DEF next

\* Whoever writes, pulling again what the last pull wrote changes no cell, and writes
\* none but a column's, where the store has another form of the same value.
THEOREM RepullsSettle == Spec => []RepullSettles
  <1> USE DEF RepullSettles
  <1>1. Init => RepullSettles
    BY DEF Init
  <1>2. RowInv /\ RepullSettles /\ [Next]_vars => RepullSettles'
    <2> SUFFICES ASSUME RowInv, RepullSettles, [Next]_vars  PROVE RepullSettles'
      OBVIOUS
    <2> USE DEF RowInv, TypeOK
    <2>1. CASE UNCHANGED <<row, by>>
      BY <2>1
    <2>2. CASE by' = None
      BY <2>2
    <2>3. ASSUME NEW c \in Connectors, PullInserts(c)  PROVE RepullSettles'
      <3>1. todo[c] \in Records /\ role[c] \in Roles
        BY <2>3 DEF Working, PullInserts
      <3>2. by' = <<todo[c], role[c]>> /\ row'.cell = [k \in Cols |-> Stored(k, todo[c][k])]
        BY <2>3 DEF PullInserts, Insert
      <3> QED  BY <3>1, <3>2, InsertSettles DEF Settled
    <2>4. ASSUME NEW c \in Connectors, PullUpdates(c), by' # None  PROVE RepullSettles'
      <3> DEFINE m == todo[c]
                 changed == Changed(m, row.cell, role[c])
                 set == [k \in changed |-> m[k]]
      <3>1. m \in Records /\ role[c] \in Roles /\ c \in Writers
        BY <2>4 DEF Working, PullUpdates, Writers
      <3>2. seen[c] # NoRow /\ Matches(seen[c]) /\ by' = <<m, role[c]>>
            /\ seen[c].born = row.born
        BY <2>4 DEF PullUpdates, Update
      <3>3. seen[c] = row /\ row \in Row
        BY <3>1, <3>2 DEF VersionTells, Matches
      <3>4. row.cell \in Cells /\ row.provisional \in BOOLEAN
        BY <3>3 DEF Row
      <3>5. Update(c, set, row.provisional)
        BY <2>4, <3>3 DEF PullUpdates
      <3>6. \A k \in DOMAIN set : set[k] \in Given
        BY <3>1, <3>4, ChangedVals DEF Given
      <3>7. row'.cell = [k \in Cols |-> IF k \in DOMAIN set THEN Stored(k, set[k])
                                        ELSE row.cell[k]]
        BY <3>1, <3>2, <3>4, <3>5, <3>6, UpdateInv
      <3>8. row'.cell = [k \in Cols |-> IF k \in changed THEN Stored(k, m[k])
                                        ELSE row.cell[k]]
        BY <3>7
      <3> QED  BY <3>1, <3>2, <3>4, <3>8, UpsertSettles DEF Settled
    <2>5. \A c \in Connectors : PullStep(c) =>
              \/ UNCHANGED <<row, by>> \/ by' = None
              \/ PullInserts(c) \/ PullUpdates(c)
      BY DEF PullStep, PullFinds, PullMerges, PullSkips
    <2>6. \A c \in Callers : CommandStep(c) => UNCHANGED <<row, by>> \/ by' = None
      BY DEF CommandStep, CommandClassifies, CommandReads, CommandInserts, CommandUpdates
    <2>7. \A c \in Writers : Refused(c) => UNCHANGED <<row, by>>
      BY DEF Refused
    <2>8. \A p \in Patches : OpensCycle(p) => by' = None
      BY DEF OpensCycle
    <2>9. Deletes \/ Restart => UNCHANGED <<row, by>> \/ by' = None
      BY DEF Deletes, Restart
    <2> QED  BY <2>1, <2>2, <2>3, <2>4, <2>5, <2>6, <2>7, <2>8, <2>9 DEF Next, vars
  <1> QED  BY <1>1, <1>2, RowInvariant, PTL DEF Spec

-----------------------------------------------------------------------------
(* The read cache.                                                         *)

Values == UNION {[S -> Nat] : S \in SUBSET Workflows}

Entry == [val : Values, expires : Nat, readAt : Nat, overlapped : BOOLEAN, unhooked : BOOLEAN]

Computing == [busy : {TRUE}, key : Keys, val : Values, readAt : Nat, overlapped : BOOLEAN,
              unhooked : BOOLEAN]

CacheTypes ==
    /\ now \in Nat
    /\ data \in [Orgs -> [Workflows -> Nat]]
    /\ unsent \in [Keys -> Nat]
    /\ IsFiniteSet(DOMAIN store) /\ DOMAIN store \subseteq Keys
    /\ \A k \in DOMAIN store : store[k] \in Entry
    /\ reader \in [Readers -> Computing \cup {Idle}]

\* No compute takes longer than MaxCompute, and no entry outlives the compute by more
\* than TTL.
Recent ==
    /\ \A r \in Readers : reader[r].busy =>
           reader[r].readAt <= now /\ now <= reader[r].readAt + MaxCompute
    /\ \A k \in DOMAIN store :
           store[k].readAt <= now /\ store[k].expires <= store[k].readAt + MaxCompute + TTL

\* What a compute is going to store is explained as well as what is stored.
ComputesExplained == \A r \in Readers : reader[r].busy => Explained(reader[r].key, reader[r])

CacheInv ==
    /\ CacheTypes
    /\ Recent
    /\ MapBounded
    /\ StalenessBounded
    /\ StaleOnlyByOverlap
    /\ ComputesExplained

\* What a slice's key is.
LEMMA KeyParts ==
    ASSUME NEW k \in Keys
    PROVE  /\ k = <<k[1], k[2]>> /\ k[1] \in Orgs /\ k[2] \in Workflows \cup {ORG_SCOPE}
           /\ Scope(k) \subseteq Workflows
           /\ \A w \in Scope(k) \cup {ORG_SCOPE} : <<k[1], w>> \in Keys
  BY DEF Keys, Scope

\* A hooked write leaves what it makes stale to its invalidation.
LEMMA WriteExplained ==
    ASSUME CacheTypes, NEW o \in Orgs, NEW w \in Workflows \cup {ORG_SCOPE}, Write(o, w),
           NEW k \in Keys, NEW v, Explained(k, v)
    PROVE  Explained(k, v)'
<1>1. /\ unsent'[<<o, w>>] > 0
      /\ \A x \in Keys : unsent'[x] >= unsent[x]
  <2>1. PICK z \in Keys : z = <<o, w>> BY DEF Keys
  <2>2. unsent' = [unsent EXCEPT ![z] = unsent[z] + 1] BY <2>1 DEF Write
  <2>3. \A x \in Keys : unsent[x] \in Nat /\ unsent'[x] = IF x = z THEN unsent[x] + 1 ELSE unsent[x]
      BY <2>2 DEF CacheTypes
  <2> QED BY <2>1, <2>3
<1>2. CASE k[1] = o /\ w \in Scope(k) \cup {ORG_SCOPE} BY <1>1, <1>2 DEF Explained
<1>3. CASE ~(k[1] = o /\ w \in Scope(k) \cup {ORG_SCOPE})
  <2>1. \A x \in Scope(k) : data'[k[1]][x] = data[k[1]][x]
    <3>1. CASE k[1] # o BY <3>1, KeyParts DEF Write, CacheTypes
    <3>2. CASE k[1] = o
      <4>1. w \in Workflows /\ w \notin Scope(k) BY <1>3, <3>2
      <4>2. Scope(<<o, w>>) = {w} BY <4>1, CacheAssumption DEF Scope
      <4> QED BY <3>2, <4>1, <4>2, KeyParts DEF Write, CacheTypes
    <3> QED BY <3>1, <3>2
  <2>2. Current(k)' = Current(k) BY <2>1 DEF Current, Scope
  <2>3. ASSUME NEW u \in Scope(k) \cup {ORG_SCOPE}, unsent[<<k[1], u>>] > 0
        PROVE  unsent'[<<k[1], u>>] > 0
    <3>1. <<k[1], u>> \in Keys BY KeyParts
    <3>2. unsent[<<k[1], u>>] \in Nat /\ unsent'[<<k[1], u>>] \in Nat
        BY <3>1 DEF CacheTypes, Write
    <3> QED BY <1>1, <2>3, <3>1, <3>2
  <2> QED BY <2>2, <2>3 DEF Explained, Scope
<1> QED BY <1>2, <1>3

\* An invalidation drops every slice that waits for it.
LEMMA InvalidateExplained ==
    ASSUME CacheTypes, NEW o \in Orgs, NEW w \in Workflows \cup {ORG_SCOPE},
           InvalidateReads(o, w), NEW k \in Keys, k \notin Dropped(o, w),
           NEW v, Explained(k, v)
    PROVE  Explained(k, v)'
<1>1. data' = data /\ unsent' = [unsent EXCEPT ![<<o, w>>] = @ - 1] BY DEF InvalidateReads
<1>2. ASSUME NEW u \in Scope(k) \cup {ORG_SCOPE}, unsent[<<k[1], u>>] > 0
      PROVE  unsent'[<<k[1], u>>] > 0
  <2>1. <<k[1], u>> # <<o, w>>
    <3> SUFFICES ASSUME k[1] = o, u = w PROVE FALSE OBVIOUS
    <3>1. w # ORG_SCOPE BY KeyParts DEF Dropped
    <3>2. w \in Scope(k) BY <3>1
    <3>3. k[2] \in {ORG_SCOPE, w} BY <3>2 DEF Scope
    <3> QED BY <3>1, <3>3, KeyParts DEF Dropped
  <2>2. <<k[1], u>> \in Keys BY KeyParts
  <2> QED BY <1>1, <1>2, <2>1, <2>2 DEF CacheTypes
<1>3. Current(k)' = Current(k) BY <1>1 DEF Current
<1> QED BY <1>2, <1>3 DEF Explained, Scope

\* A write without a hook changes nothing for the slices that do not look at it.
LEMMA UnhookedExplained ==
    ASSUME CacheTypes, NEW o \in Orgs, NEW w \in Workflows, WriteUnhooked(o, w),
           NEW k \in Keys, ~(o = k[1] /\ w \in Scope(k)), NEW v, Explained(k, v)
    PROVE  Explained(k, v)'
<1>1. unsent' = unsent BY DEF WriteUnhooked
<1>2. \A x \in Scope(k) : data'[k[1]][x] = data[k[1]][x]
    BY KeyParts DEF WriteUnhooked, CacheTypes
<1>3. Current(k)' = Current(k) BY <1>2 DEF Current, Scope
<1> QED BY <1>1, <1>3 DEF Explained, Scope

\* A reader computes or does nothing.
LEMMA ReaderParts ==
    ASSUME CacheTypes, NEW r \in Readers
    PROVE  /\ reader[r] \in Computing \cup {Idle}
           /\ reader[r].busy =>
                 /\ reader[r] \in Computing /\ reader[r].key \in Keys
                 /\ reader[r].val \in Values /\ reader[r].readAt \in Nat
                 /\ reader[r].overlapped \in BOOLEAN /\ reader[r].unhooked \in BOOLEAN
<1>1. reader[r] \in Computing \cup {Idle} BY DEF CacheTypes
<1>2. CASE reader[r] = Idle BY <1>2 DEF Idle
<1>3. CASE reader[r] \in Computing BY <1>3 DEF Computing
<1> QED BY <1>1, <1>2, <1>3

\* Marking what a reader computes.
LEMMA Marked ==
    ASSUME NEW d \in Computing
    PROVE  LET m == [d EXCEPT !.overlapped = TRUE]
               n == [d EXCEPT !.unhooked = TRUE]
           IN  /\ m \in Computing /\ m.key = d.key /\ m.readAt = d.readAt
               /\ n \in Computing /\ n.key = d.key /\ n.readAt = d.readAt
  BY DEF Computing

\* Explanations hold on while no write commits or invalidates.
LEMMA ExplainedStays ==
    ASSUME UNCHANGED <<data, unsent>>,
           \A k \in DOMAIN store' : Explained(k, store'[k]),
           \A r \in Readers : reader'[r].busy => Explained(reader'[r].key, reader'[r])
    PROVE  StaleOnlyByOverlap' /\ ComputesExplained'
<1>1. ASSUME NEW k, NEW v, Explained(k, v) PROVE Explained(k, v)'
  <2>1. Current(k)' = Current(k) BY DEF Current
  <2> QED BY <1>1, <2>1 DEF Explained, Scope
<1>2. ASSUME NEW k \in DOMAIN store' PROVE Explained(k, store[k])'
  <2>1. PICK v : v = store'[k] OBVIOUS
  <2> QED BY <1>1, <2>1
<1>3. ASSUME NEW r \in Readers, reader'[r].busy PROVE Explained(reader[r].key, reader[r])'
  <2>1. PICK d : d = reader'[r] OBVIOUS
  <2>2. Explained(d.key, d) BY <1>3, <2>1
  <2>3. Explained(d.key, d)' BY <1>1, <2>2
  <2> QED BY <2>1, <2>3
<1> QED BY <1>2, <1>3 DEF StaleOnlyByOverlap, ComputesExplained

LEMMA CacheInitInv == CacheInit => CacheInv
<1> SUFFICES ASSUME CacheInit PROVE CacheInv OBVIOUS
<1>1. DOMAIN store = {} /\ \A r \in Readers : reader[r] = Idle /\ ~reader[r].busy
    BY DEF CacheInit, Idle
<1>2. IsFiniteSet(DOMAIN store) /\ Cardinality(DOMAIN store) = 0 BY <1>1, FS_EmptySet
<1>3. CacheTypes BY <1>1, <1>2 DEF CacheInit, CacheTypes
<1> QED
  BY <1>1, <1>2, <1>3, CacheAssumption
  DEF CacheInit, CacheInv, Recent, MapBounded, StalenessBounded, StaleOnlyByOverlap,
      ComputesExplained

\* The keys after a value is put into the Map, and their entries.
LEMMA PutKeys ==
    ASSUME CacheTypes, MapBounded, NEW k \in Keys, NEW e, Put(k, e)
    PROVE  /\ IsFiniteSet(DOMAIN store') /\ MapBounded'
           /\ DOMAIN store' \subseteq DOMAIN store \cup {k}
           /\ \A x \in DOMAIN store' : store'[x] = IF x = k THEN e ELSE store[x]
<1> DEFINE full == Entered(k, e)
<1>1. /\ DOMAIN full = DOMAIN store \cup {k}
      /\ \A x \in DOMAIN full : full[x] = IF x = k THEN e ELSE store[x]
    BY DEF Entered
<1>2. /\ IsFiniteSet(DOMAIN full)
      /\ Cardinality(DOMAIN full) \in Nat
      /\ Cardinality(DOMAIN full) <= Cardinality(DOMAIN store) + 1
      /\ Cardinality(DOMAIN store) \in Nat
  <2>1. PICK K : K = DOMAIN store OBVIOUS
  <2>2. IsFiniteSet(K) /\ Cardinality(K) \in Nat BY <2>1, FS_CardinalityType DEF CacheTypes
  <2>3. /\ IsFiniteSet(K \cup {k})
        /\ Cardinality(K \cup {k}) = IF k \in K THEN Cardinality(K) ELSE Cardinality(K) + 1
      BY <2>2, FS_AddElement
  <2> QED BY <1>1, <2>1, <2>2, <2>3
<1> HIDE DEF full
<1>3. CASE Cardinality(DOMAIN full) <= MAX_ENTRIES /\ store' = full
    BY <1>1, <1>2, <1>3 DEF MapBounded
<1>4. CASE \E x \in DOMAIN full : store' = Only(full, DOMAIN full \ {x})
  <2>1. PICK x \in DOMAIN full : store' = Only(full, DOMAIN full \ {x}) BY <1>4
  <2>2. /\ DOMAIN store' = DOMAIN full \ {x}
        /\ \A y \in DOMAIN store' : store'[y] = full[y]
      BY <2>1 DEF Only
  <2>3. /\ IsFiniteSet(DOMAIN full \ {x})
        /\ Cardinality(DOMAIN full \ {x}) = Cardinality(DOMAIN full) - 1
      BY <1>2, <2>1, FS_RemoveElement
  <2>4. MapBounded'
      BY <1>2, <2>2, <2>3, CacheAssumption DEF MapBounded
  <2> QED BY <1>1, <2>2, <2>3, <2>4
<1> QED BY <1>3, <1>4 DEF Put, full

LEMMA CacheStep == ASSUME CacheInv, [CacheNext]_cacheVars PROVE CacheInv'
<1> USE CacheAssumption DEF CacheInv
<1>1. /\ DOMAIN store \subseteq Keys /\ now \in Nat
      /\ \A r \in Readers : reader[r] \in Computing \cup {Idle}
      /\ \A r \in Readers : reader[r].busy =>
             /\ reader[r] \in Computing /\ reader[r].key \in Keys
             /\ reader[r].val \in Values /\ reader[r].readAt \in Nat
             /\ reader[r].overlapped \in BOOLEAN /\ reader[r].unhooked \in BOOLEAN
    BY ReaderParts DEF CacheTypes
<1>2. ASSUME NEW r \in Readers, NEW k \in Keys, Hit(r, k) PROVE CacheInv'
  <2>1. /\ k \in DOMAIN store /\ store[k].expires > now /\ age' = now - store[k].readAt
        /\ UNCHANGED <<data, store, reader, unsent, now>>
      BY <1>2 DEF Hit, Live
  <2>2. /\ store[k].readAt \in Nat /\ store[k].expires \in Nat
      BY <2>1 DEF CacheTypes, Entry
  <2>3. StalenessBounded' BY <1>1, <2>1, <2>2 DEF Recent, StalenessBounded
  <2>4. CacheTypes' BY <2>1 DEF CacheTypes
  <2>5. Recent' /\ MapBounded' BY <2>1 DEF Recent, MapBounded
  <2>6. StaleOnlyByOverlap' /\ ComputesExplained'
      BY <2>1, ExplainedStays DEF StaleOnlyByOverlap, ComputesExplained
  <2> QED BY <2>3, <2>4, <2>5, <2>6
<1>3. ASSUME NEW r \in Readers, NEW k \in Keys, Miss(r, k) PROVE CacheInv'
  <2>1. PICK d : d = [busy |-> TRUE, key |-> k, val |-> Current(k), readAt |-> now,
                      overlapped |-> FALSE, unhooked |-> FALSE]
      OBVIOUS
  <2>2. reader' = [reader EXCEPT ![r] = d] /\ UNCHANGED <<data, store, age, unsent, now>>
      BY <1>3, <2>1 DEF Miss
  <2>3. Current(k) \in Values
    <3>1. Scope(k) \in SUBSET Workflows /\ data[k[1]] \in [Workflows -> Nat]
        BY KeyParts DEF CacheTypes
    <3>2. Current(k) \in [Scope(k) -> Nat] BY <3>1 DEF Current
    <3> QED BY <3>1, <3>2 DEF Values
  <2>4. d \in Computing BY <1>1, <2>1, <2>3 DEF Computing
  <2>5. \A x \in Readers : reader'[x] = IF x = r THEN d ELSE reader[x]
      BY <2>2 DEF CacheTypes
  <2>6. CacheTypes' BY <2>2, <2>4 DEF CacheTypes
  <2>7. Recent' BY <1>1, <2>1, <2>2, <2>5 DEF Recent
  <2>8. Explained(k, d) BY <2>1 DEF Explained
  <2>9. ComputesExplained' /\ StaleOnlyByOverlap'
    <3>1. \A x \in Readers : reader'[x].busy => Explained(reader'[x].key, reader'[x])
        BY <2>1, <2>5, <2>8 DEF ComputesExplained
    <3> QED BY <2>2, <3>1, ExplainedStays DEF StaleOnlyByOverlap
  <2> QED BY <2>2, <2>6, <2>7, <2>9 DEF MapBounded, StalenessBounded
<1>4. ASSUME NEW r \in Readers, Fill(r) PROVE CacheInv'
  <2>1. PICK d, e : /\ d = reader[r]
                    /\ e = [val |-> d.val, expires |-> now + TTL, readAt |-> d.readAt,
                            overlapped |-> d.overlapped, unhooked |-> d.unhooked]
      OBVIOUS
  <2>2. /\ d.busy /\ Put(d.key, e) /\ age' = now - d.readAt
        /\ reader' = [reader EXCEPT ![r] = Idle] /\ UNCHANGED <<data, unsent, now>>
      BY <1>4, <2>1 DEF Fill
  <2>3. e \in Entry BY <1>1, <2>1, <2>2 DEF Entry
  <2>4. /\ IsFiniteSet(DOMAIN store') /\ MapBounded'
        /\ DOMAIN store' \subseteq DOMAIN store \cup {d.key}
        /\ \A x \in DOMAIN store' : store'[x] = IF x = d.key THEN e ELSE store[x]
      BY <1>1, <2>1, <2>2, PutKeys
  <2>5. /\ d.readAt \in Nat /\ d.readAt <= now /\ now <= d.readAt + MaxCompute /\ d.key \in Keys
      BY <1>1, <2>1, <2>2 DEF Recent
  <2>6. \A x \in Readers : reader'[x].busy => reader'[x] = reader[x] /\ reader[x].busy
    <3>1. \A x \in Readers : reader'[x] = IF x = r THEN Idle ELSE reader[x]
        BY <2>2 DEF CacheTypes
    <3> QED BY <3>1 DEF Idle
  <2>7. \A x \in DOMAIN store' : store'[x] \in Entry BY <2>3, <2>4 DEF CacheTypes
  <2>8. CacheTypes'
    <3>1. reader' \in [Readers -> Computing \cup {Idle}] BY <2>2 DEF CacheTypes
    <3> QED BY <2>2, <2>4, <2>5, <2>7, <3>1 DEF CacheTypes
  <2>9. Recent'
    <3>1. \A x \in DOMAIN store' : /\ store'[x].readAt <= now
                                   /\ store'[x].expires <= store'[x].readAt + MaxCompute + TTL
      <4>1. e.readAt <= now /\ e.expires <= e.readAt + MaxCompute + TTL
          BY <1>1, <2>1, <2>5
      <4> QED BY <2>4, <4>1 DEF Recent
    <3> QED BY <2>2, <2>6, <3>1 DEF Recent
  <2>10. StalenessBounded' BY <1>1, <2>2, <2>5 DEF StalenessBounded
  <2>11. Explained(d.key, d) BY <2>1, <2>2 DEF ComputesExplained
  <2>12. Explained(d.key, e) BY <2>1, <2>11 DEF Explained
  <2>13. \A x \in DOMAIN store' : Explained(x, store'[x])
      BY <2>4, <2>12 DEF StaleOnlyByOverlap
  <2>14. \A x \in Readers : reader'[x].busy => Explained(reader'[x].key, reader'[x])
      BY <2>6 DEF ComputesExplained
  <2>15. StaleOnlyByOverlap' /\ ComputesExplained'
      BY <2>2, <2>13, <2>14, ExplainedStays
  <2> QED BY <2>4, <2>8, <2>9, <2>10, <2>15
<1>5. ASSUME NEW r \in Readers, ComputeThrows(r) PROVE CacheInv'
  <2>1. /\ reader' = [reader EXCEPT ![r] = Idle]
        /\ UNCHANGED <<data, store, age, unsent, now>>
      BY <1>5 DEF ComputeThrows
  <2>2. \A x \in Readers : reader'[x].busy => reader'[x] = reader[x] /\ reader[x].busy
    <3>1. \A x \in Readers : reader'[x] = IF x = r THEN Idle ELSE reader[x]
        BY <2>1 DEF CacheTypes
    <3> QED BY <3>1 DEF Idle
  <2>3. CacheTypes' BY <2>1 DEF CacheTypes
  <2>4. Recent' BY <2>1, <2>2 DEF Recent
  <2>5. \A x \in Readers : reader'[x].busy => Explained(reader'[x].key, reader'[x])
      BY <2>2 DEF ComputesExplained
  <2>6. StaleOnlyByOverlap' /\ ComputesExplained'
      BY <2>1, <2>5, ExplainedStays DEF StaleOnlyByOverlap
  <2> QED BY <2>1, <2>3, <2>4, <2>6 DEF MapBounded, StalenessBounded
<1>6. ASSUME NEW o \in Orgs, NEW w \in Workflows \cup {ORG_SCOPE}, Write(o, w) PROVE CacheInv'
  <2>1. UNCHANGED <<store, reader, age, now>> BY <1>6 DEF Write
  <2>2. CacheTypes'
    <3>1. data' \in [Orgs -> [Workflows -> Nat]]
      <4>1. \A d \in [Workflows -> Nat] :
                [v \in Workflows |-> IF v \in Scope(<<o, w>>) THEN d[v] + 1 ELSE d[v]]
                    \in [Workflows -> Nat]
          OBVIOUS
      <4> QED BY <1>6, <4>1 DEF Write, CacheTypes
    <3>2. unsent' \in [Keys -> Nat]
      <4>1. PICK z \in Keys : z = <<o, w>> BY DEF Keys
      <4>2. unsent' = [unsent EXCEPT ![z] = unsent[z] + 1] BY <1>6, <4>1 DEF Write
      <4> QED BY <4>2 DEF CacheTypes
    <3> QED BY <2>1, <3>1, <3>2 DEF CacheTypes
  <2>3. StaleOnlyByOverlap'
      BY <1>1, <1>6, <2>1, WriteExplained DEF StaleOnlyByOverlap
  <2>4. ComputesExplained'
      BY <1>1, <1>6, <2>1, WriteExplained DEF ComputesExplained
  <2> QED BY <2>1, <2>2, <2>3, <2>4 DEF Recent, MapBounded, StalenessBounded
<1>7. ASSUME NEW o \in Orgs, NEW w \in Workflows \cup {ORG_SCOPE}, InvalidateReads(o, w)
      PROVE  CacheInv'
  <2>1. /\ UNCHANGED <<data, age, now>>
        /\ DOMAIN store' = DOMAIN store \ Dropped(o, w)
        /\ \A k \in DOMAIN store' : store'[k] = store[k]
      BY <1>7 DEF InvalidateReads, Only
  <2>2. \A r \in Readers :
            reader'[r] = IF reader[r].busy /\ reader[r].key \in Dropped(o, w)
                         THEN [reader[r] EXCEPT !.overlapped = TRUE] ELSE reader[r]
      BY <1>7 DEF InvalidateReads
  <2>3. \A r \in Readers : /\ reader'[r] \in Computing \cup {Idle}
                           /\ reader'[r].busy => /\ reader[r].busy
                                                 /\ reader'[r].key = reader[r].key
                                                 /\ reader'[r].readAt = reader[r].readAt
    <3> SUFFICES ASSUME NEW r \in Readers
                 PROVE  /\ reader'[r] \in Computing \cup {Idle}
                        /\ reader'[r].busy => /\ reader[r].busy
                                              /\ reader'[r].key = reader[r].key
                                              /\ reader'[r].readAt = reader[r].readAt
        OBVIOUS
    <3>1. CASE reader'[r] = reader[r] BY <1>1, <3>1
    <3>2. CASE reader'[r] # reader[r]
      <4>1. reader[r].busy /\ reader'[r] = [reader[r] EXCEPT !.overlapped = TRUE]
          BY <2>2, <3>2
      <4>2. reader[r] \in Computing BY <1>1, <4>1
      <4> QED BY <4>1, <4>2, Marked
    <3> QED BY <3>1, <3>2
  <2>4. /\ IsFiniteSet(DOMAIN store') /\ MapBounded'
    <3>1. PICK K : K = DOMAIN store OBVIOUS
    <3>2. IsFiniteSet(K) /\ DOMAIN store' \in SUBSET K BY <2>1, <3>1 DEF CacheTypes
    <3>3. IsFiniteSet(DOMAIN store') /\ Cardinality(DOMAIN store') <= Cardinality(K)
        BY <3>2, FS_Subset
    <3>4. Cardinality(K) \in Nat /\ Cardinality(DOMAIN store') \in Nat
        BY <3>2, <3>3, FS_CardinalityType
    <3> QED BY <3>1, <3>3, <3>4 DEF MapBounded
  <2>5. CacheTypes'
    <3>1. reader' \in [Readers -> Computing \cup {Idle}]
        BY <1>7, <2>3 DEF InvalidateReads
    <3>2. unsent' \in [Keys -> Nat]
      <4>1. PICK z \in Keys : z = <<o, w>> BY DEF Keys
      <4>2. unsent' = [unsent EXCEPT ![z] = unsent[z] - 1] /\ unsent[z] > 0
          BY <1>7, <4>1 DEF InvalidateReads
      <4> QED BY <4>2 DEF CacheTypes
    <3> QED BY <2>1, <2>4, <3>1, <3>2 DEF CacheTypes
  <2>6. Recent' BY <2>1, <2>3 DEF Recent
  <2>7. StaleOnlyByOverlap'
    <3>1. ASSUME NEW k \in DOMAIN store' PROVE Explained(k, store[k])'
      <4>1. k \in DOMAIN store /\ k \in Keys /\ k \notin Dropped(o, w) /\ store'[k] = store[k]
          BY <1>1, <2>1, <3>1
      <4>2. PICK v : v = store[k] OBVIOUS
      <4>3. Explained(k, v) BY <4>1, <4>2 DEF StaleOnlyByOverlap
      <4>4. Explained(k, v)' BY <1>7, <4>1, <4>3, InvalidateExplained
      <4> QED BY <4>1, <4>2, <4>4
    <3> QED BY <3>1 DEF StaleOnlyByOverlap
  <2>8. ComputesExplained'
    <3> SUFFICES ASSUME NEW r \in Readers, reader'[r].busy
                 PROVE  Explained(reader[r].key, reader[r])'
        BY DEF ComputesExplained
    <3>1. PICK d : d = reader[r] OBVIOUS
    <3>2. d.busy /\ d.key \in Keys /\ Explained(d.key, d) /\ d \in Computing
        BY <1>1, <2>3, <3>1 DEF ComputesExplained
    <3>3. CASE d.key \in Dropped(o, w)
      <4>1. reader'[r] = [d EXCEPT !.overlapped = TRUE] BY <2>2, <3>1, <3>2, <3>3
      <4>2. reader'[r].overlapped BY <3>2, <4>1 DEF Computing
      <4> QED BY <4>2 DEF Explained
    <3>4. CASE d.key \notin Dropped(o, w)
      <4>1. Explained(d.key, d)' BY <1>7, <3>2, <3>4, InvalidateExplained
      <4>2. reader'[r] = d BY <2>2, <3>1, <3>4
      <4> QED BY <4>1, <4>2
    <3> QED BY <3>3, <3>4
  <2> QED BY <2>1, <2>4, <2>5, <2>6, <2>7, <2>8 DEF StalenessBounded
<1>8. ASSUME NEW o \in Orgs, NEW w \in Workflows, WriteUnhooked(o, w) PROVE CacheInv'
  <2>1. /\ UNCHANGED <<age, now, unsent>>
        /\ DOMAIN store' = DOMAIN store
        /\ \A k \in DOMAIN store : store'[k] = IF o = k[1] /\ w \in Scope(k)
                                               THEN [store[k] EXCEPT !.unhooked = TRUE]
                                               ELSE store[k]
      BY <1>8 DEF WriteUnhooked
  <2>2. \A r \in Readers :
            reader'[r] = IF reader[r].busy /\ o = reader[r].key[1] /\ w \in Scope(reader[r].key)
                         THEN [reader[r] EXCEPT !.unhooked = TRUE] ELSE reader[r]
      BY <1>8 DEF WriteUnhooked
  <2>3. \A r \in Readers : /\ reader'[r] \in Computing \cup {Idle}
                           /\ reader'[r].busy => /\ reader[r].busy
                                                 /\ reader'[r].key = reader[r].key
                                                 /\ reader'[r].readAt = reader[r].readAt
    <3> SUFFICES ASSUME NEW r \in Readers
                 PROVE  /\ reader'[r] \in Computing \cup {Idle}
                        /\ reader'[r].busy => /\ reader[r].busy
                                              /\ reader'[r].key = reader[r].key
                                              /\ reader'[r].readAt = reader[r].readAt
        OBVIOUS
    <3>1. CASE reader'[r] = reader[r] BY <1>1, <3>1
    <3>2. CASE reader'[r] # reader[r]
      <4>1. reader[r].busy /\ reader'[r] = [reader[r] EXCEPT !.unhooked = TRUE]
          BY <2>2, <3>2
      <4>2. reader[r] \in Computing BY <1>1, <4>1
      <4> QED BY <4>1, <4>2, Marked
    <3> QED BY <3>1, <3>2
  <2>4. \A k \in DOMAIN store : /\ store[k] \in Entry /\ store'[k] \in Entry
                                /\ store'[k].readAt = store[k].readAt
                                /\ store'[k].expires = store[k].expires
    <3> SUFFICES ASSUME NEW k \in DOMAIN store
                 PROVE  /\ store[k] \in Entry /\ store'[k] \in Entry
                        /\ store'[k].readAt = store[k].readAt
                        /\ store'[k].expires = store[k].expires
        OBVIOUS
    <3>1. store[k] \in Entry BY DEF CacheTypes
    <3>2. CASE store'[k] = store[k] BY <3>1, <3>2
    <3>3. CASE store'[k] # store[k]
      <4>1. store'[k] = [store[k] EXCEPT !.unhooked = TRUE] BY <2>1, <3>3
      <4> QED BY <3>1, <4>1 DEF Entry
    <3> QED BY <3>2, <3>3
  <2>5. CacheTypes'
    <3>1. reader' \in [Readers -> Computing \cup {Idle}]
        BY <1>8, <2>3 DEF WriteUnhooked
    <3>2. data' \in [Orgs -> [Workflows -> Nat]]
      <4>1. \A d \in [Workflows -> Nat] :
                [v \in Workflows |-> IF v = w THEN d[v] + 1 ELSE d[v]] \in [Workflows -> Nat]
          OBVIOUS
      <4> QED BY <1>8, <4>1 DEF WriteUnhooked, CacheTypes
    <3> QED BY <2>1, <2>4, <3>1, <3>2 DEF CacheTypes
  <2>6. Recent' /\ MapBounded' BY <2>1, <2>3, <2>4 DEF Recent, MapBounded
  <2>7. StaleOnlyByOverlap'
    <3>1. ASSUME NEW k \in DOMAIN store PROVE Explained(k, store[k])'
      <4>1. PICK v : v = store[k] OBVIOUS
      <4>2. Explained(k, v) /\ k \in Keys BY <1>1, <4>1 DEF StaleOnlyByOverlap
      <4>3. CASE o = k[1] /\ w \in Scope(k)
        <5>1. store'[k].unhooked BY <2>1, <2>4, <4>3 DEF Entry
        <5> QED BY <5>1 DEF Explained
      <4>4. CASE ~(o = k[1] /\ w \in Scope(k))
        <5>1. Explained(k, v)' BY <1>8, <4>2, <4>4, UnhookedExplained
        <5>2. store'[k] = v BY <2>1, <4>1, <4>4
        <5> QED BY <5>1, <5>2
      <4> QED BY <4>3, <4>4
    <3> QED BY <2>1, <3>1 DEF StaleOnlyByOverlap
  <2>8. ComputesExplained'
    <3> SUFFICES ASSUME NEW r \in Readers, reader'[r].busy
                 PROVE  Explained(reader[r].key, reader[r])'
        BY DEF ComputesExplained
    <3>1. PICK d : d = reader[r] OBVIOUS
    <3>2. d.busy /\ d.key \in Keys /\ Explained(d.key, d) /\ d \in Computing
        BY <1>1, <2>3, <3>1 DEF ComputesExplained
    <3>3. CASE o = d.key[1] /\ w \in Scope(d.key)
      <4>1. reader'[r] = [d EXCEPT !.unhooked = TRUE] BY <2>2, <3>1, <3>2, <3>3
      <4>2. reader'[r].unhooked BY <3>2, <4>1 DEF Computing
      <4> QED BY <4>2 DEF Explained
    <3>4. CASE ~(o = d.key[1] /\ w \in Scope(d.key))
      <4>1. Explained(d.key, d)' BY <1>8, <3>2, <3>4, UnhookedExplained
      <4>2. reader'[r] = d BY <2>2, <3>1, <3>4
      <4> QED BY <4>1, <4>2
    <3> QED BY <3>3, <3>4
  <2> QED BY <2>1, <2>5, <2>6, <2>7, <2>8 DEF StalenessBounded
<1>9. ASSUME Tick PROVE CacheInv'
  <2>1. /\ now' = now + 1 /\ UNCHANGED <<data, store, reader, age, unsent>>
        /\ \A r \in Readers : reader[r].busy => now < reader[r].readAt + MaxCompute
      BY <1>9 DEF Tick
  <2>2. CacheTypes' BY <2>1 DEF CacheTypes
  <2>3. Recent'
    <3>1. \A k \in DOMAIN store : store[k].readAt \in Nat BY DEF CacheTypes, Entry
    <3> QED BY <1>1, <2>1, <3>1 DEF Recent
  <2>4. StaleOnlyByOverlap' /\ ComputesExplained'
      BY <2>1, ExplainedStays DEF StaleOnlyByOverlap, ComputesExplained
  <2> QED BY <2>1, <2>2, <2>3, <2>4 DEF MapBounded, StalenessBounded
<1>10. CASE UNCHANGED cacheVars
  <2>1. UNCHANGED <<data, store, reader, age, unsent, now>> BY <1>10 DEF cacheVars
  <2>2. StaleOnlyByOverlap' /\ ComputesExplained'
      BY <2>1, ExplainedStays DEF StaleOnlyByOverlap, ComputesExplained
  <2> QED BY <2>1, <2>2 DEF CacheTypes, Recent, MapBounded, StalenessBounded
<1> QED BY <1>2, <1>3, <1>4, <1>5, <1>6, <1>7, <1>8, <1>9, <1>10 DEF CacheNext

\* The inductive invariant of the cache.
THEOREM CacheInvHolds == CacheSpec => []CacheInv
<1>1. CacheInv /\ [CacheNext]_cacheVars => CacheInv' BY CacheStep
<1> QED BY <1>1, CacheInitInv, PTL DEF CacheSpec

\* The Map never keeps more than MAX_ENTRIES entries.
THEOREM CacheBounded == CacheSpec => []MapBounded
<1>1. CacheInv => MapBounded BY DEF CacheInv
<1> QED BY <1>1, CacheInvHolds, PTL

\* No answer is older than an entry's lifetime and one compute.
THEOREM CacheAnswersRecent == CacheSpec => []StalenessBounded
<1>1. CacheInv => StalenessBounded BY DEF CacheInv
<1> QED BY <1>1, CacheInvHolds, PTL

\* Every write with a hook reaches the slices it makes stale, but for computes that
\* overlap its invalidation.
THEOREM CacheStaleExplained == CacheSpec => []StaleOnlyByOverlap
<1>1. CacheInv => StaleOnlyByOverlap BY DEF CacheInv
<1> QED BY <1>1, CacheInvHolds, PTL
=============================================================================
