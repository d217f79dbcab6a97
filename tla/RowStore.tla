------------------------------ MODULE RowStore ------------------------------
(***************************************************************************)
(* One projection row under concurrent writers: the optimistic lock of     *)
(* src/twin/projection-store.ts (insert, update, deleteById), the upsert   *)
(* of connector pulls (src/packs/ingest.ts), commands                      *)
(* (src/commands/base.ts) and the cycle rows a derive pass opens           *)
(* (src/twin/derive.ts).                                                   *)
(*                                                                         *)
(* Every writer reads the row, awaits, and writes: an insert if it saw no  *)
(* row, which the primary key refuses if there is one by then, else an     *)
(* update where id and version match, which reports a stale write if       *)
(* nothing matched.  The pull guard is per connector, so two connectors of *)
(* one entity pull at the same time.                                       *)
(*                                                                         *)
(* A row is a cell per column: the declared ones, the extra ones folded    *)
(* into `_raw`, and the two timestamps.  A column holds a value in its own *)
(* form: SQLite's affinity turns "1500.00" into 1500 in a number column.   *)
(***************************************************************************)
EXTENDS Naturals

CONSTANTS Declared, Extras,   \* columns of the model, columns folded into _raw
          Vals,               \* what a source or a caller supplies
          Affine,             \* Affine[k][v]: the form in which column k holds v
          None, Absent,       \* a null or empty value; a column not returned
          Wall,               \* a timestamp taken from the process's clock
          NoRow,              \* findById found nothing
          Connectors, Callers,
          Records,            \* rows a source returns for this id
          Roles,              \* values of dateRoles.updated, None for no role
          Patches,            \* what commands supply, what cycle templates hold
          MaxOps              \* bound: writers, deletions and restarts begun

Cols == Declared \cup Extras \cup {"createdAt", "updatedAt"}
Columns == Cols \ Extras   \* of the table; the extras are one JSON text
Cells == [Cols -> Vals \cup {None, Wall}]
Writers == Connectors \cup Callers

ASSUME RowAssumption ==
    /\ {"createdAt", "updatedAt"} \cap (Declared \cup Extras) = {}
    /\ Connectors \cap Callers = {}
    /\ None \notin Vals /\ Absent \notin Vals \cup {None} /\ Wall \notin Vals \cup {None, Absent}
    /\ Records \subseteq [Cols -> Vals \cup {None, Absent}]
    /\ Affine \in [Columns -> [Vals -> Vals]]
    /\ Roles \subseteq Columns \cup {None}
    /\ Patches \subseteq [Declared -> Vals \cup {None}]
    /\ MaxOps \in Nat

VARIABLES row,      \* the stored row, or NoRow
          births,   \* ghost: how often a row was inserted under this id
          by,       \* ghost: the record and role of the pull that wrote last, None if
                    \* something else did or the pull had read an earlier row
          at,       \* at[c]: how far writer c is
          seen,     \* seen[c]: the row c has read
          todo,     \* todo[c]: the record or patch c works on
          role,     \* role[c]: the last-modified column of c's sidecar
          ops

vars == <<row, births, by, at, seen, todo, role, ops>>

\* born is a ghost: which insert made the row.
Row == [version : Nat, provisional : BOOLEAN, born : Nat, cell : Cells]

ASSUME NoRowAssumption == NoRow \notin Row

TypeOK ==
    /\ row \in Row \cup {NoRow}
    /\ births \in Nat
    /\ by \in (Records \X Roles) \cup {None}
    /\ at \in [Writers -> {"idle", "classified", "write"}]
    /\ seen \in [Writers -> Row \cup {NoRow}]
    /\ todo \in [Writers -> Records \cup Patches \cup {None}]
    /\ role \in [Writers -> Roles \cup {None}]
    /\ ops \in 0..MaxOps
    /\ row # NoRow => row.born \in 1..births

Init ==
    /\ row = NoRow /\ births = 0 /\ by = None
    /\ at = [c \in Writers |-> "idle"]
    /\ seen = [c \in Writers |-> NoRow]
    /\ todo = [c \in Writers |-> None]
    /\ role = [c \in Writers |-> None]
    /\ ops = 0

-----------------------------------------------------------------------------
(* The store.                                                              *)

HasValue(v) == v \notin {None, Absent}

\* What cell k holds after v is written to it: undefined is stored as null (sqlValue),
\* a value of a column in the form its type has (sqliteType, createTableSql).
Stored(k, v) == IF v = Absent THEN None
                ELSE IF k \in Columns /\ v \in Vals THEN Affine[k][v] ELSE v

\* store.insert: version 0; the primary key refuses a second row.
Insert(cell, provisional) ==
    /\ row = NoRow
    /\ births' = births + 1
    /\ row' = [version |-> 0, provisional |-> provisional, born |-> births + 1,
               cell |-> [k \in Cols |-> Stored(k, cell[k])]]

\* Mutant of Matches: WHERE id = ? without the version.
Matches_IdOnly(r) == row # NoRow

\* WHERE id = ? AND version = ?
Matches(r) == row # NoRow /\ row.version = r.version

\* store.update of what c has read: the cells to set over the stored ones.
Update(c, set, provisional) ==
    /\ Matches(seen[c])
    /\ row' = [row EXCEPT !.version = @ + 1, !.provisional = provisional,
                          !.cell = [k \in Cols |->
                              IF k \in DOMAIN set THEN Stored(k, set[k]) ELSE @[k]]]
    /\ UNCHANGED births

-----------------------------------------------------------------------------
(* A connector pull, for the record of this id.                            *)

Begun(c) == at[c] = "idle" /\ ops < MaxOps /\ ops' = ops + 1

Over(c) ==
    /\ at' = [at EXCEPT ![c] = "idle"]
    /\ seen' = [seen EXCEPT ![c] = NoRow]
    /\ todo' = [todo EXCEPT ![c] = None]
    /\ role' = [role EXCEPT ![c] = None]

\* The source returned m; store.findById.
PullFinds(c, m, u) ==
    /\ Begun(c)
    /\ at' = [at EXCEPT ![c] = "write"]
    /\ seen' = [seen EXCEPT ![c] = row]
    /\ todo' = [todo EXCEPT ![c] = m]
    /\ role' = [role EXCEPT ![c] = u]
    /\ UNCHANGED <<row, births, by>>

\* Mutant of Changed: empty incoming values count.
Changed_WithEmpty(m, cell, u) ==
    {k \in Cols : /\ Stored(k, m[k]) # cell[k]
                  /\ k = "createdAt" => cell[k] = None}

\* upsertChanges: the columns to update, by the text of the value as it comes and of the
\* one stored.  Empty values never clobber, createdAt is
\* filled but never moved; equal watermarks leave only the fold of extras.
Changed(m, cell, u) ==
    LET drifted == {k \in Cols : /\ HasValue(m[k])
                                 /\ m[k] # cell[k]
                                 /\ k = "createdAt" => cell[k] = None}
        unmoved == u # None /\ HasValue(m[u]) /\ m[u] = cell[u]
    IN  IF unmoved THEN drifted \cap Extras ELSE drifted

PullInserts(c) ==
    /\ c \in Connectors /\ at[c] = "write" /\ seen[c] = NoRow
    /\ Insert(todo[c], FALSE)
    /\ by' = <<todo[c], role[c]>>
    /\ Over(c)
    /\ UNCHANGED ops

\* The row read was opened by a derive pass: every returned column is taken over,
\* an empty one too; updatedAt is store.update's own stamp.
PullMerges(c) ==
    LET m == todo[c]
        taken == {k \in Declared : m[k] # Absent} \cup {k \in Extras : HasValue(m[k])}
                 \cup {"createdAt", "updatedAt"}
    IN  /\ c \in Connectors /\ at[c] = "write" /\ seen[c] # NoRow
        /\ seen[c].provisional
        /\ Update(c, [k \in taken |-> IF k = "updatedAt" THEN Wall ELSE m[k]], FALSE)
        /\ by' = None
        /\ Over(c)
        /\ UNCHANGED ops

\* Mutant of PullUpdates: store.update stamps updatedAt.
PullUpdates_Touches(c) ==
    LET m == todo[c]
        changed == Changed(m, seen[c].cell, role[c])
    IN  /\ c \in Connectors /\ at[c] = "write" /\ seen[c] # NoRow
        /\ ~seen[c].provisional /\ changed # {}
        /\ Update(c, [k \in changed \cup {"updatedAt"} |->
                          IF k = "updatedAt" THEN Wall ELSE m[k]], row.provisional)
        /\ by' = IF seen[c].born = row.born THEN <<m, role[c]>> ELSE None
        /\ Over(c)
        /\ UNCHANGED ops

\* The row drifted: its changed columns are updated, updatedAt is not stamped.
PullUpdates(c) ==
    LET m == todo[c]
        changed == Changed(m, seen[c].cell, role[c])
    IN  /\ c \in Connectors /\ at[c] = "write" /\ seen[c] # NoRow
        /\ ~seen[c].provisional /\ changed # {}
        /\ Update(c, [k \in changed |-> m[k]], row.provisional)
        /\ by' = IF seen[c].born = row.born THEN <<m, role[c]>> ELSE None
        /\ Over(c)
        /\ UNCHANGED ops

PullSkips(c) ==
    /\ c \in Connectors /\ at[c] = "write" /\ seen[c] # NoRow
    /\ ~seen[c].provisional
    /\ Changed(todo[c], seen[c].cell, role[c]) = {}
    /\ Over(c)
    /\ UNCHANGED <<row, births, by, ops>>

-----------------------------------------------------------------------------
(* A command that names this id.                                           *)

\* classify: an existing row makes it an update; otherwise a create event creates,
\* and any other event is refused (no step).
CommandClassifies(c, p, creates) ==
    /\ Begun(c)
    /\ row # NoRow \/ creates
    /\ at' = [at EXCEPT ![c] = IF row # NoRow THEN "classified" ELSE "write"]
    /\ todo' = [todo EXCEPT ![c] = p]
    /\ UNCHANGED <<row, births, by, seen, role>>

\* doUpdate reads the row again; a row that is gone by then is "not found".
CommandReads(c) ==
    /\ at[c] = "classified"
    /\ IF row = NoRow THEN Over(c)
       ELSE /\ at' = [at EXCEPT ![c] = "write"]
            /\ seen' = [seen EXCEPT ![c] = row]
            /\ UNCHANGED <<todo, role>>
    /\ UNCHANGED <<row, births, by, ops>>

\* doCreate: both timestamps are insert's default.
CommandInserts(c) ==
    /\ c \in Callers /\ at[c] = "write" /\ seen[c] = NoRow
    /\ Insert([k \in Cols |-> IF k \in Declared THEN todo[c][k]
                              ELSE IF k \in Extras THEN None ELSE Wall], FALSE)
    /\ by' = None
    /\ Over(c)
    /\ UNCHANGED ops

\* doUpdate: the supplied columns, and updatedAt; nothing supplied, nothing written.
CommandUpdates(c) ==
    LET given == {k \in Declared : todo[c][k] # None}
    IN  /\ c \in Callers /\ at[c] = "write" /\ seen[c] # NoRow
        /\ IF given = {} THEN UNCHANGED <<row, births, by>>
           ELSE /\ Update(c, [k \in given \cup {"updatedAt"} |->
                                  IF k = "updatedAt" THEN Wall ELSE todo[c][k]],
                          row.provisional)
                /\ by' = None
        /\ Over(c)
        /\ UNCHANGED ops

\* The insert hits the primary key, or the update matches no row: the writer throws.
Refused(c) ==
    /\ at[c] = "write"
    /\ IF seen[c] = NoRow THEN row # NoRow ELSE ~Matches(seen[c])
    /\ Over(c)
    /\ UNCHANGED <<row, births, by, ops>>

-----------------------------------------------------------------------------

\* ensureCycleRow in a derive pass: a copy of a template row, without timestamps.
OpensCycle(p) ==
    /\ ops < MaxOps /\ ops' = ops + 1
    /\ Insert([k \in Cols |-> IF k \in Declared THEN p[k] ELSE None], TRUE)
    /\ by' = None
    /\ UNCHANGED <<at, seen, todo, role>>

\* deleteById, clearTable, clearAll: no version is looked at.
Deletes ==
    /\ ops < MaxOps /\ ops' = ops + 1
    /\ row # NoRow
    /\ row' = NoRow /\ by' = None
    /\ UNCHANGED <<births, at, seen, todo, role>>

Restart ==
    /\ ops < MaxOps /\ ops' = ops + 1
    /\ at' = [c \in Writers |-> "idle"]
    /\ seen' = [c \in Writers |-> NoRow]
    /\ todo' = [c \in Writers |-> None]
    /\ role' = [c \in Writers |-> None]
    /\ UNCHANGED <<row, births, by>>

PullStep(c) ==
    \/ \E m \in Records, u \in Roles : PullFinds(c, m, u)
    \/ PullInserts(c) \/ PullMerges(c) \/ PullUpdates(c) \/ PullSkips(c)

CommandStep(c) ==
    \/ \E p \in Patches, creates \in BOOLEAN : CommandClassifies(c, p, creates)
    \/ CommandReads(c) \/ CommandInserts(c) \/ CommandUpdates(c)

Next ==
    \/ \E c \in Connectors : PullStep(c)
    \/ \E c \in Callers : CommandStep(c)
    \/ \E c \in Writers : Refused(c)
    \/ \E p \in Patches : OpensCycle(p)
    \/ Deletes
    \/ Restart

Spec == Init /\ [][Next]_vars

-----------------------------------------------------------------------------
\* No write is lost: whoever overwrites a stored row has read exactly what it
\* overwrites, and nobody inserts over one ("fails if the row changed under us",
\* projection-store.ts).  A row deleted and inserted again meanwhile is not covered:
\* its version starts at 0 again.
NoLostUpdate ==
    [][\A c \in Writers :
          /\ at[c] = "write" /\ at'[c] = "idle"
          /\ row # NoRow /\ row' # row
          => /\ seen[c] # NoRow
             /\ seen[c].born = row.born => seen[c] = row]_vars

\* A pull of what it has read never empties a witnessed cell and never moves a
\* creation date, whichever connector or command wrote them last; only a row a
\* derive pass opened is taken over wholesale ("a null/absent incoming value NEVER
\* clobbers a stored one", "a row's origin doesn't move", upsertChanges).
PullsKeepWitnessed ==
    [][\A c \in Connectors :
          /\ at[c] = "write" /\ at'[c] = "idle"
          /\ row # NoRow /\ row' # row /\ ~row.provisional
          /\ seen[c] # NoRow /\ seen[c].born = row.born
          => /\ \A k \in Cols : row.cell[k] # None => row'.cell[k] # None
             /\ row.cell["createdAt"] # None
                    => row'.cell["createdAt"] = row.cell["createdAt"]]_vars

\* Pulling the same record again after a pull wrote it changes no cell, however often
\* the record and the row changed before: what it would write is a value that the store
\* holds in another form already.  It never writes an extra, although the fold merges.
RepullSettles ==
    by # None =>
        \A k \in Changed(by[1], row.cell, by[2]) :
            k \in Columns /\ row.cell[k] = Stored(k, by[1][k])
=============================================================================
