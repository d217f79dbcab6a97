----------------------------- MODULE DeriveLog -----------------------------
(***************************************************************************)
(* The twin's core: projection rows (gen_ tables), the append-only event   *)
(* log, the derive passes that fill the log from the rows                  *)
(* (src/twin/derive.ts) and everything that works on both beside them:     *)
(* connector pulls (src/packs/ingest.ts), commands (src/commands/base.ts), *)
(* rebuilds, purges and resets (derive.ts, twin/purge.ts, twin/sim.ts).    *)
(*                                                                         *)
(* A request handler runs until its next await without interruption, so a  *)
(* step of this module is one stretch between two awaits.  Rows are kept   *)
(* as the set of (event, row) pairs whose evidence the row shows, which is *)
(* all that planDerivation makes of them: a row is here as long as it      *)
(* shows something.  The log counts its rows per (event, row) pair and per *)
(* writer, because nothing in the schema makes a pair unique.              *)
(***************************************************************************)
EXTENDS SerialChain, FiniteSets

CONSTANTS Tables,      \* the aggregate roots
          Events,      \* the model's events
          Ids,         \* row ids
          Root,        \* Root[e]: the table event e is about
          TableOf,     \* TableOf[i]: the table row i lives in
          CreateOf,    \* CreateOf[t]: the create event of table t
          CycleOf,     \* CycleOf[i]: the cycle row that i's subject and period name
          Subject,     \* Subject[i]: the subject a cycle row belongs to
          NoId,        \* CycleOf of a row that joins no cycle
          Clients,     \* concurrent requests and scheduled pulls
          Ops,         \* the operations clients perform in this instance
          MaxOps,      \* bound: client operations and restarts in one behaviour
          EMIT_CHUNK   \* log rows per INSERT of emitMany

ASSUME ModelAssumption ==
    /\ Root \in [Events -> Tables]
    /\ TableOf \in [Ids -> Tables]
    /\ CreateOf \in [Tables -> Events]
    /\ \A t \in Tables : Root[CreateOf[t]] = t
    /\ NoId \notin Ids
    /\ CycleOf \in [Ids -> Ids \cup {NoId}]
    /\ MaxOps \in Nat
    /\ EMIT_CHUNK \in Nat \ {0}

Pairs == {pr \in Events \X Ids : Root[pr[1]] = TableOf[pr[2]]}

VARIABLES rows,        \* rows[w]: the pairs evidenced by w's projection rows
          derived,     \* derived[w][pr]: log rows for pr written by derive passes
          commanded,   \* commanded[w][pr]: log rows for pr written by commands
          at,          \* at[p]: how far pass p has got
          toRead,      \* toRead[p]: tables pass p has yet to read
          snap,        \* snap[p]: evidence pass p has read
          seen,        \* seen[p]: pairs pass p takes as logged or batched
          opens,       \* opens[p]: cycle rows pass p still has to open
          batch,       \* batch[p]: pairs pass p will emit
          client,      \* client[c]: what request c is in the middle of
          owed,        \* owed[c]: pairs c's derive call is to have in the log
          ops          \* operations begun (bounded by MaxOps)

passVars == <<at, toRead, snap, seen, opens, batch>>
logVars  == <<derived, commanded>>
vars     == <<chainVars, rows, logVars, passVars, client, owed, ops>>

\* A request: its operation and workflow, the tables it is about, the source
\* rows still to land, the event still to emit, the pass it waits for.
Request(op, w, tables, left, pend, pass) ==
    [op |-> op, w |-> w, tables |-> tables, left |-> left, pend |-> pend, pass |-> pass]

Requests ==
    [op : {"idle", "pull", "command", "rebuild", "await", "derive", "purge", "reset"},
     w : Workflows \cup {NoWorkflow}, tables : SUBSET Tables,
     left : SUBSET Ids, pend : SUBSET Pairs, pass : 0..MaxPasses]

Idle == Request("idle", NoWorkflow, {}, {}, {}, 0)

TypeOK ==
    /\ ChainTypeOK
    /\ rows \in [Workflows -> SUBSET Pairs]
    /\ derived \in [Workflows -> [Pairs -> Nat]]
    /\ commanded \in [Workflows -> [Pairs -> Nat]]
    /\ at \in [Passes -> {"off", "tables", "log", "open", "emit"}]
    /\ toRead \in [Passes -> SUBSET Tables]
    /\ snap \in [Passes -> SUBSET Pairs]
    /\ seen \in [Passes -> SUBSET Pairs]
    /\ opens \in [Passes -> SUBSET Ids]
    /\ batch \in [Passes -> SUBSET Pairs]
    /\ client \in [Clients -> Requests]
    /\ owed \in [Clients -> SUBSET Pairs]
    /\ ops \in 0..MaxOps

NoRows == [pr \in Pairs |-> 0]

Init ==
    /\ ChainInit
    /\ rows = [w \in Workflows |-> {}]
    /\ derived = [w \in Workflows |-> NoRows]
    /\ commanded = [w \in Workflows |-> NoRows]
    /\ at = [p \in Passes |-> "off"]
    /\ toRead = [p \in Passes |-> {}]
    /\ snap = [p \in Passes |-> {}]
    /\ seen = [p \in Passes |-> {}]
    /\ opens = [p \in Passes |-> {}]
    /\ batch = [p \in Passes |-> {}]
    /\ client = [c \in Clients |-> Idle]
    /\ owed = [c \in Clients |-> {}]
    /\ ops = 0

-----------------------------------------------------------------------------
(* What the steps are made of.                                             *)

PairsOf(i) == {pr \in Pairs : pr[2] = i}
InTable(S, t) == {pr \in S : TableOf[pr[2]] = t}
Exists(S, i) == \E pr \in S : pr[2] = i
Logged(w) == {pr \in Pairs : derived[w][pr] + commanded[w][pr] > 0}

\* The evidence a stored row of id i can show: any events of its table, as its
\* required fields (the create event), its status and columns, or an authored rule
\* have it.
RowShapes(i) == SUBSET PairsOf(i) \ {{}}

WriteRow(w, i, E) == rows' = [rows EXCEPT ![w] = (@ \ PairsOf(i)) \cup E]

\* Ghost: what was promised about the pairs in S ends when somebody else writes
\* their rows or erases their events.
Disowned(w, S) ==
    [c \in Clients |-> IF client[c].w = w THEN owed[c] \ S ELSE owed[c]]

Begun(c, st) ==
    /\ client[c].op = "idle"
    /\ ops < MaxOps
    /\ ops' = ops + 1
    /\ client' = [client EXCEPT ![c] = st]

-----------------------------------------------------------------------------
(* A derive pass (runDerive).                                              *)

PassStart(p) ==
    /\ Begin(p)
    /\ at' = [at EXCEPT ![p] = "tables"]
    /\ toRead' = [toRead EXCEPT ![p] = Tables]
    /\ UNCHANGED <<rows, logVars, snap, seen, opens, batch, client, owed, ops>>

\* A pull, or a rebuild without a limit, waits for pass p.
Awaited(p) == \E c \in Clients : client[c].op = "await" /\ client[c].pass = p

\* One store.findMany(name, limit) per aggregate root; other requests run in
\* between.  Only a pass that somebody asked for with a limit reads a window.
ReadTable(p, t, window) ==
    /\ at[p] = "tables"
    /\ t \in toRead[p]
    /\ Awaited(p) => window = Ids
    /\ snap' = [snap EXCEPT ![p] =
           @ \cup {pr \in InTable(rows[wf[p]], t) : pr[2] \in window}]
    /\ toRead' = [toRead EXCEPT ![p] = @ \ {t}]
    /\ at' = [at EXCEPT ![p] = IF toRead[p] = {t} THEN "log" ELSE "tables"]
    /\ UNCHANGED <<chainVars, rows, logVars, seen, opens, batch, client, owed, ops>>

\* The cycle rows that the not-yet-logged children among `new` name, where the
\* pass knows the subject but has no row for the period.
CyclesToOpen(p, new) ==
    {c \in Ids :
        /\ \E pr \in new : CycleOf[pr[2]] = c
        /\ ~Exists(snap[p], c)
        /\ \E pr \in snap[p] : TableOf[pr[2]] = TableOf[c] /\ Subject[pr[2]] = Subject[c]}

\* Mutant of ReadLog: only rows written by commands count as logged.
ReadLog_IgnoresDerived(p) ==
    LET logged == {pr \in Pairs : commanded[wf[p]][pr] > 0}
        new == snap[p] \ logged
    IN  /\ at[p] = "log"
        /\ seen' = [seen EXCEPT ![p] = logged \cup snap[p]]
        /\ batch' = [batch EXCEPT ![p] = new]
        /\ opens' = [opens EXCEPT ![p] = CyclesToOpen(p, new)]
        /\ at' = [at EXCEPT ![p] = "open"]
        /\ UNCHANGED <<chainVars, rows, logVars, toRead, snap, client, owed, ops>>

\* The one read of the log seeds `seen`; planning, deduplication and batching
\* follow without an await, up to the cycle rows that have to be opened.
ReadLog(p) ==
    LET logged == Logged(wf[p])
        new == snap[p] \ logged
    IN  /\ at[p] = "log"
        /\ seen' = [seen EXCEPT ![p] = logged \cup snap[p]]
        /\ batch' = [batch EXCEPT ![p] = new]
        /\ opens' = [opens EXCEPT ![p] = CyclesToOpen(p, new)]
        /\ at' = [at EXCEPT ![p] = "open"]
        /\ UNCHANGED <<chainVars, rows, logVars, toRead, snap, client, owed, ops>>

\* ensureCycleRow: insert the missing cycle row as a copy of a row of the same
\* subject, and batch its create event unless the log had it.
OpenCycle(p, c) ==
    LET w == wf[p]
        create == <<CreateOf[TableOf[c]], c>>
        templates == {i \in Ids : /\ Exists(snap[p], i)
                                  /\ TableOf[i] = TableOf[c]
                                  /\ Subject[i] = Subject[c]}
    IN  /\ at[p] = "open"
        /\ c \in opens[p]
        /\ ~Exists(rows[w], c)
        /\ \E i \in templates :
               rows' = [rows EXCEPT ![w] =
                   @ \cup {pr \in PairsOf(c) : <<pr[1], i>> \in snap[p]}]
        /\ opens' = [opens EXCEPT ![p] = @ \ {c}]
        /\ batch' = [batch EXCEPT ![p] = IF create \in seen[p] THEN @ ELSE @ \cup {create}]
        /\ seen' = [seen EXCEPT ![p] = @ \cup {create}]
        /\ UNCHANGED <<chainVars, logVars, at, toRead, snap, client, owed, ops>>

AllOpened(p) ==
    /\ at[p] = "open"
    /\ opens[p] = {}
    /\ at' = [at EXCEPT ![p] = "emit"]
    /\ UNCHANGED <<chainVars, rows, logVars, toRead, snap, seen, opens, batch,
                   client, owed, ops>>

\* One createMany of emitMany.
EmitMany(p, chunk) ==
    /\ at[p] = "emit"
    /\ chunk # {}
    /\ chunk \subseteq batch[p]
    /\ chunk = batch[p] \/ Cardinality(chunk) = EMIT_CHUNK
    /\ Cardinality(chunk) <= EMIT_CHUNK
    /\ derived' = [derived EXCEPT ![wf[p]] =
           [pr \in Pairs |-> IF pr \in chunk THEN @[pr] + 1 ELSE @[pr]]]
    /\ batch' = [batch EXCEPT ![p] = @ \ chunk]
    /\ UNCHANGED <<chainVars, rows, commanded, at, toRead, snap, seen, opens,
                   client, owed, ops>>

PassOver(p) ==
    /\ at' = [at EXCEPT ![p] = "off"]
    /\ toRead' = [toRead EXCEPT ![p] = {}]
    /\ snap' = [snap EXCEPT ![p] = {}]
    /\ seen' = [seen EXCEPT ![p] = {}]
    /\ opens' = [opens EXCEPT ![p] = {}]
    /\ batch' = [batch EXCEPT ![p] = {}]

PassReturns(p) ==
    /\ at[p] = "emit"
    /\ batch[p] = {}
    /\ Settle(p, "ok")
    /\ PassOver(p)
    /\ UNCHANGED <<rows, logVars, client, owed, ops>>

\* Any awaited call of the pass may throw (a database error, a cycle row that
\* somebody else inserted meanwhile); chunks already inserted stay.
PassThrows(p) ==
    /\ Settle(p, "failed")
    /\ PassOver(p)
    /\ UNCHANGED <<rows, logVars, client, owed, ops>>

PassPrune(p) ==
    /\ Prune(p)
    /\ UNCHANGED <<rows, logVars, passVars, client, owed, ops>>

-----------------------------------------------------------------------------
(* Requests working on the same rows and log.                              *)

\* The `inFlight` set: the connector that feeds table t is pulling, or awaits
\* the derive pass of its pull.
PullInFlight(w, t) ==
    \E c \in Clients : /\ client[c].op \in {"pull", "await"}
                       /\ client[c].w = w
                       /\ client[c].tables = {t}

\* ingestPull of the connector that feeds table t: refused while the same
\* connector has a pull in flight; `source` is what the source returns.
PullStart(c, w, t, source) ==
    /\ "pull" \in Ops
    /\ ~PullInFlight(w, t)
    /\ source \subseteq {i \in Ids : TableOf[i] = t}
    /\ Begun(c, Request("pull", w, {t}, source, {}, 0))
    /\ UNCHANGED <<chainVars, rows, logVars, passVars, owed>>

\* One source row lands: an insert, or an update of the stored row.
PullRow(c, i, E) ==
    /\ client[c].op = "pull"
    /\ i \in client[c].left
    /\ E \in RowShapes(i)
    /\ WriteRow(client[c].w, i, E)
    /\ owed' = [Disowned(client[c].w, PairsOf(i)) EXCEPT ![c] = @ \cup E]
    /\ client' = [client EXCEPT ![c] =
           Request("pull", @.w, @.tables, @.left \ {i}, {}, 0)]
    /\ UNCHANGED <<chainVars, logVars, passVars, ops>>

\* Mutant of PullDerive: a call joins the pass that is already queued or running.
PullDerive_Joins(c) ==
    /\ client[c].op = "pull"
    /\ client[c].left = {}
    /\ IF tip[client[c].w] # 0
       THEN /\ client' = [client EXCEPT ![c] =
                   Request("await", @.w, @.tables, {}, {}, tip[@.w])]
            /\ UNCHANGED chainVars
       ELSE /\ Call(client[c].w)
            /\ client' = [client EXCEPT ![c] =
                   Request("await", @.w, @.tables, {}, {}, ncalls + 1)]
    /\ UNCHANGED <<rows, logVars, passVars, owed, ops>>

\* All rows landed: the pull derives, and stays in flight until the pass is over.
PullDerive(c) ==
    /\ client[c].op = "pull"
    /\ client[c].left = {}
    /\ Call(client[c].w)
    /\ client' = [client EXCEPT ![c] =
           Request("await", @.w, @.tables, {}, {}, ncalls + 1)]
    /\ UNCHANGED <<rows, logVars, passVars, owed, ops>>

Finish(c) ==
    /\ client' = [client EXCEPT ![c] = Idle]
    /\ owed' = [owed EXCEPT ![c] = {}]

\* The pull throws half-way: the rows that landed stay, nothing is derived.
PullThrows(c) ==
    /\ client[c].op = "pull"
    /\ Finish(c)
    /\ UNCHANGED <<chainVars, rows, logVars, passVars, ops>>

\* POST /sim/derive, with or without a limit: nobody is promised anything.
DeriveBegins(c, w) ==
    /\ "derive" \in Ops
    /\ Begun(c, Request("derive", w, {}, {}, {}, ncalls + 1))
    /\ Call(w)
    /\ UNCHANGED <<rows, logVars, passVars, owed>>

DeriveReturns(c) ==
    /\ client[c].op \in {"await", "derive"}
    /\ Settled(client[c].pass)
    /\ Finish(c)
    /\ UNCHANGED <<chainVars, rows, logVars, passVars, ops>>

\* genericApply up to its row write: doCreate inserts, doUpdate updates a stored
\* row; either way the event is emitted by a later step.
CommandWrite(c, w, pr, E) ==
    /\ "command" \in Ops
    /\ Exists(rows[w], pr[2]) \/ pr[1] = CreateOf[TableOf[pr[2]]]
    /\ E \in RowShapes(pr[2])
    /\ Begun(c, Request("command", w, {}, {}, {pr}, 0))
    /\ WriteRow(w, pr[2], E)
    /\ owed' = Disowned(w, PairsOf(pr[2]))
    /\ UNCHANGED <<chainVars, logVars, passVars>>

\* emit: no look at the log, one row per command.
CommandEmit(c) ==
    /\ client[c].op = "command"
    /\ commanded' = [commanded EXCEPT ![client[c].w] =
           [pr \in Pairs |-> IF pr \in client[c].pend THEN @[pr] + 1 ELSE @[pr]]]
    /\ Finish(c)
    /\ UNCHANGED <<chainVars, rows, derived, passVars, ops>>

\* The emit throws: the row was written, its event is not in the log.
CommandThrows(c) ==
    /\ client[c].op = "command"
    /\ Finish(c)
    /\ UNCHANGED <<chainVars, rows, logVars, passVars, ops>>

Without(f, S) == [pr \in Pairs |-> IF pr \in S THEN 0 ELSE f[pr]]

EraseLog(w, S) ==
    /\ derived' = [derived EXCEPT ![w] = Without(@, S)]
    /\ commanded' = [commanded EXCEPT ![w] = Without(@, S)]

\* rebuildFromData: the log goes at once, outside the chain of passes.
RebuildClear(c, w) ==
    /\ "rebuild" \in Ops
    /\ Begun(c, Request("rebuild", w, {}, {}, {}, 0))
    /\ EraseLog(w, Pairs)
    /\ owed' = [Disowned(w, Pairs) EXCEPT ![c] = rows[w]]
    /\ UNCHANGED <<chainVars, rows, passVars>>

\* A rebuild with a limit ("derive") promises nothing about the rows it leaves out.
RebuildDerive(c, op) ==
    /\ client[c].op = "rebuild"
    /\ Call(client[c].w)
    /\ client' = [client EXCEPT ![c] = Request(op, @.w, @.tables, {}, {}, ncalls + 1)]
    /\ owed' = [owed EXCEPT ![c] = IF op = "await" THEN @ ELSE {}]
    /\ UNCHANGED <<rows, logVars, passVars, ops>>

\* purgeEntityData: the table's rows go first, its events in a second statement.
PurgeRows(c, w, t) ==
    /\ "purge" \in Ops
    /\ Begun(c, Request("purge", w, {t}, {}, {}, 0))
    /\ rows' = [rows EXCEPT ![w] = @ \ InTable(@, t)]
    /\ owed' = Disowned(w, InTable(Pairs, t))
    /\ UNCHANGED <<chainVars, logVars, passVars>>

PurgeEvents(c) ==
    /\ client[c].op = "purge"
    /\ \E t \in client[c].tables :
           /\ EraseLog(client[c].w, InTable(Pairs, t))
           /\ owed' = Disowned(client[c].w, InTable(Pairs, t))
    /\ client' = [client EXCEPT ![c] = Idle]
    /\ UNCHANGED <<chainVars, rows, passVars, ops>>

\* genericDeleteAll: the log first, then the rows, one statement per table.
ResetLog(c, w) ==
    /\ "reset" \in Ops
    /\ Begun(c, Request("reset", w, Tables, {}, {}, 0))
    /\ EraseLog(w, Pairs)
    /\ owed' = Disowned(w, Pairs)
    /\ UNCHANGED <<chainVars, rows, passVars>>

ResetRows(c, t) ==
    /\ client[c].op = "reset"
    /\ t \in client[c].tables
    /\ rows' = [rows EXCEPT ![client[c].w] = @ \ InTable(@, t)]
    /\ owed' = Disowned(client[c].w, InTable(Pairs, t))
    /\ client' = [client EXCEPT ![c] =
           IF client[c].tables = {t} THEN Idle
           ELSE Request("reset", @.w, @.tables \ {t}, {}, {}, 0)]
    /\ UNCHANGED <<chainVars, logVars, passVars, ops>>

\* The process dies: passes, requests and the chain are lost, the database stays.
Restart ==
    /\ "restart" \in Ops
    /\ ops < MaxOps
    /\ ops' = ops + 1
    /\ ChainRestart
    /\ at' = [p \in Passes |-> "off"]
    /\ toRead' = [p \in Passes |-> {}]
    /\ snap' = [p \in Passes |-> {}]
    /\ seen' = [p \in Passes |-> {}]
    /\ opens' = [p \in Passes |-> {}]
    /\ batch' = [p \in Passes |-> {}]
    /\ client' = [c \in Clients |-> Idle]
    /\ owed' = [c \in Clients |-> {}]
    /\ UNCHANGED <<rows, logVars>>

-----------------------------------------------------------------------------

PassStep(p) ==
    \/ PassStart(p)
    \/ \E t \in Tables, window \in SUBSET Ids : ReadTable(p, t, window)
    \/ ReadLog(p)
    \/ \E c \in Ids : OpenCycle(p, c)
    \/ AllOpened(p)
    \/ \E chunk \in SUBSET batch[p] : EmitMany(p, chunk)
    \/ PassReturns(p)
    \/ PassThrows(p)
    \/ PassPrune(p)

\* A request arrives, or a scheduled pull falls due.
ClientBegins(c) ==
    \/ \E w \in Workflows, t \in Tables, source \in SUBSET Ids : PullStart(c, w, t, source)
    \/ \E w \in Workflows, pr \in Pairs :
           \E E \in RowShapes(pr[2]) : CommandWrite(c, w, pr, E)
    \/ \E w \in Workflows : RebuildClear(c, w)
    \/ \E w \in Workflows : DeriveBegins(c, w)
    \/ \E w \in Workflows, t \in Tables : PurgeRows(c, w, t)
    \/ \E w \in Workflows : ResetLog(c, w)

\* A request that is under way takes its next step.
ClientGoesOn(c) ==
    \/ \E i \in Ids : \E E \in RowShapes(i) : PullRow(c, i, E)
    \/ PullDerive(c)
    \/ PullThrows(c)
    \/ DeriveReturns(c)
    \/ CommandEmit(c)
    \/ CommandThrows(c)
    \/ \E op \in {"await", "derive"} : RebuildDerive(c, op)
    \/ PurgeEvents(c)
    \/ \E t \in Tables : ResetRows(c, t)

ClientStep(c) == ClientBegins(c) \/ ClientGoesOn(c)

Next ==
    \/ \E p \in Passes : PassStep(p)
    \/ \E c \in Clients : ClientStep(c)
    \/ Restart

Spec == Init /\ [][Next]_vars

\* Awaited database calls return or throw and promise callbacks run, so a pass that
\* was called and a request that was started go on.  Nobody has to start a request.
Fairness ==
    /\ \A p \in Passes : WF_vars(phase[p] # "none" /\ PassStep(p))
    /\ \A c \in Clients : WF_vars(ClientGoesOn(c))

FairSpec == Spec /\ Fairness

-----------------------------------------------------------------------------
(* What the twin promises.                                                 *)

\* No event of a row is derived twice, however pulls, rebuilds, purges, resets,
\* commands, failures and restarts interleave with the passes: the log read that
\* seeds `seen` is still right when emitMany inserts (deriveChains, "both emit
\* them - duplicates").
NoDuplicateDerived ==
    \A w \in Workflows, pr \in Pairs : derived[w][pr] <= 1

\* When the pass a pull or a rebuild waited for has succeeded, every event that
\* the pull's rows (the rebuild's rows) evidence is in the log, unless somebody
\* wrote those rows or erased those events since.  A call may therefore not join
\* a pass that was already under way.
PromisedEventsLogged ==
    \A c \in Clients :
        client[c].op = "await" /\ phase[client[c].pass] = "ok"
            => owed[c] \subseteq Logged(client[c].w)

\* Every pull, derive, command, rebuild, purge and reset that was started ends: each
\* client is idle again and again.
RequestsEnd ==
    \A c \in Clients : []<>(client[c].op = "idle")
=============================================================================
