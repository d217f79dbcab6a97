----------------------------- MODULE ModelApply -----------------------------
(***************************************************************************)
(* The life of one workflow and its model: creation with a model           *)
(* (POST /v1/workflows), applying another one (applyWorkflowModel), pulls  *)
(* and deletion (deleteWorkflow), each a sequence of statements without a  *)
(* common transaction, and the ontology store, the projection tables, the  *)
(* event log and the in-memory model they leave behind.                    *)
(*                                                                         *)
(* A model is a value; Ents says which entities it has.  A table is the    *)
(* model whose shape it has and the ids of its rows: 0 stands for what a   *)
(* sync connector re-creates, other ids for actions an actuator performed, *)
(* of which its rows are the only record.                                  *)
(***************************************************************************)
EXTENDS Naturals, Sequences

CONSTANTS Models, Entities, Ents,   \* Ents[m]: the entities of model m
          Sourced, Actuated,        \* entities with a sync connector, with an actuator
          Clients, None, Earlier,   \* Earlier: rows that were there from the start
          MaxOps, MaxActs           \* bounds: requests and restarts, actions performed

ASSUME ApplyAssumption ==
    /\ Ents \in [Models -> SUBSET Entities]
    /\ Sourced \subseteq Entities /\ Actuated \subseteq Entities
    /\ Sourced \cap Actuated = {}
    /\ None \notin Models \cup Clients \cup {Earlier} /\ Earlier \notin Clients
    /\ MaxOps \in Nat /\ MaxActs \in Nat

VARIABLES wf,        \* the workflow's row
          res, ont,  \* who created the resource and the ontology row, or None
          versions,  \* the model of each version, by seq
          current,   \* the ontology's current version, 0 for none
          main,      \* the head of its branch "main", 0 for none
          tables,    \* tables[e]: the projection table of e, or None
          events,    \* the event log, as the rows they are evidence of
          live,      \* the model bound in memory, or None
          inflight,  \* targets whose connector is being pulled
          client,    \* requests in flight
          acts,      \* actions performed so far
          recorded,  \* ghost: actions that have been stored as rows, with their entity
          torn,      \* ghost: a rebuild of an evidence table was cut short or crossed
          alone,     \* ghost: the client nothing else ran beside since its request began
          verdict,   \* ghost: the request that ended last if nothing overlapped it or began since
          ops

disk == <<wf, res, ont, versions, current, main, tables, events>>
ghosts == <<acts, recorded, torn>>
applyVars == <<disk, live, inflight, client, ghosts, alone, verdict, ops>>

Ids == 0..MaxActs
Table == [shape : Models, rows : SUBSET Ids]

ASSUME NoTableAssumption == None \notin Table

Empty == [op |-> "none", at |-> "idle", m |-> None, oid |-> None, saw |-> 0,
          todo |-> {}, kept |-> {}, on |-> None, shape |-> None]

Free(c) == client[c].at = "idle"
Quiet == \A c \in Clients : Free(c)
Existing == {e \in Entities : tables[e] # None}
Evidence == {x \in Entities \X Ids : x[1] \in Existing /\ x[2] \in tables[x[1]].rows}

EvidenceOf(m) == {x \in Evidence : x[1] \in Ents[m]}

\* Between reading an evidence table and having put its rows back.
Rebuilding(c) == client[c].at \in {"carry", "drop", "make"}

\* Nothing yet, or a workflow whose model has been applied and pulled.
ApplyInit ==
    /\ \/ /\ wf = "none" /\ res = None /\ ont = None
          /\ versions = <<>> /\ current = 0 /\ main = 0
          /\ tables = [e \in Entities |-> None] /\ events = {} /\ acts = 0
       \/ \E m \in Models :
             /\ wf = "live" /\ res = Earlier /\ ont = Earlier
             /\ versions = <<m>> /\ current = 1 /\ main = 1
             /\ acts \in {0, 1} \cap Ids /\ (acts = 1 => Actuated \cap Ents[m] # {})
             /\ tables = [e \in Entities |->
                   IF e \notin Ents[m] THEN None
                   ELSE [shape |-> m, rows |-> IF e \in Sourced THEN {0}
                                               ELSE IF e \in Actuated THEN 1..acts ELSE {}]]
             /\ events = Evidence
    /\ live = None /\ inflight = {}
    /\ client = [c \in Clients |-> Empty]
    /\ recorded = {x \in Evidence : x[2] > 0} /\ torn = FALSE
    /\ alone = None /\ verdict = None /\ ops = 0

-----------------------------------------------------------------------------
(* Requests.                                                               *)

To(c, at) == client' = [client EXCEPT ![c].at = at]

Ends(c, agreed) ==
    /\ client' = [client EXCEPT ![c] = Empty]
    /\ verdict' = IF alone = c THEN [op |-> client[c].op, m |-> client[c].m, derived |-> agreed]
                  ELSE None

\* A request arrives; the workflow's id resolves only while its row exists.
Begin(c, op, m, e) ==
    /\ Free(c) /\ ops < MaxOps /\ ops' = ops + 1
    /\ IF op = "create" THEN wf = "none" ELSE wf = "live"
    /\ client' = [client EXCEPT ![c] = [Empty EXCEPT !.op = op, !.m = m, !.on = e,
                      !.at = IF op = "create" THEN "row" ELSE "hook"]]
    /\ alone' = IF Quiet THEN c ELSE None
    /\ verdict' = None
    /\ UNCHANGED <<disk, live, inflight, ghosts>>

\* The onRequest hook reads the current version ...
HookReads(c) ==
    /\ client[c].at = "hook"
    /\ client' = [client EXCEPT ![c].at = "hooked", ![c].saw = current]
    /\ UNCHANGED <<disk, live, inflight, ghosts, alone, verdict, ops>>

\* ... and binds its content; the handler begins.
HookBinds(c) ==
    /\ client[c].at = "hooked"
    /\ live' = IF client[c].saw \in DOMAIN versions THEN versions[client[c].saw] ELSE live
    /\ client' = [client EXCEPT ![c].saw = 0,
           ![c].at = CASE client[c].op = "apply" -> "find"
                       [] client[c].op = "delete" -> "sought"
                       [] client[c].op = "pull" -> "pull"]
    /\ UNCHANGED <<disk, inflight, ghosts, alone, verdict, ops>>

\* A statement throws.  A creation is rolled back, best effort; a restart or a
\* failure in the middle of a rebuild loses the rows it carries.
Throws(c) ==
    /\ client[c].at \notin {"idle", "pull", "ensure", "land", "ingest", "derive", "emit"}
    /\ IF client[c].op = "create" /\ client[c].at # "row"
       THEN client' = [client EXCEPT ![c] = [Empty EXCEPT !.op = "rollback", !.at = "sought"]]
       ELSE client' = [client EXCEPT ![c] = Empty]
    /\ torn' = (torn \/ Rebuilding(c))
    /\ UNCHANGED <<disk, live, inflight, acts, recorded, alone, verdict, ops>>

Restart ==
    /\ ops < MaxOps /\ ops' = ops + 1
    /\ client' = [c \in Clients |-> Empty]
    /\ live' = None /\ inflight' = {} /\ verdict' = None
    /\ alone' = None
    /\ torn' = (torn \/ \E c \in Clients : Rebuilding(c))
    /\ UNCHANGED <<disk, acts, recorded>>

-----------------------------------------------------------------------------
(* The workflow's row and the ontology store.                              *)

CreateRow(c) ==
    /\ client[c].at = "row" /\ wf = "none"
    /\ wf' = "live" /\ To(c, "find")
    /\ UNCHANGED <<res, ont, versions, current, main, tables, events,
                   live, inflight, ghosts, alone, verdict, ops>>

FindOntology(c) ==
    /\ client[c].at = "find"
    /\ client' = [client EXCEPT ![c].at = IF ont = None THEN "resource" ELSE "read",
                                ![c].oid = ont]
    /\ UNCHANGED <<disk, live, inflight, ghosts, alone, verdict, ops>>

\* ensureOntologyResource: two rows by two statements; names of resources are unique.
CreateResource(c) ==
    /\ client[c].at = "resource" /\ res = None
    /\ res' = c /\ To(c, "ontology")
    /\ UNCHANGED <<wf, ont, versions, current, main, tables, events,
                   live, inflight, ghosts, alone, verdict, ops>>

CreateOntology(c) ==
    /\ client[c].at = "ontology" /\ res = c
    /\ ont' = c
    /\ client' = [client EXCEPT ![c].at = "read", ![c].oid = c]
    /\ UNCHANGED <<wf, res, versions, current, main, tables, events,
                   live, inflight, ghosts, alone, verdict, ops>>

\* Mutant of ReadOntology: an unchanged model needs no rebuild.
ReadOntology_Returns(c) ==
    /\ client[c].at = "read" /\ ont = client[c].oid
    /\ IF current # 0 /\ versions[current] = client[c].m
       THEN live' = client[c].m /\ Ends(c, TRUE)
       ELSE To(c, "last") /\ UNCHANGED <<live, verdict>>
    /\ UNCHANGED <<disk, inflight, ghosts, alone, ops>>

\* createVersion: content equal to the current version's makes no version, but the
\* caller goes on to bind the model and rebuild.
ReadOntology(c) ==
    /\ client[c].at = "read" /\ ont = client[c].oid
    /\ IF current # 0 /\ versions[current] = client[c].m
       THEN live' = client[c].m /\ client' = [client EXCEPT ![c].at = "list", ![c].oid = None]
       ELSE To(c, "last") /\ UNCHANGED live
    /\ UNCHANGED <<disk, inflight, ghosts, alone, verdict, ops>>

ReadLast(c) ==
    /\ client[c].at = "last"
    /\ client' = [client EXCEPT ![c].at = "version",
                                ![c].saw = IF ont = client[c].oid THEN Len(versions) ELSE 0]
    /\ UNCHANGED <<disk, live, inflight, ghosts, alone, verdict, ops>>

\* Mutant of CreateVersion: a number that is taken is not refused.
CreateVersion_AnySeq(c) ==
    /\ client[c].at = "version" /\ ont = client[c].oid
    /\ versions' = IF client[c].saw < Len(versions)
                    THEN [versions EXCEPT ![client[c].saw + 1] = client[c].m]
                    ELSE Append(versions, client[c].m)
    /\ client' = [client EXCEPT ![c].at = "point", ![c].saw = @ + 1]
    /\ UNCHANGED <<wf, res, ont, current, main, tables, events,
                   live, inflight, ghosts, alone, verdict, ops>>

\* (organization, ontology, seq) is unique; the ontology must exist.
CreateVersion(c) ==
    /\ client[c].at = "version" /\ ont = client[c].oid /\ Len(versions) = client[c].saw
    /\ versions' = Append(versions, client[c].m)
    /\ client' = [client EXCEPT ![c].at = "point", ![c].saw = @ + 1]
    /\ UNCHANGED <<wf, res, ont, current, main, tables, events,
                   live, inflight, ghosts, alone, verdict, ops>>

PointCurrent(c) ==
    /\ client[c].at = "point" /\ ont = client[c].oid
    /\ current' = client[c].saw /\ To(c, "head")
    /\ UNCHANGED <<wf, res, ont, versions, main, tables, events,
                   live, inflight, ghosts, alone, verdict, ops>>

FindMain(c) ==
    /\ client[c].at = "head"
    /\ To(c, IF ont = client[c].oid /\ main # 0 THEN "move" ELSE "branch")
    /\ UNCHANGED <<disk, live, inflight, ghosts, alone, verdict, ops>>

\* The branch is moved, or created (its name is unique); the model becomes live.
MoveMain(c) ==
    /\ ont = client[c].oid
    /\ \/ client[c].at = "move"
       \/ client[c].at = "branch" /\ main = 0
    /\ main' = client[c].saw /\ live' = client[c].m
    /\ client' = [client EXCEPT ![c].at = "list", ![c].saw = 0, ![c].oid = None]
    /\ UNCHANGED <<wf, res, ont, versions, current, tables, events,
                   inflight, ghosts, alone, verdict, ops>>

-----------------------------------------------------------------------------
(* applyModelTables.                                                       *)

ListTables(c) ==
    /\ client[c].at = "list"
    /\ client' = [client EXCEPT ![c].at = "carry", ![c].todo = Existing, ![c].kept = {}]
    /\ torn' = (torn \/ \E d \in Clients \ {c} : Rebuilding(d))
    /\ UNCHANGED <<disk, live, inflight, acts, recorded, alone, verdict, ops>>

\* Preserved tables the new model still has.
Carried(c) == client[c].todo \cap Actuated \cap Ents[client[c].m]

\* Their rows are read before any table is dropped.
CarryRows(c) ==
    /\ client[c].at = "carry" /\ Carried(c) \subseteq Existing
    /\ client' = [client EXCEPT ![c].at = "drop",
           ![c].kept = {x \in Evidence : x[1] \in Carried(c)},
           \* a preserved table that left the model is left standing
           ![c].todo = @ \ (Actuated \ Ents[client[c].m])]
    /\ UNCHANGED <<disk, live, inflight, ghosts, alone, verdict, ops>>

DropTable(c, e) ==
    /\ client[c].at \in {"drop", "unlink"} /\ e \in client[c].todo
    /\ tables' = [tables EXCEPT ![e] = None]
    /\ client' = [client EXCEPT ![c].todo = @ \ {e}]
    /\ UNCHANGED <<wf, res, ont, versions, current, main, events,
                   live, inflight, ghosts, alone, verdict, ops>>

AllDropped(c) ==
    /\ client[c].at = "drop" /\ client[c].todo = {}
    /\ client' = [client EXCEPT ![c].at = "make", ![c].todo = Ents[client[c].m]]
    /\ UNCHANGED <<disk, live, inflight, ghosts, alone, verdict, ops>>

\* CREATE TABLE fails if the table is there.
MakeTable(c, e) ==
    /\ client[c].at = "make" /\ e \in client[c].todo /\ tables[e] = None
    /\ tables' = [tables EXCEPT ![e] = [shape |-> client[c].m, rows |-> {}]]
    /\ client' = [client EXCEPT ![c].todo = @ \ {e}]
    /\ UNCHANGED <<wf, res, ont, versions, current, main, events,
                   live, inflight, ghosts, alone, verdict, ops>>

\* Mutant of RestoreRows: the rows carried over the rebuild are forgotten.
RestoreRows_Forgets(c) ==
    /\ client[c].at = "make" /\ client[c].todo = {}
    /\ tables' = tables
    /\ To(c, "wipe")
    /\ UNCHANGED <<wf, res, ont, versions, current, main, events,
                   live, inflight, ghosts, alone, verdict, ops>>

\* restoreRows: the carried rows are inserted again; ids are primary keys.
RestoreRows(c) ==
    /\ client[c].at = "make" /\ client[c].todo = {}
    /\ \A x \in client[c].kept : x[1] \in Existing /\ x \notin Evidence
    /\ tables' = [e \in Entities |-> IF tables[e] = None THEN None
                     ELSE [tables[e] EXCEPT !.rows = @ \cup {i \in Ids : <<e, i>> \in client[c].kept}]]
    /\ To(c, "wipe")
    /\ UNCHANGED <<wf, res, ont, versions, current, main, events,
                   live, inflight, ghosts, alone, verdict, ops>>

WipeLog(c) ==
    /\ client[c].at = "wipe"
    /\ events' = {}
    /\ client' = [client EXCEPT ![c].at = "ingest", ![c].todo = Sourced, ![c].kept = {}]
    /\ UNCHANGED <<wf, res, ont, versions, current, main, tables,
                   live, inflight, ghosts, alone, verdict, ops>>

-----------------------------------------------------------------------------
(* Pulls, of one connector or of all of a workflow's (reingestAll).        *)

\* What the pull of e's connector needs to begin: its guard, and a live model with e.
CanPull(e) == e \notin inflight /\ live # None /\ e \in Ents[live]

StartPull(c, e, at) ==
    /\ client[c].at = at /\ CanPull(e)
    /\ inflight' = inflight \cup {e}
    /\ client' = [client EXCEPT ![c].at = "ensure", ![c].on = e,
                                ![c].m = IF at = "pull" THEN live ELSE @,
                                ![c].shape = live, ![c].todo = @ \ {e}]
    /\ UNCHANGED <<disk, live, ghosts, alone, verdict, ops>>

\* ensureTable creates the table if it is not there.
EnsureTable(c) ==
    /\ client[c].at = "ensure"
    /\ LET e == client[c].on
       IN  tables' = IF tables[e] # None THEN tables
                     ELSE [tables EXCEPT ![e] = [shape |-> client[c].shape, rows |-> {}]]
    /\ To(c, "land")
    /\ UNCHANGED <<wf, res, ont, versions, current, main, events,
                   live, inflight, ghosts, alone, verdict, ops>>

AfterPull(c) ==
    client' = [client EXCEPT ![c].at = IF client[c].op = "pull" THEN "derive" ELSE "ingest",
                             ![c].on = None, ![c].shape = None]

\* The rows land: the one a source has, or one per action an actuator now performs.
LandRows(c) ==
    LET e == client[c].on
        i == IF e \in Actuated THEN acts + 1 ELSE 0
    IN  /\ client[c].at = "land" /\ e \in Existing /\ i \in Ids
        /\ tables' = [tables EXCEPT ![e].rows = @ \cup {i}]
        /\ acts' = IF e \in Actuated THEN i ELSE acts
        /\ recorded' = IF e \in Actuated THEN recorded \cup {<<e, i>>} ELSE recorded
        /\ torn' = (torn \/ \E d \in Clients : /\ client[d].at = "drop"
                                              /\ e \in client[d].todo \cap Actuated)
        /\ inflight' = inflight \ {e} /\ AfterPull(c)
        /\ UNCHANGED <<wf, res, ont, versions, current, main, events, live, alone, verdict, ops>>

\* A pull that throws ends a pull request; reingestAll goes on with the others.
PullFails(c) ==
    /\ client[c].at \in {"ensure", "land"}
    /\ inflight' = inflight \ {client[c].on}
    /\ client' = IF client[c].op = "pull" THEN [client EXCEPT ![c] = Empty]
                 ELSE [client EXCEPT ![c].at = "ingest", ![c].on = None, ![c].shape = None]
    /\ UNCHANGED <<disk, live, ghosts, alone, verdict, ops>>

\* ingestPull refuses at once: already in flight, no model, or not in the model.
PullRefused(c) ==
    /\ \/ /\ client[c].at = "pull" /\ ~CanPull(client[c].on)
          /\ client' = [client EXCEPT ![c] = Empty]
       \/ \E e \in client[c].todo :
             /\ client[c].at = "ingest" /\ ~CanPull(e)
             /\ client' = [client EXCEPT ![c].todo = @ \ {e}]
    /\ UNCHANGED <<disk, live, inflight, ghosts, alone, verdict, ops>>

AllPulled(c) ==
    /\ client[c].at = "ingest" /\ client[c].todo = {}
    /\ To(c, "derive")
    /\ UNCHANGED <<disk, live, inflight, ghosts, alone, verdict, ops>>

\* One pass of the workflow at a time; its detail is module DeriveLog.
DeriveReads(c) ==
    /\ client[c].at = "derive" /\ live # None
    /\ \A d \in Clients : client[d].at # "emit"
    /\ client' = [client EXCEPT ![c].at = "emit",
           ![c].kept = EvidenceOf(live) \ events]
    /\ UNCHANGED <<disk, live, inflight, ghosts, alone, verdict, ops>>

\* emitMany commits the batch chunk by chunk.
DeriveEmits(c, chunk) ==
    /\ client[c].at = "emit" /\ chunk # {} /\ chunk \subseteq client[c].kept
    /\ events' = events \cup chunk
    /\ client' = [client EXCEPT ![c].kept = @ \ chunk]
    /\ UNCHANGED <<wf, res, ont, versions, current, main, tables,
                   live, inflight, ghosts, alone, verdict, ops>>

DeriveEnds(c) ==
    /\ client[c].at = "emit" /\ client[c].kept = {}
    /\ Ends(c, TRUE)
    /\ UNCHANGED <<disk, live, inflight, ghosts, alone, ops>>

\* A derivation that throws fails neither a pull nor an apply; the chunks that were
\* committed before it threw stay.
DeriveThrows(c) ==
    /\ client[c].at \in {"derive", "emit"}
    /\ Ends(c, FALSE)
    /\ UNCHANGED <<disk, live, inflight, ghosts, alone, ops>>

-----------------------------------------------------------------------------
(* deleteWorkflow.                                                         *)

FindRow(c) ==
    /\ client[c].at = "sought" /\ wf = "live"
    /\ To(c, "listed")
    /\ UNCHANGED <<disk, live, inflight, ghosts, alone, verdict, ops>>

ListOntologies(c) ==
    /\ client[c].at = "listed"
    /\ client' = [client EXCEPT ![c].at = "commit", ![c].oid = ont]
    /\ UNCHANGED <<disk, live, inflight, ghosts, alone, verdict, ops>>

\* One transaction.  The versions deleted are those of the ontologies listed; foreign
\* keys refuse to delete an ontology that has others.
DeleteRows(c) ==
    /\ client[c].at = "commit"
    /\ ont = client[c].oid \/ (versions = <<>> /\ main = 0)
    /\ wf' = "deleted" /\ res' = None /\ ont' = None
    /\ versions' = <<>> /\ current' = 0 /\ main' = 0 /\ events' = {}
    /\ To(c, "tables")
    /\ UNCHANGED <<tables, live, inflight, ghosts, alone, verdict, ops>>

ListForDrop(c) ==
    /\ client[c].at = "tables"
    /\ client' = [client EXCEPT ![c].at = "unlink", ![c].todo = Existing]
    /\ UNCHANGED <<disk, live, inflight, ghosts, alone, verdict, ops>>

\* Mutant of Forget: the model stays bound.
Forget_Not(c) ==
    /\ client[c].at = "unlink" /\ client[c].todo = {}
    /\ Ends(c, TRUE)
    /\ UNCHANGED <<disk, live, inflight, ghosts, alone, ops>>

Forget(c) ==
    /\ client[c].at = "unlink" /\ client[c].todo = {}
    /\ live' = None
    /\ Ends(c, TRUE)
    /\ UNCHANGED <<disk, inflight, ghosts, alone, ops>>

-----------------------------------------------------------------------------
Arrivals(c) ==
    \/ \E m \in Models : Begin(c, "create", m, None) \/ Begin(c, "apply", m, None)
    \/ \E e \in Sourced \cup Actuated : Begin(c, "pull", None, e)
    \/ Begin(c, "delete", None, None)
    \/ HookReads(c) \/ HookBinds(c)

Applies(c) ==
    \/ CreateRow(c) \/ FindOntology(c) \/ CreateResource(c) \/ CreateOntology(c)
    \/ ReadOntology(c) \/ ReadLast(c) \/ CreateVersion(c) \/ PointCurrent(c)
    \/ FindMain(c) \/ MoveMain(c)
    \/ ListTables(c) \/ CarryRows(c) \/ AllDropped(c) \/ RestoreRows(c)
    \/ \E e \in Entities : DropTable(c, e) \/ MakeTable(c, e)
    \/ WipeLog(c) \/ AllPulled(c)

Pulls(c) ==
    \/ StartPull(c, client[c].on, "pull")
    \/ \E e \in client[c].todo : StartPull(c, e, "ingest")
    \/ EnsureTable(c) \/ LandRows(c) \/ PullFails(c) \/ PullRefused(c)
    \/ DeriveReads(c) \/ \E chunk \in SUBSET client[c].kept : DeriveEmits(c, chunk)
    \/ DeriveEnds(c) \/ DeriveThrows(c)

Deletes(c) ==
    \/ FindRow(c) \/ ListOntologies(c) \/ DeleteRows(c) \/ ListForDrop(c) \/ Forget(c)

ApplyNext ==
    \/ Restart
    \/ \E c \in Clients : Arrivals(c) \/ Applies(c) \/ Pulls(c) \/ Deletes(c) \/ Throws(c)

ApplySpec == ApplyInit /\ [][ApplyNext]_applyVars

-----------------------------------------------------------------------------
(* Properties.                                                             *)

\* An apply or a creation that nothing overlaps leaves version, live model, tables and
\* log in agreement, whatever earlier races, failures and restarts left behind:
\* the rebuild in twin/apply.ts does not look at what was there.  If its derivation
\* failed, the log is short of events and has none of another model's.
LoneApplyAgrees ==
    verdict # None /\ verdict.op \in {"apply", "create"} =>
        /\ current # 0 /\ versions[current] = verdict.m /\ live = verdict.m
        /\ \A e \in Ents[verdict.m] : e \in Existing /\ tables[e].shape = verdict.m
        /\ Existing \subseteq Ents[verdict.m] \cup Actuated
        /\ events \subseteq EvidenceOf(verdict.m)
        /\ verdict.derived => events = EvidenceOf(verdict.m)

\* Two applies that read the same last version do not both become its successor: the
\* one that a request goes on to make current and the head of "main" is the one it
\* created, although the number was chosen before the write (createVersion).
PointsAtOwnVersion ==
    wf = "live" =>
        \A c \in Clients :
            client[c].at \in {"point", "head", "move", "branch"} =>
                client[c].saw \in DOMAIN versions /\ versions[client[c].saw] = client[c].m

\* A deletion that nothing overlaps leaves nothing of the workflow: no row, no
\* ontology or version, no event, no table, no live model (deleteWorkflow).
LoneDeleteLeavesNothing ==
    verdict # None /\ verdict.op = "delete" =>
        /\ wf = "deleted" /\ res = None /\ ont = None /\ versions = <<>>
        /\ Existing = {} /\ events = {} /\ live = None

\* The stored record of an actuator's actions survives every sequence of applies, also
\* ones whose models drop and re-add its entity; the only ways to lose it are a rebuild
\* cut short after its first drop, two rebuilds at once, or a pull that stores rows
\* between their being read and dropped (applyModelTables, "preserve").
EvidenceKept ==
    wf = "live" /\ ~torn /\ (\A c \in Clients : ~Rebuilding(c)) => recorded \subseteq Evidence

=============================================================================
