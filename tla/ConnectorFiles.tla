--------------------------- MODULE ConnectorFiles ---------------------------
(***************************************************************************)
(* The life of a workflow's connectors: the sidecar file of each           *)
(* (.qlerify/adapters/<id>.json), its module and rule files, and the       *)
(* in-memory registry built from the sidecars at boot.  Creating,          *)
(* building, editing, authoring, discovering, re-pointing, importing,      *)
(* pulling and removing connectors read and write the same sidecar; the    *)
(* ones that wait for a language model, npm or a source read it before     *)
(* they wait and again, or not again, when they write.                     *)
(*                                                                         *)
(* Ids are numbers because loadPacks prefers the lowest.  Of a sidecar the *)
(* model keeps what the operations read or must not lose.  A rule is the   *)
(* table its event was checked to be rooted on when the rule was saved, or *)
(* Imported, since an import checks nothing; a sample is its table.        *)
(***************************************************************************)
EXTENDS Naturals

CONSTANTS Ids, Targets,        \* connector ids, tables of the model
          Events,              \* events of the model that a rule may decide
          Clients, None, Imported,
          Choices, Proposed,   \* date roles an operator chooses, roles the AI proposes
          MaxOps, MaxPulls     \* bounds: operations, stamps of a connector

ASSUME FilesAssumption ==
    /\ Ids \subseteq Nat /\ None \notin Targets \cup Events \cup Choices \cup {Proposed}
    /\ Imported \notin Targets \cup {None}
    /\ MaxOps \in Nat /\ MaxPulls \in Nat

Roles == Choices \cup {None, Proposed}
Kinds == {"connector", "simulated", "authored"}
Rules == [Events -> Targets \cup {None, Imported}]
NoRules == [e \in Events |-> None]
Sidecar == [kind : Kinds, target : Targets,
            phase : {"draft", "introspected", "built"}, roles : Roles,
            rule : Rules, sample : Targets \cup {None},
            pulled : 0..MaxPulls, acts : BOOLEAN]

\* What createConnectorAdapter closes over and a pull or a health check uses.
Bound(cfg) == [kind |-> cfg.kind, target |-> cfg.target, acts |-> cfg.acts]
AsConnector(cfg) == [Bound(cfg) EXCEPT !.kind = "connector"]
Entry == [kind : Kinds, target : Targets, acts : BOOLEAN]

ASSUME NoneAssumption == None \notin Sidecar /\ None \notin Entry

VARIABLES side,     \* side[i]: the sidecar, or None
          code,     \* code[i]: the module file exists
          ruleFile, \* ruleFile[i]: the events with a rule file of i
          reg,      \* reg[i]: the registered adapter, or None
          root,     \* root[e]: the table event e is rooted on, None if no rule can decide it
          client,   \* operations that wait for something
          revived,  \* ghost: connectors written back, or re-typed, or imported too late
          ops

vars == <<side, code, ruleFile, reg, root, client, revived, ops>>

Idle == [op |-> "none", id |-> None, cfg |-> None, event |-> None]
Pending == {"codegen", "roles", "install", "author", "sample", "compile", "pull", "purge", "import"}

Draft(t, acts) == [kind |-> "connector", target |-> t, phase |-> "draft", roles |-> None,
                   rule |-> NoRules, sample |-> None, pulled |-> 0, acts |-> acts]
Simulated(t) == [Draft(t, FALSE) EXCEPT !.kind = "simulated"]

Own(t) == [e \in Events |-> IF root[e] = t THEN t ELSE None]
HasRule(cfg) == {e \in Events : cfg.rule[e] # None}

IsConnector(i) == side[i] # None /\ side[i].kind = "connector"
Occupant(t, except) == {j \in Ids \ {except} : IsConnector(j) /\ side[j].target = t}

TypeOK ==
    /\ side \in [Ids -> Sidecar \cup {None}]
    /\ code \in [Ids -> BOOLEAN] /\ ruleFile \in [Ids -> SUBSET Events]
    /\ reg \in [Ids -> Entry \cup {None}] /\ root \in [Events -> Targets \cup {None}]
    /\ client \in [Clients -> [op : Pending \cup {"none"}, id : Ids \cup {None},
                               cfg : Sidecar \cup {None}, event : Events \cup {None}]]
    /\ \A c \in Clients : client[c].op # "none" => client[c].id \in Ids /\ client[c].cfg # None
    /\ revived \subseteq Ids /\ ops \in 0..MaxOps

\* No connector yet, or one that is built and has chosen roles and a rule per event of
\* its table.
Init ==
    /\ root \in [Events -> Targets]
    /\ \/ side = [i \in Ids |-> None]
       \/ \E i \in Ids, t \in Targets, r \in Choices :
             side = [j \in Ids |-> IF j = i THEN [Draft(t, FALSE) EXCEPT !.phase = "built",
                                                      !.roles = r, !.rule = Own(t)] ELSE None]
    /\ code = [i \in Ids |-> side[i] # None]
    /\ ruleFile = [i \in Ids |-> IF side[i] = None THEN {} ELSE HasRule(side[i])]
    /\ reg = [i \in Ids |-> IF side[i] = None THEN None ELSE Bound(side[i])]
    /\ client = [c \in Clients |-> Idle] /\ revived = {} /\ ops = 0

-----------------------------------------------------------------------------
Count == ops < MaxOps /\ ops' = ops + 1

\* An operation reads the sidecar and waits ...
WaitsFor(c, op, i, cfg, e) ==
    /\ client[c] = Idle /\ Count
    /\ client' = [client EXCEPT ![c] = [op |-> op, id |-> i, cfg |-> cfg, event |-> e]]
    /\ UNCHANGED <<side, code, ruleFile, reg, root, revived>>

Waits(c, op, i, cfg) == WaitsFor(c, op, i, cfg, None)

\* ... and goes on when it is answered.
Answered(c, op) ==
    /\ client[c].op = op
    /\ client' = [client EXCEPT ![c] = Idle]
    /\ UNCHANGED <<root, ops>>

\* Mutant of Fresh: the copy read before the wait.
Fresh_Not(c) == client[c].cfg

\* The freshest copy of the sidecar, or else the one read at first.
Fresh(c) == IF side[client[c].id] # None THEN side[client[c].id] ELSE client[c].cfg

Write(i, cfg) == side' = [side EXCEPT ![i] = cfg]
Register(i, cfg) == reg' = [reg EXCEPT ![i] = Bound(cfg)]

\* Ghost: the sidecar had gone, or was another kind of adapter, when it was written.
Revives(i) == revived' = IF IsConnector(i) THEN revived ELSE revived \cup {i}

\* Mutant of Create: the id is checked, the table is not.
Create_AnyTable(i, t, acts) ==
    /\ side[i] = None /\ reg[i] = None /\ Count
    /\ Write(i, Draft(t, acts)) /\ Register(i, Draft(t, acts))
    /\ UNCHANGED <<code, ruleFile, root, client, revived>>

\* createConnector, in one synchronous piece.
Create(i, t, acts) ==
    /\ side[i] = None /\ reg[i] = None /\ Occupant(t, i) = {} /\ Count
    /\ Write(i, Draft(t, acts)) /\ Register(i, Draft(t, acts))
    /\ UNCHANGED <<code, ruleFile, root, client, revived>>

-----------------------------------------------------------------------------
(* Building and editing code.                                              *)

BuildReads(c, i) == side[i] # None /\ Waits(c, "codegen", i, side[i])

\* The sidecar is written with phase "built"; roles are the ones found at first, if any.
Built(c, roles) ==
    LET i == client[c].id
        next == [Fresh(c) EXCEPT !.kind = "connector", !.phase = "built",
                                 !.roles = IF roles = None THEN @ ELSE roles]
    IN  Write(i, next) /\ Register(i, next) /\ Revives(i)

\* The module is written; without roles the AI is asked for some, which is a wait.
BuildCodes(c) ==
    /\ client[c].op = "codegen" /\ UNCHANGED <<ruleFile, root, ops>>
    /\ code' = [code EXCEPT ![client[c].id] = TRUE]
    /\ \/ /\ client[c].cfg.roles # None
          /\ Built(c, client[c].cfg.roles) /\ client' = [client EXCEPT ![c] = Idle]
       \/ /\ client[c].cfg.roles = None
          /\ client' = [client EXCEPT ![c].op = "roles"]
          /\ UNCHANGED <<side, reg, revived>>

BuildFinishes(c, proposal) ==
    /\ Answered(c, "roles") /\ Built(c, proposal)
    /\ UNCHANGED <<code, ruleFile>>

SaveReads(c, i) == IsConnector(i) /\ Waits(c, "install", i, side[i])

SaveLands(c) ==
    /\ Answered(c, "install") /\ Built(c, None)
    /\ code' = [code EXCEPT ![client[c].id] = TRUE]
    /\ UNCHANGED ruleFile

\* authorAdapterBody asks for another kind of code, and writes the copy it read before.
AuthorReads(c, i) == side[i] # None /\ Waits(c, "author", i, side[i])

Authored(cfg) == [cfg EXCEPT !.kind = "authored", !.phase = "built"]

AuthorLands(c) ==
    LET i == client[c].id
        next == Authored(client[c].cfg)
    IN  /\ Answered(c, "author")
        /\ Write(i, next) /\ Register(i, next) /\ revived' = revived \ {i}
        /\ UNCHANGED <<code, ruleFile>>

\* discoverSourceFields samples the registered adapter.
DiscoverReads(c, i) ==
    side[i] # None /\ reg[i] # None /\ Waits(c, "sample", i, side[i])

\* Only a draft advances; the registered adapter stays, nothing it uses has changed.
DiscoverLands(c) ==
    /\ Answered(c, "sample")
    /\ Write(client[c].id, [Fresh(c) EXCEPT !.sample = client[c].cfg.target,
                                !.phase = IF @ = "draft" THEN "introspected" ELSE @])
    /\ Revives(client[c].id)
    /\ UNCHANGED <<code, ruleFile, reg>>

-----------------------------------------------------------------------------
(* Synchronous edits.                                                      *)

SetDateRoles(i, r) ==
    /\ IsConnector(i) /\ Count
    /\ Write(i, [side[i] EXCEPT !.roles = r]) /\ Register(i, side[i])
    /\ UNCHANGED <<code, ruleFile, root, client, revived>>

\* setConnectorBehavior and setConnectorTargetSystem.  The assistant may also retype an
\* adapter that was reset or authored; what is registered is a connector's all the same.
SetBehavior(i, acts) ==
    LET next == [side[i] EXCEPT !.acts = acts]
    IN  /\ side[i] # None /\ Count
        /\ Write(i, next) /\ reg' = [reg EXCEPT ![i] = AsConnector(next)]
        /\ UNCHANGED <<code, ruleFile, root, client, revived>>

\* POST /api/connectors/:id/repoint: rules and sample go with the old table.
Repoint(i, t) ==
    LET next == [side[i] EXCEPT !.target = t, !.rule = NoRules, !.sample = None]
    IN  /\ IsConnector(i) /\ t # side[i].target /\ Occupant(t, i) = {} /\ Count
        /\ Write(i, next) /\ Register(i, next)
        /\ ruleFile' = [ruleFile EXCEPT ![i] = @ \ HasRule(side[i])]
        /\ revived' = revived \ {i}
        /\ UNCHANGED <<code, root, client>>

-----------------------------------------------------------------------------
(* Trigger rules.                                                          *)

\* compileTriggerRule checks that the event is rooted on the target, and asks the AI.
CompileReads(c, i, e) ==
    /\ side[i] # None /\ root[e] = side[i].target
    /\ WaitsFor(c, "compile", i, side[i], e)

\* The rule is saved as one for table t.
SaveRule(i, e, t) ==
    /\ ruleFile' = [ruleFile EXCEPT ![i] = @ \cup {e}]
    /\ Write(i, [side[i] EXCEPT !.rule[e] = t])
    /\ UNCHANGED <<code, reg, revived>>

\* Mutant of CompileLands: what was checked before the wait is not checked again.
CompileLands_Unchecked(c) ==
    /\ Answered(c, "compile") /\ side[client[c].id] # None
    /\ SaveRule(client[c].id, client[c].event, client[c].cfg.target)

\* saveTriggerRuleCode checks again, against the sidecar and the model of now.
CompileLands(c) ==
    LET i == client[c].id
        e == client[c].event
    IN  /\ Answered(c, "compile") /\ side[i] # None /\ root[e] = side[i].target
        /\ SaveRule(i, e, root[e])

DeleteRule(i, e) ==
    /\ side[i] # None /\ side[i].rule[e] # None /\ Count
    /\ ruleFile' = [ruleFile EXCEPT ![i] = @ \ {e}]
    /\ Write(i, [side[i] EXCEPT !.rule[e] = None])
    /\ UNCHANGED <<code, reg, root, client, revived>>

\* The model is applied again and roots the event elsewhere, or nowhere; its rules stay
\* where they are, and are skipped while they are for another table ("orphaned").
ModelMoves(e, t) ==
    /\ root[e] # t /\ Count /\ root' = [root EXCEPT ![e] = t]
    /\ UNCHANGED <<side, code, ruleFile, reg, client, revived>>

-----------------------------------------------------------------------------
(* Pulls, removal, reset, import, boot.                                    *)

PullBegins(c, i) ==
    /\ reg[i] # None /\ side[i] # None
    /\ \A d \in Clients : ~(client[d].op = "pull" /\ client[d].id = i)
    /\ Waits(c, "pull", i, side[i])

\* stampLastPull reads again and does nothing without a sidecar.
PullStamps(c) ==
    LET i == client[c].id
    IN  /\ Answered(c, "pull") /\ (side[i] # None => side[i].pulled < MaxPulls)
        /\ IF side[i] = None THEN UNCHANGED side
           ELSE Write(i, [side[i] EXCEPT !.pulled = @ + 1])
        /\ UNCHANGED <<code, ruleFile, reg, revived>>

\* The operation's wait ends in an error; a rule or a removal may be refused.
Fails(c) ==
    /\ client[c].op # "none"
    /\ client' = [client EXCEPT ![c] = Idle]
    /\ UNCHANGED <<side, code, ruleFile, reg, root, revived, ops>>

\* removeConnector.
Removed(i) ==
    /\ side[i] # None \/ code[i]
    /\ side' = [side EXCEPT ![i] = None] /\ code' = [code EXCEPT ![i] = FALSE]
    /\ ruleFile' = [ruleFile EXCEPT ![i] = {}] /\ reg' = [reg EXCEPT ![i] = None]
    /\ revived' = revived \ {i}

\* The assistant's tool removes at once, the route after purging the table's data.
RemoveTool(i) == Removed(i) /\ Count /\ UNCHANGED <<root, client>>
RemoveReads(c, i) == IsConnector(i) /\ Waits(c, "purge", i, side[i])
RemoveLands(c) == Answered(c, "purge") /\ Removed(client[c].id)

\* resetAdapter turns any adapter into a simulated draft; its files stay.
Reset(i) ==
    LET next == Simulated(side[i].target)
    IN  /\ side[i] # None /\ Count
        /\ Write(i, next) /\ Register(i, next) /\ revived' = revived \ {i}
        /\ UNCHANGED <<code, ruleFile, root, client>>

\* removeAdapter leaves a connector's files behind.
RemoveAdapter(i) ==
    /\ side[i] # None /\ reg[i] # None /\ Count
    /\ side' = [side EXCEPT ![i] = None] /\ reg' = [reg EXCEPT ![i] = None]
    /\ revived' = revived \ {i}
    /\ UNCHANGED <<code, ruleFile, root, client>>

\* importEntry checks id and table in the index of the sidecars, then waits for npm or,
\* without code, for the entries before it.  The rules in the file may be for any event.
ImportReads(c, i, t, phase, events) ==
    /\ side[i] = None /\ reg[i] = None /\ Occupant(t, None) = {}
    /\ Waits(c, "import", i, [Draft(t, FALSE) EXCEPT !.phase = phase,
                !.rule = [e \in Events |-> IF e \in events THEN Imported ELSE None]])

ImportLands(c) ==
    LET i == client[c].id
        cfg == client[c].cfg
    IN  /\ Answered(c, "import")
        /\ code' = [code EXCEPT ![i] = @ \/ cfg.phase = "built"]
        /\ ruleFile' = [ruleFile EXCEPT ![i] = @ \cup HasRule(cfg)]
        /\ Write(i, cfg) /\ Register(i, cfg)
        /\ revived' = IF Occupant(cfg.target, i) = {} THEN revived ELSE revived \cup {i}

\* loadPacks: of the connectors of one table only the lowest id is registered.
Restart ==
    /\ Count
    /\ client' = [c \in Clients |-> Idle]
    /\ reg' = [i \in Ids |->
          IF \/ side[i] = None
             \/ IsConnector(i) /\ \E j \in Occupant(side[i].target, i) : j < i
          THEN None ELSE Bound(side[i])]
    /\ UNCHANGED <<side, code, ruleFile, root, revived>>

-----------------------------------------------------------------------------
Edits(i) ==
    \/ \E t \in Targets, acts \in BOOLEAN : Create(i, t, acts)
    \/ \E r \in Choices \cup {None} : SetDateRoles(i, r)
    \/ \E t \in Targets : Repoint(i, t)
    \/ \E acts \in BOOLEAN : SetBehavior(i, acts)
    \/ \E e \in Events : DeleteRule(i, e)
    \/ RemoveTool(i) \/ Reset(i) \/ RemoveAdapter(i)

Begins(c, i) ==
    \/ BuildReads(c, i) \/ SaveReads(c, i) \/ AuthorReads(c, i) \/ DiscoverReads(c, i)
    \/ PullBegins(c, i) \/ RemoveReads(c, i)
    \/ \E e \in Events : CompileReads(c, i, e)
    \/ \E t \in Targets, phase \in {"draft", "built"}, events \in SUBSET Events :
          ImportReads(c, i, t, phase, events)

Lands(c) ==
    \/ BuildCodes(c) \/ \E p \in {None, Proposed} : BuildFinishes(c, p)
    \/ SaveLands(c) \/ AuthorLands(c) \/ DiscoverLands(c) \/ CompileLands(c)
    \/ PullStamps(c) \/ RemoveLands(c) \/ ImportLands(c) \/ Fails(c)

Next ==
    \/ \E i \in Ids : Edits(i) \/ \E c \in Clients : Begins(c, i)
    \/ \E c \in Clients : Lands(c)
    \/ \E e \in Events, t \in Targets \cup {None} : ModelMoves(e, t)
    \/ Restart

Spec == Init /\ [][Next]_vars

-----------------------------------------------------------------------------
(* Properties.                                                             *)

\* A registered adapter always has a sidecar, and has the table and the behaviour that
\* the sidecar says, although several mutators write the file without registering
\* again and others write it long after they read it (registry.ts, sidecar.ts).  A
\* connector is registered as one; so is, until the next boot, a retyped simulated adapter.
RegistryFresh ==
    \A i \in Ids : reg[i] # None =>
        side[i] # None /\ reg[i] \in {Bound(side[i]), AsConnector(side[i])}

\* A rule that was checked when it was saved was checked for the table the connector
\* populates now, also when the table or the model changes while it is being compiled:
\* so it decides no event but one that is rooted where it was then, whatever moves.
\* Imported rules are exempt: importEntry scans them and asks nothing of their event.
RulesBound ==
    \A i \in Ids : side[i] # None =>
        \A e \in Events : side[i].rule[e] \in {None, Imported, side[i].target}

\* Two connectors populate one table only if one of them was written back after it had
\* been removed or reset, or was imported after the other took the table; creation and
\* re-pointing alone keep "the one-connector-per-table invariant" (connectorForTarget).
OneUnlessRevived ==
    \A i, j \in Ids :
        i # j /\ IsConnector(i) /\ IsConnector(j) /\ side[i].target = side[j].target
            => {i, j} \cap revived # {}

\* A reset or an import that lands replaces the sidecar of i, and is meant to.
Replaced(i) ==
    \/ side'[i] = Simulated(side[i].target)
    \/ \E c \in Clients : client[c].op = "import" /\ client[c].id = i /\ client'[c] = Idle

\* An authored body lands on i, with the sidecar as it was before the wait.
AuthoredOver(i) ==
    \E c \in Clients : /\ client[c].op = "author" /\ client[c].id = i /\ client'[c] = Idle
                       /\ side'[i] = Authored(client[c].cfg)

\* However builds, edits, discoveries and pulls of a connector overlap, none loses the
\* stamp of a pull or takes a built connector back down the ladder (the "fresh read
\* before write").  An authored body loses stamps, and nothing else does but a reset, a
\* removal or an import; not even it takes a built connector back.
ProgressKept ==
    [][\A i \in Ids : side[i] # None /\ side'[i] # None /\ ~Replaced(i) =>
          /\ side'[i].pulled >= side[i].pulled \/ AuthoredOver(i)
          /\ side[i].phase = "built" => side'[i].phase = "built"
      ]_vars
=============================================================================
