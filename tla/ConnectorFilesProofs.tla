----------------------- MODULE ConnectorFilesProofs -----------------------
(***************************************************************************)
(* For any number of connectors, tables, clients and operations: a         *)
(* registered adapter is the one its sidecar describes, and every rule     *)
(* that was checked is for the table its connector populates.  Neither is  *)
(* inductive alone: an operation that waits holds a copy of a sidecar and  *)
(* may write it back, so the copies must be bound to their tables as well  *)
(* (WaitsBound).  Then: tables are shared only with a connector that was   *)
(* revived, and no overlap of handlers loses a built connector, nor any    *)
(* but an authored body a pull's stamp.                                    *)
(***************************************************************************)
EXTENDS ConnectorFiles, TLAPS

\* Every copy of a sidecar that a waiting operation holds is bound to its table.
WaitsBound ==
    \A c \in Clients : client[c].op # "none"
        => \A e \in Events : client[c].cfg.rule[e] \in {None, Imported, client[c].cfg.target}

\* The sidecars and the registry.
FilesPart ==
    /\ side \in [Ids -> Sidecar \cup {None}] /\ reg \in [Ids -> Entry \cup {None}]
    /\ RegistryFresh /\ RulesBound

\* The operations that wait.
WaitsPart ==
    /\ client \in [Clients -> [op : Pending \cup {"none"}, id : Ids \cup {None},
                               cfg : Sidecar \cup {None}, event : Events \cup {None}]]
    /\ \A c \in Clients : client[c].op # "none" => client[c].id \in Ids /\ client[c].cfg # None
    /\ \A c \in Clients : client[c].op = "compile" => client[c].event \in Events
    /\ WaitsBound

\* The rest.
RestPart ==
    /\ code \in [Ids -> BOOLEAN] /\ ruleFile \in [Ids -> SUBSET Events]
    /\ root \in [Events -> Targets \cup {None}] /\ revived \subseteq Ids /\ ops \in 0..MaxOps

FilesInv == FilesPart /\ WaitsPart /\ RestPart

-----------------------------------------------------------------------------
(* What the forms of a sidecar are.                                        *)

\* A sidecar whose rules, if they were checked, are for the table it populates.
Sound(cfg) == /\ cfg \in Sidecar
              /\ \A e \in Events : cfg.rule[e] \in {None, Imported, cfg.target}

\* The same of rules alone.
RulesFor(t) == [Events -> {None, Imported, t}]

LEMMA SoundRules ==
    ASSUME NEW cfg, Sound(cfg), NEW rule \in RulesFor(cfg.target)
    PROVE  /\ Sound([cfg EXCEPT !.rule = rule])
           /\ Bound([cfg EXCEPT !.rule = rule]) = Bound(cfg)
<1>1. cfg.target \in Targets BY DEF Sound, Sidecar
<1>2. rule \in Rules BY <1>1 DEF RulesFor, Rules
<1> QED BY <1>2 DEF Sound, Sidecar, RulesFor, Bound

\* Changing one of them.
LEMMA OneRule ==
    ASSUME NEW cfg, Sound(cfg), NEW e \in Events, NEW t \in {None, Imported, cfg.target}
    PROVE  /\ Sound([cfg EXCEPT !.rule[e] = t])
           /\ Bound([cfg EXCEPT !.rule[e] = t]) = Bound(cfg)
<1> DEFINE rule == [cfg.rule EXCEPT ![e] = t]
<1>1. [cfg EXCEPT !.rule[e] = t] = [cfg EXCEPT !.rule = rule]
    BY DEF Sound, Sidecar
<1>2. rule \in RulesFor(cfg.target) BY DEF Sound, Sidecar, Rules, RulesFor
<1> QED BY <1>1, <1>2, SoundRules

\* What is bound from a sidecar is an entry of the registry.
LEMMA BoundType ==
    ASSUME NEW cfg \in Sidecar
    PROVE  {Bound(cfg), AsConnector(cfg)} \subseteq Entry \ {None}
BY NoneAssumption DEF AsConnector, Bound, Entry, Sidecar, Kinds

\* A new draft and a simulated one are sound.
LEMMA DraftSound ==
    ASSUME NEW t \in Targets, NEW acts \in BOOLEAN
    PROVE  Sound(Draft(t, acts)) /\ Sound(Simulated(t))
<1>1. \A a \in BOOLEAN : Sound(Draft(t, a))
    BY FilesAssumption DEF Sound, Draft, Sidecar, Roles, Kinds, Rules, NoRules
<1>2. \A cfg : Sound(cfg) => Sound([cfg EXCEPT !.kind = "simulated"])
    BY DEF Sound, Sidecar, Kinds
<1>3. Sound([Draft(t, FALSE) EXCEPT !.kind = "simulated"]) BY <1>1, <1>2
<1> QED BY <1>1, <1>3 DEF Simulated

\* The copy that an operation writes back is sound.
LEMMA FreshSound ==
    ASSUME FilesPart, WaitsPart, NEW c \in Clients, client[c].op # "none"
    PROVE  client[c].id \in Ids /\ Sound(Fresh(c)) /\ Sound(client[c].cfg)
<1>1. client[c].id \in Ids /\ client[c].cfg \in Sidecar /\ Sound(client[c].cfg)
    BY DEF WaitsPart, WaitsBound, Sound
<1>2. side[client[c].id] # None => Sound(side[client[c].id])
    BY <1>1 DEF FilesPart, RulesBound, Sound
<1> QED BY <1>1, <1>2 DEF Fresh

-----------------------------------------------------------------------------
(* The ways a step changes the files: write and register, write only,      *)
(* clear, or nothing.                                                      *)

\* Writing a sound sidecar and registering it keeps files and registry right.
LEMMA WriteRegister ==
    ASSUME FilesPart, NEW i \in Ids, NEW cfg, Sound(cfg), Write(i, cfg),
           NEW e \in {Bound(cfg), AsConnector(cfg)}, reg' = [reg EXCEPT ![i] = e]
    PROVE  FilesPart'
<1>1. e \in Entry /\ e # None /\ cfg # None
    BY BoundType, NoneAssumption DEF Sound
<1>2. side' \in [Ids -> Sidecar \cup {None}] /\ side'[i] = cfg
      /\ \A j \in Ids \ {i} : side'[j] = side[j]
    BY DEF FilesPart, Write, Sound
<1>3. reg' \in [Ids -> Entry \cup {None}] /\ reg'[i] = e
      /\ \A j \in Ids \ {i} : reg'[j] = reg[j]
    BY <1>1 DEF FilesPart
<1>4. RegistryFresh'
  <2> SUFFICES ASSUME NEW j \in Ids, reg'[j] # None
               PROVE  side'[j] # None /\ reg'[j] \in {Bound(side'[j]), AsConnector(side'[j])}
      BY DEF RegistryFresh, AsConnector, Bound
  <2>1. CASE j = i BY <2>1, <1>1, <1>2, <1>3
  <2>2. CASE j # i BY <2>2, <1>2, <1>3 DEF FilesPart, RegistryFresh
  <2> QED BY <2>1, <2>2
<1>5. RulesBound' BY <1>2 DEF FilesPart, RulesBound, Sound
<1> QED BY <1>2, <1>3, <1>4, <1>5 DEF FilesPart

\* Writing a sound sidecar that binds as the old one did needs no registration.
LEMMA WriteOnly ==
    ASSUME FilesPart, NEW i \in Ids, NEW cfg, Sound(cfg), Write(i, cfg), UNCHANGED reg,
           side[i] # None => Bound(cfg) = Bound(side[i])
    PROVE  FilesPart'
<1>1. side' \in [Ids -> Sidecar \cup {None}] /\ side'[i] = cfg
      /\ \A j \in Ids \ {i} : side'[j] = side[j]
    BY DEF FilesPart, Write, Sound
<1>2. RegistryFresh'
  <2> SUFFICES ASSUME NEW j \in Ids, reg[j] # None
               PROVE  side'[j] # None /\ reg[j] \in {Bound(side'[j]), AsConnector(side'[j])}
      BY DEF RegistryFresh, AsConnector, Bound
  <2>1. side[j] # None /\ reg[j] \in {Bound(side[j]), AsConnector(side[j])}
      BY DEF FilesPart, RegistryFresh
  <2>2. CASE j = i BY <2>1, <2>2, <1>1, NoneAssumption DEF Sound, AsConnector
  <2>3. CASE j # i BY <2>1, <2>3, <1>1
  <2> QED BY <2>2, <2>3
<1>3. RulesBound' BY <1>1 DEF FilesPart, RulesBound, Sound
<1> QED BY <1>1, <1>2, <1>3 DEF FilesPart

\* Removing sidecar and adapter together.
LEMMA ClearBoth ==
    ASSUME FilesPart, NEW i \in Ids,
           side' = [side EXCEPT ![i] = None], reg' = [reg EXCEPT ![i] = None]
    PROVE  FilesPart'
<1>1. side' \in [Ids -> Sidecar \cup {None}] /\ reg' \in [Ids -> Entry \cup {None}]
    BY DEF FilesPart
<1>2. \A j \in Ids : IF j = i THEN side'[j] = None /\ reg'[j] = None
                     ELSE side'[j] = side[j] /\ reg'[j] = reg[j]
    BY DEF FilesPart
<1>3. RegistryFresh' BY <1>2 DEF FilesPart, RegistryFresh, AsConnector, Bound
<1>4. RulesBound' BY <1>2 DEF FilesPart, RulesBound
<1> QED BY <1>1, <1>3, <1>4 DEF FilesPart

\* A step that touches neither.
LEMMA FilesSame ==
    ASSUME FilesPart, UNCHANGED <<side, reg>>
    PROVE  FilesPart'
BY DEF FilesPart, RegistryFresh, RulesBound, AsConnector, Bound

\* An operation that starts to wait holds a sound copy.
LEMMA WaitsKeep ==
    ASSUME FilesInv, NEW c \in Clients, NEW op \in Pending, NEW i \in Ids, NEW cfg,
           NEW e \in Events \cup {None}, op = "compile" => e \in Events,
           Sound(cfg), WaitsFor(c, op, i, cfg, e)
    PROVE  FilesInv'
<1>1. FilesPart' BY FilesSame DEF FilesInv, WaitsFor
<1>2. RestPart'
    BY FilesAssumption DEF FilesInv, RestPart, WaitsFor, Count
<1>3. client' = [client EXCEPT ![c] = [op |-> op, id |-> i, cfg |-> cfg, event |-> e]]
    BY DEF WaitsFor
<1>4. cfg # None /\ op # "none" BY NoneAssumption DEF Sound, Pending
<1>5. WaitsPart'
    BY <1>3, <1>4 DEF FilesInv, WaitsPart, WaitsBound, Sound
<1> QED BY <1>1, <1>2, <1>5 DEF FilesInv

\* An operation that ends.
LEMMA IdleKeeps ==
    ASSUME WaitsPart, NEW c \in Clients, client' = [client EXCEPT ![c] = Idle]
    PROVE  WaitsPart'
BY DEF WaitsPart, WaitsBound, Idle

\* A step without any operation that waits.
LEMMA WaitsSame == ASSUME WaitsPart, UNCHANGED client PROVE WaitsPart'
BY DEF WaitsPart, WaitsBound

-----------------------------------------------------------------------------
(* Initial states.                                                         *)

\* The rules of a connector that stands at first.
LEMMA OwnRules ==
    ASSUME root \in [Events -> Targets \cup {None}], NEW t \in Targets, NEW r \in Roles
    PROVE  Sound([Draft(t, FALSE) EXCEPT !.phase = "built", !.roles = r, !.rule = Own(t)])
<1>1. Sound(Draft(t, FALSE)) /\ Draft(t, FALSE).target = t BY DraftSound DEF Draft
<1>2. \A cfg : Sound(cfg) /\ cfg.target = t
          => /\ Sound([cfg EXCEPT !.phase = "built", !.roles = r])
             /\ [cfg EXCEPT !.phase = "built", !.roles = r].target = t
             /\ [cfg EXCEPT !.phase = "built", !.roles = r, !.rule = Own(t)]
                    = [[cfg EXCEPT !.phase = "built", !.roles = r] EXCEPT !.rule = Own(t)]
    BY DEF Sound, Sidecar
<1>3. Own(t) \in RulesFor(t) BY DEF Own, RulesFor
<1> QED BY <1>1, <1>2, <1>3, SoundRules

LEMMA FilesInit == Init => FilesInv
<1> SUFFICES ASSUME Init PROVE FilesInv
    OBVIOUS
<1>1. WaitsPart BY DEF Init, WaitsPart, WaitsBound, Idle
<1>2. \A i \in Ids : side[i] = None \/ Sound(side[i])
  <2>1. CASE side = [i \in Ids |-> None] BY <2>1
  <2>2. ASSUME NEW i0 \in Ids, NEW t \in Targets, NEW r \in Choices,
               side = [j \in Ids |-> IF j = i0 THEN [Draft(t, FALSE) EXCEPT !.phase = "built",
                                                     !.roles = r, !.rule = Own(t)] ELSE None]
        PROVE  \A i \in Ids : side[i] = None \/ Sound(side[i])
    <3>1. Sound([Draft(t, FALSE) EXCEPT !.phase = "built", !.roles = r, !.rule = Own(t)])
        BY OwnRules DEF Init, Roles
    <3> QED BY <2>2, <3>1
  <2> QED BY <2>1, <2>2 DEF Init
<1>3. side = [i \in Ids |-> side[i]] /\ reg = [i \in Ids |-> IF side[i] = None THEN None ELSE Bound(side[i])]
    BY DEF Init
<1>4. side \in [Ids -> Sidecar \cup {None}] BY <1>2, <1>3 DEF Sound
<1>5. reg \in [Ids -> Entry \cup {None}] BY <1>2, <1>3, BoundType DEF Sound
<1>6. RegistryFresh BY <1>3, NoneAssumption DEF RegistryFresh
<1>7. RulesBound BY <1>2 DEF RulesBound, Sound
<1>8. RestPart
  <2>1. ruleFile \in [Ids -> SUBSET Events] BY DEF Init, HasRule
  <2>2. /\ code \in [Ids -> BOOLEAN] /\ root \in [Events -> Targets \cup {None}]
        /\ revived = {} /\ ops = 0
      BY DEF Init
  <2> QED BY <2>1, <2>2, FilesAssumption DEF RestPart
<1> QED BY <1>1, <1>4, <1>5, <1>6, <1>7, <1>8 DEF FilesInv, FilesPart

-----------------------------------------------------------------------------
(* Steps.                                                                  *)

\* The edits, which happen at once.
LEMMA EditsKeep ==
    ASSUME FilesInv, NEW i \in Ids, Edits(i)
    PROVE  FilesInv'
<1> USE DEF FilesInv
<1>1. ASSUME NEW t \in Targets, NEW acts \in BOOLEAN, Create(i, t, acts) PROVE FilesInv'
  <2>1. FilesPart' BY <1>1, DraftSound, WriteRegister DEF Create, Register
  <2>2. WaitsPart' BY <1>1, WaitsSame DEF Create
  <2>3. RestPart' BY <1>1, FilesAssumption DEF Create, Count, RestPart
  <2> QED BY <2>1, <2>2, <2>3
<1>2. ASSUME NEW r \in Choices \cup {None}, SetDateRoles(i, r) PROVE FilesInv'
  <2>1. side[i] \in Sidecar /\ Sound(side[i])
      BY <1>2 DEF SetDateRoles, IsConnector, FilesPart, RulesBound, Sound
  <2>2. Sound([side[i] EXCEPT !.roles = r])
        /\ Bound([side[i] EXCEPT !.roles = r]) = Bound(side[i])
      BY <2>1 DEF Sound, Sidecar, Roles, Bound
  <2>3. Write(i, [side[i] EXCEPT !.roles = r]) /\ Register(i, [side[i] EXCEPT !.roles = r])
      BY <1>2, <2>2 DEF SetDateRoles, Register
  <2>4. FilesPart' BY <2>2, <2>3, WriteRegister DEF Register
  <2>5. WaitsPart' BY <1>2, WaitsSame DEF SetDateRoles
  <2>6. RestPart' BY <1>2, FilesAssumption DEF SetDateRoles, Count, RestPart
  <2> QED BY <2>4, <2>5, <2>6
<1>3. ASSUME NEW t \in Targets, Repoint(i, t) PROVE FilesInv'
  <2>1. side[i] \in Sidecar BY <1>3 DEF Repoint, IsConnector, FilesPart
  <2>2. Sound([side[i] EXCEPT !.target = t, !.rule = NoRules, !.sample = None])
      BY <2>1 DEF Sound, Sidecar, Rules, NoRules
  <2>3. FilesPart' BY <1>3, <2>2, WriteRegister DEF Repoint, Register
  <2>4. WaitsPart' BY <1>3, WaitsSame DEF Repoint
  <2>5. RestPart' BY <1>3, FilesAssumption DEF Repoint, Count, RestPart
  <2> QED BY <2>3, <2>4, <2>5
<1>4. ASSUME NEW acts \in BOOLEAN, SetBehavior(i, acts) PROVE FilesInv'
  <2>1. Sound(side[i]) BY <1>4 DEF SetBehavior, FilesPart, RulesBound, Sound
  <2>2. Sound([side[i] EXCEPT !.acts = acts]) BY <2>1 DEF Sound, Sidecar
  <2>3. FilesPart' BY <1>4, <2>2, WriteRegister DEF SetBehavior
  <2>4. WaitsPart' BY <1>4, WaitsSame DEF SetBehavior
  <2>5. RestPart' BY <1>4, FilesAssumption DEF SetBehavior, Count, RestPart
  <2> QED BY <2>3, <2>4, <2>5
<1>5. ASSUME NEW e \in Events, DeleteRule(i, e) PROVE FilesInv'
  <2>1. Sound(side[i]) BY <1>5 DEF DeleteRule, FilesPart, RulesBound, Sound
  <2>2. Sound([side[i] EXCEPT !.rule[e] = None])
        /\ Bound([side[i] EXCEPT !.rule[e] = None]) = Bound(side[i])
      BY <2>1, OneRule
  <2>3. FilesPart' BY <1>5, <2>2, WriteOnly DEF DeleteRule
  <2>4. WaitsPart' BY <1>5, WaitsSame DEF DeleteRule
  <2>5. RestPart' BY <1>5, FilesAssumption DEF DeleteRule, Count, RestPart
  <2> QED BY <2>3, <2>4, <2>5
<1>6. ASSUME RemoveTool(i) PROVE FilesInv'
  <2>1. FilesPart' BY <1>6, ClearBoth DEF RemoveTool, Removed
  <2>2. WaitsPart' BY <1>6, WaitsSame DEF RemoveTool
  <2>3. RestPart' BY <1>6, FilesAssumption DEF RemoveTool, Removed, Count, RestPart
  <2> QED BY <2>1, <2>2, <2>3
<1>7. ASSUME Reset(i) PROVE FilesInv'
  <2>1. side[i].target \in Targets BY <1>7 DEF Reset, FilesPart, Sidecar
  <2>2. FilesPart' BY <1>7, <2>1, DraftSound, WriteRegister DEF Reset, Register
  <2>3. WaitsPart' BY <1>7, WaitsSame DEF Reset
  <2>4. RestPart' BY <1>7, FilesAssumption DEF Reset, Count, RestPart
  <2> QED BY <2>2, <2>3, <2>4
<1>8. ASSUME RemoveAdapter(i) PROVE FilesInv'
  <2>1. FilesPart' BY <1>8, ClearBoth DEF RemoveAdapter
  <2>2. WaitsPart' BY <1>8, WaitsSame DEF RemoveAdapter
  <2>3. RestPart' BY <1>8, FilesAssumption DEF RemoveAdapter, Count, RestPart
  <2> QED BY <2>1, <2>2, <2>3
<1> QED BY <1>1, <1>2, <1>3, <1>4, <1>5, <1>6, <1>7, <1>8 DEF Edits

\* The operations that read a sidecar and wait.
LEMMA BeginsKeep ==
    ASSUME FilesInv, NEW c \in Clients, NEW i \in Ids, Begins(c, i)
    PROVE  FilesInv'
<1>1. side[i] # None => Sound(side[i]) BY DEF FilesInv, FilesPart, RulesBound, Sound
<1>2. ASSUME NEW t \in Targets, NEW phase \in {"draft", "built"}, NEW events \in SUBSET Events,
             ImportReads(c, i, t, phase, events)
      PROVE  FilesInv'
  <2> DEFINE rule == [e \in Events |-> IF e \in events THEN Imported ELSE None]
  <2>1. Sound(Draft(t, FALSE)) /\ Draft(t, FALSE).target = t BY DraftSound DEF Draft
  <2>2. \A cfg : Sound(cfg) /\ cfg.target = t
            => /\ Sound([cfg EXCEPT !.phase = phase])
               /\ [cfg EXCEPT !.phase = phase].target = t
               /\ [cfg EXCEPT !.phase = phase, !.rule = rule]
                      = [[cfg EXCEPT !.phase = phase] EXCEPT !.rule = rule]
      BY DEF Sound, Sidecar
  <2>3. rule \in RulesFor(t) BY DEF RulesFor
  <2>4. Sound([Draft(t, FALSE) EXCEPT !.phase = phase, !.rule = rule])
      BY <2>1, <2>2, <2>3, SoundRules
  <2> QED BY <1>2, <2>4, WaitsKeep DEF ImportReads, Waits, Pending
<1>3. ASSUME NEW e \in Events, CompileReads(c, i, e) PROVE FilesInv'
    BY <1>1, <1>3, WaitsKeep DEF CompileReads, Pending
<1>4. CASE \/ BuildReads(c, i) \/ SaveReads(c, i) \/ AuthorReads(c, i) \/ DiscoverReads(c, i)
           \/ PullBegins(c, i) \/ RemoveReads(c, i)
  <2>1. \E op \in Pending \ {"compile"} : Sound(side[i]) /\ WaitsFor(c, op, i, side[i], None)
      BY <1>1, <1>4 DEF BuildReads, SaveReads, AuthorReads, DiscoverReads, PullBegins,
                        RemoveReads, Waits, IsConnector, Pending
  <2> QED BY <2>1, WaitsKeep
<1> QED BY <1>2, <1>3, <1>4 DEF Begins

\* A build or a save that ends writes a sound sidecar and registers it.
LEMMA BuiltKeeps ==
    ASSUME FilesInv, NEW c \in Clients, client[c].op # "none",
           NEW roles \in {None, Proposed, client[c].cfg.roles}, Built(c, roles)
    PROVE  FilesPart' /\ revived' \subseteq Ids
<1> DEFINE i == client[c].id
           next == [Fresh(c) EXCEPT !.kind = "connector", !.phase = "built",
                                    !.roles = IF roles = None THEN @ ELSE roles]
<1>1. i \in Ids /\ Sound(Fresh(c)) /\ Sound(client[c].cfg) BY FreshSound DEF FilesInv
<1>2. roles \in Roles BY <1>1 DEF Sound, Sidecar, Roles
<1>3. \A cfg : Sound(cfg) =>
          Sound([cfg EXCEPT !.kind = "connector", !.phase = "built",
                            !.roles = IF roles = None THEN @ ELSE roles])
    BY <1>2 DEF Sound, Sidecar, Kinds
<1>4. Sound(next) BY <1>1, <1>3
<1>5. Write(i, next) /\ Register(i, next) /\ Revives(i) BY DEF Built
<1>6. FilesPart' BY <1>1, <1>4, <1>5, WriteRegister DEF FilesInv, Register
<1>7. revived' \subseteq Ids BY <1>1, <1>5 DEF Revives, FilesInv, RestPart
<1> QED BY <1>6, <1>7

\* The operations that waited and go on.
LEMMA LandsKeep ==
    ASSUME FilesInv, NEW c \in Clients, Lands(c)
    PROVE  FilesInv'
<1>1. ASSUME BuildCodes(c) PROVE FilesInv'
  <2>1. client[c].op # "none" BY <1>1 DEF BuildCodes
  <2>2. client[c].id \in Ids BY <2>1 DEF FilesInv, WaitsPart
  <2>3. CASE /\ client[c].cfg.roles # None
             /\ Built(c, client[c].cfg.roles) /\ client' = [client EXCEPT ![c] = Idle]
    <3>1. FilesPart' /\ revived' \subseteq Ids BY <2>1, <2>3, BuiltKeeps
    <3>2. WaitsPart' BY <2>3, IdleKeeps DEF FilesInv
    <3>3. RestPart' BY <1>1, <2>2, <3>1 DEF BuildCodes, FilesInv, RestPart
    <3> QED BY <3>1, <3>2, <3>3 DEF FilesInv
  <2>4. CASE /\ client' = [client EXCEPT ![c].op = "roles"]
             /\ UNCHANGED <<side, reg, revived>>
    <3>1. FilesPart' BY <2>4, FilesSame DEF FilesInv
    <3>2. WaitsPart' BY <2>1, <2>4 DEF FilesInv, WaitsPart, WaitsBound, Pending
    <3>3. RestPart' BY <1>1, <2>2, <2>4 DEF BuildCodes, FilesInv, RestPart
    <3> QED BY <3>1, <3>2, <3>3 DEF FilesInv
  <2> QED BY <1>1, <2>3, <2>4 DEF BuildCodes
<1>2. ASSUME NEW p \in {None, Proposed}, BuildFinishes(c, p) PROVE FilesInv'
  <2>1. client[c].op # "none" BY <1>2 DEF BuildFinishes, Answered
  <2>2. FilesPart' /\ revived' \subseteq Ids BY <1>2, <2>1, BuiltKeeps DEF BuildFinishes
  <2>3. WaitsPart' BY <1>2, IdleKeeps DEF BuildFinishes, Answered, FilesInv
  <2>4. RestPart' BY <1>2, <2>2 DEF BuildFinishes, Answered, FilesInv, RestPart
  <2> QED BY <2>2, <2>3, <2>4 DEF FilesInv
<1>3. ASSUME SaveLands(c) PROVE FilesInv'
  <2>1. client[c].op # "none" BY <1>3 DEF SaveLands, Answered
  <2>2. FilesPart' /\ revived' \subseteq Ids BY <1>3, <2>1, BuiltKeeps DEF SaveLands
  <2>3. WaitsPart' BY <1>3, IdleKeeps DEF SaveLands, Answered, FilesInv
  <2>4. RestPart' BY <1>3, <2>2 DEF SaveLands, Answered, FilesInv, RestPart
  <2> QED BY <2>2, <2>3, <2>4 DEF FilesInv
<1>4. ASSUME DiscoverLands(c) PROVE FilesInv'
  <2> DEFINE next == [Fresh(c) EXCEPT !.sample = client[c].cfg.target,
                                      !.phase = IF @ = "draft" THEN "introspected" ELSE @]
  <2>1. client[c].op # "none" BY <1>4 DEF DiscoverLands, Answered
  <2>2. client[c].id \in Ids /\ Sound(Fresh(c)) /\ Sound(client[c].cfg)
      BY <2>1, FreshSound DEF FilesInv
  <2>3. client[c].cfg.target \in Targets BY <2>2 DEF Sound, Sidecar
  <2>4. \A cfg \in Sidecar : Sound(cfg) =>
            Sound([cfg EXCEPT !.sample = client[c].cfg.target,
                              !.phase = IF @ = "draft" THEN "introspected" ELSE @])
      BY <2>3 DEF Sound, Sidecar
  <2>40. \A cfg \in Sidecar :
            Bound([cfg EXCEPT !.sample = client[c].cfg.target,
                              !.phase = IF @ = "draft" THEN "introspected" ELSE @]) = Bound(cfg)
      BY DEF Sidecar, Bound
  <2>5. Sound(next) /\ Bound(next) = Bound(Fresh(c)) BY <2>2, <2>4, <2>40 DEF Sound
  <2>6. Write(client[c].id, next) BY <1>4 DEF DiscoverLands
  <2>7. side[client[c].id] # None => Bound(next) = Bound(side[client[c].id])
      BY <2>5 DEF Fresh
  <2>8. FilesPart' BY <1>4, <2>2, <2>5, <2>6, <2>7, WriteOnly DEF DiscoverLands, FilesInv
  <2>9. WaitsPart' BY <1>4, IdleKeeps DEF DiscoverLands, Answered, FilesInv
  <2>10. RestPart' BY <1>4, <2>2 DEF DiscoverLands, Answered, Revives, FilesInv, RestPart
  <2> QED BY <2>8, <2>9, <2>10 DEF FilesInv
<1>5. ASSUME CompileLands(c) PROVE FilesInv'
  <2> DEFINE i == client[c].id
             e == client[c].event
             next == [side[i] EXCEPT !.rule[e] = root[e]]
  <2>1. client[c].op # "none" /\ side[i] # None /\ root[e] = side[i].target
      BY <1>5 DEF CompileLands, Answered
  <2>2. i \in Ids /\ e \in Events
      BY <1>5, <2>1 DEF CompileLands, Answered, FilesInv, WaitsPart
  <2>3. Sound(side[i]) BY <2>1, <2>2 DEF FilesInv, FilesPart, RulesBound, Sound
  <2>4. SaveRule(i, e, root[e]) BY <1>5 DEF CompileLands
  <2>5. Sound(next) /\ Bound(next) = Bound(side[i]) BY <2>1, <2>2, <2>3, OneRule
  <2>6. FilesPart' BY <2>2, <2>4, <2>5, WriteOnly DEF SaveRule, FilesInv
  <2>7. WaitsPart' BY <1>5, IdleKeeps DEF CompileLands, Answered, FilesInv
  <2>8. RestPart' BY <1>5, <2>2, <2>4 DEF CompileLands, SaveRule, Answered, FilesInv, RestPart
  <2> QED BY <2>6, <2>7, <2>8 DEF FilesInv
<1>6. ASSUME PullStamps(c) PROVE FilesInv'
  <2> DEFINE i == client[c].id
  <2>1. i \in Ids BY <1>6 DEF PullStamps, Answered, FilesInv, WaitsPart
  <2>2. FilesPart'
    <3>1. CASE side[i] = None BY <1>6, <3>1, FilesSame DEF PullStamps, FilesInv
    <3>2. CASE side[i] # None
      <4> DEFINE next == [side[i] EXCEPT !.pulled = @ + 1]
      <4>1. Sound(side[i]) /\ side[i].pulled < MaxPulls
          BY <1>6, <2>1, <3>2 DEF PullStamps, FilesInv, FilesPart, RulesBound, Sound
      <4>2. Sound(next) /\ Bound(next) = Bound(side[i])
          BY <4>1, FilesAssumption DEF Sound, Sidecar, Bound
      <4> QED BY <1>6, <2>1, <3>2, <4>2, WriteOnly DEF PullStamps, FilesInv
    <3> QED BY <3>1, <3>2
  <2>3. WaitsPart' BY <1>6, IdleKeeps DEF PullStamps, Answered, FilesInv
  <2>4. RestPart' BY <1>6 DEF PullStamps, Answered, FilesInv, RestPart
  <2> QED BY <2>2, <2>3, <2>4 DEF FilesInv
<1>7. ASSUME RemoveLands(c) PROVE FilesInv'
  <2>1. client[c].id \in Ids BY <1>7 DEF RemoveLands, Answered, FilesInv, WaitsPart
  <2>2. FilesPart' BY <1>7, <2>1, ClearBoth DEF RemoveLands, Removed, FilesInv
  <2>3. WaitsPart' BY <1>7, IdleKeeps DEF RemoveLands, Answered, FilesInv
  <2>4. RestPart' BY <1>7, <2>1 DEF RemoveLands, Removed, Answered, FilesInv, RestPart
  <2> QED BY <2>2, <2>3, <2>4 DEF FilesInv
<1>8. ASSUME ImportLands(c) PROVE FilesInv'
  <2> DEFINE i == client[c].id
             cfg == client[c].cfg
  <2>1. i \in Ids /\ Sound(cfg)
      BY <1>8, FreshSound DEF ImportLands, Answered, FilesInv
  <2>2. HasRule(cfg) \subseteq Events BY DEF HasRule
  <2>3. FilesPart' BY <1>8, <2>1, WriteRegister DEF ImportLands, Register, FilesInv
  <2>4. WaitsPart' BY <1>8, IdleKeeps DEF ImportLands, Answered, FilesInv
  <2>5. RestPart' BY <1>8, <2>1, <2>2 DEF ImportLands, Answered, FilesInv, RestPart
  <2> QED BY <2>3, <2>4, <2>5 DEF FilesInv
<1>9. ASSUME Fails(c) PROVE FilesInv'
  <2>1. FilesPart' BY <1>9, FilesSame DEF Fails, FilesInv
  <2>2. WaitsPart' BY <1>9, IdleKeeps DEF Fails, FilesInv
  <2>3. RestPart' BY <1>9 DEF Fails, FilesInv, RestPart
  <2> QED BY <2>1, <2>2, <2>3 DEF FilesInv
<1>10. ASSUME AuthorLands(c) PROVE FilesInv'
  <2> DEFINE i == client[c].id
             next == Authored(client[c].cfg)
  <2>1. i \in Ids /\ Sound(client[c].cfg)
      BY <1>10, FreshSound DEF AuthorLands, Answered, FilesInv
  <2>2. \A cfg : Sound(cfg) => Sound(Authored(cfg)) BY DEF Authored, Sound, Sidecar, Kinds
  <2>3. FilesPart' BY <1>10, <2>1, <2>2, WriteRegister DEF AuthorLands, Register, FilesInv
  <2>4. WaitsPart' BY <1>10, IdleKeeps DEF AuthorLands, Answered, FilesInv
  <2>5. RestPart' BY <1>10, <2>1 DEF AuthorLands, Answered, FilesInv, RestPart
  <2> QED BY <2>3, <2>4, <2>5 DEF FilesInv
<1> QED BY <1>1, <1>2, <1>3, <1>4, <1>5, <1>6, <1>7, <1>8, <1>9, <1>10 DEF Lands

\* The model moves an event to another table.
LEMMA MovesKeep ==
    ASSUME FilesInv, NEW e \in Events, NEW t \in Targets \cup {None}, ModelMoves(e, t)
    PROVE  FilesInv'
<1>1. FilesPart' BY FilesSame DEF ModelMoves, FilesInv
<1>2. WaitsPart' BY WaitsSame DEF ModelMoves, FilesInv
<1>3. RestPart' BY FilesAssumption DEF ModelMoves, Count, FilesInv, RestPart
<1> QED BY <1>1, <1>2, <1>3 DEF FilesInv

\* At boot the registry is built from the sidecars.
LEMMA RestartKeeps == ASSUME FilesInv, Restart PROVE FilesInv'
<1>1. \A i \in Ids : side[i] # None => Bound(side[i]) \in Entry
    BY BoundType DEF FilesInv, FilesPart
<1>2. reg' \in [Ids -> Entry \cup {None}] BY <1>1 DEF Restart
<1>3. \A i \in Ids : reg'[i] # None => side[i] # None /\ reg'[i] = Bound(side[i])
    BY DEF Restart
<1>4. FilesPart'
    BY <1>2, <1>3 DEF Restart, FilesInv, FilesPart, RegistryFresh, RulesBound, AsConnector, Bound
<1>5. WaitsPart' BY DEF Restart, WaitsPart, WaitsBound, Idle
<1>6. RestPart' BY FilesAssumption DEF Restart, Count, FilesInv, RestPart
<1> QED BY <1>4, <1>5, <1>6 DEF FilesInv

-----------------------------------------------------------------------------
(* Theorems.                                                               *)

\* The inductive invariant.
THEOREM FilesInvHolds == Spec => []FilesInv
<1>1. Init => FilesInv BY FilesInit
<1>2. FilesInv /\ [Next]_vars => FilesInv'
  <2> SUFFICES ASSUME FilesInv, [Next]_vars PROVE FilesInv' OBVIOUS
  <2>1. CASE UNCHANGED vars
    <3>1. FilesPart' BY <2>1, FilesSame DEF vars, FilesInv
    <3>2. WaitsPart' BY <2>1, WaitsSame DEF vars, FilesInv
    <3>3. RestPart' BY <2>1 DEF vars, FilesInv, RestPart
    <3> QED BY <3>1, <3>2, <3>3 DEF FilesInv
  <2>2. CASE Next BY <2>2, EditsKeep, BeginsKeep, LandsKeep, MovesKeep, RestartKeeps DEF Next
  <2> QED BY <2>1, <2>2
<1> QED BY <1>1, <1>2, PTL DEF Spec

\* Type correctness.
THEOREM FilesTyped == Spec => []TypeOK
<1>1. FilesInv => TypeOK BY DEF FilesInv, FilesPart, WaitsPart, RestPart, TypeOK
<1> QED BY <1>1, FilesInvHolds, PTL

\* A registered adapter always has a sidecar, and the table and the behaviour it says.
THEOREM RegistryStaysFresh == Spec => []RegistryFresh
<1>1. FilesInv => RegistryFresh BY DEF FilesInv, FilesPart
<1> QED BY <1>1, FilesInvHolds, PTL

\* A rule that was checked was checked for the table its connector populates.
THEOREM RulesStayBound == Spec => []RulesBound
<1>1. FilesInv => RulesBound BY DEF FilesInv, FilesPart
<1> QED BY <1>1, FilesInvHolds, PTL

-----------------------------------------------------------------------------
(* One connector per table.                                                *)

\* Writing one sidecar keeps the tables apart, if it is no connector's then, or was
\* written late, or its table was free, or was already its own.
LEMMA OneWritten ==
    ASSUME OneUnlessRevived, NEW i \in Ids,
           \A j \in Ids \ {i} : side'[j] = side[j] /\ (j \in revived => j \in revived'),
           \/ ~IsConnector(i)'
           \/ i \in revived'
           \/ Occupant(side'[i].target, i) = {}
           \/ IsConnector(i) /\ side'[i].target = side[i].target /\ (i \in revived => i \in revived')
    PROVE  OneUnlessRevived'
BY DEF OneUnlessRevived, Occupant, IsConnector

\* Kind and table of every sidecar stay, and nothing is forgotten.
LEMMA OneSame ==
    ASSUME OneUnlessRevived, NEW i \in Ids, side \in [Ids -> Sidecar \cup {None}], NEW cfg,
           side[i] # None => cfg.kind = side[i].kind /\ cfg.target = side[i].target,
           side[i] # None, Write(i, cfg), revived' = revived
    PROVE  OneUnlessRevived'
<1>1. \A j \in Ids \ {i} : side'[j] = side[j] BY DEF Write
<1>2. side'[i] = cfg BY DEF Write
<1>3. ~IsConnector(i)' \/ (IsConnector(i) /\ side'[i].target = side[i].target)
    BY <1>2 DEF IsConnector
<1> QED BY <1>1, <1>3, OneWritten

\* A build, a save or a discovery that ends.
LEMMA OneRevives ==
    ASSUME OneUnlessRevived, NEW i \in Ids, side \in [Ids -> Sidecar \cup {None}], NEW cfg,
           IsConnector(i) => cfg.target = side[i].target, Write(i, cfg), Revives(i)
    PROVE  OneUnlessRevived'
<1>1. \A j \in Ids \ {i} : side'[j] = side[j] BY DEF Write
<1>2. side'[i] = cfg BY DEF Write
<1>3. \A j \in Ids : j \in revived => j \in revived' BY DEF Revives
<1>4. i \in revived' \/ (IsConnector(i) /\ side'[i].target = side[i].target)
    BY <1>2 DEF Revives
<1> QED BY <1>1, <1>3, <1>4, OneWritten

LEMMA OneEdits ==
    ASSUME FilesInv, OneUnlessRevived, NEW i \in Ids, Edits(i)
    PROVE  OneUnlessRevived'
<1>0. side \in [Ids -> Sidecar \cup {None}] BY DEF FilesInv, FilesPart
<1>1. ASSUME NEW t \in Targets, NEW acts \in BOOLEAN, Create(i, t, acts) PROVE OneUnlessRevived'
  <2>1. side'[i] = Draft(t, acts) /\ \A j \in Ids \ {i} : side'[j] = side[j]
      BY <1>0, <1>1 DEF Create, Write
  <2>2. side'[i].target = t BY <2>1 DEF Draft
  <2>3. Occupant(side'[i].target, i) = {} BY <1>1, <2>2 DEF Create
  <2> QED BY <1>1, <2>1, <2>3, OneWritten DEF Create
<1>2. ASSUME NEW r \in Choices \cup {None}, SetDateRoles(i, r) PROVE OneUnlessRevived'
  <2> DEFINE next == [side[i] EXCEPT !.roles = r]
  <2>1. side[i] \in Sidecar /\ side[i] # None
      BY <1>0, <1>2 DEF SetDateRoles, IsConnector
  <2>2. next.kind = side[i].kind /\ next.target = side[i].target BY <2>1 DEF Sidecar
  <2> QED BY <1>0, <1>2, <2>1, <2>2, OneSame DEF SetDateRoles
<1>3. ASSUME NEW t \in Targets, Repoint(i, t) PROVE OneUnlessRevived'
  <2>1. side[i] \in Sidecar BY <1>0, <1>3 DEF Repoint, IsConnector
  <2>2. side'[i].target = t /\ \A j \in Ids \ {i} : side'[j] = side[j]
      BY <1>0, <1>3, <2>1 DEF Repoint, Write, Sidecar
  <2>3. Occupant(side'[i].target, i) = {} BY <1>3, <2>2 DEF Repoint
  <2>4. \A j \in Ids \ {i} : j \in revived => j \in revived' BY <1>3 DEF Repoint
  <2> QED BY <2>2, <2>3, <2>4, OneWritten
<1>4. ASSUME NEW acts \in BOOLEAN, SetBehavior(i, acts) PROVE OneUnlessRevived'
  <2> DEFINE next == [side[i] EXCEPT !.acts = acts]
  <2>1. side[i] \in Sidecar /\ side[i] # None BY <1>0, <1>4 DEF SetBehavior
  <2>2. next.kind = side[i].kind /\ next.target = side[i].target BY <2>1 DEF Sidecar
  <2> QED BY <1>0, <1>4, <2>1, <2>2, OneSame DEF SetBehavior
<1>5. ASSUME NEW e \in Events, DeleteRule(i, e) PROVE OneUnlessRevived'
  <2> DEFINE next == [side[i] EXCEPT !.rule[e] = None]
  <2>1. side[i] \in Sidecar /\ side[i] # None BY <1>0, <1>5 DEF DeleteRule
  <2>2. next.kind = side[i].kind /\ next.target = side[i].target BY <2>1 DEF Sidecar
  <2> QED BY <1>0, <1>5, <2>1, <2>2, OneSame DEF DeleteRule
<1>6. CASE RemoveTool(i) \/ RemoveAdapter(i)
  <2>1. side'[i] = None /\ \A j \in Ids \ {i} : side'[j] = side[j]
      BY <1>0, <1>6 DEF RemoveTool, Removed, RemoveAdapter
  <2>2. \A j \in Ids \ {i} : j \in revived => j \in revived'
      BY <1>6 DEF RemoveTool, Removed, RemoveAdapter
  <2>3. ~IsConnector(i)' BY <2>1 DEF IsConnector
  <2> QED BY <2>1, <2>2, <2>3, OneWritten
<1>7. CASE Reset(i)
  <2>1. side'[i] = Simulated(side[i].target) /\ \A j \in Ids \ {i} : side'[j] = side[j]
      BY <1>0, <1>7 DEF Reset, Write
  <2>2. \A j \in Ids \ {i} : j \in revived => j \in revived' BY <1>7 DEF Reset
  <2>3. ~IsConnector(i)' BY <2>1 DEF IsConnector, Simulated, Draft
  <2> QED BY <2>1, <2>2, <2>3, OneWritten
<1> QED BY <1>1, <1>2, <1>3, <1>4, <1>5, <1>6, <1>7 DEF Edits

LEMMA OneBuilt ==
    ASSUME FilesInv, OneUnlessRevived, NEW c \in Clients, client[c].op # "none", NEW roles,
           Built(c, roles)
    PROVE  OneUnlessRevived'
<1> DEFINE i == client[c].id
           next == [Fresh(c) EXCEPT !.kind = "connector", !.phase = "built",
                                    !.roles = IF roles = None THEN @ ELSE roles]
<1>1. i \in Ids /\ Sound(Fresh(c)) BY FreshSound DEF FilesInv
<1>2. next.target = Fresh(c).target BY <1>1 DEF Sound, Sidecar
<1>3. IsConnector(i) => next.target = side[i].target BY <1>2 DEF IsConnector, Fresh
<1> QED BY <1>1, <1>3, OneRevives DEF Built, FilesInv, FilesPart

LEMMA OneLands ==
    ASSUME FilesInv, OneUnlessRevived, NEW c \in Clients, Lands(c)
    PROVE  OneUnlessRevived'
<1>0. side \in [Ids -> Sidecar \cup {None}] BY DEF FilesInv, FilesPart
<1>1. CASE UNCHANGED <<side, revived>> BY <1>1 DEF OneUnlessRevived, IsConnector
<1>2. CASE BuildCodes(c) BY <1>1, <1>2, OneBuilt DEF BuildCodes
<1>3. ASSUME NEW p \in {None, Proposed}, BuildFinishes(c, p) PROVE OneUnlessRevived'
    BY <1>3, OneBuilt DEF BuildFinishes, Answered
<1>4. CASE SaveLands(c) BY <1>4, OneBuilt DEF SaveLands, Answered
<1>5. CASE DiscoverLands(c)
  <2> DEFINE i == client[c].id
             next == [Fresh(c) EXCEPT !.sample = client[c].cfg.target,
                                      !.phase = IF @ = "draft" THEN "introspected" ELSE @]
  <2>1. i \in Ids /\ Sound(Fresh(c)) BY <1>5, FreshSound DEF FilesInv, DiscoverLands, Answered
  <2>2. next.target = Fresh(c).target BY <2>1 DEF Sound, Sidecar
  <2>3. IsConnector(i) => next.target = side[i].target BY <2>2 DEF IsConnector, Fresh
  <2> QED BY <1>0, <1>5, <2>1, <2>3, OneRevives DEF DiscoverLands
<1>6. CASE CompileLands(c)
  <2> DEFINE i == client[c].id
             next == [side[i] EXCEPT !.rule[client[c].event] = root[client[c].event]]
  <2>1. i \in Ids BY <1>6 DEF CompileLands, Answered, FilesInv, WaitsPart
  <2>2. side[i] \in Sidecar /\ side[i] # None BY <1>0, <1>6, <2>1 DEF CompileLands
  <2>3. next.kind = side[i].kind /\ next.target = side[i].target BY <2>2 DEF Sidecar
  <2> QED BY <1>0, <1>6, <2>1, <2>2, <2>3, OneSame DEF CompileLands, SaveRule
<1>7. CASE PullStamps(c)
  <2> DEFINE i == client[c].id
             next == [side[i] EXCEPT !.pulled = @ + 1]
  <2>1. i \in Ids BY <1>7 DEF PullStamps, Answered, FilesInv, WaitsPart
  <2>2. CASE side[i] = None BY <1>1, <1>7, <2>2 DEF PullStamps
  <2>3. CASE side[i] # None
    <3>1. side[i] \in Sidecar BY <1>0, <2>1, <2>3
    <3>2. next.kind = side[i].kind /\ next.target = side[i].target BY <3>1 DEF Sidecar
    <3> QED BY <1>0, <1>7, <2>1, <2>3, <3>2, OneSame DEF PullStamps
  <2> QED BY <2>2, <2>3
<1>8. CASE RemoveLands(c)
  <2>1. PICK i \in Ids : i = client[c].id BY <1>8 DEF RemoveLands, Answered, FilesInv, WaitsPart
  <2>2. side'[i] = None /\ \A j \in Ids \ {i} : side'[j] = side[j]
      BY <1>0, <1>8, <2>1 DEF RemoveLands, Removed
  <2>3. \A j \in Ids \ {i} : j \in revived => j \in revived' BY <1>8, <2>1 DEF RemoveLands, Removed
  <2>4. ~IsConnector(i)' BY <2>2 DEF IsConnector
  <2> QED BY <2>1, <2>2, <2>3, <2>4, OneWritten
<1>9. CASE ImportLands(c)
  <2> DEFINE cfg == client[c].cfg
  <2>1. PICK i \in Ids : i = client[c].id BY <1>9 DEF ImportLands, Answered, FilesInv, WaitsPart
  <2>2. side'[i] = cfg /\ \A j \in Ids \ {i} : side'[j] = side[j]
      BY <1>0, <1>9, <2>1 DEF ImportLands, Write
  <2>3. \A j \in Ids : j \in revived => j \in revived' BY <1>9, <2>1 DEF ImportLands
  <2>4. i \in revived' \/ Occupant(side'[i].target, i) = {} BY <1>9, <2>1, <2>2 DEF ImportLands
  <2> QED BY <2>1, <2>2, <2>3, <2>4, OneWritten
<1>10. CASE Fails(c) BY <1>1, <1>10 DEF Fails
<1>11. CASE AuthorLands(c)
  <2>1. PICK i \in Ids : i = client[c].id /\ client[c].cfg \in Sidecar
      BY <1>11 DEF AuthorLands, Answered, FilesInv, WaitsPart
  <2>2. Authored(client[c].cfg).kind = "authored" BY <2>1 DEF Authored, Sidecar
  <2>3. ~IsConnector(i)' /\ \A j \in Ids \ {i} : side'[j] = side[j]
      BY <1>0, <1>11, <2>1, <2>2 DEF AuthorLands, Write, IsConnector
  <2>4. \A j \in Ids \ {i} : j \in revived => j \in revived'
      BY <1>11, <2>1 DEF AuthorLands
  <2> QED BY <2>3, <2>4, OneWritten
<1> QED BY <1>2, <1>3, <1>4, <1>5, <1>6, <1>7, <1>8, <1>9, <1>10, <1>11 DEF Lands

\* Two connectors populate one table only after one was written back or imported late.
THEOREM TablesStayApart == Spec => []OneUnlessRevived
<1>1. ASSUME Init PROVE OneUnlessRevived
  <2>1. \A i, j \in Ids : side[i] # None /\ side[j] # None => i = j BY <1>1 DEF Init
  <2> QED BY <2>1 DEF OneUnlessRevived, IsConnector
<1>2. FilesInv /\ OneUnlessRevived /\ [Next]_vars => OneUnlessRevived'
  <2> SUFFICES ASSUME FilesInv, OneUnlessRevived, [Next]_vars PROVE OneUnlessRevived' OBVIOUS
  <2>1. CASE UNCHANGED <<side, revived>> BY <2>1 DEF OneUnlessRevived, IsConnector
  <2>2. ASSUME NEW i \in Ids, NEW c \in Clients, Begins(c, i) PROVE OneUnlessRevived'
      BY <2>1, <2>2 DEF Begins, BuildReads, SaveReads, AuthorReads, DiscoverReads, CompileReads,
                        PullBegins, RemoveReads, ImportReads, Waits, WaitsFor
  <2>3. CASE Restart \/ UNCHANGED vars \/ \E e \in Events, t \in Targets \cup {None} : ModelMoves(e, t)
      BY <2>1, <2>3 DEF Restart, ModelMoves, vars
  <2> QED BY <2>2, <2>3, OneEdits, OneLands DEF Next
<1> QED BY <1>1, <1>2, FilesInvHolds, PTL DEF Spec

-----------------------------------------------------------------------------
(* Progress.                                                               *)

\* What ProgressKept says of one connector in one step.
KeptAt(i) ==
    \/ Replaced(i)
    \/ /\ side'[i].pulled >= side[i].pulled \/ AuthoredOver(i)
       /\ side[i].phase = "built" => side'[i].phase = "built"

\* A write that leaves the stamps, and the phase unless it moves it up.
LEMMA WriteAdvances ==
    ASSUME side \in [Ids -> Sidecar \cup {None}], NEW i \in Ids, side[i] # None,
           NEW j \in Ids, NEW cfg, Write(j, cfg),
           j = i => /\ cfg.pulled = side[i].pulled \/ cfg.pulled = side[i].pulled + 1
                    /\ cfg.phase = side[i].phase \/ cfg.phase = "built"
                       \/ side[i].phase # "built"
    PROVE  KeptAt(i)
<1>1. side[i].pulled \in Nat BY FilesAssumption DEF Sidecar
<1>2. CASE j = i BY <1>1, <1>2 DEF Write, KeptAt
<1>3. CASE j # i BY <1>1, <1>3 DEF Write, KeptAt
<1> QED BY <1>2, <1>3

LEMMA EditsAdvance ==
    ASSUME FilesInv, NEW i \in Ids, side[i] # None, side'[i] # None, NEW j \in Ids, Edits(j)
    PROVE  KeptAt(i)
<1>0. side \in [Ids -> Sidecar \cup {None}] BY DEF FilesInv, FilesPart
<1>1. ASSUME NEW t \in Targets, NEW acts \in BOOLEAN, Create(j, t, acts) PROVE KeptAt(i)
    BY <1>0, <1>1, WriteAdvances DEF Create
<1>2. ASSUME NEW r \in Choices \cup {None}, SetDateRoles(j, r) PROVE KeptAt(i)
  <2>1. side[j] \in Sidecar BY <1>0, <1>2 DEF SetDateRoles, IsConnector
  <2> DEFINE next == [side[j] EXCEPT !.roles = r]
  <2>2. next.pulled = side[j].pulled /\ next.phase = side[j].phase BY <2>1 DEF Sidecar
  <2> QED BY <1>0, <1>2, <2>2, WriteAdvances DEF SetDateRoles
<1>3. ASSUME NEW t \in Targets, Repoint(j, t) PROVE KeptAt(i)
  <2>1. side[j] \in Sidecar BY <1>0, <1>3 DEF Repoint, IsConnector
  <2> DEFINE next == [side[j] EXCEPT !.target = t, !.rule = NoRules, !.sample = None]
  <2>2. next.pulled = side[j].pulled /\ next.phase = side[j].phase BY <2>1 DEF Sidecar
  <2> QED BY <1>0, <1>3, <2>2, WriteAdvances DEF Repoint
<1>4. ASSUME NEW acts \in BOOLEAN, SetBehavior(j, acts) PROVE KeptAt(i)
  <2>1. side[j] \in Sidecar BY <1>0, <1>4 DEF SetBehavior
  <2> DEFINE next == [side[j] EXCEPT !.acts = acts]
  <2>2. next.pulled = side[j].pulled /\ next.phase = side[j].phase BY <2>1 DEF Sidecar
  <2> QED BY <1>0, <1>4, <2>2, WriteAdvances DEF SetBehavior
<1>5. ASSUME NEW e \in Events, DeleteRule(j, e) PROVE KeptAt(i)
  <2>1. side[j] \in Sidecar BY <1>0, <1>5 DEF DeleteRule
  <2> DEFINE next == [side[j] EXCEPT !.rule[e] = None]
  <2>2. next.pulled = side[j].pulled /\ next.phase = side[j].phase BY <2>1 DEF Sidecar
  <2> QED BY <1>0, <1>5, <2>2, WriteAdvances DEF DeleteRule
<1>6. CASE RemoveTool(j) \/ RemoveAdapter(j)
  <2>1. i # j BY <1>0, <1>6 DEF RemoveTool, Removed, RemoveAdapter
  <2> QED BY <1>0, <1>6, <2>1, WriteAdvances DEF RemoveTool, Removed, RemoveAdapter, Write
<1>7. CASE Reset(j)
  <2>1. CASE i = j BY <1>0, <1>7, <2>1 DEF Reset, Write, KeptAt, Replaced
  <2>2. CASE i # j BY <1>0, <1>7, <2>2, WriteAdvances DEF Reset
  <2> QED BY <2>1, <2>2
<1> QED BY <1>1, <1>2, <1>3, <1>4, <1>5, <1>6, <1>7 DEF Edits

LEMMA BuiltAdvances ==
    ASSUME FilesInv, NEW i \in Ids, side[i] # None, NEW c \in Clients, client[c].op # "none",
           NEW roles, Built(c, roles)
    PROVE  KeptAt(i)
<1> DEFINE j == client[c].id
           next == [Fresh(c) EXCEPT !.kind = "connector", !.phase = "built",
                                    !.roles = IF roles = None THEN @ ELSE roles]
<1>1. j \in Ids /\ Sound(Fresh(c)) BY FreshSound DEF FilesInv
<1>2. next.pulled = Fresh(c).pulled /\ next.phase = "built" BY <1>1 DEF Sound, Sidecar
<1>3. j = i => next.pulled = side[i].pulled BY <1>2 DEF Fresh
<1> QED BY <1>1, <1>2, <1>3, WriteAdvances DEF Built, FilesInv, FilesPart

LEMMA LandsAdvance ==
    ASSUME FilesInv, NEW i \in Ids, side[i] # None, side'[i] # None, NEW c \in Clients, Lands(c)
    PROVE  KeptAt(i)
<1>0. side \in [Ids -> Sidecar \cup {None}] BY DEF FilesInv, FilesPart
<1>1. CASE UNCHANGED side
  <2>1. side[i].pulled \in Nat BY <1>0, FilesAssumption DEF Sidecar
  <2> QED BY <1>1, <2>1 DEF KeptAt
<1>2. CASE BuildCodes(c) BY <1>1, <1>2, BuiltAdvances DEF BuildCodes
<1>3. ASSUME NEW p \in {None, Proposed}, BuildFinishes(c, p) PROVE KeptAt(i)
    BY <1>3, BuiltAdvances DEF BuildFinishes, Answered
<1>4. CASE SaveLands(c) BY <1>4, BuiltAdvances DEF SaveLands, Answered
<1>5. CASE DiscoverLands(c)
  <2> DEFINE j == client[c].id
             next == [Fresh(c) EXCEPT !.sample = client[c].cfg.target,
                                      !.phase = IF @ = "draft" THEN "introspected" ELSE @]
  <2>1. j \in Ids /\ Sound(Fresh(c)) BY <1>5, FreshSound DEF FilesInv, DiscoverLands, Answered
  <2>2. next.pulled = Fresh(c).pulled
        /\ (next.phase = Fresh(c).phase \/ Fresh(c).phase # "built")
      BY <2>1 DEF Sound, Sidecar
  <2>3. j = i => Fresh(c) = side[i] BY DEF Fresh
  <2> QED BY <1>0, <1>5, <2>1, <2>2, <2>3, WriteAdvances DEF DiscoverLands
<1>6. CASE CompileLands(c)
  <2>1. PICK j \in Ids : j = client[c].id
      BY <1>6 DEF CompileLands, Answered, FilesInv, WaitsPart
  <2>2. side[j] \in Sidecar BY <1>0, <1>6, <2>1 DEF CompileLands
  <2> DEFINE next == [side[j] EXCEPT !.rule[client[c].event] = root[client[c].event]]
  <2>3. next.pulled = side[j].pulled /\ next.phase = side[j].phase BY <2>2 DEF Sidecar
  <2> QED BY <1>0, <1>6, <2>1, <2>3, WriteAdvances DEF CompileLands, SaveRule
<1>7. CASE PullStamps(c)
  <2>1. PICK j \in Ids : j = client[c].id
      BY <1>7 DEF PullStamps, Answered, FilesInv, WaitsPart
  <2>2. CASE side[j] = None BY <1>1, <1>7, <2>1, <2>2 DEF PullStamps
  <2>3. CASE side[j] # None
    <3>1. side[j] \in Sidecar BY <1>0, <2>3
    <3> DEFINE next == [side[j] EXCEPT !.pulled = @ + 1]
    <3>2. next.pulled = side[j].pulled + 1 /\ next.phase = side[j].phase BY <3>1 DEF Sidecar
    <3> QED BY <1>0, <1>7, <2>1, <2>3, <3>2, WriteAdvances DEF PullStamps
  <2> QED BY <2>2, <2>3
<1>8. CASE RemoveLands(c)
  <2>1. PICK j \in Ids : j = client[c].id
      BY <1>8 DEF RemoveLands, Answered, FilesInv, WaitsPart
  <2>2. i # j BY <1>0, <1>8, <2>1 DEF RemoveLands, Removed
  <2> QED BY <1>0, <1>8, <2>1, <2>2, WriteAdvances DEF RemoveLands, Removed, Write
<1>9. CASE ImportLands(c)
  <2>1. PICK j \in Ids : j = client[c].id
      BY <1>9 DEF ImportLands, Answered, FilesInv, WaitsPart
  <2>2. CASE i = j
    <3>1. client[c].op = "import" /\ client'[c] = Idle
        BY <1>9 DEF ImportLands, Answered, FilesInv, WaitsPart
    <3> QED BY <2>1, <2>2, <3>1 DEF KeptAt, Replaced
  <2>3. CASE i # j BY <1>0, <1>9, <2>1, <2>3, WriteAdvances DEF ImportLands
  <2> QED BY <2>2, <2>3
<1>10. CASE Fails(c) BY <1>1, <1>10 DEF Fails
<1>11. CASE AuthorLands(c)
  <2>1. PICK j \in Ids : j = client[c].id /\ client[c].cfg \in Sidecar
      BY <1>11 DEF AuthorLands, Answered, FilesInv, WaitsPart
  <2>2. Authored(client[c].cfg).phase = "built" BY <2>1 DEF Authored, Sidecar
  <2>3. CASE i = j
    <3>1. side'[i] = Authored(client[c].cfg) BY <1>0, <1>11, <2>1, <2>3 DEF AuthorLands, Write
    <3>2. client'[c] = Idle /\ client[c].op = "author"
        BY <1>11 DEF AuthorLands, Answered, FilesInv, WaitsPart
    <3>3. AuthoredOver(i) BY <2>1, <2>3, <3>1, <3>2 DEF AuthoredOver
    <3> QED BY <2>2, <3>1, <3>3 DEF KeptAt
  <2>4. CASE i # j BY <1>0, <1>11, <2>1, <2>4, WriteAdvances DEF AuthorLands
  <2> QED BY <2>3, <2>4
<1> QED BY <1>2, <1>3, <1>4, <1>5, <1>6, <1>7, <1>8, <1>9, <1>10, <1>11 DEF Lands

\* No overlap of builds, edits, discoveries and pulls loses a built phase, nor a pull's
\* stamp unless it is an authored body that lands.
THEOREM ProgressStays == Spec => ProgressKept
<1>1. FilesInv /\ [Next]_vars =>
        [\A i \in Ids : side[i] # None /\ side'[i] # None /\ ~Replaced(i) =>
          /\ side'[i].pulled >= side[i].pulled \/ AuthoredOver(i)
          /\ side[i].phase = "built" => side'[i].phase = "built"
        ]_vars
  <2> SUFFICES ASSUME FilesInv, Next, NEW i \in Ids, side[i] # None, side'[i] # None
               PROVE  KeptAt(i)
      BY DEF KeptAt
  <2>1. CASE UNCHANGED side
    <3>1. side[i].pulled \in Nat BY FilesAssumption DEF FilesInv, FilesPart, Sidecar
    <3> QED BY <2>1, <3>1 DEF KeptAt
  <2>2. ASSUME NEW j \in Ids, NEW c \in Clients, Begins(c, j) PROVE KeptAt(i)
      BY <2>1, <2>2 DEF Begins, BuildReads, SaveReads, AuthorReads, DiscoverReads, CompileReads,
                        PullBegins, RemoveReads, ImportReads, Waits, WaitsFor
  <2>3. CASE Restart \/ \E e \in Events, t \in Targets \cup {None} : ModelMoves(e, t)
      BY <2>1, <2>3 DEF Restart, ModelMoves
  <2> QED BY <2>2, <2>3, EditsAdvance, LandsAdvance DEF Next
<1> QED BY <1>1, FilesInvHolds, PTL DEF Spec, ProgressKept
=============================================================================
