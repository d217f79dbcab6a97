-------------------------- MODULE DeriveLogProofs --------------------------
(***************************************************************************)
(* Type correctness of DeriveLog, that no event of a row is derived twice, *)
(* and that a pull or a rebuild finds in the log what it promised, for any *)
(* model, any rows, any number of requests, passes, failures and restarts. *)
(*                                                                         *)
(* NoDuplicateDerived needs three facts beside itself: a pass that has got *)
(* anywhere is the one running pass of its workflow (RunningAt, and the    *)
(* chain's mutual exclusion), and from its log read on, every pair with a  *)
(* derived log row is one the pass has seen and does not hold in its batch *)
(* (SeenCovers).  Erasing log rows, the only thing other requests do to    *)
(* derived rows, keeps all of them.                                        *)
(*                                                                         *)
(* PromisedEventsLogged looks at the end of a pass only.  Before it, what  *)
(* a request is owed is evidenced by the rows of its workflow              *)
(* (OwedInRows), and by the time it waits, its pass covers all of it       *)
(* (CallsCover): each event owed is in a table the pass has still to read, *)
(* in what it has read, in its batch, or in the log.                       *)
(***************************************************************************)
EXTENDS DeriveLog, SerialChainProofs

RunningAt == \A p \in Passes : at[p] # "off" => phase[p] = "running"

SeenCovers ==
    \A p \in Passes : at[p] \in {"open", "emit"} =>
        /\ batch[p] \subseteq seen[p]
        /\ \A pr \in Pairs : derived[wf[p]][pr] > 0 => pr \in seen[p] /\ pr \notin batch[p]

ClientsBound == \A c \in Clients : client[c].op # "idle" => client[c].w \in Workflows

DeriveInv == /\ TypeOK
             /\ ClientsBound
             /\ ChainInv
             /\ RunningAt
             /\ SeenCovers
             /\ NoDuplicateDerived

-----------------------------------------------------------------------------

\* The create event of a row's table makes a pair with the row.
LEMMA CreatePair == \A i \in Ids : <<CreateOf[TableOf[i]], i>> \in Pairs
  BY ModelAssumption DEF Pairs

\* The initial state satisfies the invariant.
LEMMA DeriveInitInv == Init => DeriveInv
  <1> SUFFICES ASSUME Init PROVE DeriveInv
    OBVIOUS
  <1>1. ChainInv
    BY ChainInitInv DEF Init
  <1>2. TypeOK
    BY <1>1, ModelAssumption, PassesAssumption
    DEF Init, TypeOK, ChainInv, Idle, Request, Requests, NoRows
  <1>3. RunningAt /\ SeenCovers /\ NoDuplicateDerived /\ ClientsBound
    BY DEF Init, RunningAt, SeenCovers, NoDuplicateDerived, NoRows, ClientsBound, Idle, Request
  <1> QED
    BY <1>1, <1>2, <1>3 DEF DeriveInv

\* A step that leaves the passes' progress alone and adds no derived log row
\* keeps what the passes rely on.
LEMMA NonEmitting ==
    ASSUME TypeOK, RunningAt, SeenCovers, NoDuplicateDerived,
           UNCHANGED <<at, seen, batch>>,
           \A p \in Passes : at[p] # "off" => wf'[p] = wf[p] /\ phase'[p] = "running",
           \A p \in Passes : at[p] # "off" => wf[p] \in Workflows,
           derived' \in [Workflows -> [Pairs -> Nat]],
           \A w \in Workflows, pr \in Pairs : derived'[w][pr] <= derived[w][pr]
    PROVE  RunningAt' /\ SeenCovers' /\ NoDuplicateDerived'
  <1>1. RunningAt'
    BY DEF RunningAt
  <1>2. SeenCovers'
    BY DEF SeenCovers, TypeOK
  <1>3. NoDuplicateDerived'
    BY DEF NoDuplicateDerived, TypeOK
  <1> QED
    BY <1>1, <1>2, <1>3

\* A pass under way derives one of the workflows.
LEMMA PassHasWorkflow ==
    ASSUME ChainInv, RunningAt
    PROVE  \A p \in Passes : at[p] # "off" => wf[p] \in Workflows /\ p <= ncalls
  BY PassesAssumption DEF ChainInv, ChainTypeOK, Numbered, RunningAt, Passes

\* A step of a pass or of a request is a step of the chain or leaves it alone.
LEMMA DeriveStepFollowsChain ==
    ASSUME TypeOK, ClientsBound, [Next]_vars
    PROVE  [ChainNext]_chainVars
  <1>1. ASSUME NEW p \in Passes, PassStep(p) PROVE [ChainNext]_chainVars
    <2>1. CASE PassStart(p)
      BY <2>1 DEF PassStart, ChainNext
    <2>2. CASE PassReturns(p) \/ PassThrows(p)
      BY <2>2 DEF PassReturns, PassThrows, ChainNext
    <2>3. CASE PassPrune(p)
      BY <2>3 DEF PassPrune, ChainNext
    <2>4. CASE \/ \E t \in Tables, window \in SUBSET Ids : ReadTable(p, t, window)
               \/ ReadLog(p)
               \/ \E c \in Ids : OpenCycle(p, c)
               \/ AllOpened(p)
               \/ \E chunk \in SUBSET batch[p] : EmitMany(p, chunk)
      BY <2>4 DEF ReadTable, ReadLog, OpenCycle, AllOpened, EmitMany
    <2> QED
      BY <1>1, <2>1, <2>2, <2>3, <2>4 DEF PassStep
  <1>2. ASSUME NEW c \in Clients, ClientStep(c) PROVE [ChainNext]_chainVars
    <2>1. CASE PullDerive(c)
      <3>1. Call(client[c].w) /\ client[c].w \in Workflows
        BY <2>1 DEF PullDerive, ClientsBound
      <3> QED
        BY <3>1 DEF ChainNext
    <2>2. ASSUME NEW op \in {"await", "derive"}, RebuildDerive(c, op)
          PROVE  [ChainNext]_chainVars
      <3>1. Call(client[c].w) /\ client[c].w \in Workflows
        BY <2>2 DEF RebuildDerive, ClientsBound
      <3> QED
        BY <3>1 DEF ChainNext
    <2>3. ASSUME NEW w \in Workflows, DeriveBegins(c, w) PROVE [ChainNext]_chainVars
      BY <2>3 DEF DeriveBegins, ChainNext
    <2>4. ASSUME ~PullDerive(c), \A op \in {"await", "derive"} : ~RebuildDerive(c, op),
                 \A w \in Workflows : ~DeriveBegins(c, w)
          PROVE  UNCHANGED chainVars
      BY <1>2, <2>4 DEF ClientStep, ClientBegins, ClientGoesOn, PullStart, PullRow, PullThrows, DeriveReturns,
         CommandWrite, CommandEmit, CommandThrows, RebuildClear, PurgeRows, PurgeEvents,
         ResetLog, ResetRows
    <2> QED
      BY <2>1, <2>2, <2>3, <2>4
  <1>3. CASE Restart
    BY <1>3 DEF Restart, ChainNext
  <1>4. CASE UNCHANGED vars
    BY <1>4 DEF vars
  <1> QED
    BY <1>1, <1>2, <1>3, <1>4 DEF Next

-----------------------------------------------------------------------------
(* One lemma per step of a pass.                                           *)

\* The pass of a workflow that is under way is alone there.
LEMMA AloneInWorkflow ==
    ASSUME ChainInv, RunningAt, NEW p \in Passes, NEW q \in Passes,
           at[p] # "off", at[q] # "off", wf[p] = wf[q]
    PROVE  p = q
  BY ChainInvImplies DEF RunningAt, OnePassPerWorkflow

\* Starting, reading a table and pruning do not touch log, seen or batch.
LEMMA PassReadInv ==
    ASSUME DeriveInv, ChainInv', NEW p \in Passes,
           \/ PassStart(p)
           \/ \E t \in Tables, window \in SUBSET Ids : ReadTable(p, t, window)
           \/ PassPrune(p)
    PROVE  DeriveInv'
  <1>1. CASE PassStart(p)
    <2>1. TypeOK' /\ ClientsBound'
      BY <1>1 DEF DeriveInv, TypeOK, ChainInv, ClientsBound, PassStart, logVars
    <2>2. RunningAt'
      BY <1>1 DEF DeriveInv, TypeOK, ChainInv, ChainTypeOK, RunningAt, PassStart, Begin
    <2>3. SeenCovers' /\ NoDuplicateDerived'
      BY <1>1 DEF DeriveInv, TypeOK, SeenCovers, NoDuplicateDerived, PassStart, Begin, logVars
    <2> QED
      BY <2>1, <2>2, <2>3 DEF DeriveInv
  <1>2. ASSUME NEW t \in Tables, NEW window \in SUBSET Ids, ReadTable(p, t, window)
        PROVE  DeriveInv'
    <2>1. {pr \in InTable(rows[wf[p]], t) : pr[2] \in window} \subseteq Pairs
      BY <1>2, PassHasWorkflow DEF DeriveInv, TypeOK, InTable, ReadTable
    <2>2. TypeOK' /\ ClientsBound'
      BY <1>2, <2>1 DEF DeriveInv, TypeOK, ChainInv, ClientsBound, ReadTable, logVars
    <2>3. RunningAt'
      BY <1>2 DEF DeriveInv, TypeOK, RunningAt, ReadTable, chainVars
    <2>4. SeenCovers' /\ NoDuplicateDerived'
      BY <1>2 DEF DeriveInv, TypeOK, SeenCovers, NoDuplicateDerived, ReadTable, chainVars, logVars
    <2> QED
      BY <2>2, <2>3, <2>4 DEF DeriveInv
  <1>3. CASE PassPrune(p)
    <2>1. TypeOK' /\ ClientsBound'
      BY <1>3 DEF DeriveInv, TypeOK, ChainInv, ClientsBound, PassPrune, passVars, logVars
    <2>2. RunningAt' /\ SeenCovers' /\ NoDuplicateDerived'
      BY <1>3 DEF DeriveInv, TypeOK, RunningAt, SeenCovers, NoDuplicateDerived, PassPrune,
         Prune, passVars, logVars
    <2> QED
      BY <2>1, <2>2 DEF DeriveInv
  <1> QED
    BY <1>1, <1>2, <1>3

\* The log read takes every logged pair into seen and none into the batch.
LEMMA ReadLogInv ==
    ASSUME DeriveInv, ChainInv', NEW p \in Passes, ReadLog(p)
    PROVE  DeriveInv'
  <1>1. wf[p] \in Workflows
    BY PassHasWorkflow DEF DeriveInv, ReadLog
  <1>2. Logged(wf[p]) \subseteq Pairs /\ snap[p] \subseteq Pairs
    BY DEF Logged, DeriveInv, TypeOK
  <1>3. CyclesToOpen(p, snap[p] \ Logged(wf[p])) \subseteq Ids
    BY DEF CyclesToOpen
  <1>4. TypeOK' /\ ClientsBound'
    BY <1>2, <1>3 DEF DeriveInv, TypeOK, ChainInv, ClientsBound, ReadLog, logVars
  <1>5. RunningAt' /\ NoDuplicateDerived'
    BY DEF DeriveInv, TypeOK, RunningAt, NoDuplicateDerived, ReadLog, chainVars, logVars
  <1>6. \A pr \in Pairs : derived[wf[p]][pr] > 0 => pr \in Logged(wf[p])
    BY <1>1 DEF Logged, DeriveInv, TypeOK
  <1>7. SeenCovers'
    <2> SUFFICES ASSUME NEW q \in Passes, at'[q] \in {"open", "emit"}
                 PROVE  /\ batch'[q] \subseteq seen'[q]
                        /\ \A pr \in Pairs : derived'[wf'[q]][pr] > 0
                               => pr \in seen'[q] /\ pr \notin batch'[q]
      BY DEF SeenCovers
    <2>1. CASE q = p
      BY <2>1, <1>2, <1>6 DEF DeriveInv, TypeOK, ReadLog, chainVars, logVars
    <2>2. CASE q # p
      BY <2>2 DEF DeriveInv, TypeOK, SeenCovers, ReadLog, chainVars, logVars
    <2> QED
      BY <2>1, <2>2
  <1> QED
    BY <1>4, <1>5, <1>7 DEF DeriveInv

\* Opening a cycle row batches its create event only if it was not seen.
LEMMA OpenCycleInv ==
    ASSUME DeriveInv, ChainInv', NEW p \in Passes, NEW c \in Ids, OpenCycle(p, c)
    PROVE  DeriveInv'
  <1> DEFINE create == <<CreateOf[TableOf[c]], c>>
  <1>1. create \in Pairs /\ wf[p] \in Workflows
    BY CreatePair, PassHasWorkflow DEF DeriveInv, OpenCycle
  <1>2. rows' \in [Workflows -> SUBSET Pairs]
    <2>1. PICK i \in Ids : rows' = [rows EXCEPT ![wf[p]] =
                 @ \cup {pr \in PairsOf(c) : <<pr[1], i>> \in snap[p]}]
      BY DEF OpenCycle
    <2>2. {pr \in PairsOf(c) : <<pr[1], i>> \in snap[p]} \subseteq Pairs
      BY DEF PairsOf
    <2> QED
      BY <2>1, <2>2 DEF DeriveInv, TypeOK
  <1>3. /\ opens' = [opens EXCEPT ![p] = @ \ {c}]
        /\ batch' = [batch EXCEPT ![p] = IF create \in seen[p] THEN @ ELSE @ \cup {create}]
        /\ seen' = [seen EXCEPT ![p] = @ \cup {create}]
        /\ UNCHANGED <<chainVars, logVars, at, toRead, snap, client, owed, ops>>
        /\ at[p] = "open"
    BY DEF OpenCycle
  <1> HIDE DEF create
  <1>4. TypeOK' /\ ClientsBound'
    BY <1>1, <1>2, <1>3 DEF DeriveInv, TypeOK, ChainInv, ClientsBound, logVars
  <1>5. RunningAt' /\ NoDuplicateDerived'
    BY <1>3 DEF DeriveInv, RunningAt, NoDuplicateDerived, chainVars, logVars
  <1>6. SeenCovers'
    <2> SUFFICES ASSUME NEW q \in Passes, at'[q] \in {"open", "emit"}
                 PROVE  /\ batch'[q] \subseteq seen'[q]
                        /\ \A pr \in Pairs : derived'[wf'[q]][pr] > 0
                               => pr \in seen'[q] /\ pr \notin batch'[q]
      BY DEF SeenCovers
    <2>1. CASE q = p
      BY <2>1, <1>3 DEF DeriveInv, TypeOK, SeenCovers, chainVars, logVars
    <2>2. CASE q # p
      BY <2>2, <1>3 DEF DeriveInv, TypeOK, SeenCovers, chainVars, logVars
    <2> QED
      BY <2>1, <2>2
  <1> QED
    BY <1>4, <1>5, <1>6 DEF DeriveInv

\* A chunk comes out of the batch, so none of its pairs had a derived log row,
\* and no other pass of the workflow is under way.
LEMMA EmitManyInv ==
    ASSUME DeriveInv, ChainInv', NEW p \in Passes, NEW chunk \in SUBSET batch[p],
           EmitMany(p, chunk)
    PROVE  DeriveInv'
  <1>1. wf[p] \in Workflows /\ at[p] = "emit" /\ at[p] # "off"
    BY PassHasWorkflow DEF DeriveInv, EmitMany
  <1>2. chunk \subseteq Pairs
    BY DEF DeriveInv, TypeOK
  <1>3. /\ \A w \in Workflows, pr \in Pairs :
              derived'[w][pr] = IF w = wf[p] /\ pr \in chunk THEN derived[w][pr] + 1
                                ELSE derived[w][pr]
        /\ derived' \in [Workflows -> [Pairs -> Nat]]
    BY <1>1, <1>2 DEF DeriveInv, TypeOK, EmitMany
  <1>4. TypeOK' /\ ClientsBound'
    BY <1>3 DEF DeriveInv, TypeOK, ChainInv, ClientsBound, EmitMany
  <1>5. RunningAt'
    BY DEF DeriveInv, RunningAt, EmitMany, chainVars
  <1>6. \A pr \in chunk : derived[wf[p]][pr] = 0
    BY <1>1, <1>2 DEF DeriveInv, TypeOK, SeenCovers
  <1>7. NoDuplicateDerived'
    <2> SUFFICES ASSUME NEW w \in Workflows, NEW pr \in Pairs
                 PROVE  derived'[w][pr] <= 1
      BY DEF NoDuplicateDerived
    <2>1. derived[w][pr] \in Nat /\ derived[w][pr] <= 1
      BY DEF DeriveInv, TypeOK, NoDuplicateDerived
    <2> QED
      BY <2>1, <1>3, <1>6
  <1>8. SeenCovers'
    <2> SUFFICES ASSUME NEW q \in Passes, at'[q] \in {"open", "emit"}
                 PROVE  /\ batch'[q] \subseteq seen'[q]
                        /\ \A pr \in Pairs : derived'[wf'[q]][pr] > 0
                               => pr \in seen'[q] /\ pr \notin batch'[q]
      BY DEF SeenCovers
    <2>1. at[q] \in {"open", "emit"} /\ wf'[q] = wf[q] /\ seen'[q] = seen[q]
      BY DEF EmitMany, chainVars
    <2>2. CASE q = p
      BY <2>1, <2>2, <1>1, <1>2, <1>3 DEF DeriveInv, TypeOK, SeenCovers, EmitMany
    <2>3. CASE q # p
      <3>1. wf[q] # wf[p] /\ wf[q] \in Workflows
        BY <1>1, <2>1, <2>3, AloneInWorkflow, PassHasWorkflow DEF DeriveInv
      <3> QED
        BY <2>1, <2>3, <3>1, <1>3 DEF DeriveInv, TypeOK, SeenCovers, EmitMany
    <2> QED
      BY <2>2, <2>3
  <1> QED
    BY <1>4, <1>5, <1>7, <1>8 DEF DeriveInv

\* A pass that is over holds nothing.
LEMMA PassOverInv ==
    ASSUME DeriveInv, ChainInv', NEW p \in Passes,
           AllOpened(p) \/ PassReturns(p) \/ PassThrows(p)
    PROVE  DeriveInv'
  <1>1. CASE AllOpened(p)
    <2>1. TypeOK' /\ ClientsBound'
      BY <1>1 DEF DeriveInv, TypeOK, ChainInv, ClientsBound, AllOpened, logVars
    <2>2. RunningAt' /\ SeenCovers' /\ NoDuplicateDerived'
      BY <1>1 DEF DeriveInv, TypeOK, RunningAt, SeenCovers, NoDuplicateDerived, AllOpened,
         chainVars, logVars
    <2> QED
      BY <2>1, <2>2 DEF DeriveInv
  <1>2. CASE PassReturns(p) \/ PassThrows(p)
    <2>1. PassOver(p) /\ UNCHANGED <<rows, logVars, client, owed, ops>>
      BY <1>2 DEF PassReturns, PassThrows
    <2>2. TypeOK' /\ ClientsBound'
      BY <2>1 DEF DeriveInv, TypeOK, ChainInv, ClientsBound, PassOver, logVars
    <2>3. wf' = wf /\ \A q \in Passes : q # p => phase'[q] = phase[q]
      BY <1>2 DEF PassReturns, PassThrows, Settle, DeriveInv, ChainInv, ChainTypeOK
    <2>4. RunningAt' /\ SeenCovers' /\ NoDuplicateDerived'
      BY <2>1, <2>3 DEF DeriveInv, TypeOK, RunningAt, SeenCovers, NoDuplicateDerived, PassOver,
         logVars
    <2> QED
      BY <2>2, <2>4 DEF DeriveInv
  <1> QED
    BY <1>1, <1>2

-----------------------------------------------------------------------------
(* Steps of requests.                                                      *)

\* What a request's step has to keep: types, and that it derives nothing.
LEMMA RequestStep ==
    ASSUME DeriveInv, ChainInv', UNCHANGED passVars,
           \A p \in Passes : at[p] # "off" => wf'[p] = wf[p] /\ phase'[p] = phase[p],
           rows' \in [Workflows -> SUBSET Pairs],
           derived' \in [Workflows -> [Pairs -> Nat]],
           \A w \in Workflows, pr \in Pairs : derived'[w][pr] <= derived[w][pr],
           commanded' \in [Workflows -> [Pairs -> Nat]],
           client' \in [Clients -> Requests], ClientsBound',
           owed' \in [Clients -> SUBSET Pairs],
           ops' \in 0..MaxOps
    PROVE  DeriveInv'
  <1>1. TypeOK'
    BY DEF DeriveInv, ChainInv, TypeOK, passVars
  <1>2. RunningAt' /\ SeenCovers' /\ NoDuplicateDerived'
    BY NonEmitting, PassHasWorkflow DEF DeriveInv, passVars, RunningAt
  <1> QED
    BY <1>1, <1>2 DEF DeriveInv

\* Taking pairs away from what is owed keeps the type.
LEMMA DisownedType ==
    ASSUME TypeOK, NEW w, NEW S
    PROVE  Disowned(w, S) \in [Clients -> SUBSET Pairs]
  BY DEF TypeOK, Disowned

\* Writing a row keeps the evidence within the model's pairs.
LEMMA WriteRowType ==
    ASSUME TypeOK, NEW w \in Workflows, NEW i \in Ids, NEW E \in RowShapes(i),
           WriteRow(w, i, E)
    PROVE  rows' \in [Workflows -> SUBSET Pairs] /\ E \subseteq Pairs
  <1>1. E \subseteq Pairs
    BY DEF RowShapes, PairsOf
  <1> QED
    BY <1>1 DEF TypeOK, WriteRow

\* Erasing log rows only lowers the counts.
LEMMA EraseLogLess ==
    ASSUME TypeOK, NEW w \in Workflows, NEW S, EraseLog(w, S)
    PROVE  /\ derived' \in [Workflows -> [Pairs -> Nat]]
           /\ commanded' \in [Workflows -> [Pairs -> Nat]]
           /\ \A v \in Workflows, pr \in Pairs : derived'[v][pr] <= derived[v][pr]
  BY DEF TypeOK, EraseLog, Without

\* A request that begins is well formed.
LEMMA BegunType ==
    ASSUME DeriveInv, NEW c \in Clients, NEW st \in Requests, st.w \in Workflows, Begun(c, st)
    PROVE  client' \in [Clients -> Requests] /\ ClientsBound' /\ ops' \in 0..MaxOps
  BY ModelAssumption DEF DeriveInv, TypeOK, Begun, ClientsBound

\* A request that ends is idle and owes nothing.
LEMMA FinishType ==
    ASSUME DeriveInv, NEW c \in Clients, client' = [client EXCEPT ![c] = Idle]
    PROVE  client' \in [Clients -> Requests] /\ ClientsBound'
  <1>1. Idle \in Requests /\ Idle.op = "idle"
    BY PassesAssumption DEF Idle, Request, Requests
  <1> QED
    BY <1>1 DEF DeriveInv, TypeOK, ClientsBound

\* A pull lands rows, calls a pass, and ends.
LEMMA PullInv ==
    ASSUME DeriveInv, ChainInv', NEW c \in Clients,
           \/ \E w \in Workflows, t \in Tables, source \in SUBSET Ids :
                  PullStart(c, w, t, source)
           \/ \E i \in Ids : \E E \in RowShapes(i) : PullRow(c, i, E)
           \/ PullThrows(c)
           \/ DeriveReturns(c)
    PROVE  DeriveInv'
  <1> USE DEF chainVars, logVars
  <1>1. ASSUME NEW w \in Workflows, NEW t \in Tables, NEW source \in SUBSET Ids,
               PullStart(c, w, t, source)
        PROVE  DeriveInv'
    <2> DEFINE st == Request("pull", w, {t}, source, {}, 0)
    <2>1. st \in Requests /\ st.w \in Workflows
      BY PassesAssumption DEF Request, Requests
    <2>2. Begun(c, st) /\ UNCHANGED <<chainVars, rows, logVars, passVars, owed>>
      BY <1>1 DEF PullStart
    <2> HIDE DEF st
    <2>3. client' \in [Clients -> Requests] /\ ClientsBound' /\ ops' \in 0..MaxOps
      BY <2>1, <2>2, BegunType
    <2> QED
      BY <2>2, <2>3, RequestStep DEF DeriveInv, TypeOK
  <1>2. ASSUME NEW i \in Ids, NEW E \in RowShapes(i), PullRow(c, i, E)
        PROVE  DeriveInv'
    <2>1. client[c].w \in Workflows /\ client[c] \in Requests
      BY <1>2 DEF PullRow, DeriveInv, ClientsBound, TypeOK
    <2>2. rows' \in [Workflows -> SUBSET Pairs] /\ E \subseteq Pairs
      BY <1>2, <2>1, WriteRowType DEF PullRow, DeriveInv
    <2>3. Disowned(client[c].w, PairsOf(i)) \in [Clients -> SUBSET Pairs]
      BY DisownedType DEF DeriveInv
    <2>4. owed' \in [Clients -> SUBSET Pairs]
      BY <1>2, <2>2, <2>3 DEF PullRow
    <2>5. client' \in [Clients -> Requests] /\ ClientsBound'
      <3> DEFINE st == Request("pull", client[c].w, client[c].tables,
                               client[c].left \ {i}, {}, 0)
      <3>1. st \in Requests /\ st.w \in Workflows
        BY <2>1, PassesAssumption DEF Request, Requests
      <3>2. client' = [client EXCEPT ![c] = st]
        BY <1>2 DEF PullRow, DeriveInv, TypeOK
      <3> HIDE DEF st
      <3> QED
        BY <3>1, <3>2 DEF DeriveInv, TypeOK, ClientsBound
    <2> QED
      BY <1>2, <2>2, <2>4, <2>5, RequestStep DEF DeriveInv, TypeOK, PullRow
  <1>3. CASE PullThrows(c) \/ DeriveReturns(c)
    <2>1. Finish(c) /\ UNCHANGED <<chainVars, rows, logVars, passVars, ops>>
      BY <1>3 DEF PullThrows, DeriveReturns
    <2>2. client' \in [Clients -> Requests] /\ ClientsBound'
      BY <2>1, FinishType DEF Finish
    <2> QED
      BY <2>1, <2>2, RequestStep DEF DeriveInv, TypeOK, Finish
  <1> QED
    BY <1>1, <1>2, <1>3

\* A call of deriveFromData adds a waiting pass.
LEMMA DeriveCallInv ==
    ASSUME DeriveInv, ChainInv', NEW c \in Clients,
           \/ PullDerive(c)
           \/ \E op \in {"await", "derive"} : RebuildDerive(c, op)
           \/ \E w \in Workflows : DeriveBegins(c, w)
    PROVE  DeriveInv'
  <1>1. PICK st : /\ Call(st.w) /\ st.w \in Workflows /\ client' = [client EXCEPT ![c] = st]
                  /\ \E op \in {"await", "derive"}, w \in Workflows, tables \in SUBSET Tables :
                         st = Request(op, w, tables, {}, {}, ncalls + 1)
                  /\ UNCHANGED <<rows, logVars, passVars>>
                  /\ owed' \in [Clients -> SUBSET Pairs]
                  /\ ops' \in 0..MaxOps
    <2>1. CASE PullDerive(c) \/ \E op \in {"await", "derive"} : RebuildDerive(c, op)
      <3>1. client[c].w \in Workflows /\ client[c] \in Requests
        BY <2>1 DEF PullDerive, RebuildDerive, DeriveInv, ClientsBound, TypeOK
      <3>2. PICK op \in {"await", "derive"} :
                /\ client' = [client EXCEPT ![c] =
                       Request(op, client[c].w, client[c].tables, {}, {}, ncalls + 1)]
                /\ Call(client[c].w)
                /\ UNCHANGED <<rows, logVars, passVars, ops>>
                /\ owed' \in [Clients -> SUBSET Pairs]
        BY <2>1 DEF PullDerive, RebuildDerive, DeriveInv, TypeOK
      <3> DEFINE st == Request(op, client[c].w, client[c].tables, {}, {}, ncalls + 1)
      <3>3. st.w = client[c].w /\ client[c].tables \in SUBSET Tables
        BY <3>1 DEF Request, Requests
      <3> QED
        BY <3>1, <3>2, <3>3 DEF DeriveInv, TypeOK
    <2>2. ASSUME NEW w \in Workflows, DeriveBegins(c, w)
          PROVE  \E st : /\ Call(st.w) /\ st.w \in Workflows
                         /\ client' = [client EXCEPT ![c] = st]
                         /\ \E op \in {"await", "derive"}, u \in Workflows,
                               tables \in SUBSET Tables :
                                st = Request(op, u, tables, {}, {}, ncalls + 1)
                         /\ UNCHANGED <<rows, logVars, passVars>>
                         /\ owed' \in [Clients -> SUBSET Pairs]
                         /\ ops' \in 0..MaxOps
      <3> DEFINE st == Request("derive", w, {}, {}, {}, ncalls + 1)
      <3>1. st.w = w
        BY DEF Request
      <3>2. /\ Begun(c, st) /\ Call(w) /\ UNCHANGED <<rows, logVars, passVars, owed>>
        BY <2>2 DEF DeriveBegins
      <3>3. ops' \in 0..MaxOps
        BY <3>2, ModelAssumption DEF Begun, DeriveInv, TypeOK
      <3> QED
        BY <3>1, <3>2, <3>3 DEF Begun, DeriveInv, TypeOK
    <2> QED
      BY <2>1, <2>2
  <1>2. st \in Requests
    <2>1. ncalls + 1 \in 0..MaxPasses
      BY <1>1, PassesAssumption DEF Call, DeriveInv, TypeOK, ChainTypeOK
    <2> QED
      BY <1>1, <2>1 DEF Request, Requests
  <1>3. client' \in [Clients -> Requests] /\ ClientsBound'
    BY <1>1, <1>2 DEF DeriveInv, TypeOK, ClientsBound
  <1>4. \A p \in Passes : at[p] # "off" => wf'[p] = wf[p] /\ phase'[p] = phase[p]
    <2>1. \A p \in Passes : at[p] # "off" => p <= ncalls
      BY PassHasWorkflow DEF DeriveInv
    <2> QED
      BY <1>1, <2>1, PassesAssumption DEF Call, DeriveInv, TypeOK, ChainTypeOK, Passes
  <1> QED
    BY <1>1, <1>3, <1>4, RequestStep DEF DeriveInv, TypeOK, logVars

\* A command writes a row, then its event.
LEMMA CommandInv ==
    ASSUME DeriveInv, ChainInv', NEW c \in Clients,
           \/ \E w \in Workflows, pr \in Pairs :
                  \E E \in RowShapes(pr[2]) : CommandWrite(c, w, pr, E)
           \/ CommandEmit(c)
           \/ CommandThrows(c)
    PROVE  DeriveInv'
  <1> USE DEF chainVars, logVars
  <1>1. ASSUME NEW w \in Workflows, NEW pr \in Pairs, NEW E \in RowShapes(pr[2]),
               CommandWrite(c, w, pr, E)
        PROVE  DeriveInv'
    <2> DEFINE st == Request("command", w, {}, {}, {pr}, 0)
    <2>1. st \in Requests /\ st.w \in Workflows
      BY PassesAssumption DEF Request, Requests
    <2>2. Begun(c, st) /\ WriteRow(w, pr[2], E) /\ owed' = Disowned(w, PairsOf(pr[2]))
      BY <1>1 DEF CommandWrite
    <2> HIDE DEF st
    <2>3. client' \in [Clients -> Requests] /\ ClientsBound' /\ ops' \in 0..MaxOps
      BY <2>1, <2>2, BegunType
    <2>4. pr[2] \in Ids
      BY DEF Pairs
    <2>5. rows' \in [Workflows -> SUBSET Pairs]
      BY <2>2, <2>4, WriteRowType DEF DeriveInv
    <2>6. owed' \in [Clients -> SUBSET Pairs]
      BY <2>2, DisownedType DEF DeriveInv
    <2> QED
      BY <1>1, <2>3, <2>5, <2>6, RequestStep DEF DeriveInv, TypeOK, CommandWrite
  <1>2. CASE CommandEmit(c)
    <2>1. client[c].w \in Workflows
      BY <1>2 DEF CommandEmit, DeriveInv, ClientsBound
    <2>2. commanded' \in [Workflows -> [Pairs -> Nat]]
      BY <1>2, <2>1 DEF CommandEmit, DeriveInv, TypeOK
    <2>3. client' \in [Clients -> Requests] /\ ClientsBound'
      BY <1>2, FinishType DEF CommandEmit, Finish
    <2> QED
      BY <1>2, <2>2, <2>3, RequestStep DEF DeriveInv, TypeOK, CommandEmit, Finish
  <1>3. CASE CommandThrows(c)
    <2>1. client' \in [Clients -> Requests] /\ ClientsBound'
      BY <1>3, FinishType DEF CommandThrows, Finish
    <2> QED
      BY <1>3, <2>1, RequestStep DEF DeriveInv, TypeOK, CommandThrows, Finish
  <1> QED
    BY <1>1, <1>2, <1>3

\* Rebuild, purge and reset erase rows and log rows and derive nothing.
LEMMA EraserInv ==
    ASSUME DeriveInv, ChainInv', NEW c \in Clients,
           \/ \E w \in Workflows : RebuildClear(c, w)
           \/ \E w \in Workflows, t \in Tables : PurgeRows(c, w, t)
           \/ PurgeEvents(c)
           \/ \E w \in Workflows : ResetLog(c, w)
           \/ \E t \in Tables : ResetRows(c, t)
    PROVE  DeriveInv'
  <1> USE DEF chainVars, logVars
  <1>1. ASSUME NEW w \in Workflows, RebuildClear(c, w)
        PROVE  DeriveInv'
    <2> DEFINE st == Request("rebuild", w, {}, {}, {}, 0)
    <2>1. st \in Requests /\ st.w \in Workflows
      BY PassesAssumption DEF Request, Requests
    <2>2. Begun(c, st) /\ EraseLog(w, Pairs)
      BY <1>1 DEF RebuildClear
    <2> HIDE DEF st
    <2>3. client' \in [Clients -> Requests] /\ ClientsBound' /\ ops' \in 0..MaxOps
      BY <2>1, <2>2, BegunType
    <2>4. Disowned(w, Pairs) \in [Clients -> SUBSET Pairs]
      BY DisownedType DEF DeriveInv
    <2>5. owed' \in [Clients -> SUBSET Pairs]
      BY <1>1, <2>4 DEF RebuildClear, DeriveInv, TypeOK
    <2> QED
      BY <1>1, <2>2, <2>3, <2>5, EraseLogLess, RequestStep DEF DeriveInv, TypeOK, RebuildClear
  <1>2. ASSUME NEW w \in Workflows, NEW t \in Tables, PurgeRows(c, w, t)
        PROVE  DeriveInv'
    <2> DEFINE st == Request("purge", w, {t}, {}, {}, 0)
    <2>1. st \in Requests /\ st.w \in Workflows
      BY PassesAssumption DEF Request, Requests
    <2>2. Begun(c, st) /\ owed' = Disowned(w, InTable(Pairs, t))
      BY <1>2 DEF PurgeRows
    <2> HIDE DEF st
    <2>3. client' \in [Clients -> Requests] /\ ClientsBound' /\ ops' \in 0..MaxOps
      BY <2>1, <2>2, BegunType
    <2>4. owed' \in [Clients -> SUBSET Pairs]
      BY <2>2, DisownedType DEF DeriveInv
    <2>5. rows' \in [Workflows -> SUBSET Pairs]
      BY <1>2 DEF PurgeRows, DeriveInv, TypeOK
    <2> QED
      BY <1>2, <2>3, <2>4, <2>5, RequestStep DEF DeriveInv, TypeOK, PurgeRows
  <1>3. CASE PurgeEvents(c)
    <2>1. client[c].w \in Workflows
      BY <1>3 DEF PurgeEvents, DeriveInv, ClientsBound
    <2>2. PICK t \in client[c].tables : /\ EraseLog(client[c].w, InTable(Pairs, t))
                                        /\ owed' = Disowned(client[c].w, InTable(Pairs, t))
      BY <1>3 DEF PurgeEvents
    <2>3. client' \in [Clients -> Requests] /\ ClientsBound'
      BY <1>3, FinishType DEF PurgeEvents
    <2>4. owed' \in [Clients -> SUBSET Pairs]
      BY <2>2, DisownedType DEF DeriveInv
    <2>5. /\ derived' \in [Workflows -> [Pairs -> Nat]]
          /\ commanded' \in [Workflows -> [Pairs -> Nat]]
          /\ \A v \in Workflows, pr \in Pairs : derived'[v][pr] <= derived[v][pr]
      BY <2>1, <2>2, EraseLogLess DEF DeriveInv
    <2> QED
      BY <1>3, <2>3, <2>4, <2>5, RequestStep DEF DeriveInv, TypeOK, PurgeEvents
  <1>4. ASSUME NEW w \in Workflows, ResetLog(c, w)
        PROVE  DeriveInv'
    <2> DEFINE st == Request("reset", w, Tables, {}, {}, 0)
    <2>1. st \in Requests /\ st.w \in Workflows
      BY PassesAssumption DEF Request, Requests
    <2>2. Begun(c, st) /\ EraseLog(w, Pairs) /\ owed' = Disowned(w, Pairs)
      BY <1>4 DEF ResetLog
    <2> HIDE DEF st
    <2>3. client' \in [Clients -> Requests] /\ ClientsBound' /\ ops' \in 0..MaxOps
      BY <2>1, <2>2, BegunType
    <2>4. owed' \in [Clients -> SUBSET Pairs]
      BY <2>2, DisownedType DEF DeriveInv
    <2> QED
      BY <1>4, <2>2, <2>3, <2>4, EraseLogLess, RequestStep DEF DeriveInv, TypeOK, ResetLog
  <1>5. ASSUME NEW t \in Tables, ResetRows(c, t)
        PROVE  DeriveInv'
    <2>1. client[c].w \in Workflows /\ client[c] \in Requests
      BY <1>5 DEF ResetRows, DeriveInv, ClientsBound, TypeOK
    <2>2. client' \in [Clients -> Requests] /\ ClientsBound'
      <3>1. CASE client[c].tables = {t}
        <4>1. client' = [client EXCEPT ![c] = Idle]
          BY <1>5, <3>1 DEF ResetRows, DeriveInv, TypeOK
        <4> QED
          BY <4>1, FinishType
      <3>2. CASE client[c].tables # {t}
        <4> DEFINE st == Request("reset", client[c].w, client[c].tables \ {t}, {}, {}, 0)
        <4>1. st \in Requests /\ st.w \in Workflows
          BY <2>1, PassesAssumption DEF Request, Requests
        <4>2. client' = [client EXCEPT ![c] = st]
          BY <1>5, <3>2 DEF ResetRows, DeriveInv, TypeOK
        <4> HIDE DEF st
        <4> QED
          BY <4>1, <4>2 DEF DeriveInv, TypeOK, ClientsBound
      <3> QED
        BY <3>1, <3>2
    <2>3. owed' \in [Clients -> SUBSET Pairs]
      BY <1>5, DisownedType DEF ResetRows, DeriveInv
    <2>4. rows' \in [Workflows -> SUBSET Pairs]
      BY <1>5, <2>1 DEF ResetRows, DeriveInv, TypeOK
    <2> QED
      BY <1>5, <2>2, <2>3, <2>4, RequestStep DEF DeriveInv, TypeOK, ResetRows
  <1> QED
    BY <1>1, <1>2, <1>3, <1>4, <1>5

\* After a restart no pass is under way.
LEMMA DeriveRestartInv ==
    ASSUME DeriveInv, ChainInv', Restart
    PROVE  DeriveInv'
  <1>1. TypeOK' /\ ClientsBound'
    BY ModelAssumption, PassesAssumption DEF DeriveInv, ChainInv, TypeOK, ClientsBound, Restart,
       Idle, Request, Requests, logVars
  <1>2. RunningAt' /\ SeenCovers' /\ NoDuplicateDerived'
    BY DEF DeriveInv, RunningAt, SeenCovers, NoDuplicateDerived, Restart, logVars
  <1> QED
    BY <1>1, <1>2 DEF DeriveInv

\* Every step preserves the invariant.
LEMMA DeriveStepInv == DeriveInv /\ [Next]_vars => DeriveInv'
  <1> SUFFICES ASSUME DeriveInv, [Next]_vars PROVE DeriveInv'
    OBVIOUS
  <1>1. ChainInv'
    BY DeriveStepFollowsChain, ChainStepInv DEF DeriveInv
  <1>2. ASSUME NEW p \in Passes, PassStep(p) PROVE DeriveInv'
    BY <1>1, <1>2, PassReadInv, ReadLogInv, OpenCycleInv, EmitManyInv, PassOverInv DEF PassStep
  <1>3. ASSUME NEW c \in Clients, ClientStep(c) PROVE DeriveInv'
    BY <1>1, <1>3, PullInv, DeriveCallInv, CommandInv, EraserInv DEF ClientStep,
       ClientBegins, ClientGoesOn
  <1>4. CASE Restart
    BY <1>1, <1>4, DeriveRestartInv
  <1>5. CASE UNCHANGED vars
    <2>1. /\ UNCHANGED <<passVars, logVars, rows, client, owed, ops>>
          /\ UNCHANGED <<wf, phase>>
      BY <1>5 DEF vars, chainVars
    <2> QED
      BY <1>1, <2>1, RequestStep DEF DeriveInv, TypeOK, ClientsBound, logVars
  <1> QED
    BY <1>2, <1>3, <1>4, <1>5 DEF Next

-----------------------------------------------------------------------------

\* The invariant holds in every behaviour of rows, log, passes and requests.
THEOREM DeriveInvariant == Spec => []DeriveInv
  <1>1. Init => DeriveInv
    BY DeriveInitInv
  <1>2. DeriveInv /\ [Next]_vars => DeriveInv'
    BY DeriveStepInv
  <1> QED
    BY <1>1, <1>2, PTL DEF Spec

\* Rows, log, passes and requests always have their types.
THEOREM DeriveTypeCorrect == Spec => []TypeOK
  <1>1. DeriveInv => TypeOK
    BY DEF DeriveInv
  <1> QED
    BY <1>1, DeriveInvariant, PTL

\* No event of a row is derived twice, whatever runs beside the passes.
THEOREM NeverDerivedTwice == Spec => []NoDuplicateDerived
  <1>1. DeriveInv => NoDuplicateDerived
    BY DEF DeriveInv
  <1> QED
    BY <1>1, DeriveInvariant, PTL

-----------------------------------------------------------------------------
(* What a pull or a rebuild is owed.                                       *)

\* What a request is owed is evidence that its workflow's rows still show; only
\* requests that derive are owed anything.
Deriving == {"pull", "rebuild", "await"}

OwedInRows ==
    \A c \in Clients :
        IF client[c].op \in Deriving THEN owed[c] \subseteq rows[client[c].w] ELSE owed[c] = {}

\* Wherever pass p has got, it has not missed a pair of S: it will read the
\* table, or has read the row, or will emit the event, unless the log has it.
Covers(p, S) ==
    /\ at[p] = "tables" => \A pr \in S : TableOf[pr[2]] \in toRead[p] \/ pr \in snap[p]
    /\ at[p] = "log" => S \subseteq snap[p]
    /\ at[p] \in {"open", "emit"} => S \subseteq batch[p] \cup Logged(wf[p])
    /\ phase[p] = "ok" => S \subseteq Logged(wf[p])

\* The pass a request waits for is one of its workflow that covers what the
\* request is owed.
CallsCover ==
    \A c \in Clients : client[c].op = "await" =>
        /\ client[c].pass \in 1..ncalls
        /\ wf[client[c].pass] = client[c].w
        /\ Covers(client[c].pass, owed[c])

PromiseInv == DeriveInv /\ OwedInRows /\ CallsCover

\* A step of pass p takes nothing from rows and log and leaves requests and the
\* other passes alone; what p covers, it must go on covering if a pull or a rebuild
\* waits for it.
LEMMA PassKeepsPromises ==
    ASSUME PromiseInv, NEW p \in Passes,
           UNCHANGED <<client, owed, ncalls, wf>>,
           \A w \in Workflows : rows[w] \subseteq rows'[w] /\ Logged(w) \subseteq Logged(w)',
           \A q \in Passes : q # p => /\ at'[q] = at[q] /\ toRead'[q] = toRead[q]
                                      /\ snap'[q] = snap[q] /\ batch'[q] = batch[q]
                                      /\ phase'[q] = phase[q],
           wf[p] \in Workflows,
           Awaited(p) => \A S \in SUBSET rows[wf[p]] : Covers(p, S) => Covers(p, S)'
    PROVE  OwedInRows' /\ CallsCover'
  <1>1. OwedInRows'
    BY DEF PromiseInv, DeriveInv, ClientsBound, OwedInRows, Deriving
  <1>2. CallsCover'
    <2> SUFFICES ASSUME NEW c \in Clients, client'[c].op = "await"
                 PROVE  /\ client'[c].pass \in 1..ncalls'
                        /\ wf'[client'[c].pass] = client'[c].w
                        /\ Covers(client[c].pass, owed[c])'
      BY DEF CallsCover
    <2>1. PICK q : q = client[c].pass
      OBVIOUS
    <2>2. PICK S : S = owed[c]
      OBVIOUS
    <2>3. /\ q \in 1..ncalls /\ wf[q] = client[c].w /\ Covers(q, S)
          /\ client[c].w \in Workflows /\ S \subseteq rows[client[c].w]
      BY <2>1, <2>2 DEF PromiseInv, DeriveInv, ClientsBound, OwedInRows, CallsCover, Deriving
    <2>4. q \in Passes
      BY <2>3, PassesAssumption DEF PromiseInv, DeriveInv, ChainInv, ChainTypeOK, Passes
    <2>5. Covers(q, S)'
      <3>1. CASE q = p
        <4>1. client[c].op = "await"
          OBVIOUS
        <4> QED
          BY <3>1, <4>1, <2>1, <2>3 DEF Awaited
      <3>2. CASE q # p
        <4>1. /\ at'[q] = at[q] /\ toRead'[q] = toRead[q] /\ snap'[q] = snap[q]
              /\ batch'[q] = batch[q] /\ phase'[q] = phase[q] /\ wf'[q] = wf[q]
          BY <3>2, <2>4
        <4>2. Logged(wf[q]) \subseteq Logged(wf[q])'
          BY <2>3
        <4> QED
          BY <4>1, <4>2, <2>3 DEF Covers
      <3> QED
        BY <3>1, <3>2
    <2> QED
      BY <2>1, <2>2, <2>3, <2>5
  <1> QED
    BY <1>1, <1>2

\* Starting and reading: every table is still to read, or was read while the
\* rows showed what is owed.
LEMMA ReadingKeepsPromises ==
    ASSUME PromiseInv, NEW p \in Passes,
           \/ PassStart(p)
           \/ \E t \in Tables, window \in SUBSET Ids : ReadTable(p, t, window)
           \/ ReadLog(p)
    PROVE  OwedInRows' /\ CallsCover'
  <1>1. CASE PassStart(p)
    <2>1. wf[p] \in Workflows
      BY <1>1, PassesAssumption DEF PassStart, Begin, PromiseInv, DeriveInv, ChainInv,
         ChainTypeOK, Numbered, Passes
    <2>2. ASSUME NEW S \in SUBSET rows[wf[p]] PROVE Covers(p, S)'
      <3>1. \A pr \in S : TableOf[pr[2]] \in Tables
        BY <2>1, ModelAssumption DEF PromiseInv, DeriveInv, TypeOK, Pairs
      <3> QED
        BY <1>1, <3>1 DEF PassStart, Begin, Covers, PromiseInv, DeriveInv, TypeOK, ChainInv,
           ChainTypeOK
    <2> QED
      BY <1>1, <2>1, <2>2, PassKeepsPromises DEF PassStart, Begin, Logged, logVars, PromiseInv,
         DeriveInv, TypeOK, ChainInv, ChainTypeOK
  <1>2. ASSUME NEW t \in Tables, NEW window \in SUBSET Ids, ReadTable(p, t, window)
        PROVE  OwedInRows' /\ CallsCover'
    <2>1. wf[p] \in Workflows /\ phase[p] = "running"
      BY <1>2, PassHasWorkflow DEF ReadTable, PromiseInv, DeriveInv, RunningAt
    <2>2. ASSUME Awaited(p), NEW S \in SUBSET rows[wf[p]], Covers(p, S)
          PROVE  Covers(p, S)'
      <3>0. {pr \in InTable(rows[wf[p]], t) : pr[2] \in window} = InTable(rows[wf[p]], t)
        BY <1>2, <2>1, <2>2 DEF ReadTable, InTable, Pairs, PromiseInv, DeriveInv, TypeOK
      <3>1. /\ snap'[p] = snap[p] \cup InTable(rows[wf[p]], t)
            /\ toRead'[p] = toRead[p] \ {t}
            /\ at'[p] = IF toRead[p] = {t} THEN "log" ELSE "tables"
            /\ phase'[p] = "running"
        BY <1>2, <2>1, <3>0 DEF ReadTable, PromiseInv, DeriveInv, TypeOK, chainVars
      <3>2. \A pr \in S : TableOf[pr[2]] \in toRead'[p] \/ pr \in snap'[p]
        BY <1>2, <2>2, <3>1 DEF ReadTable, Covers, InTable
      <3> QED
        BY <3>1, <3>2, <1>2 DEF Covers, ReadTable
    <2> QED
      BY <1>2, <2>1, <2>2, PassKeepsPromises DEF ReadTable, chainVars, logVars, Logged,
         PromiseInv, DeriveInv, TypeOK
  <1>3. CASE ReadLog(p)
    <2>1. wf[p] \in Workflows /\ phase[p] = "running"
      BY <1>3, PassHasWorkflow DEF ReadLog, PromiseInv, DeriveInv, RunningAt
    <2>2. ASSUME NEW S \in SUBSET rows[wf[p]], Covers(p, S) PROVE Covers(p, S)'
      <3>1. /\ batch'[p] = snap[p] \ Logged(wf[p])
            /\ at'[p] = "open" /\ phase'[p] = "running" /\ wf' = wf
            /\ Logged(wf[p])' = Logged(wf[p])
        BY <1>3, <2>1 DEF ReadLog, PromiseInv, DeriveInv, TypeOK, chainVars, logVars, Logged
      <3>2. S \subseteq snap[p]
        BY <1>3, <2>2 DEF ReadLog, Covers
      <3> QED
        BY <3>1, <3>2 DEF Covers
    <2> QED
      BY <1>3, <2>1, <2>2, PassKeepsPromises DEF ReadLog, chainVars, logVars, Logged,
         PromiseInv, DeriveInv, TypeOK
  <1> QED
    BY <1>1, <1>2, <1>3

\* Opening cycle rows and emitting: what leaves the batch is in the log.
LEMMA EmittingKeepsPromises ==
    ASSUME PromiseInv, NEW p \in Passes,
           \/ \E c \in Ids : OpenCycle(p, c)
           \/ AllOpened(p)
           \/ \E chunk \in SUBSET batch[p] : EmitMany(p, chunk)
    PROVE  OwedInRows' /\ CallsCover'
  <1>0. at[p] # "off" /\ wf[p] \in Workflows /\ phase[p] = "running"
    BY PassHasWorkflow DEF OpenCycle, AllOpened, EmitMany, PromiseInv, DeriveInv, RunningAt
  <1>1. ASSUME NEW c \in Ids, OpenCycle(p, c)
        PROVE  OwedInRows' /\ CallsCover'
    <2>1. PICK E : rows' = [rows EXCEPT ![wf[p]] = @ \cup E]
      BY <1>1 DEF OpenCycle
    <2>2. batch[p] \subseteq batch'[p] /\ \A q \in Passes : q # p => batch'[q] = batch[q]
      BY <1>1 DEF OpenCycle, PromiseInv, DeriveInv, TypeOK
    <2>3. UNCHANGED <<chainVars, logVars, at, toRead, snap, client, owed, ops>>
      BY <1>1 DEF OpenCycle
    <2>4. \A w \in Workflows : rows[w] \subseteq rows'[w] /\ Logged(w)' = Logged(w)
      BY <2>1, <2>3 DEF PromiseInv, DeriveInv, TypeOK, Logged, logVars
    <2>5. ASSUME NEW S \in SUBSET rows[wf[p]], Covers(p, S) PROVE Covers(p, S)'
      BY <2>2, <2>3, <2>4, <2>5, <1>0 DEF Covers, chainVars
    <2> QED
      BY <1>0, <2>2, <2>3, <2>4, <2>5, PassKeepsPromises DEF chainVars
  <1>2. CASE AllOpened(p)
    <2>1. UNCHANGED <<chainVars, rows, logVars, toRead, snap, batch, client, owed>>
      BY <1>2 DEF AllOpened
    <2>2. \A w \in Workflows : Logged(w)' = Logged(w)
      BY <2>1 DEF Logged, logVars
    <2>3. ASSUME NEW S \in SUBSET rows[wf[p]], Covers(p, S) PROVE Covers(p, S)'
      BY <1>0, <1>2, <2>1, <2>2, <2>3 DEF AllOpened, Covers, chainVars, PromiseInv, DeriveInv,
         TypeOK
    <2> QED
      BY <1>0, <1>2, <2>1, <2>2, <2>3, PassKeepsPromises DEF AllOpened, chainVars, PromiseInv,
         DeriveInv, TypeOK
  <1>3. ASSUME NEW chunk \in SUBSET batch[p], EmitMany(p, chunk)
        PROVE  OwedInRows' /\ CallsCover'
    <2>1. UNCHANGED <<chainVars, rows, commanded, at, toRead, snap, client, owed>>
      BY <1>3 DEF EmitMany
    <2>2. /\ \A w \in Workflows, pr \in Pairs :
                 derived'[w][pr] = IF w = wf[p] /\ pr \in chunk THEN derived[w][pr] + 1
                                   ELSE derived[w][pr]
          /\ \A w \in Workflows, pr \in Pairs : derived[w][pr] \in Nat /\ commanded[w][pr] \in Nat
      BY <1>0, <1>3 DEF PromiseInv, DeriveInv, TypeOK, EmitMany
    <2>3. \A w \in Workflows : Logged(w) \subseteq Logged(w)'
      BY <2>1, <2>2 DEF Logged
    <2>4. chunk \subseteq Logged(wf[p])'
      <3>1. chunk \subseteq Pairs
        BY DEF PromiseInv, DeriveInv, TypeOK
      <3> QED
        BY <1>0, <2>1, <2>2, <3>1 DEF Logged, chainVars
    <2>5. batch'[p] = batch[p] \ chunk /\ \A q \in Passes : q # p => batch'[q] = batch[q]
      BY <1>3 DEF EmitMany, PromiseInv, DeriveInv, TypeOK
    <2>6. ASSUME NEW S \in SUBSET rows[wf[p]], Covers(p, S) PROVE Covers(p, S)'
      <3>1. at[p] = "emit" /\ at' = at /\ phase' = phase /\ wf' = wf
        BY <1>3, <2>1 DEF EmitMany, chainVars
      <3>2. S \subseteq batch[p] \cup Logged(wf[p])
        BY <2>6, <3>1 DEF Covers
      <3>3. Logged(wf[p]) \subseteq Logged(wf[p])'
        BY <1>0, <2>3, <3>1 DEF Logged
      <3> QED
        BY <1>0, <2>4, <2>5, <3>1, <3>2, <3>3 DEF Covers
    <2> QED
      BY <1>0, <2>1, <2>3, <2>5, <2>6, PassKeepsPromises DEF chainVars
  <1> QED
    BY <1>1, <1>2, <1>3

\* A pass returns with an empty batch, so everything it covered is in the log.
LEMMA ReturningKeepsPromises ==
    ASSUME PromiseInv, NEW p \in Passes,
           PassReturns(p) \/ PassThrows(p) \/ PassPrune(p)
    PROVE  OwedInRows' /\ CallsCover'
  <1>1. CASE PassReturns(p) \/ PassThrows(p)
    <2>1. /\ PassOver(p) /\ UNCHANGED <<rows, logVars, client, owed, ncalls, wf>>
          /\ phase[p] = "running"
          /\ \A q \in Passes : q # p => phase'[q] = phase[q]
          /\ phase'[p] = IF PassReturns(p) THEN "ok" ELSE phase'[p]
          /\ PassReturns(p) => at[p] = "emit" /\ batch[p] = {}
          /\ ~PassReturns(p) => phase'[p] = "failed"
      BY <1>1 DEF PassReturns, PassThrows, Settle, PromiseInv, DeriveInv, ChainInv, ChainTypeOK
    <2>2. wf[p] \in Workflows
      BY <2>1, PassesAssumption DEF PromiseInv, DeriveInv, ChainInv, ChainTypeOK, Numbered, Passes
    <2>3. \A w \in Workflows : Logged(w)' = Logged(w)
      BY <2>1 DEF Logged, logVars
    <2>4. at'[p] = "off" /\ \A q \in Passes : q # p =>
              /\ at'[q] = at[q] /\ toRead'[q] = toRead[q]
              /\ snap'[q] = snap[q] /\ batch'[q] = batch[q]
      BY <2>1 DEF PassOver, PromiseInv, DeriveInv, TypeOK
    <2>5. ASSUME NEW S \in SUBSET rows[wf[p]], Covers(p, S) PROVE Covers(p, S)'
      <3>1. PassReturns(p) => S \subseteq Logged(wf[p])
        BY <2>1, <2>5 DEF Covers
      <3>2. Logged(wf[p])' = Logged(wf[p])
        BY <2>1 DEF Logged, logVars
      <3> QED
        BY <2>1, <2>4, <3>1, <3>2 DEF Covers
    <2> QED
      BY <2>1, <2>2, <2>3, <2>4, <2>5, PassKeepsPromises
  <1>2. CASE PassPrune(p)
    <2>1. UNCHANGED <<rows, logVars, passVars, client, owed, ncalls, wf, phase>>
      BY <1>2 DEF PassPrune, Prune
    <2>2. wf[p] \in Workflows
      BY <1>2, PassesAssumption DEF PassPrune, Prune, PromiseInv, DeriveInv, ChainInv, ChainTypeOK,
         Numbered, Passes
    <2>3. \A w \in Workflows : Logged(w)' = Logged(w)
      BY <2>1 DEF Logged, logVars
    <2>4. ASSUME NEW S \in SUBSET rows[wf[p]], Covers(p, S) PROVE Covers(p, S)'
      BY <2>1, <2>2, <2>3, <2>4 DEF Covers, passVars
    <2> QED
      BY <2>1, <2>2, <2>3, <2>4, PassKeepsPromises DEF passVars
  <1> QED
    BY <1>1, <1>2

\* Request d goes on as it was, and nothing it is owed leaves rows or log.
GoesOn(d) ==
    /\ client'[d] = client[d]
    /\ owed'[d] \subseteq owed[d]
    /\ client[d].op \in Deriving =>
           /\ owed'[d] \subseteq rows'[client[d].w]
           /\ owed'[d] \cap Logged(client[d].w) \subseteq Logged(client[d].w)'

\* Request d begins, ends or turns to its next statement: it does not wait.
Moves(d) ==
    /\ client'[d].op # "await"
    /\ IF client'[d].op \in Deriving THEN owed'[d] \subseteq rows'[client'[d].w]
       ELSE owed'[d] = {}

\* A request's step that leaves the passes alone.
LEMMA RequestKeepsPromises ==
    ASSUME PromiseInv, UNCHANGED <<chainVars, passVars>>,
           \A d \in Clients : GoesOn(d) \/ Moves(d)
    PROVE  OwedInRows' /\ CallsCover'
  <1>1. OwedInRows'
    BY DEF PromiseInv, OwedInRows, GoesOn, Moves, Deriving
  <1>2. CallsCover'
    <2> SUFFICES ASSUME NEW d \in Clients, client'[d].op = "await"
                 PROVE  /\ client'[d].pass \in 1..ncalls'
                        /\ wf'[client'[d].pass] = client'[d].w
                        /\ Covers(client[d].pass, owed[d])'
      BY DEF CallsCover
    <2>1. GoesOn(d)
      BY DEF Moves, Deriving
    <2>2. PICK q : q = client[d].pass
      OBVIOUS
    <2>3. PICK S : S = owed'[d]
      OBVIOUS
    <2>4. /\ client'[d] = client[d] /\ q \in 1..ncalls /\ wf[q] = client[d].w
          /\ Covers(q, owed[d]) /\ S \subseteq owed[d]
      BY <2>1, <2>2, <2>3 DEF GoesOn, PromiseInv, CallsCover, Deriving
    <2>5. /\ UNCHANGED <<ncalls, wf, phase, at, toRead, snap, batch>>
      BY DEF chainVars, passVars
    <2>6. S \cap Logged(wf[q]) \subseteq Logged(wf[q])'
      <3>1. Logged(client[d].w)' = Logged(wf[q])'
        BY <2>4, <2>5 DEF Logged
      <3> QED
        BY <2>1, <2>3, <2>4, <3>1 DEF GoesOn, Deriving
    <2>7. Covers(q, S)'
      BY <2>4, <2>5, <2>6 DEF Covers
    <2> QED
      BY <2>2, <2>3, <2>4, <2>5, <2>7
  <1> QED
    BY <1>1, <1>2

\* What is taken from rows and log is disowned.
LEMMA DisownedGoesOn ==
    ASSUME PromiseInv, NEW w \in Workflows, NEW S,
           \A v \in Workflows : v # w => /\ rows[v] \subseteq rows'[v]
                                         /\ Logged(v) \subseteq Logged(v)',
           rows[w] \ S \subseteq rows'[w],
           Logged(w) \ S \subseteq Logged(w)',
           NEW d \in Clients,
           client'[d] = client[d],
           owed'[d] = Disowned(w, S)[d]
    PROVE  GoesOn(d)
  <1>1. owed'[d] = IF client[d].w = w THEN owed[d] \ S ELSE owed[d]
    BY DEF Disowned
  <1>2. CASE client[d].op \notin Deriving
    BY <1>1, <1>2 DEF GoesOn, Deriving
  <1>3. CASE client[d].op \in Deriving
    <2>1. client[d].w \in Workflows /\ owed[d] \subseteq rows[client[d].w]
      BY <1>3 DEF PromiseInv, DeriveInv, ClientsBound, OwedInRows, Deriving
    <2>2. PICK v \in Workflows : v = client[d].w
      BY <2>1
    <2>3. Logged(client[d].w)' = Logged(v)'
      BY <2>2 DEF Logged
    <2> QED
      BY <1>1, <2>1, <2>2, <2>3 DEF GoesOn, Deriving
  <1> QED
    BY <1>2, <1>3

\* A request that began owes nothing yet; the others go on.
LEMMA OthersUntouched ==
    ASSUME PromiseInv, UNCHANGED <<rows, logVars>>, NEW d \in Clients,
           client'[d] = client[d], owed'[d] = owed[d]
    PROVE  GoesOn(d)
  <1>1. client[d].op \in Deriving => owed[d] \subseteq rows[client[d].w]
    BY DEF PromiseInv, OwedInRows, Deriving
  <1>2. Logged(client[d].w)' = Logged(client[d].w)
    BY DEF Logged, logVars
  <1> QED
    BY <1>1, <1>2 DEF GoesOn, Deriving

\* A request that is over is owed nothing.
LEMMA FinishMoves ==
    ASSUME PromiseInv, NEW c \in Clients, Finish(c)
    PROVE  /\ Moves(c)
           /\ \A d \in Clients : d # c => client'[d] = client[d] /\ owed'[d] = owed[d]
  BY DEF Finish, Moves, Idle, Request, PromiseInv, DeriveInv, TypeOK, Deriving

\* Pulls: the rows that land are owed; writing them disowns what others were
\* owed about them.
LEMMA PullKeepsPromises ==
    ASSUME PromiseInv, NEW c \in Clients,
           \/ \E w \in Workflows, t \in Tables, source \in SUBSET Ids :
                  PullStart(c, w, t, source)
           \/ \E i \in Ids : \E E \in RowShapes(i) : PullRow(c, i, E)
           \/ PullThrows(c)
           \/ DeriveReturns(c)
    PROVE  OwedInRows' /\ CallsCover'
  <1>1. ASSUME NEW w \in Workflows, NEW t \in Tables, NEW source \in SUBSET Ids,
               PullStart(c, w, t, source)
        PROVE  OwedInRows' /\ CallsCover'
    <2>1. /\ UNCHANGED <<chainVars, rows, logVars, passVars, owed>>
          /\ client[c].op = "idle"
          /\ client' = [client EXCEPT ![c] = Request("pull", w, {t}, source, {}, 0)]
      BY <1>1 DEF PullStart, Begun
    <2>2. Moves(c)
      BY <2>1 DEF Moves, Request, PromiseInv, DeriveInv, TypeOK, OwedInRows, Deriving
    <2>3. \A d \in Clients : d # c => GoesOn(d)
      BY <2>1, OthersUntouched DEF PromiseInv, DeriveInv, TypeOK
    <2> QED
      BY <2>1, <2>2, <2>3, RequestKeepsPromises
  <1>2. ASSUME NEW i \in Ids, NEW E \in RowShapes(i), PullRow(c, i, E)
        PROVE  OwedInRows' /\ CallsCover'
    <2> DEFINE w == client[c].w
               gone == PairsOf(i)
    <2>1. w \in Workflows /\ client[c].op = "pull" /\ owed[c] \subseteq rows[w]
      BY <1>2 DEF PullRow, PromiseInv, DeriveInv, ClientsBound, OwedInRows, Deriving
    <2>2. /\ UNCHANGED <<chainVars, logVars, passVars>>
          /\ rows' = [rows EXCEPT ![w] = (rows[w] \ gone) \cup E]
          /\ owed' = [Disowned(w, gone) EXCEPT ![c] = Disowned(w, gone)[c] \cup E]
          /\ client' = [client EXCEPT ![c] =
                 Request("pull", w, client[c].tables, client[c].left \ {i}, {}, 0)]
      BY <1>2, <2>1 DEF PullRow, WriteRow, PromiseInv, DeriveInv, TypeOK, Disowned
    <2>3. Moves(c)
      <3>1. owed'[c] = (owed[c] \ gone) \cup E
        BY <2>2 DEF Disowned
      <3>2. client'[c].op = "pull" /\ client'[c].w = w
        BY <2>2 DEF Request, PromiseInv, DeriveInv, TypeOK
      <3>3. rows'[w] = (rows[w] \ gone) \cup E
        BY <2>1, <2>2 DEF PromiseInv, DeriveInv, TypeOK
      <3> QED
        BY <2>1, <3>1, <3>2, <3>3 DEF Moves, Deriving
    <2>4. ASSUME NEW d \in Clients, d # c PROVE GoesOn(d)
      <3>1. client'[d] = client[d] /\ owed'[d] = Disowned(w, gone)[d]
        BY <2>2, <2>4 DEF Disowned, PromiseInv, DeriveInv, TypeOK
      <3>2. PICK v, S : v \in Workflows /\ v = w /\ S = gone
        BY <2>1
      <3>3. /\ rows[v] \ S \subseteq rows'[v]
            /\ \A u \in Workflows : u # v => rows[u] \subseteq rows'[u]
        BY <2>2, <3>2 DEF PromiseInv, DeriveInv, TypeOK
      <3>4. \A u \in Workflows : Logged(u)' = Logged(u)
        BY <2>2 DEF Logged, logVars
      <3> HIDE DEF w, gone
      <3> QED
        BY <3>1, <3>2, <3>3, <3>4, DisownedGoesOn
    <2> QED
      BY <2>2, <2>3, <2>4, RequestKeepsPromises
  <1>3. CASE PullThrows(c) \/ DeriveReturns(c)
    <2>1. Finish(c) /\ UNCHANGED <<chainVars, rows, logVars, passVars, ops>>
      BY <1>3 DEF PullThrows, DeriveReturns
    <2> QED
      BY <2>1, FinishMoves, OthersUntouched, RequestKeepsPromises
  <1> QED
    BY <1>1, <1>2, <1>3

\* A derive call waits for a pass of its own that has read nothing yet.
LEMMA CallKeepsPromises ==
    ASSUME PromiseInv, NEW c \in Clients,
           \/ PullDerive(c)
           \/ \E op \in {"await", "derive"} : RebuildDerive(c, op)
           \/ \E w \in Workflows : DeriveBegins(c, w)
    PROVE  OwedInRows' /\ CallsCover'
  <1>1. PICK st, v : /\ v \in Workflows /\ Call(v) /\ client' = [client EXCEPT ![c] = st]
                     /\ st.op \in {"await", "derive"} /\ st.w = v /\ st.pass = ncalls + 1
                     /\ UNCHANGED <<rows, logVars, passVars>>
                     /\ \A d \in Clients : d # c => owed'[d] = owed[d]
                     /\ IF st.op = "await" THEN owed'[c] \subseteq rows[v] ELSE owed'[c] = {}
    <2>1. CASE PullDerive(c) \/ \E op \in {"await", "derive"} : RebuildDerive(c, op)
      <3>1. /\ client[c].w \in Workflows /\ owed[c] \subseteq rows[client[c].w]
        BY <2>1 DEF PullDerive, RebuildDerive, PromiseInv, DeriveInv, ClientsBound, OwedInRows,
           Deriving
      <3>2. PICK op \in {"await", "derive"} :
                /\ client' = [client EXCEPT ![c] =
                       Request(op, client[c].w, client[c].tables, {}, {}, ncalls + 1)]
                /\ Call(client[c].w)
                /\ UNCHANGED <<rows, logVars, passVars>>
                /\ \A d \in Clients : d # c => owed'[d] = owed[d]
                /\ owed'[c] = IF op = "await" THEN owed[c] ELSE {}
        BY <2>1 DEF PullDerive, RebuildDerive, PromiseInv, DeriveInv, TypeOK
      <3> DEFINE st == Request(op, client[c].w, client[c].tables, {}, {}, ncalls + 1)
      <3>3. st.op = op /\ st.w = client[c].w /\ st.pass = ncalls + 1
        BY DEF Request
      <3> QED
        BY <3>1, <3>2, <3>3
    <2>2. ASSUME NEW w \in Workflows, DeriveBegins(c, w)
          PROVE  \E st, v : /\ v \in Workflows /\ Call(v) /\ client' = [client EXCEPT ![c] = st]
                            /\ st.op \in {"await", "derive"} /\ st.w = v
                            /\ st.pass = ncalls + 1
                            /\ UNCHANGED <<rows, logVars, passVars>>
                            /\ \A d \in Clients : d # c => owed'[d] = owed[d]
                            /\ IF st.op = "await" THEN owed'[c] \subseteq rows[v]
                               ELSE owed'[c] = {}
      <3> DEFINE st == Request("derive", w, {}, {}, {}, ncalls + 1)
      <3>1. st.op = "derive" /\ st.w = w /\ st.pass = ncalls + 1
        BY DEF Request
      <3>2. client[c].op = "idle" /\ client' = [client EXCEPT ![c] = st] /\ Call(w)
        BY <2>2 DEF DeriveBegins, Begun
      <3>3. UNCHANGED <<rows, logVars, passVars, owed>>
        BY <2>2 DEF DeriveBegins
      <3>4. owed[c] = {}
        BY <3>2 DEF PromiseInv, OwedInRows, Deriving
      <3> HIDE DEF st
      <3> QED
        BY <3>1, <3>2, <3>3, <3>4
    <2> QED
      BY <2>1, <2>2
  <1>2. client'[c] = st /\ \A d \in Clients : d # c => client'[d] = client[d]
    BY <1>1 DEF PromiseInv, DeriveInv, TypeOK
  <1>3. OwedInRows'
    BY <1>1, <1>2 DEF PromiseInv, DeriveInv, TypeOK, OwedInRows, Deriving
  <1>4. /\ ncalls \in Nat /\ ncalls' = ncalls + 1 /\ ncalls + 1 \in Passes
        /\ \A q \in Passes : q # ncalls + 1 => wf'[q] = wf[q] /\ phase'[q] = phase[q]
        /\ wf'[ncalls + 1] = v /\ phase'[ncalls + 1] = "waiting"
    BY <1>1, PassesAssumption DEF Call, PromiseInv, DeriveInv, TypeOK, ChainTypeOK, Passes
  <1>5. CallsCover'
    <2> SUFFICES ASSUME NEW d \in Clients, client'[d].op = "await"
                 PROVE  /\ client'[d].pass \in 1..ncalls'
                        /\ wf'[client'[d].pass] = client'[d].w
                        /\ Covers(client[d].pass, owed[d])'
      BY DEF CallsCover
    <2>1. CASE d = c
      <3>1. client'[d] = st
        BY <1>2, <2>1
      <3>2. PICK q \in Passes : q = ncalls + 1
        BY <1>4
      <3>3. at'[q] = "off" /\ phase'[q] = "waiting"
        BY <1>1, <1>4, <3>2, PassHasWorkflow DEF passVars, PromiseInv, DeriveInv
      <3>4. Covers(q, owed[d])'
        BY <3>3 DEF Covers
      <3> QED
        BY <1>1, <1>4, <3>1, <3>2, <3>4
    <2>2. CASE d # c
      <3>1. client'[d] = client[d]
        BY <1>1, <2>2 DEF PromiseInv, DeriveInv, TypeOK
      <3>2. PICK q, S : q = client[d].pass /\ S = owed[d]
        OBVIOUS
      <3>3. q \in 1..ncalls /\ wf[q] = client[d].w /\ Covers(q, S) /\ owed'[d] = S
        BY <1>1, <2>2, <3>1, <3>2 DEF PromiseInv, CallsCover
      <3>4. q \in Passes /\ q # ncalls + 1
        BY <1>4, <3>3, PassesAssumption DEF Passes, PromiseInv, DeriveInv, TypeOK, ChainTypeOK
      <3>5. Logged(wf[q])' = Logged(wf[q])
        BY <1>1, <1>4, <3>4 DEF Logged, logVars
      <3>6. Covers(q, S)'
        BY <1>1, <1>4, <3>3, <3>4, <3>5 DEF Covers, passVars
      <3> QED
        BY <1>4, <3>1, <3>2, <3>3, <3>4, <3>6
    <2> QED
      BY <2>1, <2>2
  <1> QED
    BY <1>3, <1>5

\* Commands: writing a row disowns it, emitting only adds to the log.
LEMMA CommandKeepsPromises ==
    ASSUME PromiseInv, NEW c \in Clients,
           \/ \E w \in Workflows, pr \in Pairs :
                  \E E \in RowShapes(pr[2]) : CommandWrite(c, w, pr, E)
           \/ CommandEmit(c)
           \/ CommandThrows(c)
    PROVE  OwedInRows' /\ CallsCover'
  <1>1. ASSUME NEW w \in Workflows, NEW pr \in Pairs, NEW E \in RowShapes(pr[2]),
               CommandWrite(c, w, pr, E)
        PROVE  OwedInRows' /\ CallsCover'
    <2>1. /\ UNCHANGED <<chainVars, logVars, passVars>>
          /\ client[c].op = "idle"
          /\ rows' = [rows EXCEPT ![w] = (rows[w] \ PairsOf(pr[2])) \cup E]
          /\ owed' = Disowned(w, PairsOf(pr[2]))
          /\ client' = [client EXCEPT ![c] = Request("command", w, {}, {}, {pr}, 0)]
      BY <1>1 DEF CommandWrite, Begun, WriteRow, PromiseInv, DeriveInv, TypeOK
    <2>2. Moves(c)
      BY <2>1 DEF Moves, Request, PromiseInv, DeriveInv, TypeOK, OwedInRows, Disowned, Deriving
    <2>3. ASSUME NEW d \in Clients, d # c PROVE GoesOn(d)
      <3>1. client'[d] = client[d] /\ owed'[d] = Disowned(w, PairsOf(pr[2]))[d]
        BY <2>1, <2>3 DEF PromiseInv, DeriveInv, TypeOK
      <3>2. \A u \in Workflows : Logged(u)' = Logged(u)
        BY <2>1 DEF Logged, logVars
      <3>3. /\ rows[w] \ PairsOf(pr[2]) \subseteq rows'[w]
            /\ \A u \in Workflows : u # w => rows[u] \subseteq rows'[u]
        BY <2>1 DEF PromiseInv, DeriveInv, TypeOK
      <3> QED
        BY <3>1, <3>2, <3>3, DisownedGoesOn
    <2> QED
      BY <2>1, <2>2, <2>3, RequestKeepsPromises
  <1>2. CASE CommandEmit(c)
    <2>1. /\ UNCHANGED <<chainVars, rows, derived, passVars, ops>>
          /\ Finish(c)
          /\ client[c].w \in Workflows
      BY <1>2 DEF CommandEmit, PromiseInv, DeriveInv, ClientsBound
    <2>2. \A u \in Workflows, pr \in Pairs :
              /\ commanded'[u][pr] >= commanded[u][pr]
              /\ commanded[u][pr] \in Nat /\ commanded'[u][pr] \in Nat /\ derived[u][pr] \in Nat
      BY <1>2, <2>1 DEF CommandEmit, PromiseInv, DeriveInv, TypeOK
    <2>3. \A u \in Workflows : Logged(u) \subseteq Logged(u)'
      BY <2>1, <2>2 DEF Logged
    <2>4. Moves(c) /\ \A d \in Clients : d # c => client'[d] = client[d] /\ owed'[d] = owed[d]
      BY <2>1, FinishMoves
    <2>5. ASSUME NEW d \in Clients, d # c PROVE GoesOn(d)
      <3>1. \A S : Disowned(client[c].w, {})[d] = owed[d]
        BY DEF Disowned
      <3> QED
        BY <2>1, <2>3, <2>4, <2>5, <3>1, DisownedGoesOn
    <2> QED
      BY <2>1, <2>4, <2>5, RequestKeepsPromises
  <1>3. CASE CommandThrows(c)
    <2>1. Finish(c) /\ UNCHANGED <<chainVars, rows, logVars, passVars>>
      BY <1>3 DEF CommandThrows
    <2> QED
      BY <2>1, FinishMoves, OthersUntouched, RequestKeepsPromises
  <1> QED
    BY <1>1, <1>2, <1>3

\* Erasing log rows of S in workflow w leaves the other events logged.
LEMMA EraseLogKeeps ==
    ASSUME TypeOK, NEW w \in Workflows, NEW S, EraseLog(w, S)
    PROVE  /\ Logged(w) \ S \subseteq Logged(w)'
           /\ \A u \in Workflows : u # w => Logged(u) \subseteq Logged(u)'
  <1>1. \A u \in Workflows, pr \in Pairs :
            u # w \/ pr \notin S => /\ derived'[u][pr] = derived[u][pr]
                                   /\ commanded'[u][pr] = commanded[u][pr]
    BY DEF EraseLog, Without, TypeOK
  <1> QED
    BY <1>1 DEF Logged

\* Rebuilds: what the rows evidence when the log goes is owed to the request.
LEMMA RebuildKeepsPromises ==
    ASSUME PromiseInv, NEW c \in Clients, NEW w \in Workflows, RebuildClear(c, w)
    PROVE  OwedInRows' /\ CallsCover'
  <1>1. /\ UNCHANGED <<chainVars, rows, passVars>>
        /\ client[c].op = "idle"
        /\ client' = [client EXCEPT ![c] = Request("rebuild", w, {}, {}, {}, 0)]
        /\ EraseLog(w, Pairs)
        /\ owed' = [Disowned(w, Pairs) EXCEPT ![c] = rows[w]]
    BY DEF RebuildClear, Begun
  <1>2. Moves(c)
    BY <1>1 DEF Moves, Request, PromiseInv, DeriveInv, TypeOK, Disowned, Deriving
  <1>3. ASSUME NEW d \in Clients, d # c PROVE GoesOn(d)
    <2>1. client'[d] = client[d] /\ owed'[d] = Disowned(w, Pairs)[d]
      BY <1>1, <1>3 DEF PromiseInv, DeriveInv, TypeOK, Disowned
    <2>2. /\ Logged(w) \ Pairs \subseteq Logged(w)'
          /\ \A u \in Workflows : u # w => Logged(u) \subseteq Logged(u)'
      BY <1>1, EraseLogKeeps DEF PromiseInv, DeriveInv
    <2> QED
      BY <1>1, <2>1, <2>2, DisownedGoesOn
  <1> QED
    BY <1>1, <1>2, <1>3, RequestKeepsPromises

\* Purges and resets disown the rows and the events they erase.
LEMMA EraserKeepsPromises ==
    ASSUME PromiseInv, NEW c \in Clients,
           \/ \E w \in Workflows, t \in Tables : PurgeRows(c, w, t)
           \/ PurgeEvents(c)
           \/ \E w \in Workflows : ResetLog(c, w)
           \/ \E t \in Tables : ResetRows(c, t)
    PROVE  OwedInRows' /\ CallsCover'
  <1>1. ASSUME NEW w \in Workflows, NEW S, owed' = Disowned(w, S),
               UNCHANGED <<chainVars, passVars>>,
               Logged(w) \ S \subseteq Logged(w)', rows[w] \ S \subseteq rows'[w],
               \A v \in Workflows : v # w => rows[v] \subseteq rows'[v]
                                             /\ Logged(v) \subseteq Logged(v)',
               Moves(c), \A d \in Clients : d # c => client'[d] = client[d]
        PROVE  OwedInRows' /\ CallsCover'
    BY <1>1, DisownedGoesOn, RequestKeepsPromises
  <1>2. ASSUME NEW w \in Workflows, NEW t \in Tables, PurgeRows(c, w, t)
        PROVE  OwedInRows' /\ CallsCover'
    <2>1. /\ UNCHANGED <<chainVars, logVars, passVars>>
          /\ client[c].op = "idle"
          /\ client' = [client EXCEPT ![c] = Request("purge", w, {t}, {}, {}, 0)]
          /\ rows' = [rows EXCEPT ![w] = rows[w] \ InTable(rows[w], t)]
          /\ owed' = Disowned(w, InTable(Pairs, t))
      BY <1>2 DEF PurgeRows, Begun
    <2>2. Moves(c)
      BY <2>1 DEF Moves, Request, PromiseInv, DeriveInv, TypeOK, Disowned, OwedInRows, Deriving
    <2>3. /\ \A v \in Workflows : v # w => rows[v] \subseteq rows'[v]
          /\ rows[w] \ InTable(Pairs, t) \subseteq rows'[w]
      BY <2>1 DEF PromiseInv, DeriveInv, TypeOK, InTable
    <2>4. \A u \in Workflows : Logged(u)' = Logged(u)
      BY <2>1 DEF Logged, logVars
    <2> QED
      BY <2>1, <2>2, <2>3, <2>4, <1>1 DEF PromiseInv, DeriveInv, TypeOK
  <1>3. CASE PurgeEvents(c)
    <2>1. client[c].w \in Workflows /\ client[c].op = "purge" /\ owed[c] = {}
      BY <1>3 DEF PurgeEvents, PromiseInv, DeriveInv, ClientsBound, OwedInRows, Deriving
    <2>2. PICK w \in Workflows, t \in client[c].tables :
              w = client[c].w /\ EraseLog(w, InTable(Pairs, t))
              /\ owed' = Disowned(w, InTable(Pairs, t))
      BY <1>3, <2>1 DEF PurgeEvents
    <2>3. /\ UNCHANGED <<chainVars, rows, passVars, ops>>
          /\ client' = [client EXCEPT ![c] = Idle]
      BY <1>3 DEF PurgeEvents
    <2>4. Moves(c)
      BY <2>1, <2>2, <2>3
      DEF Moves, Deriving, Idle, Request, Disowned, PromiseInv, DeriveInv, TypeOK
    <2>5. /\ Logged(w) \ InTable(Pairs, t) \subseteq Logged(w)'
          /\ \A v \in Workflows : v # w => Logged(v) \subseteq Logged(v)'
      BY <2>2, EraseLogKeeps DEF PromiseInv, DeriveInv
    <2> QED
      BY <2>2, <2>3, <2>4, <2>5, <1>1 DEF PromiseInv, DeriveInv, TypeOK
  <1>4. ASSUME NEW w \in Workflows, ResetLog(c, w)
        PROVE  OwedInRows' /\ CallsCover'
    <2>1. /\ UNCHANGED <<chainVars, rows, passVars>>
          /\ client[c].op = "idle"
          /\ client' = [client EXCEPT ![c] = Request("reset", w, Tables, {}, {}, 0)]
          /\ EraseLog(w, Pairs)
          /\ owed' = Disowned(w, Pairs)
      BY <1>4 DEF ResetLog, Begun
    <2>2. Moves(c)
      BY <2>1 DEF Moves, Request, PromiseInv, DeriveInv, TypeOK, Disowned, OwedInRows, Deriving
    <2>3. /\ Logged(w) \ Pairs \subseteq Logged(w)'
          /\ \A v \in Workflows : v # w => Logged(v) \subseteq Logged(v)'
      BY <2>1, EraseLogKeeps DEF PromiseInv, DeriveInv
    <2> QED
      BY <2>1, <2>2, <2>3, <1>1 DEF PromiseInv, DeriveInv, TypeOK
  <1>5. ASSUME NEW t \in Tables, ResetRows(c, t)
        PROVE  OwedInRows' /\ CallsCover'
    <2>1. client[c].w \in Workflows /\ client[c].op = "reset" /\ owed[c] = {}
      BY <1>5 DEF ResetRows, PromiseInv, DeriveInv, ClientsBound, OwedInRows, Deriving
    <2>2. PICK w \in Workflows : w = client[c].w
      BY <2>1
    <2>3. /\ UNCHANGED <<chainVars, logVars, passVars, ops>>
          /\ rows' = [rows EXCEPT ![w] = rows[w] \ InTable(rows[w], t)]
          /\ owed' = Disowned(w, InTable(Pairs, t))
          /\ client'[c].op \in {"idle", "reset"}
          /\ \A d \in Clients : d # c => client'[d] = client[d]
      BY <1>5, <2>1, <2>2 DEF ResetRows, Idle, Request, PromiseInv, DeriveInv, TypeOK
    <2>4. Moves(c)
      BY <2>1, <2>3 DEF Moves, Deriving, Disowned
    <2>5. /\ \A v \in Workflows : v # w => rows[v] \subseteq rows'[v]
          /\ rows[w] \ InTable(Pairs, t) \subseteq rows'[w]
      BY <2>3 DEF PromiseInv, DeriveInv, TypeOK, InTable
    <2>6. \A u \in Workflows : Logged(u)' = Logged(u)
      BY <2>3 DEF Logged, logVars
    <2> QED
      BY <2>3, <2>4, <2>5, <2>6, <1>1
  <1> QED
    BY <1>2, <1>3, <1>4, <1>5

\* After a restart nobody waits and nobody is owed anything.
LEMMA RestartKeepsPromises ==
    ASSUME PromiseInv, Restart
    PROVE  OwedInRows' /\ CallsCover'
  BY DEF Restart, OwedInRows, CallsCover, Deriving, Idle, Request

\* Every step keeps what is owed covered.
LEMMA PromiseStepInv == PromiseInv /\ [Next]_vars => PromiseInv'
  <1> SUFFICES ASSUME PromiseInv, [Next]_vars PROVE PromiseInv'
    OBVIOUS
  <1>1. DeriveInv'
    BY DeriveStepInv DEF PromiseInv
  <1>2. ASSUME NEW p \in Passes, PassStep(p) PROVE OwedInRows' /\ CallsCover'
    BY <1>2, ReadingKeepsPromises, EmittingKeepsPromises, ReturningKeepsPromises DEF PassStep
  <1>3. ASSUME NEW c \in Clients, ClientStep(c) PROVE OwedInRows' /\ CallsCover'
    BY <1>3, PullKeepsPromises, CallKeepsPromises, CommandKeepsPromises, RebuildKeepsPromises,
       EraserKeepsPromises DEF ClientStep, ClientBegins, ClientGoesOn
  <1>4. CASE Restart
    BY <1>1, <1>4, RestartKeepsPromises DEF PromiseInv
  <1>5. CASE UNCHANGED vars
    <2>1. UNCHANGED <<chainVars, passVars, rows, logVars, client, owed>>
      BY <1>5 DEF vars
    <2>2. \A d \in Clients : GoesOn(d)
      BY <2>1, OthersUntouched
    <2>3. OwedInRows' /\ CallsCover'
      BY <2>1, <2>2, RequestKeepsPromises
    <2> QED
      BY <1>1, <2>3 DEF PromiseInv
  <1> QED
    BY <1>1, <1>2, <1>3, <1>4, <1>5 DEF Next, PromiseInv

\* When the pass a pull or a rebuild waited for has succeeded, every event its
\* rows evidence is in the log, unless somebody wrote those rows or erased those
\* events since, however many requests, passes, failures and restarts there are.
THEOREM PromisesKept == Spec => []PromisedEventsLogged
  <1>1. Init => PromiseInv
    BY DeriveInitInv DEF PromiseInv, Init, OwedInRows, CallsCover, Deriving, Idle, Request
  <1>2. PromiseInv /\ [Next]_vars => PromiseInv'
    BY PromiseStepInv
  <1>3. PromiseInv => PromisedEventsLogged
    BY DEF PromiseInv, CallsCover, Covers, PromisedEventsLogged
  <1> QED
    BY <1>1, <1>2, <1>3, PTL DEF Spec
=============================================================================
