------------------------- MODULE SerialChainProofs -------------------------
(***************************************************************************)
(* The promise chain serialises the passes of every workflow, for any set  *)
(* of workflows and any number of calls.                                   *)
(*                                                                         *)
(* OnePassPerWorkflow is not inductive: that a pass may begin only looks   *)
(* at the one promise it queued behind.  The strengthening says that this  *)
(* promise stands for all earlier passes of the workflow: nobody unsettled *)
(* is hidden between it and the pass (Queued), the map's tip covers every  *)
(* unsettled pass (TipCovers), and a pass that got past waiting has only   *)
(* settled passes before it (Ordered).                                     *)
(***************************************************************************)
EXTENDS SerialChain, TLAPS

Numbered ==
    \A p \in Passes : /\ p > ncalls <=> phase[p] = "none"
                      /\ p <= ncalls => wf[p] \in Workflows
                      /\ p > ncalls => wf[p] = NoWorkflow

Unsettled(p) == phase[p] \in {"waiting", "running"}

Ordered ==
    \A p, q \in Passes :
        phase[p] \in {"running", "ok", "failed", "lost"} /\ wf[q] = wf[p] /\ q < p
            => Settled(q)

Queued ==
    \A p \in Passes : phase[p] = "waiting" =>
        /\ prior[p] < p
        /\ prior[p] # 0 => wf[prior[p]] = wf[p]
        /\ \A q \in Passes : wf[q] = wf[p] /\ q < p /\ Unsettled(q) => q <= prior[p]

TipCovers ==
    \A w \in Workflows :
        /\ tip[w] <= ncalls
        /\ tip[w] # 0 => wf[tip[w]] = w /\ tip[w] \notin pruned
        /\ \A q \in Passes : wf[q] = w /\ Unsettled(q) => q <= tip[w]

PrunedCalled == \A p \in pruned : p <= ncalls

ChainInv == /\ ChainTypeOK
            /\ Numbered
            /\ Ordered
            /\ Queued
            /\ TipCovers
            /\ PrunedCalled

\* The chain starts empty, so nothing is out of order.
LEMMA ChainInitInv == ChainInit => ChainInv
  BY PassesAssumption DEF ChainInit, ChainInv, ChainTypeOK, Passes, Phases, Numbered,
     Ordered, Queued, TipCovers, PrunedCalled, Unsettled, Settled

\* A call queues behind the tip, which covers every unsettled pass.
LEMMA CallInv ==
    ASSUME NEW w \in Workflows, ChainInv, Call(w)
    PROVE  ChainInv'
  <1> USE PassesAssumption, NoWorkflowAssumption DEF Passes
  <1> DEFINE n == ncalls + 1
  <1>1. n \in Passes /\ n \notin 1..ncalls
    BY DEF ChainInv, ChainTypeOK, Call
  <1>2. ChainTypeOK'
    BY DEF ChainInv, ChainTypeOK, Call, Phases
  <1>3. Numbered'
    BY DEF ChainInv, ChainTypeOK, Call, Numbered
  <1>4. Ordered'
    <2> SUFFICES ASSUME NEW p \in Passes, NEW q \in Passes,
                        phase'[p] \in {"running", "ok", "failed", "lost"},
                        wf'[q] = wf'[p], q < p
                 PROVE  Settled(q)'
      BY DEF Ordered
    <2>1. p # n
      BY DEF Call, ChainInv, ChainTypeOK
    <2>2. p <= ncalls /\ q <= ncalls
      BY <2>1 DEF Call, ChainInv, ChainTypeOK, Numbered
    <2> QED
      BY <2>1, <2>2 DEF Call, ChainInv, ChainTypeOK, Ordered, Settled
  <1>5. Queued'
    <2> SUFFICES ASSUME NEW p \in Passes, phase'[p] = "waiting"
                 PROVE  /\ prior'[p] < p
                        /\ prior'[p] # 0 => wf'[prior'[p]] = wf'[p]
                        /\ \A q \in Passes : wf'[q] = wf'[p] /\ q < p /\ Unsettled(q)'
                               => q <= prior'[p]
      BY DEF Queued
    <2>1. CASE p = n
      BY <2>1 DEF Call, ChainInv, ChainTypeOK, TipCovers, Unsettled
    <2>2. CASE p # n
      <3>1. p <= ncalls
        BY <2>2 DEF Call, ChainInv, ChainTypeOK, Numbered
      <3> QED
        BY <2>2, <3>1 DEF Call, ChainInv, ChainTypeOK, Queued, Unsettled
    <2> QED
      BY <2>1, <2>2
  <1>6. TipCovers'
    <2> SUFFICES ASSUME NEW v \in Workflows
                 PROVE  /\ tip'[v] <= ncalls'
                        /\ tip'[v] # 0 => wf'[tip'[v]] = v /\ tip'[v] \notin pruned'
                        /\ \A q \in Passes : wf'[q] = v /\ Unsettled(q)' => q <= tip'[v]
      BY DEF TipCovers
    <2>1. CASE v = w
      BY <2>1 DEF Call, ChainInv, ChainTypeOK, TipCovers, Unsettled, PrunedCalled, Numbered
    <2>2. CASE v # w
      BY <2>2 DEF Call, ChainInv, ChainTypeOK, TipCovers, Unsettled
    <2> QED
      BY <2>1, <2>2
  <1>7. PrunedCalled'
    BY DEF ChainInv, ChainTypeOK, Call, PrunedCalled
  <1> QED
    BY <1>2, <1>3, <1>4, <1>5, <1>6, <1>7 DEF ChainInv

\* A pass begins only when everything before it has settled: its predecessor
\* has, and behind a settled predecessor everything has.
LEMMA BeginInv ==
    ASSUME NEW p \in Passes, ChainInv, Begin(p)
    PROVE  ChainInv'
  <1> USE PassesAssumption DEF Passes
  <1>1. ASSUME NEW q \in Passes, wf[q] = wf[p], q < p
        PROVE  Settled(q)
    <2>1. q <= ncalls /\ p <= ncalls
      BY <1>1 DEF ChainInv, ChainTypeOK, Numbered, Begin
    <2>2. Settled(q) \/ Unsettled(q)
      BY <2>1 DEF ChainInv, ChainTypeOK, Numbered, Settled, Unsettled, Phases
    <2>3. CASE Unsettled(q)
      <3>1. q <= prior[p] /\ prior[p] # 0 /\ prior[p] \in Passes
        BY <1>1, <2>3 DEF ChainInv, ChainTypeOK, Queued, Begin
      <3>2. Settled(prior[p]) /\ wf[prior[p]] = wf[p]
        BY <3>1 DEF ChainInv, Queued, Begin
      <3>3. q # prior[p]
        BY <3>2, <2>3 DEF Settled, Unsettled
      <3> QED
        BY <1>1, <3>1, <3>2, <3>3 DEF ChainInv, ChainTypeOK, Ordered, Settled
    <2> QED
      BY <2>2, <2>3
  <1>2. ChainTypeOK'
    BY DEF ChainInv, ChainTypeOK, Begin, Phases
  <1>3. Numbered'
    BY DEF ChainInv, ChainTypeOK, Begin, Numbered
  <1>4. Ordered'
    BY <1>1 DEF ChainInv, ChainTypeOK, Begin, Ordered, Settled
  <1>5. Queued'
    BY DEF ChainInv, ChainTypeOK, Begin, Queued, Unsettled
  <1>6. TipCovers' /\ PrunedCalled'
    BY DEF ChainInv, ChainTypeOK, Begin, TipCovers, Unsettled, PrunedCalled
  <1> QED
    BY <1>2, <1>3, <1>4, <1>5, <1>6 DEF ChainInv

\* Settling only shrinks the set of unsettled passes.
LEMMA SettleInv ==
    ASSUME NEW p \in Passes, NEW outcome \in {"ok", "failed"}, ChainInv,
           Settle(p, outcome)
    PROVE  ChainInv'
  <1> USE PassesAssumption DEF Passes
  <1>1. ChainTypeOK' /\ Numbered'
    BY DEF ChainInv, ChainTypeOK, Settle, Phases, Numbered
  <1>2. Ordered'
    BY DEF ChainInv, ChainTypeOK, Settle, Ordered, Settled
  <1>3. Queued'
    BY DEF ChainInv, ChainTypeOK, Settle, Queued, Unsettled
  <1>4. TipCovers' /\ PrunedCalled'
    BY DEF ChainInv, ChainTypeOK, Settle, TipCovers, Unsettled, PrunedCalled
  <1> QED
    BY <1>1, <1>2, <1>3, <1>4 DEF ChainInv

\* The entry that goes is that of a settled pass; everything it covered is
\* before it and has settled too.
LEMMA PruneInv ==
    ASSUME NEW p \in Passes, ChainInv, Prune(p)
    PROVE  ChainInv'
  <1> USE PassesAssumption, NoWorkflowAssumption DEF Passes
  <1>1. p <= ncalls /\ wf[p] \in Workflows
    BY DEF ChainInv, ChainTypeOK, Numbered, Prune
  <1>2. ChainTypeOK' /\ Numbered' /\ Ordered' /\ PrunedCalled'
    BY <1>1 DEF ChainInv, ChainTypeOK, Prune, Numbered, Ordered, Settled, PrunedCalled
  <1>3. Queued'
    BY DEF ChainInv, ChainTypeOK, Prune, Queued, Unsettled
  <1>4. TipCovers'
    <2> SUFFICES ASSUME NEW w \in Workflows
                 PROVE  /\ tip'[w] <= ncalls'
                        /\ tip'[w] # 0 => wf'[tip'[w]] = w /\ tip'[w] \notin pruned'
                        /\ \A q \in Passes : wf'[q] = w /\ Unsettled(q)' => q <= tip'[w]
      BY DEF TipCovers
    <2>1. CASE tip[wf[p]] = p /\ w = wf[p]
      <3>1. ASSUME NEW q \in Passes, wf[q] = w, Unsettled(q)
            PROVE  FALSE
        <4>1. q <= p /\ q # p
          BY <2>1, <3>1 DEF ChainInv, TipCovers, Prune, Unsettled
        <4> QED
          BY <2>1, <3>1, <4>1 DEF ChainInv, ChainTypeOK, Ordered, Prune, Settled, Unsettled
      <3> QED
        BY <1>1, <2>1, <3>1 DEF ChainInv, ChainTypeOK, Prune, Unsettled
    <2>2. CASE ~(tip[wf[p]] = p /\ w = wf[p])
      <3>1. tip'[w] = tip[w] /\ tip[w] # p
        <4>1. tip[w] = p => w = wf[p]
          BY DEF ChainInv, ChainTypeOK, TipCovers
        <4> QED
          BY <1>1, <2>2, <4>1 DEF Prune, ChainInv, ChainTypeOK
      <3> QED
        BY <3>1 DEF ChainInv, ChainTypeOK, TipCovers, Prune, Unsettled
    <2> QED
      BY <2>1, <2>2
  <1> QED
    BY <1>2, <1>3, <1>4 DEF ChainInv

\* After a restart every pass has settled.
LEMMA RestartInv ==
    ASSUME ChainInv, ChainRestart
    PROVE  ChainInv'
  <1> USE PassesAssumption DEF Passes
  <1>1. ChainTypeOK' /\ Numbered'
    BY DEF ChainInv, ChainTypeOK, ChainRestart, Phases, Numbered
  <1>2. \A p \in Passes : ~Unsettled(p)' /\ phase'[p] # "waiting"
    BY DEF ChainRestart, Unsettled
  <1>3. Ordered'
    BY <1>1, <1>2 DEF ChainInv, ChainTypeOK, ChainRestart, Numbered, Ordered, Settled,
       Unsettled, Phases
  <1>4. Queued' /\ TipCovers'
    BY <1>2 DEF ChainInv, ChainTypeOK, ChainRestart, Queued, TipCovers
  <1>5. PrunedCalled'
    BY DEF ChainInv, ChainTypeOK, ChainRestart, PrunedCalled, Numbered
  <1> QED
    BY <1>1, <1>3, <1>4, <1>5 DEF ChainInv

\* Every step of the chain preserves the invariant.
LEMMA ChainStepInv == ChainInv /\ [ChainNext]_chainVars => ChainInv'
  <1> SUFFICES ASSUME ChainInv, [ChainNext]_chainVars
               PROVE  ChainInv'
    OBVIOUS
  <1>1. CASE ChainNext
    BY <1>1, CallInv, BeginInv, SettleInv, PruneInv, RestartInv DEF ChainNext
  <1>2. CASE UNCHANGED chainVars
    BY <1>2 DEF chainVars, ChainInv, ChainTypeOK, Numbered, Ordered, Queued, TipCovers,
       PrunedCalled, Unsettled, Settled
  <1> QED
    BY <1>1, <1>2

\* The invariant gives the chain's promises.
LEMMA ChainInvImplies ==
    ChainInv => ChainTypeOK /\ OnePassPerWorkflow /\ CallOrder /\ MapPruned
  <1> SUFFICES ASSUME ChainInv PROVE OnePassPerWorkflow /\ CallOrder /\ MapPruned
    BY DEF ChainInv
  <1> USE PassesAssumption DEF Passes
  <1>1. CallOrder
    BY DEF ChainInv, Ordered, CallOrder
  <1>2. OnePassPerWorkflow
    BY DEF ChainInv, ChainTypeOK, Ordered, OnePassPerWorkflow, Settled
  <1>3. MapPruned
    <2> SUFFICES ASSUME \A p \in 1..ncalls : Settled(p) /\ p \in pruned,
                        NEW w \in Workflows, tip[w] # 0
                 PROVE  FALSE
      BY DEF MapPruned
    <2>1. tip[w] \in 1..ncalls /\ tip[w] \notin pruned
      BY DEF ChainInv, ChainTypeOK, TipCovers
    <2> QED
      BY <2>1
  <1> QED
    BY <1>1, <1>2, <1>3

\* Whatever the calls, outcomes, prunes and restarts: the invariant holds.
THEOREM ChainInvariant == ChainSpec => []ChainInv
  <1>1. ChainInit => ChainInv
    BY ChainInitInv
  <1>2. ChainInv /\ [ChainNext]_chainVars => ChainInv'
    BY ChainStepInv
  <1> QED
    BY <1>1, <1>2, PTL DEF ChainSpec

\* At most one derive pass of a workflow runs at a time.
THEOREM ChainMutualExclusion == ChainSpec => []OnePassPerWorkflow
  BY ChainInvariant, ChainInvImplies, PTL

\* Passes of a workflow run in the order they were called.
THEOREM ChainCallOrder == ChainSpec => []CallOrder
  BY ChainInvariant, ChainInvImplies, PTL

\* deriveChains keeps no entry once all passes are over.
THEOREM ChainMapPruned == ChainSpec => []MapPruned
  BY ChainInvariant, ChainInvImplies, PTL
=============================================================================
