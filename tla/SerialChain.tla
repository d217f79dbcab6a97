---------------------------- MODULE SerialChain ----------------------------
(***************************************************************************)
(* The per-workflow promise chain of src/twin/derive.ts (deriveChains,     *)
(* deriveFromData): one emitting derive pass at a time per workflow.       *)
(*                                                                         *)
(* A call reads the chain's tip, queues its pass behind it and becomes the *)
(* tip; all of that is one synchronous stretch of JavaScript, so it is one *)
(* step here.  The pass starts once the promise it queued behind has       *)
(* settled, whatever its outcome (prior.catch().then(...)).  After a pass  *)
(* settles, its `finally` callback removes it from the map if it is still  *)
(* the tip: a later step, because it is a later microtask.                 *)
(*                                                                         *)
(* Passes are numbered in call order.  What a pass does is the business of *)
(* DeriveLog, which extends this module.                                   *)
(***************************************************************************)
EXTENDS Naturals

CONSTANTS Workflows,   \* the workflows (the keys of deriveChains)
          MaxPasses,   \* bound: calls of deriveFromData in one behaviour
          NoWorkflow   \* workflow of a pass that was not called yet

ASSUME PassesAssumption == MaxPasses \in Nat
ASSUME NoWorkflowAssumption == NoWorkflow \notin Workflows

VARIABLES ncalls,   \* calls made so far; pass numbers are 1..ncalls
          wf,       \* wf[p]: the workflow pass p derives
          prior,    \* prior[p]: the pass p queued behind, 0 for Promise.resolve()
          phase,    \* phase[p]: where pass p's promise stands
          tip,      \* tip[w]: the pass deriveChains maps w to, 0 for no entry
          pruned    \* the settled passes whose `finally` callback has run

chainVars == <<ncalls, wf, prior, phase, tip, pruned>>

Passes == 1..MaxPasses

\* A promise is "ok" when fulfilled, "failed" when rejected, "lost" when the
\* process died before it settled.
Phases == {"none", "waiting", "running", "ok", "failed", "lost"}

Settled(p) == phase[p] \in {"ok", "failed", "lost"}

ChainTypeOK ==
    /\ ncalls \in 0..MaxPasses
    /\ wf \in [Passes -> Workflows \cup {NoWorkflow}]
    /\ prior \in [Passes -> 0..MaxPasses]
    /\ phase \in [Passes -> Phases]
    /\ tip \in [Workflows -> 0..MaxPasses]
    /\ pruned \in SUBSET Passes

ChainInit ==
    /\ ncalls = 0
    /\ wf = [p \in Passes |-> NoWorkflow]
    /\ prior = [p \in Passes |-> 0]
    /\ phase = [p \in Passes |-> "none"]
    /\ tip = [w \in Workflows |-> 0]
    /\ pruned = {}

\* deriveFromData({preview: false}) in workflow w.
Call(w) ==
    /\ ncalls < MaxPasses
    /\ ncalls' = ncalls + 1
    /\ wf' = [wf EXCEPT ![ncalls + 1] = w]
    /\ prior' = [prior EXCEPT ![ncalls + 1] = tip[w]]
    /\ phase' = [phase EXCEPT ![ncalls + 1] = "waiting"]
    /\ tip' = [tip EXCEPT ![w] = ncalls + 1]
    /\ UNCHANGED pruned

\* Mutant of Begin: a failed predecessor is not caught (`prior.then` without
\* `catch`).
Begin_Uncaught(p) ==
    /\ phase[p] = "waiting"
    /\ prior[p] # 0 => phase[prior[p]] = "ok"
    /\ phase' = [phase EXCEPT ![p] = "running"]
    /\ UNCHANGED <<ncalls, wf, prior, tip, pruned>>

\* The promise p queued behind has settled, so runDerive begins.
Begin(p) ==
    /\ phase[p] = "waiting"
    /\ prior[p] # 0 => Settled(prior[p])
    /\ phase' = [phase EXCEPT ![p] = "running"]
    /\ UNCHANGED <<ncalls, wf, prior, tip, pruned>>

\* runDerive returned (outcome "ok") or threw (outcome "failed").
Settle(p, outcome) ==
    /\ phase[p] = "running"
    /\ phase' = [phase EXCEPT ![p] = outcome]
    /\ UNCHANGED <<ncalls, wf, prior, tip, pruned>>

\* Mutant of Prune: the entry goes even if a later pass is the tip.
Prune_Unconditional(p) ==
    /\ phase[p] \in {"ok", "failed"}
    /\ p \notin pruned
    /\ pruned' = pruned \cup {p}
    /\ tip' = [tip EXCEPT ![wf[p]] = 0]
    /\ UNCHANGED <<ncalls, wf, prior, phase>>

\* next.finally: the map entry goes only if nobody queued behind p meanwhile.
Prune(p) ==
    /\ phase[p] \in {"ok", "failed"}
    /\ p \notin pruned
    /\ pruned' = pruned \cup {p}
    /\ tip' = IF tip[wf[p]] = p THEN [tip EXCEPT ![wf[p]] = 0] ELSE tip
    /\ UNCHANGED <<ncalls, wf, prior, phase>>

\* The process dies and comes back: promises and the map are gone.
ChainRestart ==
    /\ phase' = [p \in Passes |-> IF phase[p] \in {"waiting", "running"}
                                  THEN "lost" ELSE phase[p]]
    /\ tip' = [w \in Workflows |-> 0]
    /\ pruned' = {p \in Passes : phase[p] # "none"}
    /\ UNCHANGED <<ncalls, wf, prior>>

ChainNext ==
    \/ \E w \in Workflows : Call(w)
    \/ \E p \in Passes : Begin(p)
    \/ \E p \in Passes, outcome \in {"ok", "failed"} : Settle(p, outcome)
    \/ \E p \in Passes : Prune(p)
    \/ ChainRestart

\* Promise reactions always run, and runDerive's database calls return or
\* throw, so a pass that can begin or settle eventually does.
ChainFairness ==
    \A p \in Passes :
        /\ WF_chainVars(Begin(p))
        /\ WF_chainVars(\E outcome \in {"ok", "failed"} : Settle(p, outcome))
        /\ WF_chainVars(Prune(p))

ChainSpec == ChainInit /\ [][ChainNext]_chainVars /\ ChainFairness

-----------------------------------------------------------------------------
\* At most one emitting pass of a workflow runs at any time, whatever the
\* interleaving of calls, settlements, prunes and restarts ("makes emitting
\* passes run one at a time", deriveChains in derive.ts).
OnePassPerWorkflow ==
    \A p, q \in Passes :
        phase[p] = "running" /\ phase[q] = "running" /\ wf[p] = wf[q] => p = q

\* Passes of one workflow begin in call order: when a pass runs, every pass of
\* its workflow that was called earlier has settled (the chain never overtakes,
\* also across a prune of the map entry).
CallOrder ==
    \A p, q \in Passes :
        phase[p] \in {"running", "ok", "failed"} /\ wf[q] = wf[p] /\ q < p
            => Settled(q)

\* The map does not grow: once every called pass has settled and its finally
\* callback has run, no workflow keeps an entry ("prune it once settled so the
\* map doesn't grow").
MapPruned ==
    (\A p \in 1..ncalls : Settled(p) /\ p \in pruned)
        => \A w \in Workflows : tip[w] = 0

=============================================================================
