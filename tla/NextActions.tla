---------------------------- MODULE NextActions ----------------------------
(***************************************************************************)
(* What can happen next in each case (src/twin/next-actions.ts), planned   *)
(* from the cases the log of module Cases shows, and the stored ranking of *)
(* those actions (src/twin/next-actions-ai.ts), which is generated over    *)
(* several awaits while events arrive and the model is replaced            *)
(* (src/twin/apply.ts).                                                    *)
(*                                                                         *)
(* A model is a graph: follows[e] lists the predecessors of event e, own   *)
(* the events that declare an aggregate root, commands those with a        *)
(* command.                                                                *)
(***************************************************************************)
EXTENDS Cases

CONSTANTS Keys,    \* the events in the order of the model
          Graphs   \* the models that are applied

Events == ToSet(Keys)

Predecessors(g, e) == ToSet(g.follows[e])

\* buildOntology refuses a cyclic model: of any events, one follows none of them.
ASSUME GraphsAssumption ==
    /\ Keys \in Seq(Events)
    /\ \A j, k \in DOMAIN Keys : Keys[j] = Keys[k] => j = k
    /\ None \notin Events
    /\ Pairs \subseteq Events \X Ids
    /\ \A q \in Ids : OpenedBy[q] \in Events
    /\ \A g \in Graphs :
        /\ g.follows \in [Events -> Seq(Events)]
        /\ \A e \in Events : e \in g.own \/ g.follows[e] # <<>>
        /\ \A U \in SUBSET Events :
               U # {} => \E e \in U : Predecessors(g, e) \cap U = {}

VARIABLES model,     \* the model in force
          applying,  \* a model was set and the log of the old one is still there
          rank,      \* the generation of a ranking in flight
          blob       \* the stored ranking, or None

rankVars == <<model, applying, rank, blob>>
actionsVars == <<casesVars, rankVars>>

-----------------------------------------------------------------------------
(* The graph (src/ontology/model.ts).                                      *)

SuccessorsOf(g, e) == {s \in Events : e \in Predecessors(g, s)}

\* The events of S in the order of the model.
InKeyOrder(S) ==
    LET f[k \in 0..Len(Keys)] ==
            IF k = 0 THEN <<>>
            ELSE IF Keys[k] \in S THEN Append(f[k - 1], Keys[k]) ELSE f[k - 1]
    IN  f[Len(Keys)]

\* A turn of Kahn's loop: an event is queued when its last predecessor is taken.
TakeFirst(g, d) ==
    IF d.queue = <<>> THEN d
    ELSE LET e == Head(d.queue)
             left == [s \in Events |->
                         d.left[s] - Cardinality({k \in DOMAIN g.follows[s] : g.follows[s][k] = e})]
         IN  [left |-> left, order |-> Append(d.order, e),
              queue |-> Tail(d.queue) \o InKeyOrder({s \in SuccessorsOf(g, e) : left[s] = 0})]

\* The loop after each turn; there are no more turns than events.
Kahn(g) ==
    LET begun == [left |-> [e \in Events |-> Len(g.follows[e])], order |-> <<>>,
                  queue |-> InKeyOrder({e \in Events : g.follows[e] = <<>>})]
        d[k \in 0..Len(Keys)] == IF k = 0 THEN begun ELSE TakeFirst(g, d[k - 1])
    IN  d

TopologicalOrder(g) == Kahn(g)[Len(Keys)].order

Order == [g \in Graphs |-> TopologicalOrder(g)]

\* An event without a root of its own takes its first predecessor's and is
\* coupled to it: a satellite, fired in the same tick.
CoupledTo(g, e) == IF e \in g.own THEN None ELSE Head(g.follows[e])

-----------------------------------------------------------------------------
(* The planner (planNextActions).                                          *)

IsStep(g, e) == e \in g.commands /\ CoupledTo(g, e) = None

\* The least set of events that holds S and, with an event x, next[x].
Closure(S, next) ==
    {x \in Events : \A T \in SUBSET Events :
        S \subseteq T /\ (\A y \in T : next[y] \subseteq T) => x \in T}

\* The event and the anchors along its coupledTo chain.
Anchors == [g \in Graphs |-> [e \in Events |->
    Closure({e}, [x \in Events |-> {CoupledTo(g, x)} \ {None}])]]

\* Mutant of PredSatisfied: without the walk along the coupledTo chain.
PredSatisfied_NoWalk(g, e, fired) == e \in fired

\* The event or an anchor of it has fired.
PredSatisfied(g, e, fired) == Anchors[g][e] \cap fired # {}

\* One sweep along the order: an event is hit when a successor fired or was hit.
Sweep(g, order, fired) ==
    LET hit[k \in 0..Len(order)] ==
            IF k = 0 THEN {}
            ELSE LET before == hit[k - 1]
                 IN  IF SuccessorsOf(g, order[k]) \cap (fired \cup before) # {}
                     THEN before \cup {order[k]} ELSE before
    IN  hit

\* Mutant of DescendantFired: the sweep runs in topological order.
DescendantFired_Forward(g, fired) == Sweep(g, Order[g], fired)[Len(Order[g])]

\* The bypass sweep, one pass in reverse topological order: the events some
\* transitive successor of which has fired.
DescendantFired(g, fired) == Sweep(g, Reverse(Order[g]), fired)[Len(Order[g])]

Frontier(g, fired) ==
    {e \in Events \ (fired \cup DescendantFired(g, fired)) :
        /\ IsStep(g, e)
        /\ IF g.follows[e] = <<>> THEN fired = {}
           ELSE \E p \in Predecessors(g, e) : PredSatisfied(g, p, fired)}

\* The log grouped by case (computeNextActions).
CasesIn(lg) == {lg[k].case : k \in DOMAIN lg}
FiredIn(lg, case) == {lg[k].ev : k \in {j \in DOMAIN lg : lg[j].case = case}}
Grouped(lg) == [case \in CasesIn(lg) |-> FiredIn(lg, case)]

-----------------------------------------------------------------------------
(* The ranking.                                                            *)

\* eventLogWatermark: the number of events and the latest recording time.
Watermark == <<Len(log), IF log = <<>> THEN 0 ELSE Last(log).n>>

ActionsInit ==
    /\ CasesInit
    /\ model \in Graphs
    /\ applying = FALSE
    /\ rank = Idle
    /\ blob = None

\* generate takes the model and its key; a second request shares the promise.
RankBegins ==
    /\ rank = Idle
    /\ Count
    /\ rank' = [at |-> "mark", key |-> model]
    /\ UNCHANGED <<log, rows, client, pass, stamp, model, applying, blob>>

RankMarks ==
    /\ rank.at = "mark"
    /\ rank' = [at |-> "rows", key |-> rank.key, mark |-> Watermark]
    /\ UNCHANGED <<casesVars, model, applying, blob>>

RankReads ==
    /\ rank.at = "rows"
    /\ rank' = [at |-> "store", key |-> rank.key, mark |-> rank.mark, shows |-> Grouped(log)]
    /\ UNCHANGED <<casesVars, model, applying, blob>>

\* Mutant of RankStores: the watermark is taken when the reply is stored.
RankStores_StampsLate ==
    /\ rank.at = "store"
    /\ blob' = [key |-> rank.key, mark |-> Watermark, shows |-> rank.shows]
    /\ rank' = Idle
    /\ UNCHANGED <<casesVars, model, applying>>

\* The reply is in (or nothing was open): setMeta replaces the stored ranking.
RankStores ==
    /\ rank.at = "store"
    /\ blob' = [key |-> rank.key, mark |-> rank.mark, shows |-> rank.shows]
    /\ rank' = Idle
    /\ UNCHANGED <<casesVars, model, applying>>

\* The language model fails, its reply is unusable, or the process restarts.
RankThrows ==
    /\ rank # Idle
    /\ rank' = Idle
    /\ UNCHANGED <<casesVars, model, applying, blob>>

\* applyWorkflowModel sets the model, and deletes the log several awaits later.
Applies(g) ==
    /\ ~applying
    /\ Count
    /\ model' = g
    /\ applying' = TRUE
    /\ UNCHANGED <<log, rows, client, pass, stamp, rank, blob>>

ApplyWipes ==
    /\ applying
    /\ log' = <<>>
    /\ applying' = FALSE
    /\ UNCHANGED <<rows, client, pass, stamp, ops, model, rank, blob>>

ActionsNext ==
    \/ CasesNext /\ UNCHANGED rankVars
    \/ RankBegins \/ RankMarks \/ RankReads \/ RankStores \/ RankThrows
    \/ \E g \in Graphs \ {model} : Applies(g)
    \/ ApplyWipes

ActionsSpec == ActionsInit /\ [][ActionsNext]_actionsVars

-----------------------------------------------------------------------------
\* The transitive successors of e, by definition.
Reach == [g \in Graphs |-> [e \in Events |->
    Closure(SuccessorsOf(g, e), [x \in Events |-> SuccessorsOf(g, x)])]]

Descendants(g, e) == Reach[g][e]

\* "Not BYPASSED: no transitive successor has fired. This one sweep handles both
\* alternative branches and skipped-ahead data" (head of next-actions.ts): in
\* every case the log can show, the single sweep over Kahn's order finds exactly
\* the events with a fired transitive successor.
SweepIsExact ==
    \A case \in CasesIn(log) :
        LET fired == FiredIn(log, case)
        IN  DescendantFired(model, fired) = {e \in Events : Descendants(model, e) \cap fired # {}}

\* A satellite has one predecessor; an event that has a root of its own but no
\* command ends its branch.
PlainlyAnchored(g) ==
    \A e \in Events :
        /\ e \notin g.own => Len(g.follows[e]) = 1
        /\ e \in g.own \ g.commands => SuccessorsOf(g, e) = {}

\* "Without the chain walk, a satellite predecessor that never got its own
\* EventLog row would wedge every successor out of the frontier"
\* (planNextActions): in a plainly anchored model no case is wedged. If a step
\* can still follow the last things that happened in a case, whatever was
\* skipped, repeated or fired out of order on the way, the case has an action.
NeverWedged ==
    PlainlyAnchored(model) =>
        \A case \in CasesIn(log) :
            LET fired == FiredIn(log, case)
            IN  (\E e \in fired : /\ Descendants(model, e) \cap fired = {}
                                  /\ \E s \in Descendants(model, e) : IsStep(model, s))
                    => Frontier(model, fired) # {}

\* "Any concurrent model swap or emit then reads as stale, never as wrongly
\* fresh" (generate): a stored ranking that getRecommendations calls fresh was
\* made from the model in force and from the cases as they are now, whatever was
\* emitted, back-dated, wiped or applied while it was generated.  The empty log
\* is left out: its watermark is the same each time the log is empty, so a
\* ranking of events that came and went in between reads as fresh; none of its
\* items is shown, because none is a candidate any more.
FreshIsCurrent ==
    blob # None /\ blob.key = model /\ blob.mark = Watermark /\ log # <<>>
        => blob.shows = Grouped(log)
=============================================================================
