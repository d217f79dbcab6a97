------------------------------- MODULE SimRun -------------------------------
(***************************************************************************)
(* The generic simulator (src/twin/sim.ts) and the event scope it pins     *)
(* (src/events/bus.ts, withScope).                                         *)
(*                                                                         *)
(* A run is an instance of the root aggregate; its progress is read back   *)
(* from the log rows that carry its id as caseId.  A step request reads    *)
(* which event is next, fires its command inside withScope(run), then the  *)
(* events coupled to it, and writes a skip marker for whatever failed.     *)
(* withScope keeps the pinned case in ONE module-level variable: it saves  *)
(* the old value, sets its own, and restores the old one in `finally`,     *)
(* with awaits in between.  Commands of other requests (POST action, chat) *)
(* emit through the same bus without pinning anything.                     *)
(***************************************************************************)
EXTENDS Naturals, FiniteSets, Sequences

CONSTANTS Runs,        \* run ids
          Others,      \* ids of aggregates that commands outside a run create
          NoScope,     \* scopeOverride = null
          Requests,    \* concurrent HTTP or chat requests
          Order,       \* the steppable events in linear order
          First,       \* rootCreateEvent: the event a new run starts with
          Coupled,     \* Coupled[e]: the satellites that fire with e, in order
          MaxRequests  \* bound: requests in one behaviour

Ev == {Order[k] : k \in 1..Len(Order)}

ASSUME SimAssumption ==
    /\ NoScope \notin Runs \cup Others
    /\ Runs \cap Others = {}
    /\ Order \in Seq(Ev)
    /\ Len(Order) > 0
    /\ First \in Ev
    /\ Coupled \in [Ev -> Seq(Ev)]
    /\ MaxRequests \in Nat

Cases == Runs \cup Others

VARIABLES scopeOverride,   \* the module-level scope of events/bus.ts
          log,             \* log[<<x, c, e>>]: event rows of x's command e under case c
          skipped,         \* skipped[<<c, e>>]: skip markers of run c for event e
          req,             \* req[q]: what request q is in the middle of
          begun            \* requests begun (bounded by MaxRequests)

vars == <<scopeOverride, log, skipped, req, begun>>

\* kind: "new" (the run's first event), "step" (the event that is next), "sat" (an
\* event coupled to it), "plain" (a command outside the simulator).
\* at: "read" (progress read, before withScope), "apply" (inside withScope, before
\* the emit), "emitted" and "failed" (before withScope's finally), "skip" (before
\* the skip marker is written).
\* todo: what this request still fires, the current event first; main: the event a
\* step is about; prev: withScope's saved scope.
Request(at, kind, id, main, todo, prev) ==
    [at |-> at, kind |-> kind, id |-> id, main |-> main, todo |-> todo, prev |-> prev]

Idle == Request("idle", "plain", NoScope, Order[1], <<>>, NoScope)

Init ==
    /\ scopeOverride = NoScope
    /\ log = [x \in Cases \X Cases \X Ev |-> 0]
    /\ skipped = [x \in Cases \X Ev |-> 0]
    /\ req = [q \in Requests |-> Idle]
    /\ begun = 0

-----------------------------------------------------------------------------

\* Mutant of Fired: skip markers are not counted.
Fired_IgnoresSkips(c) == {e \in Ev : \E x \in Cases : log[<<x, c, e>>] > 0}

\* The events with a log row under case c: genericCurrentStep's `fired`.
Fired(c) == {e \in Ev : \/ \E x \in Cases : log[<<x, c, e>>] > 0
                        \/ skipped[<<c, e>>] > 0}

\* genericCurrentStep: the first steppable event not fired, Len(Order) + 1 if none.
CurrentStep(c) ==
    IF Ev \subseteq Fired(c) THEN Len(Order) + 1
    ELSE CHOOSE k \in 1..Len(Order) :
             /\ Order[k] \notin Fired(c)
             /\ \A j \in 1..(k - 1) : Order[j] \in Fired(c)

\* withScope up to the first await of fn.
Pin(q, r) ==
    /\ req' = [req EXCEPT ![q] =
           Request("apply", r.kind, r.id, r.main, r.todo, scopeOverride)]
    /\ scopeOverride' = r.id

BeginRequest(q) ==
    /\ req[q].at = "idle"
    /\ begun < MaxRequests
    /\ begun' = begun + 1

\* genericNewInstance: fire the root create event for a fresh run.
NewInstance(q, c) ==
    /\ BeginRequest(q)
    /\ Fired(c) = {}
    /\ \A p \in Requests : req[p].id # c
    /\ Pin(q, Request("apply", "new", c, First, <<First>>, NoScope))
    /\ UNCHANGED <<log, skipped>>

\* genericStep: read the run's progress, whether the run has events on record or
\* not.  A complete run returns at once.
StepRead(q, c) ==
    /\ BeginRequest(q)
    /\ CurrentStep(c) \in 1..Len(Order)
    /\ LET e == Order[CurrentStep(c)] IN
       req' = [req EXCEPT ![q] = Request("read", "step", c, e, <<e>> \o Coupled[e], NoScope)]
    /\ UNCHANGED <<scopeOverride, log, skipped>>

\* After the next await (runInstances): pin the scope and call genericApply.
StepApply(q) ==
    /\ req[q].at = "read"
    /\ Pin(q, req[q])
    /\ UNCHANGED <<log, skipped, begun>>

\* A command outside the simulator (POST action, chat): genericApply, no scope.
PlainCommand(q, x) ==
    /\ BeginRequest(q)
    /\ req' = [req EXCEPT ![q] =
           Request("apply", "plain", x, Order[1], <<Order[1]>>, NoScope)]
    /\ UNCHANGED <<scopeOverride, log, skipped>>

\* emit: the case is the pinned scope, else the aggregate's own.
Emit(q) ==
    /\ req[q].at = "apply"
    /\ LET id == req[q].id
           under == IF scopeOverride # NoScope THEN scopeOverride ELSE id
       IN  log' = [log EXCEPT ![<<id, under, Head(req[q].todo)>>] = @ + 1]
    /\ req' = [req EXCEPT ![q].at = "emitted"]
    /\ UNCHANGED <<scopeOverride, skipped, begun>>

\* genericApply throws before it emits.
ApplyThrows(q) ==
    /\ req[q].at = "apply"
    /\ req' = [req EXCEPT ![q].at = "failed"]
    /\ UNCHANGED <<scopeOverride, log, skipped, begun>>

\* Mutant of Restore: the scope is restored after a return but not after a throw.
Restore_OnSuccess(q) ==
    scopeOverride' = IF req[q].kind # "plain" /\ req[q].at = "emitted"
                     THEN req[q].prev ELSE scopeOverride

\* withScope's finally; a plain command is not inside withScope.
Restore(q) ==
    scopeOverride' = IF req[q].kind # "plain" THEN req[q].prev ELSE scopeOverride

\* The request goes on with the next coupled event, or is over.
Advance(q) ==
    IF Len(req[q].todo) > 1
    THEN [req[q] EXCEPT !.at = "read", !.kind = "sat", !.todo = Tail(req[q].todo)]
    ELSE Idle

ScopeReturns(q) ==
    /\ req[q].at = "emitted"
    /\ Restore(q)
    /\ req' = [req EXCEPT ![q] = Advance(q)]
    /\ UNCHANGED <<log, skipped, begun>>

\* Mutant of ScopeThrows: a failed step returns without its skip marker.
ScopeThrows_NoMarker(q) ==
    /\ req[q].at = "failed"
    /\ Restore(q)
    /\ req' = [req EXCEPT ![q] = Idle]
    /\ UNCHANGED <<log, skipped, begun>>

\* A new run and a plain command just fail; a step and a coupled event soft-fail.
ScopeThrows(q) ==
    /\ req[q].at = "failed"
    /\ Restore(q)
    /\ req' = [req EXCEPT ![q] = IF req[q].kind \in {"step", "sat"}
                                 THEN [req[q] EXCEPT !.at = "skip"] ELSE Idle]
    /\ UNCHANGED <<log, skipped, begun>>

\* logSkippedStep: a failed step ends the request, its coupled events are left for
\* later steps; a failed coupled event is skipped on its own.
SkipLogged(q) ==
    /\ req[q].at = "skip"
    /\ skipped' = [skipped EXCEPT ![<<req[q].id, Head(req[q].todo)>>] = @ + 1]
    /\ req' = [req EXCEPT ![q] = IF req[q].kind = "step" THEN Idle ELSE Advance(q)]
    /\ UNCHANGED <<scopeOverride, log, begun>>

\* genericDeleteInstance, its log part: every row under the run's case goes.
DeleteInstance(q, c) ==
    /\ BeginRequest(q)
    /\ log' = [x \in Cases \X Cases \X Ev |-> IF x[2] = c THEN 0 ELSE log[x]]
    /\ skipped' = [x \in Cases \X Ev |-> IF x[1] = c THEN 0 ELSE skipped[x]]
    /\ UNCHANGED <<scopeOverride, req>>

Next ==
    \E q \in Requests :
        \/ \E c \in Runs : NewInstance(q, c)
        \/ \E c \in Runs : StepRead(q, c)
        \/ StepApply(q)
        \/ \E x \in Others : PlainCommand(q, x)
        \/ Emit(q)
        \/ ApplyThrows(q)
        \/ ScopeReturns(q)
        \/ ScopeThrows(q)
        \/ SkipLogged(q)
        \/ \E c \in Runs : DeleteInstance(q, c)

Spec == Init /\ [][Next]_vars

-----------------------------------------------------------------------------
\* Every event is logged under the case of the run or aggregate whose command
\* emitted it ("emitted events are grouped by that id", events/bus.ts).
EventsInOwnCase ==
    \A x, c \in Cases, e \in Ev : log[<<x, c, e>>] > 0 => x = c

\* When no command is inside withScope, no scope is pinned: what follows is
\* correlated again ("restoring the prior scope after", events/bus.ts).
ScopeRestored ==
    (\A q \in Requests : req[q].at \in {"idle", "read", "skip"} \/ req[q].kind = "plain")
        => scopeOverride = NoScope

\* A step that returns has dealt with the event it was about, by its log row or
\* its skip marker, unless the run was deleted: run-all never spins on one event.
StepAdvances ==
    [][\A q \in Requests, c \in Runs, e \in Ev :
          /\ req[q].kind \in {"step", "sat"} /\ req[q].id = c /\ req[q].main = e
          /\ req[q].at # "idle" /\ req'[q].at = "idle"
          => e \in Fired(c)']_vars

\* No event of a run is recorded twice, neither fired nor skipped ("fire the next
\* unfired event's command", genericStep).
StepsOnce ==
    \A c \in Runs, e \in Ev : log[<<c, c, e>>] + skipped[<<c, e>>] <= 1

=============================================================================
