--------------------------- MODULE WorkflowProofs ---------------------------
(***************************************************************************)
(* What the requests on one workflow keep: the simulator's (SimRun) and    *)
(* those that change its model and its tables (ModelApply).                *)
(*                                                                         *)
(* The first half is about simulator requests that come one at a time.     *)
(* For any number of runs, events and coupled events, every event is then  *)
(* logged under the case of its own run and no scope stays pinned; a run   *)
(* steps every event once, and a step that is answered with success has    *)
(* moved its run forward.  TLC shows that overlapping requests break the   *)
(* second; what is proved is that the overlap is the only way.             *)
(*                                                                         *)
(* The second half is about applies, deletions and pulls that overlap in   *)
(* any way: the records that evidence an event outlast every rebuild that  *)
(* no failure or restart tears; and an apply or a deletion that ran alone  *)
(* leaves the tables of its model, or nothing, whatever came before it.    *)
(***************************************************************************)
EXTENDS SimRun, ModelApply, SequenceTheorems, WellFoundedInduction, TLAPS

Ats == {"idle", "read", "apply", "emitted", "failed", "skip"}
Kinds == {"new", "step", "sat", "plain"}

\* The request is inside withScope.
Pinned(r) == r.at \in {"apply", "emitted", "failed"} /\ r.kind # "plain"

\* The requests, and the number of rows.
SimTypes ==
    /\ scopeOverride \in Runs \cup Others \cup {NoScope}
    /\ log \in [Cases \X Cases \X Ev -> Nat]
    /\ req \in [Requests -> [at : Ats, kind : Kinds, id : Cases \cup {NoScope}, main : Ev,
                             todo : Seq(Ev), prev : Cases \cup {NoScope}]]
    /\ \A q \in Requests : req[q].at # "idle" => req[q].id \in Cases /\ req[q].todo # <<>>
    /\ \A q \in Requests : req[q].at = "read" => req[q].kind # "plain"

\* A request that is over, or goes on with the next coupled event.
GoesOn(r) ==
    /\ r \in [at : {"idle", "read"}, kind : Kinds, id : Cases \cup {NoScope},
              main : Ev, todo : Seq(Ev), prev : Cases \cup {NoScope}]
    /\ r.at = "read" => r.id \in Cases /\ r.todo # <<>> /\ r.kind # "plain"

\* The scope is the one of the request inside withScope, which saved none.
ScopeFollows ==
    \A q \in Requests :
        /\ scopeOverride = IF Pinned(req[q]) THEN req[q].id ELSE NoScope
        /\ Pinned(req[q]) => req[q].prev = NoScope

SimInv == SimTypes /\ ScopeFollows /\ EventsInOwnCase

\* Requests come one at a time.
OneRequest == \E q \in Requests : Requests = {q}

LEMMA SimInit == ASSUME OneRequest, Init PROVE SimInv
<1>1. Order[1] \in Ev /\ First \in Ev BY SimAssumption DEF Ev
<1>2. SimTypes BY <1>1 DEF Init, SimTypes, Idle, Request, Ats, Kinds
<1>3. ScopeFollows BY DEF Init, ScopeFollows, Pinned, Idle, Request
<1>4. EventsInOwnCase BY DEF Init, EventsInOwnCase
<1> QED BY <1>2, <1>3, <1>4 DEF SimInv

\* A request that moves to another place is a request still.
LEMMA AtMoves ==
    ASSUME SimTypes, NEW q \in Requests, NEW a \in Ats
    PROVE  [req EXCEPT ![q] = [req[q] EXCEPT !.at = a]] \in
               [Requests -> [at : Ats, kind : Kinds, id : Cases \cup {NoScope}, main : Ev,
                             todo : Seq(Ev), prev : Cases \cup {NoScope}]]
<1> DEFINE R == [at : Ats, kind : Kinds, id : Cases \cup {NoScope}, main : Ev,
                 todo : Seq(Ev), prev : Cases \cup {NoScope}]
<1>1. req \in [Requests -> R] BY DEF SimTypes
<1>2. \A x \in R : [x EXCEPT !.at = a] \in R OBVIOUS
<1>3. req[q] \in R BY <1>1
<1>4. [req[q] EXCEPT !.at = a] \in R BY <1>2, <1>3
<1> HIDE DEF R
<1>5. [req EXCEPT ![q] = [req[q] EXCEPT !.at = a]] \in [Requests -> R] BY <1>1, <1>4
<1> QED BY <1>5 DEF R

\* What is left of a sequence of more than one event.
LEMMA TailLeft ==
    ASSUME NEW s \in Seq(Ev), Len(s) > 1
    PROVE  Tail(s) \in Seq(Ev) /\ Tail(s) # <<>>
<1>1. s # <<>> BY EmptySeq
<1>2. Tail(s) \in Seq(Ev) /\ Len(Tail(s)) = Len(s) - 1 BY <1>1, HeadTailProperties
<1>3. Len(s) \in Nat BY LenProperties
<1>4. Len(Tail(s)) # 0 BY <1>2, <1>3
<1>5. Len(<<>>) = 0 BY EmptySeq
<1> QED BY <1>2, <1>4, <1>5

LEMMA SimNext == ASSUME OneRequest, SimInv, [Next]_vars PROVE SimInv'
<1> PICK q \in Requests : Requests = {q} BY DEF OneRequest
<1> USE DEF SimInv
<1>0. /\ Order[1] \in Ev /\ First \in Ev
      /\ \A k \in 1..Len(Order) : Order[k] \in Ev
      /\ Idle = [at |-> "idle", kind |-> "plain", id |-> NoScope, main |-> Order[1],
                 todo |-> <<>>, prev |-> NoScope]
    BY SimAssumption DEF Ev, Idle, Request
<1>1. ASSUME NEW c \in Runs, NewInstance(q, c) PROVE SimInv'
  <2>1. SimTypes'
      BY <1>0, <1>1 DEF NewInstance, BeginRequest, Pin, Request, SimTypes, Cases, Ats, Kinds
  <2>2. ScopeFollows'
      BY <1>1 DEF NewInstance, BeginRequest, Pin, Request, SimTypes, ScopeFollows, Pinned
  <2>3. EventsInOwnCase' BY <1>1 DEF NewInstance, EventsInOwnCase
  <2> QED BY <2>1, <2>2, <2>3
<1>2. ASSUME NEW c \in Runs, StepRead(q, c) PROVE SimInv'
  <2>1. PICK e \in Ev :
            req' = [req EXCEPT ![q] = Request("read", "step", c, e, <<e>> \o Coupled[e], NoScope)]
      BY <1>0, <1>2 DEF StepRead
  <2>2. <<e>> \o Coupled[e] \in Seq(Ev) /\ <<e>> \o Coupled[e] # <<>>
      BY SimAssumption
  <2>3. SimTypes'
      BY <1>2, <2>1, <2>2 DEF StepRead, Request, SimTypes, Cases, Ats, Kinds
  <2>4. ScopeFollows'
      BY <1>2, <2>1 DEF StepRead, BeginRequest, Request, SimTypes, ScopeFollows, Pinned
  <2>5. EventsInOwnCase' BY <1>2 DEF StepRead, EventsInOwnCase
  <2> QED BY <2>3, <2>4, <2>5
<1>3. ASSUME StepApply(q) PROVE SimInv'
  <2>1. SimTypes' BY <1>3 DEF StepApply, Pin, Request, SimTypes, Cases, Ats
  <2>2. ScopeFollows' BY <1>3 DEF StepApply, Pin, Request, SimTypes, ScopeFollows, Pinned, Ats
  <2>3. EventsInOwnCase' BY <1>3 DEF StepApply, EventsInOwnCase
  <2> QED BY <2>1, <2>2, <2>3
<1>4. ASSUME NEW x \in Others, PlainCommand(q, x) PROVE SimInv'
  <2>1. SimTypes' BY <1>0, <1>4 DEF PlainCommand, Request, SimTypes, Cases, Ats, Kinds
  <2>2. ScopeFollows'
      BY <1>4 DEF PlainCommand, BeginRequest, Request, SimTypes, ScopeFollows, Pinned
  <2>3. EventsInOwnCase' BY <1>4 DEF PlainCommand, EventsInOwnCase
  <2> QED BY <2>1, <2>2, <2>3
<1>5. ASSUME Emit(q) PROVE SimInv'
  <2>1. req[q].id \in Cases /\ Head(req[q].todo) \in Ev
      BY <1>5 DEF Emit, SimTypes
  <2>2. scopeOverride \in {NoScope, req[q].id} BY DEF ScopeFollows
  <2>3. log' = [log EXCEPT ![<<req[q].id, req[q].id, Head(req[q].todo)>>] = @ + 1]
      BY <1>5, <2>2 DEF Emit
  <2>4. SimTypes'
    <3>1. <<req[q].id, req[q].id, Head(req[q].todo)>> \in Cases \X Cases \X Ev BY <2>1
    <3>2. \A y \in Cases \X Cases \X Ev : log[y] \in Nat /\ log[y] + 1 \in Nat
        BY DEF SimTypes
    <3>3. log' \in [Cases \X Cases \X Ev -> Nat] BY <2>3, <3>1, <3>2 DEF SimTypes
    <3>4. req[q].at = "apply" /\ req' = [req EXCEPT ![q].at = "emitted"]
        BY <1>5 DEF Emit
    <3>5. scopeOverride' = scopeOverride BY <1>5 DEF Emit
    <3>6. \A p \in Requests : req'[p] = IF p = q THEN [req[p] EXCEPT !.at = "emitted"]
                                         ELSE req[p]
        BY <3>4 DEF SimTypes
    <3>7. req' \in [Requests -> [at : Ats, kind : Kinds, id : Cases \cup {NoScope}, main : Ev,
                                 todo : Seq(Ev), prev : Cases \cup {NoScope}]]
      <4>1. "emitted" \in Ats BY DEF Ats
      <4>2. req' = [req EXCEPT ![q] = [req[q] EXCEPT !.at = "emitted"]] BY <3>4
      <4> QED BY <4>1, <4>2, AtMoves
    <3>8. /\ \A p \in Requests : req'[p].at # "idle" => req'[p].id \in Cases
                                                     /\ req'[p].todo # <<>>
          /\ \A p \in Requests : req'[p].at = "read" => req'[p].kind # "plain"
        BY <3>4, <3>6 DEF SimTypes
    <3> QED BY <3>3, <3>5, <3>7, <3>8 DEF SimTypes
  <2>5. ScopeFollows' BY <1>5 DEF Emit, SimTypes, ScopeFollows, Pinned, Ats
  <2>6. EventsInOwnCase' BY <2>1, <2>3 DEF SimTypes, EventsInOwnCase
  <2> QED BY <2>4, <2>5, <2>6
<1>6. ASSUME ApplyThrows(q) PROVE SimInv'
  <2>1. SimTypes'
    <3>1. /\ req[q].at = "apply"
          /\ req' = [req EXCEPT ![q] = [req[q] EXCEPT !.at = "failed"]]
          /\ UNCHANGED <<log, scopeOverride>>
        BY <1>6 DEF ApplyThrows
    <3>2. "failed" \in Ats BY DEF Ats
    <3>3. req' \in [Requests -> [at : Ats, kind : Kinds, id : Cases \cup {NoScope}, main : Ev,
                                 todo : Seq(Ev), prev : Cases \cup {NoScope}]]
        BY <3>1, <3>2, AtMoves
    <3>4. \A p \in Requests : req'[p] = IF p = q THEN [req[p] EXCEPT !.at = "failed"]
                                         ELSE req[p]
        BY <3>1 DEF SimTypes
    <3>5. /\ \A p \in Requests : req'[p].at # "idle" => req'[p].id \in Cases
                                                     /\ req'[p].todo # <<>>
          /\ \A p \in Requests : req'[p].at = "read" => req'[p].kind # "plain"
        BY <3>1, <3>4 DEF SimTypes
    <3> QED BY <3>1, <3>3, <3>5 DEF SimTypes
  <2>2. ScopeFollows' BY <1>6 DEF ApplyThrows, SimTypes, ScopeFollows, Pinned, Ats
  <2>3. EventsInOwnCase' BY <1>6 DEF ApplyThrows, EventsInOwnCase
  <2> QED BY <2>1, <2>2, <2>3
<1>7. GoesOn(Idle) BY <1>0 DEF GoesOn, Kinds
<1>8. ASSUME req[q].at # "idle" PROVE GoesOn(Advance(q))
  <2>1. CASE Len(req[q].todo) > 1
    <3>1. req[q].todo \in Seq(Ev) /\ req[q].todo # <<>> BY <1>8 DEF SimTypes
    <3>2. Tail(req[q].todo) \in Seq(Ev) /\ Tail(req[q].todo) # <<>>
        BY <2>1, <3>1, TailLeft
    <3> QED BY <1>8, <2>1, <3>2 DEF Advance, GoesOn, SimTypes, Kinds
  <2>2. CASE ~(Len(req[q].todo) > 1)
      BY <1>7, <2>2 DEF Advance
  <2> QED BY <2>1, <2>2
<1>9. ASSUME ScopeReturns(q) PROVE SimInv'
  <2> DEFINE r == Advance(q)
  <2>0. GoesOn(r) /\ req' = [req EXCEPT ![q] = r] /\ req[q].at = "emitted"
      BY <1>8, <1>9 DEF ScopeReturns
  <2> HIDE DEF r
  <2>1. SimTypes'
      BY <2>0, <1>9 DEF ScopeReturns, Restore, SimTypes, GoesOn, Ats, Cases
  <2>2. ScopeFollows'
      BY <2>0, <1>9 DEF ScopeReturns, Restore, SimTypes, ScopeFollows, GoesOn, Pinned
  <2>3. EventsInOwnCase' BY <1>9 DEF ScopeReturns, EventsInOwnCase
  <2> QED BY <2>1, <2>2, <2>3
<1>10. ASSUME ScopeThrows(q) PROVE SimInv'
  <2>1. SimTypes'
    <3>1. CASE req' = [req EXCEPT ![q] = [req[q] EXCEPT !.at = "skip"]]
      <4>1. req[q].at = "failed" /\ scopeOverride' \in {scopeOverride, req[q].prev}
            /\ log' = log
          BY <1>10 DEF ScopeThrows, Restore
      <4>2. \A p \in Requests : req'[p] = IF p = q THEN [req[p] EXCEPT !.at = "skip"]
                                           ELSE req[p]
          BY <3>1 DEF SimTypes
      <4>3. req' \in [Requests -> [at : Ats, kind : Kinds, id : Cases \cup {NoScope}, main : Ev,
                                   todo : Seq(Ev), prev : Cases \cup {NoScope}]]
        <5>1. "skip" \in Ats BY DEF Ats
        <5> QED BY <5>1, <3>1, AtMoves
      <4>4. /\ \A p \in Requests : req'[p].at # "idle" => req'[p].id \in Cases
                                                       /\ req'[p].todo # <<>>
            /\ \A p \in Requests : req'[p].at = "read" => req'[p].kind # "plain"
          BY <4>1, <4>2 DEF SimTypes
      <4>5. scopeOverride' \in Runs \cup Others \cup {NoScope} BY <4>1 DEF SimTypes, Cases
      <4> QED BY <4>1, <4>3, <4>4, <4>5 DEF SimTypes
    <3>2. CASE req' = [req EXCEPT ![q] = Idle]
        BY <1>0, <1>10, <3>2 DEF ScopeThrows, Restore, SimTypes, Ats, Cases, Kinds
    <3> QED BY <1>10, <3>1, <3>2 DEF ScopeThrows
  <2>2. ScopeFollows'
      BY <1>0, <1>10 DEF ScopeThrows, Restore, SimTypes, ScopeFollows, Pinned, Ats
  <2>3. EventsInOwnCase' BY <1>10 DEF ScopeThrows, EventsInOwnCase
  <2> QED BY <2>1, <2>2, <2>3
<1>11. ASSUME SkipLogged(q) PROVE SimInv'
  <2>0. PICK r : GoesOn(r) /\ req' = [req EXCEPT ![q] = r] /\ req[q].at = "skip"
      BY <1>7, <1>8, <1>11 DEF SkipLogged
  <2>1. SimTypes' BY <2>0, <1>11 DEF SkipLogged, GoesOn, SimTypes, Ats
  <2>2. ScopeFollows' BY <2>0, <1>11 DEF SkipLogged, ScopeFollows, SimTypes, GoesOn, Pinned
  <2>3. EventsInOwnCase' BY <1>11 DEF SkipLogged, EventsInOwnCase
  <2> QED BY <2>1, <2>2, <2>3
<1>12. ASSUME NEW c \in Runs, DeleteInstance(q, c) PROVE SimInv'
  <2>1. \A y \in Cases \X Cases \X Ev : log'[y] \in {0, log[y]}
      BY <1>12 DEF DeleteInstance
  <2>2. log' \in [Cases \X Cases \X Ev -> Nat] BY <1>12, <2>1 DEF DeleteInstance, SimTypes
  <2>3. SimTypes' BY <1>12, <2>2 DEF DeleteInstance, SimTypes
  <2>4. ScopeFollows' BY <1>12 DEF DeleteInstance, ScopeFollows, Pinned
  <2>5. EventsInOwnCase' BY <2>1 DEF EventsInOwnCase, SimTypes
  <2> QED BY <2>3, <2>4, <2>5
<1>13. CASE UNCHANGED vars
  BY <1>13 DEF vars, SimTypes, ScopeFollows, Pinned, EventsInOwnCase
<1> QED
  BY <1>1, <1>2, <1>3, <1>4, <1>5, <1>6, <1>9, <1>10, <1>11, <1>12, <1>13 DEF Next

\* The inductive invariant holds when requests come one at a time.
THEOREM SimInvHolds == ASSUME OneRequest PROVE Spec => []SimInv
<1>1. Init => SimInv BY SimInit
<1>2. SimInv /\ [Next]_vars => SimInv' BY SimNext
<1> QED BY <1>1, <1>2, PTL DEF Spec

\* Events are then logged under the case of the run whose command emitted them.
THEOREM AloneInOwnCase == ASSUME OneRequest PROVE Spec => []EventsInOwnCase
<1>1. SimInv => EventsInOwnCase BY DEF SimInv
<1> QED BY <1>1, SimInvHolds, PTL

\* And no scope stays pinned, also when commands throw.
THEOREM AloneRestores == ASSUME OneRequest PROVE Spec => []ScopeRestored
<1>1. OneRequest /\ SimInv => ScopeRestored
    BY DEF OneRequest, SimInv, ScopeFollows, Pinned, ScopeRestored
<1> QED BY <1>1, SimInvHolds, PTL

-----------------------------------------------------------------------------
(* Every event of a run is recorded once.                                  *)

\* The events coupled to e, their own satellites included.
Satellites(e) == {Coupled[e][i] : i \in 1..Len(Coupled[e])}

\* What buildOntology makes of coupledTo: an event is coupled to one event, so
\* two anchors of a satellite are coupled to one another; coupledSatellites lists
\* each satellite once and after its nearer anchors.  That the linear order lists
\* an anchor before its satellites is the model author's: an explicit `order`
\* goes before the order of the diagram.  The event a run starts with is coupled
\* to none: a coupled event has a predecessor of its own aggregate root, so it is
\* no create event.
CoupledInOrder ==
    /\ \A k, m \in 1..Len(Order) : Order[m] \in Satellites(Order[k]) => k < m
    /\ \A e \in Ev : \A i, j \in 1..Len(Coupled[e]) : Coupled[e][i] = Coupled[e][j] => i = j
    /\ \A a, e \in Ev : \A i \in 1..Len(Coupled[e]) :
           Coupled[e][i] \in Satellites(a)
               => a = e \/ e \in Satellites(a) \/ \E j \in 1..(i - 1) : Coupled[e][j] = a
    /\ \A e \in Ev : First \notin Satellites(e)

\* A nonempty set of natural numbers has a least element.
LEMMA LeastNat ==
    ASSUME NEW T \in SUBSET Nat, T # {}
    PROVE  \E x \in T : \A y \in T : x <= y
<1>1. PICK R : R = OpToRel(<, Nat) OBVIOUS
<1>2. IsWellFoundedOn(R, Nat) BY <1>1, NatLessThanWellFounded
<1>3. \A x, y \in Nat : x < y => <<x, y>> \in R BY <1>1 DEF OpToRel
<1>4. PICK x \in T : \A y \in T : ~ (<<y, x>> \in R) BY <1>2, WFMin
<1>5. \A y \in T : ~(y < x) BY <1>3, <1>4
<1>6. \A y \in T : x <= y BY <1>5
<1> QED BY <1>6

\* genericCurrentStep finds the first event that is not on record.
LEMMA CurrentIsFirst ==
    ASSUME NEW c, CurrentStep(c) \in 1..Len(Order)
    PROVE  /\ Order[CurrentStep(c)] \in Ev \ Fired(c)
           /\ \A j \in 1..(CurrentStep(c) - 1) : Order[j] \in Fired(c)
<1> DEFINE T == {k \in 1..Len(Order) : Order[k] \notin Fired(c)}
<1>1. Len(Order) \in Nat BY SimAssumption, LenProperties
<1>2. ~(Ev \subseteq Fired(c)) BY <1>1 DEF CurrentStep
<1>3. T # {} /\ T \in SUBSET Nat BY <1>1, <1>2 DEF Ev
<1>4. PICK k \in T : \A m \in T : k <= m BY <1>3, LeastNat
<1>5. k \in 1..Len(Order) /\ Order[k] \notin Fired(c) BY <1>4
<1>6. \A j \in 1..(k - 1) : Order[j] \in Fired(c) BY <1>1, <1>4, <1>5
<1>7. /\ Order[CurrentStep(c)] \notin Fired(c)
      /\ \A j \in 1..(CurrentStep(c) - 1) : Order[j] \in Fired(c)
    BY <1>2, <1>5, <1>6 DEF CurrentStep
<1> QED BY <1>7 DEF Ev

\* A step or a coupled event under way, with f the run's events on record.
Fires(r, f) ==
    /\ r.id \in Runs
    /\ \A i, j \in 1..Len(r.todo) : r.todo[i] = r.todo[j] => i = j
    /\ \A i \in 1..Len(r.todo) : r.todo[i] \in f <=> (r.at = "emitted" /\ i = 1)
    /\ \A i \in 1..Len(r.todo) : \A a \in Ev : r.todo[i] \in Satellites(a)
           => a \in f \/ \E j \in 1..(i - 1) : r.todo[j] = a
    /\ r.kind = "step" => r.todo[1] = r.main
    /\ r.kind = "sat" => r.main \in f

RequestFits(r, f) ==
    r.at # "idle" =>
        /\ r.kind = "plain" => r.id \in Others /\ r.todo = <<Order[1]>>
        /\ r.kind = "new" => /\ r.id \in Runs
                             /\ r.todo = <<First>>
                             /\ r.at # "emitted" => f = {}
        /\ r.kind \in {"step", "sat"} => Fires(r, f)
        /\ r.at = "skip" => r.kind \in {"step", "sat"}

\* A satellite is on record only if the events it is coupled to are.
AnchorsFirst ==
    \A c \in Runs : \A a \in Ev : \A s \in Satellites(a) : s \in Fired(c) => a \in Fired(c)

OnceInv ==
    /\ SimInv
    /\ skipped \in [Cases \X Ev -> Nat]
    /\ StepsOnce
    /\ AnchorsFirst
    /\ \A q \in Requests : RequestFits(req[q], Fired(req[q].id))

\* What is on record for a run when every log row of it carries its own id.
LEMMA FiredIs ==
    ASSUME NEW lg \in [Cases \X Cases \X Ev -> Nat], NEW sk \in [Cases \X Ev -> Nat],
           \A x, d \in Cases, e \in Ev : lg[<<x, d, e>>] > 0 => x = d,
           NEW c \in Runs
    PROVE  {e \in Ev : (\E x \in Cases : lg[<<x, c, e>>] > 0) \/ sk[<<c, e>>] > 0}
               = {e \in Ev : lg[<<c, c, e>>] + sk[<<c, e>>] > 0}
<1>1. c \in Cases BY DEF Cases
<1>2. \A e \in Ev : lg[<<c, c, e>>] \in Nat /\ sk[<<c, e>>] \in Nat BY <1>1
<1>3. \A e \in Ev : (\E x \in Cases : lg[<<x, c, e>>] > 0) <=> lg[<<c, c, e>>] > 0
    BY <1>1
<1>4. \A e \in Ev : lg[<<c, c, e>>] + sk[<<c, e>>] > 0
                   <=> (lg[<<c, c, e>>] > 0 \/ sk[<<c, e>>] > 0)
    BY <1>2
<1> QED BY <1>3, <1>4

\* Event e of run c gets a log row or a skip marker.
Records(c, e) ==
    \/ log' = [log EXCEPT ![<<c, c, e>>] = @ + 1] /\ skipped' = skipped
    \/ skipped' = [skipped EXCEPT ![<<c, e>>] = @ + 1] /\ log' = log

\* Recording an event of run c that is not on record yet.
LEMMA RecordOne ==
    ASSUME OnceInv, SimInv', NEW c \in Runs, NEW e \in Ev, e \notin Fired(c),
           Records(c, e)
    PROVE  /\ skipped' \in [Cases \X Ev -> Nat]
           /\ StepsOnce'
           /\ Fired(c)' = Fired(c) \cup {e}
           /\ \A d \in Runs : d # c => Fired(d)' = Fired(d)
<1> USE DEF OnceInv, SimInv
<1>1. \A d \in Runs : d \in Cases BY DEF Cases
<1>2. \A d \in Runs, y \in Ev : log[<<d, d, y>>] \in Nat /\ skipped[<<d, y>>] \in Nat
    BY <1>1 DEF SimTypes
<1>3. skipped' \in [Cases \X Ev -> Nat]
  <2>1. \A z \in Cases \X Ev : skipped[z] \in Nat /\ skipped[z] + 1 \in Nat OBVIOUS
  <2> QED BY <2>1 DEF Records
<1>4. PICK n, m :
          /\ n = [d \in Runs |-> [y \in Ev |-> log[<<d, d, y>>] + skipped[<<d, y>>]]]
          /\ m = [d \in Runs |-> [y \in Ev |-> log'[<<d, d, y>>] + skipped'[<<d, y>>]]]
    OBVIOUS
<1>5. /\ \A d \in Runs, y \in Ev : n[d][y] \in Nat
      /\ \A d \in Runs, y \in Ev : d = c /\ y = e => m[d][y] = n[d][y] + 1
      /\ \A d \in Runs, y \in Ev : ~(d = c /\ y = e) => m[d][y] = n[d][y]
  <2> SUFFICES ASSUME NEW d \in Runs, NEW y \in Ev
               PROVE  /\ n[d][y] \in Nat
                      /\ d = c /\ y = e => m[d][y] = n[d][y] + 1
                      /\ ~(d = c /\ y = e) => m[d][y] = n[d][y]
      OBVIOUS
  <2>1. /\ <<d, d, y>> \in Cases \X Cases \X Ev /\ <<d, y>> \in Cases \X Ev
        /\ <<d, d, y>> = <<c, c, e>> <=> d = c /\ y = e
        /\ <<d, y>> = <<c, e>> <=> d = c /\ y = e
      BY <1>1
  <2>2. /\ n[d][y] = log[<<d, d, y>>] + skipped[<<d, y>>]
        /\ m[d][y] = log'[<<d, d, y>>] + skipped'[<<d, y>>]
      BY <1>4
  <2>3. CASE log' = [log EXCEPT ![<<c, c, e>>] = @ + 1] /\ skipped' = skipped
    <3>1. PICK z, x : z = <<d, d, y>> /\ x = <<c, c, e>> OBVIOUS
    <3>2. log' = [log EXCEPT ![x] = log[x] + 1] /\ z \in Cases \X Cases \X Ev BY <2>1, <2>3, <3>1
    <3>3. log'[z] = IF z = x THEN log[z] + 1 ELSE log[z] BY <3>2 DEF SimTypes
    <3> QED BY <1>2, <2>1, <2>2, <2>3, <3>1, <3>3
  <2>4. CASE skipped' = [skipped EXCEPT ![<<c, e>>] = @ + 1] /\ log' = log
      BY <1>2, <2>1, <2>2, <2>4
  <2> QED BY <2>3, <2>4 DEF Records
<1>6. \A d \in Runs : Fired(d) = {y \in Ev : n[d][y] > 0}
  <2>1. \A d \in Runs :
            Fired(d) = {y \in Ev : log[<<d, d, y>>] + skipped[<<d, y>>] > 0}
    <3>1. /\ log \in [Cases \X Cases \X Ev -> Nat]
          /\ \A x, d \in Cases, y \in Ev : log[<<x, d, y>>] > 0 => x = d
        BY DEF SimTypes, EventsInOwnCase
    <3> QED BY <3>1, FiredIs DEF Fired
  <2> SUFFICES ASSUME NEW d \in Runs PROVE Fired(d) = {y \in Ev : n[d][y] > 0} OBVIOUS
  <2>2. \A y \in Ev : n[d][y] = log[<<d, d, y>>] + skipped[<<d, y>>] BY <1>4
  <2>3. \A y \in Ev : n[d][y] > 0 <=> log[<<d, d, y>>] + skipped[<<d, y>>] > 0 BY <2>2
  <2>4. Fired(d) = {y \in Ev : log[<<d, d, y>>] + skipped[<<d, y>>] > 0} BY <2>1
  <2> QED BY <2>3, <2>4, Zenon
<1>7. \A d \in Runs : Fired(d)' = {y \in Ev : m[d][y] > 0}
  <2>1. \A d \in Runs :
            Fired(d)' = {y \in Ev : log'[<<d, d, y>>] + skipped'[<<d, y>>] > 0}
    <3>1. /\ log' \in [Cases \X Cases \X Ev -> Nat]
          /\ \A x, d \in Cases, y \in Ev : log'[<<x, d, y>>] > 0 => x = d
        BY DEF SimTypes, EventsInOwnCase
    <3> QED BY <1>3, <3>1, FiredIs DEF Fired
  <2> SUFFICES ASSUME NEW d \in Runs PROVE Fired(d)' = {y \in Ev : m[d][y] > 0} OBVIOUS
  <2>2. \A y \in Ev : m[d][y] = log'[<<d, d, y>>] + skipped'[<<d, y>>] BY <1>4
  <2>3. \A y \in Ev : m[d][y] > 0 <=> log'[<<d, d, y>>] + skipped'[<<d, y>>] > 0 BY <2>2
  <2>4. Fired(d)' = {y \in Ev : log'[<<d, d, y>>] + skipped'[<<d, y>>] > 0} BY <2>1
  <2> QED BY <2>3, <2>4, Zenon
<1>8. n[c][e] = 0 BY <1>5, <1>6
<1>9. StepsOnce'
  <2>1. \A d \in Runs, y \in Ev : n[d][y] <= 1 BY <1>4 DEF StepsOnce
  <2>2. \A d \in Runs, y \in Ev : m[d][y] <= 1 BY <1>5, <1>8, <2>1
  <2> QED BY <1>4, <2>2 DEF StepsOnce
<1>10. Fired(c)' = Fired(c) \cup {e}
  <2>1. \A y \in Ev : m[c][y] > 0 <=> n[c][y] > 0 \/ y = e BY <1>5
  <2> QED BY <1>6, <1>7, <2>1
<1>11. \A d \in Runs : d # c => Fired(d)' = Fired(d)
  <2> SUFFICES ASSUME NEW d \in Runs, d # c PROVE Fired(d)' = Fired(d) OBVIOUS
  <2>1. \A y \in Ev : m[d][y] = n[d][y] BY <1>5
  <2>2. Fired(d) = {y \in Ev : n[d][y] > 0} /\ Fired(d)' = {y \in Ev : m[d][y] > 0}
      BY <1>6, <1>7
  <2> QED BY <2>1, <2>2
<1> QED BY <1>3, <1>9, <1>10, <1>11

\* A step takes the first event that is not on record and its satellites: none
\* of these is on record, and each anchor of one of them is, or comes first.
LEMMA StepFits ==
    ASSUME CoupledInOrder, OnceInv, NEW c \in Runs, CurrentStep(c) \in 1..Len(Order),
           NEW e, e = Order[CurrentStep(c)]
    PROVE  Fires(Request("read", "step", c, e, <<e>> \o Coupled[e], NoScope), Fired(c))
<1>1. e \in Ev /\ e \notin Fired(c) BY CurrentIsFirst
<1>2. \A j \in 1..(CurrentStep(c) - 1) : Order[j] \in Fired(c) BY CurrentIsFirst
<1>3. Coupled[e] \in Seq(Ev) /\ Len(Coupled[e]) \in Nat BY <1>1, SimAssumption, LenProperties
<1>4. PICK t : t = <<e>> \o Coupled[e] OBVIOUS
<1>5. PICK n \in Nat : n = Len(Coupled[e]) BY <1>3
<1>6. /\ Len(t) = n + 1 /\ t[1] = e
      /\ \A i \in 1..n : t[i + 1] = Coupled[e][i]
  <2>1. <<e>> \in Seq(Ev) /\ Len(<<e>>) = 1 /\ <<e>>[1] = e BY <1>1
  <2> QED BY <1>3, <1>4, <1>5, <2>1, ConcatProperties
<1>7. \A i \in 2..Len(t) : t[i] = Coupled[e][i - 1] /\ i - 1 \in 1..n BY <1>6
<1>8. \A i \in 2..Len(t) : t[i] \in Satellites(e) BY <1>5, <1>7 DEF Satellites
<1>9. \A a \in Ev : e \in Satellites(a) => a \in Fired(c)
  <2> SUFFICES ASSUME NEW a \in Ev, e \in Satellites(a) PROVE a \in Fired(c) OBVIOUS
  <2>1. PICK k \in 1..Len(Order) : Order[k] = a BY DEF Ev
  <2>2. k < CurrentStep(c) BY <2>1 DEF CoupledInOrder
  <2>3. Len(Order) \in Nat BY SimAssumption, LenProperties
  <2> QED BY <1>2, <2>1, <2>2, <2>3
<1>10. e \notin Satellites(e) BY <1>1, <1>9
<1>11. \A i \in 1..Len(t) : t[i] \notin Fired(c)
  <2>1. \A s \in Satellites(e) : s \notin Fired(c) BY <1>1 DEF OnceInv, AnchorsFirst
  <2> QED BY <1>1, <1>6, <1>8, <2>1
<1>12. \A i, j \in 1..Len(t) : t[i] = t[j] => i = j
  <2> SUFFICES ASSUME NEW i \in 1..Len(t), NEW j \in 1..Len(t), t[i] = t[j] PROVE i = j OBVIOUS
  <2>1. CASE i \in 2..Len(t) /\ j \in 2..Len(t)
    <3>1. Coupled[e][i - 1] = Coupled[e][j - 1] /\ i - 1 \in 1..n /\ j - 1 \in 1..n
        BY <1>7, <2>1
    <3>2. i - 1 = j - 1 BY <1>1, <1>5, <3>1 DEF CoupledInOrder
    <3> QED BY <2>1, <3>2
  <2>2. CASE i = 1
    <3>1. j \in 2..Len(t) => t[j] # t[i] BY <1>6, <1>8, <1>10, <2>2
    <3> QED BY <1>6, <2>2, <3>1
  <2>3. CASE j = 1
    <3>1. i \in 2..Len(t) => t[i] # t[j] BY <1>6, <1>8, <1>10, <2>3
    <3> QED BY <1>6, <2>3, <3>1
  <2> QED BY <1>6, <2>1, <2>2, <2>3
<1>13. \A i \in 1..Len(t) : \A a \in Ev : t[i] \in Satellites(a)
           => a \in Fired(c) \/ \E j \in 1..(i - 1) : t[j] = a
  <2> SUFFICES ASSUME NEW i \in 1..Len(t), NEW a \in Ev, t[i] \in Satellites(a),
                      a \notin Fired(c)
               PROVE  \E j \in 1..(i - 1) : t[j] = a
      OBVIOUS
  <2>1. i \in 2..Len(t) /\ i \in Nat BY <1>6, <1>9
  <2>2. /\ Coupled[e][i - 1] \in Satellites(a) /\ i - 1 \in 1..n BY <1>7, <2>1
  <2>3. a = e \/ e \in Satellites(a) \/ \E j \in 1..(i - 1 - 1) : Coupled[e][j] = a
    <3>1. \A h \in 1..Len(Coupled[e]) :
              Coupled[e][h] \in Satellites(a)
                  => a = e \/ e \in Satellites(a) \/ \E j \in 1..(h - 1) : Coupled[e][j] = a
        BY <1>1 DEF CoupledInOrder
    <3> QED BY <1>5, <2>2, <3>1
  <2>4. CASE a = e BY <1>6, <2>1, <2>4
  <2>5. CASE \E j \in 1..(i - 1 - 1) : Coupled[e][j] = a
    <3>1. PICK j \in 1..(i - 1 - 1) : Coupled[e][j] = a BY <2>5
    <3>2. j \in 1..n /\ j + 1 \in 1..(i - 1) BY <2>1, <2>2, <3>1
    <3>3. t[j + 1] = a BY <1>6, <3>1, <3>2
    <3> QED BY <3>2, <3>3
  <2> QED BY <1>9, <2>3, <2>4, <2>5
<1> DEFINE r == Request("read", "step", c, e, t, NoScope)
<1>14. r.at = "read" /\ r.kind = "step" /\ r.id = c /\ r.main = e /\ r.todo = t BY DEF Request
<1> HIDE DEF r
<1>15. Fires(r, Fired(c)) BY <1>6, <1>11, <1>12, <1>13, <1>14 DEF Fires
<1> QED BY <1>4, <1>15 DEF r

\* Of the events to fire, only the first is among those of f.
OnlyFirst(todo, f) == \A i \in 1..Len(todo) : todo[i] \in f <=> i = 1

\* The events a request still fires, once the first of them is on record.
LEMMA RestFits ==
    ASSUME NEW r, NEW f, r.todo \in Seq(Ev), Len(r.todo) > 1, r.main \in f, r.id \in Runs,
           \A i, j \in 1..Len(r.todo) : r.todo[i] = r.todo[j] => i = j,
           OnlyFirst(r.todo, f),
           \A i \in 1..Len(r.todo) : \A a \in Ev : r.todo[i] \in Satellites(a)
               => a \in f \/ \E j \in 1..(i - 1) : r.todo[j] = a,
           NEW s, s.id = r.id, s.main = r.main, s.at = "read", s.kind = "sat",
           s.todo = Tail(r.todo)
    PROVE  Fires(s, f)
<1>1. PICK n : n = Len(r.todo) OBVIOUS
<1>2. n \in Nat /\ n > 1 /\ r.todo # <<>> BY <1>1, LenProperties, EmptySeq
<1>3. Len(s.todo) = n - 1 /\ \A i \in 1..(n - 1) : s.todo[i] = r.todo[i + 1]
    BY <1>1, <1>2, HeadTailProperties
<1>4. \A i \in 1..Len(s.todo) : i + 1 \in 1..n /\ i + 1 # 1 BY <1>2, <1>3
<1>5. \A i, j \in 1..Len(s.todo) : s.todo[i] = s.todo[j] => i = j BY <1>1, <1>3, <1>4
<1>6. \A i \in 1..Len(s.todo) : s.todo[i] \notin f BY <1>1, <1>3, <1>4 DEF OnlyFirst
<1>7. \A i \in 1..Len(s.todo) : \A a \in Ev : s.todo[i] \in Satellites(a)
          => a \in f \/ \E j \in 1..(i - 1) : s.todo[j] = a
  <2> SUFFICES ASSUME NEW i \in 1..Len(s.todo), NEW a \in Ev, s.todo[i] \in Satellites(a),
                      a \notin f
               PROVE  \E j \in 1..(i - 1) : s.todo[j] = a
      OBVIOUS
  <2>0. /\ i + 1 \in 1..Len(r.todo) /\ r.todo[i + 1] \in Satellites(a) /\ (i + 1) - 1 = i
      BY <1>1, <1>2, <1>3, <1>4
  <2>1. PICK j \in 1..i : r.todo[j] = a BY <2>0
  <2>2. j # 1 /\ j \in 1..n BY <1>1, <1>2, <1>3, <2>1 DEF OnlyFirst
  <2>3. j - 1 \in 1..(i - 1) /\ j - 1 \in 1..(n - 1) /\ (j - 1) + 1 = j
      BY <1>2, <1>3, <2>1, <2>2
  <2>4. s.todo[j - 1] = a BY <1>3, <2>1, <2>3
  <2> QED BY <2>3, <2>4
<1>8. \A i \in 1..Len(s.todo) : s.todo[i] \in f <=> (s.at = "emitted" /\ i = 1) BY <1>6
<1> QED BY <1>5, <1>7, <1>8 DEF Fires

\* Recording an event whose anchors are on record keeps anchors first.
LEMMA AnchorsKept ==
    ASSUME AnchorsFirst, NEW c \in Runs, NEW e \in Ev,
           \A a \in Ev : e \in Satellites(a) => a \in Fired(c),
           Fired(c)' = Fired(c) \cup {e},
           \A d \in Runs : d # c => Fired(d)' = Fired(d)
    PROVE  AnchorsFirst'
<1> SUFFICES ASSUME NEW d \in Runs, NEW a \in Ev, NEW s \in Satellites(a), s \in Fired(d)'
             PROVE  a \in Fired(d)'
    BY DEF AnchorsFirst, Satellites
<1>1. CASE d = c BY <1>1 DEF AnchorsFirst
<1>2. CASE d # c BY <1>2 DEF AnchorsFirst
<1> QED BY <1>1, <1>2

\* A request whose first event is recorded, by its log row or its skip marker.
LEMMA FirstRecorded ==
    ASSUME OnceInv, SimInv', NEW q \in Requests,
           NEW e, e = Head(req[q].todo), NEW c, c = req[q].id,
           req[q].at \in {"apply", "skip"}, req[q].kind \in {"step", "sat"},
           Records(c, e)
    PROVE  /\ skipped' \in [Cases \X Ev -> Nat] /\ StepsOnce' /\ AnchorsFirst'
           /\ c \in Runs /\ e = req[q].todo[1]
           /\ Fired(c)' = Fired(c) \cup {e}
           /\ OnlyFirst(req[q].todo, Fired(c)')
           /\ req[q].main \in Fired(c)'
<1> USE DEF OnceInv
<1>1. /\ Fires(req[q], Fired(c)) /\ c \in Runs
      /\ req[q].todo \in Seq(Ev) /\ req[q].todo # <<>>
    BY DEF RequestFits, Fires, SimInv, SimTypes
<1>2. e \in Ev /\ e = req[q].todo[1] /\ 1 \in 1..Len(req[q].todo)
    BY <1>1, HeadTailProperties, LenProperties, EmptySeq
<1>3. e \notin Fired(c) BY <1>1, <1>2 DEF Fires
<1>4. /\ skipped' \in [Cases \X Ev -> Nat] /\ StepsOnce'
      /\ Fired(c)' = Fired(c) \cup {e}
      /\ \A d \in Runs : d # c => Fired(d)' = Fired(d)
    BY <1>1, <1>2, <1>3, RecordOne
<1>5. \A a \in Ev : e \in Satellites(a) => a \in Fired(c)
  <2>1. \A a \in Ev : e \in Satellites(a)
            => a \in Fired(c) \/ \E j \in 1..(1 - 1) : req[q].todo[j] = a
      BY <1>1, <1>2 DEF Fires
  <2> QED BY <2>1
<1>6. AnchorsFirst' BY <1>1, <1>2, <1>4, <1>5, AnchorsKept
<1>7. OnlyFirst(req[q].todo, Fired(c)') BY <1>1, <1>2, <1>4 DEF Fires, OnlyFirst
<1>8. req[q].main \in Fired(c)' BY <1>1, <1>2, <1>4 DEF Fires
<1> QED BY <1>1, <1>2, <1>4, <1>6, <1>7, <1>8

\* Nothing is recorded.
LEMMA NothingRecorded ==
    ASSUME OnceInv, UNCHANGED <<log, skipped>>
    PROVE  /\ skipped' \in [Cases \X Ev -> Nat] /\ StepsOnce' /\ AnchorsFirst'
           /\ \A c : Fired(c)' = Fired(c)
<1>1. \A c : Fired(c)' = Fired(c) BY DEF Fired
<1> QED BY <1>1 DEF OnceInv, StepsOnce, AnchorsFirst

\* Every step keeps what is recorded unique, and what is under way fitting.
LEMMA OnceNext ==
    ASSUME OneRequest, CoupledInOrder, OnceInv, [Next]_vars
    PROVE  OnceInv'
<1> PICK q \in Requests : Requests = {q} BY DEF OneRequest
<1>0. SimInv' BY SimNext DEF OnceInv
<1>1. /\ req[q].todo \in Seq(Ev) /\ req[q].at \in Ats /\ req[q].kind \in Kinds
      /\ req \in [Requests -> [at : Ats, kind : Kinds, id : Cases \cup {NoScope}, main : Ev,
                               todo : Seq(Ev), prev : Cases \cup {NoScope}]]
      /\ RequestFits(req[q], Fired(req[q].id))
    BY DEF OnceInv, SimInv, SimTypes
<1>2. ASSUME UNCHANGED <<log, skipped>>, NEW r, req'[q] = r, RequestFits(r, Fired(r.id))
      PROVE  OnceInv'
  <2>1. Fired(r.id)' = Fired(req[q].id)' BY <1>2
  <2>2. RequestFits(req'[q], Fired(req[q].id)') BY <1>2, <2>1, NothingRecorded
  <2> QED BY <1>0, <1>2, <2>2, NothingRecorded DEF OnceInv
<1>3. /\ Idle.at = "idle" /\ \A f : RequestFits(Idle, f) BY DEF Idle, Request, RequestFits
<1>4. ASSUME NEW c \in Runs, NewInstance(q, c) PROVE OnceInv'
  <2>1. PICK p : /\ req' = [req EXCEPT ![q] = Request("apply", "new", c, First, <<First>>, p)]
                 /\ UNCHANGED <<log, skipped>> /\ Fired(c) = {}
      BY <1>4 DEF NewInstance, Pin, Request
  <2> DEFINE r == Request("apply", "new", c, First, <<First>>, p)
  <2>2. RequestFits(r, Fired(r.id)) BY <2>1 DEF RequestFits, Request
  <2>3. req'[q] = r BY <1>1, <2>1
  <2> HIDE DEF r
  <2> QED BY <1>2, <2>1, <2>2, <2>3
<1>5. ASSUME NEW c \in Runs, StepRead(q, c) PROVE OnceInv'
  <2>1. PICK e : e = Order[CurrentStep(c)] OBVIOUS
  <2> DEFINE r == Request("read", "step", c, e, <<e>> \o Coupled[e], NoScope)
  <2>2. /\ UNCHANGED <<log, skipped>> /\ req'[q] = r
        /\ CurrentStep(c) \in 1..Len(Order)
      BY <1>1, <1>5, <2>1 DEF StepRead
  <2>3. r.id = c /\ r.kind = "step" /\ r.at = "read" BY DEF Request
  <2>4. Fires(r, Fired(c)) BY <2>1, <2>2, StepFits
  <2> HIDE DEF r
  <2>5. RequestFits(r, Fired(r.id)) BY <2>3, <2>4 DEF RequestFits
  <2> QED BY <1>2, <2>2, <2>5
<1>6. ASSUME StepApply(q) PROVE OnceInv'
  <2>1. PICK r : /\ req'[q] = r /\ r.at = "apply" /\ req[q].at = "read"
                 /\ r.kind = req[q].kind /\ r.id = req[q].id /\ r.main = req[q].main
                 /\ r.todo = req[q].todo
                 /\ UNCHANGED <<log, skipped>>
      BY <1>1, <1>6 DEF StepApply, Pin, Request
  <2>2. RequestFits(r, Fired(r.id)) BY <1>1, <2>1 DEF RequestFits, Fires
  <2> QED BY <1>2, <2>1, <2>2
<1>7. ASSUME NEW x \in Others, PlainCommand(q, x) PROVE OnceInv'
  <2>1. PICK r : /\ req'[q] = r /\ r.at = "apply" /\ r.kind = "plain" /\ r.id = x
                 /\ r.todo = <<Order[1]>>
                 /\ UNCHANGED <<log, skipped>>
      BY <1>1, <1>7 DEF PlainCommand, Request
  <2>2. RequestFits(r, Fired(r.id)) BY <2>1 DEF RequestFits
  <2> QED BY <1>2, <2>1, <2>2
<1>8. ASSUME ApplyThrows(q) PROVE OnceInv'
  <2>1. PICK r : /\ req'[q] = r /\ r.at = "failed" /\ req[q].at = "apply"
                 /\ r.kind = req[q].kind /\ r.id = req[q].id /\ r.main = req[q].main
                 /\ r.todo = req[q].todo
                 /\ UNCHANGED <<log, skipped>>
      BY <1>1, <1>8 DEF ApplyThrows
  <2>2. RequestFits(r, Fired(r.id)) BY <1>1, <2>1 DEF RequestFits, Fires
  <2> QED BY <1>2, <2>1, <2>2
<1>9. ASSUME ScopeThrows(q) PROVE OnceInv'
  <2>1. CASE req[q].kind \in {"step", "sat"}
    <3>1. PICK r : /\ req'[q] = r /\ r.at = "skip" /\ req[q].at = "failed"
                   /\ r.kind = req[q].kind /\ r.id = req[q].id /\ r.main = req[q].main
                   /\ r.todo = req[q].todo
                   /\ UNCHANGED <<log, skipped>>
        BY <1>1, <1>9, <2>1 DEF ScopeThrows
    <3>2. RequestFits(r, Fired(r.id)) BY <1>1, <2>1, <3>1 DEF RequestFits, Fires
    <3> QED BY <1>2, <3>1, <3>2
  <2>2. CASE req[q].kind \notin {"step", "sat"}
    <3>1. req'[q] = Idle /\ UNCHANGED <<log, skipped>> BY <1>1, <1>9, <2>2 DEF ScopeThrows
    <3> QED BY <1>2, <1>3, <3>1
  <2> QED BY <2>1, <2>2

<1>10. ASSUME NEW f, NEW g, Fires(req[q], g), g \subseteq f, req[q].main \in f,
              OnlyFirst(req[q].todo, f)
       PROVE  RequestFits(Advance(q), f)
  <2>1. CASE Len(req[q].todo) > 1
    <3>1. PICK r : r = Advance(q) OBVIOUS
    <3>2. /\ r.id = req[q].id /\ r.main = req[q].main /\ r.at = "read" /\ r.kind = "sat"
          /\ r.todo = Tail(req[q].todo)
        BY <1>1, <2>1, <3>1 DEF Advance
    <3>3. \A i \in 1..Len(req[q].todo) : \A a \in Ev : req[q].todo[i] \in Satellites(a)
              => a \in f \/ \E j \in 1..(i - 1) : req[q].todo[j] = a
        BY <1>10 DEF Fires
    <3>4. req[q].id \in Runs
          /\ \A i, j \in 1..Len(req[q].todo) : req[q].todo[i] = req[q].todo[j] => i = j
        BY <1>10 DEF Fires
    <3>5. Fires(r, f) BY <1>1, <1>10, <2>1, <3>2, <3>3, <3>4, RestFits
    <3> QED BY <3>1, <3>2, <3>5 DEF RequestFits
  <2>2. CASE ~(Len(req[q].todo) > 1) BY <1>3, <2>2 DEF Advance
  <2> QED BY <2>1, <2>2
<1>11. ASSUME ScopeReturns(q) PROVE OnceInv'
  <2>1. PICK r : r = Advance(q) /\ req'[q] = r /\ req[q].at = "emitted"
                 /\ UNCHANGED <<log, skipped>>
      BY <1>1, <1>11 DEF ScopeReturns
  <2>2. CASE req[q].kind \in {"step", "sat"}
    <3>1. PICK f : f = Fired(req[q].id) OBVIOUS
    <3>2. Fires(req[q], f) BY <1>1, <2>1, <2>2, <3>1 DEF RequestFits
    <3>3. OnlyFirst(req[q].todo, f) BY <2>1, <3>2 DEF Fires, OnlyFirst
    <3>4. req[q].main \in f
      <4>1. req[q].todo # <<>> BY <2>1 DEF OnceInv, SimInv, SimTypes
      <4>2. 1 \in 1..Len(req[q].todo) BY <1>1, <4>1, LenProperties, EmptySeq
      <4> QED BY <2>2, <3>2, <3>3, <4>2 DEF Fires, OnlyFirst
    <3>5. RequestFits(r, f) BY <1>10, <2>1, <3>2, <3>3, <3>4
    <3>6. r.id = req[q].id \/ r.at = "idle"
        BY <1>1, <1>3, <2>1 DEF Advance
    <3>7. RequestFits(r, Fired(r.id)) BY <3>1, <3>5, <3>6 DEF RequestFits
    <3> QED BY <1>2, <2>1, <3>7
  <2>3. CASE req[q].kind \notin {"step", "sat"}
    <3>1. req[q].todo \in {<<First>>, <<Order[1]>>}
        BY <1>1, <2>1, <2>3 DEF RequestFits, Kinds
    <3>2. Len(req[q].todo) = 1 BY <3>1
    <3>3. r = Idle BY <2>1, <3>2 DEF Advance
    <3> QED BY <1>2, <1>3, <2>1, <3>3
  <2> QED BY <2>2, <2>3
<1>12. ASSUME SkipLogged(q) PROVE OnceInv'
  <2>1. PICK e, c : e = Head(req[q].todo) /\ c = req[q].id OBVIOUS
  <2>2. /\ req[q].at = "skip" /\ req[q].kind \in {"step", "sat"}
        /\ skipped' = [skipped EXCEPT ![<<c, e>>] = @ + 1] /\ log' = log
        /\ Fires(req[q], Fired(c))
      BY <1>1, <1>12, <2>1 DEF SkipLogged, RequestFits
  <2>3. /\ skipped' \in [Cases \X Ev -> Nat] /\ StepsOnce' /\ AnchorsFirst'
        /\ Fired(c)' = Fired(c) \cup {e}
        /\ OnlyFirst(req[q].todo, Fired(c)')
        /\ req[q].main \in Fired(c)'
    <3>1. Records(c, e) BY <2>2 DEF Records
    <3> QED BY <1>0, <2>1, <2>2, <3>1, FirstRecorded
  <2>4. PICK f : f = Fired(c)' OBVIOUS
  <2>5. PICK r : req'[q] = r /\ r \in {Idle, Advance(q)} BY <1>1, <1>12 DEF SkipLogged
  <2>6. RequestFits(r, f) BY <1>3, <1>10, <2>2, <2>3, <2>4, <2>5
  <2>7. r.id = c \/ r.at = "idle" BY <1>1, <1>3, <2>1, <2>5 DEF Advance
  <2>8. RequestFits(req'[q], Fired(req[q].id)')
    <3>1. CASE r.id = c
      <4>1. Fired(req[q].id)' = Fired(c)' BY <2>5, <3>1
      <4> QED BY <2>4, <2>5, <2>6, <4>1
    <3>2. CASE r.at = "idle" BY <2>5, <3>2 DEF RequestFits
    <3> QED BY <2>7, <3>1, <3>2
  <2> QED BY <1>0, <2>3, <2>8 DEF OnceInv
<1>13. ASSUME Emit(q) PROVE OnceInv'
  <2>1. PICK e, c : e = Head(req[q].todo) /\ c = req[q].id OBVIOUS
  <2>2. /\ req[q].at = "apply" /\ skipped' = skipped /\ c \in Cases /\ e \in Ev
        /\ req[q].todo # <<>>
    <3>1. req[q].at = "apply" /\ skipped' = skipped BY <1>13 DEF Emit
    <3>2. req[q].todo \in Seq(Ev) /\ req[q].id \in Cases /\ req[q].todo # <<>>
        BY <3>1 DEF OnceInv, SimInv, SimTypes
    <3> QED BY <2>1, <3>1, <3>2
  <2>3. log' = [log EXCEPT ![<<c, c, e>>] = @ + 1]
    <3>1. scopeOverride \in {NoScope, req[q].id} BY DEF OnceInv, SimInv, ScopeFollows
    <3> QED BY <1>13, <2>1, <3>1 DEF Emit
  <2>4. PICK r : /\ req'[q] = r /\ r.at = "emitted"
                 /\ r.kind = req[q].kind /\ r.id = c /\ r.main = req[q].main
                 /\ r.todo = req[q].todo
    <3>1. req' = [req EXCEPT ![q] = [req[q] EXCEPT !.at = "emitted"]] BY <1>13 DEF Emit
    <3>2. req'[q] = [req[q] EXCEPT !.at = "emitted"] BY <1>1, <3>1
    <3>3. req[q] \in [at : Ats, kind : Kinds, id : Cases \cup {NoScope}, main : Ev,
                      todo : Seq(Ev), prev : Cases \cup {NoScope}]
        BY <1>1
    <3> QED BY <2>1, <3>2, <3>3
  <2>5. Fired(req[q].id)' = Fired(c)' BY <2>4
  <2>6. CASE req[q].kind \in {"step", "sat"}
    <3>1. Fires(req[q], Fired(c)) BY <1>1, <2>1, <2>2, <2>6 DEF RequestFits
    <3>2. /\ skipped' \in [Cases \X Ev -> Nat] /\ StepsOnce' /\ AnchorsFirst'
          /\ Fired(c)' = Fired(c) \cup {e} /\ e = req[q].todo[1]
          /\ OnlyFirst(req[q].todo, Fired(c)')
          /\ req[q].main \in Fired(c)'
      <4>1. Records(c, e) BY <2>2, <2>3 DEF Records
      <4> QED BY <1>0, <2>1, <2>2, <2>6, <4>1, FirstRecorded
    <3>3. PICK f, g : f = Fired(c)' /\ g = Fired(c) OBVIOUS
    <3>4. Fires(r, f)
      <4>1. r.id \in Runs /\ (r.kind = "step" => r.todo[1] = r.main) /\ r.main \in f
          BY <2>1, <2>4, <3>1, <3>2, <3>3 DEF Fires
      <4>2. \A i, j \in 1..Len(r.todo) : r.todo[i] = r.todo[j] => i = j
          BY <2>4, <3>1 DEF Fires
      <4>3. \A i \in 1..Len(r.todo) : r.todo[i] \in f <=> (r.at = "emitted" /\ i = 1)
          BY <2>4, <3>2, <3>3 DEF OnlyFirst
      <4>4. \A i \in 1..Len(r.todo) : \A a \in Ev : r.todo[i] \in Satellites(a)
                => a \in f \/ \E j \in 1..(i - 1) : r.todo[j] = a
          BY <2>4, <3>1, <3>2, <3>3 DEF Fires
      <4> QED BY <4>1, <4>2, <4>3, <4>4 DEF Fires
    <3>5. RequestFits(req'[q], Fired(req[q].id)') BY <2>4, <2>5, <2>6, <3>3, <3>4 DEF RequestFits
    <3> QED BY <1>0, <3>2, <3>5 DEF OnceInv
  <2>7. CASE req[q].kind = "new"
    <3>1. c \in Runs /\ req[q].todo = <<First>> /\ Fired(c) = {}
        BY <1>1, <2>1, <2>2, <2>7 DEF RequestFits
    <3>2. e = First /\ e \notin Fired(c) BY <2>1, <3>1
    <3>3. /\ skipped' \in [Cases \X Ev -> Nat] /\ StepsOnce'
          /\ Fired(c)' = Fired(c) \cup {e}
          /\ \A d \in Runs : d # c => Fired(d)' = Fired(d)
      <4>1. Records(c, e) BY <2>2, <2>3 DEF Records
      <4> QED BY <1>0, <2>2, <3>1, <3>2, <4>1, RecordOne
    <3>4. \A a \in Ev : e \notin Satellites(a) BY <3>2 DEF CoupledInOrder
    <3>5. AnchorsFirst' BY <2>2, <3>1, <3>3, <3>4, AnchorsKept DEF OnceInv
    <3>6. RequestFits(req'[q], Fired(req[q].id)')
        BY <2>4, <2>7, <3>1 DEF RequestFits
    <3> QED BY <1>0, <3>3, <3>5, <3>6 DEF OnceInv
  <2>8. CASE req[q].kind = "plain"
    <3>1. c \in Others /\ r.todo = <<Order[1]>>
        BY <1>1, <2>1, <2>2, <2>4, <2>8 DEF RequestFits
    <3>2. \A d \in Runs : d \in Cases /\ d # c BY <3>1, SimAssumption DEF Cases
    <3>3. \A x \in Cases, d \in Runs, y \in Ev : log'[<<x, d, y>>] = log[<<x, d, y>>]
        BY <2>3, <3>2 DEF OnceInv, SimInv, SimTypes
    <3>4. \A d \in Runs : Fired(d)' = Fired(d) BY <2>2, <3>3 DEF Fired
    <3>5. StepsOnce' BY <2>2, <3>2, <3>3 DEF OnceInv, StepsOnce
    <3>6. AnchorsFirst' BY <3>4 DEF OnceInv, AnchorsFirst
    <3>7. RequestFits(req'[q], Fired(req[q].id)') BY <2>4, <2>8, <3>1 DEF RequestFits
    <3> QED BY <1>0, <2>2, <3>5, <3>6, <3>7 DEF OnceInv
  <2> QED BY <1>1, <2>6, <2>7, <2>8 DEF Kinds
<1>14. ASSUME NEW c \in Runs, DeleteInstance(q, c) PROVE OnceInv'
  <2>1. req[q].at = "idle" /\ req' = req BY <1>14 DEF DeleteInstance, BeginRequest
  <2>2. RequestFits(req'[q], Fired(req[q].id)') BY <2>1 DEF RequestFits
  <2>3. /\ \A x \in Cases, d \in Runs, y \in Ev : log'[<<x, d, y>>]
                = IF d = c THEN 0 ELSE log[<<x, d, y>>]
        /\ \A d \in Runs, y \in Ev : skipped'[<<d, y>>] = IF d = c THEN 0 ELSE skipped[<<d, y>>]
        /\ skipped' \in [Cases \X Ev -> Nat]
      BY <1>14 DEF DeleteInstance, OnceInv, SimInv, SimTypes, Cases
  <2>4. \A d \in Runs : d \in Cases BY DEF Cases
  <2>5. StepsOnce'
    <3>1. \A d \in Runs, y \in Ev : log[<<d, d, y>>] + skipped[<<d, y>>] <= 1
        BY DEF OnceInv, StepsOnce
    <3>2. ASSUME NEW d \in Runs, NEW y \in Ev
          PROVE  log'[<<d, d, y>>] + skipped'[<<d, y>>] <= 1
      <4>1. CASE d = c
        <5>1. log'[<<d, d, y>>] = 0 /\ skipped'[<<d, y>>] = 0 BY <2>3, <2>4, <4>1
        <5> QED BY <5>1
      <4>2. CASE d # c
        <5>1. /\ log'[<<d, d, y>>] = log[<<d, d, y>>]
              /\ skipped'[<<d, y>>] = skipped[<<d, y>>]
            BY <2>3, <2>4, <4>2
        <5> QED BY <3>1, <5>1
      <4> QED BY <4>1, <4>2
    <3> QED BY <3>2 DEF StepsOnce
  <2>6. \A d \in Runs : Fired(d)' = IF d = c THEN {} ELSE Fired(d)
    <3> SUFFICES ASSUME NEW d \in Runs PROVE Fired(d)' = IF d = c THEN {} ELSE Fired(d) OBVIOUS
    <3>1. CASE d = c
      <4>1. /\ \A x \in Cases, y \in Ev : log'[<<x, d, y>>] = 0
            /\ \A y \in Ev : skipped'[<<d, y>>] = 0
          BY <2>3, <3>1
      <4>2. ASSUME NEW y \in Ev, y \in Fired(d)' PROVE FALSE
        <5>1. (\E x \in Cases : log'[<<x, d, y>>] > 0) \/ skipped'[<<d, y>>] > 0
            BY <4>2 DEF Fired
        <5>2. skipped'[<<d, y>>] = 0 /\ ~(skipped'[<<d, y>>] > 0) BY <4>1
        <5>3. PICK x \in Cases : log'[<<x, d, y>>] > 0 BY <5>1, <5>2
        <5>4. log'[<<x, d, y>>] = 0 BY <4>1
        <5> QED BY <5>3, <5>4
      <4>3. Fired(d)' \subseteq Ev BY DEF Fired
      <4> QED BY <3>1, <4>2, <4>3
    <3>2. CASE d # c
      <4>1. /\ \A x \in Cases, y \in Ev : log'[<<x, d, y>>] = log[<<x, d, y>>]
            /\ \A y \in Ev : skipped'[<<d, y>>] = skipped[<<d, y>>]
          BY <2>3, <3>2
      <4> QED BY <3>2, <4>1 DEF Fired
    <3> QED BY <3>1, <3>2
  <2>7. AnchorsFirst' BY <2>6 DEF OnceInv, AnchorsFirst
  <2> QED BY <1>0, <2>2, <2>3, <2>5, <2>7 DEF OnceInv
<1>15. CASE UNCHANGED vars
  <2>1. UNCHANGED <<log, skipped>> /\ req'[q] = req[q] BY <1>15 DEF vars
  <2> QED BY <1>1, <1>2, <2>1
<1> QED
  BY <1>4, <1>5, <1>6, <1>7, <1>8, <1>9, <1>11, <1>12, <1>13, <1>14, <1>15 DEF Next

LEMMA OnceInit == ASSUME OneRequest, Init PROVE OnceInv
<1>1. SimInv BY SimInit
<1>2. /\ skipped \in [Cases \X Ev -> Nat]
      /\ \A c \in Runs, e \in Ev : <<c, c, e>> \in Cases \X Cases \X Ev /\ <<c, e>> \in Cases \X Ev
    BY DEF Init, Cases
<1>3. StepsOnce
  <2> SUFFICES ASSUME NEW c \in Runs, NEW e \in Ev
               PROVE  log[<<c, c, e>>] + skipped[<<c, e>>] <= 1
      BY DEF StepsOnce
  <2>1. PICK y, z : y = <<c, c, e>> /\ z = <<c, e>> OBVIOUS
  <2>2. y \in Cases \X Cases \X Ev /\ z \in Cases \X Ev BY <1>2, <2>1
  <2>3. log[y] = 0 /\ skipped[z] = 0 BY <2>2 DEF Init
  <2> QED BY <2>1, <2>3
<1>4. AnchorsFirst
  <2>1. ASSUME NEW c \in Runs, NEW e \in Ev, e \in Fired(c) PROVE FALSE
    <3>1. c \in Cases BY DEF Cases
    <3>2. /\ \A x \in Cases : log[<<x, c, e>>] = 0 /\ ~(log[<<x, c, e>>] > 0)
          /\ skipped[<<c, e>>] = 0 /\ ~(skipped[<<c, e>>] > 0)
        BY <3>1 DEF Init
    <3> QED BY <2>1, <3>2 DEF Fired
  <2>2. \A a \in Ev : Satellites(a) \subseteq Ev
      BY SimAssumption DEF Satellites
  <2> QED BY <2>1, <2>2 DEF AnchorsFirst
<1>5. \A q \in Requests : RequestFits(req[q], Fired(req[q].id))
    BY DEF Init, Idle, Request, RequestFits
<1> QED BY <1>1, <1>2, <1>3, <1>4, <1>5 DEF OnceInv

THEOREM OnceInvHolds == ASSUME OneRequest, CoupledInOrder PROVE Spec => []OnceInv
<1>1. Init => OnceInv BY OnceInit
<1>2. OnceInv /\ [Next]_vars => OnceInv' BY OnceNext
<1> QED BY <1>1, <1>2, PTL DEF Spec

\* Requests that come one at a time record every event of a run at most once: a
\* step never fires an event that has its row or its skip marker, nor do the
\* events coupled to it.
THEOREM StepsOnceEach == ASSUME OneRequest, CoupledInOrder PROVE Spec => []StepsOnce
<1>1. OnceInv => StepsOnce BY DEF OnceInv
<1> QED BY <1>1, OnceInvHolds, PTL

\* A step or a coupled event that is over leaves the step's event on record.
LEMMA AdvanceNext ==
    ASSUME OneRequest, CoupledInOrder, OnceInv, [Next]_vars,
           NEW q \in Requests, NEW c, c = req[q].id, req[q].kind \in {"step", "sat"},
           req[q].at # "idle", req'[q].at = "idle"
    PROVE  req[q].main \in Fired(c)'
<1>0. SimInv' /\ Requests = {q} BY SimNext DEF OnceInv, OneRequest
<1>1. /\ req \in [Requests -> [at : Ats, kind : Kinds, id : Cases \cup {NoScope}, main : Ev,
                               todo : Seq(Ev), prev : Cases \cup {NoScope}]]
      /\ Fires(req[q], Fired(c)) /\ req[q].todo # <<>>
    BY DEF OnceInv, SimInv, SimTypes, RequestFits
<1>2. CASE ScopeReturns(q)
  <2>1. req[q].at = "emitted" /\ UNCHANGED <<log, skipped>> BY <1>2 DEF ScopeReturns
  <2>2. req[q].todo \in Seq(Ev) /\ 1 \in 1..Len(req[q].todo)
      BY <1>1, EmptySeq, LenProperties
  <2>3. req[q].main \in Fired(c) BY <1>1, <2>1, <2>2 DEF Fires
  <2> QED BY <2>1, <2>3 DEF Fired
<1>3. CASE SkipLogged(q)
  <2>1. req[q].at = "skip" BY <1>3 DEF SkipLogged
  <2>2. Records(c, Head(req[q].todo)) BY <1>3 DEF SkipLogged, Records
  <2> QED BY <1>0, <2>1, <2>2, FirstRecorded
<1>4. ~StepApply(q) BY <1>1 DEF StepApply, Pin, Request
<1>5. ~Emit(q) /\ ~ApplyThrows(q) BY <1>1 DEF Emit, ApplyThrows
<1>6. ~ScopeThrows(q) BY <1>1 DEF ScopeThrows
<1>7. ~(\E d \in Runs : NewInstance(q, d)) BY DEF NewInstance, BeginRequest
<1>8. ~(\E d \in Runs : StepRead(q, d)) BY DEF StepRead, BeginRequest
<1>9. ~(\E d \in Runs : DeleteInstance(q, d)) BY DEF DeleteInstance, BeginRequest
<1>10. ~(\E x \in Others : PlainCommand(q, x)) BY DEF PlainCommand, BeginRequest
<1>11. ~UNCHANGED vars BY DEF vars
<1> QED
  BY <1>0, <1>2, <1>3, <1>4, <1>5, <1>6, <1>7, <1>8, <1>9, <1>10, <1>11 DEF Next

\* Requests that come one at a time make progress: every step that ends has put
\* the event it was about on record, by its row or its skip marker.
THEOREM StepsAdvance == ASSUME OneRequest, CoupledInOrder PROVE Spec => StepAdvances
<1>1. ASSUME OnceInv, [Next]_vars, NEW q \in Requests, NEW c \in Runs, NEW e \in Ev,
             req[q].kind \in {"step", "sat"}, req[q].id = c, req[q].main = e,
             req[q].at # "idle", req'[q].at = "idle"
      PROVE  e \in Fired(c)'
  <2>1. req[q].main \in Fired(c)' BY <1>1, AdvanceNext
  <2> QED BY <1>1, <2>1
<1>2. OnceInv /\ [Next]_vars
      => [\A q \in Requests, c \in Runs, e \in Ev :
             /\ req[q].kind \in {"step", "sat"} /\ req[q].id = c /\ req[q].main = e
             /\ req[q].at # "idle" /\ req'[q].at = "idle"
             => e \in Fired(c)']_vars
    BY <1>1
<1> QED BY <1>2, OnceInvHolds, PTL DEF Spec, StepAdvances

-----------------------------------------------------------------------------
\* The statements of createVersion and applyModelTables, then reingestAll.
Versioning == {"row", "find", "resource", "ontology", "read", "last", "version",
               "point", "head", "move", "branch"}
Making == {"list", "carry", "drop", "make", "wipe", "ingest"}
Pulling == {"ensure", "land", "derive", "emit"}
Deleting == {"sought", "listed", "commit", "tables", "unlink"}
Places == Versioning \cup Making \cup Pulling \cup Deleting \cup {"idle", "hook", "hooked", "pull"}

Opers == {"none", "create", "apply", "delete", "pull", "rollback"}
Creators == Clients \cup {None, Earlier}

Handlings == [op : Opers, at : Places, m : Models \cup {None}, oid : Creators, saw : Nat,
              todo : SUBSET Entities, kept : SUBSET (Entities \X Ids),
              on : Entities \cup {None}, shape : Models \cup {None}]

\* A request is at the statements of its operation, and knows its model there.
Sound(r) ==
    /\ r \in Handlings
    /\ r.at \in Versioning \cup Making => r.op \in {"create", "apply"} /\ r.m \in Models
    /\ r.at \in {"hook", "hooked"} => r.op \in {"apply", "delete", "pull"}
                                      /\ (r.op = "apply" => r.m \in Models)
    /\ r.at = "pull" => r.op = "pull"
    /\ r.at \in Pulling => r.op \in {"create", "apply", "pull"} /\ r.m \in Models
    /\ r.at \in {"ensure", "land"} => r.on \in Entities /\ r.shape \in Models
    /\ r.at \in Deleting => r.op \in {"delete", "rollback"}

Stores ==
    /\ wf \in {"none", "live", "deleted"}
    /\ res \in Creators /\ ont \in Creators
    /\ versions \in Seq(Models) /\ current \in Nat /\ main \in Nat
    /\ tables \in [Entities -> Table \cup {None}]
    /\ events \subseteq Entities \X Ids
    /\ live \in Models \cup {None} /\ acts \in Ids
    /\ recorded \subseteq Actuated \X Ids
    /\ torn \in BOOLEAN /\ alone \in Clients \cup {None}

ApplyTypes ==
    /\ Stores
    /\ client \in [Clients -> Handlings]
    /\ \A c \in Clients : Sound(client[c])

-----------------------------------------------------------------------------
\* While its table is rebuilt a record is where its rows are carried.
Carrying(c) == client[c].at \in {"drop", "make"}

KeptInv ==
    /\ \A c \in Clients : client[c].at \in {"tables", "unlink"} => wf = "deleted"
    /\ ~torn => \A c, d \in Clients : Rebuilding(c) /\ Rebuilding(d) => c = d
    /\ wf # "deleted" /\ ~torn =>
          /\ \A x \in recorded :
                x \in Evidence \/ \E c \in Clients : Carrying(c) /\ x \in client[c].kept
          /\ \A c \in Clients : client[c].at = "drop" =>
                \A x \in recorded : x[1] \in client[c].todo => x \in client[c].kept

-----------------------------------------------------------------------------
Agrees(m) == current # 0 /\ versions[current] = m

Shaped(e, m) == tables[e] # None /\ tables[e].shape = m

\* What a request has brought about so far that nothing has overlapped.
AppliedSoFar(r) ==
    /\ r.at = "point" => r.saw # 0 /\ versions[r.saw] = r.m
    /\ r.at \in {"head", "move", "branch"} \cup Making \cup Pulling => Agrees(r.m)
    /\ r.at \in Making \cup Pulling => live = r.m
    /\ r.at = "carry" => Existing \subseteq r.todo
    /\ r.at \in {"ensure", "land"} => r.on \in Ents[r.m]
    /\ r.at = "drop" => Existing \subseteq r.todo \cup (Actuated \ Ents[r.m])
    /\ r.at = "make" => /\ r.todo \subseteq Ents[r.m]
                        /\ Existing \subseteq (Ents[r.m] \ r.todo) \cup (Actuated \ Ents[r.m])
                        /\ \A e \in Ents[r.m] \ r.todo : Shaped(e, r.m)
    /\ r.at \in {"wipe", "ingest"} \cup Pulling =>
          /\ \A e \in Ents[r.m] : Shaped(e, r.m)
          /\ Existing \subseteq Ents[r.m] \cup Actuated
    /\ r.at \in {"ingest", "ensure", "land", "derive"} => events = {}
    /\ r.at = "emit" => events \cup r.kept = EvidenceOf(r.m)

DeletedSoFar(r) ==
    /\ r.at \in {"tables", "unlink"} =>
          wf = "deleted" /\ res = None /\ ont = None /\ versions = <<>> /\ events = {}
    /\ r.at = "unlink" => Existing \subseteq r.todo

SoFar(c) == /\ client[c].op \in {"create", "apply"} => AppliedSoFar(client[c])
            /\ client[c].at \in Deleting => DeletedSoFar(client[c])

LoneInv ==
    /\ alone # None => (\A d \in Clients \ {alone} : Free(d)) /\ SoFar(alone)
    /\ verdict # None => Quiet /\ LoneApplyAgrees /\ LoneDeleteLeavesNothing

-----------------------------------------------------------------------------
LEMMA EmptySound == Sound(Empty)
<1>1. Empty \in Handlings
  BY DEF Empty, Handlings, Opers, Places, Creators
<1> QED
  BY <1>1 DEF Sound, Empty, Versioning, Making, Pulling, Deleting

LEMMA ApplyTypesInit == ApplyInit => ApplyTypes
<1> SUFFICES ASSUME ApplyInit PROVE ApplyTypes
  OBVIOUS
<1> USE ApplyAssumption
<1>1. client \in [Clients -> Handlings] /\ \A c \in Clients : Sound(client[c])
  <2>1. Empty \in Handlings
    BY EmptySound DEF Sound
  <2> QED
    BY <2>1, EmptySound DEF ApplyInit
<1>2. CASE tables = [e \in Entities |-> None] /\ acts = 0 /\ wf = "none" /\ res = None
           /\ ont = None /\ versions = <<>> /\ current = 0 /\ main = 0 /\ events = {}
  <2>1. Evidence = {}
    BY <1>2 DEF Evidence, Existing
  <2>2. recorded = {} /\ acts \in Ids /\ tables \in [Entities -> Table \cup {None}]
    BY <1>2, <2>1 DEF ApplyInit, Ids
  <2>3. versions \in Seq(Models) /\ current \in Nat /\ main \in Nat
    BY <1>2
  <2>4. live = None /\ torn = FALSE /\ alone = None
    BY DEF ApplyInit
  <2>5. Stores
    BY <1>2, <2>2, <2>3, <2>4 DEF Stores, Creators
  <2> QED
    BY <1>1, <2>5 DEF ApplyTypes
<1>3. ASSUME NEW m \in Models,
             wf = "live" /\ res = Earlier /\ ont = Earlier /\ versions = <<m>>
             /\ current = 1 /\ main = 1 /\ acts \in {0, 1} \cap Ids /\ events = Evidence,
             tables = [e \in Entities |->
                   IF e \notin Ents[m] THEN None
                   ELSE [shape |-> m, rows |-> IF e \in Sourced THEN {0}
                                               ELSE IF e \in Actuated THEN 1..acts ELSE {}]]
      PROVE  ApplyTypes
  <2>1. 1..acts \subseteq Ids /\ {0} \subseteq Ids
    BY <1>3 DEF Ids
  <2>2. tables \in [Entities -> Table \cup {None}]
    BY <1>3, <2>1 DEF Table
  <2>3. Evidence \subseteq Entities \X Ids
    BY DEF Evidence
  <2>4. ASSUME NEW x \in Evidence, x[2] > 0
        PROVE  x[1] \in Actuated
    <3>1. x[1] \in Entities /\ x[2] \in Ids /\ tables[x[1]] # None /\ x[2] \in tables[x[1]].rows
      BY DEF Evidence, Existing
    <3> DEFINE rows(e) == IF e \in Sourced THEN {0} ELSE IF e \in Actuated THEN 1..acts ELSE {}
    <3>2. x[1] \in Ents[m]
      BY <1>3, <3>1
    <3>3. tables[x[1]] = [shape |-> m, rows |-> rows(x[1])]
      BY <1>3, <3>1, <3>2
    <3>4. x[2] \in rows(x[1])
      BY <3>1, <3>3
    <3> QED
      BY <2>4, <3>4
  <2>5. recorded \subseteq Actuated \X Ids
    BY <2>3, <2>4 DEF ApplyInit
  <2>6. versions \in Seq(Models) /\ current \in Nat /\ main \in Nat /\ acts \in Ids
    BY <1>3
  <2>7. live = None /\ torn = FALSE /\ alone = None
    BY DEF ApplyInit
  <2>8. wf = "live" /\ res \in Creators /\ ont \in Creators /\ events \subseteq Entities \X Ids
    BY <1>3, <2>3 DEF Creators
  <2>9. Stores
    BY <2>2, <2>5, <2>6, <2>7, <2>8 DEF Stores
  <2> QED
    BY <1>1, <2>9 DEF ApplyTypes
<1> QED
  BY <1>2, <1>3 DEF ApplyInit

\* A step changes one request; the others are as they were.
Moves(c, r) == client' = [client EXCEPT ![c] = r]

LEMMA TypesMove ==
    ASSUME ApplyTypes, NEW c \in Clients, NEW r, Sound(r), Moves(c, r), Stores'
    PROVE  ApplyTypes'
<1>1. r \in Handlings
  BY DEF Sound
<1> QED
  BY <1>1 DEF ApplyTypes, Moves

LEMMA TypesGo ==
    ASSUME ApplyTypes, NEW c \in Clients, UNCHANGED <<disk, live, alone, ghosts>>,
           NEW r, Sound(r), Moves(c, r)
    PROVE  ApplyTypes'
<1>1. Stores'
  BY DEF ApplyTypes, Stores, disk, ghosts, Table, Ids, Creators
<1> QED
  BY <1>1, TypesMove

LEMMA PlaceNames ==
    /\ \A a \in Versioning \cup Making \cup Pulling \cup Deleting : a \in Places
    /\ "idle" \in Places /\ "hook" \in Places /\ "hooked" \in Places /\ "pull" \in Places
BY DEF Places

LEMMA SoundMaking ==
    ASSUME NEW r \in Handlings, r.at \in Versioning \cup Making,
           r.op \in {"create", "apply"}, r.m \in Models
    PROVE  Sound(r)
BY DEF Sound, Versioning, Making, Pulling, Deleting

LEMMA SoundPulling ==
    ASSUME NEW r \in Handlings, r.at \in Pulling,
           r.op \in {"create", "apply", "pull"}, r.m \in Models,
           r.at \in {"ensure", "land"} => r.on \in Entities /\ r.shape \in Models
    PROVE  Sound(r)
BY DEF Sound, Versioning, Making, Pulling, Deleting

LEMMA SoundArriving ==
    ASSUME NEW r \in Handlings, r.at \in {"hook", "hooked", "pull"},
           r.op \in {"apply", "delete", "pull"}, r.at = "pull" => r.op = "pull",
           r.op = "apply" => r.m \in Models
    PROVE  Sound(r)
BY DEF Sound, Versioning, Making, Pulling, Deleting

LEMMA SoundDeleting ==
    ASSUME NEW r \in Handlings, r.at \in Deleting, r.op \in {"delete", "rollback"}
    PROVE  Sound(r)
BY DEF Sound, Versioning, Making, Pulling, Deleting

LEMMA TypesVersioning ==
    ASSUME ApplyTypes, NEW c \in Clients,
           \/ CreateRow(c) \/ FindOntology(c) \/ CreateResource(c) \/ CreateOntology(c)
           \/ ReadOntology(c) \/ ReadLast(c) \/ CreateVersion(c) \/ PointCurrent(c)
           \/ FindMain(c) \/ MoveMain(c)
    PROVE  ApplyTypes'
<1> DEFINE s == client[c]
<1>a. Sound(s) /\ s \in Handlings /\ Stores
  BY DEF ApplyTypes
<1>b. c \in Creators /\ None \in Creators /\ ont \in Creators
      /\ Len(versions) \in Nat /\ s.saw + 1 \in Nat
  BY <1>a DEF Creators, Stores, Handlings
<1>1. CASE CreateRow(c)
  <2> DEFINE r == [s EXCEPT !.at = "find"]
  <2>1. Sound(r)
    <3>0. "find" \in Places
      BY PlaceNames DEF Versioning, Making
    <3>1. s.op \in {"create", "apply"} /\ s.m \in Models
      BY <1>a, <1>1 DEF Sound, CreateRow, Versioning, Making
    <3>2. r \in Handlings
      BY <1>a, <1>b, <1>1, <3>1, <3>0 DEF Handlings
    <3>3. r.at \in {"find"} /\ r.op = s.op /\ r.m = s.m
      BY <1>a DEF Handlings
    <3> QED
      BY <3>1, <3>2, <3>3, SoundMaking DEF Versioning, Making
  <2>2. Moves(c, r)
    BY <1>a, <1>1 DEF CreateRow, Moves, To
  <2>3. Stores'
    BY <1>a, <1>1 DEF CreateRow, Stores, ghosts, Creators, Table, Ids
  <2> QED
    BY <2>1, <2>2, <2>3, TypesMove
<1>2. CASE FindOntology(c)
  <2> DEFINE r == [s EXCEPT !.at = IF ont = None THEN "resource" ELSE "read", !.oid = ont]
  <2>1. Sound(r)
    <3>0. "resource" \in Places /\ "read" \in Places
      BY PlaceNames DEF Versioning, Making
    <3>1. s.op \in {"create", "apply"} /\ s.m \in Models
      BY <1>a, <1>2 DEF Sound, FindOntology, Versioning, Making
    <3>2. r \in Handlings
      BY <1>a, <1>b, <3>0 DEF Handlings
    <3>3. r.at \in {"resource", "read"} /\ r.op = s.op /\ r.m = s.m
      BY <1>a DEF Handlings
    <3> QED
      BY <3>1, <3>2, <3>3, SoundMaking DEF Versioning, Making
  <2>2. Moves(c, r)
    BY <1>a, <1>2 DEF FindOntology, Moves
  <2> QED
    BY <1>2, <2>1, <2>2, TypesGo DEF FindOntology
<1>3. CASE CreateResource(c)
  <2> DEFINE r == [s EXCEPT !.at = "ontology"]
  <2>1. Sound(r)
    <3>0. "ontology" \in Places
      BY PlaceNames DEF Versioning, Making
    <3>1. s.op \in {"create", "apply"} /\ s.m \in Models
      BY <1>a, <1>3 DEF Sound, CreateResource, Versioning, Making
    <3>2. r \in Handlings
      BY <1>a, <1>b, <1>3, <3>1, <3>0 DEF Handlings
    <3>3. r.at \in {"ontology"} /\ r.op = s.op /\ r.m = s.m
      BY <1>a DEF Handlings
    <3> QED
      BY <3>1, <3>2, <3>3, SoundMaking DEF Versioning, Making
  <2>2. Moves(c, r)
    BY <1>a, <1>3 DEF CreateResource, Moves, To
  <2>3. Stores'
    BY <1>a, <1>3 DEF CreateResource, Stores, Sound, Handlings, ghosts, Creators, Table, Ids
  <2> QED
    BY <2>1, <2>2, <2>3, TypesMove
<1>4. CASE CreateOntology(c)
  <2> DEFINE r == [s EXCEPT !.at = "read", !.oid = c]
  <2>1. Sound(r)
    <3>0. "read" \in Places
      BY PlaceNames DEF Versioning, Making
    <3>1. s.op \in {"create", "apply"} /\ s.m \in Models
      BY <1>a, <1>4 DEF Sound, CreateOntology, Versioning, Making
    <3>2. r \in Handlings
      BY <1>a, <1>b, <1>4, <3>1, <3>0 DEF Handlings
    <3>3. r.at \in {"read"} /\ r.op = s.op /\ r.m = s.m
      BY <1>a DEF Handlings
    <3> QED
      BY <3>1, <3>2, <3>3, SoundMaking DEF Versioning, Making
  <2>2. Moves(c, r)
    BY <1>a, <1>4 DEF CreateOntology, Moves, To
  <2>3. Stores'
    BY <1>a, <1>4 DEF CreateOntology, Stores, Sound, Handlings, ghosts, Creators, Table, Ids
  <2> QED
    BY <2>1, <2>2, <2>3, TypesMove
<1>5. CASE ReadOntology(c)
  <2> DEFINE r == IF current # 0 /\ versions[current] = s.m
                  THEN [s EXCEPT !.at = "list", !.oid = None] ELSE [s EXCEPT !.at = "last"]
  <2>1. Sound(r)
    <3>0. "list" \in Places /\ "last" \in Places
      BY PlaceNames DEF Versioning, Making
    <3>1. s.op \in {"create", "apply"} /\ s.m \in Models
      BY <1>a, <1>5 DEF Sound, ReadOntology, Versioning, Making
    <3>2. r \in Handlings
      BY <1>a, <1>b, <1>5, <3>1, <3>0 DEF Handlings
    <3>3. r.at \in {"list", "last"} /\ r.op = s.op /\ r.m = s.m
      BY <1>a DEF Handlings
    <3> QED
      BY <3>1, <3>2, <3>3, SoundMaking DEF Versioning, Making
  <2>2. Moves(c, r)
    BY <1>a, <1>5 DEF ReadOntology, Moves, To, disk
  <2>3. Stores'
    BY <1>a, <1>5 DEF ReadOntology, Stores, Sound, Handlings, ghosts, Creators, Table, Ids, disk
  <2> QED
    BY <2>1, <2>2, <2>3, TypesMove
<1>6. CASE ReadLast(c)
  <2> DEFINE r == [s EXCEPT !.at = "version", !.saw = IF ont = s.oid THEN Len(versions) ELSE 0]
  <2>1. Sound(r)
    <3>0. "version" \in Places
      BY PlaceNames DEF Versioning, Making
    <3>1. s.op \in {"create", "apply"} /\ s.m \in Models
      BY <1>a, <1>6 DEF Sound, ReadLast, Versioning, Making
    <3>2. r \in Handlings
      BY <1>a, <1>b, <1>6, <3>1, <3>0 DEF Handlings
    <3>3. r.at \in {"version"} /\ r.op = s.op /\ r.m = s.m
      BY <1>a DEF Handlings
    <3> QED
      BY <3>1, <3>2, <3>3, SoundMaking DEF Versioning, Making
  <2>2. Moves(c, r)
    BY <1>a, <1>6 DEF ReadLast, Moves, To
  <2> QED
    BY <1>6, <2>1, <2>2, TypesGo DEF ReadLast
<1>7. CASE CreateVersion(c)
  <2> DEFINE r == [s EXCEPT !.at = "point", !.saw = s.saw + 1]
  <2>1. Sound(r)
    <3>0. "point" \in Places
      BY PlaceNames DEF Versioning, Making
    <3>1. s.op \in {"create", "apply"} /\ s.m \in Models
      BY <1>a, <1>7 DEF Sound, CreateVersion, Versioning, Making
    <3>2. r \in Handlings
      BY <1>a, <1>b, <1>7, <3>1, <3>0 DEF Handlings
    <3>3. r.at \in {"point"} /\ r.op = s.op /\ r.m = s.m
      BY <1>a DEF Handlings
    <3> QED
      BY <3>1, <3>2, <3>3, SoundMaking DEF Versioning, Making
  <2>2. Moves(c, r)
    BY <1>a, <1>7 DEF CreateVersion, Moves, To
  <2>3. Stores'
    <3>1. s.m \in Models
      BY <1>a, <1>7 DEF Sound, CreateVersion, Versioning
    <3> QED
      BY <1>a, <1>7, <3>1 DEF CreateVersion, Stores, ghosts, Creators, Table, Ids
  <2> QED
    BY <2>1, <2>2, <2>3, TypesMove
<1>8. CASE PointCurrent(c)
  <2> DEFINE r == [s EXCEPT !.at = "head"]
  <2>1. Sound(r)
    <3>0. "head" \in Places
      BY PlaceNames DEF Versioning, Making
    <3>1. s.op \in {"create", "apply"} /\ s.m \in Models
      BY <1>a, <1>8 DEF Sound, PointCurrent, Versioning, Making
    <3>2. r \in Handlings
      BY <1>a, <1>b, <1>8, <3>1, <3>0 DEF Handlings
    <3>3. r.at \in {"head"} /\ r.op = s.op /\ r.m = s.m
      BY <1>a DEF Handlings
    <3> QED
      BY <3>1, <3>2, <3>3, SoundMaking DEF Versioning, Making
  <2>2. Moves(c, r)
    BY <1>a, <1>8 DEF PointCurrent, Moves, To
  <2>3. Stores'
    BY <1>a, <1>8 DEF PointCurrent, Stores, Sound, Handlings, ghosts, Creators, Table, Ids
  <2> QED
    BY <2>1, <2>2, <2>3, TypesMove
<1>9. CASE FindMain(c)
  <2> DEFINE r == [s EXCEPT !.at = IF ont = s.oid /\ main # 0 THEN "move" ELSE "branch"]
  <2>1. Sound(r)
    <3>0. "move" \in Places /\ "branch" \in Places
      BY PlaceNames DEF Versioning, Making
    <3>1. s.op \in {"create", "apply"} /\ s.m \in Models
      BY <1>a, <1>9 DEF Sound, FindMain, Versioning, Making
    <3>2. r \in Handlings
      BY <1>a, <1>b, <1>9, <3>1, <3>0 DEF Handlings
    <3>3. r.at \in {"move", "branch"} /\ r.op = s.op /\ r.m = s.m
      BY <1>a DEF Handlings
    <3> QED
      BY <3>1, <3>2, <3>3, SoundMaking DEF Versioning, Making
  <2>2. Moves(c, r)
    BY <1>a, <1>9 DEF FindMain, Moves, To
  <2> QED
    BY <1>9, <2>1, <2>2, TypesGo DEF FindMain
<1>10. CASE MoveMain(c)
  <2> DEFINE r == [s EXCEPT !.at = "list", !.saw = 0, !.oid = None]
  <2>1. Sound(r)
    <3>0. "list" \in Places
      BY PlaceNames DEF Versioning, Making
    <3>1. s.op \in {"create", "apply"} /\ s.m \in Models
      BY <1>a, <1>10 DEF Sound, MoveMain, Versioning, Making
    <3>2. r \in Handlings
      BY <1>a, <1>b, <1>10, <3>1, <3>0 DEF Handlings
    <3>3. r.at \in {"list"} /\ r.op = s.op /\ r.m = s.m
      BY <1>a DEF Handlings
    <3> QED
      BY <3>1, <3>2, <3>3, SoundMaking DEF Versioning, Making
  <2>2. Moves(c, r)
    BY <1>a, <1>10 DEF MoveMain, Moves, To
  <2>3. Stores'
    BY <1>a, <1>10 DEF MoveMain, Stores, Sound, Handlings, ghosts, Creators, Table, Ids
  <2> QED
    BY <2>1, <2>2, <2>3, TypesMove
<1> QED
  BY <1>1, <1>2, <1>3, <1>4, <1>5, <1>6, <1>7, <1>8, <1>9, <1>10

LEMMA TypesEnd ==
    ASSUME ApplyTypes, NEW c \in Clients, client' = [client EXCEPT ![c] = Empty], Stores'
    PROVE  ApplyTypes'
BY EmptySound DEF ApplyTypes, Sound

LEMMA HandlingPulled ==
    ASSUME NEW r \in Handlings, NEW a \in Places
    PROVE  [r EXCEPT !.at = a, !.on = None, !.shape = None] \in Handlings
BY DEF Handlings

LEMMA HandlingBegun ==
    ASSUME NEW o \in Opers, NEW m \in Models \cup {None}, NEW e \in Entities \cup {None},
           NEW a \in Places
    PROVE  [Empty EXCEPT !.op = o, !.m = m, !.on = e, !.at = a] \in Handlings
<1>1. Empty \in Handlings
  BY EmptySound DEF Sound
<1> QED
  BY <1>1 DEF Handlings

LEMMA HandlingHooked ==
    ASSUME NEW r \in Handlings, NEW a \in Places, NEW n \in Nat
    PROVE  [r EXCEPT !.at = a, !.saw = n] \in Handlings
BY DEF Handlings

\* What is left of a request one of whose statements throws.
Rollback == [Empty EXCEPT !.op = "rollback", !.at = "sought"]

LEMMA RollbackSound == Sound(Rollback) /\ Rollback.at = "sought" /\ Rollback.op = "rollback"
<1>1. Empty \in Handlings /\ "sought" \in Places /\ "rollback" \in Opers
  BY EmptySound, PlaceNames DEF Sound, Deleting, Opers
<1>2. Rollback \in Handlings /\ Rollback.at = "sought" /\ Rollback.op = "rollback"
  BY <1>1 DEF Rollback, Handlings
<1> QED
  BY <1>2, SoundDeleting DEF Deleting

LEMMA Thrown ==
    ASSUME ApplyTypes, NEW c \in Clients, Throws(c)
    PROVE  /\ Moves(c, Empty) \/ Moves(c, Rollback)
           /\ \A d \in Clients \ {c} : client'[d] = client[d]
           /\ client'[c].at \in {"idle", "sought"} /\ client'[c].op \in {"none", "rollback"}
<1>1. Moves(c, Empty) \/ Moves(c, Rollback)
  BY DEF Throws, Moves, Rollback
<1>2. client \in [Clients -> Handlings] /\ Empty.at = "idle" /\ Empty.op = "none"
  BY DEF ApplyTypes, Empty
<1> QED
  BY <1>1, <1>2, RollbackSound DEF Moves

LEMMA TypesMaking ==
    ASSUME ApplyTypes, NEW c \in Clients,
           \/ ListTables(c) \/ CarryRows(c) \/ AllDropped(c) \/ RestoreRows(c)
           \/ \E e \in Entities : DropTable(c, e) \/ MakeTable(c, e)
           \/ WipeLog(c) \/ AllPulled(c)
    PROVE  ApplyTypes'
<1> DEFINE s == client[c]
<1>a. Sound(s) /\ s \in Handlings /\ Stores
  BY DEF ApplyTypes
<1>b. /\ Existing \subseteq Entities /\ Evidence \subseteq Entities \X Ids
     /\ Sourced \subseteq Entities /\ \A m \in Models : Ents[m] \subseteq Entities
     /\ s.todo \subseteq Entities
  BY <1>a, ApplyAssumption DEF Existing, Evidence, Handlings
<1>1. CASE ListTables(c)
  <2> DEFINE r == [s EXCEPT !.at = "carry", !.todo = Existing, !.kept = {}]
  <2>1. Sound(r)
    <3>0. "carry" \in Places
      BY PlaceNames DEF Versioning, Making
    <3>1. s.op \in {"create", "apply"} /\ s.m \in Models
      BY <1>a, <1>1 DEF Sound, ListTables, Versioning, Making
    <3>2. r \in Handlings
      BY <1>a, <1>b, <1>1, <3>1, <3>0 DEF Handlings
    <3>3. r.at \in {"carry"} /\ r.op = s.op /\ r.m = s.m
      BY <1>a DEF Handlings
    <3> QED
      BY <3>1, <3>2, <3>3, SoundMaking DEF Versioning, Making
  <2>2. Moves(c, r)
    BY <1>a, <1>1 DEF ListTables, Moves, To
  <2>3. Stores'
    BY <1>a, <1>b, <1>1 DEF ListTables, Stores, Sound, Handlings, ghosts, Creators, Table, Ids,
                            disk
  <2> QED
    BY <2>1, <2>2, <2>3, TypesMove
<1>2. CASE CarryRows(c)
  <2> DEFINE r == [s EXCEPT !.at = "drop", !.kept = {x \in Evidence : x[1] \in Carried(c)},
                          !.todo = s.todo \ (Actuated \ Ents[s.m])]
  <2>1. Sound(r)
    <3>0. "drop" \in Places
      BY PlaceNames DEF Versioning, Making
    <3>1. s.op \in {"create", "apply"} /\ s.m \in Models
      BY <1>a, <1>2 DEF Sound, CarryRows, Versioning, Making
    <3>2. r \in Handlings
      BY <1>a, <1>b, <1>2, <3>1, <3>0 DEF Handlings
    <3>3. r.at \in {"drop"} /\ r.op = s.op /\ r.m = s.m
      BY <1>a DEF Handlings
    <3> QED
      BY <3>1, <3>2, <3>3, SoundMaking DEF Versioning, Making
  <2>2. Moves(c, r)
    BY <1>a, <1>2 DEF CarryRows, Moves, To
  <2> QED
    BY <1>2, <2>1, <2>2, TypesGo DEF CarryRows
<1>3. CASE AllDropped(c)
  <2> DEFINE r == [s EXCEPT !.at = "make", !.todo = Ents[s.m]]
  <2>1. Sound(r)
    <3>0. "make" \in Places
      BY PlaceNames DEF Versioning, Making
    <3>1. s.op \in {"create", "apply"} /\ s.m \in Models
      BY <1>a, <1>3 DEF Sound, AllDropped, Versioning, Making
    <3>2. r \in Handlings
      BY <1>a, <1>b, <1>3, <3>1, <3>0 DEF Handlings
    <3>3. r.at \in {"make"} /\ r.op = s.op /\ r.m = s.m
      BY <1>a DEF Handlings
    <3> QED
      BY <3>1, <3>2, <3>3, SoundMaking DEF Versioning, Making
  <2>2. Moves(c, r)
    BY <1>a, <1>3 DEF AllDropped, Moves, To
  <2> QED
    BY <1>3, <2>1, <2>2, TypesGo DEF AllDropped
<1>4. CASE RestoreRows(c)
  <2> DEFINE r == [s EXCEPT !.at = "wipe"]
  <2>1. Sound(r)
    <3>0. "wipe" \in Places
      BY PlaceNames DEF Versioning, Making
    <3>1. s.op \in {"create", "apply"} /\ s.m \in Models
      BY <1>a, <1>4 DEF Sound, RestoreRows, Versioning, Making
    <3>2. r \in Handlings
      BY <1>a, <1>b, <1>4, <3>1, <3>0 DEF Handlings
    <3>3. r.at \in {"wipe"} /\ r.op = s.op /\ r.m = s.m
      BY <1>a DEF Handlings
    <3> QED
      BY <3>1, <3>2, <3>3, SoundMaking DEF Versioning, Making
  <2>2. Moves(c, r)
    BY <1>a, <1>4 DEF RestoreRows, Moves, To
  <2>3. Stores'
    <3>1. \A e \in Entities : tables[e] # None =>
             [tables[e] EXCEPT !.rows = @ \cup {i \in Ids : <<e, i>> \in s.kept}] \in Table
      BY <1>a DEF Stores, Table
    <3>2. tables' \in [Entities -> Table \cup {None}]
      BY <1>4, <3>1 DEF RestoreRows
    <3> QED
      BY <1>a, <1>4, <3>2 DEF RestoreRows, Stores, ghosts, Creators, Table, Ids
  <2> QED
    BY <2>1, <2>2, <2>3, TypesMove
<1>5. ASSUME NEW e \in Entities, DropTable(c, e)
      PROVE  ApplyTypes'
  <2> DEFINE r == [s EXCEPT !.todo = s.todo \ {e}]
  <2>1. Sound(r)
    BY <1>a, <1>b, <1>5 DEF Sound, Handlings, DropTable
  <2>2. Moves(c, r)
    BY <1>a, <1>5 DEF DropTable, Moves, To
  <2>3. Stores'
    BY <1>a, <1>b, <1>5 DEF DropTable, Stores, Sound, Handlings, ghosts, Creators, Table, Ids
  <2> QED
    BY <2>1, <2>2, <2>3, TypesMove
<1>6. ASSUME NEW e \in Entities, MakeTable(c, e)
      PROVE  ApplyTypes'
  <2> DEFINE r == [s EXCEPT !.todo = s.todo \ {e}]
  <2>1. Sound(r)
    <3>0. "make" \in Places
      BY PlaceNames DEF Versioning, Making
    <3>1. s.op \in {"create", "apply"} /\ s.m \in Models
      BY <1>a, <1>6 DEF Sound, MakeTable, Versioning, Making
    <3>2. r \in Handlings
      BY <1>a, <1>b, <1>6, <3>1, <3>0 DEF Handlings
    <3>3. r.at \in {"make"} /\ r.op = s.op /\ r.m = s.m
      BY <1>a, <1>6 DEF Handlings, MakeTable
    <3> QED
      BY <3>1, <3>2, <3>3, SoundMaking DEF Versioning, Making
  <2>2. Moves(c, r)
    BY <1>a, <1>6 DEF MakeTable, Moves, To
  <2>3. Stores'
    <3>1. s.m \in Models
      BY <1>a, <1>6 DEF Sound, MakeTable, Making
    <3>2. [shape |-> s.m, rows |-> {}] \in Table
      BY <3>1 DEF Table
    <3>3. tables' \in [Entities -> Table \cup {None}]
      BY <1>a, <1>6, <3>2 DEF MakeTable, Stores
    <3> QED
      BY <1>a, <1>6, <3>3 DEF MakeTable, Stores, ghosts, Creators, Ids
  <2> QED
    BY <2>1, <2>2, <2>3, TypesMove
<1>7. CASE WipeLog(c)
  <2> DEFINE r == [s EXCEPT !.at = "ingest", !.todo = Sourced, !.kept = {}]
  <2>1. Sound(r)
    <3>0. "ingest" \in Places
      BY PlaceNames DEF Versioning, Making
    <3>1. s.op \in {"create", "apply"} /\ s.m \in Models
      BY <1>a, <1>7 DEF Sound, WipeLog, Versioning, Making
    <3>2. r \in Handlings
      BY <1>a, <1>b, <1>7, <3>1, <3>0 DEF Handlings
    <3>3. r.at \in {"ingest"} /\ r.op = s.op /\ r.m = s.m
      BY <1>a DEF Handlings
    <3> QED
      BY <3>1, <3>2, <3>3, SoundMaking DEF Versioning, Making
  <2>2. Moves(c, r)
    BY <1>a, <1>7 DEF WipeLog, Moves, To
  <2>3. Stores'
    BY <1>a, <1>b, <1>7 DEF WipeLog, Stores, Sound, Handlings, ghosts, Creators, Table, Ids
  <2> QED
    BY <2>1, <2>2, <2>3, TypesMove
<1>8. CASE AllPulled(c)
  <2> DEFINE r == [s EXCEPT !.at = "derive"]
  <2>1. Sound(r)
    <3>0. "derive" \in Places
      BY PlaceNames DEF Pulling
    <3>1. s.op \in {"create", "apply", "pull"} /\ s.m \in Models
      BY <1>a, <1>8 DEF Sound, AllPulled, Making, Pulling
    <3>2. r \in Handlings
      BY <1>a, <1>b, <3>1, <3>0 DEF Handlings
    <3>3. /\ r.at \in {"derive"} /\ r.op = s.op /\ r.m = s.m
          /\ r.on = s.on /\ r.shape = s.shape
      BY <1>a DEF Handlings
    <3> QED
      BY <3>1, <3>2, <3>3, SoundPulling DEF Pulling
  <2>2. Moves(c, r)
    BY <1>a, <1>8 DEF AllPulled, Moves, To
  <2> QED
    BY <1>8, <2>1, <2>2, TypesGo DEF AllPulled
<1> QED
  BY <1>1, <1>2, <1>3, <1>4, <1>5, <1>6, <1>7, <1>8

LEMMA TypesPulling ==
    ASSUME ApplyTypes, NEW c \in Clients,
           \/ StartPull(c, client[c].on, "pull")
           \/ \E e \in client[c].todo : StartPull(c, e, "ingest")
           \/ EnsureTable(c) \/ LandRows(c) \/ PullFails(c) \/ PullRefused(c)
           \/ DeriveReads(c) \/ \E chunk \in SUBSET client[c].kept : DeriveEmits(c, chunk)
           \/ DeriveEnds(c) \/ DeriveThrows(c)
    PROVE  ApplyTypes'
<1> DEFINE s == client[c]
<1>a. Sound(s) /\ s \in Handlings /\ Stores
  BY DEF ApplyTypes
<1>b. /\ Evidence \subseteq Entities \X Ids
      /\ \A m \in Models : Ents[m] \subseteq Entities
      /\ s.todo \subseteq Entities
      /\ Sound(Empty)
      /\ \A m : EvidenceOf(m) \subseteq Entities \X Ids
  BY <1>a, ApplyAssumption, EmptySound DEF Evidence, EvidenceOf, Handlings
<1>1. CASE StartPull(c, s.on, "pull")
  <2> DEFINE r == [s EXCEPT !.at = "ensure", !.on = s.on, !.m = live, !.shape = live,
                            !.todo = s.todo \ {s.on}]
  <2>1. live \in Models /\ s.on \in Entities
    BY <1>a, <1>b, <1>1 DEF StartPull, CanPull, Stores
  <2>2. Sound(r)
    <3>0. "ensure" \in Places
      BY PlaceNames DEF Pulling
    <3>1. s.op \in {"create", "apply", "pull"}
      BY <1>a, <1>1 DEF Sound, StartPull, Making
    <3>2. r \in Handlings
      BY <1>a, <1>b, <2>1, <3>0 DEF Handlings
    <3>3. /\ r.at = "ensure" /\ r.op = s.op /\ r.m = live
          /\ r.on = s.on /\ r.shape = live
      BY <1>a DEF Handlings
    <3> QED
      BY <2>1, <3>1, <3>2, <3>3, SoundPulling DEF Pulling
  <2>3. Moves(c, r)
    BY <1>a, <1>1 DEF StartPull, Moves
  <2> QED
    BY <1>1, <2>2, <2>3, TypesGo DEF StartPull
<1>2. ASSUME NEW e \in s.todo, StartPull(c, e, "ingest")
      PROVE  ApplyTypes'
  <2> DEFINE r == [s EXCEPT !.at = "ensure", !.on = e, !.shape = live, !.todo = s.todo \ {e}]
  <2>1. live \in Models /\ e \in Entities
    BY <1>a, <1>b, <1>2 DEF StartPull, CanPull, Stores
  <2>2. Sound(r)
    <3>0. "ensure" \in Places
      BY PlaceNames DEF Pulling
    <3>1. s.op \in {"create", "apply", "pull"} /\ s.m \in Models
      BY <1>a, <1>2 DEF Sound, StartPull, Making
    <3>2. r \in Handlings
      BY <1>a, <1>b, <2>1, <3>0 DEF Handlings
    <3>3. /\ r.at = "ensure" /\ r.op = s.op /\ r.m = s.m
          /\ r.on = e /\ r.shape = live
      BY <1>a DEF Handlings
    <3> QED
      BY <2>1, <3>1, <3>2, <3>3, SoundPulling DEF Pulling
  <2>3. Moves(c, r)
    BY <1>a, <1>2 DEF StartPull, Moves, Handlings
  <2> QED
    BY <1>2, <2>2, <2>3, TypesGo DEF StartPull
<1>3. CASE EnsureTable(c)
  <2> DEFINE r == [s EXCEPT !.at = "land"]
  <2>1. Sound(r)
    <3>0. "land" \in Places
      BY PlaceNames DEF Pulling
    <3>1. s.op \in {"create", "apply", "pull"} /\ s.m \in Models
      BY <1>a, <1>3 DEF Sound, EnsureTable, Making, Pulling
    <3>2. r \in Handlings
      BY <1>a, <1>b, <3>1, <3>0 DEF Handlings
    <3>3. /\ r.at \in {"land"} /\ r.op = s.op /\ r.m = s.m
          /\ r.on = s.on /\ r.shape = s.shape
      BY <1>a DEF Handlings
    <3>4. s.on \in Entities /\ s.shape \in Models
      BY <1>a, <1>3 DEF Sound, EnsureTable
    <3> QED
      BY <3>1, <3>2, <3>3, <3>4, SoundPulling DEF Pulling
  <2>2. Moves(c, r)
    BY <1>a, <1>3 DEF EnsureTable, Moves, To
  <2>3. Stores'
    BY <1>a, <1>b, <1>3 DEF EnsureTable, Stores, Sound, Handlings, ghosts, Creators, Table, Ids
  <2> QED
    BY <2>1, <2>2, <2>3, TypesMove
<1>4. CASE LandRows(c)
  <2> DEFINE e == s.on
             i == IF e \in Actuated THEN acts + 1 ELSE 0
             derived == [s EXCEPT !.at = "derive", !.on = None, !.shape = None]
             ingested == [s EXCEPT !.at = "ingest", !.on = None, !.shape = None]
  <2>1. s.op \in {"create", "apply", "pull"} /\ s.m \in Models
    BY <1>a, <1>4 DEF Sound, LandRows, Pulling
  <2>2. Sound(derived)
    <3>1. derived \in Handlings
      BY <1>a, HandlingPulled, PlaceNames DEF Pulling
    <3>2. derived.at = "derive" /\ derived.op = s.op /\ derived.m = s.m
      BY <1>a DEF Handlings
    <3> QED
      BY <2>1, <3>1, <3>2, SoundPulling DEF Pulling
  <2>3. s.op # "pull" => Sound(ingested)
    <3>1. ingested \in Handlings
      BY <1>a, HandlingPulled, PlaceNames DEF Making
    <3>2. ingested.at = "ingest" /\ ingested.op = s.op /\ ingested.m = s.m
      BY <1>a DEF Handlings
    <3> QED
      BY <2>1, <3>1, <3>2, SoundMaking DEF Making
  <2>4. \/ s.op = "pull" /\ Moves(c, derived)
        \/ s.op # "pull" /\ Moves(c, ingested)
    BY <1>a, <1>4 DEF LandRows, Moves, AfterPull
  <2>5. Stores'
    <3>1. e \in Entities /\ tables[e] \in Table /\ i \in Ids
      BY <1>a, <1>4 DEF LandRows, Stores, Existing
    <3>2. [tables[e] EXCEPT !.rows = @ \cup {i}] \in Table
      BY <3>1 DEF Table
    <3>3. tables' \in [Entities -> Table \cup {None}]
      BY <1>a, <1>4, <3>1, <3>2 DEF LandRows, Stores
    <3>4. acts' \in Ids /\ recorded' \subseteq Actuated \X Ids /\ torn' \in BOOLEAN
      BY <1>a, <1>4, <3>1 DEF LandRows, Stores
    <3> QED
      BY <1>a, <1>4, <3>3, <3>4 DEF LandRows, Stores, Creators, Ids
  <2> QED
    BY <2>2, <2>3, <2>4, <2>5, TypesMove
<1>5. CASE PullFails(c)
  <2> DEFINE r == [s EXCEPT !.at = "ingest", !.on = None, !.shape = None]
  <2>1. CASE s.op = "pull"
    <3>1. Stores'
      BY <1>a, <1>5 DEF PullFails, Stores, disk, ghosts, Creators, Table, Ids
    <3> QED
      BY <1>5, <2>1, <3>1, TypesEnd DEF PullFails
  <2>2. CASE s.op # "pull"
    <3>1. Sound(r)
      <4>1. s.op \in {"create", "apply"} /\ s.m \in Models
        BY <1>a, <1>5, <2>2 DEF Sound, PullFails, Pulling
      <4>2. r \in Handlings
        BY <1>a, HandlingPulled, PlaceNames DEF Making
      <4>3. r.at = "ingest" /\ r.op = s.op /\ r.m = s.m
        BY <1>a DEF Handlings
      <4> QED
        BY <4>1, <4>2, <4>3, SoundMaking DEF Making
    <3>2. Moves(c, r)
      BY <1>a, <1>5, <2>2 DEF PullFails, Moves
    <3> QED
      BY <1>5, <3>1, <3>2, TypesGo DEF PullFails
  <2> QED
    BY <2>1, <2>2
<1>6. CASE PullRefused(c)
  <2>1. CASE client' = [client EXCEPT ![c] = Empty]
    <3>1. Stores'
      BY <1>a, <1>6 DEF PullRefused, Stores, disk, ghosts, Creators, Table, Ids
    <3> QED
      BY <2>1, <3>1, TypesEnd
  <2>2. ASSUME NEW e \in s.todo, client' = [client EXCEPT ![c].todo = @ \ {e}], s.at = "ingest"
        PROVE  ApplyTypes'
    <3> DEFINE r == [s EXCEPT !.todo = s.todo \ {e}]
    <3>1. Sound(r)
      BY <1>a, <1>b, <2>2 DEF Sound, Handlings
    <3>2. Moves(c, r)
      BY <1>a, <2>2 DEF Moves
    <3> QED
      BY <1>6, <3>1, <3>2, TypesGo DEF PullRefused
  <2> QED
    BY <1>6, <2>1, <2>2 DEF PullRefused
<1>7. CASE DeriveReads(c)
  <2> DEFINE r == [s EXCEPT !.at = "emit", !.kept = EvidenceOf(live) \ events]
  <2>1. Sound(r)
    <3>0. "emit" \in Places
      BY PlaceNames DEF Pulling
    <3>1. s.op \in {"create", "apply", "pull"} /\ s.m \in Models
      BY <1>a, <1>7 DEF Sound, DeriveReads, Making, Pulling
    <3>2. r \in Handlings
      BY <1>a, <1>b, <3>1, <3>0 DEF Handlings
    <3>3. /\ r.at \in {"emit"} /\ r.op = s.op /\ r.m = s.m
          /\ r.on = s.on /\ r.shape = s.shape
      BY <1>a DEF Handlings
    <3> QED
      BY <3>1, <3>2, <3>3, SoundPulling DEF Pulling
  <2>2. Moves(c, r)
    BY <1>a, <1>7 DEF DeriveReads, Moves, To
  <2> QED
    BY <1>7, <2>1, <2>2, TypesGo DEF DeriveReads
<1>8. ASSUME NEW chunk \in SUBSET s.kept, DeriveEmits(c, chunk)
      PROVE  ApplyTypes'
  <2> DEFINE r == [s EXCEPT !.kept = s.kept \ chunk]
  <2>1. Sound(r)
    <3>1. s.op \in {"create", "apply", "pull"} /\ s.m \in Models /\ s.at = "emit"
      BY <1>a, <1>8 DEF Sound, DeriveEmits, Pulling
    <3>2. r \in Handlings /\ r.at = "emit" /\ r.op = s.op /\ r.m = s.m
      BY <1>a, <3>1 DEF Handlings
    <3> QED
      BY <3>1, <3>2, SoundPulling DEF Pulling
  <2>2. Moves(c, r)
    BY <1>a, <1>8 DEF DeriveEmits, Moves
  <2>3. Stores'
    BY <1>a, <1>8 DEF DeriveEmits, Stores, Handlings, ghosts, Creators, Table, Ids
  <2> QED
    BY <2>1, <2>2, <2>3, TypesMove
<1>10. CASE DeriveEnds(c)
  <2>1. Stores'
    BY <1>a, <1>10 DEF DeriveEnds, Stores, disk, ghosts, Creators, Table, Ids
  <2> QED
    BY <1>10, <2>1, TypesEnd DEF DeriveEnds, Ends
<1>9. CASE DeriveThrows(c)
  <2>1. Stores'
    BY <1>a, <1>9 DEF DeriveThrows, Stores, disk, ghosts, Creators, Table, Ids
  <2> QED
    BY <1>9, <2>1, TypesEnd DEF DeriveThrows, Ends
<1> QED
  BY <1>1, <1>2, <1>3, <1>4, <1>5, <1>6, <1>7, <1>8, <1>9, <1>10

LEMMA TypesDeleting ==
    ASSUME ApplyTypes, NEW c \in Clients,
           FindRow(c) \/ ListOntologies(c) \/ DeleteRows(c) \/ ListForDrop(c) \/ Forget(c)
    PROVE  ApplyTypes'
<1> DEFINE s == client[c]
<1>a. Sound(s) /\ s \in Handlings /\ Stores
  BY DEF ApplyTypes
<1>b. Existing \subseteq Entities /\ Sound(Empty) /\ ont \in Creators
  BY <1>a, EmptySound DEF Existing, Stores
<1>1. CASE FindRow(c)
  <2> DEFINE r == [s EXCEPT !.at = "listed"]
  <2>1. Sound(r)
    <3>0. "listed" \in Places
      BY PlaceNames DEF Deleting
    <3>1. s.op \in {"delete", "rollback"}
      BY <1>a, <1>1 DEF Sound, FindRow, Deleting
    <3>2. r \in Handlings
      BY <1>a, <1>b, <3>0 DEF Handlings
    <3>3. r.at \in {"listed"} /\ r.op = s.op
      BY <1>a DEF Handlings
    <3> QED
      BY <3>1, <3>2, <3>3, SoundDeleting DEF Deleting
  <2>2. Moves(c, r)
    BY <1>a, <1>1 DEF FindRow, Moves, To
  <2> QED
    BY <1>1, <2>1, <2>2, TypesGo DEF FindRow
<1>2. CASE ListOntologies(c)
  <2> DEFINE r == [s EXCEPT !.at = "commit", !.oid = ont]
  <2>1. Sound(r)
    <3>0. "commit" \in Places
      BY PlaceNames DEF Deleting
    <3>1. s.op \in {"delete", "rollback"}
      BY <1>a, <1>2 DEF Sound, ListOntologies, Deleting
    <3>2. r \in Handlings
      BY <1>a, <1>b, <3>0 DEF Handlings
    <3>3. r.at \in {"commit"} /\ r.op = s.op
      BY <1>a DEF Handlings
    <3> QED
      BY <3>1, <3>2, <3>3, SoundDeleting DEF Deleting
  <2>2. Moves(c, r)
    BY <1>a, <1>2 DEF ListOntologies, Moves, To
  <2> QED
    BY <1>2, <2>1, <2>2, TypesGo DEF ListOntologies
<1>3. CASE DeleteRows(c)
  <2> DEFINE r == [s EXCEPT !.at = "tables"]
  <2>1. Sound(r)
    <3>0. "tables" \in Places
      BY PlaceNames DEF Deleting
    <3>1. s.op \in {"delete", "rollback"}
      BY <1>a, <1>3 DEF Sound, DeleteRows, Deleting
    <3>2. r \in Handlings
      BY <1>a, <1>b, <3>0 DEF Handlings
    <3>3. r.at \in {"tables"} /\ r.op = s.op
      BY <1>a DEF Handlings
    <3> QED
      BY <3>1, <3>2, <3>3, SoundDeleting DEF Deleting
  <2>2. Moves(c, r)
    BY <1>a, <1>3 DEF DeleteRows, Moves, To
  <2>3. Stores'
    BY <1>a, <1>b, <1>3 DEF DeleteRows, Stores, Sound, Handlings, ghosts, Creators, Table, Ids
  <2> QED
    BY <2>1, <2>2, <2>3, TypesMove
<1>4. CASE ListForDrop(c)
  <2> DEFINE r == [s EXCEPT !.at = "unlink", !.todo = Existing]
  <2>1. Sound(r)
    <3>0. "unlink" \in Places
      BY PlaceNames DEF Deleting
    <3>1. s.op \in {"delete", "rollback"}
      BY <1>a, <1>4 DEF Sound, ListForDrop, Deleting
    <3>2. r \in Handlings
      BY <1>a, <1>b, <3>0 DEF Handlings
    <3>3. r.at \in {"unlink"} /\ r.op = s.op
      BY <1>a DEF Handlings
    <3> QED
      BY <3>1, <3>2, <3>3, SoundDeleting DEF Deleting
  <2>2. Moves(c, r)
    BY <1>a, <1>4 DEF ListForDrop, Moves, To
  <2> QED
    BY <1>4, <2>1, <2>2, TypesGo DEF ListForDrop
<1>5. CASE Forget(c)
  <2>1. Stores'
    BY <1>a, <1>5 DEF Forget, Stores, disk, ghosts, Creators, Table, Ids
  <2> QED
    BY <1>5, <2>1, TypesEnd DEF Forget, Ends
<1> QED
  BY <1>1, <1>2, <1>3, <1>4, <1>5

LEMMA TypesArriving ==
    ASSUME ApplyTypes, NEW c \in Clients, Arrivals(c) \/ Throws(c)
    PROVE  ApplyTypes'
<1> DEFINE s == client[c]
<1>a. Sound(s) /\ s \in Handlings /\ Stores
  BY DEF ApplyTypes
<1>b. /\ Sound(Empty) /\ Empty \in Handlings /\ current \in Nat
     /\ Sourced \cup Actuated \subseteq Entities
  BY <1>a, EmptySound, ApplyAssumption DEF Stores, Sound
<1>1. ASSUME NEW op \in {"create", "apply", "pull", "delete"}, NEW m \in Models \cup {None},
             NEW e \in Entities \cup {None}, op \in {"create", "apply"} => m \in Models,
             Begin(c, op, m, e)
      PROVE  ApplyTypes'
  <2> DEFINE row == [Empty EXCEPT !.op = op, !.m = m, !.on = e, !.at = "row"]
             hook == [Empty EXCEPT !.op = op, !.m = m, !.on = e, !.at = "hook"]
  <2>1. op = "create" => Sound(row)
    <3>1. row \in Handlings
      BY HandlingBegun, PlaceNames DEF Opers, Versioning
    <3>2. row.at = "row" /\ row.op = op /\ row.m = m
      BY DEF Empty
    <3> QED
      BY <1>1, <3>1, <3>2, SoundMaking DEF Versioning
  <2>2. op # "create" => Sound(hook)
    <3>1. hook \in Handlings
      BY HandlingBegun, PlaceNames DEF Opers
    <3>2. hook.at = "hook" /\ hook.op = op /\ hook.m = m
      BY DEF Empty
    <3> QED
      BY <1>1, <3>1, <3>2, SoundArriving
  <2>3. \/ op = "create" /\ Moves(c, row)
        \/ op # "create" /\ Moves(c, hook)
    BY <1>1 DEF Begin, Moves
  <2>4. Stores'
    BY <1>a, <1>1 DEF Begin, Stores, disk, ghosts, Creators, Table, Ids
  <2> QED
    BY <2>1, <2>2, <2>3, <2>4, TypesMove
<1>2. CASE HookReads(c)
  <2> DEFINE r == [s EXCEPT !.at = "hooked", !.saw = current]
  <2>1. Sound(r)
    <3>1. s.op \in {"apply", "delete", "pull"} /\ (s.op = "apply" => s.m \in Models)
      BY <1>a, <1>2 DEF Sound, HookReads
    <3>2. r \in Handlings
      BY <1>a, <1>b, HandlingHooked, PlaceNames
    <3>3. r.at = "hooked" /\ r.op = s.op /\ r.m = s.m
      BY <1>a DEF Handlings
    <3> QED
      BY <3>1, <3>2, <3>3, SoundArriving
  <2>2. Moves(c, r)
    BY <1>a, <1>2 DEF HookReads, Moves, To
  <2> QED
    BY <1>2, <2>1, <2>2, TypesGo DEF HookReads
<1>3. CASE HookBinds(c)
  <2> DEFINE next(a) == [s EXCEPT !.saw = 0, !.at = a]
  <2>1. Stores'
    BY <1>a, <1>3 DEF HookBinds, Stores, disk, ghosts, Creators, Table, Ids
  <2>2. s.op \in {"apply", "delete", "pull"} /\ (s.op = "apply" => s.m \in Models)
    BY <1>a, <1>3 DEF Sound, HookBinds
  <2>3. ASSUME NEW a \in Places
        PROVE  next(a) \in Handlings /\ next(a).at = a /\ next(a).op = s.op /\ next(a).m = s.m
    BY <1>a DEF Handlings
  <2>4. CASE s.op = "apply"
    <3>1. Moves(c, next("find"))
      BY <1>3, <2>4 DEF HookBinds, Moves
    <3>2. Sound(next("find"))
      BY <2>2, <2>3, <2>4, SoundMaking, PlaceNames DEF Versioning
    <3> QED
      BY <2>1, <3>1, <3>2, TypesMove
  <2>5. CASE s.op = "delete"
    <3>1. Moves(c, next("sought"))
      BY <1>3, <2>5 DEF HookBinds, Moves
    <3>2. Sound(next("sought"))
      BY <2>3, <2>5, SoundDeleting, PlaceNames DEF Deleting
    <3> QED
      BY <2>1, <3>1, <3>2, TypesMove
  <2>6. CASE s.op = "pull"
    <3>1. Moves(c, next("pull"))
      BY <1>3, <2>6 DEF HookBinds, Moves
    <3>2. Sound(next("pull"))
      BY <2>3, <2>6, SoundArriving, PlaceNames
    <3> QED
      BY <2>1, <3>1, <3>2, TypesMove
  <2> QED
    BY <2>2, <2>4, <2>5, <2>6
<1>4. CASE Throws(c)
  <2>1. Stores'
    BY <1>a, <1>4 DEF Throws, Stores, disk, ghosts, Creators, Table, Ids
  <2> QED
    BY <1>4, <2>1, Thrown, EmptySound, RollbackSound, TypesMove
<1> QED
  BY <1>1, <1>2, <1>3, <1>4, <1>b DEF Arrivals

LEMMA TypesStep == ApplyTypes /\ [ApplyNext]_applyVars => ApplyTypes'
<1> SUFFICES ASSUME ApplyTypes, [ApplyNext]_applyVars
             PROVE  ApplyTypes'
  OBVIOUS
<1>1. CASE Restart
  <2>1. Stores'
    BY <1>1 DEF Restart, ApplyTypes, Stores, disk, Creators, Table, Ids
  <2>2. Sound(Empty) /\ Empty \in Handlings
    BY EmptySound DEF Sound
  <2> QED
    BY <1>1, <2>1, <2>2 DEF Restart, ApplyTypes
<1>2. ASSUME NEW c \in Clients, Applies(c)
      PROVE  ApplyTypes'
  BY <1>2, TypesVersioning, TypesMaking DEF Applies
<1>3. ASSUME NEW c \in Clients, Arrivals(c) \/ Pulls(c) \/ Deletes(c) \/ Throws(c)
      PROVE  ApplyTypes'
  BY <1>3, TypesArriving, TypesPulling, TypesDeleting DEF Pulls, Deletes
<1>4. CASE UNCHANGED applyVars
  BY <1>4 DEF applyVars, disk, ghosts, ApplyTypes, Stores, Sound, Handlings, Creators, Table,
              Ids
<1> QED
  BY <1>1, <1>2, <1>3, <1>4 DEF ApplyNext

\* Type correctness of ModelApply, for any clients, models, tables and ids: every
\* request stands at a statement of its own operation and carries what that
\* statement reads.
THEOREM ApplyTypesHold == ApplySpec => []ApplyTypes
BY ApplyTypesInit, TypesStep, PTL DEF ApplySpec

-----------------------------------------------------------------------------
LEMMA KeptInit == ApplyInit => KeptInv
<1> SUFFICES ASSUME ApplyInit PROVE KeptInv
  OBVIOUS
<1>1. \A c \in Clients : client[c].at = "idle"
  BY DEF ApplyInit, Empty
<1>2. recorded \subseteq Evidence
  BY DEF ApplyInit
<1> QED
  BY <1>1, <1>2 DEF KeptInv, Rebuilding

\* A step that takes no part in a rebuild and only adds to the rows.
Apart(c) ==
    /\ \A d \in Clients \ {c} : client'[d] = client[d]
    /\ client[c].at \notin {"drop", "make"}
    /\ client'[c].at \notin {"carry", "drop", "make", "tables", "unlink"}

LEMMA KeptApart ==
    ASSUME KeptInv, NEW c \in Clients, Apart(c), Evidence \subseteq Evidence', recorded' = recorded,
           ~torn' => ~torn, wf' = "deleted" <=> wf = "deleted"
    PROVE  KeptInv'
<1>1. \A d \in Clients : client'[d].at \in {"carry", "drop", "make", "tables", "unlink"}
                            => client'[d] = client[d]
  BY DEF Apart
<1>2. (\A d \in Clients : client[d].at \in {"tables", "unlink"} => wf = "deleted")'
  BY <1>1 DEF KeptInv
<1>3. (~torn => \A d, e \in Clients : Rebuilding(d) /\ Rebuilding(e) => d = e)'
  BY <1>1 DEF KeptInv, Rebuilding
<1>4. ASSUME wf' # "deleted", ~torn', NEW x \in recorded'
      PROVE  x \in Evidence' \/ \E d \in Clients : Carrying(d)' /\ x \in client'[d].kept
  <2>1. x \in Evidence \/ \E d \in Clients : Carrying(d) /\ x \in client[d].kept
    BY <1>4 DEF KeptInv
  <2>2. ASSUME NEW d \in Clients, Carrying(d), x \in client[d].kept
        PROVE  Carrying(d)' /\ x \in client'[d].kept
    BY <2>2 DEF Apart, Carrying
  <2> QED
    BY <2>1, <2>2
<1>5. ASSUME wf' # "deleted", ~torn', NEW d \in Clients, client'[d].at = "drop",
             NEW x \in recorded', x[1] \in client'[d].todo
      PROVE  x \in client'[d].kept
  BY <1>1, <1>5 DEF KeptInv
<1> QED
  BY <1>2, <1>3, <1>4, <1>5 DEF KeptInv

LEMMA KeptSame ==
    ASSUME KeptInv, NEW c \in Clients, Apart(c), UNCHANGED <<wf, tables, recorded, torn>>
    PROVE  KeptInv'
<1>1. Evidence' = Evidence
  BY DEF Evidence, Existing, Ids
<1> QED
  BY <1>1, KeptApart

LEMMA KeptVersioning ==
    ASSUME ApplyTypes, KeptInv, NEW c \in Clients,
           \/ CreateRow(c) \/ FindOntology(c) \/ CreateResource(c) \/ CreateOntology(c)
           \/ ReadOntology(c) \/ ReadLast(c) \/ CreateVersion(c) \/ PointCurrent(c)
           \/ FindMain(c) \/ MoveMain(c)
    PROVE  KeptInv'
<1>a. client \in [Clients -> Handlings] /\ client[c] \in Handlings
  BY DEF ApplyTypes
<1>1. CASE CreateRow(c)
  <2>1. Apart(c)
    BY <1>a, <1>1 DEF Apart, Handlings, CreateRow, To
  <2>2. Evidence' = Evidence
    BY <1>1 DEF CreateRow, Evidence, Existing, Ids
  <2> QED
    BY <1>1, <2>1, <2>2, KeptApart DEF CreateRow, ghosts
<1>2. CASE FindOntology(c)
  <2>1. Apart(c)
    BY <1>a, <1>2 DEF Apart, Handlings, FindOntology
  <2> QED
    BY <1>2, <2>1, KeptSame DEF FindOntology, disk, ghosts
<1>3. CASE CreateResource(c)
  <2>1. Apart(c)
    BY <1>a, <1>3 DEF Apart, Handlings, CreateResource, To
  <2> QED
    BY <1>3, <2>1, KeptSame DEF CreateResource, disk, ghosts
<1>4. CASE CreateOntology(c)
  <2>1. Apart(c)
    BY <1>a, <1>4 DEF Apart, Handlings, CreateOntology
  <2> QED
    BY <1>4, <2>1, KeptSame DEF CreateOntology, disk, ghosts
<1>5. CASE ReadOntology(c)
  <2>1. Apart(c)
    BY <1>a, <1>5 DEF Apart, Handlings, ReadOntology, To
  <2> QED
    BY <1>5, <2>1, KeptSame DEF ReadOntology, disk, ghosts
<1>6. CASE ReadLast(c)
  <2>1. Apart(c)
    BY <1>a, <1>6 DEF Apart, Handlings, ReadLast
  <2> QED
    BY <1>6, <2>1, KeptSame DEF ReadLast, disk, ghosts
<1>7. CASE CreateVersion(c)
  <2>1. Apart(c)
    BY <1>a, <1>7 DEF Apart, Handlings, CreateVersion
  <2> QED
    BY <1>7, <2>1, KeptSame DEF CreateVersion, disk, ghosts
<1>8. CASE PointCurrent(c)
  <2>1. Apart(c)
    BY <1>a, <1>8 DEF Apart, Handlings, PointCurrent, To
  <2> QED
    BY <1>8, <2>1, KeptSame DEF PointCurrent, disk, ghosts
<1>9. CASE FindMain(c)
  <2>1. Apart(c)
    BY <1>a, <1>9 DEF Apart, Handlings, FindMain, To
  <2> QED
    BY <1>9, <2>1, KeptSame DEF FindMain, disk, ghosts
<1>10. CASE MoveMain(c)
  <2>1. Apart(c)
    BY <1>a, <1>10 DEF Apart, Handlings, MoveMain
  <2> QED
    BY <1>10, <2>1, KeptSame DEF MoveMain, disk, ghosts
<1> QED
  BY <1>1, <1>2, <1>3, <1>4, <1>5, <1>6, <1>7, <1>8, <1>9, <1>10

LEMMA KeptPulling ==
    ASSUME ApplyTypes, KeptInv, NEW c \in Clients,
           \/ StartPull(c, client[c].on, "pull")
           \/ \E e \in client[c].todo : StartPull(c, e, "ingest")
           \/ EnsureTable(c) \/ PullFails(c) \/ PullRefused(c)
           \/ DeriveReads(c) \/ \E chunk \in SUBSET client[c].kept : DeriveEmits(c, chunk)
           \/ DeriveEnds(c) \/ DeriveThrows(c)
    PROVE  KeptInv'
<1>a. client \in [Clients -> Handlings] /\ client[c] \in Handlings
  BY DEF ApplyTypes
<1>b. Empty.at = "idle"
  BY DEF Empty
<1>1. ASSUME NEW e, NEW a \in {"pull", "ingest"}, StartPull(c, e, a)
      PROVE  KeptInv'
  <2>1. Apart(c)
    BY <1>a, <1>1 DEF Apart, Handlings, StartPull
  <2> QED
    BY <1>1, <2>1, KeptSame DEF StartPull, disk, ghosts
<1>2. CASE EnsureTable(c)
  <2>1. Apart(c)
    BY <1>a, <1>2 DEF Apart, Handlings, EnsureTable, To
  <2>2. \A e \in Entities : tables[e] # None => tables'[e] = tables[e]
    BY <1>2 DEF EnsureTable, ApplyTypes, Stores
  <2>3. Evidence \subseteq Evidence'
    BY <2>2 DEF Evidence, Existing, Ids
  <2> QED
    BY <1>2, <2>1, <2>3, KeptApart DEF EnsureTable, ghosts
<1>3. CASE PullFails(c)
  <2>1. Apart(c)
    BY <1>a, <1>b, <1>3 DEF Apart, Handlings, PullFails
  <2> QED
    BY <1>3, <2>1, KeptSame DEF PullFails, disk, ghosts
<1>4. CASE PullRefused(c)
  <2>1. Apart(c)
    BY <1>a, <1>b, <1>4 DEF Apart, Handlings, PullRefused
  <2> QED
    BY <1>4, <2>1, KeptSame DEF PullRefused, disk, ghosts
<1>5. CASE DeriveReads(c)
  <2>1. Apart(c)
    BY <1>a, <1>5 DEF Apart, Handlings, DeriveReads
  <2> QED
    BY <1>5, <2>1, KeptSame DEF DeriveReads, disk, ghosts
<1>6. ASSUME NEW chunk, DeriveEmits(c, chunk)
      PROVE  KeptInv'
  <2>1. Apart(c)
    BY <1>a, <1>6 DEF Apart, Handlings, DeriveEmits
  <2> QED
    BY <1>6, <2>1, KeptSame DEF DeriveEmits, disk, ghosts
<1>8. CASE DeriveEnds(c)
  <2>1. Apart(c)
    BY <1>a, <1>b, <1>8 DEF Apart, Handlings, DeriveEnds, Ends
  <2> QED
    BY <1>8, <2>1, KeptSame DEF DeriveEnds, disk, ghosts
<1>7. CASE DeriveThrows(c)
  <2>1. Apart(c)
    BY <1>a, <1>b, <1>7 DEF Apart, Handlings, DeriveThrows, Ends
  <2> QED
    BY <1>7, <2>1, KeptSame DEF DeriveThrows, disk, ghosts
<1> QED
  BY <1>1, <1>2, <1>3, <1>4, <1>5, <1>6, <1>7, <1>8

LEMMA KeptDeleting ==
    ASSUME ApplyTypes, KeptInv, NEW c \in Clients,
           FindRow(c) \/ ListOntologies(c) \/ DeleteRows(c) \/ ListForDrop(c) \/ Forget(c)
    PROVE  KeptInv'
<1>a. client \in [Clients -> Handlings] /\ client[c] \in Handlings
  BY DEF ApplyTypes
<1>b. Empty.at = "idle"
  BY DEF Empty
<1>1. CASE FindRow(c)
  <2>1. Apart(c)
    BY <1>a, <1>1 DEF Apart, Handlings, FindRow, To
  <2> QED
    BY <1>1, <2>1, KeptSame DEF FindRow, disk, ghosts
<1>2. CASE ListOntologies(c)
  <2>1. Apart(c)
    BY <1>a, <1>2 DEF Apart, Handlings, ListOntologies
  <2> QED
    BY <1>2, <2>1, KeptSame DEF ListOntologies, disk, ghosts
<1>3. CASE DeleteRows(c)
  <2>1. /\ wf' = "deleted" /\ torn' = torn
        /\ \A d \in Clients : Rebuilding(d)' => Rebuilding(d)
    BY <1>a, <1>3 DEF DeleteRows, To, Rebuilding, Handlings, ghosts
  <2> QED
    BY <2>1 DEF KeptInv
<1>4. CASE ListForDrop(c)
  <2>1. /\ wf' = "deleted" /\ torn' = torn
        /\ \A d \in Clients : Rebuilding(d)' => Rebuilding(d)
    BY <1>a, <1>4 DEF ListForDrop, Rebuilding, Handlings, ghosts, disk, KeptInv
  <2> QED
    BY <2>1 DEF KeptInv
<1>5. CASE Forget(c)
  <2>1. Apart(c)
    BY <1>a, <1>b, <1>5 DEF Apart, Handlings, Forget, Ends
  <2> QED
    BY <1>5, <2>1, KeptSame DEF Forget, disk, ghosts
<1> QED
  BY <1>1, <1>2, <1>3, <1>4, <1>5

LEMMA KeptArriving ==
    ASSUME ApplyTypes, KeptInv, NEW c \in Clients, Arrivals(c) \/ Throws(c)
    PROVE  KeptInv'
<1>a. client \in [Clients -> Handlings] /\ client[c] \in Handlings
  BY DEF ApplyTypes
<1>b. Empty.at = "idle" /\ Empty \in Handlings
  BY EmptySound DEF Empty, Sound
<1>1. ASSUME NEW op, NEW m, NEW e, Begin(c, op, m, e)
      PROVE  KeptInv'
  <2>1. Apart(c)
    BY <1>a, <1>b, <1>1 DEF Apart, Handlings, Begin, Free
  <2> QED
    BY <1>1, <2>1, KeptSame DEF Begin, disk, ghosts
<1>2. CASE HookReads(c)
  <2>1. Apart(c)
    BY <1>a, <1>2 DEF Apart, Handlings, HookReads
  <2> QED
    BY <1>2, <2>1, KeptSame DEF HookReads, disk, ghosts
<1>3. CASE HookBinds(c)
  <2>1. client'[c].at \in {"find", "sought", "pull"}
    <3>1. client[c].op \in {"apply", "delete", "pull"}
      BY <1>3 DEF HookBinds, ApplyTypes, Sound
    <3> QED
      BY <1>a, <1>3, <3>1 DEF HookBinds, Handlings
  <2>2. Apart(c)
    BY <1>a, <1>3, <2>1 DEF Apart, HookBinds
  <2> QED
    BY <1>3, <2>2, KeptSame DEF HookBinds, disk, ghosts
<1>4. CASE Throws(c)
  <2>1. CASE Rebuilding(c)
    <3>1. torn'
      BY <1>4, <2>1 DEF Throws
    <3>2. \A d \in Clients \ {c} : client'[d] = client[d]
      BY <1>a, <1>4 DEF Throws
    <3>3. client'[c].at \in {"idle", "sought"}
      BY <1>4, Thrown
    <3> QED
      BY <1>4, <3>1, <3>2, <3>3 DEF Throws, disk, KeptInv
  <2>2. CASE ~Rebuilding(c)
    <3>a. client'[c].at \in {"idle", "sought"} /\ \A d \in Clients \ {c} : client'[d] = client[d]
      BY <1>4, Thrown
    <3>1. Apart(c)
      BY <2>2, <3>a DEF Apart, Rebuilding
    <3>2. UNCHANGED <<wf, tables, recorded, torn>>
      BY <1>4, <2>2 DEF Throws, disk, ApplyTypes, Stores
    <3> QED
      BY <3>1, <3>2, KeptSame
  <2> QED
    BY <2>1, <2>2
<1> QED
  BY <1>1, <1>2, <1>3, <1>4 DEF Arrivals

LEMMA KeptMaking ==
    ASSUME ApplyTypes, KeptInv, NEW c \in Clients,
           \/ ListTables(c) \/ CarryRows(c) \/ AllDropped(c) \/ RestoreRows(c)
           \/ \E e \in Entities : DropTable(c, e) \/ MakeTable(c, e)
           \/ WipeLog(c) \/ AllPulled(c)
    PROVE  KeptInv'
<1>a. client \in [Clients -> Handlings] /\ client[c] \in Handlings /\ Sound(client[c])
  BY DEF ApplyTypes
<1>b. /\ recorded \subseteq Actuated \X Ids /\ torn \in BOOLEAN
      /\ tables \in [Entities -> Table \cup {None}]
  BY DEF ApplyTypes, Stores
<1>c. ASSUME Rebuilding(c), ~torn, NEW d \in Clients, Rebuilding(d)
      PROVE  d = c
  BY <1>c DEF KeptInv
<1>1. CASE ListTables(c)
  <2>1. /\ \A d \in Clients \ {c} : client'[d] = client[d]
        /\ client[c].at = "list" /\ client'[c].at = "carry"
    BY <1>a, <1>1 DEF ListTables, Handlings
  <2>2. ~torn' => ~torn /\ \A d \in Clients \ {c} : ~Rebuilding(d)
    BY <1>1 DEF ListTables
  <2>3. Evidence' = Evidence /\ recorded' = recorded /\ wf' = wf
    BY <1>1 DEF ListTables, disk, Evidence, Existing, Ids
  <2>4. (~torn => \A d, e \in Clients : Rebuilding(d) /\ Rebuilding(e) => d = e)'
    BY <2>1, <2>2 DEF Rebuilding
  <2>5. (wf # "deleted" /\ ~torn => recorded \subseteq Evidence)'
    BY <2>1, <2>2, <2>3 DEF KeptInv, Rebuilding, Carrying
  <2>6. ~torn' => \A d \in Clients : client'[d].at # "drop"
    BY <2>1, <2>2 DEF Rebuilding
  <2>7. \A d \in Clients : client'[d].at \in {"tables", "unlink"} => wf' = "deleted"
    BY <2>1, <2>3 DEF KeptInv
  <2> QED
    BY <2>4, <2>5, <2>6, <2>7 DEF KeptInv
<1>2. CASE CarryRows(c)
  <2>1. /\ \A d \in Clients \ {c} : client'[d] = client[d]
        /\ client[c].at = "carry" /\ client'[c].at = "drop"
        /\ client'[c].kept = {x \in Evidence : x[1] \in Carried(c)}
        /\ client'[c].todo = client[c].todo \ (Actuated \ Ents[client[c].m])
    BY <1>a, <1>2 DEF CarryRows, Handlings
  <2>2. Evidence' = Evidence /\ UNCHANGED <<recorded, wf, torn>>
    BY <1>2 DEF CarryRows, disk, ghosts, Evidence, Existing, Ids
  <2>3. ~torn => \A d \in Clients \ {c} : ~Rebuilding(d)
    BY <1>c, <2>1 DEF Rebuilding
  <2>4. wf # "deleted" /\ ~torn => recorded \subseteq Evidence
    BY <2>1, <2>3 DEF KeptInv, Rebuilding, Carrying
  <2>5. ASSUME wf # "deleted", ~torn, NEW x \in recorded, x[1] \in client'[c].todo
        PROVE  x \in client'[c].kept
    <3>1. x[1] \in Actuated
      BY <1>b
    <3> QED
      BY <2>1, <2>4, <2>5, <3>1 DEF Carried
  <2>6. \A d \in Clients : client'[d].at \in {"tables", "unlink"} => wf' = "deleted"
    BY <2>1, <2>2 DEF KeptInv
  <2>7. ~torn' => \A d \in Clients \ {c} : ~Rebuilding(d)'
    BY <2>1, <2>2, <2>3 DEF Rebuilding
  <2>8. ~torn' => \A d \in Clients : client'[d].at = "drop" => d = c
    BY <2>7 DEF Rebuilding
  <2> QED
    BY <2>2, <2>4, <2>5, <2>6, <2>7, <2>8 DEF KeptInv
<1>3. CASE AllDropped(c)
  <2>1. /\ \A d \in Clients \ {c} : client'[d] = client[d]
        /\ client[c].at = "drop" /\ client'[c].at = "make" /\ client'[c].kept = client[c].kept
    BY <1>a, <1>3 DEF AllDropped, Handlings
  <2>2. Evidence' = Evidence /\ UNCHANGED <<recorded, wf, torn>>
    BY <1>3 DEF AllDropped, disk, ghosts, Evidence, Existing, Ids
  <2>3. \A d \in Clients : Rebuilding(d)' <=> Rebuilding(d)
    BY <2>1 DEF Rebuilding
  <2>4. \A d \in Clients : (Carrying(d)' <=> Carrying(d)) /\ client'[d].kept = client[d].kept
    BY <2>1 DEF Carrying
  <2>5. \A d \in Clients : client'[d].at \in {"drop", "tables", "unlink"} => client'[d] = client[d]
    BY <2>1
  <2>6. ASSUME wf # "deleted", ~torn, NEW x \in recorded
        PROVE  x \in Evidence' \/ \E d \in Clients : Carrying(d)' /\ x \in client'[d].kept
    BY <2>2, <2>4, <2>6 DEF KeptInv
  <2> QED
    BY <2>2, <2>3, <2>5, <2>6 DEF KeptInv
<1>4. CASE RestoreRows(c)
  <2>1. /\ \A d \in Clients \ {c} : client'[d] = client[d]
        /\ client[c].at = "make" /\ client'[c].at = "wipe"
    BY <1>a, <1>4 DEF RestoreRows, To, Handlings
  <2>2. UNCHANGED <<recorded, wf, torn>>
    BY <1>4 DEF RestoreRows, ghosts
  <2> DEFINE back(e) == {i \in Ids : <<e, i>> \in client[c].kept}
  <2>3. \A e \in Entities : tables[e] # None =>
           /\ tables'[e] # None
           /\ tables'[e].rows = tables[e].rows \cup back(e)
    <3> SUFFICES ASSUME NEW e \in Entities, tables[e] # None
                 PROVE  /\ tables'[e] # None
                        /\ tables'[e].rows = tables[e].rows \cup back(e)
      OBVIOUS
    <3>1. tables[e] \in Table
      BY <1>b
    <3>2. tables'[e] = [tables[e] EXCEPT !.rows = @ \cup {i \in Ids : <<e, i>> \in client[c].kept}]
      BY <1>4 DEF RestoreRows
    <3>3. tables'[e] \in Table
      BY <3>1, <3>2 DEF Table
    <3> QED
      BY <3>1, <3>2, <3>3, NoTableAssumption DEF Table
  <2>4. Evidence \subseteq Evidence'
    BY <2>3 DEF Evidence, Existing, Ids
  <2>5. client[c].kept \subseteq Evidence'
    <3> SUFFICES ASSUME NEW x \in client[c].kept PROVE x \in Evidence'
      OBVIOUS
    <3>1. x \in Entities \X Ids /\ tables[x[1]] # None
      BY <1>a, <1>4 DEF Handlings, RestoreRows, Existing
    <3>2. PICK e \in Entities, i \in Ids : x = <<e, i>>
      BY <3>1
    <3>3. tables'[e] # None /\ i \in tables'[e].rows
      BY <2>3, <3>1, <3>2
    <3> QED
      BY <3>1, <3>2, <3>3 DEF Evidence, Existing, Ids
  <2>6. ~torn => \A d \in Clients \ {c} : ~Rebuilding(d)
    BY <1>c, <2>1 DEF Rebuilding
  <2>7. wf # "deleted" /\ ~torn => recorded \subseteq Evidence'
    BY <2>1, <2>4, <2>5, <2>6 DEF KeptInv, Rebuilding, Carrying
  <2>8. ~torn' => \A d \in Clients : ~Rebuilding(d)'
    BY <2>1, <2>2, <2>6 DEF Rebuilding
  <2>9. \A d \in Clients : client'[d].at \in {"tables", "unlink"} => wf' = "deleted"
    BY <2>1, <2>2 DEF KeptInv
  <2> QED
    BY <2>2, <2>7, <2>8, <2>9 DEF KeptInv, Rebuilding
<1>5. ASSUME NEW e \in Entities, DropTable(c, e)
      PROVE  KeptInv'
  <2>1. /\ \A d \in Clients \ {c} : client'[d] = client[d]
        /\ client'[c].at = client[c].at /\ client'[c].kept = client[c].kept
        /\ client'[c].todo = client[c].todo \ {e}
        /\ client[c].at \in {"drop", "unlink"} /\ e \in client[c].todo
    BY <1>a, <1>5 DEF DropTable, Handlings
  <2>2. UNCHANGED <<recorded, wf, torn>>
    BY <1>5 DEF DropTable, ghosts
  <2>3. \A d \in Clients : client'[d].at = client[d].at /\ client'[d].kept = client[d].kept
                           /\ client'[d].todo \subseteq client[d].todo
    BY <2>1
  <2>4. \A x \in Evidence : x[1] # e => x \in Evidence'
    BY <1>b, <1>5 DEF DropTable, Evidence, Existing, Ids
  <2>5. wf # "deleted" => client[c].at = "drop"
    BY <2>1 DEF KeptInv
  <2>6. ASSUME wf # "deleted", ~torn, NEW x \in recorded
        PROVE  x \in Evidence' \/ \E d \in Clients : Carrying(d) /\ x \in client[d].kept
    <3>1. CASE x[1] = e
      BY <2>1, <2>5, <2>6, <3>1 DEF KeptInv, Carrying
    <3>2. CASE x[1] # e
      BY <2>4, <2>6, <3>2 DEF KeptInv, Carrying
    <3> QED
      BY <3>1, <3>2
  <2> QED
    BY <2>2, <2>3, <2>6 DEF KeptInv, Carrying, Rebuilding
<1>6. ASSUME NEW e \in Entities, MakeTable(c, e)
      PROVE  KeptInv'
  <2>1. /\ \A d \in Clients \ {c} : client'[d] = client[d]
        /\ client'[c].at = client[c].at /\ client'[c].kept = client[c].kept
        /\ client'[c].todo \subseteq client[c].todo
    BY <1>a, <1>6 DEF MakeTable, Handlings
  <2>2. UNCHANGED <<recorded, wf, torn>>
    BY <1>6 DEF MakeTable, ghosts
  <2>3. \A d \in Clients : client'[d].at = client[d].at /\ client'[d].kept = client[d].kept
                           /\ client'[d].todo \subseteq client[d].todo
    BY <2>1
  <2>4. Evidence \subseteq Evidence'
    BY <1>b, <1>6 DEF MakeTable, Evidence, Existing, Ids
  <2> QED
    BY <2>2, <2>3, <2>4 DEF KeptInv, Carrying, Rebuilding
<1>7. CASE WipeLog(c)
  <2>1. Apart(c)
    BY <1>a, <1>7 DEF Apart, Handlings, WipeLog
  <2> QED
    BY <1>7, <2>1, KeptSame DEF WipeLog, ghosts
<1>8. CASE AllPulled(c)
  <2>1. Apart(c)
    BY <1>a, <1>8 DEF Apart, Handlings, AllPulled, To
  <2> QED
    BY <1>8, <2>1, KeptSame DEF AllPulled, disk, ghosts
<1> QED
  BY <1>1, <1>2, <1>3, <1>4, <1>5, <1>6, <1>7, <1>8

LEMMA KeptLanding ==
    ASSUME ApplyTypes, KeptInv, NEW c \in Clients, LandRows(c)
    PROVE  KeptInv'
<1> DEFINE e == client[c].on
           i == IF e \in Actuated THEN acts + 1 ELSE 0
<1>a. /\ client \in [Clients -> Handlings] /\ client[c] \in Handlings
      /\ recorded \subseteq Actuated \X Ids /\ torn \in BOOLEAN
      /\ tables \in [Entities -> Table \cup {None}]
  BY DEF ApplyTypes, Stores
<1>1. Apart(c)
  BY <1>a DEF Apart, Handlings, LandRows, AfterPull
<1>2. e \in Entities /\ tables[e] # None /\ i \in Ids
  BY DEF LandRows, Existing
<1>3. tables'[e] # None /\ tables'[e].rows = tables[e].rows \cup {i}
  <2>1. tables[e] \in Table
    BY <1>a, <1>2
  <2>2. tables'[e] = [tables[e] EXCEPT !.rows = @ \cup {i}]
    BY <1>a, <1>2 DEF LandRows
  <2>3. tables'[e] \in Table
    BY <1>2, <2>1, <2>2 DEF Table
  <2> QED
    BY <2>1, <2>2, <2>3, NoTableAssumption DEF Table
<1>4. \A f \in Entities \ {e} : tables'[f] = tables[f]
  BY <1>a DEF LandRows
<1>5. Evidence \subseteq Evidence' /\ <<e, i>> \in Evidence'
  BY <1>2, <1>3, <1>4 DEF Evidence, Existing, Ids
<1>6. recorded' \subseteq recorded \cup {<<e, i>>} /\ wf' = wf
  BY DEF LandRows
<1>7. ~torn' => ~torn /\ \A d \in Clients : client[d].at = "drop" /\ e \in Actuated
                            => e \notin client[d].todo
  BY <1>a DEF LandRows
<1>8. recorded' # recorded => e \in Actuated
  BY DEF LandRows
<1>9. \A d \in Clients : client'[d].at \in {"carry", "drop", "make", "tables", "unlink"}
                            => client'[d] = client[d]
  BY <1>1 DEF Apart
<1>10. (\A d \in Clients : client[d].at \in {"tables", "unlink"} => wf = "deleted")'
  BY <1>6, <1>9 DEF KeptInv
<1>11. (~torn => \A d, f \in Clients : Rebuilding(d) /\ Rebuilding(f) => d = f)'
  BY <1>7, <1>9 DEF KeptInv, Rebuilding
<1>12. ASSUME wf' # "deleted", ~torn', NEW x \in recorded'
       PROVE  x \in Evidence' \/ \E d \in Clients : Carrying(d)' /\ x \in client'[d].kept
  <2>1. CASE x = <<e, i>>
    BY <1>5, <2>1
  <2>2. CASE x \in recorded
    <3>1. x \in Evidence \/ \E d \in Clients : Carrying(d) /\ x \in client[d].kept
      BY <1>6, <1>7, <1>12, <2>2 DEF KeptInv
    <3>2. ASSUME NEW d \in Clients, Carrying(d), x \in client[d].kept
          PROVE  Carrying(d)' /\ x \in client'[d].kept
      BY <1>1, <3>2 DEF Apart, Carrying
    <3> QED
      BY <1>5, <3>1, <3>2
  <2> QED
    BY <1>6, <2>1, <2>2
<1>13. ASSUME wf' # "deleted", ~torn', NEW d \in Clients, client'[d].at = "drop",
              NEW x \in recorded', x[1] \in client'[d].todo
       PROVE  x \in client'[d].kept
  <2>1. client'[d] = client[d]
    BY <1>9, <1>13
  <2>2. CASE x \in recorded
    BY <1>6, <1>7, <1>13, <2>1, <2>2 DEF KeptInv
  <2>3. CASE x \notin recorded
    <3>1. x = <<e, i>> /\ e \in Actuated
      BY <1>6, <1>8, <2>3
    <3>2. x[1] = e
      BY <3>1
    <3> QED
      BY <1>7, <1>13, <2>1, <3>1, <3>2
  <2> QED
    BY <2>2, <2>3
<1> QED
  BY <1>10, <1>11, <1>12, <1>13 DEF KeptInv

LEMMA KeptStep == ApplyTypes /\ KeptInv /\ [ApplyNext]_applyVars => KeptInv'
<1> SUFFICES ASSUME ApplyTypes, KeptInv, [ApplyNext]_applyVars
             PROVE  KeptInv'
  OBVIOUS
<1>1. CASE Restart
  <2>1. \A c \in Clients : client'[c].at = "idle"
    BY <1>1 DEF Restart, Empty
  <2>2. ~torn' => ~torn /\ \A c \in Clients : ~Rebuilding(c)
    BY <1>1 DEF Restart
  <2>3. Evidence' = Evidence /\ UNCHANGED <<recorded, wf>>
    BY <1>1 DEF Restart, disk, Evidence, Existing, Ids
  <2>4. wf' # "deleted" /\ ~torn' => recorded \subseteq Evidence
    BY <2>2, <2>3 DEF KeptInv, Rebuilding, Carrying
  <2> QED
    BY <2>1, <2>3, <2>4 DEF KeptInv, Rebuilding
<1>2. ASSUME NEW c \in Clients, Applies(c)
      PROVE  KeptInv'
  BY <1>2, KeptVersioning, KeptMaking DEF Applies
<1>3. ASSUME NEW c \in Clients, Arrivals(c) \/ Pulls(c) \/ Deletes(c) \/ Throws(c)
      PROVE  KeptInv'
  BY <1>3, KeptArriving, KeptPulling, KeptLanding, KeptDeleting DEF Pulls, Deletes
<1>4. CASE UNCHANGED applyVars
  <2>1. Evidence' = Evidence /\ UNCHANGED <<recorded, wf, torn, client>>
    BY <1>4 DEF applyVars, disk, ghosts, Evidence, Existing, Ids
  <2> QED
    BY <2>1 DEF KeptInv, Rebuilding, Carrying
<1> QED
  BY <1>1, <1>2, <1>3, <1>4 DEF ApplyNext

\* The record of the actions performed outlasts every sequence of applies, pulls,
\* failures and restarts, as EvidenceKept says, for any models and requests.
THEOREM RecordOutlasts == ApplySpec => []EvidenceKept
<1>1. KeptInv => EvidenceKept
  BY DEF KeptInv, EvidenceKept, Rebuilding, Carrying
<1> QED
  BY <1>1, KeptInit, KeptStep, ApplyTypesHold, PTL DEF ApplySpec

-----------------------------------------------------------------------------
\* Until the workflow is deleted its ontology is created once, by whoever created the
\* resource; a request holds that ontology from reading it on, and a version of its own
\* once it has created one.
Pointing == {"point", "head", "move", "branch"}
Holding == {"read", "last", "version"} \cup Pointing

OwnAt(c) ==
    /\ client[c].at = "ontology" => res = c /\ ont = None
    /\ client[c].at \in Holding => client[c].oid = ont /\ ont # None
    /\ client[c].at \in Pointing => /\ client[c].saw \in DOMAIN versions
                                    /\ versions[client[c].saw] = client[c].m

OwnInv == wf # "deleted" => (res = None => ont = None) /\ \A c \in Clients : OwnAt(c)

LEMMA OwnStarts == ApplyInit => OwnInv
<1> SUFFICES ASSUME ApplyInit PROVE OwnInv
  OBVIOUS
<1>1. \A c \in Clients : client[c].at = "idle"
  BY DEF ApplyInit, Empty
<1>2. res = None => ont = None
  BY ApplyAssumption DEF ApplyInit
<1> QED
  BY <1>1, <1>2 DEF OwnInv, OwnAt, Holding, Pointing

\* A step that leaves ontology and versions alone, of a request that then holds neither.
LEMMA OwnElsewhere ==
    ASSUME OwnInv, NEW c \in Clients, UNCHANGED <<wf, res, ont, versions>>,
           \A d \in Clients \ {c} : client'[d] = client[d],
           client'[c].at \notin {"ontology"} \cup Holding
    PROVE  OwnInv'
BY DEF OwnInv, OwnAt, Holding, Pointing

LEMMA OwnVersioning ==
    ASSUME ApplyTypes, OwnInv, NEW c \in Clients,
           CreateRow(c) \/ FindOntology(c) \/ CreateResource(c) \/ CreateOntology(c)
           \/ ReadOntology(c) \/ ReadLast(c) \/ CreateVersion(c) \/ PointCurrent(c)
           \/ FindMain(c) \/ MoveMain(c)
    PROVE  OwnInv'
<1>a. /\ client \in [Clients -> Handlings] /\ client[c] \in Handlings
      /\ versions \in Seq(Models)
  BY DEF ApplyTypes, Stores
<1>b. None \notin Clients
  BY ApplyAssumption
<1> USE DEF Holding, Pointing
<1>1. CASE CreateRow(c)
  BY <1>1, <1>a DEF CreateRow, To, Handlings, OwnInv, OwnAt
<1>2. CASE FindOntology(c)
  <2>1. UNCHANGED <<wf, res, ont, versions>>
    BY <1>2 DEF FindOntology, disk
  <2>2. /\ \A d \in Clients \ {c} : client'[d] = client[d]
        /\ client'[c].at = (IF ont = None THEN "resource" ELSE "read")
        /\ client'[c].oid = ont
    BY <1>2, <1>a DEF FindOntology, Handlings
  <2> QED
    BY <2>1, <2>2 DEF OwnInv, OwnAt
<1>3. CASE CreateResource(c)
  <2>1. UNCHANGED <<wf, ont, versions>> /\ res = None /\ res' = c
    BY <1>3 DEF CreateResource
  <2>2. /\ \A d \in Clients \ {c} : client'[d] = client[d]
        /\ client'[c].at = "ontology"
    BY <1>3, <1>a DEF CreateResource, To, Handlings
  <2> QED
    BY <2>1, <2>2, <1>b DEF OwnInv, OwnAt
<1>4. CASE CreateOntology(c)
  <2>1. UNCHANGED <<wf, res, versions>> /\ res = c /\ ont' = c
    BY <1>4 DEF CreateOntology
  <2>2. /\ \A d \in Clients \ {c} : client'[d] = client[d]
        /\ client[c].at = "ontology" /\ client'[c].at = "read" /\ client'[c].oid = c
    BY <1>4, <1>a DEF CreateOntology, Handlings
  <2> QED
    BY <2>1, <2>2, <1>b DEF OwnInv, OwnAt
<1>5. CASE ReadOntology(c)
  <2>1. UNCHANGED <<wf, res, ont, versions>>
    BY <1>5 DEF ReadOntology, disk
  <2>2. \A d \in Clients \ {c} : client'[d] = client[d]
    BY <1>5, <1>a DEF ReadOntology, To, Handlings
  <2>3. \/ client'[c].at = "list"
        \/ client[c].at = "read" /\ client'[c].at = "last" /\ client'[c].oid = client[c].oid
    BY <1>5, <1>a DEF ReadOntology, To, Handlings
  <2> QED
    BY <2>1, <2>2, <2>3 DEF OwnInv, OwnAt
<1>6. CASE ReadLast(c)
  <2>1. UNCHANGED <<wf, res, ont, versions>>
    BY <1>6 DEF ReadLast, disk
  <2>2. /\ \A d \in Clients \ {c} : client'[d] = client[d]
        /\ client[c].at = "last" /\ client'[c].at = "version" /\ client'[c].oid = client[c].oid
    BY <1>6, <1>a DEF ReadLast, Handlings
  <2> QED
    BY <2>1, <2>2 DEF OwnInv, OwnAt
<1>7. CASE CreateVersion(c)
  <2>1. UNCHANGED <<wf, res, ont>> /\ versions' = Append(versions, client[c].m)
        /\ Len(versions) = client[c].saw
    BY <1>7 DEF CreateVersion
  <2>2. /\ \A d \in Clients \ {c} : client'[d] = client[d]
        /\ client[c].at = "version" /\ client'[c].at = "point" /\ client'[c].m = client[c].m
        /\ client'[c].oid = client[c].oid /\ client'[c].saw = client[c].saw + 1
    BY <1>7, <1>a DEF CreateVersion, Handlings
  <2>3. client[c].m \in Models
    BY <2>2 DEF ApplyTypes, Sound, Versioning
  <2>4. /\ DOMAIN versions = 1..Len(versions) /\ DOMAIN versions' = 1..(Len(versions) + 1)
        /\ versions'[Len(versions) + 1] = client[c].m
        /\ \A n \in DOMAIN versions : versions'[n] = versions[n]
        /\ Len(versions) \in Nat
    BY <1>a, <2>1, <2>3
  <2>5. DOMAIN versions \subseteq DOMAIN versions' /\ Len(versions) + 1 \in DOMAIN versions'
    BY <2>4
  <2> QED
    BY <2>1, <2>2, <2>4, <2>5 DEF OwnInv, OwnAt
<1>8. CASE PointCurrent(c)
  <2>1. UNCHANGED <<wf, res, ont, versions>>
    BY <1>8 DEF PointCurrent
  <2>2. /\ \A d \in Clients \ {c} : client'[d] = client[d]
        /\ client[c].at = "point" /\ client'[c].at = "head" /\ client'[c].m = client[c].m
        /\ client'[c].oid = client[c].oid /\ client'[c].saw = client[c].saw
    BY <1>8, <1>a DEF PointCurrent, To, Handlings
  <2> QED
    BY <2>1, <2>2 DEF OwnInv, OwnAt
<1>9. CASE FindMain(c)
  <2>1. UNCHANGED <<wf, res, ont, versions>>
    BY <1>9 DEF FindMain, disk
  <2>2. /\ \A d \in Clients \ {c} : client'[d] = client[d]
        /\ client[c].at = "head" /\ client'[c].at \in {"move", "branch"}
        /\ client'[c].m = client[c].m
        /\ client'[c].oid = client[c].oid /\ client'[c].saw = client[c].saw
    BY <1>9, <1>a DEF FindMain, To, Handlings
  <2> QED
    BY <2>1, <2>2 DEF OwnInv, OwnAt
<1>10. CASE MoveMain(c)
  <2>1. UNCHANGED <<wf, res, ont, versions>>
    BY <1>10 DEF MoveMain
  <2>2. /\ \A d \in Clients \ {c} : client'[d] = client[d]
        /\ client'[c].at = "list"
    BY <1>10, <1>a DEF MoveMain, Handlings
  <2> QED
    BY <2>1, <2>2, OwnElsewhere
<1> QED
  BY <1>1, <1>2, <1>3, <1>4, <1>5, <1>6, <1>7, <1>8, <1>9, <1>10

LEMMA OwnApplying ==
    ASSUME ApplyTypes, OwnInv, NEW c \in Clients, Applies(c)
    PROVE  OwnInv'
<1>a. client \in [Clients -> Handlings] /\ client[c] \in Handlings
  BY DEF ApplyTypes
<1> DEFINE Elsewhere == /\ UNCHANGED <<wf, res, ont, versions>>
                        /\ \A d \in Clients \ {c} : client'[d] = client[d]
                        /\ client'[c].at \notin {"ontology"} \cup Holding
<1>1. CASE ListTables(c) \/ CarryRows(c) \/ AllDropped(c) \/ RestoreRows(c) \/ WipeLog(c)
           \/ AllPulled(c)
  <2>1. UNCHANGED <<wf, res, ont, versions>>
    BY <1>1 DEF ListTables, CarryRows, AllDropped, RestoreRows, WipeLog, AllPulled, disk
  <2>2. /\ \A d \in Clients \ {c} : client'[d] = client[d]
        /\ client'[c].at \in Making \cup Pulling
    <3>1. CASE ListTables(c)
      BY <3>1, <1>a DEF ListTables, Handlings, Making
    <3>2. CASE CarryRows(c)
      BY <3>2, <1>a DEF CarryRows, Handlings, Making
    <3>3. CASE AllDropped(c) \/ WipeLog(c)
      BY <3>3, <1>a DEF AllDropped, WipeLog, Handlings, Making
    <3>4. CASE RestoreRows(c) \/ AllPulled(c)
      BY <3>4, <1>a DEF RestoreRows, AllPulled, To, Handlings, Making, Pulling
    <3> QED
      BY <1>1, <3>1, <3>2, <3>3, <3>4
  <2> QED
    BY <2>1, <2>2, OwnElsewhere DEF Holding, Pointing, Making, Pulling
<1>2. ASSUME NEW e \in Entities, DropTable(c, e) \/ MakeTable(c, e)
      PROVE  OwnInv'
  <2>1. UNCHANGED <<wf, res, ont, versions>>
    BY <1>2 DEF DropTable, MakeTable
  <2>2. /\ \A d \in Clients \ {c} : client'[d] = client[d]
        /\ client'[c].at \in {"drop", "make", "unlink"}
    BY <1>2, <1>a DEF DropTable, MakeTable, Handlings
  <2> QED
    BY <2>1, <2>2, OwnElsewhere DEF Holding, Pointing
<1> QED
  BY <1>1, <1>2, OwnVersioning DEF Applies

LEMMA OwnPulling ==
    ASSUME ApplyTypes, OwnInv, NEW c \in Clients, Pulls(c)
    PROVE  OwnInv'
<1>a. client \in [Clients -> Handlings] /\ client[c] \in Handlings
  BY DEF ApplyTypes
<1>1. UNCHANGED <<wf, res, ont, versions>>
  <2>1. CASE EnsureTable(c) \/ LandRows(c)
    BY <2>1 DEF EnsureTable, LandRows
  <2>2. ASSUME NEW e, NEW at, StartPull(c, e, at)
        PROVE  UNCHANGED <<wf, res, ont, versions>>
    BY <2>2 DEF StartPull, disk
  <2>3. CASE PullFails(c) \/ PullRefused(c) \/ DeriveReads(c) \/ DeriveEnds(c) \/ DeriveThrows(c)
    BY <2>3 DEF PullFails, PullRefused, DeriveReads, DeriveEnds, DeriveThrows, disk
  <2>4. CASE \E chunk \in SUBSET client[c].kept : DeriveEmits(c, chunk)
    BY <2>4 DEF DeriveEmits
  <2> QED
    BY <2>1, <2>2, <2>3, <2>4 DEF Pulls
<1>2. /\ \A d \in Clients \ {c} : client'[d] = client[d]
      /\ client'[c].at \in Pulling \cup {"idle", "ingest"}
  <2>1. ASSUME NEW e, NEW at, StartPull(c, e, at)
        PROVE  /\ \A d \in Clients \ {c} : client'[d] = client[d]
               /\ client'[c].at \in Pulling
    BY <2>1, <1>a DEF StartPull, Handlings, Pulling
  <2>2. CASE EnsureTable(c) \/ LandRows(c)
    BY <2>2, <1>a DEF EnsureTable, LandRows, AfterPull, To, Handlings, Pulling
  <2>3. CASE PullFails(c) \/ PullRefused(c)
    BY <2>3, <1>a DEF PullFails, PullRefused, Empty, Handlings, Pulling
  <2>4. CASE DeriveReads(c) \/ \E chunk \in SUBSET client[c].kept : DeriveEmits(c, chunk)
    BY <2>4, <1>a DEF DeriveReads, DeriveEmits, Handlings, Pulling
  <2>5. CASE DeriveEnds(c) \/ DeriveThrows(c)
    BY <2>5, <1>a DEF DeriveEnds, DeriveThrows, Ends, Empty, Handlings, Pulling
  <2> QED
    BY <2>1, <2>2, <2>3, <2>4, <2>5 DEF Pulls
<1> QED
  BY <1>1, <1>2, OwnElsewhere DEF Holding, Pointing, Pulling

LEMMA OwnDeleting ==
    ASSUME ApplyTypes, OwnInv, NEW c \in Clients, Deletes(c)
    PROVE  OwnInv'
<1>a. client \in [Clients -> Handlings] /\ client[c] \in Handlings
  BY DEF ApplyTypes
<1>1. CASE DeleteRows(c)
  BY <1>1 DEF DeleteRows, OwnInv
<1>2. CASE FindRow(c) \/ ListOntologies(c) \/ ListForDrop(c) \/ Forget(c)
  <2>1. UNCHANGED <<wf, res, ont, versions>>
    BY <1>2 DEF FindRow, ListOntologies, ListForDrop, Forget, disk
  <2>2. /\ \A d \in Clients \ {c} : client'[d] = client[d]
        /\ client'[c].at \in Deleting \cup {"idle"}
    BY <1>2, <1>a DEF FindRow, ListOntologies, ListForDrop, Forget, To, Ends, Empty, Handlings,
                      Deleting
  <2> QED
    BY <2>1, <2>2, OwnElsewhere DEF Holding, Pointing, Deleting
<1> QED
  BY <1>1, <1>2 DEF Deletes

LEMMA OwnArriving ==
    ASSUME ApplyTypes, OwnInv, NEW c \in Clients, Arrivals(c) \/ Throws(c)
    PROVE  OwnInv'
<1>a. client \in [Clients -> Handlings] /\ client[c] \in Handlings
  BY DEF ApplyTypes
<1>b. \/ \E op \in Opers \ {"none"}, m \in Models \cup {None}, e \in Entities \cup {None} :
            Begin(c, op, m, e)
      \/ HookReads(c) \/ HookBinds(c) \/ Throws(c)
  BY ApplyAssumption DEF Arrivals, Opers
<1>1. UNCHANGED <<wf, res, ont, versions>>
  BY <1>b DEF Begin, HookReads, HookBinds, Throws, disk
<1>2. /\ \A d \in Clients \ {c} : client'[d] = client[d]
      /\ client'[c].at \in {"idle", "row", "hook", "hooked", "find", "sought", "pull"}
  <2>1. ASSUME NEW op, NEW m, NEW e, Begin(c, op, m, e)
        PROVE  /\ \A d \in Clients \ {c} : client'[d] = client[d]
               /\ client'[c].at \in {"row", "hook"}
    <3>1. client' = [client EXCEPT ![c] = [Empty EXCEPT !.op = op, !.m = m, !.on = e,
                         !.at = IF op = "create" THEN "row" ELSE "hook"]]
      BY <2>1 DEF Begin
    <3> QED
      BY <3>1, <1>a DEF Empty
  <2>2. CASE HookReads(c)
    BY <2>2, <1>a DEF HookReads, Handlings
  <2>3. CASE HookBinds(c)
    <3>1. client[c].op \in {"apply", "delete", "pull"}
      BY <2>3 DEF HookBinds, ApplyTypes, Sound
    <3> QED
      BY <2>3, <3>1, <1>a DEF HookBinds, Handlings
  <2>4. CASE Throws(c)
    BY <2>4, Thrown
  <2> QED
    BY <1>b, <2>1, <2>2, <2>3, <2>4
<1> QED
  BY <1>1, <1>2, OwnElsewhere DEF Holding, Pointing

LEMMA OwnStep == ApplyTypes /\ OwnInv /\ [ApplyNext]_applyVars => OwnInv'
<1> SUFFICES ASSUME ApplyTypes, OwnInv, [ApplyNext]_applyVars
             PROVE  OwnInv'
  OBVIOUS
<1>1. CASE Restart
  <2>1. \A c \in Clients : client'[c].at = "idle"
    BY <1>1 DEF Restart, Empty
  <2>2. UNCHANGED <<wf, res, ont, versions>>
    BY <1>1 DEF Restart, disk
  <2> QED
    BY <2>1, <2>2 DEF OwnInv, OwnAt, Holding, Pointing
<1>2. ASSUME NEW c \in Clients, Arrivals(c) \/ Applies(c) \/ Pulls(c) \/ Deletes(c) \/ Throws(c)
      PROVE  OwnInv'
  BY <1>2, OwnArriving, OwnApplying, OwnPulling, OwnDeleting
<1>3. CASE UNCHANGED applyVars
  BY <1>3 DEF applyVars, disk, OwnInv, OwnAt
<1> QED
  BY <1>1, <1>2, <1>3 DEF ApplyNext

\* The version a request makes current is the one it created, for any number of requests
\* that choose the same number for theirs, while the workflow exists.
THEOREM VersionsAreOwn == ApplySpec => []PointsAtOwnVersion
<1>1. OwnInv => PointsAtOwnVersion
  BY DEF OwnInv, OwnAt, PointsAtOwnVersion, Pointing
<1> QED
  BY <1>1, OwnStarts, OwnStep, ApplyTypesHold, PTL DEF ApplySpec

-----------------------------------------------------------------------------
LEMMA LoneStarts == ApplyInit => LoneInv
BY DEF ApplyInit, LoneInv

\* One request goes on; if nothing overlaps it, what it has brought about so far holds.
LEMMA LoneGoesOn ==
    ASSUME ApplyTypes, LoneInv, NEW c \in Clients, ~Free(c), alone' = alone, verdict' = verdict,
           \A d \in Clients \ {c} : client'[d] = client[d],
           alone = c /\ SoFar(c) => SoFar(c)'
    PROVE  LoneInv'
<1>1. verdict = None
  BY DEF LoneInv, Quiet
<1>2. CASE alone = None
  BY <1>1, <1>2 DEF LoneInv
<1>3. CASE alone # None
  <2>1. alone = c
    BY <1>3 DEF LoneInv, ApplyTypes, Stores
  <2>2. (\A d \in Clients \ {c} : Free(d))' /\ SoFar(c)'
    BY <1>3, <2>1 DEF LoneInv, Free
  <2>3. alone' = c /\ verdict' = None
    BY <1>1, <2>1
  <2> QED
    BY <2>2, <2>3 DEF LoneInv
<1> QED
  BY <1>2, <1>3

\* A request ends, with a verdict if nothing has overlapped it.
LEMMA LoneEnds ==
    ASSUME ApplyTypes, LoneInv, NEW c \in Clients, ~Free(c), alone' = alone,
           client' = [client EXCEPT ![c] = Empty],
           alone # c => verdict' = None,
           alone = c /\ SoFar(c) => (verdict # None => LoneApplyAgrees /\ LoneDeleteLeavesNothing)'
    PROVE  LoneInv'
<1>1. client'[c] = Empty /\ \A d \in Clients \ {c} : client'[d] = client[d]
  BY DEF ApplyTypes
<1>2. SoFar(c)' /\ Free(c)'
  BY <1>1 DEF SoFar, Empty, Deleting, Free
<1>3. CASE alone = None
  BY <1>3, ApplyAssumption DEF LoneInv
<1>4. CASE alone # None
  <2>1. alone = c
    BY <1>4 DEF LoneInv, ApplyTypes, Stores
  <2>2. (\A d \in Clients \ {c} : Free(d))' /\ SoFar(c)
    BY <1>1, <1>4, <2>1 DEF LoneInv, Free
  <2>3. Quiet'
    BY <1>2, <2>2 DEF Quiet
  <2>4. alone' = c
    BY <2>1
  <2> QED
    BY <1>2, <2>1, <2>2, <2>3, <2>4 DEF LoneInv
<1> QED
  BY <1>3, <1>4

LEMMA LoneVersioning ==
    ASSUME ApplyTypes, LoneInv, NEW c \in Clients,
           \/ CreateRow(c) \/ FindOntology(c) \/ CreateResource(c) \/ CreateOntology(c)
           \/ ReadOntology(c) \/ ReadLast(c) \/ CreateVersion(c) \/ PointCurrent(c)
           \/ FindMain(c) \/ MoveMain(c)
    PROVE  LoneInv'
<1> DEFINE s == client[c]
<1>a. client \in [Clients -> Handlings] /\ s \in Handlings /\ Sound(s) /\ Stores
  BY DEF ApplyTypes
<1> USE DEF Versioning, Making, Pulling, Deleting
<1>1. CASE CreateRow(c)
  <2>1. /\ ~Free(c) /\ \A d \in Clients \ {c} : client'[d] = client[d]
        /\ client'[c].at = "find"
        /\ client'[c].op = s.op
        /\ client'[c].m = s.m
    BY <1>a, <1>1 DEF CreateRow, Handlings, Free, To
  <2>2. ASSUME SoFar(c) PROVE SoFar(c)'
    BY <1>a, <1>1, <2>1, <2>2 DEF CreateRow, Sound, SoFar, AppliedSoFar, DeletedSoFar, Agrees
  <2> QED
    BY <1>1, <2>1, <2>2, LoneGoesOn DEF CreateRow
<1>2. CASE FindOntology(c)
  <2>1. /\ ~Free(c) /\ \A d \in Clients \ {c} : client'[d] = client[d]
        /\ client'[c].at = IF ont = None THEN "resource" ELSE "read"
        /\ client'[c].op = s.op
        /\ client'[c].m = s.m
    BY <1>a, <1>2 DEF FindOntology, Handlings, Free, To
  <2>2. ASSUME SoFar(c) PROVE SoFar(c)'
    BY <1>a, <1>2, <2>1, <2>2 DEF FindOntology, Sound, SoFar, AppliedSoFar, DeletedSoFar, Agrees
  <2> QED
    BY <1>2, <2>1, <2>2, LoneGoesOn DEF FindOntology
<1>3. CASE CreateResource(c)
  <2>1. /\ ~Free(c) /\ \A d \in Clients \ {c} : client'[d] = client[d]
        /\ client'[c].at = "ontology"
        /\ client'[c].op = s.op
        /\ client'[c].m = s.m
    BY <1>a, <1>3 DEF CreateResource, Handlings, Free, To
  <2>2. ASSUME SoFar(c) PROVE SoFar(c)'
    BY <1>a, <1>3, <2>1, <2>2 DEF CreateResource, Sound, SoFar, AppliedSoFar, DeletedSoFar,
                                  Agrees
  <2> QED
    BY <1>3, <2>1, <2>2, LoneGoesOn DEF CreateResource
<1>4. CASE CreateOntology(c)
  <2>1. /\ ~Free(c) /\ \A d \in Clients \ {c} : client'[d] = client[d]
        /\ client'[c].at = "read"
        /\ client'[c].op = s.op
        /\ client'[c].m = s.m
    BY <1>a, <1>4 DEF CreateOntology, Handlings, Free, To
  <2>2. ASSUME SoFar(c) PROVE SoFar(c)'
    BY <1>a, <1>4, <2>1, <2>2 DEF CreateOntology, Sound, SoFar, AppliedSoFar, DeletedSoFar,
                                  Agrees
  <2> QED
    BY <1>4, <2>1, <2>2, LoneGoesOn DEF CreateOntology
<1>5. CASE ReadOntology(c)
  <2>1. /\ ~Free(c) /\ \A d \in Clients \ {c} : client'[d] = client[d]
        /\ client'[c].at = IF current # 0 /\ versions[current] = s.m THEN "list" ELSE "last"
        /\ client'[c].op = s.op
        /\ client'[c].m = s.m
    BY <1>a, <1>5 DEF ReadOntology, Handlings, Free, To
  <2>2. ASSUME SoFar(c) PROVE SoFar(c)'
    BY <1>a, <1>5, <2>1, <2>2 DEF ReadOntology, Sound, SoFar, AppliedSoFar, DeletedSoFar,
                                  Agrees, disk
  <2> QED
    BY <1>5, <2>1, <2>2, LoneGoesOn DEF ReadOntology
<1>6. CASE ReadLast(c)
  <2>1. /\ ~Free(c) /\ \A d \in Clients \ {c} : client'[d] = client[d]
        /\ client'[c].at = "version"
        /\ client'[c].op = s.op
        /\ client'[c].m = s.m
    BY <1>a, <1>6 DEF ReadLast, Handlings, Free, To
  <2>2. ASSUME SoFar(c) PROVE SoFar(c)'
    BY <1>a, <1>6, <2>1, <2>2 DEF ReadLast, Sound, SoFar, AppliedSoFar, DeletedSoFar, Agrees
  <2> QED
    BY <1>6, <2>1, <2>2, LoneGoesOn DEF ReadLast
<1>7. CASE CreateVersion(c)
  <2>1. /\ ~Free(c) /\ \A d \in Clients \ {c} : client'[d] = client[d]
        /\ client'[c].at = "point"
        /\ client'[c].saw = s.saw + 1
        /\ client'[c].op = s.op
        /\ client'[c].m = s.m
    BY <1>a, <1>7 DEF CreateVersion, Handlings, Free, To
  <2>2. ASSUME SoFar(c) PROVE SoFar(c)'
    BY <1>a, <1>7, <2>1, <2>2 DEF CreateVersion, Sound, SoFar, AppliedSoFar, DeletedSoFar,
                                  Agrees, Stores, Handlings
  <2> QED
    BY <1>7, <2>1, <2>2, LoneGoesOn DEF CreateVersion
<1>8. CASE PointCurrent(c)
  <2>1. /\ ~Free(c) /\ \A d \in Clients \ {c} : client'[d] = client[d]
        /\ client'[c].at = "head"
        /\ client'[c].saw = s.saw
        /\ client'[c].op = s.op
        /\ client'[c].m = s.m
    BY <1>a, <1>8 DEF PointCurrent, Handlings, Free, To
  <2>2. ASSUME SoFar(c) PROVE SoFar(c)'
    BY <1>a, <1>8, <2>1, <2>2 DEF PointCurrent, Sound, SoFar, AppliedSoFar, DeletedSoFar, Agrees
  <2> QED
    BY <1>8, <2>1, <2>2, LoneGoesOn DEF PointCurrent
<1>9. CASE FindMain(c)
  <2>1. /\ ~Free(c) /\ \A d \in Clients \ {c} : client'[d] = client[d]
        /\ client'[c].at = IF ont = s.oid /\ main # 0 THEN "move" ELSE "branch"
        /\ client'[c].op = s.op
        /\ client'[c].m = s.m
    BY <1>a, <1>9 DEF FindMain, Handlings, Free, To
  <2>2. ASSUME SoFar(c) PROVE SoFar(c)'
    BY <1>a, <1>9, <2>1, <2>2 DEF FindMain, Sound, SoFar, AppliedSoFar, DeletedSoFar, Agrees,
                                  disk
  <2> QED
    BY <1>9, <2>1, <2>2, LoneGoesOn DEF FindMain
<1>10. CASE MoveMain(c)
  <2>1. /\ ~Free(c) /\ \A d \in Clients \ {c} : client'[d] = client[d]
        /\ client'[c].at = "list"
        /\ client'[c].op = s.op
        /\ client'[c].m = s.m
    BY <1>a, <1>10 DEF MoveMain, Handlings, Free, To
  <2>2. ASSUME SoFar(c) PROVE SoFar(c)'
    BY <1>a, <1>10, <2>1, <2>2 DEF MoveMain, Sound, SoFar, AppliedSoFar, DeletedSoFar, Agrees
  <2> QED
    BY <1>10, <2>1, <2>2, LoneGoesOn DEF MoveMain
<1> QED
  BY <1>1, <1>2, <1>3, <1>4, <1>5, <1>6, <1>7, <1>8, <1>9, <1>10

LEMMA LoneMaking ==
    ASSUME ApplyTypes, LoneInv, NEW c \in Clients,
           \/ ListTables(c) \/ CarryRows(c) \/ AllDropped(c) \/ RestoreRows(c)
           \/ \E e \in Entities : DropTable(c, e) \/ MakeTable(c, e)
           \/ WipeLog(c) \/ AllPulled(c)
    PROVE  LoneInv'
<1> DEFINE s == client[c]
<1>a. client \in [Clients -> Handlings] /\ s \in Handlings /\ Sound(s) /\ Stores
  BY DEF ApplyTypes
<1> USE DEF Versioning, Making, Pulling, Deleting
<1>b. /\ tables \in [Entities -> Table \cup {None}]
      /\ s.at \in Making => /\ s.op \in {"create", "apply"}
                          /\ s.m \in Models /\ Ents[s.m] \subseteq Entities
  BY <1>a, ApplyAssumption DEF Stores, Sound
<1>1. CASE ListTables(c)
  <2>1. /\ ~Free(c) /\ \A d \in Clients \ {c} : client'[d] = client[d]
        /\ client'[c].at = "carry"
        /\ client'[c].todo = Existing
        /\ client'[c].op = s.op
        /\ client'[c].m = s.m
    BY <1>a, <1>1 DEF ListTables, Handlings, Free, To
  <2>2. ASSUME SoFar(c) PROVE SoFar(c)'
    BY <1>a, <1>1, <2>1, <2>2 DEF ListTables, Sound, SoFar, AppliedSoFar, DeletedSoFar, Agrees,
                                  disk, Existing, Shaped
  <2> QED
    BY <1>1, <2>1, <2>2, LoneGoesOn DEF ListTables
<1>2. CASE CarryRows(c)
  <2>1. /\ ~Free(c) /\ \A d \in Clients \ {c} : client'[d] = client[d]
        /\ client'[c].at = "drop"
        /\ client'[c].todo = s.todo \ (Actuated \ Ents[s.m])
        /\ client'[c].op = s.op
        /\ client'[c].m = s.m
    BY <1>a, <1>2 DEF CarryRows, Handlings, Free, To
  <2>2. ASSUME SoFar(c) PROVE SoFar(c)'
    BY <1>a, <1>2, <2>1, <2>2 DEF CarryRows, Sound, SoFar, AppliedSoFar, DeletedSoFar, Agrees,
                                  disk, Existing, Shaped
  <2> QED
    BY <1>2, <2>1, <2>2, LoneGoesOn DEF CarryRows
<1>3. CASE AllDropped(c)
  <2>1. /\ ~Free(c) /\ \A d \in Clients \ {c} : client'[d] = client[d]
        /\ client'[c].at = "make"
        /\ client'[c].todo = Ents[s.m]
        /\ client'[c].op = s.op
        /\ client'[c].m = s.m
    BY <1>a, <1>3 DEF AllDropped, Handlings, Free, To
  <2>2. ASSUME SoFar(c) PROVE SoFar(c)'
    BY <1>a, <1>3, <2>1, <2>2 DEF AllDropped, Sound, SoFar, AppliedSoFar, DeletedSoFar, Agrees,
                                  disk, Existing, Shaped
  <2> QED
    BY <1>3, <2>1, <2>2, LoneGoesOn DEF AllDropped
<1>4. CASE RestoreRows(c)
  <2>1. /\ ~Free(c) /\ \A d \in Clients \ {c} : client'[d] = client[d]
        /\ client'[c].at = "wipe"
        /\ client'[c].todo = s.todo
        /\ client'[c].op = s.op
        /\ client'[c].m = s.m
    BY <1>a, <1>4 DEF RestoreRows, Handlings, Free, To
  <2>2. \A e \in Entities : /\ tables'[e] # None <=> tables[e] # None
                            /\ tables[e] # None => tables'[e].shape = tables[e].shape
    <3> SUFFICES ASSUME NEW e \in Entities, tables[e] # None
                 PROVE  tables'[e] # None /\ tables'[e].shape = tables[e].shape
      BY <1>4 DEF RestoreRows
    <3>1. tables[e] \in Table
      BY <1>b
    <3>2. tables'[e] = [tables[e] EXCEPT !.rows = @ \cup {i \in Ids : <<e, i>> \in s.kept}]
      BY <1>4 DEF RestoreRows
    <3>3. tables'[e] \in Table
      BY <3>1, <3>2 DEF Table
    <3> QED
      BY <3>1, <3>2, <3>3, NoTableAssumption DEF Table
  <2>3. ASSUME SoFar(c) PROVE SoFar(c)'
    <3>1. Existing' = Existing
      BY <2>2 DEF Existing
    <3>2. \A e \in Ents[s.m] : Shaped(e, s.m) => Shaped(e, s.m)'
      BY <1>4, <1>b, <2>1, <2>2 DEF Shaped, RestoreRows
    <3> QED
      BY <1>4, <1>b, <2>1, <2>3, <3>1, <3>2 DEF RestoreRows, SoFar, AppliedSoFar, Agrees
  <2> QED
    BY <1>4, <2>1, <2>3, LoneGoesOn DEF RestoreRows
<1>5. ASSUME NEW e \in Entities, DropTable(c, e)
      PROVE  LoneInv'
  <2>1. /\ ~Free(c) /\ \A d \in Clients \ {c} : client'[d] = client[d]
        /\ client'[c].at = s.at
        /\ client'[c].todo = s.todo \ {e}
        /\ client'[c].op = s.op
        /\ client'[c].m = s.m
    BY <1>a, <1>5 DEF DropTable, Handlings, Free, To
  <2>2. Existing' = Existing \ {e}
    BY <1>5, <1>b DEF DropTable, Existing
  <2>3. ASSUME SoFar(c) PROVE SoFar(c)'
    BY <1>5, <1>b, <2>1, <2>2, <2>3 DEF DropTable, SoFar, AppliedSoFar, DeletedSoFar, Agrees
  <2> QED
    BY <1>5, <2>1, <2>3, LoneGoesOn DEF DropTable
<1>6. ASSUME NEW e \in Entities, MakeTable(c, e)
      PROVE  LoneInv'
  <2>1. /\ ~Free(c) /\ \A d \in Clients \ {c} : client'[d] = client[d]
        /\ client'[c].at = "make" /\ s.at = "make"
        /\ client'[c].todo = s.todo \ {e}
        /\ client'[c].op = s.op
        /\ client'[c].m = s.m
    BY <1>a, <1>6 DEF MakeTable, Handlings, Free, To
  <2>2. Shaped(e, s.m)' /\ \A f \in Entities \ {e} : tables'[f] = tables[f]
    <3>1. tables'[e] = [shape |-> s.m, rows |-> {}]
      BY <1>6, <1>b DEF MakeTable
    <3>2. tables'[e] \in Table
      BY <1>6, <1>b, <3>1 DEF Table, MakeTable
    <3> QED
      BY <1>6, <1>b, <2>1, <3>1, <3>2, NoTableAssumption DEF MakeTable, Shaped
  <2>3. Existing' = Existing \cup {e}
    BY <2>2 DEF Existing, Shaped
  <2>4. \A f \in Entities \ {e} : Shaped(f, s.m)' <=> Shaped(f, s.m)
    BY <2>1, <2>2 DEF Shaped
  <2>5. ASSUME SoFar(c) PROVE SoFar(c)'
    <3>1. s.at = "make" /\ e \in s.todo /\ s.op \in {"create", "apply"}
      BY <1>6, <1>b DEF MakeTable
    <3>2. /\ Existing' \subseteq (Ents[s.m] \ (s.todo \ {e})) \cup (Actuated \ Ents[s.m])
          /\ \A f \in Ents[s.m] \ (s.todo \ {e}) : Shaped(f, s.m)'
      BY <1>b, <2>2, <2>3, <2>4, <2>5, <3>1 DEF SoFar, AppliedSoFar
    <3> QED
      BY <1>6, <2>1, <2>5, <3>1, <3>2 DEF MakeTable, SoFar, AppliedSoFar, Agrees, Shaped
  <2> QED
    BY <1>6, <2>1, <2>5, LoneGoesOn DEF MakeTable
<1>7. CASE WipeLog(c)
  <2>1. /\ ~Free(c) /\ \A d \in Clients \ {c} : client'[d] = client[d]
        /\ client'[c].at = "ingest"
        /\ client'[c].op = s.op
        /\ client'[c].m = s.m
    BY <1>a, <1>7 DEF WipeLog, Handlings, Free, To
  <2>2. ASSUME SoFar(c) PROVE SoFar(c)'
    BY <1>a, <1>7, <2>1, <2>2 DEF WipeLog, Sound, SoFar, AppliedSoFar, DeletedSoFar, Agrees,
                                  Existing, Shaped
  <2> QED
    BY <1>7, <2>1, <2>2, LoneGoesOn DEF WipeLog
<1>8. CASE AllPulled(c)
  <2>1. /\ ~Free(c) /\ \A d \in Clients \ {c} : client'[d] = client[d]
        /\ client'[c].at = "derive"
        /\ client'[c].op = s.op
        /\ client'[c].m = s.m
    BY <1>a, <1>8 DEF AllPulled, Handlings, Free, To
  <2>2. ASSUME SoFar(c) PROVE SoFar(c)'
    BY <1>a, <1>8, <2>1, <2>2 DEF AllPulled, Sound, SoFar, AppliedSoFar, DeletedSoFar, Agrees,
                                  disk, Existing, Shaped
  <2> QED
    BY <1>8, <2>1, <2>2, LoneGoesOn DEF AllPulled
<1> QED
  BY <1>1, <1>2, <1>3, <1>4, <1>5, <1>6, <1>7, <1>8

LEMMA LonePulling ==
    ASSUME ApplyTypes, LoneInv, NEW c \in Clients,
           \/ StartPull(c, client[c].on, "pull")
           \/ \E e \in client[c].todo : StartPull(c, e, "ingest")
           \/ EnsureTable(c) \/ LandRows(c) \/ PullFails(c) \/ PullRefused(c)
           \/ DeriveReads(c) \/ \E chunk \in SUBSET client[c].kept : DeriveEmits(c, chunk)
           \/ DeriveEnds(c) \/ DeriveThrows(c)
    PROVE  LoneInv'
<1> DEFINE s == client[c]
<1>a. client \in [Clients -> Handlings] /\ s \in Handlings /\ Sound(s) /\ Stores
  BY DEF ApplyTypes
<1> USE DEF Versioning, Making, Pulling, Deleting
<1>b. /\ tables \in [Entities -> Table \cup {None}]
      /\ s.at \in Making \cup Pulling => s.m \in Models /\ Ents[s.m] \subseteq Entities
  BY <1>a, ApplyAssumption DEF Stores, Sound
<1>1. ASSUME NEW e, NEW a \in {"pull", "ingest"}, StartPull(c, e, a)
      PROVE  LoneInv'
  <2>1. /\ ~Free(c) /\ \A d \in Clients \ {c} : client'[d] = client[d]
        /\ client'[c].at = "ensure" /\ client'[c].on = e /\ client'[c].op = s.op
        /\ a = "ingest" => client'[c].m = s.m
        /\ s.at = a
    BY <1>a, <1>1 DEF StartPull, Handlings, Free
  <2>2. a = "pull" => s.op = "pull"
    BY <1>a, <2>1 DEF Sound
  <2>3. ASSUME SoFar(c) PROVE SoFar(c)'
    <3>1. Existing' = Existing /\ UNCHANGED <<tables, current, versions, live, events>>
      BY <1>1 DEF StartPull, disk, Existing
    <3>2. CASE a = "pull"
      BY <2>1, <2>2, <3>2 DEF SoFar
    <3>3. CASE a = "ingest"
      BY <1>1, <2>1, <2>3, <3>1, <3>3 DEF StartPull, CanPull, SoFar, AppliedSoFar, Agrees, Shaped
    <3> QED
      BY <3>2, <3>3
  <2> QED
    BY <1>1, <2>1, <2>3, LoneGoesOn DEF StartPull
<1>2. CASE EnsureTable(c)
  <2>1. /\ ~Free(c) /\ \A d \in Clients \ {c} : client'[d] = client[d]
        /\ client'[c].at = "land"
        /\ client'[c].on = s.on
        /\ client'[c].op = s.op
        /\ client'[c].m = s.m
    BY <1>a, <1>2 DEF EnsureTable, Handlings, Free, To
  <2>2. ASSUME SoFar(c), s.op \in {"create", "apply"} PROVE tables' = tables
    BY <1>2, <2>2 DEF EnsureTable, SoFar, AppliedSoFar, Shaped
  <2>3. ASSUME SoFar(c) PROVE SoFar(c)'
    BY <1>2, <2>1, <2>2, <2>3 DEF EnsureTable, SoFar, AppliedSoFar, Agrees, Shaped, Existing
  <2> QED
    BY <1>2, <2>1, <2>3, LoneGoesOn DEF EnsureTable
<1>3. CASE LandRows(c)
  <2>1. /\ ~Free(c) /\ \A d \in Clients \ {c} : client'[d] = client[d]
        /\ client'[c].at = IF s.op = "pull" THEN "derive" ELSE "ingest"
        /\ client'[c].op = s.op
        /\ client'[c].m = s.m
    BY <1>a, <1>3 DEF LandRows, Handlings, Free, To, AfterPull
  <2>2. \A e \in Entities : /\ tables'[e] # None <=> tables[e] # None
                            /\ tables[e] # None => tables'[e].shape = tables[e].shape
    <3>1. s.on \in Entities /\ tables[s.on] \in Table /\ tables[s.on] # None
      BY <1>3, <1>b DEF LandRows, Existing
    <3>2. PICK i \in Ids : tables' = [tables EXCEPT ![s.on].rows = @ \cup {i}]
      BY <1>3 DEF LandRows
    <3>3. tables'[s.on] = [tables[s.on] EXCEPT !.rows = @ \cup {i}]
      BY <1>b, <3>1, <3>2
    <3>4. tables'[s.on] \in Table /\ tables'[s.on].shape = tables[s.on].shape
      BY <3>1, <3>3 DEF Table
    <3> QED
      BY <1>b, <3>1, <3>2, <3>4, NoTableAssumption
  <2>3. ASSUME SoFar(c) PROVE SoFar(c)'
    <3>1. Existing' = Existing
      BY <2>2 DEF Existing
    <3>2. s.at = "land" /\ Ents[s.m] \subseteq Entities
      BY <1>3, <1>b DEF LandRows
    <3>3. \A e \in Ents[s.m] : Shaped(e, s.m) => Shaped(e, s.m)'
      BY <2>1, <2>2, <3>2 DEF Shaped
    <3> QED
      BY <1>3, <2>1, <2>3, <3>1, <3>2, <3>3 DEF LandRows, SoFar, AppliedSoFar, Agrees
  <2> QED
    BY <1>3, <2>1, <2>3, LoneGoesOn DEF LandRows
<1>4. CASE PullFails(c)
  <2>0. ~Free(c) /\ s.at \in {"ensure", "land"} /\ \A d \in Clients \ {c} : client'[d] = client[d]
    BY <1>a, <1>4 DEF PullFails, Free
  <2>1. CASE s.op = "pull"
    <3>1. SoFar(c)'
      BY <1>a, <1>4, <2>1 DEF PullFails, SoFar, Empty
    <3> QED
      BY <1>4, <2>0, <3>1, LoneGoesOn DEF PullFails
  <2>2. CASE s.op # "pull"
    <3>1. client'[c].at = "ingest" /\ client'[c].op = s.op /\ client'[c].m = s.m
      BY <1>a, <1>4, <2>2 DEF PullFails, Handlings
    <3>2. ASSUME SoFar(c) PROVE SoFar(c)'
      BY <1>4, <2>0, <3>1, <3>2 DEF PullFails, disk, SoFar, AppliedSoFar, Agrees, Shaped,
                                    Existing
    <3> QED
      BY <1>4, <2>0, <3>2, LoneGoesOn DEF PullFails
  <2> QED
    BY <2>1, <2>2
<1>5. CASE PullRefused(c)
  <2>0. ~Free(c) /\ s.at \in {"pull", "ingest"} /\ \A d \in Clients \ {c} : client'[d] = client[d]
    BY <1>a, <1>5 DEF PullRefused, Free
  <2>1. \/ client'[c] = Empty
        \/ client'[c].at = "ingest" /\ s.at = "ingest" /\ client'[c].op = s.op /\ client'[c].m = s.m
    BY <1>a, <1>5 DEF PullRefused, Handlings
  <2>2. ASSUME SoFar(c) PROVE SoFar(c)'
    <3>1. CASE client'[c] = Empty
      BY <3>1 DEF SoFar, Empty
    <3>2. CASE client'[c] # Empty
      BY <1>5, <2>1, <2>2, <3>2 DEF PullRefused, disk, SoFar, AppliedSoFar, Agrees, Shaped,
                                    Existing
    <3> QED
      BY <3>1, <3>2
  <2> QED
    BY <1>5, <2>0, <2>2, LoneGoesOn DEF PullRefused
<1>6. CASE DeriveReads(c)
  <2>1. /\ ~Free(c) /\ \A d \in Clients \ {c} : client'[d] = client[d]
        /\ client'[c].at = "emit"
        /\ client'[c].kept = EvidenceOf(live) \ events
        /\ client'[c].op = s.op
        /\ client'[c].m = s.m
    BY <1>a, <1>6 DEF DeriveReads, Handlings, Free, To
  <2>2. Existing' = Existing /\ \A m : EvidenceOf(m)' = EvidenceOf(m)
    BY <1>6 DEF DeriveReads, disk, Evidence, EvidenceOf, Existing, Ids
  <2>3. ASSUME SoFar(c) PROVE SoFar(c)'
    BY <1>6, <2>1, <2>2, <2>3 DEF DeriveReads, disk, SoFar, AppliedSoFar, Agrees, Shaped
  <2> QED
    BY <1>6, <2>1, <2>3, LoneGoesOn DEF DeriveReads
<1>7. ASSUME NEW agreed \in BOOLEAN, Ends(c, agreed), s.at \in {"derive", "emit"},
             UNCHANGED <<current, versions, live, tables, alone>>,
             agreed => s.at = "emit" /\ s.kept = {}, events' = events
      PROVE  LoneInv'
  <2>1. Existing' = Existing /\ \A m : EvidenceOf(m)' = EvidenceOf(m)
    BY <1>7 DEF Evidence, EvidenceOf, Existing, Ids
  <2>2. s.op \in {"create", "apply", "pull"}
    BY <1>a, <1>7 DEF Sound
  <2>3. ASSUME alone = c, SoFar(c)
        PROVE  (verdict # None => LoneApplyAgrees /\ LoneDeleteLeavesNothing)'
    <3>1. verdict' = [op |-> s.op, m |-> s.m, derived |-> agreed]
      BY <1>7, <2>3 DEF Ends
    <3>2. verdict'.op = s.op /\ verdict'.m = s.m /\ verdict'.derived = agreed
      BY <3>1
    <3>3. LoneDeleteLeavesNothing'
      BY <2>2, <3>2 DEF LoneDeleteLeavesNothing
    <3>4. CASE s.op = "pull"
      BY <3>2, <3>3, <3>4 DEF LoneApplyAgrees
    <3>5. CASE s.op # "pull"
      <4>1. /\ Agrees(s.m) /\ live = s.m
            /\ \A e \in Ents[s.m] : Shaped(e, s.m)
            /\ Existing \subseteq Ents[s.m] \cup Actuated
            /\ s.at = "derive" => events = {}
            /\ s.at = "emit" => events \cup s.kept = EvidenceOf(s.m)
        BY <1>7, <2>2, <2>3, <3>5 DEF SoFar, AppliedSoFar
      <4>2. events' \subseteq EvidenceOf(s.m) /\ (agreed => events' = EvidenceOf(s.m))
        BY <1>7, <4>1
      <4>3. Ents[s.m] \subseteq Entities
        BY <1>7, <1>b
      <4> QED
        BY <1>7, <2>1, <3>2, <3>3, <4>1, <4>2, <4>3 DEF LoneApplyAgrees, Agrees, Shaped,
                                                        Existing
    <3> QED
      BY <3>4, <3>5
  <2>4. ~Free(c) /\ (alone # c => verdict' = None) /\ client' = [client EXCEPT ![c] = Empty]
    BY <1>7 DEF Free, Ends
  <2> QED
    BY <1>7, <2>3, <2>4, LoneEnds
<1>8. ASSUME NEW chunk \in SUBSET s.kept, DeriveEmits(c, chunk)
      PROVE  LoneInv'
  <2>1. /\ ~Free(c) /\ \A d \in Clients \ {c} : client'[d] = client[d]
        /\ s.at = "emit" /\ client'[c].at = "emit"
        /\ client'[c].kept = s.kept \ chunk
        /\ client'[c].op = s.op
        /\ client'[c].m = s.m
    BY <1>a, <1>8 DEF DeriveEmits, Handlings, Free
  <2>2. /\ Existing' = Existing /\ \A m : EvidenceOf(m)' = EvidenceOf(m)
        /\ UNCHANGED <<tables, current, versions, live>>
        /\ events' \cup client'[c].kept = events \cup s.kept
    BY <1>8, <2>1 DEF DeriveEmits, Evidence, EvidenceOf, Existing, Ids
  <2>3. ASSUME SoFar(c) PROVE SoFar(c)'
    BY <2>1, <2>2, <2>3 DEF SoFar, AppliedSoFar, Agrees, Shaped
  <2> QED
    BY <1>8, <2>1, <2>3, LoneGoesOn DEF DeriveEmits
<1>10. CASE DeriveEnds(c)
  BY <1>7, <1>10 DEF DeriveEnds, disk
<1>9. CASE DeriveThrows(c)
  BY <1>7, <1>9 DEF DeriveThrows, disk
<1> QED
  BY <1>1, <1>2, <1>3, <1>4, <1>5, <1>6, <1>8, <1>9, <1>10

LEMMA LoneDeleting ==
    ASSUME ApplyTypes, LoneInv, NEW c \in Clients,
           FindRow(c) \/ ListOntologies(c) \/ DeleteRows(c) \/ ListForDrop(c) \/ Forget(c)
    PROVE  LoneInv'
<1> DEFINE s == client[c]
<1>a. client \in [Clients -> Handlings] /\ s \in Handlings /\ Sound(s) /\ Stores
  BY DEF ApplyTypes
<1> USE DEF Versioning, Making, Pulling, Deleting
<1>1. CASE FindRow(c)
  <2>1. /\ ~Free(c) /\ \A d \in Clients \ {c} : client'[d] = client[d]
        /\ client'[c].at = "listed"
        /\ client'[c].op = s.op
        /\ client'[c].m = s.m
    BY <1>a, <1>1 DEF FindRow, Handlings, Free, To
  <2>2. ASSUME SoFar(c) PROVE SoFar(c)'
    BY <1>a, <1>1, <2>1, <2>2 DEF FindRow, Sound, SoFar, AppliedSoFar, DeletedSoFar, Agrees
  <2> QED
    BY <1>1, <2>1, <2>2, LoneGoesOn DEF FindRow
<1>2. CASE ListOntologies(c)
  <2>1. /\ ~Free(c) /\ \A d \in Clients \ {c} : client'[d] = client[d]
        /\ client'[c].at = "commit"
        /\ client'[c].op = s.op
        /\ client'[c].m = s.m
    BY <1>a, <1>2 DEF ListOntologies, Handlings, Free, To
  <2>2. ASSUME SoFar(c) PROVE SoFar(c)'
    BY <1>a, <1>2, <2>1, <2>2 DEF ListOntologies, Sound, SoFar, AppliedSoFar, DeletedSoFar,
                                  Agrees
  <2> QED
    BY <1>2, <2>1, <2>2, LoneGoesOn DEF ListOntologies
<1>3. CASE DeleteRows(c)
  <2>1. /\ ~Free(c) /\ \A d \in Clients \ {c} : client'[d] = client[d]
        /\ client'[c].at = "tables"
        /\ client'[c].op = s.op
        /\ client'[c].m = s.m
    BY <1>a, <1>3 DEF DeleteRows, Handlings, Free, To
  <2>2. ASSUME SoFar(c) PROVE SoFar(c)'
    BY <1>a, <1>3, <2>1, <2>2 DEF DeleteRows, Sound, SoFar, AppliedSoFar, DeletedSoFar, Agrees
  <2> QED
    BY <1>3, <2>1, <2>2, LoneGoesOn DEF DeleteRows
<1>4. CASE ListForDrop(c)
  <2>1. /\ ~Free(c) /\ \A d \in Clients \ {c} : client'[d] = client[d]
        /\ client'[c].at = "unlink"
        /\ client'[c].todo = Existing
        /\ client'[c].op = s.op
        /\ client'[c].m = s.m
    BY <1>a, <1>4 DEF ListForDrop, Handlings, Free, To
  <2>2. ASSUME SoFar(c) PROVE SoFar(c)'
    BY <1>a, <1>4, <2>1, <2>2 DEF ListForDrop, Sound, SoFar, AppliedSoFar, DeletedSoFar,
                                  Agrees, disk, Existing
  <2> QED
    BY <1>4, <2>1, <2>2, LoneGoesOn DEF ListForDrop
<1>5. CASE Forget(c)
  <2>1. s.op \in {"delete", "rollback"}
    BY <1>a, <1>5 DEF Sound, Forget
  <2>2. ASSUME alone = c, SoFar(c)
        PROVE  (verdict # None => LoneApplyAgrees /\ LoneDeleteLeavesNothing)'
    <3>1. verdict' = [op |-> s.op, m |-> s.m, derived |-> TRUE]
      BY <1>5, <2>2 DEF Forget, Ends
    <3>2. verdict'.op = s.op
      BY <3>1
    <3>3. LoneApplyAgrees'
      BY <2>1, <3>2 DEF LoneApplyAgrees
    <3>4. /\ wf = "deleted" /\ res = None /\ ont = None /\ versions = <<>>
          /\ events = {} /\ Existing = {}
      BY <1>5, <2>2 DEF Forget, SoFar, DeletedSoFar
    <3>5. LoneDeleteLeavesNothing'
      BY <1>5, <3>4 DEF Forget, disk, LoneDeleteLeavesNothing, Existing
    <3> QED
      BY <3>3, <3>5
  <2>3. /\ ~Free(c) /\ (alone # c => verdict' = None) /\ client' = [client EXCEPT ![c] = Empty]
        /\ alone' = alone
    BY <1>5 DEF Forget, Free, Ends
  <2> QED
    BY <2>2, <2>3, LoneEnds
<1> QED
  BY <1>1, <1>2, <1>3, <1>4, <1>5

LEMMA LoneArriving ==
    ASSUME ApplyTypes, LoneInv, NEW c \in Clients, Arrivals(c) \/ Throws(c)
    PROVE  LoneInv'
<1> DEFINE s == client[c]
<1>a. client \in [Clients -> Handlings] /\ s \in Handlings /\ Sound(s) /\ Stores
  BY DEF ApplyTypes
<1> USE DEF Versioning, Making, Pulling, Deleting
<1>b. Empty \in Handlings /\ Empty.op = "none" /\ Empty.at = "idle"
  BY EmptySound DEF Sound, Empty
<1>1. ASSUME NEW op, NEW m, NEW e, Begin(c, op, m, e)
      PROVE  LoneInv'
  <2>1. /\ \A d \in Clients \ {c} : client'[d] = client[d]
        /\ client'[c].at \in {"row", "hook"} /\ verdict' = None
    BY <1>a, <1>b, <1>1 DEF Begin, Handlings
  <2>2. SoFar(c)'
    BY <2>1 DEF SoFar, AppliedSoFar
  <2>3. alone' = c => \A d \in Clients \ {c} : Free(d)'
    BY <1>1, <2>1, ApplyAssumption DEF Begin, Quiet, Free
  <2>4. alone' # None => alone' = c
    BY <1>1 DEF Begin
  <2> QED
    BY <2>1, <2>2, <2>3, <2>4 DEF LoneInv
<1>2. CASE HookReads(c)
  <2>1. /\ ~Free(c) /\ \A d \in Clients \ {c} : client'[d] = client[d]
        /\ client'[c].at = "hooked"
        /\ client'[c].op = s.op
        /\ client'[c].m = s.m
    BY <1>a, <1>2 DEF HookReads, Handlings, Free, To
  <2>2. ASSUME SoFar(c) PROVE SoFar(c)'
    BY <1>a, <1>2, <2>1, <2>2 DEF HookReads, Sound, SoFar, AppliedSoFar, DeletedSoFar, Agrees
  <2> QED
    BY <1>2, <2>1, <2>2, LoneGoesOn DEF HookReads
<1>3. CASE HookBinds(c)
  <2>1. s.op \in {"apply", "delete", "pull"}
    BY <1>a, <1>3 DEF HookBinds, Sound
  <2>2. /\ ~Free(c) /\ \A d \in Clients \ {c} : client'[d] = client[d]
        /\ client'[c].at \in {"find", "sought", "pull"}
    BY <1>a, <1>3, <2>1 DEF HookBinds, Handlings, Free
  <2>3. SoFar(c)'
    BY <2>2 DEF SoFar, AppliedSoFar, DeletedSoFar
  <2> QED
    BY <1>3, <2>2, <2>3, LoneGoesOn DEF HookBinds
<1>4. CASE Throws(c)
  <2>1. /\ ~Free(c) /\ \A d \in Clients \ {c} : client'[d] = client[d]
        /\ client'[c].at \in {"idle", "sought"} /\ client'[c].op \in {"none", "rollback"}
    BY <1>4, Thrown DEF Throws, Free
  <2>2. SoFar(c)'
    BY <2>1 DEF SoFar, DeletedSoFar
  <2> QED
    BY <1>4, <2>1, <2>2, LoneGoesOn DEF Throws
<1> QED
  BY <1>1, <1>2, <1>3, <1>4 DEF Arrivals

LEMMA LoneStep == ApplyTypes /\ LoneInv /\ [ApplyNext]_applyVars => LoneInv'
<1> SUFFICES ASSUME ApplyTypes, LoneInv, [ApplyNext]_applyVars
             PROVE  LoneInv'
  OBVIOUS
<1>1. CASE Restart
  BY <1>1 DEF Restart, LoneInv
<1>2. ASSUME NEW c \in Clients, Applies(c)
      PROVE  LoneInv'
  BY <1>2, LoneVersioning, LoneMaking DEF Applies
<1>3. ASSUME NEW c \in Clients, Arrivals(c) \/ Pulls(c) \/ Deletes(c) \/ Throws(c)
      PROVE  LoneInv'
  BY <1>3, LoneArriving, LonePulling, LoneDeleting DEF Pulls, Deletes
<1>4. CASE UNCHANGED applyVars
  BY <1>4 DEF applyVars, disk, ghosts, LoneInv, Quiet, Free, SoFar, AppliedSoFar, DeletedSoFar,
              Agrees,
              Shaped, Existing, Evidence, EvidenceOf, Ids, LoneApplyAgrees,
              LoneDeleteLeavesNothing
<1> QED
  BY <1>1, <1>2, <1>3, <1>4 DEF ApplyNext

LEMMA LoneInvHolds == ApplySpec => []LoneInv
BY LoneStarts, LoneStep, ApplyTypesHold, PTL DEF ApplySpec

\* For any models, connectors and requests, an apply or a creation that nothing overlaps
\* leaves version, live model, tables and log in agreement, as LoneApplyAgrees says,
\* whatever races, failures and restarts there were before it.
THEOREM LoneAppliesAgree == ApplySpec => []LoneApplyAgrees
<1>1. LoneInv => LoneApplyAgrees
  BY DEF LoneInv, LoneApplyAgrees
<1> QED
  BY <1>1, LoneInvHolds, PTL

\* Likewise a deletion that nothing overlaps leaves nothing of the workflow, as
\* LoneDeleteLeavesNothing says, whatever state it found.
THEOREM LoneDeletionsLeaveNothing == ApplySpec => []LoneDeleteLeavesNothing
<1>1. LoneInv => LoneDeleteLeavesNothing
  BY DEF LoneInv, LoneDeleteLeavesNothing
<1> QED
  BY <1>1, LoneInvHolds, PTL
=============================================================================
