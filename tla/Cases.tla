------------------------------- MODULE Cases -------------------------------
(***************************************************************************)
(* Which case an event belongs to (src/twin/correlate.ts), decided on two  *)
(* paths that race on one log: a command emits its event after a read of   *)
(* the log restricted to the candidates (correlateCaseId, called by emit   *)
(* in src/events/bus.ts), and a derive pass decides a whole batch against  *)
(* one earlier read of the log and a map it keeps itself (runDerive in     *)
(* src/twin/derive.ts), then inserts it back-dated (emitMany).             *)
(*                                                                         *)
(* The log is a sequence in the order of occurredAt, which every reader    *)
(* sorts by.  A step is one stretch of code between two awaits, except     *)
(* that a pass reads its tables in one step and inserts its batch in one   *)
(* statement (DeriveLog has those apart).                                  *)
(***************************************************************************)
EXTENDS Naturals, FiniteSets, SequencesExt

CONSTANTS Ids,        \* aggregate instances
          Roots,      \* those of the model's root aggregate
          Refs,       \* Refs[i]: the instances i's foreign keys name, spine first
          CycleOf,    \* CycleOf[i]: the cycle row i's subject and date name, or None
          Siblings,   \* Siblings[q]: the cycle rows of q's subject
          Plan,       \* the (event, instance) pairs in the order a pass plans them
          Creates,    \* the create events
          OpenedBy,   \* OpenedBy[q]: the create event of cycle row q
          Carriers,   \* events whose derived payload holds the references
          Pinned,     \* case ids a payload or a simulator scope names itself
          None,
          Clients,    \* concurrent commands
          MaxOps      \* bound: commands, landed rows, passes, wipes (and rankings)

Pairs == ToSet(Plan)
CaseIds == Ids \cup Pinned

\* Rows of one subject have each other for siblings.
ASSUME CasesAssumption ==
    /\ Roots \subseteq Ids
    /\ None \notin CaseIds
    /\ Refs \in [Ids -> Seq(Ids)]
    /\ CycleOf \in [Ids -> Ids \cup {None}]
    /\ \A q \in Ids : \A s \in Siblings[q] : Siblings[s] = Siblings[q]
    /\ Plan \in Seq(Pairs)
    /\ \A pr \in Pairs : pr[2] \in Ids
    /\ MaxOps \in Nat

VARIABLES log,      \* event log rows by occurredAt: [n, ev, id, case, pinned, saw]
          rows,     \* the (event, instance) pairs the projection rows show
          client,   \* client[c]: the command c is in the middle of
          pass,     \* the emitting derive pass (one at a time: SerialChain)
          stamp,    \* log rows ever inserted; n of a row is its number
          ops       \* operations begun (bounded by MaxOps)

casesVars == <<log, rows, client, pass, stamp, ops>>

Idle == [at |-> "idle"]
Numbers(lg) == {lg[k].n : k \in DOMAIN lg}
HasRow(i, S) == \E pr \in S : pr[2] = i

CasesInit ==
    /\ log = <<>>
    /\ rows = {}
    /\ client = [c \in Clients |-> Idle]
    /\ pass = Idle
    /\ stamp = 0
    /\ ops = 0

Count == ops < MaxOps /\ ops' = ops + 1

-----------------------------------------------------------------------------
(* The decision.                                                           *)

\* The case of each instance a read shows: that of its earliest event, if any.
CaseAmong(lg, candidates) ==
    [i \in Ids |-> LET own == {k \in DOMAIN lg : lg[k].id = i}
                   IN  IF i \notin candidates \/ own = {} THEN None
                       ELSE lg[CHOOSE k \in own : \A j \in own : k <= j].case]

CaseOf(lg) == CaseAmong(lg, Ids)

\* The references a payload holds.
RefsIn(i, carries) == IF carries THEN Refs[i] ELSE <<>>

\* The first reference whose instance is in a case, or None.
FirstKnown(refs, caseOf) ==
    LET known == {k \in DOMAIN refs : caseOf[refs[k]] # None}
    IN  IF known = {} THEN None ELSE refs[CHOOSE k \in known : \A j \in known : k <= j]

\* The case a cycle row leads to: its own, or the row itself.
ViaCycle(i, cycle, caseOf) ==
    IF cycle = None THEN i ELSE IF caseOf[cycle] = None THEN cycle ELSE caseOf[cycle]

\* Mutants of DecideCaseId: the references are followed before the instance's
\* own case is looked up; a reference is taken for the case itself.
DecideCaseId_RefsFirst(i, refs, cycle, caseOf) ==
    LET parent == FirstKnown(refs, caseOf)
    IN  IF i \in Roots THEN i
        ELSE IF parent # None THEN caseOf[parent]
        ELSE IF caseOf[i] # None THEN caseOf[i]
        ELSE ViaCycle(i, cycle, caseOf)

DecideCaseId_OneHop(i, refs, cycle, caseOf) ==
    LET parent == FirstKnown(refs, caseOf)
    IN  IF i \in Roots THEN i
        ELSE IF caseOf[i] # None THEN caseOf[i]
        ELSE IF parent # None THEN parent
        ELSE ViaCycle(i, cycle, caseOf)

\* decideCaseId after the explicit case: a root starts its own; then the
\* instance's own case, a referenced instance's, the cycle row's (or the cycle
\* row itself), and a case of its own.
DecideCaseId(i, refs, cycle, caseOf) ==
    LET parent == FirstKnown(refs, caseOf)
    IN  IF i \in Roots THEN i
        ELSE IF caseOf[i] # None THEN caseOf[i]
        ELSE IF parent # None THEN caseOf[parent]
        ELSE ViaCycle(i, cycle, caseOf)

\* The cycle row a payload with its references leads to, among the stored rows.
CycleRow(i, carries, stored) ==
    IF carries /\ CycleOf[i] # None /\ HasRow(CycleOf[i], stored) THEN CycleOf[i] ELSE None

\* correlateCaseId: one read of the events of the instance, the instances it
\* references and the cycle row it resolved.
CorrelateCaseId(i, carries, cycle, lg) ==
    DecideCaseId(i, RefsIn(i, carries), cycle,
                 CaseAmong(lg, {i, cycle} \cup ToSet(RefsIn(i, carries))))

Entry(n, pr, case, pinned, saw) ==
    [n |-> n, ev |-> pr[1], id |-> pr[2], case |-> case, pinned |-> pinned, saw |-> saw]

-----------------------------------------------------------------------------
(* A command: its row is written, then emit decides the case and inserts.  *)

\* A create writes a new row, any other command changes a stored one.
CommandWrites(c, pr, carries, pin) ==
    /\ client[c] = Idle
    /\ Count
    /\ (pr[1] \in Creates) = ~HasRow(pr[2], rows)
    /\ carries => Refs[pr[2]] # <<>> \/ CycleOf[pr[2]] # None
    /\ rows' = rows \cup {pr}
    /\ client' = [client EXCEPT ![c] =
           IF pin # None THEN [at |-> "insert", pr |-> pr, case |-> pin, pinned |-> TRUE, saw |-> {}]
           ELSE [at |-> "cycle", pr |-> pr, carries |-> carries]]
    /\ UNCHANGED <<log, pass, stamp>>

FindsCycleRow(c) ==
    /\ client[c].at = "cycle"
    /\ client' = [client EXCEPT ![c] =
           [at |-> "log", pr |-> @.pr, carries |-> @.carries,
            cycle |-> CycleRow(@.pr[2], @.carries, rows)]]
    /\ UNCHANGED <<log, rows, pass, stamp, ops>>

ReadsCandidates(c) ==
    /\ client[c].at = "log"
    /\ client' = [client EXCEPT ![c] =
           [at |-> "insert", pr |-> @.pr, pinned |-> FALSE, saw |-> Numbers(log),
            case |-> CorrelateCaseId(@.pr[2], @.carries, @.cycle, log)]]
    /\ UNCHANGED <<log, rows, pass, stamp, ops>>

Inserts(c) ==
    /\ client[c].at = "insert"
    /\ log' = Append(log, Entry(stamp + 1, client[c].pr, client[c].case,
                                client[c].pinned, client[c].saw))
    /\ stamp' = stamp + 1
    /\ client' = [client EXCEPT ![c] = Idle]
    /\ UNCHANGED <<rows, pass, ops>>

CommandThrows(c) ==
    /\ client[c] # Idle
    /\ client' = [client EXCEPT ![c] = Idle]
    /\ UNCHANGED <<log, rows, pass, stamp, ops>>

-----------------------------------------------------------------------------
(* A derive pass.                                                          *)

\* A pulled row shows its create event and any of the others.
RowLands(i, shown) ==
    /\ Count
    /\ shown \subseteq {pr \in Pairs : pr[2] = i}
    /\ \E pr \in shown : pr[1] \in Creates
    /\ ~HasRow(i, rows)
    /\ rows' = rows \cup shown
    /\ UNCHANGED <<log, client, pass, stamp>>

PassReadsRows ==
    /\ pass = Idle
    /\ Count
    /\ pass' = [at |-> "log", snap |-> rows]
    /\ UNCHANGED <<log, rows, client, stamp>>

\* ensureCycleRow for the cycle row q of a planned event: with no row for q but
\* one for its subject, the row and its create event come first, in its own case.
EnsureCycleRow(d, q) ==
    IF q = None \/ HasRow(q, d.stored) \/ ~(\E s \in Siblings[q] : HasRow(s, d.stored))
    THEN d
    ELSE LET create == <<OpenedBy[q], q>>
             withRow == [d EXCEPT !.stored = @ \cup {create}, !.opens = @ \cup {q}]
         IN  IF create \in d.seen THEN withRow
             ELSE [withRow EXCEPT !.seen = @ \cup {create}, !.caseOf[q] = q,
                                 !.batch = Append(@, <<create, q>>)]

\* Mutant of PlanEvent: the pass does not note the case it has just decided.
PlanEvent_Forgets(d, pr) ==
    LET carries == pr[1] \in Carriers
        e == EnsureCycleRow(d, IF carries THEN CycleOf[pr[2]] ELSE None)
        case == DecideCaseId(pr[2], RefsIn(pr[2], carries),
                             CycleRow(pr[2], carries, e.stored), e.caseOf)
    IN  IF pr \in d.seen THEN d
        ELSE [e EXCEPT !.seen = @ \cup {pr}, !.batch = Append(@, <<pr, case>>)]

\* One planned event: opened cycle row, decision, the map and the batch.
PlanEvent(d, pr) ==
    LET carries == pr[1] \in Carriers
        e == EnsureCycleRow([d EXCEPT !.seen = @ \cup {pr}],
                            IF carries THEN CycleOf[pr[2]] ELSE None)
        case == DecideCaseId(pr[2], RefsIn(pr[2], carries),
                             CycleRow(pr[2], carries, e.stored), e.caseOf)
    IN  IF pr \in d.seen THEN d
        ELSE [e EXCEPT !.caseOf[pr[2]] = IF @ = None THEN case ELSE @,
                       !.batch = Append(@, <<pr, case>>)]

\* A pass that read the rows `snap` and the log lg, after each planned event.
Derivation(snap, lg) ==
    LET begun == [seen |-> {<<lg[k].ev, lg[k].id>> : k \in DOMAIN lg}, caseOf |-> CaseOf(lg),
                  stored |-> snap, opens |-> {}, batch |-> <<>>]
        d[k \in 0..Len(Plan)] ==
            IF k = 0 THEN begun
            ELSE IF Plan[k] \in snap THEN PlanEvent(d[k - 1], Plan[k]) ELSE d[k - 1]
    IN  d

\* What it decides.
Derive(snap, lg) == Derivation(snap, lg)[Len(Plan)]

PassReadsLog ==
    /\ pass.at = "log"
    /\ LET d == Derive(pass.snap, log)
       IN  pass' = [at |-> "emit", opens |-> d.opens, batch |-> d.batch, saw |-> Numbers(log)]
    /\ UNCHANGED <<log, rows, client, stamp, ops>>

\* The insert of an opened row; somebody else's row of that id makes it throw.
PassOpens(q) ==
    /\ pass.at = "emit"
    /\ q \in pass.opens
    /\ IF HasRow(q, rows)
       THEN pass' = Idle /\ UNCHANGED rows
       ELSE /\ rows' = rows \cup {<<OpenedBy[q], q>>}
            /\ pass' = [pass EXCEPT !.opens = @ \ {q}]
    /\ UNCHANGED <<log, client, stamp, ops>>

\* The places S in the new log go to the batch, in its order.
Merged(lg, batch, S) ==
    [k \in 1..(Len(lg) + Len(batch)) |->
        IF k \in S THEN batch[Cardinality({j \in S : j <= k})]
        ELSE lg[Cardinality({j \in 1..k : j \notin S})]]

\* emitMany stamps the batch with the milliseconds that end now, one each, so
\* it sorts among or before the events recorded in that time.
PassEmits(S) ==
    LET n == Len(pass.batch)
        new == [k \in 1..n |-> Entry(stamp + k, pass.batch[k][1], pass.batch[k][2], FALSE,
                                     pass.saw \cup (stamp + 1)..(stamp + k - 1))]
    IN  /\ Cardinality(S) = n
        /\ log' = Merged(log, new, S)
        /\ stamp' = stamp + n
        /\ pass' = Idle
        /\ UNCHANGED <<rows, client, ops>>

PassThrows ==
    /\ pass # Idle
    /\ pass' = Idle
    /\ UNCHANGED <<log, rows, client, stamp, ops>>

\* rebuildFromData deletes the workflow's log before it derives again.
Wipes ==
    /\ Count
    /\ log # <<>>
    /\ log' = <<>>
    /\ UNCHANGED <<rows, client, pass, stamp>>

CasesNext ==
    \/ \E c \in Clients, pr \in Pairs, carries \in BOOLEAN, pin \in Pinned \cup {None} :
           CommandWrites(c, pr, carries, pin)
    \/ \E c \in Clients : FindsCycleRow(c)
    \/ \E c \in Clients : ReadsCandidates(c)
    \/ \E c \in Clients : Inserts(c)
    \/ \E c \in Clients : CommandThrows(c)
    \/ \E i \in Ids : \E shown \in SUBSET {pr \in Pairs : pr[2] = i} : RowLands(i, shown)
    \/ PassReadsRows
    \/ PassReadsLog
    \/ pass.at = "emit" /\ \E q \in pass.opens : PassOpens(q)
    \/ /\ pass.at = "emit" /\ pass.opens = {}
       /\ \E S \in SUBSET (1..(Len(log) + Len(pass.batch))) : PassEmits(S)
    \/ PassThrows
    \/ Wipes

CasesSpec == CasesInit /\ [][CasesNext]_casesVars

-----------------------------------------------------------------------------
\* Two events of one instance that were not decided in ignorance of each other.
Knew(e, f) == e.n \in f.saw \/ f.n \in e.saw

\* "An instance already attached to a case keeps that case" (decideCaseId, rule
\* 3): if of any two events of an instance the later-inserted one was decided on
\* a read that showed the other, all of them are in one case, on whichever of
\* the two paths they came, however the batches were back-dated and wherever the
\* references pointed by then.
CaseKept ==
    \A i \in Ids :
        LET own == {log[k] : k \in {j \in DOMAIN log : log[j].id = i}}
        IN  (\A e, f \in own : e = f \/ (Knew(e, f) /\ ~e.pinned /\ ~f.pinned))
                => Cardinality({e.case : e \in own}) <= 1

\* The event was decided on the log it was inserted into.
Alone(e) ==
    /\ e.saw \subseteq Numbers(log)
    /\ {n \in Numbers(log) : n < e.n} \subseteq e.saw

\* A cycle row names a case before it has an event of its own; it does not
\* follow a reference out of that case afterwards.
StartsItsCase(i) ==
    \/ i \in Roots
    \/ \A x \in Ids : CycleOf[x] # i
    \/ Refs[i] = <<>> /\ CycleOf[i] = None

\* "Its id is the id of the instance that started the run" (head of
\* correlate.ts): while every decision was made on the log it went into, the
\* instance whose id a case bears is in that case itself, so following case ids
\* never leads from one case to another.  Left out are the instances and cases
\* a payload named itself, and cycle rows that reference another instance: a
\* child that comes first is filed under the row, the row under its parent.
CasesAnchored ==
    (\A k \in DOMAIN log : Alone(log[k])) =>
        \A j, k \in DOMAIN log :
            LET i == log[k].id
            IN  /\ log[j].case = i
                /\ \A l \in DOMAIN log : i \in {log[l].id, log[l].case} => ~log[l].pinned
                /\ StartsItsCase(i)
                => log[k].case = i

\* The case a command that emits the batch's event b decides.  The pass names
\* the case of a cycle row it opens, and so does the command.
EmittedCase(lg, d, b) ==
    LET carries == b[1][1] \in Carriers
    IN  IF b[1][2] \in d.opens THEN b[2]
        ELSE CorrelateCaseId(b[1][2], carries, CycleRow(b[1][2], carries, d.stored), lg)

\* The log after commands emitted the first k events of the batch, one by one.
Emitted(lg, d) ==
    LET l[k \in 0..Len(d.batch)] ==
            IF k = 0 THEN lg
            ELSE Append(l[k - 1], Entry(0, d.batch[k][1],
                                        EmittedCase(l[k - 1], d, d.batch[k]), FALSE, {}))
    IN  l

\* The two paths decide alike (decideCaseId is "the same pure decideCaseId the
\* emit() path uses"): a pass on the present rows and log gives every event the
\* case that commands emitting the same events in the same order would, although
\* it reads the log once for all of them and the commands once for each.
PathsAgree ==
    LET d == Derive(rows, log)
        live == Emitted(log, d)[Len(d.batch)]
    IN  \A k \in DOMAIN d.batch : d.batch[k][2] = live[Len(log) + k].case
=============================================================================
