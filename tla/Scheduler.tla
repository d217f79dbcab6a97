----------------------------- MODULE Scheduler -----------------------------
(***************************************************************************)
(* Scheduled connector pulls (src/packs/scheduler.ts), with the pull guard *)
(* of src/packs/ingest.ts and the sidecar file that holds the schedule     *)
(* (src/packs/sidecar.ts).                                                 *)
(*                                                                         *)
(* Every minute a tick lists the connectors that are due and pulls them    *)
(* one after the other, unless the tick before is still at it.  The list   *)
(* is made once.  While a pull runs, users change schedules, pull by hand  *)
(* or regenerate an adapter body, and the process may restart; only the    *)
(* sidecars survive.  The clock counts ticks.                              *)
(***************************************************************************)
EXTENDS Integers, Sequences, FiniteSets

CONSTANTS Connectors,
          Intervals,              \* values of everyMinutes a user submits
          Starts,                 \* values of startAt a user submits
          None, Same,             \* an absent value; "leave the start time alone"
          SCHEDULE_MIN_MINUTES, MAX_FAILURES, MAX_BACKOFF_FACTOR,
          MaxTime,                \* bound: the clock's last value
          MaxOps                  \* bound: edits, manual pulls, regenerated bodies, restarts

ASSUME SchedulerAssumption ==
    /\ IsFiniteSet(Connectors)
    /\ Intervals \subseteq Nat /\ Starts \subseteq Nat
    /\ None \notin Connectors \cup Nat /\ Same \notin Nat \cup {None}
    /\ SCHEDULE_MIN_MINUTES \in Nat \ {0}
    /\ MaxTime \in Nat /\ MaxOps \in Nat
    /\ MAX_FAILURES \in Nat \ {0} /\ MAX_BACKOFF_FACTOR \in Nat \ {0}

VARIABLES now,
          side,       \* side[c]: the schedule part of c's sidecar
          due,        \* the tick's list, what is left of it
          ticking, running, stage,   \* the tick, the connector it pulls, how far
          manual,     \* manual[c]: how far a manual pull of c is
          inFlight,   \* the pull guard
          draft,      \* draft[c]: the sidecar an authoring request has read
          prev, streak,     \* ghosts, see below
          ops         \* operations begun (bounded by MaxOps)

disk == <<side, prev, streak>>
pulls == <<due, ticking, running, stage, manual, inFlight>>
vars == <<now, disk, pulls, draft, ops>>

\* Ghosts: prev[c], when c's last scheduled attempt began, None if none did since
\* its schedule was set; streak[c], its failed attempts since the last success
\* or since its schedule was set.  A write of a stale sidecar sets the schedule
\* (and its count of failures) to what was read.
Sidecar == [enabled : BOOLEAN, every : Nat, failures : Nat,
            lastAttemptAt : Nat \cup {None}, lastPullAt : Nat \cup {None},
            startAt : Nat \cup {None}, disabledReason : BOOLEAN]

Stages == {"none", "loading", "pulling", "stamped"}

TypeOK ==
    /\ side \in [Connectors -> Sidecar]
    /\ due \in Seq(Connectors) /\ ticking \in BOOLEAN
    /\ running \in Connectors \cup {None} /\ stage \in Stages
    /\ manual \in [Connectors -> Stages \ {"loading"}]
    /\ inFlight \subseteq Connectors
    /\ draft \in [Connectors -> Sidecar \cup {None}]
    /\ running # None => ticking /\ stage # "none"

\* A sidecar without a schedule is one whose schedule is off.
Init ==
    /\ now = 0
    /\ side = [c \in Connectors |->
           [enabled |-> FALSE, every |-> SCHEDULE_MIN_MINUTES, failures |-> 0,
            lastAttemptAt |-> None, lastPullAt |-> None, startAt |-> None,
            disabledReason |-> FALSE]]
    /\ due = <<>> /\ ticking = FALSE /\ running = None /\ stage = "none"
    /\ manual = [c \in Connectors |-> "none"]
    /\ inFlight = {}
    /\ draft = [c \in Connectors |-> None]
    /\ prev = [c \in Connectors |-> None]
    /\ streak = [c \in Connectors |-> 0]
    /\ ops = 0

Begun == ops < MaxOps /\ ops' = ops + 1

-----------------------------------------------------------------------------

Larger(a, b) == IF a > b THEN a ELSE b
Smaller(a, b) == IF a < b THEN a ELSE b

BackoffFactor(n) == IF n = 0 THEN 1 ELSE Smaller(MAX_BACKOFF_FACTOR, 2 ^ n)

\* The start of the grid slot the time t lies in.
Slot(s, t) == s.startAt + ((t - s.startAt) \div s.every) * s.every

NextRunAt(s, t) ==
    LET last == IF s.lastAttemptAt # None THEN s.lastAttemptAt ELSE s.lastPullAt
        held == last + s.every * BackoffFactor(s.failures)
        target == IF last # None /\ last >= Slot(s, t) THEN Slot(s, t) + s.every
                  ELSE Slot(s, t)
    IN  IF s.startAt = None THEN IF last = None THEN t ELSE held
        ELSE IF t < s.startAt THEN s.startAt
        ELSE IF last = None \/ BackoffFactor(s.failures) <= 1 THEN target
        ELSE Larger(target, held)

IsDue(s, t) ==
    /\ s.enabled
    /\ s.every >= SCHEDULE_MIN_MINUTES
    /\ t >= NextRunAt(s, t)

\* setConnectorSchedule: an enabled schedule needs a usable interval; a disabled
\* one keeps the old interval.  start = Same leaves the start time alone.
Scheduled(s, enabled, every, start) ==
    [s EXCEPT !.enabled = enabled, !.failures = 0, !.disabledReason = FALSE,
              !.every = IF every >= SCHEDULE_MIN_MINUTES THEN every ELSE @,
              !.startAt = IF start = Same THEN @ ELSE start]

SetSchedule(c, enabled, every, start) ==
    /\ Begun
    /\ enabled => every >= SCHEDULE_MIN_MINUTES
    /\ side' = [side EXCEPT ![c] = Scheduled(@, enabled, every, start)]
    /\ prev' = [prev EXCEPT ![c] = None]
    /\ streak' = [streak EXCEPT ![c] = 0]
    /\ UNCHANGED <<now, pulls, draft>>

-----------------------------------------------------------------------------

\* What a tick lists, in any order the file system returns.
Listed(t) == {c \in Connectors : IsDue(side[c], t) /\ c \notin inFlight}

StartTick(t) ==
    /\ ticking' = TRUE
    /\ due' \in {s \in [1..Cardinality(Listed(t)) -> Listed(t)] :
                     \A i, j \in DOMAIN s : s[i] = s[j] => i = j}

\* setInterval fires: a minute has passed.
Tick ==
    /\ now < MaxTime
    /\ now' = now + 1
    /\ IF ticking \/ Listed(now') = {} THEN UNCHANGED <<due, ticking>> ELSE StartTick(now')
    /\ UNCHANGED <<disk, running, stage, manual, inFlight, draft, ops>>

\* Mutant of RunStart: the attempt is not stamped before the pull.
RunStart_NoStamp ==
    /\ ticking /\ running = None /\ due # <<>>
    /\ running' = Head(due) /\ due' = Tail(due) /\ stage' = "loading"
    /\ prev' = [prev EXCEPT ![Head(due)] = now]
    /\ UNCHANGED <<now, side, streak, ticking, manual, inFlight, draft, ops>>

\* runOne: stamp the attempt, then load the model.
RunStart ==
    /\ ticking /\ running = None /\ due # <<>>
    /\ running' = Head(due) /\ due' = Tail(due) /\ stage' = "loading"
    /\ side' = [side EXCEPT ![Head(due)].lastAttemptAt = now]
    /\ prev' = [prev EXCEPT ![Head(due)] = now]
    /\ UNCHANGED <<now, streak, ticking, manual, inFlight, draft, ops>>

\* Mutant of PullBegins: ingestPull does not look at the guard.
PullBegins_Unguarded ==
    /\ stage = "loading"
    /\ stage' = "pulling"
    /\ inFlight' = inFlight \cup {running}
    /\ UNCHANGED <<now, disk, due, ticking, running, manual, draft, ops>>

\* The model is loaded; ingestPull takes the guard.
PullBegins ==
    /\ stage = "loading" /\ running \notin inFlight
    /\ stage' = "pulling"
    /\ inFlight' = inFlight \cup {running}
    /\ UNCHANGED <<now, disk, due, ticking, running, manual, draft, ops>>

\* stampLastPull: rows committed.
PullStamps ==
    /\ stage = "pulling"
    /\ stage' = "stamped"
    /\ side' = [side EXCEPT ![running].lastPullAt = now]
    /\ UNCHANGED <<now, prev, streak, due, ticking, running, manual, inFlight,
                   draft, ops>>

\* The pull is over, derivation included: the guard is released, failures reset.
PullReturns ==
    /\ stage = "stamped"
    /\ running' = None /\ stage' = "none"
    /\ inFlight' = inFlight \ {running}
    /\ side' = [side EXCEPT ![running].failures = 0, ![running].disabledReason = FALSE]
    /\ streak' = [streak EXCEPT ![running] = 0]
    /\ UNCHANGED <<now, prev, due, ticking, manual, draft, ops>>

\* Mutant of Failed: one failure more before it gives up.
Failed_OneMore(s) ==
    LET n == Smaller(s.failures + 1, MAX_FAILURES)
    IN  IF s.failures >= MAX_FAILURES
        THEN [s EXCEPT !.failures = n, !.enabled = FALSE, !.disabledReason = TRUE]
        ELSE [s EXCEPT !.failures = n]

\* runOne's catch: the sidecar after one more failure.
Failed(s) ==
    IF s.failures + 1 >= MAX_FAILURES
    THEN [s EXCEPT !.failures = @ + 1, !.enabled = FALSE, !.disabledReason = TRUE]
    ELSE [s EXCEPT !.failures = @ + 1]

\* The model does not load, a manual pull holds the guard, or the pull fails.
PullThrows ==
    /\ stage \in {"loading", "pulling"}
    /\ running' = None /\ stage' = "none"
    /\ inFlight' = IF stage = "pulling" THEN inFlight \ {running} ELSE inFlight
    /\ side' = [side EXCEPT ![running] = Failed(@)]
    /\ streak' = [streak EXCEPT ![running] = @ + 1]
    /\ UNCHANGED <<now, prev, due, ticking, manual, draft, ops>>

\* Mutant of TickReturns: `ticking` is reset after a success, not in a finally.
TickReturns_OnSuccess ==
    /\ ticking /\ running = None /\ due = <<>>
    /\ \A c \in Connectors : streak[c] = 0
    /\ ticking' = FALSE
    /\ UNCHANGED <<now, disk, due, running, stage, manual, inFlight, draft, ops>>

\* runDueConnectors is over; `finally` resets ticking.
TickReturns ==
    /\ ticking /\ running = None /\ due = <<>>
    /\ ticking' = FALSE
    /\ UNCHANGED <<now, disk, due, running, stage, manual, inFlight, draft, ops>>

-----------------------------------------------------------------------------

\* POST .../ingest and the chat's pull: refused while a pull is in flight.
ManualBegins(c) ==
    /\ Begun
    /\ c \notin inFlight
    /\ manual' = [manual EXCEPT ![c] = "pulling"]
    /\ inFlight' = inFlight \cup {c}
    /\ UNCHANGED <<now, disk, due, ticking, running, stage, draft>>

ManualStamps(c) ==
    /\ manual[c] = "pulling"
    /\ manual' = [manual EXCEPT ![c] = "stamped"]
    /\ side' = [side EXCEPT ![c].lastPullAt = now]
    /\ UNCHANGED <<now, prev, streak, due, ticking, running, stage, inFlight,
                   draft, ops>>

ManualEnds(c) ==
    /\ manual[c] # "none"
    /\ manual' = [manual EXCEPT ![c] = "none"]
    /\ inFlight' = inFlight \ {c}
    /\ UNCHANGED <<now, disk, due, ticking, running, stage, draft, ops>>

\* authorAdapterBody: the sidecar is read, the body is generated by the LLM, and
\* the sidecar is written from the copy that was read.
AuthorReads(c) ==
    /\ draft[c] = None
    /\ Begun
    /\ draft' = [draft EXCEPT ![c] = side[c]]
    /\ UNCHANGED <<now, disk, pulls>>

AuthorWrites(c) ==
    /\ draft[c] # None
    /\ side' = [side EXCEPT ![c] = draft[c]]
    /\ draft' = [draft EXCEPT ![c] = None]
    /\ prev' = [prev EXCEPT ![c] = None]
    /\ streak' = [streak EXCEPT ![c] = draft[c].failures]
    /\ UNCHANGED <<now, pulls, ops>>

\* The process stops and starts: what is in memory is lost.
Restart ==
    /\ Begun
    /\ due' = <<>> /\ ticking' = FALSE /\ running' = None /\ stage' = "none"
    /\ manual' = [c \in Connectors |-> "none"]
    /\ inFlight' = {}
    /\ draft' = [c \in Connectors |-> None]
    /\ UNCHANGED <<now, disk>>

Run == RunStart \/ PullBegins \/ PullStamps \/ PullReturns \/ PullThrows \/ TickReturns

Next ==
    \/ \E c \in Connectors, enabled \in BOOLEAN, every \in Intervals,
          start \in Starts \cup {None, Same} : SetSchedule(c, enabled, every, start)
    \/ Tick
    \/ Run
    \/ \E c \in Connectors : ManualBegins(c) \/ ManualStamps(c) \/ ManualEnds(c)
    \/ \E c \in Connectors : AuthorReads(c) \/ AuthorWrites(c)
    \/ Restart

Spec == Init /\ [][Next]_vars

\* A pull ends: the sandbox kills a connector that exceeds its budget, an authored
\* adapter's fetch is aborted; the loop over the list then goes on by itself.
FairSpec == Spec /\ WF_vars(Run)

-----------------------------------------------------------------------------
\* At most one pull of a connector runs at a time, scheduled or manual, and the
\* guard is held exactly while one does.
PullExclusive ==
    /\ \A c \in Connectors :
           ~(manual[c] # "none" /\ running = c /\ stage \in {"pulling", "stamped"})
    /\ inFlight = {c \in Connectors :
           manual[c] # "none" \/ (running = c /\ stage \in {"pulling", "stamped"})}

\* While nobody sets its schedule, two scheduled attempts of a connector are an
\* interval apart, times the backoff after failures; on a grid, an attempt after a
\* success waits for the next slot.  A restart or a late tick breaks neither.
SpacedAttempts ==
    [][\A c \in Connectors :
          running = None /\ running' = c /\ prev[c] # None =>
              IF side[c].startAt = None \/ streak[c] > 0
              THEN now >= prev[c] + side[c].every
                                    * Smaller(MAX_BACKOFF_FACTOR, 2 ^ streak[c])
              ELSE prev[c] < Slot(side[c], now)]_vars

\* Polling gives up after MAX_FAILURES failed attempts in a row, and the system
\* never disables a schedule for another reason.
GivesUpAfterMax ==
    \A c \in Connectors :
        /\ side[c].disabledReason <=> streak[c] >= MAX_FAILURES
        /\ side[c].disabledReason => ~side[c].enabled

\* A tick ends, so the one after it is not skipped for ever.
TickEnds == ticking ~> ~ticking
=============================================================================
