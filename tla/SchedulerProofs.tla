-------------------------- MODULE SchedulerProofs --------------------------
(***************************************************************************)
(* For any number of connectors, edits and restarts and any clock: one     *)
(* pull of a connector at a time, and a schedule is switched off by the    *)
(* scheduler exactly after MAX_FAILURES failed attempts in a row.  The     *)
(* second needs that every sidecar is honest about its failures, the       *)
(* copies that authoring requests hold included.                           *)
(*                                                                         *)
(* Attempts are spaced because a connector is put on the tick's list only  *)
(* when it is due, and stays due until its turn: nothing that happens to   *)
(* it in between but a new schedule, which starts its spacing anew,        *)
(* changes the attempt and the failures its next one is counted from       *)
(* (SpacedInv).                                                            *)
(***************************************************************************)
EXTENDS Scheduler, FiniteSetTheorems, SequenceTheorems, TLAPS

\* A sidecar says that it was switched off exactly when it has counted enough failures.
Honest(s) ==
    /\ s.disabledReason <=> s.failures >= MAX_FAILURES
    /\ s.disabledReason => ~s.enabled

\* The sidecars, their copies, and the count of failures.
Sides ==
    /\ now \in Nat /\ ops \in Nat
    /\ side \in [Connectors -> Sidecar]
    /\ draft \in [Connectors -> Sidecar \cup {None}]
    /\ streak \in [Connectors -> Nat]
    /\ \A c \in Connectors :
          /\ Honest(side[c]) /\ streak[c] = side[c].failures
          /\ draft[c] # None => Honest(draft[c])

\* The tick and the pulls; a connector is at hand exactly while its pull has a stage.
Pulls ==
    /\ due \in Seq(Connectors) /\ ticking \in BOOLEAN
    /\ running \in Connectors \cup {None} /\ stage \in Stages
    /\ manual \in [Connectors -> Stages \ {"loading"}]
    /\ inFlight \subseteq Connectors
    /\ running = None <=> stage = "none"
    /\ running # None => ticking

SchedulerInv == Sides /\ Pulls /\ PullExclusive

LEMMA SchedulerInit == Init => SchedulerInv
<1> SUFFICES ASSUME Init PROVE SchedulerInv OBVIOUS
<1>1. Sides BY SchedulerAssumption DEF Init, Sides, Sidecar, Honest
<1>2. Pulls
  <2>1. due \in Seq(Connectors) BY DEF Init
  <2>2. manual \in [Connectors -> Stages \ {"loading"}] BY DEF Init, Stages
  <2> QED BY <2>1, <2>2 DEF Init, Pulls, Stages
<1>3. PullExclusive BY DEF Init, PullExclusive
<1> QED BY <1>1, <1>2, <1>3 DEF SchedulerInv

\* Whatever a tick lists is a sequence of connectors.
LEMMA ListType ==
    ASSUME NEW t, StartTick(t)
    PROVE  due' \in Seq(Connectors) /\ ticking'
<1>1. IsFiniteSet(Listed(t))
    BY SchedulerAssumption, FS_Subset DEF Listed
<1>2. Cardinality(Listed(t)) \in Nat BY <1>1, FS_CardinalityType
<1> QED BY <1>2 DEF StartTick, Listed

\* A sidecar that is honest, and as many failures as the history has, may be written.
LEMMA WriteKeeps ==
    ASSUME Sides, NEW c \in Connectors, NEW s \in Sidecar, Honest(s),
           side' = [side EXCEPT ![c] = s],
           streak' = [streak EXCEPT ![c] = s.failures],
           UNCHANGED now, ops' \in Nat,
           draft' = draft \/ draft' = [draft EXCEPT ![c] = None]
    PROVE  Sides'
<1>1. side' \in [Connectors -> Sidecar] /\ draft' \in [Connectors -> Sidecar \cup {None}]
    BY DEF Sides
<1>2. s.failures \in Nat BY DEF Sidecar
<1>3. streak' \in [Connectors -> Nat] BY <1>2 DEF Sides
<1>4. \A d \in Connectors :
          /\ side'[d] = IF d = c THEN s ELSE side[d]
          /\ streak'[d] = IF d = c THEN s.failures ELSE streak[d]
          /\ draft'[d] \in {None, draft[d]}
    BY DEF Sides
<1>5. \A d \in Connectors :
          /\ Honest(side'[d]) /\ streak'[d] = side'[d].failures
          /\ draft'[d] # None => Honest(draft'[d])
    BY <1>4 DEF Sides
<1> QED BY <1>1, <1>3, <1>5 DEF Sides, Honest

LEMMA SideSound ==
    ASSUME Sides, NEW c \in Connectors
    PROVE  side[c] \in Sidecar /\ Honest(side[c])
BY DEF Sides

LEMMA NextKeeps ==
    ASSUME SchedulerInv, Next
    PROVE  SchedulerInv'
<1> USE SchedulerAssumption DEF SchedulerInv
<1>1. ASSUME NEW c \in Connectors, NEW enabled \in BOOLEAN, NEW every \in Intervals,
              NEW start \in Starts \cup {None, Same}, SetSchedule(c, enabled, every, start)
      PROVE  SchedulerInv'
  <2>1. Sides'
    <3> DEFINE s == Scheduled(side[c], enabled, every, start)
    <3>1. side[c] \in Sidecar /\ Honest(side[c]) BY SideSound
    <3>2. s \in Sidecar BY <3>1 DEF Scheduled, Sidecar
    <3>a. s.failures = 0 /\ s.disabledReason = FALSE BY <3>1 DEF Scheduled, Sidecar
    <3>3. Honest(s) BY <3>a DEF Honest
    <3>4. streak' = [streak EXCEPT ![c] = s.failures]
        BY <1>1, <3>1 DEF SetSchedule, Scheduled, Sidecar
    <3>5. side' = [side EXCEPT ![c] = s] BY <1>1 DEF SetSchedule, Begun
    <3> QED BY <1>1, <3>1, <3>2, <3>3, <3>4, <3>5, WriteKeeps DEF SetSchedule, Begun, Sides
  <2>2. Pulls' BY <1>1 DEF SetSchedule, Begun, Pulls, Stages, disk, pulls
  <2>3. PullExclusive' BY <1>1 DEF SetSchedule, Begun, PullExclusive, Pulls, Stages, disk, pulls
  <2> QED BY <2>1, <2>2, <2>3
<1>2. ASSUME Tick PROVE SchedulerInv'
  <2>1. Sides' BY <1>2 DEF Tick, Sides, Honest, Sidecar, disk, pulls
  <2>2. Pulls' BY <1>2, ListType DEF Tick, Pulls, Stages, disk, pulls
  <2>3. PullExclusive' BY <1>2 DEF Tick, PullExclusive, Pulls, Stages, disk, pulls
  <2> QED BY <2>1, <2>2, <2>3
<1>3. ASSUME RunStart PROVE SchedulerInv'
  <2>1. Sides'
    <3> DEFINE s == [side[Head(due)] EXCEPT !.lastAttemptAt = now]
    <3>1. Head(due) \in Connectors /\ side[Head(due)] \in Sidecar
          /\ Honest(side[Head(due)]) /\ streak[Head(due)] = side[Head(due)].failures
        BY <1>3 DEF RunStart, Sides, Pulls, Stages
    <3>2. s \in Sidecar BY <1>3, <3>1 DEF RunStart, Sidecar, Sides
    <3>3. Honest(s) BY <3>1 DEF Honest, Sidecar
    <3>4. streak' = [streak EXCEPT ![Head(due)] = s.failures]
        BY <1>3, <3>1 DEF RunStart, Sidecar, Sides, disk
    <3>5. side' = [side EXCEPT ![Head(due)] = s] BY <1>3 DEF RunStart
    <3> QED BY <1>3, <3>1, <3>2, <3>3, <3>4, <3>5, WriteKeeps DEF RunStart, Sides
  <2>2. Pulls' BY <1>3 DEF RunStart, Pulls, Stages, disk, pulls
  <2>3. PullExclusive' BY <1>3 DEF RunStart, PullExclusive, Pulls, Stages, disk, pulls
  <2> QED BY <2>1, <2>2, <2>3
<1>4. ASSUME PullBegins PROVE SchedulerInv'
  <2>1. Sides' BY <1>4 DEF PullBegins, Sides, Honest, Sidecar, disk, pulls
  <2>2. Pulls' BY <1>4 DEF PullBegins, Pulls, Stages, disk, pulls
  <2>3. PullExclusive' BY <1>4 DEF PullBegins, PullExclusive, Pulls, Stages, disk, pulls
  <2> QED BY <2>1, <2>2, <2>3
<1>5. ASSUME PullStamps PROVE SchedulerInv'
  <2>1. Sides'
    <3> DEFINE s == [side[running] EXCEPT !.lastPullAt = now]
    <3>1. running \in Connectors /\ side[running] \in Sidecar
          /\ Honest(side[running]) /\ streak[running] = side[running].failures
        BY <1>5 DEF PullStamps, Sides, Pulls, Stages
    <3>2. s \in Sidecar BY <1>5, <3>1 DEF PullStamps, Sidecar, Sides
    <3>3. Honest(s) BY <3>1 DEF Honest, Sidecar
    <3>4. streak' = [streak EXCEPT ![running] = s.failures]
        BY <1>5, <3>1 DEF PullStamps, Sidecar, Sides, disk
    <3>5. side' = [side EXCEPT ![running] = s] BY <1>5 DEF PullStamps
    <3> QED BY <1>5, <3>1, <3>2, <3>3, <3>4, <3>5, WriteKeeps DEF PullStamps, Sides
  <2>2. Pulls' BY <1>5 DEF PullStamps, Pulls, Stages, disk, pulls
  <2>3. PullExclusive' BY <1>5 DEF PullStamps, PullExclusive, Pulls, Stages, disk, pulls
  <2> QED BY <2>1, <2>2, <2>3
<1>6. ASSUME PullReturns PROVE SchedulerInv'
  <2>1. Sides'
    <3> DEFINE s == [side[running] EXCEPT !.failures = 0, !.disabledReason = FALSE]
    <3>1. running \in Connectors /\ side[running] \in Sidecar
          /\ Honest(side[running]) /\ streak[running] = side[running].failures
        BY <1>6 DEF PullReturns, Sides, Pulls, Stages
    <3>2. s \in Sidecar BY <1>6, <3>1 DEF PullReturns, Sidecar, Sides
    <3>3. Honest(s) BY <3>1 DEF Honest, Sidecar
    <3>4. streak' = [streak EXCEPT ![running] = s.failures]
        BY <1>6, <3>1 DEF PullReturns, Sidecar, Sides, disk
    <3>5. side' = [side EXCEPT ![running] = s] BY <1>6 DEF PullReturns
    <3> QED BY <1>6, <3>1, <3>2, <3>3, <3>4, <3>5, WriteKeeps DEF PullReturns, Sides
  <2>2. Pulls' BY <1>6 DEF PullReturns, Pulls, Stages, disk, pulls
  <2>3. PullExclusive' BY <1>6 DEF PullReturns, PullExclusive, Pulls, Stages, disk, pulls
  <2> QED BY <2>1, <2>2, <2>3
<1>7. ASSUME PullThrows PROVE SchedulerInv'
  <2>1. Sides'
    <3> DEFINE s == Failed(side[running])
    <3>1. running \in Connectors /\ side[running] \in Sidecar
          /\ Honest(side[running]) /\ streak[running] = side[running].failures
        BY <1>7 DEF PullThrows, Sides, Pulls, Stages
    <3>2. s \in Sidecar
      <4>1. \A t \in Sidecar : [t EXCEPT !.failures = @ + 1] \in Sidecar BY DEF Sidecar
      <4>2. ASSUME NEW t \in Sidecar
            PROVE  [t EXCEPT !.failures = @ + 1, !.enabled = FALSE, !.disabledReason = TRUE]
                       \in Sidecar
        <5>1. t.failures + 1 \in Nat BY DEF Sidecar
        <5> QED BY <5>1, Zenon DEF Sidecar
      <4> QED BY <3>1, <4>1, <4>2 DEF Failed
    <3>3. Honest(s) BY <3>1 DEF Failed, Honest, Sidecar
    <3>4. streak' = [streak EXCEPT ![running] = s.failures]
        BY <1>7, <3>1 DEF PullThrows, Failed, Sidecar, Sides, disk
    <3>5. side' = [side EXCEPT ![running] = s] BY <1>7 DEF PullThrows
    <3> QED BY <1>7, <3>1, <3>2, <3>3, <3>4, <3>5, WriteKeeps DEF PullThrows, Sides
  <2>2. Pulls' BY <1>7 DEF PullThrows, Failed, Pulls, Stages, disk, pulls
  <2>3. PullExclusive' BY <1>7 DEF PullThrows, Failed, PullExclusive, Pulls, Stages, disk, pulls
  <2> QED BY <2>1, <2>2, <2>3
<1>8. ASSUME TickReturns PROVE SchedulerInv'
  <2>1. Sides' BY <1>8 DEF TickReturns, Sides, Honest, Sidecar, disk, pulls
  <2>2. Pulls' BY <1>8 DEF TickReturns, Pulls, Stages, disk, pulls
  <2>3. PullExclusive' BY <1>8 DEF TickReturns, PullExclusive, Pulls, Stages, disk, pulls
  <2> QED BY <2>1, <2>2, <2>3
<1>9. ASSUME NEW c \in Connectors, ManualBegins(c) PROVE SchedulerInv'
  <2>1. Sides' BY <1>9 DEF ManualBegins, Begun, Sides, Honest, Sidecar, disk, pulls
  <2>2. Pulls' BY <1>9 DEF ManualBegins, Begun, Pulls, Stages, disk, pulls
  <2>3. PullExclusive' BY <1>9 DEF ManualBegins, Begun, PullExclusive, Pulls, Stages, disk, pulls
  <2> QED BY <2>1, <2>2, <2>3
<1>10. ASSUME NEW c \in Connectors, ManualStamps(c) PROVE SchedulerInv'
  <2>1. Sides'
    <3> DEFINE s == [side[c] EXCEPT !.lastPullAt = now]
    <3>1. c \in Connectors /\ side[c] \in Sidecar /\ Honest(side[c]) /\ streak[c] = side[c].failures
        BY <1>10 DEF ManualStamps, Sides, Pulls, Stages
    <3>2. s \in Sidecar BY <1>10, <3>1 DEF ManualStamps, Sidecar, Sides
    <3>3. Honest(s) BY <3>1 DEF Honest, Sidecar
    <3>4. streak' = [streak EXCEPT ![c] = s.failures]
        BY <1>10, <3>1 DEF ManualStamps, Sidecar, Sides, disk
    <3>5. side' = [side EXCEPT ![c] = s] BY <1>10 DEF ManualStamps
    <3> QED BY <1>10, <3>1, <3>2, <3>3, <3>4, <3>5, WriteKeeps DEF ManualStamps, Sides
  <2>2. Pulls' BY <1>10 DEF ManualStamps, Pulls, Stages, disk, pulls
  <2>3. PullExclusive' BY <1>10 DEF ManualStamps, PullExclusive, Pulls, Stages, disk, pulls
  <2> QED BY <2>1, <2>2, <2>3
<1>11. ASSUME NEW c \in Connectors, ManualEnds(c) PROVE SchedulerInv'
  <2>1. Sides' BY <1>11 DEF ManualEnds, Sides, Honest, Sidecar, disk, pulls
  <2>2. Pulls' BY <1>11 DEF ManualEnds, Pulls, Stages, disk, pulls
  <2>3. PullExclusive' BY <1>11 DEF ManualEnds, PullExclusive, Pulls, Stages, disk, pulls
  <2> QED BY <2>1, <2>2, <2>3
<1>12. ASSUME NEW c \in Connectors, AuthorReads(c) PROVE SchedulerInv'
  <2>1. Sides' BY <1>12 DEF AuthorReads, Begun, Sides, Honest, Sidecar, disk, pulls
  <2>2. Pulls' BY <1>12 DEF AuthorReads, Begun, Pulls, Stages, disk, pulls
  <2>3. PullExclusive' BY <1>12 DEF AuthorReads, Begun, PullExclusive, Pulls, Stages, disk, pulls
  <2> QED BY <2>1, <2>2, <2>3
<1>13. ASSUME NEW c \in Connectors, AuthorWrites(c) PROVE SchedulerInv'
  <2>1. Sides' BY <1>13 DEF AuthorWrites, Sides, Honest, Sidecar, disk, pulls
  <2>2. Pulls' BY <1>13 DEF AuthorWrites, Pulls, Stages, disk, pulls
  <2>3. PullExclusive' BY <1>13 DEF AuthorWrites, PullExclusive, Pulls, Stages, disk, pulls
  <2> QED BY <2>1, <2>2, <2>3
<1>14. ASSUME Restart PROVE SchedulerInv'
  <2>1. Sides' BY <1>14 DEF Restart, Begun, Sides, Honest, Sidecar, disk, pulls
  <2>2. Pulls'
    <3>1. due' \in Seq(Connectors) BY <1>14 DEF Restart
    <3>2. manual' \in [Connectors -> Stages \ {"loading"}] BY <1>14 DEF Restart, Stages
    <3> QED BY <1>14, <3>1, <3>2 DEF Restart, Pulls, Stages
  <2>3. PullExclusive' BY <1>14 DEF Restart, Begun, PullExclusive, Pulls, Stages, disk, pulls
  <2> QED BY <2>1, <2>2, <2>3
<1> QED
  BY <1>1, <1>2, <1>3, <1>4, <1>5, <1>6, <1>7, <1>8, <1>9, <1>10, <1>11, <1>12, <1>13, <1>14
  DEF Next, Run

\* The inductive invariant holds.
THEOREM SchedulerInvHolds == Spec => []SchedulerInv
<1>1. Init => SchedulerInv BY SchedulerInit
<1>2. SchedulerInv /\ [Next]_vars => SchedulerInv'
  <2>1. SchedulerInv /\ UNCHANGED vars => SchedulerInv'
      BY DEF SchedulerInv, Sides, Pulls, PullExclusive, Honest, vars, disk, pulls
  <2> QED BY <2>1, NextKeeps
<1> QED BY <1>1, <1>2, PTL DEF Spec

\* Type correctness.
THEOREM SchedulerTyped == Spec => []TypeOK
<1>1. SchedulerInv => TypeOK BY DEF SchedulerInv, Sides, Pulls, TypeOK
<1> QED BY <1>1, SchedulerInvHolds, PTL

\* At most one pull of a connector runs, and the guard is held exactly while it does.
THEOREM PullsExclude == Spec => []PullExclusive
<1>1. SchedulerInv => PullExclusive BY DEF SchedulerInv
<1> QED BY <1>1, SchedulerInvHolds, PTL

\* The scheduler switches a schedule off exactly after MAX_FAILURES failures in a row.
THEOREM GivesUp == Spec => []GivesUpAfterMax
<1>1. SchedulerInv => GivesUpAfterMax
    BY DEF SchedulerInv, Sides, Honest, GivesUpAfterMax
<1> QED BY <1>1, SchedulerInvHolds, PTL

-----------------------------------------------------------------------------
(* The attempts of a connector are spaced.                                 *)

\* The backoff is none without failures, and some with them: there are 2^n sets of
\* numbers from 1..n.
LEMMA Powers ==
    ASSUME NEW n \in Nat
    PROVE  2 ^ n \in Nat /\ (n = 0 => 2 ^ n = 1) /\ (n > 0 => 2 ^ n >= 2)
<1>1. IsFiniteSet(1..n) /\ Cardinality(1..n) = n BY FS_Interval
<1>2. IsFiniteSet(SUBSET (1..n)) /\ Cardinality(SUBSET (1..n)) = 2 ^ n BY <1>1, FS_SUBSET
<1>3. 2 ^ n \in Nat BY <1>2, FS_CardinalityType
<1>4. ASSUME n > 0 PROVE 2 ^ n >= 2
  <2>1. IsFiniteSet({{1}}) /\ Cardinality({{1}}) = 1 /\ {} \notin {{1}} BY FS_Singleton
  <2>2. Cardinality({{1}} \cup {{}}) = 1 + 1 BY <2>1, FS_AddElement
  <2>3. {{1}} \cup {{}} \in SUBSET SUBSET (1..n) BY <1>4
  <2> QED BY <1>2, <2>2, <2>3, FS_Subset
<1>5. n = 0 => 2 ^ n = 1 OBVIOUS
<1> QED BY <1>3, <1>4, <1>5

\* A multiple of e that is at most a, the next of which is not.
LEMMA Multiples ==
    ASSUME NEW a \in Int, NEW e \in Nat, e > 0
    PROVE  /\ (a \div e) \in Int
           /\ (a \div e) * e <= a
           /\ a < (a \div e) * e + e
  OBVIOUS

\* The grid's slots: a time is less than an interval after the start of its slot,
\* and a later time does not lie in an earlier slot.
LEMMA Slots ==
    ASSUME NEW s \in Sidecar, s.startAt # None, s.every > 0, NEW t \in Nat
    PROVE  /\ Slot(s, t) \in Int
           /\ t < Slot(s, t) + s.every
           /\ \A u \in Nat : t <= u => Slot(s, t) <= Slot(s, u)
<1>1. PICK a \in Nat, e \in Nat : a = s.startAt /\ e = s.every /\ e > 0 BY DEF Sidecar
<1>2. \A u \in Nat : Slot(s, u) = a + ((u - a) \div e) * e BY <1>1 DEF Slot
<1>3. \A u \in Nat : /\ ((u - a) \div e) \in Int
                     /\ ((u - a) \div e) * e <= u - a
                     /\ u - a < ((u - a) \div e) * e + e
  <2> SUFFICES ASSUME NEW u \in Nat
               PROVE  /\ ((u - a) \div e) \in Int
                      /\ ((u - a) \div e) * e <= u - a
                      /\ u - a < ((u - a) \div e) * e + e
      OBVIOUS
  <2>1. u - a \in Int OBVIOUS
  <2> QED BY <1>1, <2>1, Multiples
<1>4. ASSUME NEW u \in Nat, t <= u PROVE Slot(s, t) <= Slot(s, u)
  <2>1. PICK m \in Int, n \in Int : m = (t - a) \div e /\ n = (u - a) \div e BY <1>3
  <2>2. m * e <= t - a /\ u - a < n * e + e BY <1>3, <2>1
  <2>3. m * e < (n + 1) * e BY <1>4, <2>2
  <2>4. m < n + 1 BY <1>1, <2>3
  <2>5. (n - m) * e >= 0 BY <1>1, <2>4
  <2>6. m * e <= n * e BY <2>5
  <2> QED BY <1>1, <1>2, <2>1, <2>6
<1>5. PICK m \in Int : m = (t - a) \div e BY <1>3
<1>6. PICK z \in Int : z = m * e OBVIOUS
<1>7. t - a < z + e BY <1>3, <1>5, <1>6
<1>8. Slot(s, t) = a + z BY <1>2, <1>5, <1>6
<1>9. Slot(s, t) \in Int /\ t < Slot(s, t) + s.every BY <1>1, <1>7, <1>8
<1> QED BY <1>4, <1>9

\* An attempt at t of a connector with sidecar s keeps its distance from the one at p,
\* n of the attempts since the last success having failed.
Spaced(s, p, n, t) ==
    IF s.startAt = None \/ n > 0
    THEN t >= p + s.every * Smaller(MAX_BACKOFF_FACTOR, 2 ^ n)
    ELSE p < Slot(s, t)

\* A connector that is due keeps its distance.
LEMMA DueSpaced ==
    ASSUME MAX_BACKOFF_FACTOR > 1, NEW s \in Sidecar, NEW t \in Nat, IsDue(s, t),
           NEW p \in Nat, s.lastAttemptAt = p
    PROVE  s.every > 0 /\ Spaced(s, p, s.failures, t)
<1> USE SchedulerAssumption
<1>1. PICK n \in Nat : n = s.failures BY DEF Sidecar
<1>2. PICK f : f = BackoffFactor(n) OBVIOUS
<1>3. f = Smaller(MAX_BACKOFF_FACTOR, 2 ^ n) /\ f \in Nat /\ (n > 0 => f > 1) /\ (n = 0 => f = 1)
    BY <1>2, Powers DEF BackoffFactor, Smaller
<1>4. s.every \in Nat /\ s.every > 0 BY DEF IsDue, Sidecar
<1>5. PICK held \in Nat : held = p + s.every * f BY <1>3, <1>4
<1>6. p # None /\ t >= NextRunAt(s, t) BY DEF IsDue
<1>7. CASE s.startAt = None
  <2>1. t >= held BY <1>1, <1>2, <1>5, <1>6, <1>7 DEF NextRunAt
  <2> QED BY <1>1, <1>3, <1>4, <1>5, <1>7, <2>1 DEF Spaced
<1>8. CASE s.startAt # None
  <2>1. s.startAt \in Nat /\ Slot(s, t) \in Int /\ t < Slot(s, t) + s.every
      BY <1>4, <1>8, Slots DEF Sidecar
  <2> DEFINE target == IF p >= Slot(s, t) THEN Slot(s, t) + s.every ELSE Slot(s, t)
  <2>2. NextRunAt(s, t) = IF t < s.startAt THEN s.startAt
                          ELSE IF f <= 1 THEN target ELSE Larger(target, held)
      BY <1>1, <1>2, <1>5, <1>6, <1>8 DEF NextRunAt
  <2>3. ~(t < s.startAt) BY <1>6, <2>1, <2>2
  <2>4. target \in Int BY <1>4, <2>1
  <2>5. CASE n > 0
    <3>1. t >= held BY <1>3, <1>6, <2>2, <2>3, <2>4, <2>5 DEF Larger
    <3> QED BY <1>1, <1>3, <1>4, <1>5, <2>5, <3>1 DEF Spaced
  <2>6. CASE n = 0
    <3>1. t >= target BY <1>3, <1>6, <2>2, <2>3, <2>6
    <3>2. p < Slot(s, t) BY <1>4, <2>1, <3>1
    <3> QED BY <1>1, <1>4, <1>8, <2>6, <3>2 DEF Spaced
  <2> QED BY <2>5, <2>6
<1> QED BY <1>7, <1>8

\* And keeps it while time passes.
LEMMA SpacedLater ==
    ASSUME NEW s \in Sidecar, s.every > 0, NEW p \in Nat, NEW n \in Nat, NEW t \in Nat,
           Spaced(s, p, n, t), NEW u \in Nat, t <= u
    PROVE  Spaced(s, p, n, u)
<1>1. PICK f \in Nat : f = Smaller(MAX_BACKOFF_FACTOR, 2 ^ n)
    BY Powers, SchedulerAssumption DEF Smaller
<1>2. PICK held \in Nat : held = p + s.every * f BY <1>1 DEF Sidecar
<1>3. CASE s.startAt = None \/ n > 0 BY <1>1, <1>2, <1>3 DEF Spaced
<1>4. CASE ~(s.startAt = None \/ n > 0)
  <2>1. Slot(s, t) \in Int /\ Slot(s, u) \in Int /\ Slot(s, t) <= Slot(s, u)
      BY <1>4, Slots
  <2> QED BY <1>4, <2>1 DEF Spaced
<1> QED BY <1>3, <1>4

\* The connectors on the list may be pulled now, each of them once.
InList == {due[i] : i \in 1..Len(due)}

SpacedInv ==
    /\ SchedulerInv
    /\ prev \in [Connectors -> Nat \cup {None}]
    /\ \A c \in Connectors : prev[c] # None => side[c].lastAttemptAt = prev[c]
    /\ \A i, j \in 1..Len(due) : due[i] = due[j] => i = j
    /\ running \notin InList
    /\ \A c \in InList : prev[c] # None =>
           side[c].every > 0 /\ Spaced(side[c], prev[c], streak[c], now)

\* Steps that change neither the list nor a connector on it whose schedule stays.
LEMMA ListKept ==
    ASSUME SpacedInv, SchedulerInv', due' = due, running' \in {running, None}, now' >= now,
           prev' \in [Connectors -> Nat \cup {None}],
           \A c \in Connectors : prev'[c] # None => side'[c].lastAttemptAt = prev'[c],
           \A c \in InList : prev'[c] # None =>
               /\ prev'[c] = prev[c] /\ streak'[c] = streak[c]
               /\ side'[c].every = side[c].every /\ side'[c].startAt = side[c].startAt
    PROVE  SpacedInv'
<1>1. InList' = InList BY DEF InList
<1>2. InList \subseteq Connectors BY DEF SpacedInv, SchedulerInv, Pulls, InList
<1>3. running' \notin InList BY <1>2, SchedulerAssumption DEF SpacedInv
<1>4. ASSUME NEW c \in InList, prev'[c] # None
      PROVE  side'[c].every > 0 /\ Spaced(side'[c], prev'[c], streak'[c], now')
  <2>1. /\ prev'[c] = prev[c] /\ prev[c] \in Nat /\ streak'[c] = streak[c] /\ streak[c] \in Nat
        /\ side'[c].every = side[c].every /\ side'[c].startAt = side[c].startAt
        /\ side[c] \in Sidecar /\ now \in Nat /\ now' \in Nat
        /\ side[c].every > 0 /\ Spaced(side[c], prev[c], streak[c], now)
      BY <1>2, <1>4 DEF SpacedInv, SchedulerInv, Sides
  <2>2. Spaced(side[c], prev[c], streak[c], now') BY <2>1, SpacedLater
  <2>3. Spaced(side'[c], prev[c], streak[c], now') BY <2>1, <2>2 DEF Spaced, Slot
  <2> QED BY <2>1, <2>3
<1> QED BY <1>1, <1>3, <1>4 DEF SpacedInv

\* A new list.
LEMMA ListMade ==
    ASSUME MAX_BACKOFF_FACTOR > 1, SpacedInv, SchedulerInv', StartTick(now'), ~ticking,
           UNCHANGED <<disk, running>>
    PROVE  SpacedInv'
<1>1. PICK L : L = Listed(now') OBVIOUS
<1>2. due' \in [1..Cardinality(L) -> L] /\ \A i, j \in DOMAIN due' : due'[i] = due'[j] => i = j
    BY <1>1 DEF StartTick
<1>3. L \subseteq Connectors /\ \A c \in L : IsDue(side[c], now')
    BY <1>1 DEF Listed
<1>4. Cardinality(L) \in Nat BY <1>3, SchedulerAssumption, FS_Subset, FS_CardinalityType
<1>5. DOMAIN due' = 1..Cardinality(L) /\ Len(due') = Cardinality(L) BY <1>2, <1>4
<1>6. InList' \subseteq L BY <1>2, <1>5 DEF InList
<1>7. running' = None BY DEF SpacedInv, SchedulerInv, Pulls
<1>8. ASSUME NEW c \in L, prev[c] # None
      PROVE  side[c].every > 0 /\ Spaced(side[c], prev[c], streak[c], now')
  <2>1. /\ side[c] \in Sidecar /\ prev[c] \in Nat /\ now' \in Nat
        /\ side[c].lastAttemptAt = prev[c] /\ streak[c] = side[c].failures
      BY <1>3, <1>8 DEF SpacedInv, SchedulerInv, Sides
  <2> QED BY <1>3, <2>1, DueSpaced
<1>9. None \notin L BY <1>3, SchedulerAssumption
<1>10. UNCHANGED <<prev, side, streak>> BY DEF disk
<1> QED BY <1>2, <1>5, <1>6, <1>7, <1>8, <1>9, <1>10 DEF SpacedInv

\* The first connector of the list is taken off it.
LEMMA ListTaken ==
    ASSUME SpacedInv, SchedulerInv', RunStart
    PROVE  SpacedInv'
<1>1. /\ due # <<>> /\ due \in Seq(Connectors)
      /\ running' = Head(due) /\ due' = Tail(due)
      /\ side' = [side EXCEPT ![Head(due)].lastAttemptAt = now]
      /\ prev' = [prev EXCEPT ![Head(due)] = now]
      /\ now' = now /\ streak' = streak /\ now \in Nat
    BY DEF RunStart, SpacedInv, SchedulerInv, Sides, Pulls
<1>2. PICK n : n = Len(due) OBVIOUS
<1>3. /\ n \in Nat /\ n >= 1 /\ Head(due) = due[1] /\ Head(due) \in Connectors
      /\ due' \in Seq(Connectors) /\ Len(due') = n - 1
      /\ \A i \in 1..(n - 1) : due'[i] = due[i + 1]
    BY <1>1, <1>2, HeadTailProperties, LenProperties, EmptySeq
<1>4. \A i \in 1..(n - 1) : i + 1 \in 1..n /\ 1 \in 1..n /\ i + 1 # 1 BY <1>3
<1>5. \A i, j \in 1..Len(due') : due'[i] = due'[j] => i = j
    BY <1>2, <1>3, <1>4 DEF SpacedInv
<1>6. \A i \in 1..Len(due') : due'[i] \in InList /\ due'[i] # Head(due)
    BY <1>2, <1>3, <1>4 DEF InList, SpacedInv
<1>7. InList' \subseteq InList \ {Head(due)}
    BY <1>6 DEF InList
<1>8. InList \subseteq Connectors BY <1>1 DEF InList
<1>9. prev' \in [Connectors -> Nat \cup {None}] BY <1>1, <1>3 DEF SpacedInv
<1>10. \A c \in Connectors : prev'[c] # None => side'[c].lastAttemptAt = prev'[c]
  <2>1. side \in [Connectors -> Sidecar] BY DEF SpacedInv, SchedulerInv, Sides
  <2>2. side'[Head(due)].lastAttemptAt = now /\ prev'[Head(due)] = now
      BY <1>1, <1>3, <2>1 DEF SpacedInv, Sidecar
  <2>3. \A c \in Connectors \ {Head(due)} : side'[c] = side[c] /\ prev'[c] = prev[c]
      BY <1>1, <1>3, <2>1 DEF SpacedInv
  <2> QED BY <2>2, <2>3 DEF SpacedInv
<1>11. \A c \in InList' : side'[c] = side[c] /\ prev'[c] = prev[c]
  <2>1. \A c \in Connectors \ {Head(due)} : side'[c] = side[c] /\ prev'[c] = prev[c]
      BY <1>1, <1>3 DEF SpacedInv, SchedulerInv, Sides
  <2> QED BY <1>7, <1>8, <2>1
<1>12. \A c \in InList' : prev'[c] # None =>
            side'[c].every > 0 /\ Spaced(side'[c], prev'[c], streak'[c], now')
    BY <1>1, <1>7, <1>11 DEF SpacedInv
<1>13. running' \notin InList' BY <1>1, <1>7
<1> QED BY <1>5, <1>9, <1>10, <1>12, <1>13 DEF SpacedInv

LEMMA SpacedStep ==
    ASSUME MAX_BACKOFF_FACTOR > 1, SpacedInv, [Next]_vars
    PROVE  SpacedInv'
<1>0. SchedulerInv'
  <2>1. CASE Next BY <2>1, NextKeeps DEF SpacedInv
  <2>2. CASE UNCHANGED vars
      BY <2>2 DEF SpacedInv, SchedulerInv, Sides, Pulls, PullExclusive, Honest, vars, disk, pulls
  <2> QED BY <2>1, <2>2
<1>1. /\ now \in Nat /\ side \in [Connectors -> Sidecar]
      /\ prev \in [Connectors -> Nat \cup {None}] /\ streak \in [Connectors -> Nat]
      /\ InList \subseteq Connectors /\ running \in Connectors \cup {None}
      /\ running \notin InList
    BY DEF SpacedInv, SchedulerInv, Sides, Pulls, InList
<1>2. ASSUME UNCHANGED <<now, side, streak, due>>, running' \in {running, None},
             NEW c \in Connectors, prev' = prev \/ prev' = [prev EXCEPT ![c] = None]
      PROVE  SpacedInv'
  <2>1. \A d \in Connectors : prev'[d] # None => prev'[d] = prev[d] BY <1>1, <1>2
  <2>2. prev' \in [Connectors -> Nat \cup {None}] BY <1>1, <1>2
  <2> QED BY <1>0, <1>1, <1>2, <2>1, <2>2, ListKept DEF SpacedInv
<1>3. ASSUME UNCHANGED <<now, due>>, running' \in {running, None},
             NEW c \in Connectors, prev' = [prev EXCEPT ![c] = None],
             \A d \in Connectors \ {c} : side'[d] = side[d] /\ streak'[d] = streak[d]
      PROVE  SpacedInv'
  <2>1. \A d \in Connectors : prev'[d] # None => d # c /\ prev'[d] = prev[d] BY <1>1, <1>3
  <2>2. prev' \in [Connectors -> Nat \cup {None}] BY <1>1, <1>3
  <2> QED BY <1>0, <1>1, <1>3, <2>1, <2>2, ListKept DEF SpacedInv
<1>4. ASSUME UNCHANGED <<now, due, prev>>, running' \in {running, None}, NEW c \in Connectors,
             NEW s \in Sidecar, side' = [side EXCEPT ![c] = s],
             s.every = side[c].every, s.startAt = side[c].startAt,
             s.lastAttemptAt = side[c].lastAttemptAt,
             \/ streak' = streak
             \/ c = running /\ \A d \in Connectors \ {c} : streak'[d] = streak[d]
      PROVE  SpacedInv'
  <2>1. \A d \in Connectors : /\ side'[d].every = side[d].every
                              /\ side'[d].startAt = side[d].startAt
                              /\ side'[d].lastAttemptAt = side[d].lastAttemptAt
      BY <1>1, <1>4
  <2>2. \A d \in InList : streak'[d] = streak[d] BY <1>1, <1>4
  <2> QED BY <1>0, <1>1, <1>4, <2>1, <2>2, ListKept DEF SpacedInv
<1>5. ASSUME NEW c \in Connectors, NEW enabled \in BOOLEAN, NEW every \in Intervals,
             NEW start \in Starts \cup {None, Same}, SetSchedule(c, enabled, every, start)
      PROVE  SpacedInv'
    BY <1>1, <1>3, <1>5 DEF SetSchedule, pulls
<1>6. ASSUME Tick PROVE SpacedInv'
  <2>1. CASE UNCHANGED <<due, ticking>>
    <3>1. now' >= now /\ UNCHANGED <<side, streak, prev, due, running>>
        BY <1>1, <1>6, <2>1 DEF Tick, disk
    <3> QED BY <1>0, <1>1, <3>1, ListKept DEF SpacedInv
  <2>2. CASE ~ticking /\ StartTick(now') BY <1>0, <1>6, <2>2, ListMade DEF Tick
  <2> QED BY <1>6, <2>1, <2>2 DEF Tick
<1>7. ASSUME RunStart PROVE SpacedInv' BY <1>0, <1>7, ListTaken
<1>8. ASSUME UNCHANGED <<now, side, streak, prev, due>>, running' \in {running, None}
      PROVE  SpacedInv'
    BY <1>0, <1>1, <1>8, ListKept DEF SpacedInv
<1>9. ASSUME PullBegins \/ TickReturns PROVE SpacedInv'
    BY <1>8, <1>9 DEF PullBegins, TickReturns, disk
<1>10. stage # "none" => running \in Connectors
    BY DEF SpacedInv, SchedulerInv, Pulls
<1>11. ASSUME PullStamps PROVE SpacedInv'
  <2> DEFINE s == [side[running] EXCEPT !.lastPullAt = now]
  <2>1. running \in Connectors /\ side[running] \in Sidecar BY <1>1, <1>10, <1>11 DEF PullStamps
  <2>2. /\ s \in Sidecar /\ s.every = side[running].every /\ s.startAt = side[running].startAt
        /\ s.lastAttemptAt = side[running].lastAttemptAt
      BY <1>1, <2>1 DEF Sidecar
  <2>3. side' = [side EXCEPT ![running] = s] BY <1>11 DEF PullStamps
  <2> HIDE DEF s
  <2> QED BY <1>4, <1>11, <2>1, <2>2, <2>3 DEF PullStamps
<1>12. ASSUME PullReturns PROVE SpacedInv'
  <2> DEFINE s == [side[running] EXCEPT !.failures = 0, !.disabledReason = FALSE]
  <2>1. running \in Connectors /\ side[running] \in Sidecar BY <1>1, <1>10, <1>12 DEF PullReturns
  <2>2. /\ s \in Sidecar /\ s.every = side[running].every /\ s.startAt = side[running].startAt
        /\ s.lastAttemptAt = side[running].lastAttemptAt
      BY <1>1, <2>1 DEF Sidecar
  <2>3. side' = [side EXCEPT ![running] = s] BY <1>12 DEF PullReturns
  <2>4. \A d \in Connectors \ {running} : streak'[d] = streak[d] BY <1>1, <1>12 DEF PullReturns
  <2> HIDE DEF s
  <2> QED BY <1>4, <1>12, <2>1, <2>2, <2>3, <2>4 DEF PullReturns
<1>13. ASSUME PullThrows PROVE SpacedInv'
  <2> DEFINE s == Failed(side[running])
  <2>1. running \in Connectors /\ side[running] \in Sidecar BY <1>1, <1>10, <1>13 DEF PullThrows
  <2>2. side' = [side EXCEPT ![running] = s] BY <1>13 DEF PullThrows
  <2>3. /\ s.every = side[running].every /\ s.startAt = side[running].startAt
        /\ s.lastAttemptAt = side[running].lastAttemptAt
      BY <2>1 DEF Failed, Sidecar
  <2>4. s \in Sidecar
    <3>1. side'[running] = s /\ side' \in [Connectors -> Sidecar]
        BY <1>0, <1>1, <2>1, <2>2 DEF SchedulerInv, Sides
    <3> QED BY <2>1, <3>1
  <2>5. \A d \in Connectors \ {running} : streak'[d] = streak[d] BY <1>1, <1>13 DEF PullThrows
  <2> HIDE DEF s
  <2> QED BY <1>4, <1>13, <2>1, <2>2, <2>3, <2>4, <2>5 DEF PullThrows
<1>14. ASSUME NEW c \in Connectors, ManualBegins(c) \/ ManualEnds(c) \/ AuthorReads(c)
       PROVE  SpacedInv'
    BY <1>8, <1>14 DEF ManualBegins, ManualEnds, AuthorReads, disk, pulls
<1>15. ASSUME NEW c \in Connectors, ManualStamps(c) PROVE SpacedInv'
  <2> DEFINE s == [side[c] EXCEPT !.lastPullAt = now]
  <2>1. /\ s \in Sidecar /\ s.every = side[c].every /\ s.startAt = side[c].startAt
        /\ s.lastAttemptAt = side[c].lastAttemptAt
      BY <1>1 DEF Sidecar
  <2>2. side' = [side EXCEPT ![c] = s] BY <1>15 DEF ManualStamps
  <2> HIDE DEF s
  <2> QED BY <1>4, <1>15, <2>1, <2>2 DEF ManualStamps
<1>16. ASSUME NEW c \in Connectors, AuthorWrites(c) PROVE SpacedInv'
  <2>1. \A d \in Connectors \ {c} : side'[d] = side[d] /\ streak'[d] = streak[d]
      BY <1>1, <1>16 DEF AuthorWrites
  <2> QED BY <1>3, <1>16, <2>1 DEF AuthorWrites, pulls
<1>17. ASSUME Restart PROVE SpacedInv'
  <2>1. Len(due') = 0 /\ running' = None /\ UNCHANGED <<now, side, prev, streak>>
      BY <1>17 DEF Restart, disk
  <2>2. InList' = {} BY <2>1 DEF InList
  <2> QED BY <1>0, <2>1, <2>2 DEF SpacedInv
<1>18. CASE UNCHANGED vars BY <1>8, <1>18 DEF vars, disk, pulls
<1> QED
  BY <1>5, <1>6, <1>7, <1>9, <1>11, <1>12, <1>13, <1>14, <1>15, <1>16, <1>17, <1>18
  DEF Next, Run

\* For any schedules and any backoff, two scheduled attempts of a connector are as
\* far apart as its interval and its failures ask.
THEOREM AttemptsSpaced == ASSUME MAX_BACKOFF_FACTOR > 1 PROVE Spec => SpacedAttempts
<1>1. Init => SpacedInv
  <2> SUFFICES ASSUME Init PROVE SpacedInv OBVIOUS
  <2>1. Len(due) = 0 /\ running = None BY DEF Init
  <2>2. InList = {} BY <2>1 DEF InList
  <2> QED BY <2>1, <2>2, SchedulerInit DEF Init, SpacedInv
<1>2. SpacedInv /\ [Next]_vars => SpacedInv' BY SpacedStep
<1>3. SpacedInv /\ [Next]_vars
      => [\A c \in Connectors :
             running = None /\ running' = c /\ prev[c] # None =>
                 IF side[c].startAt = None \/ streak[c] > 0
                 THEN now >= prev[c] + side[c].every
                                       * Smaller(MAX_BACKOFF_FACTOR, 2 ^ streak[c])
                 ELSE prev[c] < Slot(side[c], now)]_vars
  <2> SUFFICES ASSUME SpacedInv, [Next]_vars, NEW c \in Connectors,
                      running = None, running' = c, prev[c] # None
               PROVE  IF side[c].startAt = None \/ streak[c] > 0
                      THEN now >= prev[c] + side[c].every
                                            * Smaller(MAX_BACKOFF_FACTOR, 2 ^ streak[c])
                      ELSE prev[c] < Slot(side[c], now)
      OBVIOUS
  <2>1. running' # running /\ running' # None BY SchedulerAssumption
  <2>2. RunStart
      BY <2>1 DEF Next, Run, vars, pulls, SetSchedule, Tick, PullBegins, PullStamps,
         PullReturns, PullThrows, TickReturns, ManualBegins, ManualStamps, ManualEnds,
         AuthorReads, AuthorWrites, Restart
  <2>3. due # <<>> /\ due \in Seq(Connectors) /\ c = Head(due)
      BY <2>2 DEF RunStart, SpacedInv, SchedulerInv, Pulls
  <2>4. Len(due) \in Nat /\ Len(due) # 0 /\ c = due[1]
      BY <2>3, HeadTailProperties, LenProperties, EmptySeq
  <2>5. c \in InList BY <2>4 DEF InList
  <2> QED BY <2>5 DEF SpacedInv, Spaced
<1> QED BY <1>1, <1>2, <1>3, PTL DEF Spec, SpacedAttempts
=============================================================================
