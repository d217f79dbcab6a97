----------------------------- MODULE LogProofs -----------------------------
(***************************************************************************)
(* The two logs and what is read off them: the audit chain of an           *)
(* organization, and the cases in the event log of a workflow with the     *)
(* next actions planned from them.                                         *)
(*                                                                         *)
(* The audit chain verifies after any number of concurrent appends,        *)
(* failures and restarts, for any organizations and entries, as long as    *)
(* nobody edits the table behind the application's back.  The              *)
(* strengthening is ReadStaysCurrent: the end of the chain an append read  *)
(* is the end it inserts behind.  It rests on the promise queue: the       *)
(* running append of an organization is its only one.  That entries are in *)
(* the order of the calls holds of an edited chain as well: rows come from *)
(* appends that are over (AllWritten), and the one that inserts is later   *)
(* than all of these.  And one edit or deletion stays visible: it leaves a *)
(* scar, a row whose number is not its place or whose hash is not its      *)
(* material's, and appending moves neither (VisibleInv).                   *)
(*                                                                         *)
(* Cases (from LeastNat on).  CasesInv says of every event, inserted or    *)
(* still on its way, what the read it was decided on showed: the case of   *)
(* an earlier event of its instance (DecisionHolds), and, if the case is   *)
(* another instance's, an event that led there or a row that opens it      *)
(* (Founded).  With it an instance keeps its case and a case its anchor,   *)
(* for any references, cycle rows and order of the plan.  FreshInv says    *)
(* that a log that has left a watermark never shows it again unless it is  *)
(* empty.  The planner is proved as an algorithm: Kahn's loop by an        *)
(* invariant of its turns (KahnInv), the sweep by the order Kahn gives,    *)
(* and that no case is wedged by a walk from a last fired event            *)
(* (NothingAfter).  Recursive functions are unfolded by their equations,   *)
(* which are shown to have solutions (DerivationSteps, EmittedSteps,       *)
(* InKeyOrderSteps, KahnSteps, SweepSteps).                                *)
(***************************************************************************)
EXTENDS AuditChain, NextActions, FiniteSetTheorems, SequenceTheorems, TLAPS


QueueProofs == INSTANCE SerialChainProofs WITH
    Workflows <- Orgs, MaxPasses <- MaxAppends, NoWorkflow <- NoOrg

\* Rows nest the hashes before them, so no set of rows is fixed in advance.
WellFormed ==
    /\ \E X : stored \in [Orgs -> Seq(X)]
    /\ \E X : read \in [Appends -> X]

AuditInv ==
    /\ QueueProofs!ChainInv
    /\ tampers \in Nat
    /\ tampers = 0 => WellFormed
    /\ ChainVerifies
    /\ ReadStaysCurrent

-----------------------------------------------------------------------------

\* The queue of an append is the promise chain, step by step.
LEMMA StepFollowsQueue == [Next]_vars => [QueueProofs!ChainNext]_queueVars
  <1> SUFFICES ASSUME [Next]_vars PROVE [QueueProofs!ChainNext]_queueVars
    OBVIOUS
  <1> USE DEF QueueProofs!ChainNext, QueueProofs!Passes, Appends
  <1>1. ASSUME NEW o \in Orgs, NEW b \in Bodies, RecordAudit(o, b)
        PROVE  QueueProofs!ChainNext
    BY <1>1 DEF RecordAudit, Queue!Call, QueueProofs!Call
  <1>2. ASSUME NEW n \in Appends, ReadLast(n) PROVE QueueProofs!ChainNext
    BY <1>2 DEF ReadLast, Queue!Begin, QueueProofs!Begin, Queue!Settled, QueueProofs!Settled
  <1>3. ASSUME NEW n \in Appends, Create(n) \/ AppendThrows(n) PROVE QueueProofs!ChainNext
    BY <1>3 DEF Create, AppendThrows, Queue!Settle, QueueProofs!Settle
  <1>4. CASE Restart
    BY <1>4 DEF Restart, Queue!ChainRestart, QueueProofs!ChainRestart, Queue!Passes
  <1>5. ASSUME NEW o \in Orgs, NEW i \in Appends,
               TamperDelete(o, i) \/ \E b \in Bodies : TamperEdit(o, i, b)
        PROVE  UNCHANGED queueVars
    BY <1>5 DEF TamperDelete, TamperEdit
  <1>6. CASE UNCHANGED vars
    BY <1>6 DEF vars
  <1> QED
    BY <1>1, <1>2, <1>3, <1>4, <1>5, <1>6 DEF Next

\* So every step keeps the queue's invariant.
LEMMA QueueStep ==
    ASSUME QueueProofs!ChainInv, [Next]_vars
    PROVE  QueueProofs!ChainInv'
  BY StepFollowsQueue, QueueProofs!ChainStepInv, AuditAssumption
  DEF queueVars, QueueProofs!chainVars

\* A running append belongs to an organization and is alone there.
LEMMA RunningAlone ==
    ASSUME QueueProofs!ChainInv, NEW n \in Appends, phase[n] = "running"
    PROVE  /\ wf[n] \in Orgs
           /\ \A m \in Appends : phase[m] = "running" /\ wf[m] = wf[n] => m = n
  <1>1. QueueProofs!OnePassPerWorkflow
    BY QueueProofs!ChainInvImplies, AuditAssumption
  <1>2. wf[n] \in Orgs
    BY AuditAssumption DEF QueueProofs!ChainInv, QueueProofs!ChainTypeOK,
       QueueProofs!Numbered, QueueProofs!Passes, Appends
  <1> QED
    BY <1>1, <1>2 DEF QueueProofs!OnePassPerWorkflow, QueueProofs!Passes, Appends

\* In a chain that verifies, the last row's number is its position.
LEMMA LastSeq ==
    ASSUME NEW X, NEW s \in Seq(X), Verify(s)
    PROVE  /\ LastRow(s)[1] = Len(s)
           /\ LastRow(s)[2] = IF s = <<>> THEN NoHash ELSE s[Len(s)].thisHash
  BY DEF LastRow, Verify

\* Extending a chain that verifies with the row that follows its end keeps it so.
LEMMA VerifyAppend ==
    ASSUME NEW X, NEW s \in Seq(X), Verify(s), NEW n, NEW b
    PROVE  Verify(Append(s, Row(n, LastRow(s)[2], LastRow(s)[1], b)))
  <1> DEFINE r == Row(n, LastRow(s)[2], LastRow(s)[1], b)
             t == Append(s, r)
  <1>1. /\ r.seq = Len(s)
        /\ r.prevHash = IF s = <<>> THEN NoHash ELSE s[Len(s)].thisHash
        /\ r.thisHash = Hash(r.prevHash, r.seq, r.body)
    BY LastSeq DEF Row
  <1> HIDE DEF r
  <1>2. /\ Len(t) = Len(s) + 1
        /\ \A i \in 1..Len(s) : t[i] = s[i]
        /\ t[Len(s) + 1] = r
    OBVIOUS
  <1> HIDE DEF t
  <1>3. ASSUME NEW i \in 1..Len(t)
        PROVE  /\ t[i].seq = i - 1
               /\ t[i].prevHash = IF i = 1 THEN NoHash ELSE t[i - 1].thisHash
               /\ t[i].thisHash = Hash(t[i].prevHash, t[i].seq, t[i].body)
    <2>1. CASE i = Len(s) + 1
      <3>1. s = <<>> <=> Len(s) = 0
        OBVIOUS
      <3> QED
        BY <1>1, <1>2, <2>1, <3>1
    <2>2. CASE i # Len(s) + 1
      <3>1. i \in 1..Len(s) /\ (i # 1 => i - 1 \in 1..Len(s))
        BY <1>2, <2>2
      <3> QED
        BY <1>2, <3>1 DEF Verify
    <2> QED
      BY <2>1, <2>2
  <1> QED
    BY <1>3 DEF Verify, t, r

-----------------------------------------------------------------------------

\* Empty chains verify.
LEMMA AuditInitInv == Init => AuditInv
  <1> SUFFICES ASSUME Init PROVE AuditInv
    OBVIOUS
  <1>1. QueueProofs!ChainInv
    <2>1. QueueProofs!ChainInit
      BY DEF Init, Queue!ChainInit, QueueProofs!ChainInit, Queue!Passes, QueueProofs!Passes
    <2> QED
      BY <2>1, QueueProofs!ChainInitInv, AuditAssumption
  <1>2. WellFormed
    <2>1. stored \in [Orgs -> Seq({})] /\ read \in [Appends -> {<<>>}]
      BY DEF Init
    <2> QED
      BY <2>1 DEF WellFormed
  <1>3. ChainVerifies /\ ReadStaysCurrent
    BY DEF Init, ChainVerifies, Verify, ReadStaysCurrent, Queue!ChainInit, Queue!Passes, Appends
  <1> QED
    BY <1>1, <1>2, <1>3 DEF AuditInv, Init

\* An append's turn comes: it reads the end of its chain.
LEMMA ReadLastInv ==
    ASSUME AuditInv, QueueProofs!ChainInv', NEW n \in Appends, ReadLast(n)
    PROVE  AuditInv'
  <1>1. /\ UNCHANGED <<body, stored, tampers, broken, wf>>
        /\ read' = [read EXCEPT ![n] = LastRow(stored[wf[n]])]
        /\ phase' = [phase EXCEPT ![n] = "running"]
    BY DEF ReadLast, Queue!Begin
  <1>2. tampers' = 0 => WellFormed'
    <2> SUFFICES ASSUME tampers = 0 PROVE WellFormed'
      BY <1>1
    <2>1. PICK X : read \in [Appends -> X]
      BY DEF AuditInv, WellFormed
    <2>2. read' \in [Appends -> X \cup {LastRow(stored[wf[n]])}]
      BY <1>1, <2>1
    <2> QED
      BY <1>1, <2>2 DEF AuditInv, WellFormed
  <1>3. ChainVerifies'
    BY <1>1 DEF AuditInv, ChainVerifies, Verify
  <1>4. ReadStaysCurrent'
    <2> SUFFICES ASSUME tampers = 0, NEW m \in Appends, phase'[m] = "running"
                 PROVE  read'[m] = LastRow(stored'[wf'[m]])
      BY <1>1 DEF ReadStaysCurrent
    <2>1. PICK X : read \in [Appends -> X]
      BY DEF AuditInv, WellFormed
    <2>2. CASE m = n
      BY <1>1, <2>1, <2>2
    <2>3. CASE m # n
      <3>1. phase[m] = "running"
        BY <1>1, <2>3 DEF AuditInv, QueueProofs!ChainInv, QueueProofs!ChainTypeOK,
           QueueProofs!Passes, Appends
      <3> QED
        BY <1>1, <2>1, <2>3, <3>1 DEF AuditInv, ReadStaysCurrent
    <2> QED
      BY <2>2, <2>3
  <1> QED
    BY <1>1, <1>2, <1>3, <1>4 DEF AuditInv

\* The insert extends the chain the append read, and nobody else of the
\* organization holds an outdated end.
LEMMA CreateInv ==
    ASSUME AuditInv, QueueProofs!ChainInv', NEW n \in Appends, Create(n)
    PROVE  AuditInv'
  <1> DEFINE o == wf[n]
             r == Row(n, read[n][2], read[n][1], body[n])
  <1>1. /\ UNCHANGED <<body, read, tampers, broken, wf>>
        /\ stored' = [stored EXCEPT ![o] = Append(@, r)]
        /\ phase' = [phase EXCEPT ![n] = "ok"]
        /\ phase[n] = "running"
    BY DEF Create, Queue!Settle
  <1>2. /\ wf[n] \in Orgs
        /\ \A m \in Appends : phase[m] = "running" /\ wf[m] = wf[n] => m = n
    BY <1>1, RunningAlone DEF AuditInv
  <1>3. CASE tampers = 0
    <2>1. PICK X : stored \in [Orgs -> Seq(X)]
      BY <1>3 DEF AuditInv, WellFormed
    <2>2. read[n] = LastRow(stored[o])
      BY <1>1, <1>3 DEF AuditInv, ReadStaysCurrent
    <2>3. Verify(stored[o]) /\ stored[o] \in Seq(X)
      BY <1>2, <1>3, <2>1 DEF AuditInv, ChainVerifies
    <2>4. Verify(Append(stored[o], r))
      BY <2>2, <2>3, VerifyAppend
    <2> HIDE DEF r
    <2>5. \A v \in Orgs : stored'[v] = IF v = o THEN Append(stored[o], r) ELSE stored[v]
      BY <1>1, <1>2, <2>1
    <2>6. ChainVerifies'
      <3>1. \A v \in Orgs : Verify(stored[v])
        BY <1>3 DEF AuditInv, ChainVerifies
      <3>2. \A v \in Orgs : Verify(stored'[v])
        BY <2>4, <2>5, <3>1
      <3> QED
        BY <3>2 DEF ChainVerifies, Verify
    <2>7. stored' \in [Orgs -> Seq(X \cup {r})]
      <3>1. \A v \in Orgs : stored[v] \in Seq(X \cup {r})
        BY <2>1
      <3>2. Append(stored[o], r) \in Seq(X \cup {r})
        BY <1>2, <3>1
      <3> QED
        BY <1>1, <1>2, <2>1, <3>1, <3>2
    <2>8. WellFormed'
      BY <1>1, <1>3, <2>7 DEF AuditInv, WellFormed
    <2>9. ReadStaysCurrent'
      <3> SUFFICES ASSUME NEW m \in Appends, phase'[m] = "running"
                   PROVE  read'[m] = LastRow(stored'[wf'[m]])
        BY DEF ReadStaysCurrent
      <3>1. m # n /\ phase[m] = "running"
        BY <1>1 DEF AuditInv, QueueProofs!ChainInv, QueueProofs!ChainTypeOK,
           QueueProofs!Passes, Appends
      <3>2. wf[m] \in Orgs /\ wf[m] # o
        BY <1>2, <3>1, RunningAlone DEF AuditInv
      <3> QED
        BY <1>1, <1>3, <2>5, <3>1, <3>2 DEF AuditInv, ReadStaysCurrent
    <2> QED
      BY <1>1, <2>6, <2>8, <2>9 DEF AuditInv
  <1>4. CASE tampers # 0
    BY <1>1, <1>4 DEF AuditInv, ChainVerifies, ReadStaysCurrent
  <1> QED
    BY <1>3, <1>4

\* Queueing, failing and restarting leave the chains and what was read alone.
LEMMA QuietInv ==
    ASSUME AuditInv, QueueProofs!ChainInv', UNCHANGED <<read, stored, tampers>>,
           \A n \in Appends : phase'[n] = "running" => phase[n] = "running" /\ wf'[n] = wf[n]
    PROVE  AuditInv'
  BY DEF AuditInv, WellFormed, ChainVerifies, ReadStaysCurrent, Verify

\* Every step preserves the invariant.
LEMMA AuditStepInv == AuditInv /\ [Next]_vars => AuditInv'
  <1> SUFFICES ASSUME AuditInv, [Next]_vars PROVE AuditInv'
    OBVIOUS
  <1>1. QueueProofs!ChainInv'
    BY QueueStep DEF AuditInv
  <1>2. ASSUME NEW o \in Orgs, NEW b \in Bodies, RecordAudit(o, b) PROVE AuditInv'
    <2>1. \A n \in Appends : phase'[n] = "running" => phase[n] = "running" /\ wf'[n] = wf[n]
      BY <1>2 DEF RecordAudit, Queue!Call, AuditInv, QueueProofs!ChainInv,
         QueueProofs!ChainTypeOK, QueueProofs!Passes, Appends
    <2> QED
      BY <1>1, <1>2, <2>1, QuietInv DEF RecordAudit
  <1>3. ASSUME NEW n \in Appends, AppendThrows(n) PROVE AuditInv'
    <2>1. \A m \in Appends : phase'[m] = "running" => phase[m] = "running" /\ wf'[m] = wf[m]
      BY <1>3 DEF AppendThrows, Queue!Settle, AuditInv, QueueProofs!ChainInv,
         QueueProofs!ChainTypeOK, QueueProofs!Passes, Appends
    <2> QED
      BY <1>1, <1>3, <2>1, QuietInv DEF AppendThrows
  <1>4. CASE Restart
    BY <1>1, <1>4, QuietInv DEF Restart, Queue!ChainRestart, Queue!Passes, Appends
  <1>5. ASSUME NEW o \in Orgs, NEW i \in Appends,
               TamperDelete(o, i) \/ \E b \in Bodies : TamperEdit(o, i, b)
        PROVE  AuditInv'
    <2>1. tampers' = tampers + 1 /\ tampers' \in Nat /\ tampers' # 0
      BY <1>5 DEF TamperDelete, TamperEdit, AuditInv
    <2> QED
      BY <1>1, <2>1 DEF AuditInv, ChainVerifies, ReadStaysCurrent
  <1>6. CASE UNCHANGED vars
    BY <1>1, <1>6, QuietInv DEF vars, queueVars
  <1> QED
    BY <1>1, <1>2, <1>3, <1>4, <1>5, <1>6, ReadLastInv, CreateInv DEF Next

\* The application alone never breaks an audit chain.
THEOREM AuditChainVerifies == Spec => []ChainVerifies
  <1>1. AuditInv => ChainVerifies
    BY DEF AuditInv
  <1> QED
    BY <1>1, AuditInitInv, AuditStepInv, PTL DEF Spec

\* No entry is lost to a race: the end an append read is still the end when it
\* inserts.
THEOREM AuditReadStaysCurrent == Spec => []ReadStaysCurrent
  <1>1. AuditInv => ReadStaysCurrent
    BY DEF AuditInv
  <1> QED
    BY <1>1, AuditInitInv, AuditStepInv, PTL DEF Spec

-----------------------------------------------------------------------------
(* The order of the entries, whatever is done behind the application's     *)
(* back.                                                                   *)

\* Rows whose fields, but for the append that wrote them, are in X.
RowsOver(X) == [seq : X, prevHash : X, body : X, thisHash : X, by : Appends]

\* Rows were written by appends of the organization that have gone through, and are in
\* the order of these.
WrittenBy(n, o) == n \in Appends /\ wf[n] = o /\ phase[n] = "ok"

AllWritten == \A o \in Orgs : \A i \in 1..Len(stored[o]) : WrittenBy(stored[o][i].by, o)

OrderInv ==
    /\ QueueProofs!ChainInv
    /\ \E X : stored \in [Orgs -> Seq(RowsOver(X))]
    /\ AllWritten
    /\ EntriesInCallOrder

\* A wider set of field values.
LEMMA RowsWiden ==
    ASSUME NEW X, NEW Y, X \subseteq Y, stored \in [Orgs -> Seq(RowsOver(X))]
    PROVE  stored \in [Orgs -> Seq(RowsOver(Y))]
  <1>1. RowsOver(X) \subseteq RowsOver(Y)
    BY DEF RowsOver
  <1> QED
    BY <1>1

\* A chain replaced by another.
LEMMA ChainReplaced ==
    ASSUME NEW S, stored \in [Orgs -> Seq(S)], NEW o \in Orgs, NEW s \in Seq(S),
           stored' = [stored EXCEPT ![o] = s]
    PROVE  /\ stored' \in [Orgs -> Seq(S)]
           /\ \A p \in Orgs : stored'[p] = IF p = o THEN s ELSE stored[p]
  OBVIOUS

\* A row put in the place of another.
LEMMA RowReplaced ==
    ASSUME NEW S, NEW s \in Seq(S), NEW i \in 1..Len(s), NEW r \in S
    PROVE  LET t == [s EXCEPT ![i] = r]
           IN  /\ t \in Seq(S)
               /\ Len(t) = Len(s)
               /\ \A k \in 1..Len(s) : t[k] = IF k = i THEN r ELSE s[k]
  BY ExceptSeq

\* Leaving out a row.
LEMMA WithoutOne ==
    ASSUME NEW S, NEW s \in Seq(S), NEW i \in 1..Len(s)
    PROVE  LET t == SubSeq(s, 1, i - 1) \o SubSeq(s, i + 1, Len(s))
           IN  /\ t \in Seq(S)
               /\ Len(t) = Len(s) - 1
               /\ \A k \in 1..Len(t) : t[k] = IF k < i THEN s[k] ELSE s[k + 1]
  <1> DEFINE u == SubSeq(s, 1, i - 1)
             v == SubSeq(s, i + 1, Len(s))
  <1>0. Len(s) \in Nat /\ i \in Int /\ \A k \in 1..Len(s) : s[k] \in S
    OBVIOUS
  <1>1. u \in Seq(S) /\ Len(u) = i - 1 /\ \A k \in 1..(i - 1) : u[k] = s[k]
    BY <1>0, SubSeqProperties
  <1>2. v \in Seq(S) /\ Len(v) = Len(s) - i /\ \A k \in 1..(Len(s) - i) : v[k] = s[i + k]
    BY <1>0, SubSeqProperties
  <1> HIDE DEF u, v
  <1>3. /\ u \o v \in Seq(S)
        /\ Len(u \o v) = Len(u) + Len(v)
        /\ \A k \in 1..(Len(u) + Len(v)) : (u \o v)[k] = IF k <= Len(u) THEN u[k] ELSE v[k - Len(u)]
    BY <1>1, <1>2, ConcatProperties
  <1>4. Len(u \o v) = Len(s) - 1
    BY <1>0, <1>1, <1>2, <1>3
  <1>5. \A k \in 1..Len(u \o v) : (u \o v)[k] = IF k < i THEN s[k] ELSE s[k + 1]
    <2> SUFFICES ASSUME NEW k \in 1..Len(u \o v)
                 PROVE  (u \o v)[k] = IF k < i THEN s[k] ELSE s[k + 1]
      OBVIOUS
    <2>1. CASE k < i
      BY <1>0, <1>1, <1>3, <1>4, <2>1
    <2>2. CASE ~(k < i)
      <3>1. k - (i - 1) \in 1..(Len(s) - i) /\ i + (k - (i - 1)) = k + 1
        BY <1>0, <1>4, <2>2
      <3> QED
        BY <1>0, <1>1, <1>2, <1>3, <1>4, <2>2, <3>1
    <2> QED
      BY <2>1, <2>2
  <1> QED
    BY <1>3, <1>4, <1>5 DEF u, v

\* Steps of the queue leave what has gone through.
LEMMA QuietOrder ==
    ASSUME OrderInv, QueueProofs!ChainInv', UNCHANGED stored,
           \A n \in Appends : phase[n] = "ok" => phase'[n] = "ok" /\ wf'[n] = wf[n]
    PROVE  OrderInv'
  BY DEF OrderInv, AllWritten, WrittenBy, EntriesInCallOrder

\* An append inserts after all earlier ones of its organization, and before any later.
LEMMA CreateOrder ==
    ASSUME OrderInv, QueueProofs!ChainInv', NEW n \in Appends, Create(n)
    PROVE  OrderInv'
  <1> DEFINE o == wf[n]
             r == Row(n, read[n][2], read[n][1], body[n])
             more == {r.seq, r.prevHash, r.body, r.thisHash}
  <1>1. /\ stored' = [stored EXCEPT ![o] = Append(@, r)] /\ wf' = wf
        /\ phase' = [phase EXCEPT ![n] = "ok"] /\ phase[n] = "running"
    BY DEF Create, Queue!Settle
  <1>2. o \in Orgs
    BY <1>1, RunningAlone DEF OrderInv
  <1>3. PICK X : stored \in [Orgs -> Seq(RowsOver(X))]
    BY DEF OrderInv
  <1>4. stored \in [Orgs -> Seq(RowsOver(X \cup more))]
    BY <1>3, RowsWiden
  <1>5. r \in RowsOver(X \cup more) /\ r.by = n
    BY DEF Row, RowsOver
  <1> HIDE DEF r, more
  <1>6. stored' \in [Orgs -> Seq(RowsOver(X \cup more))]
    <2>1. stored[o] \in Seq(RowsOver(X \cup more))
      BY <1>2, <1>4
    <2>2. Append(stored[o], r) \in Seq(RowsOver(X \cup more))
      BY <1>5, <2>1, AppendProperties
    <2>3. stored' = [stored EXCEPT ![o] = Append(stored[o], r)]
      BY <1>1
    <2> QED
      BY <1>2, <1>4, <2>2, <2>3, ChainReplaced
  <1>7. /\ \A p \in Orgs \ {o} : stored'[p] = stored[p]
        /\ Len(stored'[o]) = Len(stored[o]) + 1
        /\ \A i \in 1..Len(stored[o]) : stored'[o][i] = stored[o][i]
        /\ stored'[o][Len(stored[o]) + 1] = r
        /\ Len(stored[o]) \in Nat
    BY <1>1, <1>2, <1>4
  <1>8. phase \in [Appends -> QueueProofs!Phases]
    BY DEF OrderInv, QueueProofs!ChainInv, QueueProofs!ChainTypeOK, QueueProofs!Passes, Appends
  <1>9. \A m \in Appends : WrittenBy(m, o) => m < n
    <2> SUFFICES ASSUME NEW m \in Appends, WrittenBy(m, o), n < m PROVE FALSE
      BY <1>1, AuditAssumption DEF WrittenBy, Appends
    <2>1. QueueProofs!Settled(n)
      BY DEF OrderInv, WrittenBy, QueueProofs!ChainInv, QueueProofs!Ordered,
         QueueProofs!Passes, Appends
    <2> QED
      BY <1>1, <2>1 DEF QueueProofs!Settled
  <1>10. \A m \in Appends, p \in Orgs : WrittenBy(m, p) => wf'[m] = p /\ phase'[m] = "ok"
    BY <1>1, <1>8 DEF WrittenBy
  <1>11. wf'[n] = o /\ phase'[n] = "ok"
    BY <1>1, <1>8
  <1>12. AllWritten'
    <2> SUFFICES ASSUME NEW p \in Orgs, NEW i \in 1..Len(stored'[p])
                 PROVE  LET m == stored'[p][i].by
                        IN  m \in Appends /\ wf'[m] = p /\ phase'[m] = "ok"
      BY DEF AllWritten, WrittenBy
    <2>1. CASE p # o \/ i # Len(stored[o]) + 1
      <3>1. i \in 1..Len(stored[p]) /\ stored'[p][i] = stored[p][i]
        BY <1>7, <2>1
      <3>2. WrittenBy(stored[p][i].by, p) /\ stored[p][i].by \in Appends
        BY <3>1 DEF OrderInv, AllWritten, WrittenBy
      <3> QED
        BY <1>10, <3>1, <3>2
    <2>2. CASE p = o /\ i = Len(stored[o]) + 1
      BY <1>5, <1>7, <1>11, <2>2
    <2> QED
      BY <2>1, <2>2
  <1>13. EntriesInCallOrder'
    <2> SUFFICES ASSUME NEW p \in Orgs, NEW i \in 1..Len(stored'[p]), NEW j \in 1..Len(stored'[p]),
                        i < j
                 PROVE  stored'[p][i].by < stored'[p][j].by
      BY DEF EntriesInCallOrder
    <2>1. CASE p # o \/ j # Len(stored[o]) + 1
      <3>1. /\ i \in 1..Len(stored[p]) /\ j \in 1..Len(stored[p])
            /\ stored'[p][i] = stored[p][i] /\ stored'[p][j] = stored[p][j]
        <4>1. CASE p # o
          BY <1>7, <4>1
        <4>2. CASE p = o
          <5>1. i \in 1..Len(stored[o]) /\ j \in 1..Len(stored[o])
            BY <1>7, <2>1, <4>2
          <5> QED
            BY <1>7, <4>2, <5>1
        <4> QED
          BY <4>1, <4>2
      <3> QED
        BY <3>1 DEF OrderInv, EntriesInCallOrder
    <2>2. CASE p = o /\ j = Len(stored[o]) + 1
      <3>1. i \in 1..Len(stored[o])
        BY <1>7, <2>2
      <3>2. WrittenBy(stored[o][i].by, o) /\ stored[o][i].by \in Appends
        BY <1>2, <3>1 DEF OrderInv, AllWritten, WrittenBy
      <3> QED
        BY <1>5, <1>7, <1>9, <2>2, <3>1, <3>2
    <2> QED
      BY <2>1, <2>2
  <1> QED
    BY <1>6, <1>12, <1>13 DEF OrderInv

\* An edit leaves every row at its place.
LEMMA EditOrder ==
    ASSUME OrderInv, QueueProofs!ChainInv', NEW o \in Orgs, NEW i \in Appends, NEW b \in Bodies,
           TamperEdit(o, i, b)
    PROVE  OrderInv'
  <1> DEFINE r == [stored[o][i] EXCEPT !.body = b]
             t == [stored[o] EXCEPT ![i] = r]
  <1>1. i \in 1..Len(stored[o]) /\ wf' = wf /\ phase' = phase
    BY DEF TamperEdit, queueVars
  <1>2. stored' = [stored EXCEPT ![o] = t]
    BY DEF TamperEdit
  <1>3. PICK X : stored \in [Orgs -> Seq(RowsOver(X))]
    BY DEF OrderInv
  <1> DEFINE R == RowsOver(X \cup {b})
  <1>4. stored \in [Orgs -> Seq(R)]
    BY <1>3, RowsWiden
  <1>5. stored[o] \in Seq(R)
    BY <1>4
  <1>6. stored[o][i] \in R
    BY <1>1, <1>5, ElementOfSeq
  <1>7. r \in R /\ r.by = stored[o][i].by
    BY <1>6 DEF RowsOver
  <1> HIDE DEF r, R
  <1>8. /\ t \in Seq(R) /\ Len(t) = Len(stored[o])
        /\ \A k \in 1..Len(stored[o]) : t[k] = IF k = i THEN r ELSE stored[o][k]
    BY <1>1, <1>5, <1>7, RowReplaced
  <1> HIDE DEF t
  <1>9. /\ stored' \in [Orgs -> Seq(R)]
        /\ \A p \in Orgs : stored'[p] = IF p = o THEN t ELSE stored[p]
    BY <1>2, <1>4, <1>8, ChainReplaced
  <1>10. \A p \in Orgs : /\ Len(stored'[p]) = Len(stored[p])
                         /\ \A k \in 1..Len(stored[p]) : stored'[p][k].by = stored[p][k].by
    BY <1>7, <1>8, <1>9
  <1>11. \E Y : stored' \in [Orgs -> Seq(RowsOver(Y))]
    BY <1>9 DEF R
  <1>12. AllWritten'
    BY <1>1, <1>10 DEF OrderInv, AllWritten, WrittenBy
  <1>13. EntriesInCallOrder'
    BY <1>10 DEF OrderInv, EntriesInCallOrder
  <1> QED
    BY <1>11, <1>12, <1>13 DEF OrderInv

\* A deletion leaves the others in their order.
LEMMA DeleteOrder ==
    ASSUME OrderInv, QueueProofs!ChainInv', NEW o \in Orgs, NEW i \in Appends, TamperDelete(o, i)
    PROVE  OrderInv'
  <1> DEFINE t == SubSeq(stored[o], 1, i - 1) \o SubSeq(stored[o], i + 1, Len(stored[o]))
  <1>1. /\ i \in 1..Len(stored[o]) /\ wf' = wf /\ phase' = phase
        /\ stored' = [stored EXCEPT ![o] = t]
    BY DEF TamperDelete, queueVars
  <1>2. PICK X : stored \in [Orgs -> Seq(RowsOver(X))]
    BY DEF OrderInv
  <1>3. /\ t \in Seq(RowsOver(X)) /\ Len(t) = Len(stored[o]) - 1
        /\ \A k \in 1..Len(t) : t[k] = IF k < i THEN stored[o][k] ELSE stored[o][k + 1]
    BY <1>1, <1>2, WithoutOne
  <1> HIDE DEF t
  <1>4. stored' \in [Orgs -> Seq(RowsOver(X))]
    BY <1>1, <1>2, <1>3
  <1>5. \A p \in Orgs : stored'[p] = IF p = o THEN t ELSE stored[p]
    BY <1>1, <1>2
  <1>6. Len(stored[o]) \in Nat
    BY <1>2
  <1>7. \A k \in 1..Len(t) : \E m \in 1..Len(stored[o]) :
            t[k] = stored[o][m] /\ m = IF k < i THEN k ELSE k + 1
    BY <1>1, <1>3, <1>6
  <1>8. AllWritten'
    <2> SUFFICES ASSUME NEW p \in Orgs, NEW k \in 1..Len(stored'[p])
                 PROVE  WrittenBy(stored'[p][k].by, p)
      BY <1>1 DEF AllWritten, WrittenBy
    <2>1. \E m \in 1..Len(stored[p]) : stored'[p][k] = stored[p][m]
      BY <1>5, <1>7
    <2> QED
      BY <2>1 DEF OrderInv, AllWritten
  <1>9. EntriesInCallOrder'
    <2> SUFFICES ASSUME NEW p \in Orgs, NEW j \in 1..Len(stored'[p]), NEW k \in 1..Len(stored'[p]),
                        j < k
                 PROVE  stored'[p][j].by < stored'[p][k].by
      BY DEF EntriesInCallOrder
    <2>1. \E l, m \in 1..Len(stored[p]) :
              l < m /\ stored'[p][j] = stored[p][l] /\ stored'[p][k] = stored[p][m]
      <3>1. CASE p = o
        <4>1. PICK l \in 1..Len(stored[o]) : t[j] = stored[o][l] /\ l = IF j < i THEN j ELSE j + 1
          BY <1>5, <1>7, <3>1
        <4>2. PICK m \in 1..Len(stored[o]) : t[k] = stored[o][m] /\ m = IF k < i THEN k ELSE k + 1
          BY <1>5, <1>7, <3>1
        <4>3. j \in Int /\ k \in Int /\ i \in Int
          BY <1>1, <1>5, <1>6, <3>1 DEF Appends
        <4>4. l < m
          BY <4>1, <4>2, <4>3
        <4> QED
          BY <1>5, <3>1, <4>1, <4>2, <4>4
      <3>2. CASE p # o
        BY <1>5, <3>2
      <3> QED
        BY <3>1, <3>2
    <2> QED
      BY <2>1 DEF OrderInv, EntriesInCallOrder
  <1> QED
    BY <1>4, <1>8, <1>9 DEF OrderInv

LEMMA OrderStep == OrderInv /\ [Next]_vars => OrderInv'
  <1> SUFFICES ASSUME OrderInv, [Next]_vars PROVE OrderInv'
    OBVIOUS
  <1>0. /\ phase \in [Appends -> QueueProofs!Phases]
        /\ \A n \in Appends : n > ncalls <=> phase[n] = "none"
        /\ ncalls \in Nat
    BY AuditAssumption DEF OrderInv, QueueProofs!ChainInv, QueueProofs!ChainTypeOK,
       QueueProofs!Numbered, QueueProofs!Passes, Appends
  <1>1. QueueProofs!ChainInv'
    BY QueueStep DEF OrderInv
  <1>2. ASSUME NEW o \in Orgs, NEW b \in Bodies, RecordAudit(o, b) PROVE OrderInv'
    <2>1. \A n \in Appends : phase[n] = "ok" => n # ncalls + 1
      BY <1>0
    <2>2. /\ wf' = [wf EXCEPT ![ncalls + 1] = o] /\ UNCHANGED stored
          /\ phase' = [phase EXCEPT ![ncalls + 1] = "waiting"]
      BY <1>2 DEF RecordAudit, Queue!Call
    <2>3. wf \in [Appends -> Orgs \cup {NoOrg}]
      BY DEF OrderInv, QueueProofs!ChainInv, QueueProofs!ChainTypeOK, QueueProofs!Passes, Appends
    <2> QED
      BY <1>0, <1>1, <2>1, <2>2, <2>3, QuietOrder
  <1>3. ASSUME NEW n \in Appends, ReadLast(n) \/ AppendThrows(n) PROVE OrderInv'
    BY <1>0, <1>1, <1>3, QuietOrder DEF ReadLast, AppendThrows, Queue!Begin, Queue!Settle
  <1>4. CASE Restart
    BY <1>0, <1>1, <1>4, QuietOrder DEF Restart, Queue!ChainRestart, Queue!Passes, Appends
  <1>5. CASE UNCHANGED vars
    BY <1>1, <1>5, QuietOrder DEF vars, queueVars
  <1> QED
    BY <1>1, <1>2, <1>3, <1>4, <1>5, CreateOrder, EditOrder, DeleteOrder DEF Next

LEMMA AuditOrderInit == Init => OrderInv
  <1> SUFFICES ASSUME Init PROVE OrderInv
    OBVIOUS
  <1>1. QueueProofs!ChainInv
    BY AuditInitInv DEF AuditInv
  <1>2. stored \in [Orgs -> Seq(RowsOver({}))] /\ \A o \in Orgs : Len(stored[o]) = 0
    BY DEF Init
  <1> QED
    BY <1>1, <1>2 DEF OrderInv, AllWritten, EntriesInCallOrder

\* The entries are in the order of the calls, also in a chain somebody has edited.
THEOREM AuditCallOrder == Spec => []EntriesInCallOrder
  <1>1. OrderInv => EntriesInCallOrder
    BY DEF OrderInv
  <1> QED
    BY <1>1, AuditOrderInit, OrderStep, PTL DEF Spec

-----------------------------------------------------------------------------
(* What one edit or deletion leaves behind.                                *)

\* A row at the wrong place, or one that is not what was hashed; rows that are
\* appended do not change that.
Scarred(chain) ==
    \E i \in 1..Len(chain) :
        \/ chain[i].seq # i - 1
        \/ chain[i].thisHash # Hash(chain[i].prevHash, chain[i].seq, chain[i].body)

VisibleInv ==
    /\ AuditInv
    /\ OrderInv
    /\ broken \in [Orgs -> BOOLEAN]
    /\ \A o \in Orgs : broken[o] => tampers # 0 /\ Scarred(stored[o])

\* An appended row leaves the scar.
LEMMA ScarStays ==
    ASSUME NEW S, NEW s \in Seq(S), NEW r, Scarred(s)
    PROVE  Scarred(Append(s, r))
  <1>1. PICK i \in 1..Len(s) :
            \/ s[i].seq # i - 1
            \/ s[i].thisHash # Hash(s[i].prevHash, s[i].seq, s[i].body)
    BY DEF Scarred
  <1>2. s \in Seq(S \cup {r}) /\ r \in S \cup {r} /\ Len(s) \in Nat
    BY LenProperties
  <1>3. /\ Len(Append(s, r)) = Len(s) + 1
        /\ Append(s, r)[i] = s[i]
    BY <1>1, <1>2, AppendProperties
  <1>4. i \in 1..Len(Append(s, r))
    BY <1>1, <1>2, <1>3
  <1> QED
    BY <1>1, <1>3, <1>4 DEF Scarred

\* The first edit of a chain that verifies leaves a row its hash does not cover.
LEMMA EditScars ==
    ASSUME VisibleInv, tampers = 0, NEW o \in Orgs, NEW i \in Appends, NEW b \in Bodies,
           TamperEdit(o, i, b)
    PROVE  Scarred(stored'[o]) /\ broken' = [broken EXCEPT ![o] = TRUE]
                               /\ \A p \in Orgs \ {o} : stored'[p] = stored[p]
  <1> DEFINE r == [stored[o][i] EXCEPT !.body = b]
             t == [stored[o] EXCEPT ![i] = r]
  <1>1. /\ i \in 1..Len(stored[o]) /\ b # stored[o][i].body
        /\ stored' = [stored EXCEPT ![o] = t] /\ broken' = [broken EXCEPT ![o] = TRUE]
    BY DEF TamperEdit
  <1>2. PICK X : stored \in [Orgs -> Seq(RowsOver(X))]
    BY DEF VisibleInv, OrderInv
  <1>3. stored[o] \in Seq(RowsOver(X)) /\ stored[o][i] \in RowsOver(X)
    BY <1>1, <1>2, ElementOfSeq
  <1>4. /\ r.seq = stored[o][i].seq /\ r.prevHash = stored[o][i].prevHash
        /\ r.thisHash = stored[o][i].thisHash /\ r.body = b
    BY <1>3 DEF RowsOver
  <1>5. stored[o][i].thisHash
            = Hash(stored[o][i].prevHash, stored[o][i].seq, stored[o][i].body)
    BY <1>1 DEF VisibleInv, AuditInv, ChainVerifies, Verify
  <1>6. r.thisHash # Hash(r.prevHash, r.seq, r.body)
    BY <1>1, <1>4, <1>5 DEF Hash
  <1> HIDE DEF r
  <1>7. Len(t) = Len(stored[o]) /\ t[i] = r
    BY <1>1, <1>3
  <1>8. Scarred(t)
    BY <1>1, <1>6, <1>7 DEF Scarred
  <1> QED
    BY <1>1, <1>2, <1>8

\* The first deletion of a row that is not the last leaves the row behind it at a
\* place that is not its number.
LEMMA DeleteScars ==
    ASSUME VisibleInv, tampers = 0, NEW o \in Orgs, NEW i \in Appends, TamperDelete(o, i)
    PROVE  /\ broken' = [broken EXCEPT ![o] = @ \/ i < Len(stored[o])]
           /\ i < Len(stored[o]) => Scarred(stored'[o])
           /\ \A p \in Orgs \ {o} : stored'[p] = stored[p]
  <1> DEFINE t == SubSeq(stored[o], 1, i - 1) \o SubSeq(stored[o], i + 1, Len(stored[o]))
  <1>1. /\ i \in 1..Len(stored[o]) /\ stored' = [stored EXCEPT ![o] = t]
        /\ broken' = [broken EXCEPT ![o] = @ \/ i < Len(stored[o])]
    BY DEF TamperDelete
  <1>2. PICK X : stored \in [Orgs -> Seq(RowsOver(X))]
    BY DEF VisibleInv, OrderInv
  <1>3. /\ Len(t) = Len(stored[o]) - 1
        /\ \A k \in 1..Len(t) : t[k] = IF k < i THEN stored[o][k] ELSE stored[o][k + 1]
    BY <1>1, <1>2, WithoutOne
  <1> HIDE DEF t
  <1>4. stored'[o] = t /\ \A p \in Orgs \ {o} : stored'[p] = stored[p]
    BY <1>1, <1>2
  <1>5. ASSUME i < Len(stored[o]) PROVE Scarred(t)
    <2>1. Len(stored[o]) \in Nat
      BY <1>2
    <2>2. i \in 1..Len(t) /\ i + 1 \in 1..Len(stored[o]) /\ i \in Nat /\ ~(i < i)
      BY <1>1, <1>3, <1>5, <2>1
    <2>3. t[i] = stored[o][i + 1]
      BY <1>3, <2>2
    <2>4. \A k \in 1..Len(stored[o]) : stored[o][k].seq = k - 1
      BY DEF VisibleInv, AuditInv, ChainVerifies, Verify
    <2>5. stored[o][i + 1].seq = i + 1 - 1
      BY <2>2, <2>4
    <2>6. t[i].seq # i - 1
      BY <2>2, <2>3, <2>5
    <2> QED
      BY <2>2, <2>6 DEF Scarred
  <1> QED
    BY <1>1, <1>4, <1>5

LEMMA VisibleStep ==
    ASSUME MaxTampers \in {0, 1}, VisibleInv, [Next]_vars
    PROVE  VisibleInv'
  <1>1. AuditInv' /\ OrderInv'
    BY AuditStepInv, OrderStep DEF VisibleInv
  <1>2. PICK X : stored \in [Orgs -> Seq(RowsOver(X))]
    BY DEF VisibleInv, OrderInv
  <1>3. tampers \in Nat
    BY DEF VisibleInv, AuditInv
  <1>4. ASSUME NEW o \in Orgs, NEW i \in Appends, NEW b \in Bodies, TamperEdit(o, i, b)
        PROVE  VisibleInv'
    <2>1. tampers = 0 /\ tampers' # 0
      BY <1>3, <1>4 DEF TamperEdit
    <2>2. /\ Scarred(stored'[o]) /\ broken' = [broken EXCEPT ![o] = TRUE]
          /\ \A p \in Orgs \ {o} : stored'[p] = stored[p]
      BY <1>4, <2>1, EditScars
    <2>3. \A p \in Orgs : broken'[p] => p = o
      BY <2>1, <2>2 DEF VisibleInv
    <2> QED
      BY <1>1, <2>1, <2>2, <2>3 DEF VisibleInv
  <1>5. ASSUME NEW o \in Orgs, NEW i \in Appends, TamperDelete(o, i)
        PROVE  VisibleInv'
    <2>1. tampers = 0 /\ tampers' # 0
      BY <1>3, <1>5 DEF TamperDelete
    <2>2. /\ broken' = [broken EXCEPT ![o] = @ \/ i < Len(stored[o])]
          /\ i < Len(stored[o]) => Scarred(stored'[o])
      BY <1>5, <2>1, DeleteScars
    <2>3. \A p \in Orgs : broken'[p] => p = o /\ i < Len(stored[o])
      BY <2>1, <2>2 DEF VisibleInv
    <2>4. broken' \in [Orgs -> BOOLEAN]
      BY <2>2 DEF VisibleInv
    <2> QED
      BY <1>1, <2>1, <2>2, <2>3, <2>4 DEF VisibleInv
  <1>6. ASSUME NEW n \in Appends, Create(n) PROVE VisibleInv'
    <2>1. UNCHANGED <<tampers, broken>>
      BY <1>6 DEF Create
    <2>2. PICK r : stored' = [stored EXCEPT ![wf[n]] = Append(stored[wf[n]], r)]
      BY <1>6 DEF Create
    <2>3. \A p \in Orgs : stored[p] \in Seq(RowsOver(X))
      BY <1>2
    <2>4. \A p \in Orgs : stored'[p] \in {stored[p], Append(stored[p], r)}
      BY <1>2, <2>2
    <2>5. \A p \in Orgs : Scarred(stored[p]) => Scarred(stored'[p])
      BY <2>3, <2>4, ScarStays
    <2> QED
      BY <1>1, <2>1, <2>5 DEF VisibleInv
  <1>7. ASSUME UNCHANGED <<stored, tampers, broken>> PROVE VisibleInv'
    BY <1>1, <1>7 DEF VisibleInv
  <1> QED
    BY <1>4, <1>5, <1>6, <1>7 DEF Next, vars, RecordAudit, ReadLast, AppendThrows, Restart

\* One edit of an entry, or the loss of one that was not the last, is found by
\* verifyAuditChain ever after.  (A second edit could undo the first, so nothing
\* holds of any number of them.)
THEOREM AuditTamperingVisible == ASSUME MaxTampers \in {0, 1} PROVE Spec => []TamperingStaysVisible
  <1>1. Init => VisibleInv
    <2> SUFFICES ASSUME Init PROVE VisibleInv
      OBVIOUS
    <2>1. AuditInv /\ broken = [o \in Orgs |-> FALSE]
      BY AuditInitInv DEF Init
    <2>2. OrderInv
      BY AuditOrderInit
    <2> QED
      BY <2>1, <2>2 DEF VisibleInv
  <1>2. VisibleInv /\ [Next]_vars => VisibleInv'
    BY VisibleStep
  <1>3. VisibleInv => TamperingStaysVisible
    BY DEF VisibleInv, Scarred, TamperingStaysVisible, Verify
  <1> QED
    BY <1>1, <1>2, <1>3, PTL DEF Spec

-----------------------------------------------------------------------------
\* A set of numbers has a least one.
LEMMA LeastNat ==
    ASSUME NEW T \in SUBSET Nat, T # {}
    PROVE  \E x \in T : \A y \in T : x <= y
<1>1. PICK R : R = OpToRel(<, Nat) OBVIOUS
<1>2. IsWellFoundedOn(R, Nat) BY <1>1, NatLessThanWellFounded
<1>3. \A x, y \in Nat : x < y => <<x, y>> \in R BY <1>1 DEF OpToRel
<1>4. PICK x \in T : \A y \in T : ~ (<<y, x>> \in R) BY <1>2, WFMin
<1>5. \A y \in T : ~(y < x) BY <1>3, <1>4
<1>6. \A y \in T : x <= y BY <1>5
<1> QED BY <1>6

\* Induction: a set that holds 0 and, with a number below n, the next, holds all up to n.
LEMMA SetInduction ==
    ASSUME NEW n \in Nat, NEW T, 0 \in T, \A k \in 0..(n - 1) : k \in T => k + 1 \in T
    PROVE  \A k \in 0..n : k \in T
<1> SUFFICES ASSUME NEW k \in 0..n, k \notin T PROVE FALSE
    OBVIOUS
<1> DEFINE Bad == {j \in 0..n : j \notin T}
<1>1. Bad \in SUBSET Nat /\ Bad # {} OBVIOUS
<1>2. PICK j \in Bad : \A m \in Bad : j <= m BY <1>1, LeastNat
<1>3. j # 0 /\ j - 1 \in 0..(n - 1) /\ j - 1 \notin Bad BY <1>2
<1>4. j - 1 \in T /\ (j - 1) + 1 = j BY <1>3
<1> QED BY <1>2, <1>3, <1>4

\* What a pass starts from: the log it read, an empty batch.
Begun(snap, lg) == [seen |-> {<<lg[k].ev, lg[k].id>> : k \in DOMAIN lg}, caseOf |-> CaseOf(lg),
                  stored |-> snap, opens |-> {}, batch |-> <<>>]

\* The recursion in Derivation has a solution.
LEMMA DerivationSteps ==
    ASSUME NEW snap, NEW lg
    PROVE  LET d == Derivation(snap, lg)
           IN  /\ d[0] = Begun(snap, lg)
               /\ \A k \in 1..Len(Plan) :
                      d[k] = IF Plan[k] \in snap THEN PlanEvent(d[k - 1], Plan[k]) ELSE d[k - 1]
<1> DEFINE n == Len(Plan)
           E(f, k) == IF k = 0 THEN Begun(snap, lg)
                      ELSE IF Plan[k] \in snap THEN PlanEvent(f[k - 1], Plan[k]) ELSE f[k - 1]
           T == {m \in 0..n : \E f : f = [k \in 0..m |-> E(f, k)]}
<1>1. n \in Nat BY CasesAssumption, LenProperties
<1>2. 0 \in T
  <2>1. \E f : f = [k \in 0..0 |-> E(f, k)]
    <3> DEFINE g == [k \in 0..0 |-> Begun(snap, lg)]
    <3>1. g = [k \in 0..0 |-> E(g, k)] OBVIOUS
    <3> HIDE DEF g
    <3> WITNESS g
    <3> QED BY <3>1
  <2> QED BY <1>1, <2>1
<1>3. ASSUME NEW m \in 0..(n - 1), m \in T PROVE m + 1 \in T
  <2>1. PICK f : f = [k \in 0..m |-> E(f, k)] BY <1>3
  <2> DEFINE g == [k \in 0..(m + 1) |-> IF k = m + 1 THEN E(f, k) ELSE f[k]]
  <2>2. \A k \in 0..m : g[k] = f[k] BY <1>1, <1>3
  <2>3. \A k \in 0..(m + 1) : g[k] = E(g, k)
    <3> SUFFICES ASSUME NEW k \in 0..(m + 1) PROVE g[k] = E(g, k) OBVIOUS
    <3>0. g[k] = E(f, k) BY <2>1
    <3>1. k = 0 \/ (k - 1 \in 0..m /\ g[k - 1] = f[k - 1]) BY <1>1, <1>3, <2>2
    <3> QED BY <3>0, <3>1
  <2>4. g = [k \in 0..(m + 1) |-> E(g, k)] BY <2>3
  <2>5. \E h : h = [k \in 0..(m + 1) |-> E(h, k)]
    <3> HIDE DEF g
    <3> WITNESS g
    <3> QED BY <2>4
  <2> QED BY <1>1, <1>3, <2>5
<1>4. \A m \in 0..n : m \in T
  <2> HIDE DEF T
  <2> QED BY <1>1, <1>2, <1>3, SetInduction
<1>5. PICK f : f = [k \in 0..n |-> E(f, k)] BY <1>1, <1>4
<1>6. Derivation(snap, lg) = CHOOSE g : g = [k \in 0..n |-> E(g, k)]
  BY DEF Derivation, Begun
<1>7. Derivation(snap, lg) = [k \in 0..n |-> E(Derivation(snap, lg), k)]
  BY <1>5, <1>6
<1> DEFINE d == Derivation(snap, lg)
<1>8. \A k \in 0..n : d[k] = E(d, k)
  <2> HIDE DEF E, d
  <2>1. d = [k \in 0..n |-> E(d, k)] BY <1>7 DEF d
  <2> QED BY <2>1
<1> HIDE DEF d
<1>9. d[0] = Begun(snap, lg) BY <1>1, <1>8
<1>10. ASSUME NEW k \in 1..n
       PROVE  d[k] = IF Plan[k] \in snap THEN PlanEvent(d[k - 1], Plan[k]) ELSE d[k - 1]
  <2>1. k \in 0..n /\ k # 0 BY <1>1
  <2> QED BY <1>8, <2>1
<1> QED BY <1>9, <1>10 DEF d
-----------------------------------------------------------------------------
(* Sequences that are merged.                                              *)

\* The members of a set of places are numbered from 1 on.
LEMMA PlacesNumbered ==
    ASSUME NEW N \in Nat, NEW S \in SUBSET (1..N)
    PROVE  LET r == [k \in S |-> Cardinality({j \in S : j <= k})]
           IN  /\ IsFiniteSet(S)
               /\ r \in [S -> 1..Cardinality(S)]
               /\ \A j, k \in S : r[j] = r[k] => j = k
               /\ \A m \in 1..Cardinality(S) : \E k \in S : r[k] = m
<1> DEFINE Below(x) == {y \in S : y <= x}
           r == [k \in S |-> Cardinality(Below(k))]
<1>0. \A k \in S : k \in Nat OBVIOUS
<1>1. IsFiniteSet(S) /\ Cardinality(S) \in Nat
  <2>1. IsFiniteSet(1..N) BY FS_Interval
  <2>2. IsFiniteSet(S) BY <2>1, FS_Subset
  <2> QED BY <2>2, FS_CardinalityType
<1>2. ASSUME NEW k \in S
      PROVE  IsFiniteSet(Below(k)) /\ Cardinality(Below(k)) \in 1..Cardinality(S)
  <2>1. Below(k) \in SUBSET S /\ Below(k) # {} BY <1>2
  <2> HIDE DEF Below
  <2>2. IsFiniteSet(Below(k)) /\ Cardinality(Below(k)) <= Cardinality(S)
    BY <1>1, <2>1, FS_Subset
  <2>3. Cardinality(Below(k)) \in Nat /\ Cardinality(Below(k)) # 0
    BY <2>1, <2>2, FS_CardinalityType, FS_EmptySet
  <2> QED BY <1>1, <2>2, <2>3
<1>3. ASSUME NEW j \in S, NEW k \in S, j < k PROVE Cardinality(Below(j)) # Cardinality(Below(k))
  <2>0. j \in Nat /\ k \in Nat /\ j < k BY <1>0, <1>3
  <2>1. Below(j) \subseteq Below(k)
    <3> SUFFICES ASSUME NEW x \in Below(j) PROVE x \in Below(k) BY Zenon
    <3>1. x \in S /\ x <= j BY Zenon
    <3>2. x \in Nat BY <1>0, <3>1
    <3>3. x <= k BY <2>0, <3>1, <3>2
    <3> QED BY <3>1, <3>3
  <2>2. k \in Below(k) BY <2>0
  <2>3. k \notin Below(j) BY <2>0
  <2> HIDE DEF Below
  <2> QED BY <2>1, <2>2, <2>3, <1>2, FS_Subset
<1>4. r \in [S -> 1..Cardinality(S)] BY <1>2
<1>5. \A j, k \in S : r[j] = r[k] => j = k
  <2> SUFFICES ASSUME NEW j \in S, NEW k \in S, r[j] = r[k], j # k PROVE FALSE
    <3> HIDE DEF r
    <3> QED OBVIOUS
  <2>1. r[j] = Cardinality(Below(j)) /\ r[k] = Cardinality(Below(k)) OBVIOUS
  <2>2. j < k \/ k < j BY <1>0
  <2> HIDE DEF r, Below
  <2> QED BY <2>1, <2>2, <1>3
<1>6. \A m \in 1..Cardinality(S) : \E k \in S : r[k] = m
  <2> HIDE DEF r
  <2>1. r \in Injection(S, 1..Cardinality(S)) BY <1>4, <1>5 DEF Injection, IsInjective
  <2>2. IsFiniteSet(1..Cardinality(S)) /\ Cardinality(1..Cardinality(S)) = Cardinality(S)
    BY <1>1, FS_Interval
  <2>3. r \in Surjection(S, 1..Cardinality(S)) BY <2>1, <2>2, FS_Injection
  <2> QED BY <2>3 DEF Surjection
<1> QED BY <1>1, <1>4, <1>5, <1>6

\* A merge holds the elements of both sequences.
LEMMA MergedSet ==
    ASSUME NEW A, NEW lg \in Seq(A), NEW batch \in Seq(A),
           NEW S \in SUBSET (1..(Len(lg) + Len(batch))), Cardinality(S) = Len(batch)
    PROVE  /\ Merged(lg, batch, S) \in Seq(A)
           /\ Len(Merged(lg, batch, S)) = Len(lg) + Len(batch)
           /\ ToSet(Merged(lg, batch, S)) = ToSet(lg) \cup ToSet(batch)
<1> DEFINE M == Merged(lg, batch, S)
           N == Len(lg) + Len(batch)
           C == (1..N) \ S
           p == [k \in S |-> Cardinality({j \in S : j <= k})]
           q == [k \in C |-> Cardinality({j \in C : j <= k})]
<1>1. Len(lg) \in Nat /\ Len(batch) \in Nat /\ N \in Nat BY LenProperties
<1>2. /\ p \in [S -> 1..Len(batch)]
      /\ \A j, k \in S : p[j] = p[k] => j = k
      /\ \A m \in 1..Len(batch) : \E k \in S : p[k] = m
  BY <1>1, PlacesNumbered
<1>3. Cardinality(C) = Len(lg)
  <2>1. IsFiniteSet(1..N) /\ Cardinality(1..N) = N BY <1>1, FS_Interval
  <2>2. (1..N) \cap S = S OBVIOUS
  <2>3. Cardinality(C) = N - Cardinality(S)
    <3> DEFINE X == 1..N
    <3>1. IsFiniteSet(X) /\ Cardinality(X) = N /\ X \cap S = S /\ C = X \ S BY <2>1, <2>2
    <3> HIDE DEF X, C, N
    <3>2. Cardinality(X \ S) = Cardinality(X) - Cardinality(X \cap S) BY <3>1, FS_Difference
    <3> QED BY <3>1, <3>2
  <2> QED BY <1>1, <2>3
<1>4. /\ q \in [C -> 1..Len(lg)]
      /\ \A j, k \in C : q[j] = q[k] => j = k
      /\ \A m \in 1..Len(lg) : \E k \in C : q[k] = m
  <2>1. C \in SUBSET (1..N) OBVIOUS
  <2> HIDE DEF C, N
  <2>2. /\ q \in [C -> 1..Cardinality(C)]
        /\ \A j, k \in C : q[j] = q[k] => j = k
        /\ \A m \in 1..Cardinality(C) : \E k \in C : q[k] = m
    BY <1>1, <2>1, PlacesNumbered
  <2> HIDE DEF q
  <2> QED BY <1>3, <2>2
<1>5. \A k \in C : {j \in 1..k : j \notin S} = {j \in C : j <= k} BY <1>1
<1>6. \A k \in C : M[k] = lg[q[k]] /\ M[k] \in A
  <2> SUFFICES ASSUME NEW k \in C PROVE M[k] = lg[q[k]] /\ M[k] \in A OBVIOUS
  <2>1. k \in 1..N /\ k \notin S OBVIOUS
  <2>2. M[k] = lg[Cardinality({j \in 1..k : j \notin S})] BY <2>1 DEF Merged
  <2>3. M[k] = lg[q[k]] BY <2>2, <1>5
  <2>4. q[k] \in 1..Len(lg) BY <1>4
  <2> QED BY <2>3, <2>4, ElementOfSeq
<1>7. \A k \in S : M[k] = batch[p[k]] /\ M[k] \in A
  <2> SUFFICES ASSUME NEW k \in S PROVE M[k] = batch[p[k]] /\ M[k] \in A OBVIOUS
  <2>1. M[k] = batch[p[k]] BY DEF Merged
  <2>2. p[k] \in 1..Len(batch) BY <1>2
  <2> QED BY <2>1, <2>2, ElementOfSeq
<1>8. M \in Seq(A) /\ Len(M) = N /\ DOMAIN M = 1..N
  <2>1. M = [k \in 1..N |-> M[k]] BY DEF Merged
  <2>2. \A k \in 1..N : M[k] \in A BY <1>6, <1>7
  <2> HIDE DEF M, N
  <2>3. M \in [1..N -> A] BY <2>1, <2>2
  <2> QED BY <1>1, <2>3, SeqDef
<1>9. DOMAIN lg = 1..Len(lg) /\ DOMAIN batch = 1..Len(batch) BY LenProperties
<1>10. S \subseteq 1..N /\ C \subseteq 1..N /\ \A k \in 1..N : k \in S \/ k \in C OBVIOUS
<1> HIDE DEF M, N, C, p, q
<1>11. ASSUME NEW e \in ToSet(M) PROVE e \in ToSet(lg) \cup ToSet(batch)
  <2>1. PICK k \in 1..N : e = M[k] BY <1>8 DEF ToSet
  <2>2. CASE k \in S
    <3>1. p[k] \in 1..Len(batch) /\ e = batch[p[k]] BY <1>2, <1>7, <2>1, <2>2
    <3> QED BY <1>9, <3>1 DEF ToSet
  <2>3. CASE k \in C
    <3>1. q[k] \in 1..Len(lg) /\ e = lg[q[k]] BY <1>4, <1>6, <2>1, <2>3
    <3> QED BY <1>9, <3>1 DEF ToSet
  <2> QED BY <1>10, <2>2, <2>3
<1>12. ASSUME NEW e \in ToSet(lg) PROVE e \in ToSet(M)
  <2>1. PICK m \in 1..Len(lg) : e = lg[m] BY <1>9 DEF ToSet
  <2>2. PICK k \in C : q[k] = m BY <1>4
  <2>3. M[k] = e /\ k \in 1..N BY <1>6, <1>10, <2>1, <2>2
  <2> QED BY <1>8, <2>3 DEF ToSet
<1>13. ASSUME NEW e \in ToSet(batch) PROVE e \in ToSet(M)
  <2>1. PICK m \in 1..Len(batch) : e = batch[m] BY <1>9 DEF ToSet
  <2>2. PICK k \in S : p[k] = m BY <1>2
  <2>3. M[k] = e /\ k \in 1..N BY <1>7, <1>10, <2>1, <2>2
  <2> QED BY <1>8, <2>3 DEF ToSet
<1> QED BY <1>8, <1>11, <1>12, <1>13 DEF M, N
-----------------------------------------------------------------------------
(* Types.                                                                  *)

AllPairs == Events \X Ids
LogRows == [n : Nat, ev : Events, id : Ids, case : CaseIds, pinned : BOOLEAN, saw : SUBSET Nat]
BatchRows == AllPairs \X CaseIds

ClientStates ==
    {Idle} \cup [at : {"cycle"}, pr : AllPairs, carries : BOOLEAN]
           \cup [at : {"log"}, pr : AllPairs, carries : BOOLEAN, cycle : Ids \cup {None}]
           \cup [at : {"insert"}, pr : AllPairs, case : CaseIds, pinned : BOOLEAN,
                 saw : SUBSET Nat]

PassStates ==
    {Idle} \cup [at : {"log"}, snap : SUBSET AllPairs]
           \cup [at : {"emit"}, opens : SUBSET Ids, batch : Seq(BatchRows), saw : SUBSET Nat]

CasesTypeOK ==
    /\ log \in Seq(LogRows)
    /\ rows \in SUBSET AllPairs
    /\ client \in [Clients -> ClientStates]
    /\ pass \in PassStates
    /\ stamp \in Nat
    /\ ops \in Nat

-----------------------------------------------------------------------------
(* Why an event is in its case.  R is the set of the log's rows, n the number *)
(* of rows ever inserted, st the projection rows.                          *)

\* What a read of the log R showed to whoever saw these numbers.
Seen(R, saw) == {e \in R : e.n \in saw}
NumbersOf(R) == {e.n : e \in R}

\* An instance on whose events the read S shows keeps the case of one of them.
Keeps(S, i, case) ==
    IF i \in Roots THEN case = i
    ELSE (\E e \in S : e.id = i) => \E e \in S : e.id = i /\ e.case = case

\* The instance leads to others.
Refers(i) == Refs[i] # <<>> \/ CycleOf[i] # None

\* A case is inherited from an event that was seen, or it is new: the instance
\* or its cycle row, of which nothing was seen.
Inherits(S, i, case) == \E e \in S : e.case = case /\ (e.id = i \/ Refers(i))
Opens(S, i, case) == case \in {i, CycleOf[i]} /\ \A e \in S : e.id # case
Founded(S, i, case) == i \in Roots \/ Inherits(S, i, case) \/ Opens(S, i, case)

\* A decision made on a read that showed the rows numbered in saw; if a wipe
\* has removed some of those, what it rests on may be gone.
DecisionHolds(R, i, case, saw) ==
    /\ Keeps(Seen(R, saw), i, case)
    /\ saw \subseteq NumbersOf(R) => Founded(Seen(R, saw), i, case)

\* Rows have numbers of their own and were decided on lower ones, and every one
\* is of an instance with a projection row.
LogOK(R, st, n) ==
    /\ \A e \in R :
           /\ e.n \in 1..n
           /\ \A m \in e.saw : m < e.n
           /\ HasRow(e.id, st)
           /\ ~e.pinned => DecisionHolds(R, e.id, e.case, e.saw)
    /\ \A e, f \in R : e.n = f.n => e = f

\* A command in flight: what it found, and what it decided, holds of the log
\* still.
ClientOK(R, s, st, n) ==
    /\ s # Idle => HasRow(s.pr[2], st)
    /\ s.at = "log" => s.cycle \in {None, CycleOf[s.pr[2]]}
    /\ s.at = "insert" =>
           /\ s.saw \subseteq 0..n
           /\ ~s.pinned => DecisionHolds(R, s.pr[2], s.case, s.saw)

BatchId(b, k) == b[k][1][2]
BatchCase(b, k) == b[k][2]

\* The batch's event k is decided after those before it.
FoundedInBatch(S, b, k) ==
    LET i == BatchId(b, k)
        case == BatchCase(b, k)
    IN  \/ i \in Roots
        \/ Inherits(S, i, case)
        \/ \E j \in 1..(k - 1) : BatchCase(b, j) = case /\ (BatchId(b, j) = i \/ Refers(i))
        \/ Opens(S, i, case) /\ \A j \in 1..(k - 1) : BatchId(b, j) # case

\* An event of a row the pass is to open is decided for nothing if somebody
\* else has opened that row: the insert will throw.
PassOK(R, p, st, n) ==
    /\ p.at = "log" => p.snap \subseteq st
    /\ p.at = "emit" =>
           /\ p.saw \subseteq 0..n
           /\ \A k \in DOMAIN p.batch :
                  LET i == BatchId(p.batch, k)
                  IN  /\ i \in p.opens \/ HasRow(i, st)
                      /\ \/ i \in p.opens /\ HasRow(i, st)
                         \/ /\ Keeps(Seen(R, p.saw), i, BatchCase(p.batch, k))
                            /\ p.saw \subseteq NumbersOf(R) =>
                                   FoundedInBatch(Seen(R, p.saw), p.batch, k)
                      /\ i \notin Roots =>
                             \A j \in DOMAIN p.batch :
                                 BatchId(p.batch, j) = i => BatchCase(p.batch, j) = BatchCase(p.batch, k)

\* The inductive invariant of the cases.
CasesInv ==
    /\ LogOK(ToSet(log), rows, stamp)
    /\ \A c \in Clients : ClientOK(ToSet(log), client[c], rows, stamp)
    /\ PassOK(ToSet(log), pass, rows, stamp)

-----------------------------------------------------------------------------
(* What a stored ranking shows.                                            *)

\* A log that has outgrown the mark, or of which nothing was there for it.
Outdated(lg, mark) == Len(lg) > mark[1] \/ \A k \in DOMAIN lg : lg[k].n > mark[2]
MarkOf(lg) == <<Len(lg), IF lg = <<>> THEN 0 ELSE Last(lg).n>>
\* The mark is that of the log as it is, or of one that never comes back.
Marked(lg, n, mark) ==
    /\ mark \in Nat \X Nat
    /\ mark[2] <= n
    /\ Outdated(lg, mark) \/ mark = MarkOf(lg)

\* The inductive invariant of the rankings.
FreshInv ==
    /\ rank.at \in {"rows", "store"} => Marked(log, stamp, rank.mark)
    /\ rank.at = "store" => Outdated(log, rank.mark) \/ rank.shows = Grouped(log)
    /\ blob # None =>
           /\ Marked(log, stamp, blob.mark)
           /\ Outdated(log, blob.mark) \/ blob.shows = Grouped(log)

RankTypeOK ==
    /\ model \in Graphs
    /\ applying \in BOOLEAN
    /\ rank.at \in {"idle", "mark", "rows", "store"}
-----------------------------------------------------------------------------
(* The decision.                                                           *)

\* The case a read shows of an instance is that of its first event.
LEMMA CaseAmongFacts ==
    ASSUME NEW lg \in Seq(LogRows), NEW C, NEW i \in Ids
    PROVE  LET c == CaseAmong(lg, C)[i]
           IN  /\ c \in CaseIds \cup {None}
               /\ c = None <=> (i \notin C \/ \A k \in DOMAIN lg : lg[k].id # i)
               /\ c # None => \E k \in DOMAIN lg : /\ lg[k].id = i /\ lg[k].case = c
                                                   /\ \A j \in DOMAIN lg : lg[j].id = i => k <= j
<1> DEFINE own == {k \in DOMAIN lg : lg[k].id = i}
           c == CaseAmong(lg, C)[i]
           first == CHOOSE k \in own : \A j \in own : k <= j
<1>1. c = IF i \notin C \/ own = {} THEN None ELSE lg[first].case
  BY DEF CaseAmong
<1>2. CASE i \notin C \/ own = {}
  BY <1>1, <1>2
<1>3. CASE ~(i \notin C \/ own = {})
  <2>1. own \in SUBSET Nat BY LenProperties
  <2>2. \E k \in own : \A j \in own : k <= j BY <1>3, <2>1, LeastNat
  <2>3. first \in own /\ \A j \in own : first <= j BY <2>2
  <2>4. first \in DOMAIN lg /\ lg[first].id = i BY <2>3
  <2>5. lg[first] \in LogRows BY <2>4, LenProperties, ElementOfSeq
  <2>6. lg[first].case \in CaseIds BY <2>5 DEF LogRows
  <2>7. c = lg[first].case /\ c # None BY <1>1, <1>3, <2>6, CasesAssumption
  <2> QED BY <1>3, <2>3, <2>4, <2>6, <2>7
<1> QED BY <1>2, <1>3

\* A case read off the log is a case, or None.
LEMMA CaseAmongType ==
    ASSUME NEW lg \in Seq(LogRows), NEW C
    PROVE  CaseAmong(lg, C) \in [Ids -> CaseIds \cup {None}]
<1>1. \A i \in Ids : CaseAmong(lg, C)[i] \in CaseIds \cup {None} BY CaseAmongFacts
<1>2. CaseAmong(lg, C) = [i \in Ids |-> CaseAmong(lg, C)[i]] BY DEF CaseAmong
<1> QED BY <1>1, <1>2

\* The first reference that is in a case.
LEMMA FirstKnownFacts ==
    ASSUME NEW refs \in Seq(Ids), NEW caseOf
    PROVE  LET p == FirstKnown(refs, caseOf)
           IN  p # None => p \in Ids /\ refs # <<>> /\ caseOf[p] # None
<1> DEFINE known == {k \in DOMAIN refs : caseOf[refs[k]] # None}
           first == CHOOSE k \in known : \A j \in known : k <= j
<1>1. CASE known = {}
  BY <1>1 DEF FirstKnown
<1>2. CASE known # {}
  <2>1. known \in SUBSET Nat BY LenProperties
  <2>2. \E k \in known : \A j \in known : k <= j BY <1>2, <2>1, LeastNat
  <2>3. first \in known BY <2>2
  <2>4. FirstKnown(refs, caseOf) = refs[first] BY <1>2 DEF FirstKnown
  <2>5. refs[first] \in Ids /\ refs # <<>> BY <2>3, LenProperties, ElementOfSeq, EmptySeq
  <2> QED BY <2>3, <2>4, <2>5
<1> QED BY <1>1, <1>2

\* The four ways a case is found.
LEMMA DecideFacts ==
    ASSUME NEW caseOf \in [Ids -> CaseIds \cup {None}], NEW i \in Ids,
           NEW refs \in Seq(Ids), NEW cycle \in Ids \cup {None}
    PROVE  LET c == DecideCaseId(i, refs, cycle, caseOf)
           IN  /\ c \in CaseIds
               /\ i \in Roots => c = i
               /\ i \notin Roots /\ caseOf[i] # None => c = caseOf[i]
               /\ i \notin Roots /\ caseOf[i] = None =>
                      \/ \E r \in Ids : caseOf[r] = c /\ (refs # <<>> \/ cycle # None)
                      \/ c \in {i, cycle} \cap Ids /\ caseOf[c] = None
<1> DEFINE c == DecideCaseId(i, refs, cycle, caseOf)
           p == FirstKnown(refs, caseOf)
<1>0. i \in CaseIds /\ None \notin CaseIds /\ None \notin Ids
      /\ (cycle # None => cycle \in Ids /\ cycle \in CaseIds)
  BY CasesAssumption DEF CaseIds
<1>1. CASE i \in Roots
  BY <1>0, <1>1 DEF DecideCaseId
<1>2. CASE i \notin Roots /\ caseOf[i] # None
  BY <1>0, <1>2 DEF DecideCaseId
<1>3. CASE i \notin Roots /\ caseOf[i] = None /\ p # None
  <2>1. c = caseOf[p] BY <1>3 DEF DecideCaseId
  <2>2. p \in Ids /\ refs # <<>> /\ caseOf[p] # None BY <1>3, FirstKnownFacts
  <2> QED BY <1>3, <2>1, <2>2
<1>4. CASE i \notin Roots /\ caseOf[i] = None /\ p = None
  <2>1. c = ViaCycle(i, cycle, caseOf) BY <1>4 DEF DecideCaseId
  <2>2. CASE cycle = None BY <1>0, <1>4, <2>1, <2>2 DEF ViaCycle
  <2>3. CASE cycle # None /\ caseOf[cycle] = None BY <1>0, <1>4, <2>1, <2>3 DEF ViaCycle
  <2>4. CASE cycle # None /\ caseOf[cycle] # None
    <3>1. c = caseOf[cycle] /\ cycle \in Ids BY <1>0, <2>1, <2>4 DEF ViaCycle
    <3> QED BY <1>4, <2>4, <3>1
  <2> QED BY <2>2, <2>3, <2>4
<1> QED BY <1>1, <1>2, <1>3, <1>4

\* The references and the cycle row of a payload are those of its instance.
LEMMA PayloadFacts ==
    ASSUME NEW i \in Ids, NEW carries, NEW known
    PROVE  /\ RefsIn(i, carries) \in Seq(Ids)
           /\ RefsIn(i, carries) # <<>> => Refs[i] # <<>>
           /\ CycleRow(i, carries, known) \in Ids \cup {None}
           /\ CycleRow(i, carries, known) # None =>
                  CycleRow(i, carries, known) = CycleOf[i] /\ CycleOf[i] # None
<1>1. Refs[i] \in Seq(Ids) /\ CycleOf[i] \in Ids \cup {None} BY CasesAssumption
<1>2. <<>> \in Seq(Ids) BY EmptySeq
<1> QED BY <1>1, <1>2 DEF RefsIn, CycleRow
-----------------------------------------------------------------------------
(* A derive pass.                                                          *)

\* What a pass has decided so far.
Derivations ==
    [seen : SUBSET AllPairs, caseOf : [Ids -> CaseIds \cup {None}], stored : SUBSET AllPairs,
     opens : SUBSET Ids, batch : Seq(BatchRows)]

\* The rows a pass works on are those it read and those it opens.
StoredKnown(snap, d) ==
    /\ snap \subseteq d.stored
    /\ \A q \in d.opens : ~HasRow(q, snap) /\ HasRow(q, d.stored)
    /\ \A pr \in d.stored : pr \in snap \/ pr[2] \in d.opens

\* The batch's events are of these rows; an opened one has its create event only.
BatchKnown(snap, d) ==
    \A k \in DOMAIN d.batch :
        LET i == BatchId(d.batch, k)
        IN  IF i \in d.opens
            THEN BatchCase(d.batch, k) = i /\ \A j \in 1..(k - 1) : BatchId(d.batch, j) # i
            ELSE HasRow(i, snap)

\* The map holds what the log and the batch so far say.
MapKnown(d) ==
    /\ \A k \in DOMAIN d.batch :
           LET i == BatchId(d.batch, k)
           IN  BatchCase(d.batch, k) = IF i \in Roots THEN i ELSE d.caseOf[i]
    /\ \A i \in Ids :
           /\ i \notin d.opens /\ CaseOf(log)[i] # None => d.caseOf[i] = CaseOf(log)[i]
           /\ d.caseOf[i] = None =>
                  CaseOf(log)[i] = None /\ \A k \in DOMAIN d.batch : BatchId(d.batch, k) # i
           /\ d.caseOf[i] # None =>
                  \/ d.caseOf[i] = CaseOf(log)[i]
                  \/ \E k \in DOMAIN d.batch : BatchId(d.batch, k) = i
                                              /\ BatchCase(d.batch, k) = d.caseOf[i]

\* Every event of the batch is founded on the log read and the events before
\* it.
BatchFounded(d) ==
    \A k \in DOMAIN d.batch :
        BatchId(d.batch, k) \in d.opens \/ FoundedInBatch(ToSet(log), d.batch, k)

\* The loop invariant of a pass.
DeriveInv(snap, d) ==
    /\ d \in Derivations
    /\ StoredKnown(snap, d)
    /\ BatchKnown(snap, d)
    /\ MapKnown(d)
    /\ BatchFounded(d)

\* The loop begins with it.
LEMMA BeginsRight ==
    ASSUME log \in Seq(LogRows), NEW snap \in SUBSET AllPairs
    PROVE  DeriveInv(snap, Begun(snap, log))
<1> DEFINE d == Begun(snap, log)
<1>1. /\ d.caseOf = CaseOf(log) /\ d.stored = snap /\ d.opens = {} /\ d.batch = <<>>
      /\ d.seen = {<<log[k].ev, log[k].id>> : k \in DOMAIN log}
  BY DEF Begun
<1>2. d.seen \in SUBSET AllPairs
  <2>1. \A k \in DOMAIN log : log[k] \in LogRows BY LenProperties, ElementOfSeq
  <2>2. \A k \in DOMAIN log : log[k].ev \in Events /\ log[k].id \in Ids BY <2>1 DEF LogRows
  <2> QED BY <1>1, <2>2 DEF AllPairs
<1>3. d.caseOf \in [Ids -> CaseIds \cup {None}] BY <1>1, CaseAmongType DEF CaseOf
<1>4. d.batch \in Seq(BatchRows) /\ DOMAIN d.batch = {} BY <1>1, EmptySeq, LenProperties
<1>5. d \in Derivations BY <1>1, <1>2, <1>3, <1>4 DEF Derivations, Begun
<1>6. DeriveInv(snap, d)
  <2> HIDE DEF d
  <2> QED BY <1>1, <1>4, <1>5 DEF DeriveInv, StoredKnown, BatchKnown, MapKnown, BatchFounded
<1> QED BY <1>6

\* What opening a cycle row changes.
LEMMA EnsureFields ==
    ASSUME NEW d \in Derivations, NEW q \in Ids \cup {None}
    PROVE  LET e == EnsureCycleRow(d, q)
               create == <<OpenedBy[q], q>>
           IN  \/ e = d /\ (q \in Ids => HasRow(q, d.stored)
                                         \/ ~(\E s \in Siblings[q] : HasRow(s, d.stored)))
               \/ /\ q \in Ids /\ ~HasRow(q, d.stored) /\ create \in AllPairs
                  /\ \E s \in Siblings[q] : HasRow(s, d.stored)
                  /\ e \in Derivations
                  /\ e.stored = d.stored \cup {create}
                  /\ e.opens = d.opens \cup {q}
                  /\ \/ /\ create \in d.seen
                        /\ e.seen = d.seen /\ e.caseOf = d.caseOf /\ e.batch = d.batch
                     \/ /\ e.seen = d.seen \cup {create}
                        /\ e.caseOf = [d.caseOf EXCEPT ![q] = q]
                        /\ e.batch = Append(d.batch, <<create, q>>)
<1> DEFINE e == EnsureCycleRow(d, q)
           create == <<OpenedBy[q], q>>
           withRow == [d EXCEPT !.stored = @ \cup {create}, !.opens = @ \cup {q}]
<1>0. None \notin Ids BY CasesAssumption DEF CaseIds
<1>1. CASE q = None \/ HasRow(q, d.stored) \/ ~(\E s \in Siblings[q] : HasRow(s, d.stored))
  BY <1>0, <1>1 DEF EnsureCycleRow
<1>2. CASE ~(q = None \/ HasRow(q, d.stored) \/ ~(\E s \in Siblings[q] : HasRow(s, d.stored)))
  <2>1. q \in Ids /\ ~HasRow(q, d.stored) /\ \E s \in Siblings[q] : HasRow(s, d.stored) BY <1>2
  <2>2. create \in AllPairs BY <2>1, GraphsAssumption DEF AllPairs
  <2>3. withRow \in Derivations BY <2>1, <2>2 DEF Derivations
  <2>4. /\ withRow.stored = d.stored \cup {create} /\ withRow.opens = d.opens \cup {q}
        /\ withRow.seen = d.seen /\ withRow.caseOf = d.caseOf /\ withRow.batch = d.batch
    BY DEF Derivations
  <2>5. CASE create \in d.seen
    <3>1. e = withRow BY <1>2, <2>5 DEF EnsureCycleRow
    <3> HIDE DEF withRow
    <3>2. /\ e \in Derivations /\ e.stored = d.stored \cup {create} /\ e.opens = d.opens \cup {q}
          /\ e.seen = d.seen /\ e.caseOf = d.caseOf /\ e.batch = d.batch
      BY <2>3, <2>4, <3>1
    <3> QED BY <2>1, <2>2, <2>5, <3>2
  <2>6. CASE create \notin d.seen
    <3> DEFINE opened == [withRow EXCEPT !.seen = @ \cup {create}, !.caseOf[q] = q,
                                         !.batch = Append(@, <<create, q>>)]
    <3>1. e = opened BY <1>2, <2>6 DEF EnsureCycleRow
    <3>2. <<create, q>> \in BatchRows BY <2>1, <2>2 DEF BatchRows, CaseIds
    <3>3. Append(d.batch, <<create, q>>) \in Seq(BatchRows) BY <3>2, AppendProperties DEF Derivations
    <3>4. [d.caseOf EXCEPT ![q] = q] \in [Ids -> CaseIds \cup {None}] BY <2>1 DEF Derivations, CaseIds
    <3> HIDE DEF withRow, create
    <3>5. /\ opened.seen = d.seen \cup {create}
          /\ opened.caseOf = [d.caseOf EXCEPT ![q] = q]
          /\ opened.batch = Append(d.batch, <<create, q>>)
          /\ opened.stored = d.stored \cup {create} /\ opened.opens = d.opens \cup {q}
      BY <2>3, <2>4 DEF Derivations
    <3>6. opened \in Derivations
      BY <2>1, <2>2, <2>3, <2>4, <3>3, <3>4 DEF Derivations
    <3> HIDE DEF opened
    <3>7. /\ e \in Derivations /\ e.stored = d.stored \cup {create} /\ e.opens = d.opens \cup {q}
          /\ e.seen = d.seen \cup {create} /\ e.caseOf = [d.caseOf EXCEPT ![q] = q]
          /\ e.batch = Append(d.batch, <<create, q>>)
      BY <3>1, <3>5, <3>6
    <3> USE DEF create
    <3> QED BY <2>1, <2>2, <3>7
  <2> QED BY <2>5, <2>6
<1> QED BY <1>1, <1>2

\* Indexing a batch gives an instance and a case.
LEMMA BatchTyped ==
    ASSUME NEW d \in Derivations, NEW k \in DOMAIN d.batch
    PROVE  /\ k \in 1..Len(d.batch) /\ Len(d.batch) \in Nat
           /\ BatchId(d.batch, k) \in Ids /\ BatchCase(d.batch, k) \in CaseIds
<1>1. d.batch \in Seq(BatchRows) BY DEF Derivations
<1>2. k \in 1..Len(d.batch) /\ Len(d.batch) \in Nat BY <1>1, LenProperties
<1>3. d.batch[k] \in BatchRows BY <1>1, <1>2, ElementOfSeq
<1> QED BY <1>2, <1>3 DEF BatchRows, AllPairs, BatchId, BatchCase

\* An event appended to the batch leaves what founds those before it.
LEMMA FoundedPrefix ==
    ASSUME NEW b \in Seq(BatchRows), NEW x \in BatchRows, NEW k \in 1..Len(b), NEW S,
           FoundedInBatch(S, b, k)
    PROVE  FoundedInBatch(S, Append(b, x), k)
<1>1. \A j \in 1..k : Append(b, x)[j] = b[j]
  BY AppendProperties, LenProperties
<1>2. k \in 1..k /\ 1..(k - 1) \subseteq 1..k BY LenProperties
<1> QED BY <1>1, <1>2 DEF FoundedInBatch, BatchId, BatchCase

\* Opening a cycle row keeps the loop invariant.
LEMMA EnsureKeeps ==
    ASSUME log \in Seq(LogRows), NEW snap \in SUBSET AllPairs, NEW d, DeriveInv(snap, d),
           NEW q \in Ids \cup {None}
    PROVE  DeriveInv(snap, EnsureCycleRow(d, q))
<1> DEFINE e == EnsureCycleRow(d, q)
           create == <<OpenedBy[q], q>>
<1>0. d \in Derivations BY DEF DeriveInv
<1>1. CASE e = d BY <1>1
<1>2. ASSUME q \in Ids, ~HasRow(q, d.stored), create \in AllPairs,
             e \in Derivations, e.stored = d.stored \cup {create}, e.opens = d.opens \cup {q}
      PROVE  /\ StoredKnown(snap, e)
             /\ q \notin d.opens
             /\ \A k \in DOMAIN d.batch : BatchId(d.batch, k) # q
  <2>1. ~HasRow(q, snap) BY <1>2 DEF DeriveInv, StoredKnown, HasRow
  <2>2. create[2] = q OBVIOUS
  <2>3. HasRow(q, e.stored) BY <1>2, <2>2 DEF HasRow
  <2>4. q \notin d.opens BY <1>2 DEF DeriveInv, StoredKnown
  <2>5. \A i : HasRow(i, d.stored) => HasRow(i, e.stored) BY <1>2 DEF HasRow
  <2>6. StoredKnown(snap, e)
    <3> HIDE DEF e, create
    <3> QED BY <1>2, <2>1, <2>2, <2>3, <2>5 DEF DeriveInv, StoredKnown
  <2>7. ASSUME NEW k \in DOMAIN d.batch PROVE BatchId(d.batch, k) # q
    BY <2>1, <2>4 DEF DeriveInv, BatchKnown
  <2> QED BY <2>4, <2>6, <2>7
<1>3. ASSUME q \in Ids, ~HasRow(q, d.stored), create \in AllPairs,
             e \in Derivations, e.stored = d.stored \cup {create}, e.opens = d.opens \cup {q},
             e.seen = d.seen, e.caseOf = d.caseOf, e.batch = d.batch
      PROVE  DeriveInv(snap, e)
  <2> HIDE DEF e, create
  <2>1. BatchKnown(snap, e) BY <1>2, <1>3 DEF DeriveInv, BatchKnown
  <2>2. MapKnown(e) BY <1>3 DEF DeriveInv, MapKnown
  <2>3. BatchFounded(e) BY <1>3 DEF DeriveInv, BatchFounded
  <2> QED BY <1>2, <1>3, <2>1, <2>2, <2>3 DEF DeriveInv
<1>4. ASSUME q \in Ids, ~HasRow(q, d.stored), create \in AllPairs,
             e \in Derivations, e.stored = d.stored \cup {create}, e.opens = d.opens \cup {q},
             e.caseOf = [d.caseOf EXCEPT ![q] = q],
             e.batch = Append(d.batch, <<create, q>>)
      PROVE  DeriveInv(snap, e)
  <2> DEFINE n == Len(d.batch)
             x == <<create, q>>
  <2>1. x \in BatchRows BY <1>4 DEF BatchRows, CaseIds
  <2>2. /\ d.batch \in Seq(BatchRows) /\ DOMAIN d.batch = 1..n /\ n \in Nat
        /\ DOMAIN e.batch = 1..(n + 1)
        /\ \A k \in 1..n : e.batch[k] = d.batch[k]
        /\ e.batch[n + 1] = x
    BY <1>0, <1>4, <2>1, AppendProperties, LenProperties DEF Derivations
  <2>3. BatchId(e.batch, n + 1) = q /\ BatchCase(e.batch, n + 1) = q
    BY <2>2 DEF BatchId, BatchCase
  <2>4. \A k \in 1..n : /\ BatchId(e.batch, k) = BatchId(d.batch, k)
                        /\ BatchCase(e.batch, k) = BatchCase(d.batch, k)
                        /\ BatchId(d.batch, k) \in Ids /\ BatchId(d.batch, k) # q
    BY <1>2, <1>4, <1>0, <2>2, BatchTyped DEF BatchId, BatchCase
  <2>5. d.caseOf \in [Ids -> CaseIds \cup {None}] /\ e.caseOf[q] = q /\ q # None
        /\ \A i \in Ids : i # q => e.caseOf[i] = d.caseOf[i]
    BY <1>0, <1>4, CasesAssumption DEF Derivations, CaseIds
  <2>6. \A k \in 1..(n + 1) : k = n + 1 \/ k \in 1..n BY <2>2
  <2>7. BatchKnown(snap, e)
    <3> SUFFICES ASSUME NEW k \in 1..(n + 1)
                 PROVE  IF BatchId(e.batch, k) \in e.opens
                        THEN /\ BatchCase(e.batch, k) = BatchId(e.batch, k)
                             /\ \A j \in 1..(k - 1) : BatchId(e.batch, j) # BatchId(e.batch, k)
                        ELSE HasRow(BatchId(e.batch, k), snap)
      BY <2>2 DEF BatchKnown
    <3>1. CASE k = n + 1
      <4>1. \A j \in 1..(k - 1) : BatchId(e.batch, j) # q BY <2>2, <2>4, <3>1
      <4>2. BatchId(e.batch, k) = q /\ BatchCase(e.batch, k) = q /\ q \in e.opens
        BY <1>4, <2>3, <3>1
      <4> HIDE DEF e
      <4> QED BY <4>1, <4>2
    <3>2. CASE k \in 1..n
      <4>1. \A j \in 1..(k - 1) : j \in 1..n BY <2>2, <3>2
      <4>2. BatchId(e.batch, k) \in e.opens <=> BatchId(d.batch, k) \in d.opens
        BY <1>4, <2>4, <3>2
      <4> QED BY <2>2, <2>4, <3>2, <4>1, <4>2 DEF DeriveInv, BatchKnown
    <3> QED BY <2>6, <3>1, <3>2
  <2>8. MapKnown(e)
    <3> HIDE DEF e, create, x, n
    <3>1. \A k \in DOMAIN e.batch :
            BatchCase(e.batch, k) = IF BatchId(e.batch, k) \in Roots THEN BatchId(e.batch, k)
                                    ELSE e.caseOf[BatchId(e.batch, k)]
      BY <2>2, <2>3, <2>4, <2>5, <2>6 DEF DeriveInv, MapKnown
    <3>2. ASSUME NEW i \in Ids, i # q
          PROVE  /\ i \notin e.opens /\ CaseOf(log)[i] # None => e.caseOf[i] = CaseOf(log)[i]
                 /\ e.caseOf[i] = None =>
                      CaseOf(log)[i] = None /\ \A k \in DOMAIN e.batch : BatchId(e.batch, k) # i
                 /\ e.caseOf[i] # None =>
                      \/ e.caseOf[i] = CaseOf(log)[i]
                      \/ \E k \in DOMAIN e.batch : BatchId(e.batch, k) = i
                                              /\ BatchCase(e.batch, k) = e.caseOf[i]
      <4>1. e.caseOf[i] = d.caseOf[i] /\ (i \notin e.opens => i \notin d.opens)
        BY <1>4, <2>5, <3>2
      <4>2. \A k \in DOMAIN e.batch : BatchId(e.batch, k) = i => k \in DOMAIN d.batch
        BY <2>2, <2>3, <2>6, <3>2
      <4>3. \A k \in DOMAIN d.batch : k \in DOMAIN e.batch BY <2>2
      <4> QED BY <2>2, <2>4, <4>1, <4>2, <4>3 DEF DeriveInv, MapKnown
    <3>3. n + 1 \in DOMAIN e.batch BY <2>2
    <3>4. q \in e.opens BY <1>4
    <3> QED BY <2>3, <2>5, <3>1, <3>2, <3>3, <3>4 DEF MapKnown
  <2>9. BatchFounded(e)
    <3> SUFFICES ASSUME NEW k \in 1..(n + 1)
                 PROVE  BatchId(e.batch, k) \in e.opens \/ FoundedInBatch(ToSet(log), e.batch, k)
      BY <2>2 DEF BatchFounded
    <3>1. CASE k = n + 1 BY <1>4, <2>3, <3>1
    <3>2. CASE k \in 1..n
      <4>1. BatchId(d.batch, k) \in d.opens \/ FoundedInBatch(ToSet(log), d.batch, k)
        BY <2>2, <3>2 DEF DeriveInv, BatchFounded
      <4>2. FoundedInBatch(ToSet(log), d.batch, k) => FoundedInBatch(ToSet(log), e.batch, k)
        BY <1>4, <2>1, <2>2, <3>2, FoundedPrefix
      <4> QED BY <1>4, <2>4, <3>2, <4>1, <4>2
    <3> QED BY <2>6, <3>1, <3>2
  <2> QED BY <1>2, <1>4, <2>7, <2>8, <2>9 DEF DeriveInv
<1> QED
  <2>1. \/ e = d
        \/ /\ q \in Ids /\ ~HasRow(q, d.stored) /\ create \in AllPairs
           /\ e \in Derivations /\ e.stored = d.stored \cup {create}
           /\ e.opens = d.opens \cup {q}
           /\ \/ e.seen = d.seen /\ e.caseOf = d.caseOf /\ e.batch = d.batch
              \/ /\ e.caseOf = [d.caseOf EXCEPT ![q] = q]
                 /\ e.batch = Append(d.batch, <<create, q>>)
    BY <1>0, EnsureFields
  <2> HIDE DEF DeriveInv, e, create
  <2>2. DeriveInv(snap, e) BY <2>1, <1>1, <1>3, <1>4
  <2> QED BY <2>2 DEF e

\* The case of an event of i that a map of known cases decides.
Decided(i, case, caseOf) ==
    /\ i \in Roots => case = i
    /\ i \notin Roots /\ caseOf[i] # None => case = caseOf[i]
    /\ i \notin Roots /\ caseOf[i] = None =>
           \/ \E r \in Ids : caseOf[r] = case /\ Refers(i)
           \/ case \in {i, CycleOf[i]} \cap Ids /\ caseOf[case] = None

\* A decided event is added to the batch and the map.
LEMMA AppendKeeps ==
    ASSUME log \in Seq(LogRows), NEW snap \in SUBSET AllPairs, NEW e, DeriveInv(snap, e),
           NEW pr \in snap, NEW case \in CaseIds, Decided(pr[2], case, e.caseOf),
           NEW f, f \in Derivations, f.stored = e.stored, f.opens = e.opens,
           \A j \in Ids : f.caseOf[j] = IF j = pr[2] /\ e.caseOf[j] = None THEN case
                                        ELSE e.caseOf[j],
           f.batch = Append(e.batch, <<pr, case>>)
    PROVE  DeriveInv(snap, f)
<1> DEFINE n == Len(e.batch)
           i == pr[2]
           x == <<pr, case>>
<1>1. /\ e \in Derivations /\ e.caseOf \in [Ids -> CaseIds \cup {None}]
      /\ pr \in AllPairs /\ i \in Ids /\ None \notin CaseIds /\ None \notin Ids
  BY CasesAssumption DEF DeriveInv, Derivations, AllPairs, CaseIds
<1>2. /\ case \in CaseIds /\ case # None
      /\ i \in Roots => case = i
      /\ i \notin Roots /\ e.caseOf[i] # None => case = e.caseOf[i]
      /\ i \notin Roots /\ e.caseOf[i] = None =>
             \/ \E r \in Ids : e.caseOf[r] = case /\ Refers(i)
             \/ case \in {i, CycleOf[i]} \cap Ids /\ e.caseOf[case] = None
  BY <1>1 DEF Decided
<1>3. x \in BatchRows BY <1>1, <1>2 DEF BatchRows
<1>4. /\ e.batch \in Seq(BatchRows) /\ DOMAIN e.batch = 1..n /\ n \in Nat
      /\ DOMAIN f.batch = 1..(n + 1)
      /\ \A k \in 1..n : f.batch[k] = e.batch[k]
      /\ f.batch[n + 1] = x
  BY <1>1, <1>3, AppendProperties, LenProperties DEF Derivations
<1>5. BatchId(f.batch, n + 1) = i /\ BatchCase(f.batch, n + 1) = case
  BY <1>4 DEF BatchId, BatchCase
<1>6. \A k \in 1..n : /\ BatchId(f.batch, k) = BatchId(e.batch, k)
                      /\ BatchCase(f.batch, k) = BatchCase(e.batch, k)
                      /\ BatchId(e.batch, k) \in Ids /\ BatchCase(e.batch, k) \in CaseIds
  BY <1>1, <1>4, BatchTyped DEF BatchId, BatchCase
<1>7. \A k \in 1..(n + 1) : k = n + 1 \/ k \in 1..n BY <1>4
<1>8. HasRow(i, snap) /\ i \notin e.opens BY DEF HasRow, DeriveInv, StoredKnown
<1>9. /\ \A j \in Ids : j # i => f.caseOf[j] = e.caseOf[j]
      /\ e.caseOf[i] = None => f.caseOf[i] = case
      /\ \A j \in Ids : e.caseOf[j] # None => f.caseOf[j] = e.caseOf[j]
      /\ f.caseOf[i] # None
  BY <1>1, <1>2
<1> HIDE DEF i, x, n
<1>10. StoredKnown(snap, f) BY DEF DeriveInv, StoredKnown
<1>11. BatchKnown(snap, f)
  <2> SUFFICES ASSUME NEW k \in 1..(n + 1)
               PROVE  IF BatchId(f.batch, k) \in f.opens
                      THEN /\ BatchCase(f.batch, k) = BatchId(f.batch, k)
                           /\ \A j \in 1..(k - 1) : BatchId(f.batch, j) # BatchId(f.batch, k)
                      ELSE HasRow(BatchId(f.batch, k), snap)
    BY <1>4 DEF BatchKnown
  <2>1. CASE k = n + 1 BY <2>1, <1>5, <1>8
  <2>2. CASE k \in 1..n
    <3>1. \A j \in 1..(k - 1) : j \in 1..n BY <1>4, <2>2
    <3> QED BY <1>4, <1>6, <2>2, <3>1 DEF DeriveInv, BatchKnown
  <2> QED BY <1>7, <2>1, <2>2
<1>12. MapKnown(f)
  <2>1. ASSUME NEW k \in DOMAIN f.batch
        PROVE  BatchCase(f.batch, k) = IF BatchId(f.batch, k) \in Roots THEN BatchId(f.batch, k)
                                       ELSE f.caseOf[BatchId(f.batch, k)]
    <3>1. CASE k = n + 1
      <4>1. f.caseOf[i] = IF e.caseOf[i] = None THEN case ELSE e.caseOf[i] BY <1>1, <1>9
      <4> QED BY <3>1, <1>2, <1>5, <4>1
    <3>2. CASE k \in 1..n
      <4>1. BatchCase(e.batch, k) = IF BatchId(e.batch, k) \in Roots THEN BatchId(e.batch, k)
                                    ELSE e.caseOf[BatchId(e.batch, k)]
        BY <1>4, <3>2 DEF DeriveInv, MapKnown
      <4>2. BatchCase(e.batch, k) # None BY <1>1, <1>6, <3>2
      <4> QED BY <1>6, <1>9, <3>2, <4>1, <4>2
    <3> QED BY <1>4, <1>7, <3>1, <3>2
  <2>2. ASSUME NEW j \in Ids
        PROVE  /\ j \notin f.opens /\ CaseOf(log)[j] # None => f.caseOf[j] = CaseOf(log)[j]
               /\ f.caseOf[j] = None =>
                    CaseOf(log)[j] = None /\ \A k \in DOMAIN f.batch : BatchId(f.batch, k) # j
               /\ f.caseOf[j] # None =>
                    \/ f.caseOf[j] = CaseOf(log)[j]
                    \/ \E k \in DOMAIN f.batch : BatchId(f.batch, k) = j
                                              /\ BatchCase(f.batch, k) = f.caseOf[j]
    <3>1. /\ j \notin e.opens /\ CaseOf(log)[j] # None => e.caseOf[j] = CaseOf(log)[j]
          /\ e.caseOf[j] = None =>
               CaseOf(log)[j] = None /\ \A k \in DOMAIN e.batch : BatchId(e.batch, k) # j
          /\ e.caseOf[j] # None =>
               \/ e.caseOf[j] = CaseOf(log)[j]
               \/ \E k \in DOMAIN e.batch : BatchId(e.batch, k) = j
                                         /\ BatchCase(e.batch, k) = e.caseOf[j]
      BY DEF DeriveInv, MapKnown
    <3>2. \A k \in DOMAIN e.batch : k \in DOMAIN f.batch /\ k \in 1..n BY <1>4
    <3>3. n + 1 \in DOMAIN f.batch BY <1>4
    <3>4. CASE e.caseOf[j] # None
      BY <1>6, <1>9, <3>1, <3>2, <3>4
    <3>5. CASE e.caseOf[j] = None /\ j = i
      BY <1>5, <1>9, <3>1, <3>3, <3>5
    <3>6. CASE e.caseOf[j] = None /\ j # i
      <4>1. f.caseOf[j] = None BY <1>9, <3>6
      <4>2. \A k \in DOMAIN f.batch : BatchId(f.batch, k) # j
        BY <1>4, <1>5, <1>6, <1>7, <3>1, <3>6
      <4> QED BY <3>1, <3>6, <4>1, <4>2
    <3> QED BY <3>4, <3>5, <3>6
  <2> QED BY <2>1, <2>2 DEF MapKnown
<1>13. FoundedInBatch(ToSet(log), f.batch, n + 1)
  <2>0. (n + 1) - 1 = n BY <1>4
  <2>1. \A j \in 1..n : /\ BatchId(f.batch, j) = BatchId(e.batch, j)
                       /\ BatchCase(f.batch, j) = BatchCase(e.batch, j)
    BY <1>6
  <2>2. ASSUME NEW r \in Ids, e.caseOf[r] = case, r = i \/ Refers(i)
        PROVE  \/ Inherits(ToSet(log), i, case)
               \/ \E j \in 1..n : /\ BatchCase(f.batch, j) = case
                                  /\ BatchId(f.batch, j) = i \/ Refers(i)
    <3>1. \/ case = CaseOf(log)[r]
          \/ \E k \in DOMAIN e.batch : BatchId(e.batch, k) = r /\ BatchCase(e.batch, k) = case
      BY <1>2, <2>2 DEF DeriveInv, MapKnown
    <3>2. CASE case = CaseOf(log)[r]
      <4>1. \E k \in DOMAIN log : log[k].id = r /\ log[k].case = case
        BY <1>2, <3>2, CaseAmongFacts DEF CaseOf
      <4> QED BY <2>2, <4>1 DEF Inherits, ToSet
    <3>3. CASE \E k \in DOMAIN e.batch : BatchId(e.batch, k) = r /\ BatchCase(e.batch, k) = case
      <4>1. PICK k \in 1..n : BatchId(e.batch, k) = r /\ BatchCase(e.batch, k) = case
        BY <1>4, <3>3
      <4>2. BatchCase(f.batch, k) = case /\ (BatchId(f.batch, k) = i \/ Refers(i))
        BY <2>1, <2>2, <4>1
      <4> QED BY <4>2
    <3> QED BY <3>1, <3>2, <3>3
  <2>3. ASSUME case \in {i, CycleOf[i]} \cap Ids, e.caseOf[case] = None
        PROVE  /\ Opens(ToSet(log), i, case)
               /\ \A j \in 1..n : BatchId(f.batch, j) # case
    <3>1. CaseOf(log)[case] = None /\ \A k \in DOMAIN e.batch : BatchId(e.batch, k) # case
      BY <2>3 DEF DeriveInv, MapKnown
    <3>2. \A k \in DOMAIN log : log[k].id # case
      BY <2>3, <3>1, CaseAmongFacts DEF CaseOf
    <3>3. Opens(ToSet(log), i, case) BY <2>3, <3>2 DEF Opens, ToSet
    <3>4. ASSUME NEW j \in 1..n PROVE BatchId(f.batch, j) # case
      <4>1. BatchId(e.batch, j) # case BY <1>4, <3>1
      <4> QED BY <2>1, <4>1
    <3> QED BY <3>3, <3>4
  <2>4. \/ i \in Roots
        \/ \E r \in Ids : e.caseOf[r] = case /\ (r = i \/ Refers(i))
        \/ case \in {i, CycleOf[i]} \cap Ids /\ e.caseOf[case] = None
    BY <1>1, <1>2
  <2> QED BY <1>5, <2>0, <2>2, <2>3, <2>4 DEF FoundedInBatch
<1>14. BatchFounded(f)
  <2> SUFFICES ASSUME NEW k \in 1..(n + 1)
               PROVE  BatchId(f.batch, k) \in f.opens \/ FoundedInBatch(ToSet(log), f.batch, k)
    BY <1>4 DEF BatchFounded
  <2>1. CASE k = n + 1 BY <2>1, <1>13
  <2>2. CASE k \in 1..n
    <3>1. BatchId(e.batch, k) \in e.opens \/ FoundedInBatch(ToSet(log), e.batch, k)
      BY <1>4, <2>2 DEF DeriveInv, BatchFounded
    <3>2. FoundedInBatch(ToSet(log), e.batch, k) => FoundedInBatch(ToSet(log), f.batch, k)
      BY <1>3, <1>4, <2>2, FoundedPrefix DEF x, n
    <3> QED BY <1>6, <2>2, <3>1, <3>2
  <2> QED BY <1>7, <2>1, <2>2
<1> QED BY <1>10, <1>11, <1>12, <1>14 DEF DeriveInv

\* Planning one event keeps it.
LEMMA PlanEventKeeps ==
    ASSUME log \in Seq(LogRows), NEW snap \in SUBSET AllPairs, NEW d, DeriveInv(snap, d),
           NEW pr \in snap
    PROVE  DeriveInv(snap, PlanEvent(d, pr))
<1> DEFINE i == pr[2]
           carries == pr[1] \in Carriers
           q == IF carries THEN CycleOf[i] ELSE None
           d1 == [d EXCEPT !.seen = @ \cup {pr}]
           e == EnsureCycleRow(d1, q)
           cycle == CycleRow(i, carries, e.stored)
           refs == RefsIn(i, carries)
           case == DecideCaseId(i, refs, cycle, e.caseOf)
           f == [e EXCEPT !.caseOf[i] = IF @ = None THEN case ELSE @,
                          !.batch = Append(@, <<pr, case>>)]
<1>1. /\ pr \in AllPairs /\ i \in Ids /\ CycleOf[i] \in Ids \cup {None}
      /\ q \in Ids \cup {None} /\ d \in Derivations
  BY CasesAssumption DEF AllPairs, DeriveInv
<1>2. DeriveInv(snap, d1)
  <2>1. /\ d1 \in Derivations /\ d1.caseOf = d.caseOf /\ d1.stored = d.stored
        /\ d1.opens = d.opens /\ d1.batch = d.batch
    BY <1>1 DEF Derivations
  <2> HIDE DEF d1
  <2> QED BY <2>1 DEF DeriveInv, StoredKnown, BatchKnown, MapKnown, BatchFounded
<1>3. DeriveInv(snap, e)
  <2> HIDE DEF d1, q
  <2> QED BY <1>1, <1>2, EnsureKeeps
<1>4. CASE pr \in d.seen
  BY <1>4 DEF PlanEvent
<1>5. CASE pr \notin d.seen
  <2>1. PlanEvent(d, pr) = f BY <1>5 DEF PlanEvent
  <2>2. /\ refs \in Seq(Ids) /\ cycle \in Ids \cup {None}
        /\ refs # <<>> \/ cycle # None => Refers(i)
        /\ cycle # None => cycle = CycleOf[i]
    BY <1>1, PayloadFacts DEF Refers
  <2>3. e \in Derivations BY <1>3 DEF DeriveInv
  <2> HIDE DEF e, cycle, refs
  <2>4. case \in CaseIds /\ Decided(i, case, e.caseOf)
    <3>1. /\ case \in CaseIds
          /\ i \in Roots => case = i
          /\ i \notin Roots /\ e.caseOf[i] # None => case = e.caseOf[i]
          /\ i \notin Roots /\ e.caseOf[i] = None =>
                 \/ \E r \in Ids : e.caseOf[r] = case /\ (refs # <<>> \/ cycle # None)
                 \/ case \in {i, cycle} \cap Ids /\ e.caseOf[case] = None
      BY <1>1, <2>2, <2>3, DecideFacts DEF Derivations
    <3> HIDE DEF case, i
    <3>2. None \notin Ids BY CasesAssumption DEF CaseIds
    <3> QED BY <2>2, <3>1, <3>2 DEF Decided
  <2> HIDE DEF case
  <2>5. /\ <<pr, case>> \in BatchRows
        /\ Append(e.batch, <<pr, case>>) \in Seq(BatchRows)
    BY <1>1, <2>3, <2>4, AppendProperties DEF Derivations, BatchRows
  <2>6. /\ f \in Derivations /\ f.stored = e.stored /\ f.opens = e.opens
        /\ \A j \in Ids : f.caseOf[j] = IF j = i /\ e.caseOf[j] = None THEN case ELSE e.caseOf[j]
        /\ f.batch = Append(e.batch, <<pr, case>>)
    BY <1>1, <2>3, <2>4, <2>5 DEF Derivations
  <2> HIDE DEF f
  <2>7. DeriveInv(snap, f)
    BY <1>3, <2>4, <2>6, AppendKeeps
  <2> QED BY <2>1, <2>7
<1> QED BY <1>4, <1>5

\* So it holds after every planned event.
LEMMA DerivationKeeps ==
    ASSUME log \in Seq(LogRows), NEW snap \in SUBSET AllPairs
    PROVE  \A k \in 0..Len(Plan) : DeriveInv(snap, Derivation(snap, log)[k])
<1> DEFINE d == Derivation(snap, log)
           n == Len(Plan)
           T == {k \in 0..n : DeriveInv(snap, d[k])}
<1>1. n \in Nat BY CasesAssumption, LenProperties
<1>2. /\ d[0] = Begun(snap, log)
      /\ \A k \in 1..n : d[k] = IF Plan[k] \in snap THEN PlanEvent(d[k - 1], Plan[k]) ELSE d[k - 1]
  BY DerivationSteps
<1> HIDE DEF d, n
<1>3. 0 \in T BY <1>1, <1>2, BeginsRight
<1>4. ASSUME NEW k \in 0..(n - 1), k \in T PROVE k + 1 \in T
  <2>1. k + 1 \in 1..n /\ k + 1 \in 0..n /\ (k + 1) - 1 = k BY <1>1
  <2>2. d[k + 1] = IF Plan[k + 1] \in snap THEN PlanEvent(d[k], Plan[k + 1]) ELSE d[k]
    BY <1>2, <2>1
  <2>3. DeriveInv(snap, d[k + 1]) BY <1>4, <2>2, PlanEventKeeps
  <2> QED BY <2>1, <2>3
<1>5. \A k \in 0..n : k \in T
  <2> HIDE DEF T
  <2> QED BY <1>1, <1>3, <1>4, SetInduction
<1> QED BY <1>5 DEF d, n

\* What a pass decides.
LEMMA DeriveKeeps ==
    ASSUME log \in Seq(LogRows), NEW snap \in SUBSET AllPairs
    PROVE  DeriveInv(snap, Derive(snap, log))
<1>1. Len(Plan) \in 0..Len(Plan) BY CasesAssumption, LenProperties
<1> QED BY <1>1, DerivationKeeps DEF Derive
-----------------------------------------------------------------------------
(* The log grows and is wiped.                                             *)

\* New rows change nothing about what was seen.
LEMMA SeenGrows ==
    ASSUME NEW R, NEW N, NEW n \in Nat, \A e \in N : e.n \in Nat /\ e.n > n,
           NEW saw \in SUBSET (0..n)
    PROVE  /\ Seen(R \cup N, saw) = Seen(R, saw)
           /\ (saw \subseteq NumbersOf(R \cup N)) = (saw \subseteq NumbersOf(R))
<1>0. \A e \in N : e.n \notin saw OBVIOUS
<1>1. Seen(R \cup N, saw) = Seen(R, saw) BY <1>0 DEF Seen
<1>2. saw \subseteq NumbersOf(R \cup N) <=> saw \subseteq NumbersOf(R) BY <1>0 DEF NumbersOf
<1> QED BY <1>1, <1>2

\* A decision made on the rows numbered so far is as good when more arrive.
LEMMA DecisionGrows ==
    ASSUME NEW R, NEW N, NEW n \in Nat, \A e \in N : e.n \in Nat /\ e.n > n,
           NEW saw \in SUBSET (0..n)
    PROVE  \A i, case : DecisionHolds(R, i, case, saw) => DecisionHolds(R \cup N, i, case, saw)
BY SeenGrows DEF DecisionHolds

\* Nothing that rests on rows that are gone is claimed of it.
LEMMA DecisionWiped ==
    ASSUME NEW R, NEW saw
    PROVE  /\ saw \subseteq NumbersOf({}) => saw = {}
           /\ Seen({}, saw) = {} /\ Seen(R, {}) = {} /\ Seen({}, {}) = {}
           /\ \A i, case : Keeps(Seen(R, saw), i, case) => Keeps(Seen({}, saw), i, case)
           /\ \A i, case : DecisionHolds(R, i, case, saw) => DecisionHolds({}, i, case, saw)
<1>1. /\ saw \subseteq NumbersOf({}) => saw = {}
      /\ Seen({}, saw) = {} /\ Seen(R, {}) = {} /\ Seen({}, {}) = {}
  BY DEF NumbersOf, Seen
<1>2. \A i, case : Keeps(Seen(R, saw), i, case) => Keeps(Seen({}, saw), i, case)
  BY <1>1 DEF Keeps
<1>3. ASSUME NEW i, NEW case, DecisionHolds(R, i, case, saw)
      PROVE  DecisionHolds({}, i, case, saw)
  <2>1. ASSUME saw \subseteq NumbersOf({}) PROVE Founded(Seen({}, saw), i, case)
    <3>1. saw = {} /\ saw \subseteq NumbersOf(R) BY <1>1, <2>1
    <3> QED BY <1>1, <1>3, <3>1 DEF DecisionHolds
  <2> QED BY <1>2, <1>3, <2>1 DEF DecisionHolds
<1> QED BY <1>1, <1>2, <1>3

\* What a command decided holds of a log that has grown.
LEMMA ClientGrows ==
    ASSUME NEW R, NEW N, NEW n \in Nat, \A e \in N : e.n \in Nat /\ e.n > n,
           NEW s, NEW st, NEW st2, st \subseteq st2, NEW n2 \in Nat, n <= n2,
           ClientOK(R, s, st, n)
    PROVE  ClientOK(R \cup N, s, st2, n2)
<1>1. HasRow(s.pr[2], st) => HasRow(s.pr[2], st2) BY DEF HasRow
<1>2. ASSUME s.at = "insert"
      PROVE  /\ s.saw \subseteq 0..n2
             /\ ~s.pinned => DecisionHolds(R \cup N, s.pr[2], s.case, s.saw)
  <2>1. s.saw \subseteq 0..n /\ (~s.pinned => DecisionHolds(R, s.pr[2], s.case, s.saw))
    BY <1>2 DEF ClientOK
  <2>2. s.saw \subseteq 0..n2 BY <2>1
  <2>3. s.saw \in SUBSET (0..n) BY <2>1
  <2> QED BY <2>1, <2>2, <2>3, DecisionGrows
<1> QED BY <1>1, <1>2 DEF ClientOK

\* And of one that was wiped.
LEMMA ClientWiped ==
    ASSUME NEW R, NEW s, NEW st, NEW n, ClientOK(R, s, st, n)
    PROVE  ClientOK({}, s, st, n)
BY DecisionWiped DEF ClientOK

\* What a pass decided holds of a log that has grown.
LEMMA PassGrows ==
    ASSUME NEW R, NEW N, NEW n \in Nat, \A e \in N : e.n \in Nat /\ e.n > n,
           NEW p, NEW st, NEW st2, st \subseteq st2, NEW n2 \in Nat, n <= n2,
           PassOK(R, p, st, n)
    PROVE  PassOK(R \cup N, p, st2, n2)
<1>1. \A i : HasRow(i, st) => HasRow(i, st2) BY DEF HasRow
<1>2. p.at = "log" => p.snap \subseteq st2 BY DEF PassOK
<1>3. ASSUME p.at = "emit"
      PROVE  /\ p.saw \subseteq 0..n2
             /\ Seen(R \cup N, p.saw) = Seen(R, p.saw)
             /\ p.saw \subseteq NumbersOf(R \cup N) => p.saw \subseteq NumbersOf(R)
  <2>1. p.saw \in SUBSET (0..n) BY <1>3 DEF PassOK
  <2>2. p.saw \subseteq 0..n2 BY <2>1
  <2> DEFINE saw == p.saw
  <2>3. saw \in SUBSET (0..n) BY <2>1
  <2> HIDE DEF saw
  <2>4. /\ Seen(R \cup N, saw) = Seen(R, saw)
        /\ (saw \subseteq NumbersOf(R \cup N)) = (saw \subseteq NumbersOf(R))
    BY <2>3, SeenGrows
  <2> QED BY <2>2, <2>4 DEF saw
<1> QED BY <1>1, <1>2, <1>3 DEF PassOK

\* And of one that was wiped.
LEMMA PassWiped ==
    ASSUME NEW R, NEW p, NEW st, NEW n, PassOK(R, p, st, n)
    PROVE  PassOK({}, p, st, n)
<1>1. /\ \A i, case : Keeps(Seen(R, p.saw), i, case) => Keeps(Seen({}, p.saw), i, case)
      /\ p.saw \subseteq NumbersOf({}) => p.saw \subseteq NumbersOf(R) /\ Seen({}, p.saw) = Seen(R, p.saw)
  BY DecisionWiped
<1> QED BY <1>1 DEF PassOK
\* Rows N arrive in the log: what holds of it and of the decisions under way
\* goes on to hold if it holds of the new rows.
LEMMA LogGrows ==
    ASSUME NEW R, NEW N, NEW n \in Nat, NEW n2 \in Nat, n <= n2,
           NEW st, NEW st2, st \subseteq st2,
           \A e \in R : e.n \in Nat /\ e.saw \in SUBSET Nat,
           \A e \in N : e.n \in Nat /\ e.n > n,
           LogOK(R, st, n),
           \A e \in N : /\ e.n <= n2
                        /\ \A m \in e.saw : m < e.n
                        /\ HasRow(e.id, st2)
                        /\ ~e.pinned => DecisionHolds(R \cup N, e.id, e.case, e.saw),
           \A e, f \in N : e.n = f.n => e = f
    PROVE  LogOK(R \cup N, st2, n2)
<1>1. ASSUME NEW e \in R
      PROVE  /\ e.n \in 1..n /\ e.n \in 1..n2
             /\ \A m \in e.saw : m < e.n
             /\ HasRow(e.id, st2)
             /\ ~e.pinned => DecisionHolds(R \cup N, e.id, e.case, e.saw)
  <2>1. /\ e.n \in 1..n /\ \A m \in e.saw : m < e.n
        /\ HasRow(e.id, st) /\ (~e.pinned => DecisionHolds(R, e.id, e.case, e.saw))
    BY DEF LogOK
  <2>2. e.n \in 1..n2 BY <2>1
  <2>3. HasRow(e.id, st2) BY <2>1 DEF HasRow
  <2> DEFINE saw == e.saw
  <2>4. saw \in SUBSET (0..n) BY <2>1
  <2> HIDE DEF saw
  <2>5. DecisionHolds(R, e.id, e.case, saw) => DecisionHolds(R \cup N, e.id, e.case, saw)
    BY <2>4, DecisionGrows
  <2> QED BY <2>1, <2>2, <2>3, <2>5 DEF saw
<1>2. \A e \in N : e.n \in 1..n2 /\ e.n \notin 1..n OBVIOUS
<1>3. \A e, f \in R : e.n = f.n => e = f BY DEF LogOK
<1> QED BY <1>1, <1>2, <1>3 DEF LogOK

\* The rows of a log and their numbers.
LEMMA LogRowsOf ==
    ASSUME NEW lg \in Seq(LogRows)
    PROVE  /\ ToSet(lg) \in SUBSET LogRows
           /\ \A e \in ToSet(lg) : e.n \in Nat /\ e.saw \in SUBSET Nat
           /\ Numbers(lg) = NumbersOf(ToSet(lg))
           /\ Seen(ToSet(lg), Numbers(lg)) = ToSet(lg)
<1>1. ToSet(lg) \in SUBSET LogRows BY LenProperties, ElementOfSeq DEF ToSet
<1>2. Numbers(lg) = NumbersOf(ToSet(lg)) BY DEF Numbers, NumbersOf, ToSet
<1>3. Seen(ToSet(lg), Numbers(lg)) = ToSet(lg) BY <1>2 DEF Seen, NumbersOf
<1> QED BY <1>1, <1>2, <1>3 DEF LogRows

\* Rows that are added to the log, decided as they should be, keep the
\* invariant.
LEMMA Grows ==
    ASSUME CasesTypeOK, CasesInv, rows \subseteq rows', stamp <= stamp', stamp' \in Nat,
           NEW N, ToSet(log)' = ToSet(log) \cup N,
           \A e \in N : e.n \in Nat /\ e.n > stamp,
           \A e \in N : /\ e.n <= stamp'
                        /\ \A m \in e.saw : m < e.n
                        /\ HasRow(e.id, rows')
                        /\ ~e.pinned => DecisionHolds(ToSet(log) \cup N, e.id, e.case, e.saw),
           \A e, f \in N : e.n = f.n => e = f
    PROVE  /\ LogOK(ToSet(log)', rows', stamp')
           /\ \A c \in Clients : ClientOK(ToSet(log)', client[c], rows', stamp')
           /\ PassOK(ToSet(log)', pass, rows', stamp')
<1> DEFINE R == ToSet(log)
<1>1. /\ stamp \in Nat
      /\ \A e \in R : e.n \in Nat /\ e.saw \in SUBSET Nat
  BY LogRowsOf DEF CasesTypeOK
<1>2. /\ LogOK(R, rows, stamp)
      /\ \A c \in Clients : ClientOK(R, client[c], rows, stamp)
      /\ PassOK(R, pass, rows, stamp)
  BY DEF CasesInv
<1> HIDE DEF R
<1>3. ToSet(log)' = R \cup N BY DEF R
<1>4. \A e \in N : ~e.pinned => DecisionHolds(R \cup N, e.id, e.case, e.saw) BY DEF R
<1>5. LogOK(R \cup N, rows', stamp') BY <1>1, <1>2, <1>4, LogGrows
<1>6. \A c \in Clients : ClientOK(R \cup N, client[c], rows', stamp')
  BY <1>1, <1>2, ClientGrows
<1>7. PassOK(R \cup N, pass, rows', stamp')
  BY <1>1, <1>2, PassGrows
<1> QED BY <1>3, <1>5, <1>6, <1>7

\* The log stays.
LEMMA Stays ==
    ASSUME CasesTypeOK, CasesInv, rows \subseteq rows', stamp' = stamp, log' = log
    PROVE  /\ LogOK(ToSet(log)', rows', stamp')
           /\ \A c \in Clients : ClientOK(ToSet(log)', client[c], rows', stamp')
           /\ PassOK(ToSet(log)', pass, rows', stamp')
<1> DEFINE N == {}
<1>1. ToSet(log)' = ToSet(log) \cup N OBVIOUS
<1>2. stamp \in Nat /\ stamp <= stamp' /\ stamp' \in Nat BY DEF CasesTypeOK
<1>3. \A e : e \notin N OBVIOUS
<1> HIDE DEF N
<1> QED BY <1>1, <1>2, <1>3, Grows

\* The invariant outlasts a wipe.
LEMMA Wiped ==
    ASSUME CasesTypeOK, CasesInv, log' = <<>>, UNCHANGED <<rows, client, pass, stamp>>, ops' \in Nat
    PROVE  CasesTypeOK' /\ CasesInv'
<1>1. ToSet(log)' = {} BY EmptySeq, LenProperties DEF ToSet
<1>2. <<>> \in Seq(LogRows) BY EmptySeq
<1>3. CasesTypeOK' BY <1>2 DEF CasesTypeOK
<1>4. LogOK({}, rows, stamp) BY DEF LogOK
<1>5. \A c \in Clients : ClientOK({}, client[c], rows, stamp) BY ClientWiped DEF CasesInv
<1>6. PassOK({}, pass, rows, stamp) BY PassWiped DEF CasesInv
<1> QED BY <1>1, <1>3, <1>4, <1>5, <1>6 DEF CasesInv
-----------------------------------------------------------------------------
(* The steps of a command.                                                 *)

\* What a command knows at each of its places.
LEMMA ClientShape ==
    ASSUME NEW s \in ClientStates
    PROVE  /\ s.at = "idle" <=> s = Idle
           /\ s # Idle => s.pr \in AllPairs /\ s.pr[2] \in Ids
           /\ s.at = "cycle" => s.carries \in BOOLEAN
           /\ s.at = "log" => s.carries \in BOOLEAN /\ s.cycle \in Ids \cup {None}
           /\ s.at = "insert" => s.case \in CaseIds /\ s.pinned \in BOOLEAN /\ s.saw \in SUBSET Nat
BY DEF ClientStates, Idle, AllPairs

\* A step of one command that leaves the log and the pass alone.
LEMMA ClientMoves ==
    ASSUME CasesTypeOK, CasesInv, NEW c \in Clients, NEW s \in ClientStates,
           client' = [client EXCEPT ![c] = s],
           rows \subseteq rows', rows' \in SUBSET AllPairs, ops' \in Nat,
           UNCHANGED <<log, pass, stamp>>,
           ClientOK(ToSet(log), s, rows', stamp)
    PROVE  CasesTypeOK' /\ CasesInv'
<1>1. CasesTypeOK' BY DEF CasesTypeOK
<1>2. /\ LogOK(ToSet(log)', rows', stamp')
      /\ \A b \in Clients : ClientOK(ToSet(log)', client[b], rows', stamp')
      /\ PassOK(ToSet(log)', pass, rows', stamp')
  BY Stays
<1>3. ToSet(log)' = ToSet(log) OBVIOUS
<1>4. ASSUME NEW b \in Clients PROVE ClientOK(ToSet(log)', client'[b], rows', stamp')
  <2>1. client'[b] = IF b = c THEN s ELSE client[b] BY DEF CasesTypeOK
  <2> QED BY <1>2, <1>3, <2>1
<1> QED BY <1>1, <1>2, <1>4 DEF CasesInv

\* The row is written.
LEMMA CommandWritesKeeps ==
    ASSUME CasesTypeOK, CasesInv, NEW c \in Clients, NEW pr \in Pairs, NEW carries \in BOOLEAN,
           NEW pin \in Pinned \cup {None}, CommandWrites(c, pr, carries, pin)
    PROVE  CasesTypeOK' /\ CasesInv'
<1> DEFINE s == IF pin # None
                THEN [at |-> "insert", pr |-> pr, case |-> pin, pinned |-> TRUE, saw |-> {}]
                ELSE [at |-> "cycle", pr |-> pr, carries |-> carries]
<1>1. pr \in AllPairs BY GraphsAssumption DEF AllPairs
<1>2. /\ client' = [client EXCEPT ![c] = s] /\ rows' = rows \cup {pr} /\ ops' = ops + 1
      /\ UNCHANGED <<log, pass, stamp>>
  BY DEF CommandWrites, Count
<1>3. s \in ClientStates BY <1>1 DEF ClientStates, CaseIds
<1>4. rows' \in SUBSET AllPairs /\ rows \subseteq rows' /\ ops' \in Nat
  BY <1>1, <1>2 DEF CasesTypeOK
<1>5. HasRow(pr[2], rows') BY <1>2 DEF HasRow
<1>6. ClientOK(ToSet(log), s, rows', stamp) BY <1>5 DEF ClientOK
<1> HIDE DEF s
<1> QED BY <1>2, <1>3, <1>4, <1>6, ClientMoves

\* The cycle row is looked up.
LEMMA FindsCycleRowKeeps ==
    ASSUME CasesTypeOK, CasesInv, NEW c \in Clients, FindsCycleRow(c)
    PROVE  CasesTypeOK' /\ CasesInv'
<1> DEFINE o == client[c]
           s == [at |-> "log", pr |-> o.pr, carries |-> o.carries,
                 cycle |-> CycleRow(o.pr[2], o.carries, rows)]
<1>1. o \in ClientStates /\ o.at = "cycle" BY DEF CasesTypeOK, FindsCycleRow
<1>2. o # Idle /\ o.pr \in AllPairs /\ o.pr[2] \in Ids /\ o.carries \in BOOLEAN
  BY <1>1, ClientShape DEF Idle
<1>3. client' = [client EXCEPT ![c] = s] /\ UNCHANGED <<log, rows, pass, stamp, ops>>
  BY DEF FindsCycleRow
<1>4. /\ CycleRow(o.pr[2], o.carries, rows) \in Ids \cup {None}
      /\ CycleRow(o.pr[2], o.carries, rows) \in {None, CycleOf[o.pr[2]]}
  BY <1>2, PayloadFacts
<1>5. s \in ClientStates BY <1>2, <1>4 DEF ClientStates
<1>6. HasRow(s.pr[2], rows) BY <1>2 DEF CasesInv, ClientOK
<1>7. ClientOK(ToSet(log), s, rows', stamp) BY <1>3, <1>4, <1>6 DEF ClientOK
<1>8. rows' \in SUBSET AllPairs /\ ops' \in Nat BY <1>3 DEF CasesTypeOK
<1> HIDE DEF s
<1> QED BY <1>3, <1>5, <1>7, <1>8, ClientMoves

\* A command decides on a read of the instance, its references and its cycle row.
LEMMA CommandDecides ==
    ASSUME NEW lg \in Seq(LogRows), NEW i \in Ids, NEW carries \in BOOLEAN,
           NEW cycle \in Ids \cup {None}, cycle \in {None, CycleOf[i]}
    PROVE  LET case == CorrelateCaseId(i, carries, cycle, lg)
           IN  case \in CaseIds /\ DecisionHolds(ToSet(lg), i, case, Numbers(lg))
<1> DEFINE refs == RefsIn(i, carries)
           C == {i, cycle} \cup ToSet(refs)
           caseOf == CaseAmong(lg, C)
           case == DecideCaseId(i, refs, cycle, caseOf)
           R == ToSet(lg)
<1>1. /\ refs \in Seq(Ids) /\ (refs # <<>> \/ cycle # None => Refers(i))
      /\ None \notin Ids
  BY PayloadFacts, CasesAssumption DEF Refers, CaseIds
<1>2. caseOf \in [Ids -> CaseIds \cup {None}] BY CaseAmongType
<1>3. i \in C /\ (cycle \in Ids => cycle \in C) OBVIOUS
<1> HIDE DEF refs, C
<1>4. /\ case \in CaseIds
      /\ i \in Roots => case = i
      /\ i \notin Roots /\ caseOf[i] # None => case = caseOf[i]
      /\ i \notin Roots /\ caseOf[i] = None =>
             \/ \E r \in Ids : caseOf[r] = case /\ (refs # <<>> \/ cycle # None)
             \/ case \in {i, cycle} \cap Ids /\ caseOf[case] = None
  <2> HIDE DEF caseOf
  <2> QED BY <1>1, <1>2, DecideFacts
<1>5. \A r \in Ids : caseOf[r] # None => \E e \in R : e.id = r /\ e.case = caseOf[r]
  BY CaseAmongFacts DEF ToSet
<1>6. \A r \in Ids : r \in C /\ caseOf[r] = None => \A e \in R : e.id # r
  BY CaseAmongFacts DEF ToSet
<1>7. None \notin CaseIds BY CasesAssumption
<1> HIDE DEF caseOf, case, R
<1>8. Keeps(R, i, case) BY <1>3, <1>4, <1>5, <1>6 DEF Keeps
<1>9. Founded(R, i, case)
  <2>1. CASE i \in Roots BY <2>1 DEF Founded
  <2>2. CASE i \notin Roots /\ caseOf[i] # None
    BY <1>4, <1>5, <2>2 DEF Founded, Inherits
  <2>3. CASE i \notin Roots /\ \E r \in Ids : caseOf[r] = case /\ (refs # <<>> \/ cycle # None)
    BY <1>1, <1>4, <1>5, <1>7, <2>3 DEF Founded, Inherits
  <2>4. CASE case \in {i, cycle} \cap Ids /\ caseOf[case] = None
    <3>1. case \in C /\ case \in Ids /\ case \in {i, CycleOf[i]} BY <1>1, <1>3, <2>4
    <3> QED BY <1>6, <2>4, <3>1 DEF Founded, Opens
  <2> QED BY <1>4, <2>1, <2>2, <2>3, <2>4
<1>10. case = CorrelateCaseId(i, carries, cycle, lg)
  BY DEF case, caseOf, C, refs, CorrelateCaseId
<1>11. Seen(R, Numbers(lg)) = R BY LogRowsOf DEF R
<1> QED BY <1>4, <1>8, <1>9, <1>10, <1>11 DEF DecisionHolds, R

\* The numbers in a log have been given out.
LEMMA NumbersGiven ==
    ASSUME CasesTypeOK, CasesInv
    PROVE  Numbers(log) \in SUBSET (0..stamp) /\ Numbers(log) \in SUBSET Nat
<1>1. \A e \in ToSet(log) : e.n \in 1..stamp BY DEF CasesInv, LogOK
<1> QED BY <1>1, LogRowsOf DEF CasesTypeOK, NumbersOf

\* The log is read and the case decided.
LEMMA ReadsCandidatesKeeps ==
    ASSUME CasesTypeOK, CasesInv, NEW c \in Clients, ReadsCandidates(c)
    PROVE  CasesTypeOK' /\ CasesInv'
<1> DEFINE o == client[c]
           case == CorrelateCaseId(o.pr[2], o.carries, o.cycle, log)
           s == [at |-> "insert", pr |-> o.pr, pinned |-> FALSE, saw |-> Numbers(log), case |-> case]
<1>1. o \in ClientStates /\ o.at = "log" BY DEF CasesTypeOK, ReadsCandidates
<1>2. /\ o # Idle /\ o.pr \in AllPairs /\ o.pr[2] \in Ids /\ o.carries \in BOOLEAN
      /\ o.cycle \in Ids \cup {None}
  BY <1>1, ClientShape DEF Idle
<1>3. o.cycle \in {None, CycleOf[o.pr[2]]} /\ HasRow(o.pr[2], rows)
  BY <1>1, <1>2 DEF CasesInv, ClientOK
<1>4. client' = [client EXCEPT ![c] = s] /\ UNCHANGED <<log, rows, pass, stamp, ops>>
  BY DEF ReadsCandidates
<1>5. case \in CaseIds /\ DecisionHolds(ToSet(log), o.pr[2], case, Numbers(log))
  <2>1. log \in Seq(LogRows) BY DEF CasesTypeOK
  <2> HIDE DEF o
  <2> QED BY <1>2, <1>3, <2>1, CommandDecides
<1> HIDE DEF case
<1>6. s \in ClientStates BY <1>2, <1>5, NumbersGiven DEF ClientStates
<1>7. ClientOK(ToSet(log), s, rows', stamp) BY <1>3, <1>4, <1>5, NumbersGiven DEF ClientOK
<1>8. rows' \in SUBSET AllPairs /\ ops' \in Nat BY <1>4 DEF CasesTypeOK
<1> HIDE DEF s
<1> QED BY <1>4, <1>6, <1>7, <1>8, ClientMoves

\* The command fails.
LEMMA CommandThrowsKeeps ==
    ASSUME CasesTypeOK, CasesInv, NEW c \in Clients, CommandThrows(c)
    PROVE  CasesTypeOK' /\ CasesInv'
<1>1. client' = [client EXCEPT ![c] = Idle] /\ UNCHANGED <<log, rows, pass, stamp, ops>>
  BY DEF CommandThrows
<1>2. Idle \in ClientStates BY DEF ClientStates
<1>3. ClientOK(ToSet(log), Idle, rows', stamp) BY DEF ClientOK, Idle
<1>4. rows' \in SUBSET AllPairs /\ ops' \in Nat BY <1>1 DEF CasesTypeOK
<1> QED BY <1>1, <1>2, <1>3, <1>4, ClientMoves

\* The event is inserted as decided.
LEMMA InsertsKeeps ==
    ASSUME CasesTypeOK, CasesInv, NEW c \in Clients, Inserts(c)
    PROVE  CasesTypeOK' /\ CasesInv'
<1> DEFINE o == client[c]
           e == Entry(stamp + 1, o.pr, o.case, o.pinned, o.saw)
           R == ToSet(log)
           N == {e}
<1>1. /\ client' = [client EXCEPT ![c] = Idle] /\ stamp' = stamp + 1
      /\ log' = Append(log, e) /\ UNCHANGED <<rows, pass, ops>>
  BY DEF Inserts
<1>2. o \in ClientStates /\ o.at = "insert" BY DEF CasesTypeOK, Inserts
<1>3. /\ o.pr \in AllPairs /\ o.pr[2] \in Ids
      /\ o.case \in CaseIds /\ o.pinned \in BOOLEAN /\ o.saw \in SUBSET Nat
  BY <1>2, ClientShape DEF Idle
<1>4. /\ o.saw \in SUBSET (0..stamp) /\ HasRow(o.pr[2], rows)
      /\ ~o.pinned => DecisionHolds(R, o.pr[2], o.case, o.saw)
  BY <1>2 DEF CasesInv, ClientOK, Idle
<1>5. stamp \in Nat /\ stamp' \in Nat /\ stamp <= stamp' BY <1>1 DEF CasesTypeOK
<1>6. /\ e.n = stamp + 1 /\ e.saw = o.saw /\ e.pinned = o.pinned
      /\ e.case = o.case /\ e.id = o.pr[2]
  BY DEF Entry
<1>7. e \in LogRows BY <1>3, <1>5 DEF Entry, LogRows, AllPairs
<1> HIDE DEF e, o
<1>8. log' \in Seq(LogRows) /\ ToSet(log)' = R \cup N
  <2>1. log \in Seq(LogRows) BY DEF CasesTypeOK
  <2>2. /\ log' \in Seq(LogRows) /\ DOMAIN log' = 1..(Len(log) + 1) /\ DOMAIN log = 1..Len(log)
        /\ Len(log) \in Nat
        /\ \A k \in 1..Len(log) : log'[k] = log[k]
        /\ log'[Len(log) + 1] = e
    BY <1>1, <1>7, <2>1, AppendProperties, LenProperties
  <2> QED BY <2>2 DEF ToSet
<1>9. CasesTypeOK'
  <2>1. Idle \in ClientStates BY DEF ClientStates
  <2> QED BY <1>1, <1>5, <1>8, <2>1 DEF CasesTypeOK
<1>10. DecisionHolds(R, o.pr[2], o.case, o.saw) => DecisionHolds(R \cup N, o.pr[2], o.case, o.saw)
  <2> DEFINE saw == o.saw
  <2>1. saw \in SUBSET (0..stamp) BY <1>4
  <2>2. \A f \in N : f.n \in Nat /\ f.n > stamp BY <1>5, <1>6
  <2> HIDE DEF saw, N, R
  <2>3. DecisionHolds(R, o.pr[2], o.case, saw) => DecisionHolds(R \cup N, o.pr[2], o.case, saw)
    BY <1>5, <2>1, <2>2, DecisionGrows
  <2> QED BY <2>3 DEF saw
<1>11. \A f \in N : f.n \in Nat /\ f.n > stamp BY <1>5, <1>6
<1>12. \A f \in N : /\ f.n <= stamp'
                    /\ \A m \in f.saw : m < f.n
                    /\ HasRow(f.id, rows')
                    /\ ~f.pinned => DecisionHolds(ToSet(log) \cup N, f.id, f.case, f.saw)
  <2>1. \A m \in o.saw : m < stamp + 1 BY <1>4, <1>5
  <2>2. HasRow(e.id, rows') BY <1>1, <1>4, <1>6
  <2>3. ~e.pinned => DecisionHolds(ToSet(log) \cup N, e.id, e.case, e.saw) BY <1>4, <1>6, <1>10
  <2> QED BY <1>1, <1>5, <1>6, <2>1, <2>2, <2>3
<1>13. \A f, g \in N : f.n = g.n => f = g OBVIOUS
<1>14. /\ LogOK(ToSet(log)', rows', stamp')
       /\ \A b \in Clients : ClientOK(ToSet(log)', client[b], rows', stamp')
       /\ PassOK(ToSet(log)', pass, rows', stamp')
  <2> HIDE DEF N
  <2>1. rows \subseteq rows' BY <1>1
  <2>2. ToSet(log)' = ToSet(log) \cup N BY <1>8
  <2> HIDE DEF R
  <2> QED BY <1>5, <1>11, <1>12, <1>13, <2>1, <2>2, Grows
<1>15. ASSUME NEW b \in Clients PROVE ClientOK(ToSet(log)', client'[b], rows', stamp')
  <2>1. client'[b] = IF b = c THEN Idle ELSE client[b] BY <1>1 DEF CasesTypeOK
  <2>2. ClientOK(ToSet(log)', Idle, rows', stamp') BY DEF ClientOK, Idle
  <2> QED BY <1>14, <2>1, <2>2
<1> QED BY <1>1, <1>9, <1>14, <1>15 DEF CasesInv

-----------------------------------------------------------------------------
(* The steps of a pass.                                                    *)

\* What a pass knows at each of its places.
LEMMA PassShape ==
    ASSUME NEW p \in PassStates
    PROVE  /\ p.at = "idle" <=> p = Idle
           /\ p.at = "log" => p.snap \in SUBSET AllPairs
           /\ p.at = "emit" => /\ p.opens \in SUBSET Ids /\ p.batch \in Seq(BatchRows)
                               /\ p.saw \in SUBSET Nat
                               /\ p = [at |-> "emit", opens |-> p.opens, batch |-> p.batch,
                                       saw |-> p.saw]
BY DEF PassStates, Idle

\* A step of the pass that leaves the log and the commands alone.
LEMMA PassMoves ==
    ASSUME CasesTypeOK, CasesInv, rows \subseteq rows', rows' \in SUBSET AllPairs, ops' \in Nat,
           pass' \in PassStates, UNCHANGED <<log, client, stamp>>,
           PassOK(ToSet(log), pass', rows', stamp)
    PROVE  CasesTypeOK' /\ CasesInv'
<1>1. CasesTypeOK' BY DEF CasesTypeOK
<1>2. /\ LogOK(ToSet(log)', rows', stamp')
      /\ \A b \in Clients : ClientOK(ToSet(log)', client[b], rows', stamp')
  BY Stays
<1>3. ToSet(log)' = ToSet(log) OBVIOUS
<1> QED BY <1>1, <1>2, <1>3 DEF CasesInv

\* A pulled row lands.
LEMMA RowLandsKeeps ==
    ASSUME CasesTypeOK, CasesInv, NEW i \in Ids, NEW shown, RowLands(i, shown)
    PROVE  CasesTypeOK' /\ CasesInv'
<1>1. /\ rows' = rows \cup shown /\ ops' = ops + 1 /\ UNCHANGED <<log, client, pass, stamp>>
      /\ shown \subseteq Pairs
  BY DEF RowLands, Count
<1>2. rows \subseteq rows' /\ rows' \in SUBSET AllPairs /\ ops' \in Nat
  BY <1>1, GraphsAssumption DEF CasesTypeOK, AllPairs
<1>3. PassOK(ToSet(log)', pass, rows', stamp') BY <1>1, <1>2, Stays
<1>4. ToSet(log)' = ToSet(log) /\ pass' = pass /\ stamp' = stamp BY <1>1
<1>5. PassOK(ToSet(log), pass', rows', stamp) BY <1>3, <1>4
<1>6. pass' \in PassStates BY <1>1 DEF CasesTypeOK
<1> QED BY <1>1, <1>2, <1>5, <1>6, PassMoves

\* The pass reads its tables.
LEMMA PassReadsRowsKeeps ==
    ASSUME CasesTypeOK, CasesInv, PassReadsRows
    PROVE  CasesTypeOK' /\ CasesInv'
<1>1. /\ pass' = [at |-> "log", snap |-> rows] /\ ops' = ops + 1
      /\ UNCHANGED <<log, rows, client, stamp>>
  BY DEF PassReadsRows, Count
<1>2. pass' \in PassStates /\ rows' \in SUBSET AllPairs /\ ops' \in Nat
  BY <1>1 DEF CasesTypeOK, PassStates
<1>3. PassOK(ToSet(log), pass', rows', stamp) BY <1>1 DEF PassOK
<1> QED BY <1>1, <1>2, <1>3, PassMoves

\* The pass fails.
LEMMA PassThrowsKeeps ==
    ASSUME CasesTypeOK, CasesInv, pass' = Idle, UNCHANGED <<log, rows, client, stamp, ops>>
    PROVE  CasesTypeOK' /\ CasesInv'
<1>1. pass' \in PassStates /\ rows' \in SUBSET AllPairs /\ ops' \in Nat
  BY DEF CasesTypeOK, PassStates
<1>2. PassOK(ToSet(log), pass', rows', stamp) BY DEF PassOK, Idle
<1> QED BY <1>1, <1>2, PassMoves

\* What a pass has decided when it has read the log.
LEMMA PassDecides ==
    ASSUME CasesTypeOK, CasesInv, pass.at = "log",
           NEW d, DeriveInv(pass.snap, d),
           NEW k \in DOMAIN d.batch
    PROVE  LET i == BatchId(d.batch, k)
           IN  /\ i \in d.opens \/ HasRow(i, rows)
               /\ \/ i \in d.opens /\ HasRow(i, rows)
                  \/ /\ Keeps(ToSet(log), i, BatchCase(d.batch, k))
                     /\ FoundedInBatch(ToSet(log), d.batch, k)
               /\ i \notin Roots =>
                      \A j \in DOMAIN d.batch :
                          BatchId(d.batch, j) = i => BatchCase(d.batch, j) = BatchCase(d.batch, k)
<1> DEFINE i == BatchId(d.batch, k)
           case == BatchCase(d.batch, k)
           R == ToSet(log)
<1>1. /\ log \in Seq(LogRows) /\ d \in Derivations /\ i \in Ids /\ case \in CaseIds
      /\ None \notin CaseIds
  BY BatchTyped, CasesAssumption DEF CasesTypeOK, DeriveInv
<1>2. pass.snap \subseteq rows BY DEF CasesInv, PassOK
<1>3. case = IF i \in Roots THEN i ELSE d.caseOf[i] BY DEF DeriveInv, MapKnown
<1>4. i \notin Roots => \A j \in DOMAIN d.batch : BatchId(d.batch, j) = i => BatchCase(d.batch, j) = case
  BY <1>3 DEF DeriveInv, MapKnown
<1>5. \A e \in R : HasRow(e.id, rows) BY DEF CasesInv, LogOK
<1>6. CASE i \in d.opens
  <2>1. case = i /\ \A j \in 1..(k - 1) : BatchId(d.batch, j) # i
    BY <1>6 DEF DeriveInv, BatchKnown
  <2>2. ASSUME ~HasRow(i, rows)
        PROVE  Keeps(R, i, case) /\ FoundedInBatch(R, d.batch, k)
    <3>1. \A e \in R : e.id # i BY <1>5, <2>2
    <3>2. Keeps(R, i, case) BY <2>1, <3>1 DEF Keeps
    <3>3. Opens(R, i, case) BY <2>1, <3>1 DEF Opens
    <3> QED BY <2>1, <3>2, <3>3 DEF FoundedInBatch
  <2> QED BY <1>4, <1>6, <2>2
<1>7. CASE i \notin d.opens
  <2>1. HasRow(i, rows)
    <3>1. HasRow(i, pass.snap) BY <1>7 DEF DeriveInv, BatchKnown
    <3> QED BY <1>2, <3>1 DEF HasRow
  <2>2. FoundedInBatch(R, d.batch, k) BY <1>7 DEF DeriveInv, BatchFounded
  <2>3. CaseOf(log)[i] # None => d.caseOf[i] = CaseOf(log)[i]
    BY <1>1, <1>7 DEF DeriveInv, MapKnown
  <2>4. /\ CaseOf(log)[i] = None => \A e \in R : e.id # i
        /\ CaseOf(log)[i] # None => \E e \in R : e.id = i /\ e.case = CaseOf(log)[i]
    BY <1>1, CaseAmongFacts DEF CaseOf, ToSet
  <2>5. Keeps(R, i, case) BY <1>3, <2>3, <2>4 DEF Keeps
  <2> QED BY <1>4, <2>1, <2>2, <2>5
<1> QED BY <1>6, <1>7

\* The pass reads the log and decides its batch.
LEMMA PassReadsLogKeeps ==
    ASSUME CasesTypeOK, CasesInv, PassReadsLog
    PROVE  CasesTypeOK' /\ CasesInv'
<1> DEFINE d == Derive(pass.snap, log)
           p == [at |-> "emit", opens |-> d.opens, batch |-> d.batch, saw |-> Numbers(log)]
           R == ToSet(log)
<1>1. pass.at = "log" /\ pass' = p /\ UNCHANGED <<log, rows, client, stamp, ops>>
  BY DEF PassReadsLog
<1>2. DeriveInv(pass.snap, d)
  BY <1>1, PassShape, DeriveKeeps DEF CasesTypeOK
<1> HIDE DEF d
<1>3. d \in Derivations BY <1>2 DEF DeriveInv
<1>4. p \in PassStates BY <1>3, NumbersGiven DEF PassStates, Derivations
<1>5. Seen(R, Numbers(log)) = R BY LogRowsOf DEF CasesTypeOK
<1>6. PassOK(R, p, rows, stamp)
  <2> DEFINE b == d.batch
  <2>1. p.saw \subseteq 0..stamp /\ Seen(R, p.saw) = R BY <1>5, NumbersGiven
  <2>2. ASSUME NEW k \in DOMAIN b
        PROVE  LET i == BatchId(b, k)
               IN  /\ i \in d.opens \/ HasRow(i, rows)
                   /\ \/ i \in d.opens /\ HasRow(i, rows)
                      \/ /\ Keeps(R, i, BatchCase(b, k))
                         /\ FoundedInBatch(R, b, k)
                   /\ i \notin Roots =>
                          \A j \in DOMAIN b : BatchId(b, j) = i => BatchCase(b, j) = BatchCase(b, k)
    BY <1>1, <1>2, PassDecides
  <2>3. p.at = "emit" /\ p.opens = d.opens /\ p.batch = b OBVIOUS
  <2> HIDE DEF p, b, R
  <2> QED BY <2>1, <2>2, <2>3 DEF PassOK
<1>7. rows \subseteq rows' /\ rows' \in SUBSET AllPairs /\ ops' \in Nat /\ pass' \in PassStates
  BY <1>1, <1>4 DEF CasesTypeOK
<1>8. PassOK(ToSet(log), pass', rows', stamp) BY <1>1, <1>6
<1> HIDE DEF p, R
<1> QED BY <1>1, <1>7, <1>8, PassMoves

\* The pass inserts an opened row, or finds somebody else's and throws.
LEMMA PassOpensKeeps ==
    ASSUME CasesTypeOK, CasesInv, NEW q, PassOpens(q)
    PROVE  CasesTypeOK' /\ CasesInv'
<1>1. pass.at = "emit" /\ q \in pass.opens /\ UNCHANGED <<log, client, stamp, ops>>
  BY DEF PassOpens
<1>2. CASE HasRow(q, rows)
  BY <1>1, <1>2, PassThrowsKeeps DEF PassOpens
<1>3. CASE ~HasRow(q, rows)
  <2> DEFINE R == ToSet(log)
  <2>1. /\ rows' = rows \cup {<<OpenedBy[q], q>>}
        /\ pass' = [pass EXCEPT !.opens = @ \ {q}]
    BY <1>3 DEF PassOpens
  <2>2. /\ pass.opens \in SUBSET Ids /\ pass.batch \in Seq(BatchRows) /\ pass.saw \in SUBSET Nat
        /\ pass = [at |-> "emit", opens |-> pass.opens, batch |-> pass.batch, saw |-> pass.saw]
    BY <1>1, PassShape DEF CasesTypeOK
  <2>3. /\ pass'.at = "emit" /\ pass'.opens = pass.opens \ {q} /\ pass'.batch = pass.batch
        /\ pass'.saw = pass.saw /\ pass' \in PassStates
    BY <2>1, <2>2 DEF PassStates
  <2>4. /\ rows \subseteq rows' /\ rows' \in SUBSET AllPairs /\ ops' \in Nat
    BY <1>1, <2>1, <2>2, GraphsAssumption DEF CasesTypeOK, AllPairs
  <2>5. /\ HasRow(q, rows')
        /\ \A i : HasRow(i, rows) => HasRow(i, rows')
    <3>1. <<OpenedBy[q], q>> \in rows' /\ <<OpenedBy[q], q>>[2] = q /\ rows \subseteq rows' BY <2>1
    <3>2. HasRow(q, rows') BY <3>1 DEF HasRow
    <3>3. \A i : HasRow(i, rows) => HasRow(i, rows') BY <3>1 DEF HasRow
    <3> QED BY <3>2, <3>3
  <2>6. PassOK(R, pass, rows, stamp) BY DEF CasesInv
  <2> HIDE DEF R
  <2>7. PassOK(R, pass', rows', stamp)
    BY <1>1, <1>3, <2>3, <2>5, <2>6 DEF PassOK
  <2> QED BY <1>1, <2>3, <2>4, <2>7, PassMoves DEF R
<1> QED BY <1>2, <1>3
\* The batch's entries: numbered on from stamp, each decided after the ones before.
SawAt(saw, n, k) == saw \cup (n + 1)..(n + k - 1)
NewEntries(b, saw, n) ==
    [k \in 1..Len(b) |-> Entry(n + k, b[k][1], b[k][2], FALSE, SawAt(saw, n, k))]

\* These are numbers.
LEMMA SawAtType ==
    ASSUME NEW saw \in SUBSET Nat, NEW n \in Nat, NEW k \in Nat
    PROVE  n + k \in Nat /\ SawAt(saw, n, k) \subseteq Nat
BY DEF SawAt

\* The fields of a row inserted from the batch.
LEMMA NewEntry ==
    ASSUME NEW b \in Seq(BatchRows), NEW saw \in SUBSET Nat, NEW n \in Nat,
           NEW k \in DOMAIN b
    PROVE  /\ k \in Nat /\ NewEntries(b, saw, n)[k].n = n + k
           /\ NewEntries(b, saw, n)[k].id = BatchId(b, k)
           /\ NewEntries(b, saw, n)[k].case = BatchCase(b, k)
           /\ NewEntries(b, saw, n)[k].saw = SawAt(saw, n, k)
           /\ NewEntries(b, saw, n)[k] \in LogRows
<1> DEFINE e == NewEntries(b, saw, n)[k]
<1>1. k \in 1..Len(b) /\ k \in Nat /\ b[k] \in BatchRows
  BY LenProperties, ElementOfSeq
<1>2. /\ b[k][1][1] \in Events /\ b[k][1][2] \in Ids /\ b[k][2] \in CaseIds
  BY <1>1 DEF BatchRows, AllPairs
<1>3. e = Entry(n + k, b[k][1], b[k][2], FALSE, SawAt(saw, n, k))
  BY <1>1 DEF NewEntries
<1>4. n + k \in Nat /\ SawAt(saw, n, k) \subseteq Nat BY <1>1, SawAtType
<1>5. e \in LogRows BY <1>2, <1>3, <1>4 DEF Entry, LogRows
<1> HIDE DEF e
<1>6. /\ e.n = n + k
      /\ e.id = BatchId(b, k) /\ e.case = BatchCase(b, k)
      /\ e.saw = SawAt(saw, n, k)
  BY <1>3 DEF Entry, BatchId, BatchCase
<1> QED BY <1>1, <1>5, <1>6 DEF e

\* They are rows of the log.
LEMMA NewEntriesType ==
    ASSUME NEW b \in Seq(BatchRows), NEW saw \in SUBSET Nat, NEW n \in Nat
    PROVE  LET new == NewEntries(b, saw, n)
           IN  /\ new \in Seq(LogRows) /\ Len(new) = Len(b)
               /\ DOMAIN new = 1..Len(b)
<1> DEFINE new == NewEntries(b, saw, n)
           N == Len(b)
<1>1. N \in Nat BY LenProperties
<1>2. \A k \in 1..N : new[k] \in LogRows
  <2>1. DOMAIN b = 1..N BY LenProperties
  <2>2. \A k \in DOMAIN b : new[k] \in LogRows BY NewEntry
  <2> QED BY <2>1, <2>2
<1>3. new = [k \in 1..N |-> new[k]] BY DEF NewEntries
<1> HIDE DEF new, N
<1>4. new \in [1..N -> LogRows] BY <1>2, <1>3
<1>5. new \in Seq(LogRows) /\ Len(new) = N BY <1>1, <1>4, SeqDef, LenProperties
<1>6. DOMAIN new = 1..N BY <1>3
<1> QED BY <1>5, <1>6 DEF new, N

\* A decision of the batch holds in the log that has the batch.
LEMMA BatchDecisions ==
    ASSUME NEW R, NEW p, NEW st, NEW n \in Nat, PassOK(R, p, st, n), p.at = "emit", p.opens = {},
           p.batch \in Seq(BatchRows), p.saw \in SUBSET Nat,
           \A e \in R : e.n \in 1..n,
           NEW k \in 1..Len(p.batch)
    PROVE  LET new == NewEntries(p.batch, p.saw, n)
           IN  DecisionHolds(R \cup ToSet(new), new[k].id, new[k].case, new[k].saw)
<1> DEFINE new == NewEntries(p.batch, p.saw, n)
           N == Len(p.batch)
           S0 == Seen(R, p.saw)
           saw == SawAt(p.saw, n, k)
           Sk == Seen(R \cup ToSet(new), saw)
           i == BatchId(p.batch, k)
           case == BatchCase(p.batch, k)
<1>1. /\ N \in Nat /\ DOMAIN p.batch = 1..N /\ DOMAIN new = 1..N
      /\ \A j \in 1..N : /\ new[j].n = n + j
                         /\ new[j].id = BatchId(p.batch, j) /\ new[j].case = BatchCase(p.batch, j)
      /\ new[k].saw = saw /\ new[k].id = i /\ new[k].case = case
  <2>1. DOMAIN p.batch = 1..N /\ N \in Nat BY LenProperties
  <2>2. DOMAIN new = 1..N BY NewEntriesType
  <2>3. \A j \in 1..N : /\ new[j].n = n + j
                       /\ new[j].id = BatchId(p.batch, j) /\ new[j].case = BatchCase(p.batch, j)
                       /\ new[j].saw = SawAt(p.saw, n, j)
    <3>1. ASSUME NEW j \in DOMAIN p.batch
          PROVE  /\ new[j].n = n + j
                 /\ new[j].id = BatchId(p.batch, j) /\ new[j].case = BatchCase(p.batch, j)
                 /\ new[j].saw = SawAt(p.saw, n, j)
      BY NewEntry
    <3> QED BY <2>1, <3>1
  <2> HIDE DEF new, i, case
  <2> QED BY <2>1, <2>2, <2>3 DEF i, case
<1>2. /\ p.saw \in SUBSET (0..n)
      /\ Keeps(S0, i, case)
      /\ p.saw \subseteq NumbersOf(R) => FoundedInBatch(S0, p.batch, k)
      /\ i \notin Roots => \A j \in 1..N : BatchId(p.batch, j) = i => BatchCase(p.batch, j) = case
  BY <1>1 DEF PassOK
<1>3. \A e \in ToSet(new) : \E j \in 1..N : e = new[j] BY <1>1 DEF ToSet
<1>4. \A j \in 1..N : new[j] \in ToSet(new) BY <1>1 DEF ToSet
<1> HIDE DEF new, N, i, case
<1>5. S0 \subseteq Sk BY DEF Seen, SawAt
<1>6. \A j \in 1..(k - 1) : j \in 1..N /\ new[j] \in Sk
  <2> SUFFICES ASSUME NEW j \in 1..(k - 1) PROVE j \in 1..N /\ new[j] \in Sk OBVIOUS
  <2>1. j \in 1..N BY <1>1 DEF N
  <2>2. new[j].n \in (n + 1)..(n + k - 1) BY <1>1, <2>1 DEF N
  <2> QED BY <1>4, <2>1, <2>2 DEF Seen, SawAt
<1>7. ASSUME NEW e \in Sk PROVE e \in S0 \/ \E j \in 1..(k - 1) : e = new[j]
  <2>1. e.n \in saw BY DEF Seen
  <2>2. CASE e \in R
    <3>1. e.n \in p.saw BY <2>1, <2>2 DEF SawAt
    <3> QED BY <2>2, <3>1 DEF Seen
  <2>3. CASE e \in ToSet(new)
    <3>1. PICK j \in 1..N : e = new[j] BY <1>3, <2>3
    <3>2. e.n = n + j BY <1>1, <3>1
    <3>3. n + j \notin p.saw BY <1>2
    <3>4. j \in 1..(k - 1) BY <1>1, <2>1, <3>2, <3>3 DEF N, SawAt
    <3> QED BY <3>1, <3>4
  <2> QED BY <2>2, <2>3 DEF Seen
<1> HIDE DEF S0, Sk
<1>8. Keeps(Sk, i, case)
  <2>1. CASE i \in Roots BY <1>2, <2>1 DEF Keeps
  <2>2. CASE i \notin Roots
    <3> SUFFICES ASSUME NEW e \in Sk, e.id = i PROVE \E f \in Sk : f.id = i /\ f.case = case
      BY <2>2 DEF Keeps
    <3>1. CASE e \in S0 BY <1>2, <1>5, <2>2, <3>1 DEF Keeps
    <3>2. CASE \E j \in 1..(k - 1) : e = new[j]
      <4>1. PICK j \in 1..(k - 1) : e = new[j] BY <3>2
      <4>2. j \in 1..N BY <1>6
      <4> QED BY <1>1, <1>2, <2>2, <4>1, <4>2
    <3> QED BY <1>7, <3>1, <3>2
  <2> QED BY <2>1, <2>2
<1>9. ASSUME saw \subseteq NumbersOf(R \cup ToSet(new)) PROVE Founded(Sk, i, case)
  <2>1. p.saw \subseteq NumbersOf(R)
    <3> SUFFICES ASSUME NEW m \in p.saw PROVE m \in NumbersOf(R) OBVIOUS
    <3>1. PICK e \in R \cup ToSet(new) : e.n = m BY <1>9 DEF NumbersOf, SawAt
    <3>2. m \in 0..n BY <1>2
    <3>3. e \notin ToSet(new) BY <1>1, <1>3, <3>1, <3>2
    <3> QED BY <3>1, <3>3 DEF NumbersOf
  <2>2. FoundedInBatch(S0, p.batch, k) BY <1>2, <2>1
  <2>3. CASE i \in Roots BY <2>3 DEF Founded
  <2>4. CASE Inherits(S0, i, case) BY <1>5, <2>4 DEF Founded, Inherits
  <2>5. CASE \E j \in 1..(k - 1) :
                BatchCase(p.batch, j) = case /\ (BatchId(p.batch, j) = i \/ Refers(i))
    BY <1>1, <1>6, <2>5 DEF Founded, Inherits
  <2>6. CASE Opens(S0, i, case) /\ \A j \in 1..(k - 1) : BatchId(p.batch, j) # case
    <3>1. \A e \in Sk : e.id # case BY <1>1, <1>6, <1>7, <2>6 DEF Opens
    <3> QED BY <2>6, <3>1 DEF Founded, Opens
  <2> QED BY <2>2, <2>3, <2>4, <2>5, <2>6 DEF FoundedInBatch, i, case
<1> QED BY <1>1, <1>8, <1>9 DEF DecisionHolds, Sk, new

\* The batch is inserted.
LEMMA PassEmitsKeeps ==
    ASSUME CasesTypeOK, CasesInv, pass.at = "emit", pass.opens = {},
           NEW S \in SUBSET (1..(Len(log) + Len(pass.batch))), PassEmits(S)
    PROVE  CasesTypeOK' /\ CasesInv'
<1> DEFINE new == NewEntries(pass.batch, pass.saw, stamp)
           R == ToSet(log)
           N == ToSet(new)
           n == Len(pass.batch)
<1>1. /\ Cardinality(S) = n /\ log' = Merged(log, new, S) /\ stamp' = stamp + n
      /\ pass' = Idle /\ UNCHANGED <<rows, client, ops>>
  BY DEF PassEmits, NewEntries, SawAt
<1>2. /\ pass.batch \in Seq(BatchRows) /\ pass.saw \in SUBSET Nat
      /\ log \in Seq(LogRows) /\ stamp \in Nat
  BY PassShape DEF CasesTypeOK
<1>3. PassOK(R, pass, rows, stamp) /\ LogOK(R, rows, stamp) BY DEF CasesInv
<1>4. /\ new \in Seq(LogRows) /\ Len(new) = n
      /\ DOMAIN pass.batch = 1..n /\ DOMAIN new = 1..n /\ n \in Nat
      /\ \A k \in 1..n :
             /\ new[k].n = stamp + k
             /\ new[k].id = BatchId(pass.batch, k) /\ new[k].case = BatchCase(pass.batch, k)
             /\ new[k].saw = SawAt(pass.saw, stamp, k)
  <2>1. DOMAIN pass.batch = 1..n /\ n \in Nat BY <1>2, LenProperties
  <2>2. new \in Seq(LogRows) /\ Len(new) = n /\ DOMAIN new = 1..n BY <1>2, NewEntriesType
  <2>3. \A k \in 1..n :
             /\ new[k].n = stamp + k
             /\ new[k].id = BatchId(pass.batch, k) /\ new[k].case = BatchCase(pass.batch, k)
             /\ new[k].saw = SawAt(pass.saw, stamp, k)
    <3>1. ASSUME NEW k \in DOMAIN pass.batch
          PROVE  /\ new[k].n = stamp + k
                 /\ new[k].id = BatchId(pass.batch, k) /\ new[k].case = BatchCase(pass.batch, k)
                     /\ new[k].saw = SawAt(pass.saw, stamp, k)
      BY <1>2, NewEntry
    <3> QED BY <2>1, <3>1
  <2> QED BY <2>1, <2>2, <2>3
<1>5. \A k \in 1..n : DecisionHolds(R \cup N, new[k].id, new[k].case, new[k].saw)
  <2>1. \A e \in R : e.n \in 1..stamp BY <1>3 DEF LogOK
  <2> HIDE DEF R
  <2> QED BY <1>2, <1>3, <2>1, BatchDecisions
<1> HIDE DEF new
<1>6. log' \in Seq(LogRows) /\ ToSet(log)' = R \cup N
  <2>1. S \in SUBSET (1..(Len(log) + Len(new))) /\ Cardinality(S) = Len(new) BY <1>1, <1>4
  <2>2. /\ Merged(log, new, S) \in Seq(LogRows)
        /\ ToSet(Merged(log, new, S)) = ToSet(log) \cup ToSet(new)
    BY <1>2, <1>4, <2>1, MergedSet
  <2> QED BY <1>1, <2>2
<1>7. stamp' \in Nat /\ stamp <= stamp' BY <1>1, <1>2, <1>4
<1>8. CasesTypeOK'
  <2>1. Idle \in PassStates BY DEF PassStates
  <2> QED BY <1>1, <1>6, <1>7, <2>1 DEF CasesTypeOK
<1>9. \A e \in N : \E k \in 1..n : e = new[k] BY <1>4, LenProperties DEF ToSet
<1> HIDE DEF n, N
<1>10. \A e \in N : e.n \in Nat /\ e.n > stamp BY <1>2, <1>4, <1>9
<1>11. ASSUME NEW e \in N
       PROVE  /\ e.n <= stamp'
              /\ \A m \in e.saw : m < e.n
              /\ HasRow(e.id, rows')
              /\ ~e.pinned => DecisionHolds(ToSet(log) \cup N, e.id, e.case, e.saw)
  <2>1. PICK k \in 1..n : e = new[k] BY <1>9
  <2>2. e.n = stamp + k /\ e.saw = pass.saw \cup (stamp + 1)..(stamp + k - 1)
    BY <1>4, <2>1 DEF SawAt
  <2>3. e.n <= stamp' BY <1>1, <1>2, <1>4, <2>2
  <2>4. pass.saw \subseteq 0..stamp BY <1>3 DEF PassOK
  <2>5. \A m \in e.saw : m < e.n BY <1>2, <1>4, <2>2, <2>4
  <2>6. HasRow(e.id, rows)
    <3>1. e.id = BatchId(pass.batch, k) /\ k \in DOMAIN pass.batch BY <1>4, <2>1
    <3> QED BY <1>3, <3>1 DEF PassOK
  <2>7. DecisionHolds(ToSet(log) \cup N, e.id, e.case, e.saw) BY <1>5, <2>1
  <2> QED BY <1>1, <2>3, <2>5, <2>6, <2>7
<1>12. \A e, f \in N : e.n = f.n => e = f
  <2> SUFFICES ASSUME NEW e \in N, NEW f \in N, e.n = f.n PROVE e = f OBVIOUS
  <2>1. PICK j \in 1..n : e = new[j] BY <1>9
  <2>2. PICK k \in 1..n : f = new[k] BY <1>9
  <2>3. j = k BY <1>2, <1>4, <2>1, <2>2
  <2> QED BY <2>1, <2>2, <2>3
<1>13. /\ LogOK(ToSet(log)', rows', stamp')
       /\ \A b \in Clients : ClientOK(ToSet(log)', client[b], rows', stamp')
  <2>1. rows \subseteq rows' BY <1>1
  <2>2. ToSet(log)' = ToSet(log) \cup N BY <1>6
  <2> HIDE DEF R
  <2> QED BY <1>7, <1>10, <1>11, <1>12, <2>1, <2>2, Grows
<1>14. PassOK(ToSet(log)', pass', rows', stamp') BY <1>1 DEF PassOK, Idle
<1>15. client' = client BY <1>1
<1> QED BY <1>8, <1>13, <1>14, <1>15 DEF CasesInv

\* Every step of the cases keeps their invariant.
LEMMA CasesStepKeeps ==
    ASSUME CasesTypeOK, CasesInv, [CasesNext]_casesVars
    PROVE  CasesTypeOK' /\ CasesInv'
<1>1. ASSUME NEW c \in Clients, NEW pr \in Pairs, NEW carries \in BOOLEAN,
             NEW pin \in Pinned \cup {None}, CommandWrites(c, pr, carries, pin)
      PROVE  CasesTypeOK' /\ CasesInv'
  BY <1>1, CommandWritesKeeps
<1>2. ASSUME NEW c \in Clients,
             FindsCycleRow(c) \/ ReadsCandidates(c) \/ Inserts(c) \/ CommandThrows(c)
      PROVE  CasesTypeOK' /\ CasesInv'
  BY <1>2, FindsCycleRowKeeps, ReadsCandidatesKeeps, InsertsKeeps, CommandThrowsKeeps
<1>3. ASSUME NEW i \in Ids, NEW shown \in SUBSET {pr \in Pairs : pr[2] = i}, RowLands(i, shown)
      PROVE  CasesTypeOK' /\ CasesInv'
  BY <1>3, RowLandsKeeps
<1>4. CASE PassReadsRows BY <1>4, PassReadsRowsKeeps
<1>5. CASE PassReadsLog BY <1>5, PassReadsLogKeeps
<1>6. CASE pass.at = "emit" /\ \E q \in pass.opens : PassOpens(q)
  BY <1>6, PassOpensKeeps
<1>7. CASE /\ pass.at = "emit" /\ pass.opens = {}
           /\ \E S \in SUBSET (1..(Len(log) + Len(pass.batch))) : PassEmits(S)
  BY <1>7, PassEmitsKeeps
<1>8. CASE PassThrows BY <1>8, PassThrowsKeeps DEF PassThrows
<1>9. CASE Wipes
  <2>1. ops' \in Nat /\ log' = <<>> /\ UNCHANGED <<rows, client, pass, stamp>>
    BY <1>9 DEF Wipes, Count, CasesTypeOK
  <2> QED BY <2>1, Wiped
<1>10. CASE UNCHANGED casesVars
  <2>1. pass' \in PassStates /\ rows' \in SUBSET AllPairs /\ ops' \in Nat
        /\ UNCHANGED <<log, client, pass, rows, stamp>>
    BY <1>10 DEF casesVars, CasesTypeOK
  <2>2. PassOK(ToSet(log), pass', rows', stamp) BY <2>1 DEF CasesInv
  <2> QED BY <2>1, <2>2, PassMoves
<1> QED BY <1>1, <1>2, <1>3, <1>4, <1>5, <1>6, <1>7, <1>8, <1>9, <1>10 DEF CasesNext

\* And every step of the rankings does.
LEMMA ActionsStepKeeps ==
    ASSUME CasesTypeOK, CasesInv, [ActionsNext]_actionsVars
    PROVE  CasesTypeOK' /\ CasesInv'
<1>1. CASE [CasesNext]_casesVars BY <1>1, CasesStepKeeps
<1>2. ASSUME UNCHANGED <<log, rows, client, pass, stamp>>, ops' \in Nat
      PROVE  CasesTypeOK' /\ CasesInv'
  <2>1. pass' \in PassStates /\ rows' \in SUBSET AllPairs BY <1>2 DEF CasesTypeOK
  <2>2. PassOK(ToSet(log), pass', rows', stamp) BY <1>2 DEF CasesInv
  <2> QED BY <1>2, <2>1, <2>2, PassMoves
<1>3. CASE RankBegins \/ \E g \in Graphs \ {model} : Applies(g)
  <2>1. UNCHANGED <<log, rows, client, pass, stamp>> /\ ops' = ops + 1
    BY <1>3 DEF RankBegins, Applies, Count
  <2> QED BY <1>2, <2>1 DEF CasesTypeOK
<1>4. CASE RankMarks \/ RankReads \/ RankStores \/ RankThrows
  <2>1. UNCHANGED casesVars BY <1>4 DEF RankMarks, RankReads, RankStores, RankThrows
  <2> QED BY <1>1, <2>1
<1>5. CASE ApplyWipes
  <2>1. ops' \in Nat /\ log' = <<>> /\ UNCHANGED <<rows, client, pass, stamp>>
    BY <1>5 DEF ApplyWipes, CasesTypeOK
  <2> QED BY <2>1, Wiped
<1>6. CASE UNCHANGED actionsVars
  <2>1. UNCHANGED casesVars BY <1>6 DEF actionsVars
  <2> QED BY <1>1, <2>1
<1> QED BY <1>1, <1>3, <1>4, <1>5, <1>6 DEF ActionsNext

\* Initially nothing has been decided.
LEMMA CasesBegin ==
    ASSUME CasesInit PROVE CasesTypeOK /\ CasesInv
<1>1. log \in Seq(LogRows) /\ ToSet(log) = {}
  BY EmptySeq, LenProperties DEF CasesInit, ToSet
<1>2. CasesTypeOK BY <1>1 DEF CasesInit, CasesTypeOK, ClientStates, PassStates
<1>3. LogOK({}, rows, stamp) BY DEF LogOK
<1>4. \A c \in Clients : ClientOK({}, client[c], rows, stamp) BY DEF CasesInit, ClientOK, Idle
<1>5. PassOK({}, pass, rows, stamp) BY DEF CasesInit, PassOK, Idle
<1> QED BY <1>1, <1>2, <1>3, <1>4, <1>5 DEF CasesInv

\* Type correctness of the cases and, with it, what holds of every decision
\* that is under way or in the log: its inductive invariant CasesInv.
THEOREM CasesTyped == ActionsSpec => [](CasesTypeOK /\ CasesInv)
<1>1. ActionsInit => CasesTypeOK /\ CasesInv BY CasesBegin DEF ActionsInit
<1>2. CasesTypeOK /\ CasesInv /\ [ActionsNext]_actionsVars => CasesTypeOK' /\ CasesInv'
  BY ActionsStepKeeps
<1> QED BY <1>1, <1>2, PTL DEF ActionsSpec

-----------------------------------------------------------------------------
(* An instance keeps its case.                                             *)

\* Of a set of rows, one has the lowest number.
LEMMA EarliestRow ==
    ASSUME NEW S, \A e \in S : e.n \in Nat, S # {}
    PROVE  \E m \in S : \A e \in S : m.n <= e.n
<1> DEFINE T == {e.n : e \in S}
<1>1. T \in SUBSET Nat /\ T # {} OBVIOUS
<1>2. PICK x \in T : \A y \in T : x <= y BY <1>1, LeastNat
<1> QED BY <1>2

\* The rows of an instance, no two of which were decided in ignorance of each
\* other.
Together(own, i) ==
    /\ own \subseteq ToSet(log)
    /\ \A e \in ToSet(log) : e.id = i <=> e \in own
    /\ \A e, f \in own : e = f \/ (Knew(e, f) /\ ~e.pinned /\ ~f.pinned)

\* If an instance's rows knew of each other, all of them are in the case of the
\* earliest: the first that is not kept the case of an earlier one.
LEMMA OneCase ==
    ASSUME CasesTypeOK, CasesInv, NEW own, NEW i, Together(own, i),
           NEW m \in own, \A e \in own : m.n <= e.n
    PROVE  \A e \in own : e.case = m.case
<1> USE DEF Together
<1> DEFINE R == ToSet(log)
           Bad == {e \in own : e.case # m.case}
<1>1. /\ \A e \in R : /\ e.n \in Nat /\ \A x \in e.saw : x < e.n
                      /\ ~e.pinned => Keeps(Seen(R, e.saw), e.id, e.case)
      /\ \A e, f \in R : e.n = f.n => e = f
  BY LogRowsOf DEF CasesTypeOK, CasesInv, LogOK, DecisionHolds
<1> HIDE DEF R
<1>2. own \subseteq R BY DEF R
<1>3. SUFFICES ASSUME Bad # {} PROVE FALSE OBVIOUS
<1>4. PICK b \in Bad : \A e \in Bad : b.n <= e.n
  <2>1. \A e \in Bad : e.n \in Nat BY <1>1, <1>2
  <2> HIDE DEF Bad
  <2> QED BY <1>3, <2>1, EarliestRow
<1>5. b \in own /\ b.case # m.case /\ b # m OBVIOUS
<1>6. Knew(m, b) /\ ~b.pinned /\ ~m.pinned BY <1>5
<1>7. m.n <= b.n /\ m.n \in Nat /\ b.n \in Nat /\ m \in R /\ b \in R /\ b.id = i /\ m.id = i
  BY <1>1, <1>2, <1>5 DEF R
<1>8. m.n \in b.saw
  <2>1. b.n \notin m.saw BY <1>1, <1>7
  <2> QED BY <1>6, <2>1 DEF Knew
<1>9. m \in Seen(R, b.saw) BY <1>7, <1>8 DEF Seen
<1>10. Keeps(Seen(R, b.saw), i, b.case) BY <1>1, <1>6, <1>7
<1>11. CASE i \in Roots
  <2>1. b.case = i BY <1>10, <1>11 DEF Keeps
  <2>2. m.case = i BY <1>1, <1>6, <1>7, <1>11 DEF Keeps
  <2> QED BY <1>5, <2>1, <2>2
<1>12. CASE i \notin Roots
  <2>1. PICK f \in Seen(R, b.saw) : f.id = i /\ f.case = b.case
    BY <1>7, <1>9, <1>10, <1>12 DEF Keeps
  <2>2. f \in R /\ f.n \in b.saw BY <2>1 DEF Seen
  <2>3. f \in own /\ f.case # m.case BY <1>5, <2>1, <2>2 DEF R
  <2>4. f \in Bad BY <2>3
  <2>5. f.n < b.n /\ f.n \in Nat BY <1>1, <1>7, <2>2
  <2> QED BY <1>4, <1>7, <2>4, <2>5
<1> QED BY <1>11, <1>12

\* An instance already attached to a case keeps that case (decideCaseId, rule
\* 3), on both paths, whatever the order in which their steps interleave.
THEOREM CasesAreKept == ActionsSpec => []CaseKept
<1>1. ASSUME CasesTypeOK, CasesInv PROVE CaseKept
  <2> SUFFICES ASSUME NEW i \in Ids,
                      NEW own, own = {log[k] : k \in {j \in DOMAIN log : log[j].id = i}},
                      \A e, f \in own : e = f \/ (Knew(e, f) /\ ~e.pinned /\ ~f.pinned)
               PROVE  Cardinality({e.case : e \in own}) <= 1
    BY DEF CaseKept
  <2>1. own \subseteq ToSet(log) /\ \A e \in ToSet(log) : e.id = i <=> e \in own BY DEF ToSet
  <2>2. \A e \in own : e.n \in Nat BY <2>1, LogRowsOf, <1>1 DEF CasesTypeOK
  <2> DEFINE cases == {e.case : e \in own}
  <2>3. CASE own = {}
    <3>1. cases = {} BY <2>3
    <3> HIDE DEF cases
    <3>2. Cardinality(cases) = 0 BY <3>1, FS_EmptySet
    <3> QED BY <3>2 DEF cases
  <2>4. CASE own # {}
    <3>1. PICK m \in own : \A e \in own : m.n <= e.n BY <2>2, <2>4, EarliestRow
    <3>2. \A e \in own : e.case = m.case
      <4>1. Together(own, i) BY <2>1 DEF Together
      <4> QED BY <1>1, <3>1, <4>1, OneCase
    <3>3. cases = {m.case} BY <3>2
    <3>4. Cardinality({m.case}) = 1 BY FS_Singleton
    <3> HIDE DEF cases
    <3>5. Cardinality(cases) = 1 BY <3>3, <3>4
    <3> QED BY <3>5 DEF cases
  <2> QED BY <2>3, <2>4
<1> QED BY <1>1, CasesTyped, PTL
-----------------------------------------------------------------------------
(* The instance a case is named after.                                     *)

\* The earliest row of a case is of the instance whose id the case bears, or of
\* one whose cycle row that is; then it starts its case.
LEMMA CaseOpens ==
    ASSUME CasesTypeOK, CasesInv, NEW i \in Ids,
           NEW R, R = ToSet(log),
           \A e \in R : i \in {e.id, e.case} => ~e.pinned,
           \A e \in R : e.saw \subseteq NumbersOf(R) /\ \A x \in NumbersOf(R) : x < e.n => x \in e.saw,
           StartsItsCase(i),
           NEW f \in R, f.case = i, \A e \in R : e.case = i => f.n <= e.n,
           NEW h \in R, h.id = i, \A e \in R : e.id = i => h.n <= e.n
    PROVE  h.case = i
<1>1. \A e \in R : /\ e.n \in Nat /\ e.id \in Ids
                   /\ ~e.pinned => Keeps(Seen(R, e.saw), e.id, e.case)
                   /\ ~e.pinned => Founded(Seen(R, e.saw), e.id, e.case)
  BY LogRowsOf DEF CasesTypeOK, CasesInv, LogOK, DecisionHolds, LogRows
<1>2. CASE i \in Roots BY <1>1, <1>2 DEF Keeps
<1>3. CASE i \notin Roots
  <2>1. \A e \in R : /\ \A g \in Seen(R, e.saw) : g \in R /\ g.n < e.n
                     /\ \A g \in R : g.n < e.n => g \in Seen(R, e.saw)
    <3>1. \A e \in R : \A x \in e.saw : x < e.n BY DEF CasesInv, LogOK
    <3>2. \A g \in R : g.n \in NumbersOf(R) BY DEF NumbersOf
    <3> QED BY <3>1, <3>2 DEF Seen
  <2>2. \A g \in Seen(R, f.saw) : g.case # i
    BY <1>1, <2>1
  <2>3. ~Inherits(Seen(R, f.saw), f.id, i) BY <2>2 DEF Inherits
  <2>4. CASE f.id \in Roots
    <3>1. f.id = i BY <1>1, <2>4 DEF Keeps
    <3> QED BY <1>3, <2>4, <3>1
  <2>5. CASE f.id \notin Roots
    <3>1. Opens(Seen(R, f.saw), f.id, i) BY <1>1, <2>3, <2>5 DEF Founded
    <3>2. i \in {f.id, CycleOf[f.id]} /\ \A g \in Seen(R, f.saw) : g.id # i BY <3>1 DEF Opens
    <3>3. ~(h.n < f.n) BY <2>1, <3>2
    <3>4. CASE h.n = f.n
      <4>1. h = f BY <3>4 DEF CasesInv, LogOK
      <4> QED BY <4>1
    <3>5. CASE f.n < h.n
      <4>1. f.id # i BY <1>1, <3>5
      <4>2. CycleOf[f.id] = i BY <3>2, <4>1
      <4>3. Refs[i] = <<>> /\ CycleOf[i] = None BY <1>1, <1>3, <4>2 DEF StartsItsCase
      <4>4. ~Refers(i) BY <4>3 DEF Refers
      <4>5. \A g \in Seen(R, h.saw) : g.id # i BY <1>1, <2>1
      <4>6. ~Inherits(Seen(R, h.saw), i, h.case) BY <4>4, <4>5 DEF Inherits
      <4>7. Opens(Seen(R, h.saw), i, h.case) BY <1>1, <1>3, <4>6 DEF Founded
      <4>8. h.case \in {i, None} BY <4>3, <4>7 DEF Opens
      <4>9. h.case \in CaseIds BY LogRowsOf DEF CasesTypeOK, LogRows
      <4>10. None \notin CaseIds BY CasesAssumption
      <4> QED BY <4>8, <4>9, <4>10
    <3> QED BY <1>1, <3>3, <3>4, <3>5
  <2> QED BY <2>4, <2>5
<1> QED BY <1>2, <1>3

\* A case is named after an instance that is in it itself: following case ids
\* never leads from one case to another.
THEOREM CasesStayAnchored == ActionsSpec => []CasesAnchored
<1>1. ASSUME CasesTypeOK, CasesInv PROVE CasesAnchored
  <2> DEFINE R == ToSet(log)
  <2> SUFFICES ASSUME \A k \in DOMAIN log : Alone(log[k]),
                      NEW j \in DOMAIN log, NEW k \in DOMAIN log,
                      NEW i, i = log[k].id, log[j].case = i,
                      \A l \in DOMAIN log : i \in {log[l].id, log[l].case} => ~log[l].pinned,
                      StartsItsCase(i)
               PROVE  log[k].case = i
    BY DEF CasesAnchored
  <2>1. log \in Seq(LogRows) BY <1>1 DEF CasesTypeOK
  <2>2. Numbers(log) = NumbersOf(R) BY <2>1, LogRowsOf
  <2>3. \A e \in R : \E l \in DOMAIN log : e = log[l] BY DEF ToSet
  <2>4. log[j] \in R /\ log[k] \in R BY DEF ToSet
  <2>5. \A e \in R : i \in {e.id, e.case} => ~e.pinned BY <2>3
  <2>6. \A e \in R : /\ e.saw \subseteq NumbersOf(R)
                     /\ \A x \in NumbersOf(R) : x < e.n => x \in e.saw
    BY <2>2, <2>3 DEF Alone
  <2>7. \A e \in R : e.n \in Nat /\ e.id \in Ids BY <2>1, LogRowsOf DEF LogRows
  <2>8. i \in Ids BY <2>4, <2>7
  <2> HIDE DEF R
  <2> DEFINE InCase == {e \in R : e.case = i}
             Own == {e \in R : e.id = i}
  <2>9. PICK f \in InCase : \A e \in InCase : f.n <= e.n
    <3>1. InCase # {} /\ \A e \in InCase : e.n \in Nat BY <2>4, <2>7
    <3> HIDE DEF InCase
    <3> QED BY <3>1, EarliestRow
  <2>10. PICK h \in Own : \A e \in Own : h.n <= e.n
    <3>1. Own # {} /\ \A e \in Own : e.n \in Nat BY <2>4, <2>7
    <3> HIDE DEF Own
    <3> QED BY <3>1, EarliestRow
  <2>11. h.case = i
    <3>1. /\ f \in R /\ f.case = i /\ \A e \in R : e.case = i => f.n <= e.n BY <2>9
    <3>2. /\ h \in R /\ h.id = i /\ \A e \in R : e.id = i => h.n <= e.n BY <2>10
    <3>3. R = ToSet(log) BY DEF R
    <3> HIDE DEF InCase, Own
    <3> QED BY <1>1, <2>5, <2>6, <2>8, <3>1, <3>2, <3>3, CaseOpens
  <2>12. ASSUME NEW e \in Own, NEW g \in Own PROVE e = g \/ (Knew(e, g) /\ ~e.pinned /\ ~g.pinned)
    <3>1. e \in R /\ g \in R /\ ~e.pinned /\ ~g.pinned BY <2>5
    <3>2. e.n = g.n => e = g BY <1>1, <3>1 DEF CasesInv, LogOK, R
    <3>3. e.n \in NumbersOf(R) /\ g.n \in NumbersOf(R) BY <3>1 DEF NumbersOf
    <3>4. e.n < g.n => e.n \in g.saw BY <2>6, <3>1, <3>3
    <3>5. g.n < e.n => g.n \in e.saw BY <2>6, <3>1, <3>3
    <3>6. e.n = g.n \/ e.n < g.n \/ g.n < e.n BY <2>7, <3>1
    <3> QED BY <3>1, <3>2, <3>4, <3>5, <3>6 DEF Knew
  <2>13. Own \subseteq ToSet(log) /\ \A e \in ToSet(log) : e.id = i <=> e \in Own BY DEF R
  <2>14. log[k] \in Own BY <2>4
  <2> HIDE DEF Own
  <2>15. \A e \in Own : e.case = h.case
    <3>1. Together(Own, i) BY <2>12, <2>13, Zenon DEF Together
    <3> QED BY <1>1, <2>10, <3>1, OneCase
  <2> QED BY <2>11, <2>14, <2>15
<1> QED BY <1>1, CasesTyped, PTL
-----------------------------------------------------------------------------
(* A pass and the commands decide alike.                                   *)

\* The log after the batch's event k is emitted.
EmitsOne(lg, d, k) ==
    Append(lg, Entry(0, d.batch[k][1], EmittedCase(lg, d, d.batch[k]), FALSE, {}))

\* The recursion in Emitted has a solution.
LEMMA EmittedSteps ==
    ASSUME NEW lg, NEW d, Len(d.batch) \in Nat
    PROVE  LET l == Emitted(lg, d)
           IN  /\ l[0] = lg
               /\ \A k \in 1..Len(d.batch) : l[k] = EmitsOne(l[k - 1], d, k)
<1> DEFINE n == Len(d.batch)
           E(f, k) == IF k = 0 THEN lg ELSE EmitsOne(f[k - 1], d, k)
           T == {m \in 0..n : \E f : f = [k \in 0..m |-> E(f, k)]}
<1>1. n \in Nat OBVIOUS
<1>2. 0 \in T
  <2>1. \E f : f = [k \in 0..0 |-> E(f, k)]
    <3> DEFINE g == [k \in 0..0 |-> lg]
    <3>1. g = [k \in 0..0 |-> E(g, k)] OBVIOUS
    <3> HIDE DEF g
    <3> WITNESS g
    <3> QED BY <3>1
  <2> QED BY <1>1, <2>1
<1>3. ASSUME NEW m \in 0..(n - 1), m \in T PROVE m + 1 \in T
  <2>1. PICK f : f = [k \in 0..m |-> E(f, k)] BY <1>3
  <2> DEFINE g == [k \in 0..(m + 1) |-> IF k = m + 1 THEN E(f, k) ELSE f[k]]
  <2>2. \A k \in 0..m : g[k] = f[k] BY <1>1, <1>3
  <2>3. \A k \in 0..(m + 1) : g[k] = E(g, k)
    <3> SUFFICES ASSUME NEW k \in 0..(m + 1) PROVE g[k] = E(g, k) OBVIOUS
    <3>0. g[k] = E(f, k) BY <2>1
    <3>1. k = 0 \/ (k - 1 \in 0..m /\ g[k - 1] = f[k - 1]) BY <1>1, <1>3, <2>2
    <3> QED BY <3>0, <3>1
  <2>4. g = [k \in 0..(m + 1) |-> E(g, k)] BY <2>3
  <2>5. \E h : h = [k \in 0..(m + 1) |-> E(h, k)]
    <3> HIDE DEF g
    <3> WITNESS g
    <3> QED BY <2>4
  <2> QED BY <1>1, <1>3, <2>5
<1>4. \A m \in 0..n : m \in T
  <2> HIDE DEF T
  <2> QED BY <1>1, <1>2, <1>3, SetInduction
<1>5. PICK f : f = [k \in 0..n |-> E(f, k)] BY <1>1, <1>4
<1>6. Emitted(lg, d) = CHOOSE g : g = [k \in 0..n |-> E(g, k)]
  BY DEF Emitted, EmitsOne
<1>7. Emitted(lg, d) = [k \in 0..n |-> E(Emitted(lg, d), k)]
  BY <1>5, <1>6
<1>8. \A k \in 0..n : Emitted(lg, d)[k] = E(Emitted(lg, d), k)
  <2> DEFINE L == Emitted(lg, d)
  <2>1. L = [k \in 0..n |-> E(L, k)] BY <1>7
  <2> HIDE DEF L, E
  <2>2. \A k \in 0..n : L[k] = E(L, k) BY <2>1
  <2> QED BY <2>2 DEF L
<1>9. 0 \in 0..n /\ \A k \in 1..n : k \in 0..n /\ k # 0 BY <1>1
<1> QED BY <1>8, <1>9

\* An event that is added gives its instance a case if it had none.
LEMMA CaseOfAppend ==
    ASSUME NEW lg \in Seq(LogRows), NEW e \in LogRows, NEW i \in Ids
    PROVE  CaseOf(Append(lg, e))[i] = IF e.id = i /\ CaseOf(lg)[i] = None THEN e.case
                                      ELSE CaseOf(lg)[i]
<1> DEFINE lg2 == Append(lg, e)
           n == Len(lg)
           c == CaseOf(lg)[i]
           c2 == CaseOf(lg2)[i]
<1>1. /\ n \in Nat /\ DOMAIN lg = 1..n /\ lg2 \in Seq(LogRows) /\ DOMAIN lg2 = 1..(n + 1)
      /\ \A k \in 1..n : lg2[k] = lg[k]
      /\ lg2[n + 1] = e
  BY AppendProperties, LenProperties
<1>2. /\ c = None <=> \A k \in 1..n : lg[k].id # i
      /\ c # None => \E k \in 1..n : /\ lg[k].id = i /\ lg[k].case = c
                                     /\ \A j \in 1..n : lg[j].id = i => k <= j
  BY <1>1, CaseAmongFacts DEF CaseOf
<1>3. /\ c2 = None <=> \A k \in 1..(n + 1) : lg2[k].id # i
      /\ c2 # None => \E k \in 1..(n + 1) : /\ lg2[k].id = i /\ lg2[k].case = c2
                                            /\ \A j \in 1..(n + 1) : lg2[j].id = i => k <= j
  <2> HIDE DEF lg2
  <2> QED BY <1>1, CaseAmongFacts DEF CaseOf
<1>4. \A k \in 1..(n + 1) : k \in 1..n \/ k = n + 1 BY <1>1
<1>5. n + 1 \in 1..(n + 1) /\ \A k \in 1..n : k \in 1..(n + 1) /\ k <= n BY <1>1
<1> HIDE DEF lg2, n, c, c2
<1>6. CASE c # None
  <2>1. PICK k \in 1..n : lg[k].id = i /\ lg[k].case = c /\ \A j \in 1..n : lg[j].id = i => k <= j
    BY <1>2, <1>6
  <2>2. c2 # None BY <1>1, <1>3, <1>5, <2>1
  <2>3. PICK k2 \in 1..(n + 1) : /\ lg2[k2].id = i /\ lg2[k2].case = c2
                                 /\ \A j \in 1..(n + 1) : lg2[j].id = i => k2 <= j
    BY <1>3, <2>2
  <2>4. k2 <= k BY <1>1, <1>5, <2>1, <2>3
  <2>5. k2 \in 1..n /\ k2 # n + 1 BY <1>1, <1>4, <1>5, <2>4
  <2>6. k <= k2 BY <1>1, <2>1, <2>3, <2>5
  <2>7. k = k2 BY <1>1, <2>4, <2>5, <2>6
  <2> QED BY <1>1, <1>6, <2>1, <2>3, <2>7 DEF c, c2, lg2
<1>7. CASE c = None /\ e.id # i
  <2>1. c2 = None BY <1>1, <1>2, <1>3, <1>4, <1>7
  <2> QED BY <1>7, <2>1 DEF c, c2, lg2
<1>8. CASE c = None /\ e.id = i
  <2>1. c2 # None BY <1>1, <1>3, <1>5, <1>8
  <2>2. PICK k2 \in 1..(n + 1) : lg2[k2].id = i /\ lg2[k2].case = c2 BY <1>3, <2>1
  <2>3. k2 = n + 1 BY <1>1, <1>2, <1>4, <1>8, <2>2
  <2> QED BY <1>1, <1>8, <2>2, <2>3 DEF c, c2, lg2
<1> QED BY <1>6, <1>7, <1>8

\* A decision depends on the cases of the instance, its references and its cycle row.
LEMMA DecideSame ==
    ASSUME NEW i, NEW refs \in Seq(Ids), NEW cycle, NEW f, NEW g,
           f[i] = g[i], \A r \in ToSet(refs) : f[r] = g[r], cycle # None => f[cycle] = g[cycle]
    PROVE  DecideCaseId(i, refs, cycle, f) = DecideCaseId(i, refs, cycle, g)
<1> DEFINE known(h) == {k \in DOMAIN refs : h[refs[k]] # None}
           first == CHOOSE k \in known(f) : \A j \in known(f) : k <= j
<1>1. \A k \in DOMAIN refs : refs[k] \in ToSet(refs) BY DEF ToSet
<1>2. known(f) = known(g)
  <2>1. \A k \in DOMAIN refs : f[refs[k]] = g[refs[k]] BY <1>1
  <2>2. known(f) \subseteq known(g) /\ known(g) \subseteq known(f) BY <2>1, Zenon
  <2> QED BY <2>2, Zenon
<1>3. FirstKnown(refs, f) = FirstKnown(refs, g)
  <2> DEFINE ref(K) == IF K = {} THEN None ELSE refs[CHOOSE k \in K : \A j \in K : k <= j]
  <2>1. FirstKnown(refs, f) = ref(known(f)) /\ FirstKnown(refs, g) = ref(known(g))
    BY DEF FirstKnown
  <2> HIDE DEF ref, known
  <2> QED BY <1>2, <2>1
<1>4. FirstKnown(refs, f) = None \/ FirstKnown(refs, f) \in ToSet(refs)
  <2>1. CASE known(f) = {} BY <2>1 DEF FirstKnown
  <2>2. CASE known(f) # {}
    <3>1. known(f) \in SUBSET Nat BY LenProperties
    <3>2. \E k \in known(f) : \A j \in known(f) : k <= j
      <4> HIDE DEF known
      <4> QED BY <2>2, <3>1, LeastNat
    <3>3. first \in known(f) BY <3>2
    <3>4. FirstKnown(refs, f) = refs[first] BY <2>2 DEF FirstKnown
    <3> QED BY <1>1, <3>3, <3>4
  <2> QED BY <2>1, <2>2
<1>5. ViaCycle(i, cycle, f) = ViaCycle(i, cycle, g) BY DEF ViaCycle
<1> QED BY <1>3, <1>4, <1>5 DEF DecideCaseId
-----------------------------------------------------------------------------
(* The stored ranking.                                                     *)

\* With nothing to merge, the log stays as it is.
LEMMA MergedNothing ==
    ASSUME NEW A, NEW lg \in Seq(A), NEW batch, Len(batch) = 0, NEW S, S = {}
    PROVE  Merged(lg, batch, S) = lg
<1> DEFINE n == Len(lg)
<1>1. n \in Nat /\ DOMAIN lg = 1..n /\ lg = [k \in 1..n |-> lg[k]] BY LenProperties
<1>2. n + Len(batch) = n BY <1>1
<1>3. Merged(lg, batch, S) = [k \in 1..n |-> lg[Cardinality({j \in 1..k : j \notin S})]]
  BY <1>2 DEF Merged
<1>4. ASSUME NEW k \in 1..n PROVE Cardinality({j \in 1..k : j \notin S}) = k
  <2>1. {j \in 1..k : j \notin S} = 1..k OBVIOUS
  <2>2. Cardinality(1..k) = k BY <1>1, FS_Interval
  <2> QED BY <2>1, <2>2
<1>5. \A k \in 1..n : lg[Cardinality({j \in 1..k : j \notin S})] = lg[k] BY <1>4
<1>6. [k \in 1..n |-> lg[Cardinality({j \in 1..k : j \notin S})]] = [k \in 1..n |-> lg[k]]
  BY <1>5
<1> QED BY <1>1, <1>3, <1>6

\* The log stays, is emptied, or grows by rows with new numbers.
LEMMA LogMoves ==
    ASSUME CasesTypeOK, CasesInv, [ActionsNext]_actionsVars
    PROVE  /\ stamp <= stamp'
           /\ \/ log' = log
              \/ log' = <<>>
              \/ /\ Len(log') > Len(log)
                 /\ \A e \in ToSet(log') : e \in ToSet(log) \/ e.n > stamp
<1>1. stamp \in Nat /\ log \in Seq(LogRows) BY DEF CasesTypeOK
<1>2. CASE UNCHANGED <<log, stamp>> BY <1>1, <1>2
<1>3. CASE log' = <<>> /\ stamp' = stamp BY <1>1, <1>3
<1>4. ASSUME NEW c \in Clients, Inserts(c)
      PROVE  /\ stamp <= stamp' /\ Len(log') > Len(log)
             /\ \A e \in ToSet(log') : e \in ToSet(log) \/ e.n > stamp
  <2> DEFINE o == client[c]
             e == Entry(stamp + 1, o.pr, o.case, o.pinned, o.saw)
  <2>1. log' = Append(log, e) /\ stamp' = stamp + 1 BY <1>4 DEF Inserts
  <2>2. e.n = stamp + 1 BY DEF Entry
  <2>3. e \in LogRows
    <3>1. o \in ClientStates /\ o.at = "insert" BY <1>4 DEF CasesTypeOK, Inserts
    <3>2. /\ o.pr \in AllPairs
          /\ o.case \in CaseIds /\ o.pinned \in BOOLEAN /\ o.saw \in SUBSET Nat
      BY <3>1, ClientShape DEF Idle
    <3> QED BY <1>1, <3>2 DEF Entry, LogRows, AllPairs
  <2> HIDE DEF e
  <2>4. /\ DOMAIN log' = 1..(Len(log) + 1) /\ Len(log') = Len(log) + 1 /\ Len(log) \in Nat
        /\ DOMAIN log = 1..Len(log)
        /\ \A k \in 1..Len(log) : log'[k] = log[k]
        /\ log'[Len(log) + 1] = e
    BY <1>1, <2>1, <2>3, AppendProperties, LenProperties
  <2>5. \A f \in ToSet(log') : f \in ToSet(log) \/ f = e BY <2>4 DEF ToSet
  <2> QED BY <1>1, <2>1, <2>2, <2>4, <2>5
<1>5. ASSUME pass.at = "emit", NEW S \in SUBSET (1..(Len(log) + Len(pass.batch))), PassEmits(S)
      PROVE  /\ stamp <= stamp'
             /\ \/ log' = log
                \/ /\ Len(log') > Len(log)
                   /\ \A e \in ToSet(log') : e \in ToSet(log) \/ e.n > stamp
  <2> DEFINE new == NewEntries(pass.batch, pass.saw, stamp)
             n == Len(pass.batch)
  <2>1. Cardinality(S) = n /\ log' = Merged(log, new, S) /\ stamp' = stamp + n
    BY <1>5 DEF PassEmits, NewEntries, SawAt
  <2>2. pass.batch \in Seq(BatchRows) /\ pass.saw \in SUBSET Nat
    BY <1>5, PassShape DEF CasesTypeOK
  <2>3. new \in Seq(LogRows) /\ Len(new) = n /\ n \in Nat /\ DOMAIN new = 1..n
        /\ DOMAIN pass.batch = 1..n
    BY <1>1, <2>2, NewEntriesType, LenProperties
  <2>4. \A e \in ToSet(new) : e.n > stamp
    <3>1. ASSUME NEW k \in DOMAIN pass.batch PROVE new[k].n > stamp
      <4>1. k \in 1..n BY <2>3
      <4>2. new[k].n = stamp + k BY <1>1, <2>2, NewEntry
      <4> HIDE DEF new, n
      <4> QED BY <1>1, <2>3, <4>1, <4>2
    <3> QED BY <2>3, <3>1 DEF ToSet
  <2> HIDE DEF new, n
  <2>5. S \in SUBSET (1..(Len(log) + Len(new))) /\ Cardinality(S) = Len(new) BY <2>1, <2>3 DEF n
  <2>6. Len(log') = Len(log) + n /\ ToSet(log') = ToSet(log) \cup ToSet(new)
    BY <1>1, <2>1, <2>3, <2>5, MergedSet
  <2>7. Len(log) \in Nat BY <1>1, LenProperties
  <2>8. CASE n = 0
    <3>1. IsFiniteSet(1..(Len(log) + Len(new))) BY <2>3, <2>7, <2>8, FS_Interval
    <3>2. IsFiniteSet(S) BY <2>5, <3>1, FS_Subset
    <3>3. S = {} BY <2>1, <2>8, <3>2, FS_EmptySet
    <3>4. log' = log BY <1>1, <2>1, <2>3, <2>8, <3>3, MergedNothing
    <3> QED BY <1>1, <2>1, <2>8, <3>4
  <2>9. CASE n # 0 BY <1>1, <2>1, <2>3, <2>4, <2>6, <2>7, <2>9
  <2> QED BY <2>8, <2>9
<1>6. CASE CasesNext
  <2>1. CASE \/ \E c \in Clients, pr \in Pairs, carries \in BOOLEAN, pin \in Pinned \cup {None} :
                    CommandWrites(c, pr, carries, pin)
             \/ \E c \in Clients : FindsCycleRow(c)
             \/ \E c \in Clients : ReadsCandidates(c)
             \/ \E c \in Clients : CommandThrows(c)
             \/ \E i \in Ids : \E shown \in SUBSET {pr \in Pairs : pr[2] = i} : RowLands(i, shown)
             \/ PassReadsRows \/ PassReadsLog \/ PassThrows
             \/ \E q \in pass.opens : PassOpens(q)
    BY <1>2, <2>1 DEF CommandWrites, FindsCycleRow, ReadsCandidates, CommandThrows, RowLands,
                      PassReadsRows, PassReadsLog, PassThrows, PassOpens
  <2>2. CASE \E c \in Clients : Inserts(c) BY <1>4, <2>2
  <2>3. CASE /\ pass.at = "emit"
             /\ \E S \in SUBSET (1..(Len(log) + Len(pass.batch))) : PassEmits(S)
    BY <1>5, <2>3
  <2>4. CASE Wipes BY <1>3, <2>4 DEF Wipes
  <2> QED BY <1>6, <2>1, <2>2, <2>3, <2>4 DEF CasesNext
<1>7. CASE RankBegins \/ RankMarks \/ RankReads \/ RankStores \/ RankThrows
           \/ \E g \in Graphs \ {model} : Applies(g)
  BY <1>2, <1>7 DEF RankBegins, RankMarks, RankReads, RankStores, RankThrows, Applies, casesVars
<1>8. CASE ApplyWipes BY <1>3, <1>8 DEF ApplyWipes
<1>9. CASE UNCHANGED actionsVars BY <1>2, <1>9 DEF actionsVars, casesVars
<1> QED BY <1>6, <1>7, <1>8, <1>9 DEF ActionsNext\* A mark stays good or is outdated for good; while it is the log's, the log has
\* not moved.
LEMMA MarkMoves ==
    ASSUME NEW lg \in Seq(LogRows), NEW lg2 \in Seq(LogRows), NEW n \in Nat, NEW n2 \in Nat,
           n <= n2,
           \/ lg2 = lg
           \/ lg2 = <<>>
           \/ Len(lg2) > Len(lg) /\ \A e \in ToSet(lg2) : e \in ToSet(lg) \/ e.n > n,
           NEW mark, Marked(lg, n, mark)
    PROVE  /\ Marked(lg2, n2, mark)
           /\ Outdated(lg, mark) => Outdated(lg2, mark)
           /\ Outdated(lg2, mark) \/ lg2 = lg
<1>1. mark[1] \in Nat /\ mark[2] \in Nat /\ mark[2] <= n BY DEF Marked
<1>2. mark \in Nat \X Nat /\ mark[2] <= n2 BY <1>1 DEF Marked
<1>3. CASE lg2 = lg BY <1>2, <1>3 DEF Marked
<1>4. CASE lg2 = <<>>
  <2>1. DOMAIN lg2 = {} BY <1>4, EmptySeq, LenProperties
  <2>2. Outdated(lg2, mark) BY <2>1 DEF Outdated
  <2> QED BY <1>2, <2>2 DEF Marked
<1>5. CASE Len(lg2) > Len(lg) /\ \A e \in ToSet(lg2) : e \in ToSet(lg) \/ e.n > n
  <2>1. Len(lg) \in Nat /\ Len(lg2) \in Nat BY LenProperties
  <2>2. CASE mark = MarkOf(lg) \/ Len(lg) > mark[1]
    <3>1. Len(lg2) > mark[1] BY <1>1, <1>5, <2>1, <2>2 DEF MarkOf
    <3> QED BY <1>2, <3>1 DEF Marked, Outdated
  <2>3. CASE \A k \in DOMAIN lg : lg[k].n > mark[2]
    <3>1. ASSUME NEW k \in DOMAIN lg2 PROVE lg2[k].n > mark[2]
      <4>1. lg2[k] \in ToSet(lg2) BY DEF ToSet
      <4>2. lg2[k].n \in Nat BY <4>1, LogRowsOf
      <4>3. CASE lg2[k] \in ToSet(lg) BY <2>3, <4>3 DEF ToSet
      <4>4. CASE lg2[k].n > n BY <1>1, <4>2, <4>4
      <4> QED BY <1>5, <4>1, <4>3, <4>4
    <3> QED BY <1>2, <3>1 DEF Marked, Outdated
  <2> QED BY <2>2, <2>3 DEF Marked, Outdated
<1> QED BY <1>3, <1>4, <1>5

\* A mark of the present log.
LEMMA MarksNow ==
    ASSUME CasesTypeOK, CasesInv
    PROVE  Watermark = MarkOf(log) /\ Marked(log, stamp, Watermark)
<1>1. log \in Seq(LogRows) /\ Len(log) \in Nat /\ stamp \in Nat
  BY LenProperties DEF CasesTypeOK
<1>2. log # <<>> => Last(log) \in ToSet(log)
  <2> SUFFICES ASSUME log # <<>> PROVE Last(log) \in ToSet(log) OBVIOUS
  <2>1. Len(log) \in DOMAIN log BY <1>1, EmptySeq, LenProperties
  <2> QED BY <2>1 DEF Last, ToSet
<1>3. log # <<>> => Last(log).n \in Nat /\ Last(log).n <= stamp
  <2>1. \A e \in ToSet(log) : e.n \in 1..stamp BY DEF CasesInv, LogOK
  <2> QED BY <1>1, <1>2, <2>1
<1>4. Watermark = MarkOf(log) BY DEF Watermark, MarkOf
<1>5. Watermark \in Nat \X Nat /\ Watermark[2] <= stamp BY <1>1, <1>3 DEF Watermark
<1> QED BY <1>4, <1>5 DEF Marked

\* Every step keeps what a ranking knows of the log.
LEMMA FreshKeeps ==
    ASSUME CasesTypeOK, CasesInv, FreshInv, RankTypeOK, CasesTypeOK', CasesInv',
           [ActionsNext]_actionsVars
    PROVE  FreshInv' /\ RankTypeOK'
<1>1. /\ log \in Seq(LogRows) /\ log' \in Seq(LogRows) /\ stamp \in Nat /\ stamp' \in Nat
      /\ stamp <= stamp'
      /\ \/ log' = log
         \/ log' = <<>>
         \/ Len(log') > Len(log) /\ \A e \in ToSet(log') : e \in ToSet(log) \/ e.n > stamp
  BY LogMoves DEF CasesTypeOK
<1>2. Marked(log, stamp, Watermark) BY MarksNow
<1>3. log' = log => Grouped(log') = Grouped(log) OBVIOUS
\* A ranking that does not move keeps what it promises.
<1>4. ASSUME rank' = rank
      PROVE  /\ rank'.at \in {"rows", "store"} => Marked(log', stamp', rank'.mark)
             /\ rank'.at = "store" => Outdated(log', rank'.mark) \/ rank'.shows = Grouped(log')
  <2> SUFFICES ASSUME rank.at \in {"rows", "store"}
               PROVE  /\ Marked(log', stamp', rank.mark)
                      /\ rank.at = "store" => Outdated(log', rank.mark) \/ rank.shows = Grouped(log')
    BY <1>4
  <2> DEFINE mark == rank.mark
  <2>1. Marked(log, stamp, mark) BY DEF FreshInv
  <2> HIDE DEF mark
  <2>2. /\ Marked(log', stamp', mark) /\ (Outdated(log, mark) => Outdated(log', mark))
        /\ (Outdated(log', mark) \/ log' = log)
    BY <1>1, <2>1, MarkMoves
  <2> QED BY <1>3, <2>2 DEF mark, FreshInv
<1>5. ASSUME blob' = blob
      PROVE  blob' # None => /\ Marked(log', stamp', blob'.mark)
                             /\ Outdated(log', blob'.mark) \/ blob'.shows = Grouped(log')
  <2> SUFFICES ASSUME blob # None
               PROVE  /\ Marked(log', stamp', blob.mark)
                      /\ Outdated(log', blob.mark) \/ blob.shows = Grouped(log')
    BY <1>5
  <2> DEFINE mark == blob.mark
  <2>1. Marked(log, stamp, mark) BY DEF FreshInv
  <2> HIDE DEF mark
  <2>2. /\ Marked(log', stamp', mark) /\ (Outdated(log, mark) => Outdated(log', mark))
        /\ (Outdated(log', mark) \/ log' = log)
    BY <1>1, <2>1, MarkMoves
  <2> QED BY <1>3, <2>2 DEF mark, FreshInv
<1> DEFINE RankHolds == /\ rank.at \in {"rows", "store"} => Marked(log, stamp, rank.mark)
                        /\ rank.at = "store" => Outdated(log, rank.mark) \/ rank.shows = Grouped(log)
           BlobHolds == blob # None => /\ Marked(log, stamp, blob.mark)
                                       /\ Outdated(log, blob.mark) \/ blob.shows = Grouped(log)
<1>6. FreshInv' <=> RankHolds' /\ BlobHolds' BY DEF FreshInv
<1>7. CASE (CasesNext /\ UNCHANGED rankVars) \/ UNCHANGED actionsVars
           \/ (\E g \in Graphs \ {model} : Applies(g)) \/ ApplyWipes
  <2>1. rank' = rank /\ blob' = blob /\ model' \in Graphs /\ applying' \in BOOLEAN
    BY <1>7 DEF rankVars, actionsVars, Applies, ApplyWipes, RankTypeOK
  <2>2. RankTypeOK' BY <2>1 DEF RankTypeOK
  <2> QED BY <1>4, <1>5, <1>6, <2>1, <2>2
<1>8. CASE RankBegins \/ RankThrows
  <2>1. rank'.at \in {"mark", "idle"} /\ UNCHANGED <<blob, model, applying>>
    BY <1>8 DEF RankBegins, RankThrows, Idle
  <2>2. RankTypeOK' BY <2>1 DEF RankTypeOK
  <2> QED BY <1>5, <1>6, <2>1, <2>2
<1>9. CASE RankMarks
  <2>1. rank' = [at |-> "rows", key |-> rank.key, mark |-> Watermark]
        /\ UNCHANGED <<log, stamp, blob, model, applying>>
    BY <1>9 DEF RankMarks, casesVars
  <2>2. RankTypeOK' BY <2>1 DEF RankTypeOK
  <2>3. RankHolds' BY <1>2, <2>1
  <2> QED BY <1>5, <1>6, <2>1, <2>2, <2>3
<1>10. CASE RankReads
  <2>1. /\ rank' = [at |-> "store", key |-> rank.key, mark |-> rank.mark, shows |-> Grouped(log)]
        /\ rank.at = "rows" /\ UNCHANGED <<log, stamp, blob, model, applying>>
    BY <1>10 DEF RankReads, casesVars
  <2>2. RankTypeOK' BY <2>1 DEF RankTypeOK
  <2>3. Marked(log, stamp, rank.mark) BY <2>1 DEF FreshInv
  <2>4. RankHolds' BY <2>1, <2>3
  <2> QED BY <1>5, <1>6, <2>1, <2>2, <2>4
<1>11. CASE RankStores
  <2>1. /\ blob' = [key |-> rank.key, mark |-> rank.mark, shows |-> rank.shows] /\ rank' = Idle
        /\ rank.at = "store" /\ UNCHANGED <<log, stamp, model, applying>>
    BY <1>11 DEF RankStores, casesVars
  <2>2. RankTypeOK' BY <2>1 DEF RankTypeOK, Idle
  <2>3. RankHolds' BY <2>1 DEF Idle
  <2>4. Marked(log, stamp, rank.mark) /\ (Outdated(log, rank.mark) \/ rank.shows = Grouped(log))
    BY <2>1 DEF FreshInv
  <2>5. BlobHolds' BY <2>1, <2>4
  <2> QED BY <1>6, <2>2, <2>3, <2>5
<1> QED BY <1>7, <1>8, <1>9, <1>10, <1>11 DEF ActionsNext

\* Initially there is no ranking.
LEMMA RankBegun ==
    ASSUME ActionsInit PROVE FreshInv /\ RankTypeOK
<1>1. applying \in BOOLEAN BY Zenon DEF ActionsInit
<1>2. rank.at = "idle" /\ model \in Graphs /\ blob = None BY DEF ActionsInit, Idle
<1> QED BY <1>1, <1>2 DEF FreshInv, RankTypeOK

\* The types of a ranking, and what holds of its mark.
THEOREM RankingsTyped == ActionsSpec => [](RankTypeOK /\ FreshInv)
<1>1. ActionsInit => FreshInv /\ RankTypeOK BY RankBegun
<1>2. /\ CasesTypeOK /\ CasesInv /\ FreshInv /\ RankTypeOK
      /\ CasesTypeOK' /\ CasesInv' /\ [ActionsNext]_actionsVars
      => FreshInv' /\ RankTypeOK'
  BY FreshKeeps
<1> QED BY <1>1, <1>2, CasesTyped, PTL DEF ActionsSpec

\* A stored ranking that is called fresh was made from the cases as they are:
\* a log that has moved since the mark was read never shows that mark again
\* while it is not empty.
THEOREM RankingsReadFresh == ActionsSpec => []FreshIsCurrent
<1>1. CasesTypeOK /\ FreshInv => FreshIsCurrent
  <2> SUFFICES ASSUME CasesTypeOK, FreshInv, blob # None, blob.mark = Watermark, log # <<>>
               PROVE  blob.shows = Grouped(log)
    BY DEF FreshIsCurrent
  <2>1. log \in Seq(LogRows) /\ Len(log) \in Nat BY LenProperties DEF CasesTypeOK
  <2>2. Len(log) \in DOMAIN log BY <2>1, EmptySeq, LenProperties
  <2>3. log[Len(log)].n \in Nat BY <2>1, <2>2, LogRowsOf DEF ToSet
  <2>4. ~Outdated(log, blob.mark) BY <2>1, <2>2, <2>3 DEF Outdated, Watermark, Last
  <2> QED BY <2>4 DEF FreshInv
<1> QED BY <1>1, RankingsTyped, CasesTyped, PTL
-----------------------------------------------------------------------------
(* Sequences without repetition.                                           *)

\* No member occurs twice.
NoRepeat(s) == \A j, k \in DOMAIN s : s[j] = s[k] => j = k

\* What Append adds.
LEMMA AppendMembers ==
    ASSUME NEW A, NEW s \in Seq(A), NEW x \in A
    PROVE  /\ Append(s, x) \in Seq(A)
           /\ ToSet(Append(s, x)) = ToSet(s) \cup {x}
           /\ NoRepeat(s) /\ x \notin ToSet(s) => NoRepeat(Append(s, x))
<1> DEFINE t == Append(s, x)
           n == Len(s)
<1>1. /\ n \in Nat /\ DOMAIN s = 1..n /\ t \in Seq(A) /\ DOMAIN t = 1..(n + 1)
      /\ \A k \in 1..n : t[k] = s[k]
      /\ t[n + 1] = x
  BY AppendProperties, LenProperties
<1> HIDE DEF t, n
<1>2. \A k \in 1..(n + 1) : k \in 1..n \/ k = n + 1 BY <1>1
<1>3. n + 1 \in 1..(n + 1) /\ \A k \in 1..n : k \in 1..(n + 1) BY <1>1
<1>4. \A y \in ToSet(t) : y \in ToSet(s) \/ y = x BY <1>1, <1>2 DEF ToSet
<1>5. \A y \in ToSet(s) : y \in ToSet(t) BY <1>1, <1>3 DEF ToSet
<1>6. x \in ToSet(t) BY <1>1, <1>3 DEF ToSet
<1>7. ToSet(t) = ToSet(s) \cup {x} BY <1>4, <1>5, <1>6
<1>8. ASSUME NoRepeat(s), x \notin ToSet(s), NEW j \in DOMAIN t, NEW k \in DOMAIN t, t[j] = t[k]
      PROVE  j = k
  <2>1. \A m \in 1..n : s[m] # x BY <1>1, <1>8 DEF ToSet
  <2>2. \A l, m \in 1..n : s[l] = s[m] => l = m BY <1>1, <1>8 DEF NoRepeat
  <2> QED BY <1>1, <1>2, <1>8, <2>1, <2>2
<1> QED BY <1>1, <1>7, <1>8 DEF NoRepeat, t

\* What Tail takes away.
LEMMA HeadMembers ==
    ASSUME NEW A, NEW s \in Seq(A), s # <<>>
    PROVE  /\ Head(s) \in ToSet(s) /\ Head(s) \in A /\ Tail(s) \in Seq(A)
           /\ ToSet(s) = {Head(s)} \cup ToSet(Tail(s))
           /\ NoRepeat(s) => NoRepeat(Tail(s)) /\ Head(s) \notin ToSet(Tail(s))
<1> DEFINE t == Tail(s)
           n == Len(t)
<1>1. /\ n \in Nat /\ DOMAIN s = 1..(n + 1) /\ t \in Seq(A) /\ DOMAIN t = 1..n
      /\ \A k \in 1..n : t[k] = s[k + 1]
      /\ Head(s) \in A /\ Head(s) = s[1]
  <2>1. /\ Head(s) \in A /\ t \in Seq(A) /\ Len(t) = Len(s) - 1
        /\ \A k \in 1..Len(t) : t[k] = s[k + 1]
    BY HeadTailProperties
  <2>2. DOMAIN s = 1..Len(s) /\ Len(s) \in Nat /\ DOMAIN t = 1..Len(t) /\ Len(t) \in Nat
    BY <2>1, LenProperties
  <2>3. Head(s) = s[1] OBVIOUS
  <2> HIDE DEF t
  <2>4. Len(s) = Len(t) + 1 BY <2>1, <2>2
  <2> QED BY <2>1, <2>2, <2>3, <2>4
<1> HIDE DEF t, n
<1>2. \A k \in 1..(n + 1) : k = 1 \/ (k - 1 \in 1..n /\ (k - 1) + 1 = k) BY <1>1
<1>3. 1 \in 1..(n + 1) /\ \A k \in 1..n : k + 1 \in 1..(n + 1) /\ k + 1 # 1 BY <1>1
<1>4. \A y \in ToSet(s) : y \in ToSet(t) \/ y = Head(s)
  <2> SUFFICES ASSUME NEW k \in 1..(n + 1), k # 1 PROVE s[k] \in ToSet(t) BY <1>1 DEF ToSet
  <2>1. k - 1 \in DOMAIN t /\ t[k - 1] = s[k] BY <1>1, <1>2
  <2> QED BY <2>1 DEF ToSet
<1>5. \A y \in ToSet(t) : y \in ToSet(s)
  <2> SUFFICES ASSUME NEW k \in 1..n PROVE t[k] \in ToSet(s) BY <1>1 DEF ToSet
  <2>1. k + 1 \in DOMAIN s /\ s[k + 1] = t[k] BY <1>1, <1>3
  <2> QED BY <2>1 DEF ToSet
<1>6. Head(s) \in ToSet(s) BY <1>1, <1>3 DEF ToSet
<1>7. ToSet(s) = {Head(s)} \cup ToSet(t) BY <1>4, <1>5, <1>6
<1>8. ASSUME NoRepeat(s) PROVE NoRepeat(t) /\ Head(s) \notin ToSet(t)
  <2>1. \A j, k \in 1..(n + 1) : s[j] = s[k] => j = k BY <1>1, <1>8 DEF NoRepeat
  <2>2. \A k \in 1..n : t[k] # s[1] BY <1>1, <1>3, <2>1
  <2>3. \A j, k \in 1..n : t[j] = t[k] => j + 1 = k + 1 BY <1>1, <1>3, <2>1
  <2>4. \A j, k \in 1..n : j + 1 = k + 1 => j = k BY <1>1
  <2> QED BY <1>1, <2>2, <2>3, <2>4 DEF NoRepeat, ToSet
<1> QED BY <1>1, <1>6, <1>7, <1>8 DEF t

\* What is in two sequences put together.
LEMMA ConcatMembers ==
    ASSUME NEW A, NEW s \in Seq(A), NEW t \in Seq(A)
    PROVE  /\ s \o t \in Seq(A)
           /\ ToSet(s \o t) = ToSet(s) \cup ToSet(t)
           /\ NoRepeat(s) /\ NoRepeat(t) /\ ToSet(s) \cap ToSet(t) = {} => NoRepeat(s \o t)
<1> DEFINE u == s \o t
           m == Len(s)
           n == Len(t)
<1>1. /\ m \in Nat /\ n \in Nat /\ DOMAIN s = 1..m /\ DOMAIN t = 1..n
      /\ u \in Seq(A) /\ DOMAIN u = 1..(m + n)
      /\ \A k \in 1..(m + n) : u[k] = IF k <= m THEN s[k] ELSE t[k - m]
  <2>1. /\ m \in Nat /\ n \in Nat /\ DOMAIN s = 1..m /\ DOMAIN t = 1..n BY LenProperties
  <2>2. u \in Seq(A) /\ Len(u) = m + n
        /\ \A k \in 1..(m + n) : u[k] = IF k <= m THEN s[k] ELSE t[k - m]
    BY ConcatProperties
  <2>3. DOMAIN u = 1..(m + n) BY <2>2, LenProperties
  <2> QED BY <2>1, <2>2, <2>3
<1> HIDE DEF u, m, n
<1>2. \A k \in 1..(m + n) : (k <= m /\ k \in 1..m) \/ (~(k <= m) /\ k - m \in 1..n) BY <1>1
<1>3. /\ \A k \in 1..m : k \in 1..(m + n) /\ k <= m
      /\ \A k \in 1..n : k + m \in 1..(m + n) /\ ~(k + m <= m) /\ (k + m) - m = k
  BY <1>1
<1>4. \A k \in 1..m : u[k] = s[k] BY <1>1, <1>3
<1>5. \A k \in 1..n : u[k + m] = t[k] BY <1>1, <1>3
<1>6. \A y \in ToSet(u) : y \in ToSet(s) \/ y \in ToSet(t)
  <2> SUFFICES ASSUME NEW k \in 1..(m + n) PROVE u[k] \in ToSet(s) \/ u[k] \in ToSet(t)
    BY <1>1 DEF ToSet
  <2>1. CASE k <= m /\ k \in 1..m BY <1>1, <2>1 DEF ToSet
  <2>2. CASE ~(k <= m) /\ k - m \in 1..n
    <3>1. u[k] = t[k - m] BY <1>1, <2>2
    <3> QED BY <1>1, <2>2, <3>1 DEF ToSet
  <2> QED BY <1>2, <2>1, <2>2
<1>7. \A y \in ToSet(s) : y \in ToSet(u)
  <2> SUFFICES ASSUME NEW k \in 1..m PROVE s[k] \in ToSet(u) BY <1>1 DEF ToSet
  <2>1. k \in DOMAIN u /\ u[k] = s[k] BY <1>1, <1>3, <1>4
  <2> QED BY <2>1 DEF ToSet
<1>8. \A y \in ToSet(t) : y \in ToSet(u)
  <2> SUFFICES ASSUME NEW k \in 1..n PROVE t[k] \in ToSet(u) BY <1>1 DEF ToSet
  <2>1. k + m \in DOMAIN u /\ u[k + m] = t[k] BY <1>1, <1>3, <1>5
  <2> QED BY <2>1 DEF ToSet
<1>9. ToSet(u) = ToSet(s) \cup ToSet(t) BY <1>6, <1>7, <1>8
<1>10. ASSUME NoRepeat(s), NoRepeat(t), ToSet(s) \cap ToSet(t) = {},
              NEW j \in 1..(m + n), NEW k \in 1..(m + n), u[j] = u[k]
       PROVE  j = k
  <2>1. \A a, b \in 1..m : s[a] = s[b] => a = b BY <1>1, <1>10 DEF NoRepeat
  <2>2. \A a, b \in 1..n : t[a] = t[b] => a = b BY <1>1, <1>10 DEF NoRepeat
  <2>3. \A a \in 1..m, b \in 1..n : s[a] # t[b] BY <1>1, <1>10 DEF ToSet
  <2>4. CASE k <= m /\ j <= m BY <1>1, <1>2, <1>10, <2>1, <2>4
  <2>5. CASE ~(k <= m) /\ ~(j <= m)
    <3>1. j - m \in 1..n /\ k - m \in 1..n /\ t[j - m] = t[k - m] BY <1>1, <1>2, <1>10, <2>5
    <3>2. j - m = k - m BY <2>2, <3>1
    <3> QED BY <1>1, <3>2
  <2>6. CASE (k <= m) # (j <= m) BY <1>1, <1>2, <1>10, <2>3, <2>6
  <2> QED BY <2>4, <2>5, <2>6
<1> QED BY <1>1, <1>9, <1>10 DEF NoRepeat, u

\* A sequence without repetition is as long as it has members.
LEMMA LenNoRepeat ==
    ASSUME NEW A, NEW s \in Seq(A), NoRepeat(s)
    PROVE  IsFiniteSet(ToSet(s)) /\ Cardinality(ToSet(s)) = Len(s)
<1>1. Len(s) \in Nat /\ DOMAIN s = 1..Len(s) /\ s \in [1..Len(s) -> A] BY LenProperties
<1>2. IsFiniteSet(1..Len(s)) /\ Cardinality(1..Len(s)) = Len(s) BY <1>1, FS_Interval
<1>3. s \in Bijection(1..Len(s), ToSet(s))
  <2>1. s \in [1..Len(s) -> ToSet(s)]
    <3>1. s = [k \in 1..Len(s) |-> s[k]] BY <1>1
    <3>2. \A k \in 1..Len(s) : s[k] \in ToSet(s) BY <1>1 DEF ToSet
    <3> QED BY <3>1, <3>2
  <2>2. \A j, k \in 1..Len(s) : s[j] = s[k] => j = k BY <1>1 DEF NoRepeat
  <2>3. \A y \in ToSet(s) : \E k \in 1..Len(s) : s[k] = y BY <1>1 DEF ToSet
  <2>4. s \in Injection(1..Len(s), ToSet(s)) BY <2>1, <2>2 DEF Injection, IsInjective
  <2>5. s \in Surjection(1..Len(s), ToSet(s)) BY <2>1, <2>3 DEF Surjection
  <2> QED BY <2>4, <2>5 DEF Bijection
<1>4. ExistsBijection(1..Len(s), ToSet(s)) BY <1>3 DEF ExistsBijection
<1> QED BY <1>2, <1>4, FS_Bijection
-----------------------------------------------------------------------------
(* The topological order.                                                  *)

\* The keys up to the k-th that are in S; the recursion in InKeyOrder.
KeyStep(S, s, k) == IF Keys[k] \in S THEN Append(s, Keys[k]) ELSE s

\* The recursion in InKeyOrder has a solution.
LEMMA InKeyOrderSteps ==
    ASSUME NEW S
    PROVE  \E f : /\ InKeyOrder(S) = f[Len(Keys)]
                  /\ f[0] = <<>>
                  /\ \A k \in 1..Len(Keys) : f[k] = KeyStep(S, f[k - 1], k)
<1> DEFINE n == Len(Keys)
           E(f, k) == IF k = 0 THEN <<>> ELSE KeyStep(S, f[k - 1], k)
           T == {m \in 0..n : \E f : f = [k \in 0..m |-> E(f, k)]}
<1>1. n \in Nat BY GraphsAssumption, LenProperties
<1>2. 0 \in T
  <2>1. \E f : f = [k \in 0..0 |-> E(f, k)]
    <3> DEFINE g == [k \in 0..0 |-> <<>>]
    <3>1. g = [k \in 0..0 |-> E(g, k)] OBVIOUS
    <3> HIDE DEF g
    <3> WITNESS g
    <3> QED BY <3>1
  <2> QED BY <1>1, <2>1
<1>3. ASSUME NEW m \in 0..(n - 1), m \in T PROVE m + 1 \in T
  <2>1. PICK f : f = [k \in 0..m |-> E(f, k)] BY <1>3
  <2> DEFINE g == [k \in 0..(m + 1) |-> IF k = m + 1 THEN E(f, k) ELSE f[k]]
  <2>2. \A k \in 0..m : g[k] = f[k] BY <1>1, <1>3
  <2>3. \A k \in 0..(m + 1) : g[k] = E(g, k)
    <3> SUFFICES ASSUME NEW k \in 0..(m + 1) PROVE g[k] = E(g, k) OBVIOUS
    <3>0. g[k] = E(f, k) BY <2>1
    <3>1. k = 0 \/ (k - 1 \in 0..m /\ g[k - 1] = f[k - 1]) BY <1>1, <1>3, <2>2
    <3> QED BY <3>0, <3>1
  <2>4. g = [k \in 0..(m + 1) |-> E(g, k)] BY <2>3
  <2>5. \E h : h = [k \in 0..(m + 1) |-> E(h, k)]
    <3> HIDE DEF g
    <3> WITNESS g
    <3> QED BY <2>4
  <2>6. m + 1 \in 0..n BY <1>1, <1>3
  <2> HIDE DEF E, g
  <2> QED BY <2>5, <2>6
<1>4. \A m \in 0..n : m \in T
  <2> HIDE DEF T
  <2> QED BY <1>1, <1>2, <1>3, SetInduction
<1>5. PICK f : f = [k \in 0..n |-> E(f, k)] BY <1>1, <1>4
<1> DEFINE F == CHOOSE g : g = [k \in 0..n |-> E(g, k)]
<1>6. InKeyOrder(S) = F[n] BY DEF InKeyOrder, KeyStep
<1>7. F = [k \in 0..n |-> E(F, k)] BY <1>5
<1>8. \A k \in 0..n : F[k] = E(F, k)
  <2> HIDE DEF F, E
  <2> QED BY <1>7
<1>9. 0 \in 0..n /\ \A k \in 1..n : k \in 0..n /\ k # 0 BY <1>1
<1> HIDE DEF F
<1>10. F[0] = <<>> /\ \A k \in 1..n : F[k] = KeyStep(S, F[k - 1], k) BY <1>8, <1>9
<1> WITNESS F
<1> QED BY <1>6, <1>10

\* The events of a set, each once.
LEMMA InKeyOrderFacts ==
    ASSUME NEW S \in SUBSET Events
    PROVE  /\ InKeyOrder(S) \in Seq(Events)
           /\ ToSet(InKeyOrder(S)) = S
           /\ NoRepeat(InKeyOrder(S))
<1> DEFINE n == Len(Keys)
           Upto(k) == {Keys[j] : j \in 1..k} \cap S
           Good(s, k) == s \in Seq(Events) /\ ToSet(s) = Upto(k) /\ NoRepeat(s)
<1>1. PICK f : /\ InKeyOrder(S) = f[n] /\ f[0] = <<>>
               /\ \A k \in 1..n : f[k] = KeyStep(S, f[k - 1], k)
  BY InKeyOrderSteps
<1>2. n \in Nat /\ DOMAIN Keys = 1..n /\ \A k \in 1..n : Keys[k] \in Events
  BY GraphsAssumption, LenProperties, ElementOfSeq
<1>3. \A j, k \in 1..n : Keys[j] = Keys[k] => j = k BY <1>2, GraphsAssumption
<1> DEFINE T == {k \in 0..n : Good(f[k], k)}
<1>4. 0 \in T
  <2>1. Upto(0) = {} OBVIOUS
  <2>2. <<>> \in Seq(Events) /\ DOMAIN <<>> = {} BY EmptySeq, LenProperties
  <2>3. ToSet(<<>>) = {} BY <2>2 DEF ToSet
  <2>4. NoRepeat(<<>>) BY <2>2 DEF NoRepeat
  <2>5. Good(f[0], 0)
    <3> HIDE DEF Upto
    <3> QED BY <1>1, <2>1, <2>2, <2>3, <2>4
  <2> HIDE DEF Good
  <2> QED BY <1>2, <2>5
<1>5. ASSUME NEW m \in 0..(n - 1), m \in T PROVE m + 1 \in T
  <2> DEFINE s == f[m]
             x == Keys[m + 1]
  <2>1. Good(s, m) BY <1>5
  <2>2. m + 1 \in 1..n /\ m + 1 \in 0..n /\ (m + 1) - 1 = m /\ m \in Nat BY <1>2
  <2>3. f[m + 1] = IF x \in S THEN Append(s, x) ELSE s BY <1>1, <2>2 DEF KeyStep
  <2>4. x \in Events BY <1>2, <2>2
  <2>5. Upto(m + 1) = IF x \in S THEN Upto(m) \cup {x} ELSE Upto(m)
    <3>1. \A j \in 1..(m + 1) : j \in 1..m \/ j = m + 1 BY <2>2
    <3>2. m + 1 \in 1..(m + 1) /\ \A j \in 1..m : j \in 1..(m + 1) BY <2>2
    <3>3. {Keys[j] : j \in 1..(m + 1)} = {Keys[j] : j \in 1..m} \cup {x} BY <3>1, <3>2
    <3> QED BY <3>3
  <2>6. x \notin Upto(m)
    <3>1. \A j \in 1..m : j \in 1..n /\ j # m + 1 BY <1>2, <2>2
    <3> QED BY <1>3, <2>2, <3>1
  <2> HIDE DEF Upto, s, x
  <2>7. CASE x \in S
    <3>1. Append(s, x) \in Seq(Events) /\ ToSet(Append(s, x)) = ToSet(s) \cup {x}
          /\ NoRepeat(Append(s, x))
      BY <2>1, <2>4, <2>6, AppendMembers
    <3> QED BY <2>1, <2>2, <2>3, <2>5, <2>7, <3>1
  <2>8. CASE x \notin S BY <2>1, <2>2, <2>3, <2>5, <2>8
  <2> QED BY <2>7, <2>8
<1>6. n \in T
  <2> HIDE DEF T
  <2>1. \A k \in 0..n : k \in T BY <1>2, <1>4, <1>5, SetInduction
  <2> QED BY <1>2, <2>1
<1>7. Good(f[n], n) BY <1>6
<1>8. Upto(n) = S BY <1>2 DEF Events, ToSet
<1> QED BY <1>1, <1>7, <1>8

\* What Kahn's loop starts from.
KahnBegun(g) == [left |-> [e \in Events |-> Len(g.follows[e])], order |-> <<>>,
                 queue |-> InKeyOrder({e \in Events : g.follows[e] = <<>>})]

\* The recursion in Kahn has a solution.
LEMMA KahnSteps ==
    ASSUME NEW g
    PROVE  /\ Kahn(g)[0] = KahnBegun(g)
           /\ \A k \in 1..Len(Keys) : Kahn(g)[k] = TakeFirst(g, Kahn(g)[k - 1])
<1> DEFINE n == Len(Keys)
           E(f, k) == IF k = 0 THEN KahnBegun(g) ELSE TakeFirst(g, f[k - 1])
           T == {m \in 0..n : \E f : f = [k \in 0..m |-> E(f, k)]}
<1>1. n \in Nat BY GraphsAssumption, LenProperties
<1>2. 0 \in T
  <2>1. \E f : f = [k \in 0..0 |-> E(f, k)]
    <3> DEFINE h == [k \in 0..0 |-> KahnBegun(g)]
    <3>1. h = [k \in 0..0 |-> E(h, k)] OBVIOUS
    <3> HIDE DEF h
    <3> WITNESS h
    <3> QED BY <3>1
  <2> QED BY <1>1, <2>1
<1>3. ASSUME NEW m \in 0..(n - 1), m \in T PROVE m + 1 \in T
  <2>1. PICK f : f = [k \in 0..m |-> E(f, k)] BY <1>3
  <2> DEFINE h == [k \in 0..(m + 1) |-> IF k = m + 1 THEN E(f, k) ELSE f[k]]
  <2>2. \A k \in 0..m : h[k] = f[k] BY <1>1, <1>3
  <2>3. \A k \in 0..(m + 1) : h[k] = E(h, k)
    <3> SUFFICES ASSUME NEW k \in 0..(m + 1) PROVE h[k] = E(h, k) OBVIOUS
    <3>0. h[k] = E(f, k) BY <2>1
    <3>1. k = 0 \/ (k - 1 \in 0..m /\ h[k - 1] = f[k - 1]) BY <1>1, <1>3, <2>2
    <3> QED BY <3>0, <3>1
  <2>4. h = [k \in 0..(m + 1) |-> E(h, k)] BY <2>3
  <2>5. \E i : i = [k \in 0..(m + 1) |-> E(i, k)]
    <3> HIDE DEF h
    <3> WITNESS h
    <3> QED BY <2>4
  <2>6. m + 1 \in 0..n BY <1>1, <1>3
  <2> HIDE DEF E, h
  <2> QED BY <2>5, <2>6
<1>4. \A m \in 0..n : m \in T
  <2> HIDE DEF T
  <2> QED BY <1>1, <1>2, <1>3, SetInduction
<1>5. PICK f : f = [k \in 0..n |-> E(f, k)] BY <1>1, <1>4
<1> DEFINE F == CHOOSE h : h = [k \in 0..n |-> E(h, k)]
<1>6. Kahn(g) = F BY DEF Kahn, KahnBegun
<1>7. F = [k \in 0..n |-> E(F, k)] BY <1>5
<1>8. \A k \in 0..n : F[k] = E(F, k)
  <2> HIDE DEF F, E
  <2> QED BY <1>7
<1>9. 0 \in 0..n /\ \A k \in 1..n : k \in 0..n /\ k # 0 BY <1>1
<1> HIDE DEF F
<1> QED BY <1>6, <1>8, <1>9

\* The predecessors of s that are not taken, each as often as s names it.
Left(g, s, taken) == Cardinality({k \in DOMAIN g.follows[s] : g.follows[s][k] \notin taken})

\* The predecessors left: none when all are taken, fewer when one more is.
LEMMA LeftFacts ==
    ASSUME NEW g \in Graphs, NEW s \in Events, NEW taken
    PROVE  /\ Left(g, s, taken) \in Nat
           /\ Left(g, s, taken) = 0 <=> Predecessors(g, s) \subseteq taken
           /\ Left(g, s, {}) = Len(g.follows[s])
           /\ \A e : e \notin taken =>
                  Left(g, s, taken \cup {e})
                  = Left(g, s, taken) - Cardinality({k \in DOMAIN g.follows[s] : g.follows[s][k] = e})
<1> DEFINE p == g.follows[s]
           U(t) == {k \in DOMAIN p : p[k] \notin t}
<1>1. p \in Seq(Events) BY GraphsAssumption
<1>2. Len(p) \in Nat /\ DOMAIN p = 1..Len(p) BY <1>1, LenProperties
<1>3. IsFiniteSet(DOMAIN p) /\ Cardinality(DOMAIN p) = Len(p) BY <1>2, FS_Interval
<1>4. \A t : U(t) \in SUBSET DOMAIN p OBVIOUS
<1>5. \A t : IsFiniteSet(U(t)) /\ Cardinality(U(t)) \in Nat
  <2> HIDE DEF U
  <2> QED BY <1>3, <1>4, FS_Subset, FS_CardinalityType
<1>6. Left(g, s, taken) = Cardinality(U(taken)) BY DEF Left
<1>7. Cardinality(U(taken)) = 0 <=> U(taken) = {}
  <2> HIDE DEF U
  <2> QED BY <1>5, FS_EmptySet
<1>8. U(taken) = {} <=> Predecessors(g, s) \subseteq taken BY DEF Predecessors, ToSet
<1>9. Left(g, s, {}) = Len(p)
  <2>1. U({}) = DOMAIN p OBVIOUS
  <2> HIDE DEF U
  <2>2. Cardinality(U({})) = Len(p) BY <1>3, <2>1
  <2> QED BY <2>2 DEF Left, U
<1>10. ASSUME NEW e, e \notin taken
       PROVE  Left(g, s, taken \cup {e}) = Left(g, s, taken) - Cardinality({k \in DOMAIN p : p[k] = e})
  <2> DEFINE V == {k \in DOMAIN p : p[k] = e}
             W == U(taken)
             X == U(taken \cup {e})
  <2>1. X = W \ V /\ W \cap V = V BY <1>10
  <2>2. IsFiniteSet(W) BY <1>5
  <2>3. Left(g, s, taken) = Cardinality(W) /\ Left(g, s, taken \cup {e}) = Cardinality(X)
    BY DEF Left
  <2> HIDE DEF V, W, X
  <2>4. Cardinality(W \ V) = Cardinality(W) - Cardinality(W \cap V) BY <2>2, FS_Difference
  <2>5. Cardinality(X) = Cardinality(W) - Cardinality(V) BY <2>1, <2>4
  <2> QED BY <2>3, <2>5 DEF V
<1> HIDE DEF U
<1> QED BY <1>5, <1>6, <1>7, <1>8, <1>9, <1>10 DEF p

\* What Kahn's loop keeps: the events whose predecessors are all taken are
\* taken or queued, each once, and every taken one comes after its predecessors.
KahnDone == [left : [Events -> Nat], order : Seq(Events), queue : Seq(Events)]
KahnInv(g, d) ==
    LET taken == ToSet(d.order)
        queued == ToSet(d.queue)
    IN  /\ d \in KahnDone
        /\ \A s \in Events : d.left[s] = Left(g, s, taken)
        /\ \A s \in Events : Predecessors(g, s) \subseteq taken <=> s \in taken \cup queued
        /\ taken \cap queued = {}
        /\ NoRepeat(d.order) /\ NoRepeat(d.queue)
        /\ \A j \in DOMAIN d.order : \A x \in Predecessors(g, d.order[j]) :
               \E i \in 1..(j - 1) : d.order[i] = x

\* Successors and predecessors are two views of one graph.
LEMMA GraphFacts ==
    ASSUME NEW g \in Graphs, NEW s
    PROVE  /\ \A e : e \in SuccessorsOf(g, s) <=> e \in Events /\ s \in Predecessors(g, e)
           /\ s \in Events => Predecessors(g, s) \subseteq Events
           /\ SuccessorsOf(g, s) \subseteq Events
           /\ s \in Events => g.follows[s] \in Seq(Events)
           /\ s \in Events => (g.follows[s] = <<>> <=> Predecessors(g, s) = {})
<1>1. s \in Events => g.follows[s] \in Seq(Events) BY GraphsAssumption
<1>2. ASSUME s \in Events
      PROVE  /\ Predecessors(g, s) \subseteq Events
             /\ g.follows[s] = <<>> <=> Predecessors(g, s) = {}
  <2> DEFINE p == g.follows[s]
  <2>1. p \in Seq(Events) BY <1>1, <1>2
  <2> HIDE DEF p
  <2>2. Len(p) \in Nat /\ DOMAIN p = 1..Len(p) BY <2>1, LenProperties
  <2>3. p = <<>> <=> DOMAIN p = {}
    <3>1. p = <<>> => DOMAIN p = {} BY <2>2, EmptySeq
    <3>2. p # <<>> => 1 \in DOMAIN p BY <2>1, <2>2, EmptySeq
    <3> QED BY <3>1, <3>2
  <2>4. \A k \in DOMAIN p : p[k] \in Events BY <2>1, <2>2, ElementOfSeq
  <2> QED BY <2>3, <2>4 DEF Predecessors, ToSet, p
<1> QED BY <1>1, <1>2 DEF SuccessorsOf

\* The loop begins with its invariant.
LEMMA KahnBegins ==
    ASSUME NEW g \in Graphs PROVE KahnInv(g, KahnBegun(g))
<1> DEFINE d == KahnBegun(g)
           S == {e \in Events : g.follows[e] = <<>>}
<1>1. /\ d.left = [e \in Events |-> Len(g.follows[e])] /\ d.order = <<>>
      /\ d.queue = InKeyOrder(S)
  BY DEF KahnBegun
<1>2. d = [left |-> d.left, order |-> d.order, queue |-> d.queue] BY DEF KahnBegun
<1>3. d.queue \in Seq(Events) /\ ToSet(d.queue) = S /\ NoRepeat(d.queue)
  BY <1>1, InKeyOrderFacts
<1>4. d.order \in Seq(Events) /\ DOMAIN d.order = {} BY <1>1, EmptySeq, LenProperties
<1>5. ToSet(d.order) = {} /\ NoRepeat(d.order) BY <1>4 DEF ToSet, NoRepeat
<1> HIDE DEF d
<1>6. \A s \in Events : d.left[s] = Left(g, s, {}) /\ d.left[s] \in Nat BY <1>1, LeftFacts
<1>7. d.left \in [Events -> Nat] BY <1>1, <1>6
<1>8. \A s \in Events : Predecessors(g, s) \subseteq {} <=> s \in S BY GraphFacts
<1>9. d \in KahnDone BY <1>2, <1>3, <1>4, <1>7 DEF KahnDone
<1> HIDE DEF S
<1>10. KahnInv(g, d) BY <1>3, <1>4, <1>5, <1>6, <1>8, <1>9 DEF KahnInv
<1> QED BY <1>10 DEF d

\* A turn of the loop.
LEMMA KahnTurn ==
    ASSUME NEW g \in Graphs, NEW d, KahnInv(g, d), d.queue # <<>>
    PROVE  LET d2 == TakeFirst(g, d)
           IN  KahnInv(g, d2) /\ Len(d2.order) = Len(d.order) + 1
<1> DEFINE e == Head(d.queue)
           rest == Tail(d.queue)
           count(s) == Cardinality({k \in DOMAIN g.follows[s] : g.follows[s][k] = e})
           left == [s \in Events |-> d.left[s] - count(s)]
           ready == {s \in SuccessorsOf(g, e) : left[s] = 0}
           d2 == [left |-> left, order |-> Append(d.order, e), queue |-> rest \o InKeyOrder(ready)]
           taken == ToSet(d.order)
           queued == ToSet(d.queue)
           taken2 == taken \cup {e}
<1>1. TakeFirst(g, d) = d2 BY DEF TakeFirst
<1>2. d.order \in Seq(Events) /\ d.queue \in Seq(Events) BY DEF KahnInv, KahnDone
<1>3. /\ e \in queued /\ e \in Events /\ rest \in Seq(Events)
      /\ queued = {e} \cup ToSet(rest)
      /\ NoRepeat(rest) /\ e \notin ToSet(rest)
  BY <1>2, HeadMembers DEF KahnInv
<1>4. /\ taken \cap queued = {} /\ NoRepeat(d.order)
      /\ \A s \in Events : d.left[s] = Left(g, s, taken)
      /\ \A s \in Events : Predecessors(g, s) \subseteq taken <=> s \in taken \cup queued
      /\ \A j \in DOMAIN d.order : \A x \in Predecessors(g, d.order[j]) :
             \E i \in 1..(j - 1) : d.order[i] = x
  BY DEF KahnInv
<1>5. e \notin taken BY <1>3, <1>4
<1>6. \A s \in Events : /\ left[s] = Left(g, s, taken2) /\ left[s] \in Nat
                        /\ left[s] = 0 <=> Predecessors(g, s) \subseteq taken2
  <2> SUFFICES ASSUME NEW s \in Events
               PROVE  /\ left[s] = Left(g, s, taken2) /\ left[s] \in Nat
                      /\ left[s] = 0 <=> Predecessors(g, s) \subseteq taken2
    OBVIOUS
  <2> HIDE DEF e, taken
  <2>1. Left(g, s, taken2) = Left(g, s, taken) - count(s) BY <1>5, LeftFacts
  <2>2. left[s] = Left(g, s, taken2) BY <1>4, <2>1
  <2> HIDE DEF left, taken2
  <2> QED BY <2>2, LeftFacts
<1>7. /\ Append(d.order, e) \in Seq(Events) /\ ToSet(Append(d.order, e)) = taken2
      /\ NoRepeat(Append(d.order, e))
  <2> HIDE DEF e
  <2> QED BY <1>2, <1>3, <1>4, <1>5, AppendMembers
<1>8. \A s : s \in ready <=> s \in Events /\ e \in Predecessors(g, s) /\ left[s] = 0
  <2> HIDE DEF left, e
  <2> QED BY GraphFacts
<1> HIDE DEF e, rest, left
<1>9. ready \in SUBSET Events BY <1>8
<1>10. \A s \in ready : s \in Events /\ s \notin taken \cup queued
  BY <1>4, <1>5, <1>8
<1> HIDE DEF ready
<1>11. /\ InKeyOrder(ready) \in Seq(Events) /\ ToSet(InKeyOrder(ready)) = ready
       /\ NoRepeat(InKeyOrder(ready))
  BY <1>9, InKeyOrderFacts
<1> DEFINE queue2 == rest \o InKeyOrder(ready)
<1>12. queue2 \in Seq(Events) /\ ToSet(queue2) = ToSet(rest) \cup ready /\ NoRepeat(queue2)
  <2>1. ToSet(rest) \cap ToSet(InKeyOrder(ready)) = {} BY <1>3, <1>10, <1>11
  <2> QED BY <1>3, <1>11, <2>1, ConcatMembers
<1> HIDE DEF queue2, taken, queued
<1>13. taken2 \cap (ToSet(rest) \cup ready) = {} BY <1>3, <1>4, <1>5, <1>10
<1>14. \A s \in Events : Predecessors(g, s) \subseteq taken2
                         <=> s \in taken2 \cup (ToSet(rest) \cup ready)
  <2> SUFFICES ASSUME NEW s \in Events
               PROVE  Predecessors(g, s) \subseteq taken2
                      <=> s \in taken2 \cup (ToSet(rest) \cup ready)
    OBVIOUS
  <2>1. CASE e \in Predecessors(g, s)
    <3>1. s \notin taken \cup queued BY <1>4, <1>5, <2>1
    <3>2. s \in ready <=> Predecessors(g, s) \subseteq taken2 BY <1>6, <1>8, <2>1
    <3> QED BY <1>3, <3>1, <3>2
  <2>2. CASE e \notin Predecessors(g, s)
    <3>1. Predecessors(g, s) \subseteq taken2 <=> s \in taken \cup queued BY <1>4, <2>2
    <3>2. s \notin ready BY <1>8, <2>2
    <3> QED BY <1>3, <3>1, <3>2
  <2> QED BY <2>1, <2>2
<1> DEFINE order2 == Append(d.order, e)
           n == Len(d.order)
<1>15. /\ n \in Nat /\ DOMAIN d.order = 1..n /\ DOMAIN order2 = 1..(n + 1) /\ Len(order2) = n + 1
       /\ \A j \in 1..n : order2[j] = d.order[j]
       /\ order2[n + 1] = e
  BY <1>2, <1>3, AppendProperties, LenProperties
<1>16. \A j \in DOMAIN order2 : \A x \in Predecessors(g, order2[j]) :
           \E i \in 1..(j - 1) : order2[i] = x
  <2> HIDE DEF order2, n
  <2> SUFFICES ASSUME NEW j \in 1..(n + 1), NEW x \in Predecessors(g, order2[j])
               PROVE  \E i \in 1..(j - 1) : order2[i] = x
    BY <1>15
  <2>1. CASE j \in 1..n
    <3>1. PICK i \in 1..(j - 1) : d.order[i] = x BY <1>4, <1>15, <2>1
    <3>2. i \in 1..n BY <1>15, <2>1
    <3> QED BY <1>15, <3>1, <3>2
  <2>2. CASE j = n + 1
    <3>1. e \in taken \cup queued BY <1>3
    <3>2. x \in taken BY <1>3, <1>4, <1>15, <2>2, <3>1
    <3>3. PICK i \in 1..n : d.order[i] = x BY <1>15, <3>2 DEF taken, ToSet
    <3>4. i \in 1..(j - 1) BY <1>15, <2>2
    <3> QED BY <1>15, <3>3, <3>4
  <2> QED BY <1>15, <2>1, <2>2
<1>17. left \in [Events -> Nat]
  <2>1. left = [s \in Events |-> left[s]] BY DEF left
  <2> QED BY <1>6, <2>1
<1>18. d2 \in KahnDone BY <1>7, <1>12, <1>17 DEF KahnDone, queue2
<1>19. d2.left = left /\ d2.order = order2 /\ d2.queue = queue2 BY DEF queue2
<1>20. KahnInv(g, d2)
  <2>1. \A s \in Events : left[s] = Left(g, s, taken2) BY <1>6
  <2>2. ToSet(order2) = taken2 /\ NoRepeat(order2) BY <1>7
  <2> HIDE DEF d2, order2, taken2
  <2> QED BY <1>12, <1>13, <1>14, <1>16, <1>18, <1>19, <2>1, <2>2 DEF KahnInv
<1> QED BY <1>1, <1>15, <1>19, <1>20

\* The order holds every event once, after its predecessors.
LEMMA TopologicalFacts ==
    ASSUME NEW g \in Graphs
    PROVE  LET o == TopologicalOrder(g)
           IN  /\ o \in Seq(Events) /\ ToSet(o) = Events /\ NoRepeat(o)
               /\ \A j \in DOMAIN o : \A x \in Predecessors(g, o[j]) :
                      \E i \in 1..(j - 1) : o[i] = x
<1> DEFINE n == Len(Keys)
           d(k) == Kahn(g)[k]
           Good(k) == KahnInv(g, d(k)) /\ (Len(d(k).order) = k \/ d(k).queue = <<>>)
           T == {k \in 0..n : Good(k)}
<1>1. n \in Nat /\ IsFiniteSet(Events) /\ Cardinality(Events) = n
  <2>1. NoRepeat(Keys) /\ Keys \in Seq(Events) BY GraphsAssumption DEF NoRepeat
  <2> QED BY <2>1, LenProperties, LenNoRepeat DEF Events
<1>2. 0 \in T
  <2>1. d(0) = KahnBegun(g) BY KahnSteps
  <2>2. Len(KahnBegun(g).order) = 0
    <3>1. KahnBegun(g).order = <<>> BY DEF KahnBegun
    <3> QED BY <3>1, EmptySeq
  <2> QED BY <1>1, <2>1, <2>2, KahnBegins
<1>3. ASSUME NEW m \in 0..(n - 1), m \in T PROVE m + 1 \in T
  <2>1. m + 1 \in 1..n /\ m + 1 \in 0..n /\ (m + 1) - 1 = m /\ m \in Nat BY <1>1
  <2>2. d(m + 1) = TakeFirst(g, d(m)) BY <2>1, KahnSteps
  <2>3. Good(m) BY <1>3
  <2> HIDE DEF d
  <2>4. CASE d(m).queue = <<>>
    <3>1. d(m + 1) = d(m) BY <2>2, <2>4 DEF TakeFirst
    <3> QED BY <2>1, <2>3, <2>4, <3>1
  <2>5. CASE d(m).queue # <<>>
    <3>1. KahnInv(g, d(m + 1)) /\ Len(d(m + 1).order) = Len(d(m).order) + 1
      BY <2>2, <2>3, <2>5, KahnTurn
    <3> QED BY <2>1, <2>3, <2>5, <3>1
  <2> QED BY <2>4, <2>5
<1>4. Good(n)
  <2> HIDE DEF T
  <2>1. \A k \in 0..n : k \in T BY <1>1, <1>2, <1>3, SetInduction
  <2>2. n \in T BY <1>1, <2>1
  <2> QED BY <2>2 DEF T
<1> DEFINE o == d(n).order
           taken == ToSet(o)
           queued == ToSet(d(n).queue)
<1>5. /\ o \in Seq(Events) /\ NoRepeat(o)
      /\ taken \cap queued = {}
      /\ \A s \in Events : Predecessors(g, s) \subseteq taken <=> s \in taken \cup queued
      /\ \A j \in DOMAIN o : \A x \in Predecessors(g, o[j]) : \E i \in 1..(j - 1) : o[i] = x
  BY <1>4 DEF KahnInv, KahnDone
<1>6. o = TopologicalOrder(g) BY DEF TopologicalOrder
<1> HIDE DEF d
<1>7. taken \subseteq Events BY <1>5, LenProperties, ElementOfSeq DEF ToSet
<1>8. CASE Len(o) = n
  <2>1. Cardinality(taken) = n BY <1>5, <1>8, LenNoRepeat
  <2> HIDE DEF taken
  <2>2. taken = Events BY <1>1, <1>7, <2>1, FS_Subset
  <2> QED BY <1>5, <1>6, <2>2 DEF taken
<1>9. CASE d(n).queue = <<>>
  <2>1. queued = {}
    <3>1. DOMAIN d(n).queue = {} BY <1>9, EmptySeq, LenProperties
    <3> QED BY <3>1 DEF ToSet
  <2> HIDE DEF taken, queued
  <2> DEFINE U == Events \ taken
  <2>2. CASE U # {}
    <3>1. PICK e \in U : Predecessors(g, e) \cap U = {} BY <2>2, GraphsAssumption
    <3>2. Predecessors(g, e) \subseteq Events BY <3>1, GraphFacts
    <3>3. Predecessors(g, e) \subseteq taken BY <3>1, <3>2
    <3> QED BY <1>5, <2>1, <3>1, <3>3
  <2>3. CASE U = {}
    <3>1. taken = Events BY <1>7, <2>3
    <3> QED BY <1>5, <1>6, <3>1 DEF taken
  <2> QED BY <2>2, <2>3
<1> QED BY <1>4, <1>8, <1>9
-----------------------------------------------------------------------------
(* The descendants.                                                        *)

\* A closure is the least set of events that holds S and is closed.
LEMMA ClosureFacts ==
    ASSUME NEW S \in SUBSET Events, NEW next, \A y \in Events : next[y] \subseteq Events
    PROVE  LET C == Closure(S, next)
           IN  /\ C \subseteq Events /\ S \subseteq C
               /\ \A y \in C : next[y] \subseteq C
               /\ \A T \in SUBSET Events :
                      S \subseteq T /\ (\A y \in T : next[y] \subseteq T) => C \subseteq T
<1> DEFINE C == Closure(S, next)
           Closed(T) == S \subseteq T /\ (\A y \in T : next[y] \subseteq T)
<1>1. \A x : x \in C <=> x \in Events /\ \A T \in SUBSET Events : Closed(T) => x \in T
  BY DEF Closure
<1> HIDE DEF C
<1>2. C \subseteq Events BY <1>1
<1>3. S \subseteq C BY <1>1
<1>4. ASSUME NEW y \in C, NEW x \in next[y] PROVE x \in C
  <2>1. y \in Events /\ x \in Events BY <1>2, <1>4
  <2>2. ASSUME NEW T \in SUBSET Events, Closed(T) PROVE x \in T BY <1>1, <1>4, <2>2
  <2> QED BY <1>1, <2>1, <2>2
<1>5. \A T \in SUBSET Events : Closed(T) => C \subseteq T BY <1>1
<1> QED BY <1>2, <1>3, <1>4, <1>5 DEF C

\* The descendants of an event are its successors and theirs.
LEMMA DescendantFacts ==
    ASSUME NEW g \in Graphs, NEW e \in Events
    PROVE  LET D == Descendants(g, e)
           IN  /\ D \subseteq Events
               /\ SuccessorsOf(g, e) \subseteq D
               /\ \A y \in D : SuccessorsOf(g, y) \subseteq D
               /\ \A T \in SUBSET Events :
                      SuccessorsOf(g, e) \subseteq T /\ (\A y \in T : SuccessorsOf(g, y) \subseteq T)
                      => D \subseteq T
<1> DEFINE next == [x \in Events |-> SuccessorsOf(g, x)]
           S == SuccessorsOf(g, e)
<1>1. Descendants(g, e) = Closure(S, next) BY DEF Descendants, Reach
<1>2. \A y \in Events : next[y] = SuccessorsOf(g, y) /\ next[y] \subseteq Events BY GraphFacts
<1>3. S \in SUBSET Events BY GraphFacts
<1> HIDE DEF next, S
<1> DEFINE D == Closure(S, next)
<1>4. /\ D \subseteq Events /\ S \subseteq D
      /\ \A y \in D : next[y] \subseteq D
      /\ \A T \in SUBSET Events : S \subseteq T /\ (\A y \in T : next[y] \subseteq T) => D \subseteq T
  BY <1>2, <1>3, ClosureFacts
<1> HIDE DEF D
<1>5. \A y \in D : SuccessorsOf(g, y) \subseteq D BY <1>2, <1>4
<1>6. ASSUME NEW T \in SUBSET Events, S \subseteq T, \A y \in T : SuccessorsOf(g, y) \subseteq T
      PROVE  D \subseteq T
  <2>1. \A y \in T : next[y] \subseteq T BY <1>2, <1>6
  <2> QED BY <1>4, <1>6, <2>1
<1> QED BY <1>1, <1>4, <1>5, <1>6 DEF D, S

\* Something after the event is in F: a successor, or something after one.
After(g, e, F) == Descendants(g, e) \cap F # {}

\* Something has fired after e: at a successor of e or after one.
LEMMA AfterFacts ==
    ASSUME NEW g \in Graphs, NEW e \in Events, NEW F
    PROVE  After(g, e, F) <=> \E s \in SuccessorsOf(g, e) : s \in F \/ After(g, s, F)
<1> DEFINE D == Descendants(g, e)
           S == SuccessorsOf(g, e)
<1>1. /\ D \subseteq Events /\ S \subseteq D /\ S \subseteq Events
      /\ \A y \in D : SuccessorsOf(g, y) \subseteq D
      /\ \A T \in SUBSET Events :
             S \subseteq T /\ (\A y \in T : SuccessorsOf(g, y) \subseteq T) => D \subseteq T
  BY DescendantFacts, GraphFacts
<1>2. ASSUME NEW s \in S PROVE Descendants(g, s) \subseteq D
  <2>1. s \in Events /\ SuccessorsOf(g, s) \subseteq D BY <1>1, <1>2
  <2> HIDE DEF D, S
  <2> QED BY <1>1, <2>1, DescendantFacts
<1>3. D \subseteq S \cup UNION {Descendants(g, s) : s \in S}
  <2> DEFINE T == S \cup UNION {Descendants(g, s) : s \in S}
  <2>1. T \in SUBSET Events BY <1>1, <1>2
  <2>2. ASSUME NEW y \in T PROVE SuccessorsOf(g, y) \subseteq T
    <3>1. CASE y \in S
      <4>1. SuccessorsOf(g, y) \subseteq Descendants(g, y) BY <1>1, <3>1, DescendantFacts
      <4> QED BY <3>1, <4>1
    <3>2. ASSUME NEW s \in S, y \in Descendants(g, s) PROVE SuccessorsOf(g, y) \subseteq T
      <4>1. SuccessorsOf(g, y) \subseteq Descendants(g, s) BY <1>1, <3>2, DescendantFacts
      <4> QED BY <3>2, <4>1
    <3> QED BY <2>2, <3>1, <3>2
  <2>3. S \subseteq T OBVIOUS
  <2> HIDE DEF T, D, S
  <2>4. D \subseteq T BY <1>1, <2>1, <2>2, <2>3
  <2> QED BY <2>4 DEF T
<1>4. ASSUME After(g, e, F) PROVE \E s \in S : s \in F \/ After(g, s, F)
  <2>1. PICK x \in D : x \in F BY <1>4 DEF After
  <2>2. CASE x \in S BY <2>1, <2>2
  <2>3. ASSUME NEW s \in S, x \in Descendants(g, s) PROVE \E t \in S : t \in F \/ After(g, t, F)
    BY <2>1, <2>3 DEF After
  <2> HIDE DEF D, S
  <2> QED BY <1>3, <2>1, <2>2, <2>3
<1>5. ASSUME NEW s \in S, s \in F \/ After(g, s, F) PROVE After(g, e, F)
  BY <1>1, <1>2, <1>5 DEF After
<1> QED BY <1>4, <1>5
-----------------------------------------------------------------------------
(* The sweep.                                                              *)

\* The sweep hits e.
Hits(g, fired, before, e) ==
    IF SuccessorsOf(g, e) \cap (fired \cup before) # {} THEN before \cup {e} ELSE before

\* The recursion in Sweep has a solution.
LEMMA SweepSteps ==
    ASSUME NEW g, NEW order, NEW fired, Len(order) \in Nat
    PROVE  /\ Sweep(g, order, fired)[0] = {}
           /\ \A k \in 1..Len(order) :
                  Sweep(g, order, fired)[k] = Hits(g, fired, Sweep(g, order, fired)[k - 1], order[k])
<1> DEFINE n == Len(order)
           E(f, k) == IF k = 0 THEN {} ELSE Hits(g, fired, f[k - 1], order[k])
           T == {m \in 0..n : \E f : f = [k \in 0..m |-> E(f, k)]}
<1>1. n \in Nat OBVIOUS
<1>2. 0 \in T
  <2>1. \E f : f = [k \in 0..0 |-> E(f, k)]
    <3> DEFINE h == [k \in 0..0 |-> {}]
    <3>1. h = [k \in 0..0 |-> E(h, k)] OBVIOUS
    <3> HIDE DEF h
    <3> WITNESS h
    <3> QED BY <3>1
  <2> QED BY <1>1, <2>1
<1>3. ASSUME NEW m \in 0..(n - 1), m \in T PROVE m + 1 \in T
  <2>1. PICK f : f = [k \in 0..m |-> E(f, k)] BY <1>3
  <2> DEFINE h == [k \in 0..(m + 1) |-> IF k = m + 1 THEN E(f, k) ELSE f[k]]
  <2>2. \A k \in 0..m : h[k] = f[k] BY <1>1, <1>3
  <2>3. \A k \in 0..(m + 1) : h[k] = E(h, k)
    <3> SUFFICES ASSUME NEW k \in 0..(m + 1) PROVE h[k] = E(h, k) OBVIOUS
    <3>0. h[k] = E(f, k)
      <4> HIDE DEF E
      <4> QED BY <2>1
    <3>1. k = 0 \/ (k - 1 \in 0..m /\ h[k - 1] = f[k - 1]) BY <1>1, <1>3, <2>2
    <3> QED BY <3>0, <3>1
  <2>4. h = [k \in 0..(m + 1) |-> E(h, k)] BY <2>3
  <2>5. \E i : i = [k \in 0..(m + 1) |-> E(i, k)]
    <3> HIDE DEF h
    <3> WITNESS h
    <3> QED BY <2>4
  <2>6. m + 1 \in 0..n BY <1>1, <1>3
  <2> HIDE DEF E, h
  <2> QED BY <2>5, <2>6
<1>4. \A m \in 0..n : m \in T
  <2> HIDE DEF T
  <2> QED BY <1>1, <1>2, <1>3, SetInduction
<1>5. \E f : f = [k \in 0..n |-> E(f, k)]
  <2>1. n \in T
    <3> HIDE DEF T
    <3> QED BY <1>1, <1>4
  <2> HIDE DEF E
  <2> QED BY <2>1
<1> DEFINE F == CHOOSE h : h = [k \in 0..n |-> E(h, k)]
<1>6. Sweep(g, order, fired) = F BY DEF Sweep, Hits
<1>7. F = [k \in 0..n |-> E(F, k)] BY <1>5
<1>8. \A k \in 0..n : F[k] = E(F, k)
  <2> HIDE DEF F, E
  <2> QED BY <1>7
<1>9. 0 \in 0..n /\ \A k \in 1..n : k \in 0..n /\ k # 0 BY <1>1
<1> HIDE DEF F
<1> QED BY <1>6, <1>8, <1>9

\* One sweep against the order finds the events after which something fired.
LEMMA SweepFinds ==
    ASSUME NEW g \in Graphs, NEW fired
    PROVE  DescendantFired(g, fired) = {e \in Events : After(g, e, fired)}
<1> DEFINE o == TopologicalOrder(g)
           n == Len(o)
           r == Reverse(o)
           hit(k) == Sweep(g, r, fired)[k]
           B == {e \in Events : After(g, e, fired)}
           Good(k) == hit(k) \subseteq B /\ \A j \in 1..k : r[j] \in B => r[j] \in hit(k)
           T == {k \in 0..n : Good(k)}
<1>1. /\ o \in Seq(Events) /\ n \in Nat /\ DOMAIN o = 1..n /\ ToSet(o) = Events /\ NoRepeat(o)
      /\ \A j \in DOMAIN o : \A x \in Predecessors(g, o[j]) : \E i \in 1..(j - 1) : o[i] = x
  BY TopologicalFacts, LenProperties
<1>2. r = [k \in 1..n |-> o[(n - k) + 1]] BY DEF Reverse
<1>3. Len(r) = n
  <2> HIDE DEF o, n
  <2>1. \A k \in 1..n : (n - k) + 1 \in 1..n BY <1>1
  <2>2. \A k \in 1..n : o[(n - k) + 1] \in Events BY <1>1, <2>1 DEF ToSet
  <2>3. r \in [1..n -> Events] BY <1>2, <2>2
  <2> HIDE DEF r
  <2>4. DOMAIN r = 1..n BY <2>3
  <2>5. r \in Seq(Events) BY <1>1, <2>3, SeqDef
  <2>6. Len(r) \in Nat /\ DOMAIN r = 1..Len(r) BY <2>5, LenProperties
  <2> QED BY <1>1, <2>4, <2>6
<1>4. DescendantFired(g, fired) = hit(n) BY DEF DescendantFired, Order
<1>5. hit(0) = {} /\ \A k \in 1..n : hit(k) = Hits(g, fired, hit(k - 1), r[k])
  BY <1>1, <1>3, SweepSteps
<1>6. \A k \in 1..n : (n - k) + 1 \in 1..n /\ r[k] = o[(n - k) + 1] /\ r[k] \in Events
  <2>1. \A k \in 1..n : (n - k) + 1 \in 1..n BY <1>1
  <2> HIDE DEF o, n, r
  <2> QED BY <1>1, <1>2, <2>1 DEF ToSet
\* A successor of the k-th comes before it.
<1>7. ASSUME NEW k \in 1..n, NEW s \in SuccessorsOf(g, r[k])
      PROVE  \E j \in 1..(k - 1) : r[j] = s
  <2>1. s \in Events /\ r[k] \in Predecessors(g, s) BY <1>7, GraphFacts
  <2> HIDE DEF o, n, r
  <2>2. PICK i \in 1..n : o[i] = s BY <1>1, <2>1 DEF ToSet
  <2>3. PICK h \in 1..(i - 1) : o[h] = r[k] BY <1>1, <2>1, <2>2
  <2>4. h \in 1..n BY <1>1, <2>2, <2>3
  <2>5. h = (n - k) + 1 BY <1>1, <1>6, <2>3, <2>4 DEF NoRepeat
  <2> DEFINE j == (n - i) + 1
  <2>6. j \in 1..n /\ (n - j) + 1 = i /\ j \in 1..(k - 1) BY <1>1, <2>2, <2>3, <2>5
  <2>7. r[j] = s BY <1>6, <2>2, <2>6
  <2> HIDE DEF j
  <2> QED BY <2>6, <2>7
<1> HIDE DEF hit, o, r, n
<1>8. 0 \in T BY <1>1, <1>5
<1>9. ASSUME NEW m \in 0..(n - 1), m \in T PROVE m + 1 \in T
  <2> DEFINE k == m + 1
             x == r[k]
  <2>1. /\ k \in 1..n /\ k \in 0..n /\ k - 1 = m /\ m \in Nat
        /\ \A j \in 1..k : j \in 1..m \/ j = k
    BY <1>1
  <2>2. hit(k) = Hits(g, fired, hit(m), x) BY <1>5, <2>1
  <2>3. hit(m) \subseteq B /\ \A j \in 1..m : r[j] \in B => r[j] \in hit(m) BY <1>9
  <2>4. x \in Events BY <1>6, <2>1
  <2>5. After(g, x, fired) <=> \E s \in SuccessorsOf(g, x) : s \in fired \/ After(g, s, fired)
    BY <2>4, AfterFacts
  <2>6. \A s \in SuccessorsOf(g, x) : s \in Events /\ (After(g, s, fired) <=> s \in hit(m))
    <3> SUFFICES ASSUME NEW s \in SuccessorsOf(g, x)
                 PROVE  s \in Events /\ (After(g, s, fired) <=> s \in hit(m))
      OBVIOUS
    <3>1. s \in Events BY GraphFacts
    <3>2. PICK j \in 1..m : r[j] = s BY <1>7, <2>1
    <3> QED BY <2>3, <3>1, <3>2
  <2>7. x \in B <=> SuccessorsOf(g, x) \cap (fired \cup hit(m)) # {} BY <2>4, <2>5, <2>6
  <2>8. Good(k)
    <3> HIDE DEF k, x, B
    <3>1. CASE x \in B
      <4>1. hit(k) = hit(m) \cup {x} BY <2>2, <2>7, <3>1 DEF Hits
      <4> QED BY <2>1, <2>3, <3>1, <4>1 DEF x
    <3>2. CASE x \notin B
      <4>1. hit(k) = hit(m) BY <2>2, <2>7, <3>2 DEF Hits
      <4> QED BY <2>1, <2>3, <3>2, <4>1 DEF x
    <3> QED BY <3>1, <3>2
  <2> HIDE DEF Good
  <2> QED BY <2>1, <2>8
<1>10. Good(n)
  <2> HIDE DEF T
  <2>1. \A k \in 0..n : k \in T BY <1>1, <1>8, <1>9, SetInduction
  <2>2. n \in T BY <1>1, <2>1
  <2> QED BY <2>2 DEF T
<1>11. \A e \in B : \E j \in 1..n : r[j] = e
  <2> SUFFICES ASSUME NEW e \in Events PROVE \E j \in 1..n : r[j] = e OBVIOUS
  <2>1. PICK i \in 1..n : o[i] = e BY <1>1 DEF ToSet
  <2> DEFINE j == (n - i) + 1
  <2>2. j \in 1..n /\ (n - j) + 1 = i BY <1>1
  <2> HIDE DEF j
  <2> QED BY <1>6, <2>1, <2>2
<1> QED BY <1>4, <1>10, <1>11
\* One sweep against Kahn's order finds exactly the events after which, in the
\* graph, something has fired: the recursion's equations, Kahn's invariant and
\* induction along the order show it for every graph and every case.
THEOREM SweepsAreExact == ActionsSpec => []SweepIsExact
<1>1. RankTypeOK => SweepIsExact
  <2> SUFFICES ASSUME model \in Graphs, NEW case \in CasesIn(log),
                      NEW fired, fired = FiredIn(log, case)
               PROVE  DescendantFired(model, fired)
                      = {e \in Events : Descendants(model, e) \cap fired # {}}
    BY DEF SweepIsExact, RankTypeOK
  <2>1. DescendantFired(model, fired) = {e \in Events : After(model, e, fired)} BY SweepFinds
  <2> QED BY <2>1 DEF After
<1> QED BY <1>1, RankingsTyped, PTL
-----------------------------------------------------------------------------
(* No case is wedged.                                                      *)

\* An event is anchored to itself, and a satellite to what its predecessor is.
LEMMA AnchorFacts ==
    ASSUME NEW g \in Graphs, NEW x \in Events
    PROVE  /\ x \in Anchors[g][x]
           /\ \A y \in Events : CoupledTo(g, x) = y => Anchors[g][y] \subseteq Anchors[g][x]
<1> DEFINE next == [z \in Events |-> {CoupledTo(g, z)} \ {None}]
<1>1. \A z \in Events : Anchors[g][z] = Closure({z}, next) BY DEF Anchors
<1>2. \A z \in Events : next[z] \subseteq Events
  <2> SUFFICES ASSUME NEW z \in Events, CoupledTo(g, z) # None PROVE CoupledTo(g, z) \in Events
    OBVIOUS
  <2> DEFINE p == g.follows[z]
  <2>1. z \notin g.own /\ CoupledTo(g, z) = Head(p) BY DEF CoupledTo
  <2>2. p \in Seq(Events) /\ p # <<>> BY <2>1, GraphsAssumption
  <2> HIDE DEF p
  <2> QED BY <2>1, <2>2, HeadTailProperties
<1>3. \A z \in Events : z # None BY GraphsAssumption
<1>4. \A y \in Events : CoupledTo(g, x) = y => next[x] = {y} BY <1>3
<1> HIDE DEF next
<1>5. ASSUME NEW z \in Events
      PROVE  /\ Closure({z}, next) \subseteq Events /\ z \in Closure({z}, next)
             /\ \A y \in Closure({z}, next) : next[y] \subseteq Closure({z}, next)
             /\ \A T \in SUBSET Events :
                    z \in T /\ (\A y \in T : next[y] \subseteq T) => Closure({z}, next) \subseteq T
  <2> DEFINE S == {z}
  <2>1. S \in SUBSET Events /\ \A T : z \in T => S \subseteq T OBVIOUS
  <2>2. z \in S OBVIOUS
  <2> HIDE DEF S
  <2>3. LET C == Closure(S, next)
        IN  /\ C \subseteq Events /\ S \subseteq C
            /\ \A y \in C : next[y] \subseteq C
            /\ \A T \in SUBSET Events :
                   S \subseteq T /\ (\A y \in T : next[y] \subseteq T) => C \subseteq T
    BY <1>2, <2>1, ClosureFacts
  <2> QED BY <2>1, <2>2, <2>3 DEF S
<1>6. ASSUME NEW y \in Events, CoupledTo(g, x) = y
      PROVE  Closure({y}, next) \subseteq Closure({x}, next)
  <2> DEFINE T == Closure({x}, next)
  <2>1. T \in SUBSET Events /\ x \in T /\ \A z \in T : next[z] \subseteq T BY <1>5
  <2> HIDE DEF T
  <2>2. y \in T BY <1>4, <1>6, <2>1
  <2>3. Closure({y}, next) \subseteq T BY <1>5, <2>1, <2>2
  <2> QED BY <2>3 DEF T
<1> DEFINE C(z) == Closure({z}, next)
<1>7. x \in C(x) BY <1>5
<1>8. \A y \in Events : CoupledTo(g, x) = y => C(y) \subseteq C(x) BY <1>6
<1>9. \A z \in Events : Anchors[g][z] = C(z) BY <1>1
<1> HIDE DEF C
<1> QED BY <1>7, <1>8, <1>9

\* If nothing after e has fired and the frontier is empty, no step is after e:
\* every event after e is without a command and satisfied by e through its
\* anchors, or it ends its branch.
LEMMA NothingAfter ==
    ASSUME NEW g \in Graphs, PlainlyAnchored(g), NEW fired, NEW e \in Events, e \in fired,
           Descendants(g, e) \cap fired = {}, Frontier(g, fired) = {}
    PROVE  \A s \in Descendants(g, e) : ~IsStep(g, s)
<1> DEFINE D == Descendants(g, e)
           T == {x \in D : ~IsStep(g, x) /\ (x \in g.own \/ e \in Anchors[g][x])}
<1>1. /\ D \subseteq Events /\ SuccessorsOf(g, e) \subseteq D
      /\ \A y \in D : SuccessorsOf(g, y) \subseteq D
      /\ \A U \in SUBSET Events :
             SuccessorsOf(g, e) \subseteq U /\ (\A y \in U : SuccessorsOf(g, y) \subseteq U)
             => D \subseteq U
  BY DescendantFacts
\* A successor of an event that e satisfies is in T.
<1>2. ASSUME NEW y \in Events, e \in Anchors[g][y], NEW x \in SuccessorsOf(g, y), x \in D
      PROVE  x \in T
  <2>1. x \in Events /\ y \in Predecessors(g, x) /\ g.follows[x] # <<>> BY <1>2, GraphFacts
  <2>2. x \notin fired BY <1>2
  <2>3. x \notin DescendantFired(g, fired)
    <3>1. Descendants(g, x) \subseteq D
      <4>1. SuccessorsOf(g, x) \subseteq D BY <1>1, <1>2
      <4> HIDE DEF D
      <4> QED BY <1>1, <2>1, <4>1, DescendantFacts
    <3>2. ~After(g, x, fired) BY <3>1 DEF After
    <3> QED BY <3>2, SweepFinds
  <2>4. PredSatisfied(g, y, fired) BY <1>2 DEF PredSatisfied
  <2>5. ~IsStep(g, x) BY <2>1, <2>2, <2>3, <2>4 DEF Frontier
  <2>6. CASE x \in g.own BY <1>2, <2>5, <2>6
  <2>7. CASE x \notin g.own
    <3> DEFINE p == g.follows[x]
    <3>1. p \in Seq(Events) /\ Len(p) = 1 BY <2>1, <2>7, GraphsAssumption DEF PlainlyAnchored
    <3>2. \E k \in DOMAIN p : p[k] = y BY <2>1 DEF Predecessors, ToSet
    <3>3. CoupledTo(g, x) = Head(p) BY <2>7 DEF CoupledTo
    <3> HIDE DEF p
    <3>4. p[1] = y BY <3>1, <3>2, LenProperties
    <3>5. Head(p) = p[1] OBVIOUS
    <3>6. CoupledTo(g, x) = y BY <3>3, <3>4, <3>5
    <3>7. e \in Anchors[g][x] BY <1>2, <2>1, <3>6, AnchorFacts
    <3> QED BY <1>2, <2>5, <3>7
  <2> QED BY <2>6, <2>7
<1>3. SuccessorsOf(g, e) \subseteq T
  <2>1. e \in Anchors[g][e] BY AnchorFacts
  <2> QED BY <1>1, <1>2, <2>1
<1>4. ASSUME NEW y \in T PROVE SuccessorsOf(g, y) \subseteq T
  <2>1. y \in D /\ y \in Events /\ SuccessorsOf(g, y) \subseteq D BY <1>1
  <2>2. CASE y \in g.own
    <3>1. CoupledTo(g, y) = None BY <2>2 DEF CoupledTo
    <3>2. y \notin g.commands BY <3>1 DEF IsStep
    <3>3. SuccessorsOf(g, y) = {} BY <2>1, <2>2, <3>2 DEF PlainlyAnchored
    <3> QED BY <3>3
  <2>3. CASE y \notin g.own
    <3>1. e \in Anchors[g][y] BY <2>3
    <3> HIDE DEF T
    <3> QED BY <1>2, <2>1, <3>1
  <2> QED BY <2>2, <2>3
<1>5. T \in SUBSET Events BY <1>1
<1>6. \A x \in T : ~IsStep(g, x) OBVIOUS
<1> HIDE DEF T
<1>7. D \subseteq T BY <1>1, <1>3, <1>4, <1>5
<1> QED BY <1>6, <1>7

\* In a plainly anchored model no case is wedged.
THEOREM NoCaseIsWedged == ActionsSpec => []NeverWedged
<1>1. CasesTypeOK /\ RankTypeOK => NeverWedged
  <2> SUFFICES ASSUME CasesTypeOK, model \in Graphs, PlainlyAnchored(model),
                      NEW case \in CasesIn(log), NEW fired, fired = FiredIn(log, case),
                      NEW e \in fired, Descendants(model, e) \cap fired = {},
                      \E s \in Descendants(model, e) : IsStep(model, s)
               PROVE  Frontier(model, fired) # {}
    BY DEF NeverWedged, RankTypeOK
  <2>1. log \in Seq(LogRows) BY DEF CasesTypeOK
  <2>2. \A k \in DOMAIN log : log[k].ev \in Events
    <3>1. \A r \in ToSet(log) : r.ev \in Events BY <2>1, LogRowsOf DEF LogRows
    <3> QED BY <3>1 DEF ToSet
  <2>3. e \in Events BY <2>2 DEF FiredIn
  <2> QED BY <2>3, NothingAfter
<1> QED BY <1>1, RankingsTyped, CasesTyped, PTL
-----------------------------------------------------------------------------
(* A pass and the commands decide alike: the pass.                         *)

\* The cycle row a planned event leads to.
CycleFor(pr) == IF pr[1] \in Carriers THEN CycleOf[pr[2]] ELSE None

\* What planning the event pr adds to e, the state with its cycle row opened.
Plans(e, pr, case, f) ==
    /\ case = DecideCaseId(pr[2], RefsIn(pr[2], pr[1] \in Carriers),
                           CycleRow(pr[2], pr[1] \in Carriers, e.stored), e.caseOf)
    /\ f.stored = e.stored /\ f.opens = e.opens
    /\ f.batch = Append(e.batch, <<pr, case>>)
    /\ \A j \in Ids : f.caseOf[j] = IF j = pr[2] /\ e.caseOf[j] = None THEN case ELSE e.caseOf[j]

\* Planning an event opens its cycle row and then decides.
LEMMA PlanParts ==
    ASSUME log \in Seq(LogRows), NEW snap \in SUBSET AllPairs, NEW d, DeriveInv(snap, d),
           NEW pr \in snap, pr \notin d.seen
    PROVE  /\ CycleFor(pr) \in Ids \cup {None}
           /\ \E d1, e : \E case \in CaseIds :
                  /\ DeriveInv(snap, d1) /\ d1.caseOf = d.caseOf /\ d1.stored = d.stored
                  /\ d1.opens = d.opens /\ d1.batch = d.batch
                  /\ e = EnsureCycleRow(d1, CycleFor(pr)) /\ DeriveInv(snap, e)
                  /\ Plans(e, pr, case, PlanEvent(d, pr))
<1> DEFINE i == pr[2]
           carries == pr[1] \in Carriers
           q == CycleFor(pr)
           d1 == [d EXCEPT !.seen = @ \cup {pr}]
           e == EnsureCycleRow(d1, q)
           cycle == CycleRow(i, carries, e.stored)
           refs == RefsIn(i, carries)
           case == DecideCaseId(i, refs, cycle, e.caseOf)
           f == [e EXCEPT !.caseOf[i] = IF @ = None THEN case ELSE @,
                          !.batch = Append(@, <<pr, case>>)]
<1>1. /\ pr \in AllPairs /\ i \in Ids /\ q \in Ids \cup {None} /\ d \in Derivations
  BY CasesAssumption DEF AllPairs, DeriveInv, CycleFor
<1>2. /\ d1 \in Derivations /\ d1.caseOf = d.caseOf /\ d1.stored = d.stored
      /\ d1.opens = d.opens /\ d1.batch = d.batch
  BY <1>1 DEF Derivations
<1>3. DeriveInv(snap, d1)
  <2> HIDE DEF d1
  <2> QED BY <1>2 DEF DeriveInv, StoredKnown, BatchKnown, MapKnown, BatchFounded
<1>4. PlanEvent(d, pr) = f BY DEF PlanEvent, CycleFor
<1> HIDE DEF d1
<1>5. DeriveInv(snap, e)
  <2> HIDE DEF q
  <2> QED BY <1>1, <1>3, EnsureKeeps
<1>6. e \in Derivations BY <1>5 DEF DeriveInv
<1>7. refs \in Seq(Ids) /\ cycle \in Ids \cup {None} BY <1>1, PayloadFacts
<1> HIDE DEF e, q
<1>8. case \in CaseIds
  <2> HIDE DEF refs, cycle
  <2> QED BY <1>1, <1>6, <1>7, DecideFacts DEF Derivations
<1> HIDE DEF case
<1>9. /\ f.stored = e.stored /\ f.opens = e.opens
      /\ \A j \in Ids : f.caseOf[j] = IF j = i /\ e.caseOf[j] = None THEN case ELSE e.caseOf[j]
      /\ f.batch = Append(e.batch, <<pr, case>>)
  BY <1>1, <1>6 DEF Derivations
<1>10. Plans(e, pr, case, PlanEvent(d, pr))
  <2> HIDE DEF f
  <2> QED BY <1>4, <1>9 DEF Plans, case
<1> QED BY <1>1, <1>2, <1>3, <1>5, <1>8, <1>10 DEF e, q

\* Neither q nor a sibling of it has a row.
Missing(q, known) == ~HasRow(q, known) /\ \A s \in Siblings[q] : ~HasRow(s, known)

\* The pass goes from d on to f.
Extends(d, f) ==
    /\ Len(d.batch) <= Len(f.batch)
    /\ \A k \in DOMAIN d.batch : f.batch[k] = d.batch[k]
    /\ d.opens \subseteq f.opens
    /\ d.stored \subseteq f.stored
    /\ \A q \in Ids : Missing(q, d.stored) => Missing(q, f.stored)

\* Extending is transitive.
LEMMA ExtendsTrans ==
    ASSUME NEW d \in Derivations, NEW e \in Derivations, NEW f \in Derivations,
           Extends(d, e), Extends(e, f)
    PROVE  Extends(d, f)
<1>1. /\ Len(d.batch) \in Nat /\ DOMAIN d.batch = 1..Len(d.batch)
      /\ Len(e.batch) \in Nat /\ DOMAIN e.batch = 1..Len(e.batch)
      /\ Len(f.batch) \in Nat
  BY LenProperties DEF Derivations
<1>2. Len(d.batch) <= Len(f.batch) BY <1>1 DEF Extends
<1>3. \A k \in DOMAIN d.batch : k \in DOMAIN e.batch BY <1>1 DEF Extends
<1>4. \A k \in DOMAIN d.batch : f.batch[k] = d.batch[k] BY <1>3 DEF Extends
<1> QED BY <1>2, <1>4 DEF Extends

\* It is reflexive.
LEMMA ExtendsItself ==
    ASSUME NEW d \in Derivations, NEW e, e.batch = d.batch, e.opens = d.opens, e.stored = d.stored
    PROVE  Extends(d, e) /\ Extends(e, d)
<1>1. Len(d.batch) \in Nat BY LenProperties DEF Derivations
<1> QED BY <1>1 DEF Extends

\* An event appended extends.
LEMMA ExtendsByOne ==
    ASSUME NEW d \in Derivations, NEW f, NEW x \in BatchRows, f.batch = Append(d.batch, x)
    PROVE  /\ Len(d.batch) <= Len(f.batch)
           /\ \A k \in DOMAIN d.batch : f.batch[k] = d.batch[k]
<1>1. d.batch \in Seq(BatchRows) BY DEF Derivations
<1> QED BY <1>1, AppendProperties, LenProperties

\* A row is opened where a sibling has one, so nothing missing comes to be.
LEMMA EnsureExtends ==
    ASSUME NEW d \in Derivations, NEW q \in Ids \cup {None}
    PROVE  /\ Extends(d, EnsureCycleRow(d, q))
           /\ q \in Ids => \/ HasRow(q, EnsureCycleRow(d, q).stored)
                           \/ Missing(q, EnsureCycleRow(d, q).stored)
<1> DEFINE e == EnsureCycleRow(d, q)
           create == <<OpenedBy[q], q>>
<1>1. CASE e = d /\ (q \in Ids => HasRow(q, d.stored)
                                  \/ ~(\E s \in Siblings[q] : HasRow(s, d.stored)))
  <2> HIDE DEF e
  <2>1. Extends(d, e) BY <1>1, ExtendsItself
  <2>2. q \in Ids => HasRow(q, e.stored) \/ Missing(q, e.stored) BY <1>1 DEF Missing
  <2> QED BY <2>1, <2>2 DEF e
<1>2. CASE /\ q \in Ids /\ ~HasRow(q, d.stored) /\ create \in AllPairs
           /\ \E s \in Siblings[q] : HasRow(s, d.stored)
           /\ e \in Derivations
           /\ e.stored = d.stored \cup {create}
           /\ e.opens = d.opens \cup {q}
           /\ e.batch = d.batch \/ e.batch = Append(d.batch, <<create, q>>)
  <2> HIDE DEF e
  <2>1. create[2] = q OBVIOUS
  <2>2. HasRow(q, e.stored) BY <1>2, <2>1 DEF HasRow
  <2>3. \A i : HasRow(i, e.stored) => HasRow(i, d.stored) \/ i = q BY <1>2, <2>1 DEF HasRow
  <2>4. ASSUME NEW p \in Ids, Missing(p, d.stored) PROVE Missing(p, e.stored)
    <3>1. p # q /\ q \notin Siblings[p]
      <4>1. q \in Siblings[p] => Siblings[q] = Siblings[p] BY <2>4, CasesAssumption
      <4> QED BY <1>2, <2>4, <4>1 DEF Missing
    <3> QED BY <2>3, <2>4, <3>1 DEF Missing
  <2>5. /\ Len(d.batch) <= Len(e.batch)
        /\ \A k \in DOMAIN d.batch : e.batch[k] = d.batch[k]
    <3>1. CASE e.batch = d.batch
      <4>1. Len(d.batch) \in Nat BY LenProperties DEF Derivations
      <4> QED BY <3>1, <4>1
    <3>2. CASE e.batch = Append(d.batch, <<create, q>>)
      <4>1. <<create, q>> \in BatchRows BY <1>2 DEF BatchRows, CaseIds
      <4> HIDE DEF create
      <4> QED BY <3>2, <4>1, ExtendsByOne
    <3> QED BY <1>2, <3>1, <3>2
  <2>6. Extends(d, e) BY <1>2, <2>4, <2>5 DEF Extends
  <2> QED BY <2>2, <2>6 DEF e
<1> HIDE DEF e, create
<1>3. \/ e = d /\ (q \in Ids => HasRow(q, d.stored)
                                \/ ~(\E s \in Siblings[q] : HasRow(s, d.stored)))
      \/ /\ q \in Ids /\ ~HasRow(q, d.stored) /\ create \in AllPairs
         /\ \E s \in Siblings[q] : HasRow(s, d.stored)
         /\ e \in Derivations
         /\ e.stored = d.stored \cup {create}
         /\ e.opens = d.opens \cup {q}
         /\ e.batch = d.batch \/ e.batch = Append(d.batch, <<create, q>>)
  BY EnsureFields DEF e, create
<1> QED BY <1>1, <1>2, <1>3 DEF e

\* A planned event extends what was decided before.
LEMMA PlanExtends ==
    ASSUME log \in Seq(LogRows), NEW snap \in SUBSET AllPairs, NEW d, DeriveInv(snap, d),
           NEW pr \in snap
    PROVE  Extends(d, PlanEvent(d, pr))
<1>0. d \in Derivations BY DEF DeriveInv
<1>1. CASE pr \in d.seen
  <2>1. PlanEvent(d, pr) = d BY <1>1 DEF PlanEvent
  <2> QED BY <1>0, <2>1, ExtendsItself
<1>2. CASE pr \notin d.seen
  <2> DEFINE f == PlanEvent(d, pr)
             q == CycleFor(pr)
  <2>1. f \in Derivations BY PlanEventKeeps DEF DeriveInv
  <2>2. PICK d1, e : \E case \in CaseIds :
                  /\ DeriveInv(snap, d1) /\ d1.caseOf = d.caseOf /\ d1.stored = d.stored
                  /\ d1.opens = d.opens /\ d1.batch = d.batch
                  /\ e = EnsureCycleRow(d1, q) /\ DeriveInv(snap, e)
                  /\ Plans(e, pr, case, f)
    BY <1>2, PlanParts
  <2>3. PICK case \in CaseIds : Plans(e, pr, case, f) BY <2>2
  <2>4. d1 \in Derivations /\ e \in Derivations BY <2>2 DEF DeriveInv
  <2>5. q \in Ids \cup {None} BY <1>2, PlanParts
  <2> HIDE DEF q, f
  <2>6. Extends(d, d1) BY <1>0, <2>2, ExtendsItself
  <2>7. Extends(d1, e) BY <2>2, <2>4, <2>5, EnsureExtends
  <2>8. Extends(e, f)
    <3>1. <<pr, case>> \in BatchRows BY DEF BatchRows
    <3>2. f.batch = Append(e.batch, <<pr, case>>) BY <2>3 DEF Plans
    <3>3. /\ Len(e.batch) <= Len(f.batch)
          /\ \A k \in DOMAIN e.batch : f.batch[k] = e.batch[k]
      BY <2>4, <3>1, <3>2, ExtendsByOne
    <3> QED BY <2>3, <3>3 DEF Extends, Plans
  <2>9. Extends(d, e) BY <1>0, <2>4, <2>6, <2>7, ExtendsTrans
  <2>10. Extends(d, f) BY <1>0, <2>1, <2>4, <2>8, <2>9, ExtendsTrans DEF f
  <2> QED BY <2>10 DEF f
<1> QED BY <1>1, <1>2

\* Every stage of a pass goes on to what the pass decides.
LEMMA StagesExtend ==
    ASSUME log \in Seq(LogRows), NEW snap \in SUBSET AllPairs
    PROVE  \A j \in 0..Len(Plan) : Extends(Derivation(snap, log)[j], Derive(snap, log))
<1> DEFINE d == Derivation(snap, log)
           n == Len(Plan)
           T == {k \in 0..n : \A j \in 0..k : Extends(d[j], d[k])}
<1>1. n \in Nat BY CasesAssumption, LenProperties
<1>2. \A k \in 1..n : d[k] = IF Plan[k] \in snap THEN PlanEvent(d[k - 1], Plan[k]) ELSE d[k - 1]
  BY DerivationSteps
<1>3. \A k \in 0..n : DeriveInv(snap, d[k]) /\ d[k] \in Derivations
  BY DerivationKeeps DEF DeriveInv
<1>4. Derive(snap, log) = d[n] BY DEF Derive
<1> HIDE DEF d, n
<1>5. \A k \in 0..n : Extends(d[k], d[k]) BY <1>3, ExtendsItself
<1>6. 0 \in T BY <1>1, <1>5
<1>7. ASSUME NEW k \in 0..(n - 1), k \in T PROVE k + 1 \in T
  <2>1. /\ k + 1 \in 1..n /\ k + 1 \in 0..n /\ (k + 1) - 1 = k /\ k \in 0..n
        /\ \A j \in 0..(k + 1) : j = k + 1 \/ (j \in 0..k /\ j \in 0..n)
    BY <1>1
  <2>2. Extends(d[k], d[k + 1])
    <3>1. CASE Plan[k + 1] \in snap
      <4>1. d[k + 1] = PlanEvent(d[k], Plan[k + 1]) BY <1>2, <2>1, <3>1
      <4>2. Extends(d[k], PlanEvent(d[k], Plan[k + 1])) BY <1>3, <2>1, <3>1, PlanExtends
      <4> QED BY <4>1, <4>2
    <3>2. CASE Plan[k + 1] \notin snap
      <4>1. d[k + 1] = d[k] BY <1>2, <2>1, <3>2
      <4> QED BY <1>5, <2>1, <4>1
    <3> QED BY <3>1, <3>2
  <2>3. ASSUME NEW j \in 0..(k + 1) PROVE Extends(d[j], d[k + 1])
    <3>1. CASE j = k + 1 BY <1>5, <2>1, <3>1
    <3>2. CASE j \in 0..k /\ j \in 0..n
      <4>1. Extends(d[j], d[k]) BY <1>7, <3>2
      <4> QED BY <1>3, <2>1, <2>2, <3>2, <4>1, ExtendsTrans
    <3> QED BY <2>1, <3>1, <3>2
  <2> QED BY <2>1, <2>3
<1>8. n \in T
  <2> HIDE DEF T
  <2>1. \A k \in 0..n : k \in T BY <1>1, <1>6, <1>7, SetInduction
  <2> QED BY <1>1, <2>1
<1> QED BY <1>4, <1>8 DEF d, n
-----------------------------------------------------------------------------
(* A pass and the commands decide alike: the commands.                     *)

\* L is the log as commands emit D's batch; after as many events as x has, it
\* shows the cases that x has decided.
Agrees(x, D, L) ==
    LET m == Len(x.batch)
        n == Len(log)
    IN  /\ L[m] \in Seq(LogRows) /\ Len(L[m]) = n + m
        /\ CaseOf(L[m]) = x.caseOf
        /\ \A j \in 1..m : L[m][n + j].case = x.batch[j][2]

\* A command emits the event that comes next in the batch.
LEMMA AgreesNext ==
    ASSUME log \in Seq(LogRows), NEW D \in Derivations, NEW L,
           \A k \in 1..Len(D.batch) : L[k] = EmitsOne(L[k - 1], D, k),
           NEW x \in Derivations, NEW y \in Derivations, Agrees(x, D, L), Extends(y, D),
           NEW b \in BatchRows, y.batch = Append(x.batch, b),
           EmittedCase(L[Len(x.batch)], D, b) = b[2],
           \A i \in Ids : y.caseOf[i] = IF i = b[1][2] /\ x.caseOf[i] = None THEN b[2]
                                        ELSE x.caseOf[i]
    PROVE  Agrees(y, D, L)
<1> DEFINE m == Len(x.batch)
           n == Len(log)
           e == Entry(0, b[1], b[2], FALSE, {})
<1>1. /\ m \in Nat /\ n \in Nat /\ Len(y.batch) = m + 1
      /\ DOMAIN x.batch = 1..m /\ DOMAIN y.batch = 1..(m + 1)
      /\ \A j \in 1..m : y.batch[j] = x.batch[j]
      /\ y.batch[m + 1] = b
  <2>1. x.batch \in Seq(BatchRows) /\ y.batch \in Seq(BatchRows) BY DEF Derivations
  <2> QED BY <2>1, AppendProperties, LenProperties
<1>2. m + 1 \in 1..Len(D.batch) /\ D.batch[m + 1] = b
  <2>1. /\ Len(y.batch) <= Len(D.batch)
        /\ \A k \in DOMAIN y.batch : D.batch[k] = y.batch[k]
    BY Zenon DEF Extends
  <2>2. Len(D.batch) \in Nat BY LenProperties DEF Derivations
  <2> HIDE DEF m
  <2>3. m + 1 \in DOMAIN y.batch BY <1>1
  <2>4. D.batch[m + 1] = b BY <1>1, <2>1, <2>3
  <2>5. m + 1 <= Len(D.batch) BY <1>1, <2>1
  <2> HIDE DEF n
  <2>6. m \in Nat BY <1>1
  <2> QED BY <2>2, <2>4, <2>5, <2>6
<1>3. L[m + 1] = Append(L[m], e)
  <2>1. (m + 1) - 1 = m BY <1>1
  <2>2. L[m + 1] = EmitsOne(L[m], D, m + 1) BY <1>2, <2>1
  <2> QED BY <1>2, <2>2 DEF EmitsOne
<1>4. b[1][1] \in Events /\ b[1][2] \in Ids /\ b[2] \in CaseIds BY DEF BatchRows, AllPairs
<1>5. e \in LogRows BY <1>4 DEF Entry, LogRows
<1>6. e.id = b[1][2] /\ e.case = b[2] BY DEF Entry
<1>7. /\ L[m] \in Seq(LogRows) /\ Len(L[m]) = n + m /\ CaseOf(L[m]) = x.caseOf
      /\ \A j \in 1..m : L[m][n + j].case = x.batch[j][2]
  BY DEF Agrees
<1> HIDE DEF e, m, n
<1>8. /\ L[m + 1] \in Seq(LogRows) /\ Len(L[m + 1]) = (n + m) + 1
      /\ \A j \in 1..(n + m) : L[m + 1][j] = L[m][j]
      /\ L[m + 1][(n + m) + 1] = e
  BY <1>3, <1>5, <1>7, AppendProperties
<1>9. CaseOf(L[m + 1]) = y.caseOf
  <2> DEFINE f == CaseOf(L[m + 1])
             g == y.caseOf
  <2>1. f \in [Ids -> CaseIds \cup {None}] /\ g \in [Ids -> CaseIds \cup {None}]
    BY <1>8, CaseAmongType DEF CaseOf, Derivations
  <2>2. \A i \in Ids : CaseOf(Append(L[m], e))[i]
                       = IF e.id = i /\ CaseOf(L[m])[i] = None THEN e.case ELSE CaseOf(L[m])[i]
    BY <1>5, <1>7, CaseOfAppend
  <2>3. \A i \in Ids : f[i] = g[i] BY <1>3, <1>6, <1>7, <2>2
  <2> HIDE DEF f, g
  <2> QED BY <2>1, <2>3 DEF f, g
<1>10. \A j \in 1..(m + 1) : L[m + 1][n + j].case = y.batch[j][2]
  <2> SUFFICES ASSUME NEW j \in 1..(m + 1) PROVE L[m + 1][n + j].case = y.batch[j][2]
    OBVIOUS
  <2>1. CASE j \in 1..m
    <3>1. n + j \in 1..(n + m) BY <1>1, <2>1
    <3> QED BY <1>1, <1>7, <1>8, <2>1, <3>1
  <2>2. CASE j = m + 1
    <3>1. n + j = (n + m) + 1 BY <1>1, <2>2
    <3> QED BY <1>1, <1>6, <1>8, <2>2, <3>1
  <2> QED BY <1>1, <2>1, <2>2
<1>11. (n + m) + 1 = n + (m + 1) BY <1>1
<1> QED BY <1>1, <1>8, <1>9, <1>10, <1>11 DEF Agrees, m, n

\* What agrees depends on the map and the batch only.
LEMMA AgreesSame ==
    ASSUME NEW x, NEW y, NEW D, NEW L, Agrees(x, D, L), y.caseOf = x.caseOf, y.batch = x.batch
    PROVE  Agrees(y, D, L)
BY DEF Agrees

\* Of an instance without a row nothing is in the log or the batch.
LEMMA NoCaseYet ==
    ASSUME log \in Seq(LogRows), NEW snap \in SUBSET AllPairs,
           \A e \in ToSet(log) : HasRow(e.id, snap),
           NEW d, DeriveInv(snap, d), NEW q \in Ids, ~HasRow(q, d.stored)
    PROVE  d.caseOf[q] = None
<1> SUFFICES ASSUME d.caseOf[q] # None PROVE FALSE OBVIOUS
<1>1. ~HasRow(q, snap) BY DEF DeriveInv, StoredKnown, HasRow
<1>2. \A k \in DOMAIN log : log[k].id # q BY <1>1 DEF ToSet
<1>3. CaseOf(log)[q] = None BY <1>2, CaseAmongFacts DEF CaseOf
<1>4. PICK k \in DOMAIN d.batch : BatchId(d.batch, k) = q
  BY <1>3 DEF DeriveInv, MapKnown
<1>5. q \in d.opens BY <1>1, <1>4 DEF DeriveInv, BatchKnown
<1> QED BY <1>5 DEF DeriveInv, StoredKnown

\* The command reads the events of the candidates only, and decides the same.
LEMMA CommandAgrees ==
    ASSUME NEW lg \in Seq(LogRows), NEW i \in Ids, NEW carries, NEW known
    PROVE  CorrelateCaseId(i, carries, CycleRow(i, carries, known), lg)
           = DecideCaseId(i, RefsIn(i, carries), CycleRow(i, carries, known), CaseOf(lg))
<1> DEFINE cycle == CycleRow(i, carries, known)
           refs == RefsIn(i, carries)
           C == {i, cycle} \cup ToSet(refs)
           f == CaseAmong(lg, C)
           g == CaseOf(lg)
<1>1. refs \in Seq(Ids) /\ cycle \in Ids \cup {None} BY PayloadFacts
<1>2. ToSet(refs) \subseteq Ids
  <2> HIDE DEF refs
  <2> QED BY <1>1, LenProperties, ElementOfSeq DEF ToSet
<1>3. \A x \in C \cap Ids : f[x] = g[x]
  <2> HIDE DEF C
  <2> QED BY DEF CaseAmong, CaseOf
<1>4. CorrelateCaseId(i, carries, cycle, lg) = DecideCaseId(i, refs, cycle, f)
  BY DEF CorrelateCaseId
<1>5. i \in C /\ cycle \in C /\ ToSet(refs) \subseteq C OBVIOUS
<1> HIDE DEF C, cycle, refs, f, g
<1>6. f[i] = g[i] /\ (\A r \in ToSet(refs) : f[r] = g[r]) /\ (cycle # None => f[cycle] = g[cycle])
  BY <1>1, <1>2, <1>3, <1>5
<1>7. DecideCaseId(i, refs, cycle, f) = DecideCaseId(i, refs, cycle, g) BY <1>1, <1>6, DecideSame
<1> QED BY <1>4, <1>7 DEF cycle, refs, g

\* The opening of a cycle row, as the commands see it.
LEMMA OpeningAgrees ==
    ASSUME log \in Seq(LogRows), NEW snap \in SUBSET AllPairs,
           \A r \in ToSet(log) : HasRow(r.id, snap),
           NEW D \in Derivations, NEW L,
           \A k \in 1..Len(D.batch) : L[k] = EmitsOne(L[k - 1], D, k),
           NEW d, DeriveInv(snap, d), Agrees(d, D, L), NEW q \in Ids \cup {None},
           NEW e, e = EnsureCycleRow(d, q), DeriveInv(snap, e), Extends(e, D)
    PROVE  Agrees(e, D, L)
<1> DEFINE create == <<OpenedBy[q], q>>
<1>1. d \in Derivations /\ e \in Derivations BY DEF DeriveInv
<1>2. CASE e = d BY <1>2
<1>3. CASE e.caseOf = d.caseOf /\ e.batch = d.batch BY <1>3, AgreesSame
<1>4. CASE /\ q \in Ids /\ ~HasRow(q, d.stored) /\ create \in AllPairs
           /\ e.opens = d.opens \cup {q}
           /\ e.caseOf = [d.caseOf EXCEPT ![q] = q]
           /\ e.batch = Append(d.batch, <<create, q>>)
  <2> DEFINE b == <<create, q>>
  <2>1. b[1][2] = q /\ b[2] = q OBVIOUS
  <2>2. b \in BatchRows BY <1>4 DEF BatchRows, CaseIds
  <2>3. d.caseOf[q] = None BY <1>4, NoCaseYet
  <2>4. q \in D.opens BY <1>4 DEF Extends
  <2> HIDE DEF b, create
  <2>5. EmittedCase(L[Len(d.batch)], D, b) = b[2] BY <2>1, <2>4 DEF EmittedCase
  <2>6. \A i \in Ids : e.caseOf[i] = IF i = b[1][2] /\ d.caseOf[i] = None THEN b[2] ELSE d.caseOf[i]
    BY <1>1, <1>4, <2>1, <2>3 DEF Derivations
  <2>7. e.batch = Append(d.batch, b) BY <1>4 DEF b
  <2> QED BY <1>1, <2>2, <2>5, <2>6, <2>7, AgreesNext
<1> HIDE DEF create
<1>5. \/ e = d
      \/ /\ q \in Ids /\ ~HasRow(q, d.stored) /\ create \in AllPairs
         /\ e.opens = d.opens \cup {q}
         /\ \/ e.caseOf = d.caseOf /\ e.batch = d.batch
            \/ /\ e.caseOf = [d.caseOf EXCEPT ![q] = q]
               /\ e.batch = Append(d.batch, <<create, q>>)
  BY <1>1, EnsureFields DEF create
<1> QED BY <1>2, <1>3, <1>4, <1>5 DEF create

\* A planned event, as the commands see it.
LEMMA PlanAgrees ==
    ASSUME log \in Seq(LogRows), NEW snap \in SUBSET AllPairs,
           \A r \in ToSet(log) : HasRow(r.id, snap),
           NEW D, DeriveInv(snap, D), NEW L,
           \A k \in 1..Len(D.batch) : L[k] = EmitsOne(L[k - 1], D, k),
           NEW d, DeriveInv(snap, d), Agrees(d, D, L), NEW pr \in snap,
           NEW f, f = PlanEvent(d, pr), Extends(f, D)
    PROVE  Agrees(f, D, L)
<1> DEFINE i == pr[2]
           carries == pr[1] \in Carriers
           q == CycleFor(pr)
<1>0. D \in Derivations /\ d \in Derivations /\ i \in Ids BY DEF DeriveInv, AllPairs
<1>1. CASE pr \in d.seen
  <2>1. f = d BY <1>1 DEF PlanEvent
  <2> QED BY <2>1
<1>2. CASE pr \notin d.seen
  <2>1. DeriveInv(snap, f) /\ f \in Derivations BY PlanEventKeeps DEF DeriveInv
  <2>2. PICK d1, e : \E case \in CaseIds :
                  /\ DeriveInv(snap, d1) /\ d1.caseOf = d.caseOf /\ d1.stored = d.stored
                  /\ d1.opens = d.opens /\ d1.batch = d.batch
                  /\ e = EnsureCycleRow(d1, q) /\ DeriveInv(snap, e)
                  /\ Plans(e, pr, case, f)
    BY <1>2, PlanParts
  <2>3. PICK case \in CaseIds : Plans(e, pr, case, f) BY <2>2
  <2>4. d1 \in Derivations /\ e \in Derivations BY <2>2 DEF DeriveInv
  <2>5. q \in Ids \cup {None} BY <1>2, PlanParts
  <2>6. <<pr, case>> \in BatchRows BY DEF BatchRows
  <2>7. Extends(e, f)
    <3>1. f.batch = Append(e.batch, <<pr, case>>) BY <2>3 DEF Plans
    <3>2. /\ Len(e.batch) <= Len(f.batch)
          /\ \A k \in DOMAIN e.batch : f.batch[k] = e.batch[k]
      BY <2>4, <2>6, <3>1, ExtendsByOne
    <3> QED BY <2>3, <3>2 DEF Extends, Plans
  <2>8. Extends(e, D) BY <1>0, <2>1, <2>4, <2>7, ExtendsTrans
  <2>9. Agrees(d1, D, L) BY <2>2, AgreesSame
  <2>10. Agrees(e, D, L)
    <3> HIDE DEF q
    <3> QED BY <1>0, <2>2, <2>5, <2>8, <2>9, OpeningAgrees
  <2>11. CycleRow(i, carries, D.stored) = CycleRow(i, carries, e.stored)
    <3>1. CASE carries /\ CycleOf[i] # None
      <4>1. q = CycleOf[i] /\ q \in Ids BY <2>5, <3>1 DEF CycleFor
      <4> HIDE DEF q
      <4>2. HasRow(q, e.stored) \/ Missing(q, e.stored) BY <2>2, <2>4, <2>5, <4>1, EnsureExtends
      <4>3. HasRow(q, e.stored) => HasRow(q, D.stored) BY <2>8 DEF Extends, HasRow
      <4>4. Missing(q, e.stored) => ~HasRow(q, D.stored) BY <2>8, <4>1 DEF Extends, Missing
      <4>5. Missing(q, e.stored) => ~HasRow(q, e.stored) BY DEF Missing
      <4> QED BY <4>1, <4>2, <4>3, <4>4, <4>5 DEF CycleRow
    <3>2. CASE ~(carries /\ CycleOf[i] # None) BY <3>2 DEF CycleRow
    <3> QED BY <3>1, <3>2
  <2> DEFINE b == <<pr, case>>
             lg == L[Len(e.batch)]
  <2>12. lg \in Seq(LogRows) /\ CaseOf(lg) = e.caseOf BY <2>10 DEF Agrees
  <2>13. i \notin D.opens
    <3>1. HasRow(i, snap) BY DEF HasRow
    <3> QED BY <3>1 DEF DeriveInv, StoredKnown
  <2>14. b[1] = pr /\ b[2] = case OBVIOUS
  <2> HIDE DEF b, lg
  <2>15. EmittedCase(lg, D, b) = CorrelateCaseId(i, carries, CycleRow(i, carries, D.stored), lg)
    BY <2>13, <2>14 DEF EmittedCase
  <2>16. CorrelateCaseId(i, carries, CycleRow(i, carries, e.stored), lg)
         = DecideCaseId(i, RefsIn(i, carries), CycleRow(i, carries, e.stored), CaseOf(lg))
    <3> HIDE DEF i, carries
    <3> QED BY <1>0, <2>12, CommandAgrees
  <2>17. EmittedCase(lg, D, b) = b[2] BY <2>3, <2>11, <2>12, <2>14, <2>15, <2>16 DEF Plans
  <2>18. /\ f.batch = Append(e.batch, b)
         /\ \A j \in Ids : f.caseOf[j] = IF j = b[1][2] /\ e.caseOf[j] = None THEN b[2]
                                         ELSE e.caseOf[j]
    BY <2>3, <2>14 DEF Plans, b
  <2>19. b \in BatchRows BY <2>6 DEF b
  <2> QED BY <1>0, <2>1, <2>4, <2>10, <2>17, <2>18, <2>19, AgreesNext DEF lg
<1> QED BY <1>1, <1>2

\* The two paths decide alike: at every stage the map of a pass on the present
\* rows and log holds the cases of the log that commands emitting its events so
\* far would have left, and a decision asks that map or that log for the same
\* instances.
THEOREM BothPathsAgree == ActionsSpec => []PathsAgree
<1>1. ASSUME CasesTypeOK, CasesInv PROVE PathsAgree
  <2> DEFINE d == Derivation(rows, log)
             D == Derive(rows, log)
             L == Emitted(log, D)
             n == Len(Plan)
             T == {k \in 0..n : Agrees(d[k], D, L)}
  <2>1. log \in Seq(LogRows) /\ rows \in SUBSET AllPairs BY <1>1 DEF CasesTypeOK
  <2>2. \A r \in ToSet(log) : HasRow(r.id, rows) BY <1>1 DEF CasesInv, LogOK
  <2>3. n \in Nat BY CasesAssumption, LenProperties
  <2>4. DeriveInv(rows, D) /\ D \in Derivations BY <2>1, DeriveKeeps DEF DeriveInv
  <2>5. \A k \in 0..n : DeriveInv(rows, d[k]) /\ Extends(d[k], D)
    BY <2>1, DerivationKeeps, StagesExtend
  <2>6. /\ d[0] = Begun(rows, log)
        /\ \A k \in 1..n : d[k] = IF Plan[k] \in rows THEN PlanEvent(d[k - 1], Plan[k]) ELSE d[k - 1]
    BY DerivationSteps
  <2>7. Len(D.batch) \in Nat /\ DOMAIN D.batch = 1..Len(D.batch)
    BY <2>4, LenProperties DEF Derivations
  <2>8. /\ L[0] = log
        /\ \A k \in 1..Len(D.batch) : L[k] = EmitsOne(L[k - 1], D, k)
    <3> HIDE DEF D
    <3> QED BY <2>7, EmittedSteps
  <2>9. D = d[n] BY DEF Derive
  <2> HIDE DEF d, D, L, n
  <2>10. Agrees(d[0], D, L)
    <3>1. Begun(rows, log).caseOf = CaseOf(log) /\ Begun(rows, log).batch = <<>> BY DEF Begun
    <3>2. Len(<<>>) = 0 BY EmptySeq
    <3>3. Len(log) + 0 = Len(log) BY <2>1, LenProperties
    <3> QED BY <2>1, <2>6, <2>8, <3>1, <3>2, <3>3 DEF Agrees
  <2>11. 0 \in T BY <2>3, <2>10
  <2>12. ASSUME NEW k \in 0..(n - 1), k \in T PROVE k + 1 \in T
    <3>1. k + 1 \in 1..n /\ k + 1 \in 0..n /\ (k + 1) - 1 = k /\ k \in 0..n BY <2>3
    <3>2. Agrees(d[k], D, L) BY <2>12
    <3>3. CASE Plan[k + 1] \in rows
      <4>1. d[k + 1] = PlanEvent(d[k], Plan[k + 1]) BY <2>6, <3>1, <3>3
      <4>2. Agrees(d[k + 1], D, L)
        BY <2>1, <2>2, <2>4, <2>5, <2>8, <3>1, <3>2, <3>3, <4>1, PlanAgrees
      <4> QED BY <3>1, <4>2
    <3>4. CASE Plan[k + 1] \notin rows
      <4>1. d[k + 1] = d[k] BY <2>6, <3>1, <3>4
      <4> QED BY <3>1, <3>2, <4>1
    <3> QED BY <3>3, <3>4
  <2>13. Agrees(D, D, L)
    <3> HIDE DEF T
    <3>1. \A k \in 0..n : k \in T BY <2>3, <2>11, <2>12, SetInduction
    <3>2. n \in T BY <2>3, <3>1
    <3> QED BY <2>9, <3>2 DEF T
  <2>14. \A j \in 1..Len(D.batch) : L[Len(D.batch)][Len(log) + j].case = D.batch[j][2]
    BY <2>13 DEF Agrees
  <2> QED BY <2>7, <2>14 DEF PathsAgree, D, L
<1> QED BY <1>1, CasesTyped, PTL
=============================================================================
