----------------------------- MODULE AuditChain -----------------------------
(***************************************************************************)
(* The audit log (src/platform/audit/index.ts): one hash chain per         *)
(* organization.  recordAudit queues the append on the organization's      *)
(* promise queue; when its turn comes it reads the last stored row, then   *)
(* inserts the next one.  Between the read and the insert other requests   *)
(* run; the queue lives in memory and a restart loses it.                  *)
(*                                                                         *)
(* sha256 is taken to be injective, so a row's hash is modelled as the     *)
(* material it covers: the previous hash, the sequence number and the      *)
(* body.  The queue is the promise chain of SerialChain with the chain's   *)
(* `finally` left out: serialize() never prunes its map.                   *)
(***************************************************************************)
EXTENDS Integers, Sequences, FiniteSets

CONSTANTS Orgs,        \* organizations; one stream each
          Bodies,      \* what an entry says: actor, action, target, decision, reason
          NoOrg,       \* the organization of an append not made yet
          NoHash,      \* prevHash = null
          MaxAppends,  \* bound: recordAudit calls in one behaviour
          MaxTampers   \* bound: edits and deletions behind the application's back

ASSUME AuditAssumption ==
    /\ NoOrg \notin Orgs
    /\ MaxAppends \in Nat
    /\ MaxTampers \in Nat

VARIABLES ncalls, wf, prior, phase, tip, pruned,   \* the promise queues
          body,      \* body[n]: what append n records
          read,      \* read[n]: the last row append n saw, <<>> before its read
          stored,    \* stored[o]: plat_audit_events of o, in seq order
          tampers,   \* edits and deletions made so far
          broken     \* broken[o]: o's chain was edited, or lost a row before its last

Queue == INSTANCE SerialChain WITH Workflows <- Orgs, MaxPasses <- MaxAppends,
                                   NoWorkflow <- NoOrg

queueVars == <<ncalls, wf, prior, phase, tip, pruned>>
vars == <<queueVars, body, read, stored, tampers, broken>>

Appends == 1..MaxAppends

Hash(prevHash, seq, b) == <<prevHash, seq, b>>

\* A stored row; `by` is a ghost, the append that wrote it.
Row(n, prevHash, seq, b) ==
    [seq |-> seq, prevHash |-> prevHash, body |-> b, thisHash |-> Hash(prevHash, seq, b),
     by |-> n]

\* Mutant of Verify: the hash is compared, the link to the row before is not, and
\* neither is the number.
Verify_HashOnly(rows) ==
    \A i \in 1..Len(rows) :
        rows[i].thisHash = Hash(rows[i].prevHash, rows[i].seq, rows[i].body)

\* verifyAuditChain: sequence numbers count from 0, every row links to the one
\* before it, and every hash is the hash of the row's own fields.
Verify(rows) ==
    \A i \in 1..Len(rows) :
        /\ rows[i].seq = i - 1
        /\ rows[i].prevHash = IF i = 1 THEN NoHash ELSE rows[i - 1].thisHash
        /\ rows[i].thisHash = Hash(rows[i].prevHash, rows[i].seq, rows[i].body)

Init ==
    /\ Queue!ChainInit
    /\ body = [n \in Appends |-> CHOOSE b \in Bodies : TRUE]
    /\ read = [n \in Appends |-> <<>>]
    /\ stored = [o \in Orgs |-> <<>>]
    /\ tampers = 0
    /\ broken = [o \in Orgs |-> FALSE]

\* recordAudit: serialize() puts the append behind the organization's last one.
RecordAudit(o, b) ==
    /\ Queue!Call(o)
    /\ body' = [body EXCEPT ![ncalls + 1] = b]
    /\ UNCHANGED <<read, stored, tampers, broken>>

\* What findFirst(orderBy seq desc) returns: the next seq and the hash to link to.
LastRow(rows) ==
    IF rows = <<>> THEN <<0, NoHash>>
    ELSE <<rows[Len(rows)].seq + 1, rows[Len(rows)].thisHash>>

\* Mutant of ReadLast: the append does not wait for its turn.
ReadLast_NoQueue(n) ==
    /\ phase[n] = "waiting"
    /\ phase' = [phase EXCEPT ![n] = "running"]
    /\ read' = [read EXCEPT ![n] = LastRow(stored[wf[n]])]
    /\ UNCHANGED <<ncalls, wf, prior, tip, pruned, body, stored, tampers, broken>>

\* The append's turn: findFirst is sent and answers.
ReadLast(n) ==
    /\ Queue!Begin(n)
    /\ read' = [read EXCEPT ![n] = LastRow(stored[wf[n]])]
    /\ UNCHANGED <<body, stored, tampers, broken>>

\* Mutant of Create: the row links to the first row of the chain.
Create_LinksFirst(n) ==
    LET o == wf[n]
        link == IF stored[o] = <<>> THEN NoHash ELSE stored[o][1].thisHash
    IN  /\ Queue!Settle(n, "ok")
        /\ stored' = [stored EXCEPT ![o] = Append(@, Row(n, link, read[n][1], body[n]))]
        /\ UNCHANGED <<body, read, tampers, broken>>

\* The insert; the schema's unique (organization, stream, seq) refuses a second
\* row with the same number.
Create(n) ==
    LET o == wf[n]
        seq == read[n][1]
    IN  /\ Queue!Settle(n, "ok")
        /\ \A i \in 1..Len(stored[o]) : stored[o][i].seq # seq
        /\ stored' = [stored EXCEPT ![o] = Append(@, Row(n, read[n][2], seq, body[n]))]
        /\ UNCHANGED <<body, read, tampers, broken>>

\* The read or the insert throws; the next append runs regardless.
AppendThrows(n) ==
    /\ Queue!Settle(n, "failed")
    /\ UNCHANGED <<body, read, stored, tampers, broken>>

Restart ==
    /\ Queue!ChainRestart
    /\ UNCHANGED <<body, read, stored, tampers, broken>>

\* Somebody with database access edits the body of a stored row, or deletes one.
TamperEdit(o, i, b) ==
    /\ tampers < MaxTampers
    /\ i \in 1..Len(stored[o])
    /\ b # stored[o][i].body
    /\ stored' = [stored EXCEPT ![o][i].body = b]
    /\ tampers' = tampers + 1
    /\ broken' = [broken EXCEPT ![o] = TRUE]
    /\ UNCHANGED <<queueVars, body, read>>

TamperDelete(o, i) ==
    /\ tampers < MaxTampers
    /\ i \in 1..Len(stored[o])
    /\ stored' = [stored EXCEPT ![o] = SubSeq(@, 1, i - 1) \o SubSeq(@, i + 1, Len(@))]
    /\ tampers' = tampers + 1
    /\ broken' = [broken EXCEPT ![o] = @ \/ i < Len(stored[o])]
    /\ UNCHANGED <<queueVars, body, read>>

Next ==
    \/ \E o \in Orgs, b \in Bodies : RecordAudit(o, b)
    \/ \E n \in Appends : ReadLast(n)
    \/ \E n \in Appends : Create(n)
    \/ \E n \in Appends : AppendThrows(n)
    \/ Restart
    \/ \E o \in Orgs, i \in Appends, b \in Bodies : TamperEdit(o, i, b)
    \/ \E o \in Orgs, i \in Appends : TamperDelete(o, i)

Spec == Init /\ [][Next]_vars

-----------------------------------------------------------------------------

TypeOK ==
    /\ Queue!ChainTypeOK
    /\ body \in [Appends -> Bodies]
    /\ \A n \in Appends : read[n] = <<>> \/ read[n][1] \in Nat
    /\ \A n \in Appends : phase[n] = "running" => read[n] # <<>>
    /\ \A o \in Orgs : \A i \in 1..Len(stored[o]) : stored[o][i].by \in 1..ncalls
    /\ tampers \in 0..MaxTampers
    /\ broken \in [Orgs -> BOOLEAN]

\* The application alone always leaves a chain that verifies, whatever the order
\* of concurrent appends, failures and restarts ("can't assign the same seq or
\* race the prev-hash").
ChainVerifies == tampers = 0 => \A o \in Orgs : Verify(stored[o])

\* An append that has read the chain's end can still use what it read: no other
\* append of the organization took its number or moved the end meanwhile, so no
\* entry is lost to a conflict.
ReadStaysCurrent ==
    tampers = 0 =>
        \A n \in Appends : phase[n] = "running" => read[n] = LastRow(stored[wf[n]])

\* The chain records the entries in the order recordAudit was called.
EntriesInCallOrder ==
    \A o \in Orgs : \A i, j \in 1..Len(stored[o]) :
        i < j => stored[o][i].by < stored[o][j].by

\* An edited entry, or a missing one that was not the last, is found by
\* verifyAuditChain from then on, however the chain grows afterwards.
TamperingStaysVisible == \A o \in Orgs : broken[o] => ~Verify(stored[o])
=============================================================================
