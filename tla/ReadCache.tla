----------------------------- MODULE ReadCache -----------------------------
(***************************************************************************)
(* The read-through cache of the dashboard reads                           *)
(* (src/platform/read-cache.ts).  A read serves an unexpired entry of its  *)
(* (organization, workflow) slice, else computes and stores what it        *)
(* computed; a write commits, then drops the workflow's slice and the      *)
(* organization-wide slice; the deletion of an organization drops all its  *)
(* slices.  A compute that is under way when a write invalidates is not    *)
(* cancelled.                                                              *)
(*                                                                         *)
(* A slice's data is the version of each of its workflows; one request     *)
(* string per slice.  The Map is a function of its keys: TTL being fixed,  *)
(* the entries are in the order of their expiry.                           *)
(***************************************************************************)
EXTENDS Naturals, FiniteSets

CONSTANTS Orgs, Workflows,   \* every organization has these workflows
          ORG_SCOPE,         \* the pseudo-workflow of organization-wide reads and writes
          Readers,           \* concurrent reads
          MAX_ENTRIES,       \* entries the cache keeps
          TTL,               \* lifetime of an entry, in clock units
          MaxCompute,        \* bound: clock units a compute takes at most
          MaxTime,           \* bound: the clock's last value
          MaxWrites          \* bound: writes in one behaviour

ASSUME CacheAssumption ==
    /\ ORG_SCOPE \notin Workflows
    /\ MAX_ENTRIES \in Nat \ {0} /\ TTL \in Nat \ {0} /\ MaxCompute \in Nat
    /\ MaxTime \in Nat /\ MaxWrites \in Nat

VARIABLES data,      \* data[o][w]: version of w's events and rows
          store,     \* the Map: the keys it has, and their entries
          reader,    \* reader[r]: what read r is in the middle of
          age,       \* ghost: how long ago the last answer's data was read
          unsent,    \* unsent[o, w]: writes committed whose invalidation has not run
          now, writes

cacheVars == <<data, store, reader, age, unsent, now, writes>>

Keys == Orgs \X (Workflows \cup {ORG_SCOPE})

\* The workflows a slice's reads look at.
Scope(k) == IF k[2] = ORG_SCOPE THEN Workflows ELSE {k[2]}
Current(k) == [w \in Scope(k) |-> data[k[1]][w]]

\* Ghosts of an entry: readAt, when its value was read; overlapped, whether an
\* invalidation of its slice ran between that read and the store; unhooked,
\* whether a write without invalidation changed its data since.
Idle == [busy |-> FALSE]

CacheInit ==
    /\ data = [o \in Orgs |-> [w \in Workflows |-> 0]]
    /\ store = [k \in {} |-> 0]
    /\ reader = [r \in Readers |-> Idle]
    /\ age = 0
    /\ unsent = [k \in Keys |-> 0]
    /\ now = 0
    /\ writes = 0

\* Mutant of Live: the lookup does not compare the expiry with the clock.
Live_NoExpiry(k) == k \in DOMAIN store

\* store.get and the expiry test.
Live(k) == k \in DOMAIN store /\ store[k].expires > now

\* serve: a live entry answers at once.
Hit(r, k) ==
    /\ ~reader[r].busy
    /\ Live(k)
    /\ age' = now - store[k].readAt
    /\ UNCHANGED <<data, store, reader, unsent, now, writes>>

\* serve: no live entry; compute() reads the data.
Miss(r, k) ==
    /\ ~reader[r].busy
    /\ ~Live(k)
    /\ reader' = [reader EXCEPT ![r] =
           [busy |-> TRUE, key |-> k, val |-> Current(k), readAt |-> now,
            overlapped |-> FALSE, unhooked |-> FALSE]]
    /\ UNCHANGED <<data, store, age, unsent, now, writes>>

Entered(k, e) == [x \in DOMAIN store \cup {k} |-> IF x = k THEN e ELSE store[x]]

Only(m, K) == [x \in K |-> m[x]]

\* Mutant of Put: nothing is evicted.
Put_Unbounded(k, e) == store' = Entered(k, e)

\* store.delete and store.set; when the Map is too large its oldest key goes, one of
\* those that expire first (k itself is the newest).
Put(k, e) ==
    LET full == Entered(k, e)
        others == DOMAIN full \ {k}
    IN  IF Cardinality(DOMAIN full) <= MAX_ENTRIES THEN store' = full
        ELSE \E x \in others :
                 /\ \A y \in others : full[x].expires <= full[y].expires
                 /\ store' = Only(full, DOMAIN full \ {x})

\* compute().then(...): the value is stored as it was read.
Fill(r) ==
    /\ reader[r].busy
    /\ LET d == reader[r]
       IN  /\ Put(d.key, [val |-> d.val, expires |-> now + TTL, readAt |-> d.readAt,
                           overlapped |-> d.overlapped, unhooked |-> d.unhooked])
           /\ age' = now - d.readAt
    /\ reader' = [reader EXCEPT ![r] = Idle]
    /\ UNCHANGED <<data, unsent, now, writes>>

ComputeThrows(r) ==
    /\ reader[r].busy
    /\ reader' = [reader EXCEPT ![r] = Idle]
    /\ UNCHANGED <<data, store, age, unsent, now, writes>>

\* Mutant of Dropped: a write drops its workflow's slice only.
Dropped_WorkflowOnly(o, w) == {<<o, w>>}

\* invalidateReads(org, workflow): the slices it drops, all of the organization's
\* when no workflow is given.
Dropped(o, w) ==
    {<<o, v>> : v \in {ORG_SCOPE} \cup IF w = ORG_SCOPE THEN Workflows ELSE {w}}

\* A write chokepoint (emit, emitMany, delete, apply; the deletion of an
\* organization, w = ORG_SCOPE) commits ...
Write(o, w) ==
    /\ writes < MaxWrites
    /\ writes' = writes + 1
    /\ data' = [data EXCEPT ![o] = [v \in Workflows |->
           IF v \in Scope(<<o, w>>) THEN @[v] + 1 ELSE @[v]]]
    /\ unsent' = [unsent EXCEPT ![<<o, w>>] = @ + 1]
    /\ UNCHANGED <<store, reader, age, now>>

\* ... and invalidates.
InvalidateReads(o, w) ==
    /\ unsent[<<o, w>>] > 0
    /\ unsent' = [unsent EXCEPT ![<<o, w>>] = @ - 1]
    /\ store' = Only(store, DOMAIN store \ Dropped(o, w))
    /\ reader' = [r \in Readers |->
           IF reader[r].busy /\ reader[r].key \in Dropped(o, w)
           THEN [reader[r] EXCEPT !.overlapped = TRUE] ELSE reader[r]]
    /\ UNCHANGED <<data, age, now, writes>>

\* A write path without a hook: rows land and no event follows from them.
WriteUnhooked(o, w) ==
    /\ writes < MaxWrites
    /\ writes' = writes + 1
    /\ data' = [data EXCEPT ![o] = [v \in Workflows |-> IF v = w THEN @[v] + 1 ELSE @[v]]]
    /\ store' = [k \in DOMAIN store |->
           IF o = k[1] /\ w \in Scope(k)
           THEN [store[k] EXCEPT !.unhooked = TRUE] ELSE store[k]]
    /\ reader' = [r \in Readers |->
           IF reader[r].busy /\ o = reader[r].key[1] /\ w \in Scope(reader[r].key)
           THEN [reader[r] EXCEPT !.unhooked = TRUE] ELSE reader[r]]
    /\ UNCHANGED <<age, unsent, now>>

\* Time passes; a compute does not take longer than MaxCompute.
Tick ==
    /\ now < MaxTime
    /\ \A r \in Readers : reader[r].busy => now < reader[r].readAt + MaxCompute
    /\ now' = now + 1
    /\ UNCHANGED <<data, store, reader, age, unsent, writes>>

CacheNext ==
    \/ \E r \in Readers, k \in Keys : Hit(r, k)
    \/ \E r \in Readers, k \in Keys : Miss(r, k)
    \/ \E r \in Readers : Fill(r)
    \/ \E r \in Readers : ComputeThrows(r)
    \/ \E o \in Orgs, w \in Workflows \cup {ORG_SCOPE} : Write(o, w)
    \/ \E o \in Orgs, w \in Workflows \cup {ORG_SCOPE} : InvalidateReads(o, w)
    \/ \E o \in Orgs, w \in Workflows : WriteUnhooked(o, w)
    \/ Tick

CacheSpec == CacheInit /\ [][CacheNext]_cacheVars

-----------------------------------------------------------------------------
\* The Map never keeps more than MAX_ENTRIES entries, whichever reads are stored one
\* after the other, of one key or of several.
MapBounded == Cardinality(DOMAIN store) <= MAX_ENTRIES

\* Whatever raced, no read is answered with data read longer ago than an entry's
\* lifetime plus one compute: the TTL backstop.
StalenessBounded == age < TTL + MaxCompute

\* A value (v, of an entry or of a compute under way) is out of date only while a
\* write's invalidation is still to run, after a write without a hook, or because
\* its compute overlapped an invalidation.
Explained(k, v) ==
    \/ v.val = Current(k)
    \/ v.overlapped \/ v.unhooked
    \/ \E w \in Scope(k) \cup {ORG_SCOPE} : unsent[<<k[1], w>>] > 0

\* No hooked write is forgotten by the slices it drops.
StaleOnlyByOverlap == \A k \in DOMAIN store : Explained(k, store[k])
=============================================================================
