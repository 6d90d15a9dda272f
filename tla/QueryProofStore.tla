---------------------------- MODULE QueryProofStore ----------------------------
(***************************************************************************)
(* The recordings of the query inspector:                                  *)
(* src/contexts/QueryProofStore.tsx, createQueryProofStore, with the        *)
(* queries of src/sdk/queries.ts that record into it.                       *)
(*                                                                         *)
(* A query notes the store's generation when it starts and hands over an    *)
(* entry when it ends.  Entries are kept in the order they were recorded,   *)
(* within a number of entries and a number of bytes.  A page that shows one *)
(* query's entry reads it again only when the store notifies that key.      *)
(***************************************************************************)
EXTENDS Naturals, Sequences, FiniteSets, SequencesExt, FiniteSetsExt

CONSTANTS
    Keys,          \* the cache keys of queries
    Queries,       \* executions that may run at the same time
    MaxSize,       \* the largest entry, as estimateProofEntryBytes counts it
    MaxEntries,    \* limits.maxEntries
    MaxBytes,      \* limits.maxBytes
    MaxGeneration, \* bound: calls of clear()
    MaxDropped,    \* bound: droppedEntries
    None

VARIABLES
    order,      \* the keys of the entries Map, oldest first
    stored,     \* stored[k]: the entry of key k, None without one
    retained,   \* snapshot.retainedBytes
    dropped,    \* snapshot.droppedEntries
    generation,
    enabled,    \* snapshot.enabled
    drawerOpen, \* snapshot.drawerOpen
    seen,       \* seen[k]: the entry the page of key k read last
    query       \* query[q]: the key and the generation an execution started with
                \* (`stale` is history: the store was cleared since)

vars == <<order, stored, retained, dropped, generation, enabled, drawerOpen, seen, query>>

Sizes == 1..MaxSize

\* `stale` is history: the store was cleared after its query started.
Entries == [bytes : Sizes, omitted : BOOLEAN, stale : BOOLEAN]

Init ==
    /\ order = <<>>
    /\ stored = [k \in Keys |-> None]
    /\ retained = 0 /\ dropped = 0 /\ generation = 0
    /\ enabled = TRUE /\ drawerOpen = FALSE
    /\ seen = [k \in Keys |-> None]
    /\ query = [q \in Queries |-> None]

-----------------------------------------------------------------------------

\* The pages of the changed keys read their entry again.
Notify(changed) == seen' = [k \in Keys |-> IF k \in changed THEN stored'[k] ELSE seen[k]]

BytesOf(entries, keys) == MapThenSumSet(LAMBDA k : entries[k].bytes, keys)

\* clear(): of the button in the drawer, or of setEnabled(false).
Clear ==
    /\ order' = <<>>
    /\ stored' = [k \in Keys |-> None]
    /\ generation' = generation + 1
    /\ retained' = 0 /\ dropped' = 0
    /\ Notify(ToSet(order))
    /\ query' = [q \in Queries |-> IF query[q] = None THEN None
                                   ELSE [query[q] EXCEPT !.stale = TRUE]]

ClearAll ==
    /\ generation < MaxGeneration
    /\ Clear
    /\ UNCHANGED <<enabled, drawerOpen>>

SetEnabled(on) ==
    /\ on # enabled
    /\ enabled' = on
    /\ drawerOpen' = (on /\ drawerOpen)
    /\ IF on
       THEN UNCHANGED <<order, stored, retained, dropped, generation, seen, query>>
       ELSE generation < MaxGeneration /\ Clear

SetDrawer(open) ==
    /\ drawerOpen' = open
    /\ UNCHANGED <<order, stored, retained, dropped, generation, enabled, seen, query>>

-----------------------------------------------------------------------------
(* record(key, entry, startedGeneration).                                  *)

\* The oldest entries are evicted until the rest fits.
Fits(entries, keys) ==
    /\ Len(keys) <= MaxEntries
    /\ BytesOf(entries, ToSet(keys)) <= MaxBytes

Evict(entries, keys) ==
    LET first == Min({i \in 1..Len(keys) : Fits(entries, SubSeq(keys, i, Len(keys)))})
    IN SubSeq(keys, first, Len(keys))

Newest(key) == Append(RemoveFirst(order, key), key)

BugNotifyRecorded(key, keys) == {key}
Changed(key, keys) == {key} \cup (ToSet(order) \ ToSet(keys))

NewTotal(key, bytes, evicted) ==
    (retained - (IF stored[key] = None THEN 0 ELSE stored[key].bytes)) + bytes - evicted

Keep(key, entry) ==
    LET entries == [stored EXCEPT ![key] = entry]
        keys == Evict(entries, Newest(key))
        evicted == ToSet(Newest(key)) \ ToSet(keys)
    IN /\ order' = keys
       /\ stored' = [k \in Keys |-> IF k \in ToSet(keys) THEN entries[k] ELSE None]
       /\ retained' = NewTotal(key, entry.bytes, BytesOf(entries, evicted))
       /\ UNCHANGED dropped
       /\ Notify(Changed(key, keys))

Drop(key) ==
    /\ dropped < MaxDropped
    /\ order' = RemoveFirst(order, key)
    /\ stored' = [stored EXCEPT ![key] = None]
    /\ retained' = retained - (IF stored[key] = None THEN 0 ELSE stored[key].bytes)
    /\ dropped' = dropped + 1
    /\ Notify({key})

\* An entry of `full` bytes, or of `summary` bytes without its result and proof.
Record(key, full, summary, stale) ==
    LET bytes == IF full > MaxBytes THEN summary ELSE full
    IN IF bytes > MaxBytes \/ MaxEntries < 1
       THEN Drop(key)
       ELSE Keep(key, [bytes |-> bytes, omitted |-> full > MaxBytes, stale |-> stale])

-----------------------------------------------------------------------------
(* The queries.                                                            *)

Start(q, key) ==
    /\ query[q] = None
    \* React Query runs one execution of a key at a time.
    /\ \A other \in Queries : query[other] # None => query[other].key # key
    /\ query' = [query EXCEPT ![q] = [key |-> key, generation |-> generation, stale |-> FALSE]]
    /\ UNCHANGED <<order, stored, retained, dropped, generation, enabled, drawerOpen, seen>>

Accepted(q) == enabled /\ query[q].generation = generation

\* The query ends and records, unless the store was cleared since it started.
Finish(q, full, summary) ==
    /\ query[q] # None
    /\ summary <= full
    /\ IF Accepted(q)
       THEN Record(query[q].key, full, summary, query[q].stale)
       ELSE UNCHANGED <<order, stored, retained, dropped, seen>>
    /\ query' = [query EXCEPT ![q] = None]
    /\ UNCHANGED <<generation, enabled, drawerOpen>>

\* Its session is retired: assertActive throws and nothing is recorded.
Cancel(q) ==
    /\ query[q] # None
    /\ query' = [query EXCEPT ![q] = None]
    /\ UNCHANGED <<order, stored, retained, dropped, generation, enabled, drawerOpen, seen>>

Next ==
    \/ ClearAll
    \/ \E on \in BOOLEAN : SetEnabled(on) \/ SetDrawer(on)
    \/ \E q \in Queries :
          \/ \E key \in Keys : Start(q, key)
          \/ \E full, summary \in Sizes : Finish(q, full, summary)
          \/ Cancel(q)

Spec == Init /\ [][Next]_vars

-----------------------------------------------------------------------------
(* Properties.                                                             *)

\* Every variable holds a value of its type.
TypeOK ==
    /\ order \in Seq(Keys)
    /\ stored \in [Keys -> Entries \cup {None}] /\ seen \in [Keys -> Entries \cup {None}]
    /\ retained \in Nat /\ dropped \in 0..MaxDropped
    /\ generation \in 0..MaxGeneration
    /\ enabled \in BOOLEAN /\ drawerOpen \in BOOLEAN
    /\ query \in [Queries -> [key : Keys, generation : 0..MaxGeneration, stale : BOOLEAN] \cup {None}]

\* The byte counter that decides evictions is the sum of what is kept, through
\* updates, drops, evictions and clears.
BytesAccurate ==
    /\ {k \in Keys : stored[k] # None} = ToSet(order)
    /\ IsInjective(order)
    /\ retained = BytesOf(stored, ToSet(order))

\* "limits": what is kept, by a counter that never drifts, exceeds neither limit.
WithinLimits == BytesAccurate /\ Len(order) <= MaxEntries /\ retained <= MaxBytes

\* Clearing or disabling the inspector removes the recordings for good: a query
\* that was under way does not bring one back.
ClearedForGood == \A k \in ToSet(order) : enabled /\ ~stored[k].stale

\* A page never shows evidence the store has evicted, dropped, replaced or cleared.
PagesUpToDate == seen = stored

Recorded(k) ==
    /\ stored'[k] # None /\ order' # order
    /\ \E q \in Queries : query[q] # None /\ query[q].key = k /\ query'[q] = None

=============================================================================
