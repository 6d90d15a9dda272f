------------------------------ MODULE Prefetch ------------------------------
(***************************************************************************)
(* Prefetching what a hovered link shows (hooks/usePrefetch.ts) and the    *)
(* host that renders one query per active prefetch until it settles        *)
(* (components/layout/PrefetchHost.tsx).  A prefetch is named by its key   *)
(* alone, "started" by session and key; the session may change meanwhile.  *)
(***************************************************************************)
EXTENDS Integers, FiniteSets

CONSTANTS Keys,         \* prefetchKey of the links on the page
          MaxActive,    \* MAX_ACTIVE_PREFETCHES
          MaxSessions   \* bound: sessions of the tab

VARIABLES
    sessionId, \* useSdk(): the published session
    ready,     \* useSdk(): status = "ready"
    active,    \* keys of the prefetches under way
    started,   \* sessions and keys a prefetch was queued for
    timer,     \* timer[k]: the session a hover of k was scheduled in, or 0
    query      \* query[k]: its query in this session

vars == <<sessionId, ready, active, started, timer, query>>

Init ==
  /\ sessionId = 1 /\ ready \in BOOLEAN
  /\ active = {} /\ started = {}
  /\ timer = [k \in Keys |-> 0] /\ query = [k \in Keys |-> "none"]

-----------------------------------------------------------------------------
(* The link: 150 ms of hover or keyboard focus. *)

Schedule(k) ==
  /\ ready
  /\ timer' = [timer EXCEPT ![k] = sessionId]
  /\ UNCHANGED <<sessionId, ready, active, started, query>>

Cancel(k) ==
  /\ timer[k] # 0
  /\ timer' = [timer EXCEPT ![k] = 0]
  /\ UNCHANGED <<sessionId, ready, active, started, query>>

\* The mounted query fetches unless its result is cached or it is disabled.
Mounted(k) == IF ready /\ query[k] \in {"none", "failed"} THEN "fetching"
              ELSE query[k]

\* requestPrefetch: skipped when started in that session, active, or at the cap.
Admitted(k, s) == <<s, k>> \notin started /\ k \notin active
                  /\ Cardinality(active) < MaxActive

RequestPrefetch(k) ==
  /\ timer[k] # 0
  /\ timer' = [timer EXCEPT ![k] = 0]
  /\ IF Admitted(k, timer[k])
     THEN /\ started' = started \cup {<<timer[k], k>>}
          /\ active' = active \cup {k}
          /\ query' = [query EXCEPT ![k] = Mounted(k)]
     ELSE UNCHANGED <<started, active, query>>
  /\ UNCHANGED <<sessionId, ready>>

-----------------------------------------------------------------------------
(* PrefetchHost. *)

FinishPrefetch(k) == active' = active \ {k}

\* The effect that runs once fetchStatus is idle: settled, cached or disabled.
Settled(k) ==
  /\ k \in active /\ query[k] # "fetching"
  /\ FinishPrefetch(k)
  /\ UNCHANGED <<sessionId, ready, started, timer, query>>

\* Mistake: the timer only ends a prefetch of the session it was queued in.
BugEndsOwnSession(k) == k \in active /\ <<sessionId, k>> \in started
\* The timer of a mounted prefetch; leaving aborts what it was fetching.
MayRelease(k) == k \in active

TimesOut(k) ==
  /\ MayRelease(k)
  /\ FinishPrefetch(k)
  /\ query' = [query EXCEPT ![k] = IF @ = "fetching" THEN "none" ELSE @]
  /\ UNCHANGED <<sessionId, ready, started, timer>>

-----------------------------------------------------------------------------
(* The SDK, which may also never answer. *)

Answers(k) ==
  /\ query[k] = "fetching"
  /\ \E result \in {"cached", "failed"} : query' = [query EXCEPT ![k] = result]
  /\ UNCHANGED <<sessionId, ready, active, started, timer>>

\* Every query key holds the session, so the queries of a new one are unknown;
\* what is mounted is disabled until it is ready, then fetches.
SessionChanges ==
  \/ /\ sessionId < MaxSessions
     /\ sessionId' = sessionId + 1
     /\ ready' = FALSE
     /\ query' = [k \in Keys |-> "none"]
     /\ UNCHANGED <<active, started, timer>>
  \/ /\ ~ready /\ ready' = TRUE
     /\ query' = [k \in Keys |-> IF k \in active THEN "fetching" ELSE "none"]
     /\ UNCHANGED <<sessionId, active, started, timer>>

Next ==
  \/ SessionChanges
  \/ \E k \in Keys :
       \/ Schedule(k) \/ Cancel(k) \/ RequestPrefetch(k)
       \/ Settled(k) \/ TimesOut(k) \/ Answers(k)

Spec == Init /\ [][Next]_vars

-----------------------------------------------------------------------------
\* The browser fires the 30 s timer of every mounted prefetch.
Fairness == \A k \in Keys : WF_vars(TimesOut(k))

\* A slot is never lost: every prefetch is released, whatever session it was
\* queued in, which session its query runs in by then, and whether the SDK
\* ever answers it.
SlotsFreed == \A k \in Keys : k \in active ~> k \notin active

=============================================================================
