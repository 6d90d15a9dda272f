-------------------------------- MODULE MCLive --------------------------------
(***************************************************************************)
(* Small instances, for TLC, of what must come to an end: the switch to a    *)
(* new build ("worker", with the module's own constants), the reads of a page *)
(* ("queries") and prefetches ("prefetch").  They share no state: a behaviour *)
(* is of one of them, and the others stay in their initial states, where     *)
(* nothing that their fairness is about can happen.                          *)
(***************************************************************************)
EXTENDS ServiceWorker, TLC

CONSTANTS t1, k1, k2, k3

VARIABLES part,
  qSdk, qShownSdk, qAborted, qObserved, qEntry, qCall, qWorld, qConfirmed, qInspector,
  qEvidence, qBanner,
  fSessionId, fReady, fActive, fStarted, fTimer, fQuery

OneTab == {t1}

queryVars == <<qSdk, qShownSdk, qAborted, qObserved, qEntry, qCall, qWorld, qConfirmed,
  qInspector, qEvidence, qBanner>>
prefetchVars == <<fSessionId, fReady, fActive, fStarted, fTimer, fQuery>>

\* One query with a proof; a proof that fails to verify inside an outage, and an outage of
\* every endpoint.
Q == INSTANCE SdkQuery WITH
       MaxSessions <- 1, Keys <- {k1}, ProofKeys <- {k1},
       Errors <- {<<{"transport"}, {"verification"}>>, <<{"all-endpoints"}>>},
       MaxCalls <- 2, MaxEvents <- 1,
       sdk <- qSdk, shownSdk <- qShownSdk, aborted <- qAborted, observed <- qObserved,
       entry <- qEntry, call <- qCall, world <- qWorld, confirmed <- qConfirmed,
       inspector <- qInspector, evidence <- qEvidence, banner <- qBanner

F == INSTANCE Prefetch WITH
       Keys <- {k1, k2}, MaxActive <- 1, MaxSessions <- 2,
       sessionId <- fSessionId, ready <- fReady, active <- fActive, started <- fStarted,
       timer <- fTimer, query <- fQuery

MCInit ==
  /\ part \in {"worker", "queries", "prefetch"} /\ Init /\ Q!Init /\ F!Init
  /\ fReady => part = "prefetch"

WorkerNext == part = "worker" /\ Next /\ UNCHANGED <<part, queryVars, prefetchVars>>
QueryNext == part = "queries" /\ Q!Next /\ UNCHANGED <<part, vars, prefetchVars>>
PrefetchNext == part = "prefetch" /\ F!Next /\ UNCHANGED <<part, vars, queryVars>>

MCSpec ==
  /\ MCInit /\ [][WorkerNext \/ QueryNext \/ PrefetchNext]_<<part, vars, queryVars, prefetchVars>>
  /\ Fairness /\ Q!Fairness /\ F!Fairness

\* SdkQuery: a page of a ready session does not stay pending.
PagesSettle == Q!PagesSettle

\* Prefetch: no slot is lost.
SlotsFreed == F!SlotsFreed

=============================================================================
