-------------------------------- MODULE SdkQuery --------------------------------
(***************************************************************************)
(* Queries of Platform: useSdkQuery in src/sdk/hooks.ts, which ties a        *)
(* React Query entry to one SDK session, and useSdkQuery in                  *)
(* src/sdk/queries.ts, which captures proofs and records evidence.           *)
(*                                                                         *)
(* The session comes from SessionFeed.  React Query is external: an entry    *)
(* runs one fetch at a time; cancelling one leaves the SDK call running,     *)
(* whose answer the code must then drop.  An invalidation restarts the fetch  *)
(* of an entry that has data and joins the fetch of one that has none.       *)
(*                                                                         *)
(* Before them, what the explorer makes of a failed SDK call:                *)
(* src/sdk/errors.ts and the verdicts of src/sdk/proofs.ts.  An error is the *)
(* chain of its causes, outermost first.  What the regular expressions and   *)
(* kind tables of the source recognise in one link is that link's set of     *)
(* signals; wording is left out.                                            *)
(***************************************************************************)
EXTENDS SessionFeed, Sequences, FiniteSets, SequencesExt

CONSTANTS
    Keys,        \* queries, without their session
    ProofKeys,   \* those whose SDK method has a `...WithProof` sibling
    Errors,      \* the error chains SDK calls may fail with
    MaxCalls,    \* bound: SDK calls of one entry that are not answered yet
    MaxEvents,   \* bound: writes by this page, and times the inspector is cleared
    None

ASSUME QueryAssumption ==
    /\ ProofKeys \subseteq Keys
    /\ MaxCalls \in Nat \ {0} /\ MaxEvents \in Nat
    /\ None \notin Nat

VARIABLES
    observed,  \* keys of mounted pages
    entry,     \* the cache: entry[s, k] is the entry of key k in session s
    call,      \* call[s][k][n]: SDK calls of that entry's fetches, the dropped ones too
    world,     \* writes Platform has executed
    confirmed, \* those whose confirmation invalidated the cache
    inspector, \* the proof store: enabled, and its generation
    evidence,  \* what it holds of each entry
    banner     \* the session reported unreachable, or 0

queryVars == <<observed, entry, call, world, confirmed, inspector, evidence, banner>>
vars == <<feedVars, queryVars>>

-----------------------------------------------------------------------------
(* Errors.                                                                 *)

\* One per message expression, and one per table of kinds ("kind" suffix).
\* "absent" is a kind that names the absent entity, "not-found-kind" another
\* one of NOT_FOUND_KINDS; a link may carry several.
Signals == {"mismatch", "missing-quorum", "proof-unavailable", "verification",
            "proof-kind", "absent", "not-found-kind", "timeout", "transport",
            "all-endpoints", "invalid-kind"}

Classes == {"not-found", "timeout", "transport", "missing-quorum",
            "proof-unavailable", "verification", "invalid-request", "unknown"}

-----------------------------------------------------------------------------
(* classifySdkError                                                        *)

\* A message that names every endpoint as failed is a transport message too.
ClassSignals ==
    [missingQuorum |-> {"missing-quorum"}, proofUnavailable |-> {"proof-unavailable"},
     verification |-> {"verification", "proof-kind"},
     notFound |-> {"absent", "not-found-kind"}, timeout |-> {"timeout"},
     transport |-> {"transport", "all-endpoints"}, invalid |-> {"invalid-kind"}]

Seen(chain, signals) == \E i \in 1..Len(chain) : chain[i] \cap signals # {}

Classify(chain) ==
    IF Seen(chain, {"mismatch"}) THEN "verification"
    ELSE IF Seen(chain, ClassSignals.missingQuorum) THEN "missing-quorum"
    ELSE IF Seen(chain, ClassSignals.proofUnavailable) THEN "proof-unavailable"
    ELSE IF Seen(chain, ClassSignals.verification) THEN "verification"
    ELSE IF Seen(chain, ClassSignals.notFound) THEN "not-found"
    ELSE IF Seen(chain, ClassSignals.timeout) THEN "timeout"
    ELSE IF Seen(chain, ClassSignals.transport) THEN "transport"
    ELSE IF Seen(chain, ClassSignals.invalid) THEN "invalid-request"
    ELSE "unknown"

\* isAbsentEntityError, isAllEndpointsFailure
AbsentEntity(chain) == Classify(chain) = "not-found" /\ Seen(chain, {"absent"})
AllEndpointsFailed(chain) == Seen(chain, {"all-endpoints"})

\* isRetryableSdkError; shouldRetrySdkQuery asks it for the first failure only.
Retryable(chain) == Classify(chain) \in {"timeout", "transport", "unknown"}

\* isProofFallbackBlocked
FallbackBlocked(chain) ==
    Classify(chain) \in {"verification", "proof-unavailable", "missing-quorum", "not-found"}

-----------------------------------------------------------------------------
(* proofs.ts                                                               *)

ProofKinds == {"verified", "unverified-in-flight", "unverified-no-variant", "failed",
               "unavailable", "unknown"}

\* verificationForResponse: what the evidence of one response says.  Every session
\* is trusted.
EvidenceVerdict(succeeded, hasProofVariant, chain) ==
    IF succeeded THEN IF hasProofVariant THEN "verified" ELSE "not-verified"
    ELSE IF Classify(chain) = "verification" THEN "failed" ELSE "unavailable"

\* classifyProof: what a page says of the query it shows.
ProofState(status, hasProofVariant, chain) ==
    IF status = "error"
    THEN IF Classify(chain) = "verification" THEN "failed" ELSE "unavailable"
    ELSE IF ~hasProofVariant THEN "unverified-no-variant"
    ELSE IF status = "success" THEN "verified"
    ELSE IF status = "pending" THEN "unverified-in-flight" ELSE "unknown"

\* aggregateProof: the first of the worst.
Severity(kind) ==
    CASE kind = "failed" -> 50 [] kind = "unavailable" -> 40
      [] kind = "unverified-in-flight" -> 30 [] kind = "unverified-no-variant" -> 10
      [] kind = "unknown" -> 5 [] kind = "verified" -> 0

AggregateProof(kinds) ==
    IF kinds = <<>> THEN "unknown"
    ELSE FoldLeft(LAMBDA worst, kind : IF Severity(kind) > Severity(worst) THEN kind ELSE worst,
                  kinds[1], Tail(kinds))

-----------------------------------------------------------------------------
(* What the explorer relies on, for every error of up to two links with up to two *)
(* signals each, and for a page of up to three queries.                    *)

SmallChains ==
    BoundedSeq({signals \in SUBSET Signals : Cardinality(signals) <= 2}, 2)

\* Wrapping hides no failed verification: whatever signals the other links of the chain
\* carry, it is neither retried, nor answered by the ordinary method, nor told as an outage.
\* Nor is any other error both retried and taken for a definite answer.
ASSUME VerificationNotMasked ==
    \A chain \in SmallChains :
        /\ Classify(chain) \in Classes
        /\ Seen(chain, {"mismatch"}) =>
              /\ ~Retryable(chain) /\ FallbackBlocked(chain)
              /\ EvidenceVerdict(FALSE, TRUE, chain) = "failed"
              /\ ProofState("error", TRUE, chain) = "failed"
        /\ ~(Retryable(chain) /\ FallbackBlocked(chain))

\* A page of several queries is verified only if each of them is, and failed as soon as
\* one of them is.
ASSUME AggregateTellsTheWorst ==
    \A kinds \in BoundedSeq(ProofKinds, 3) :
        /\ AggregateProof(kinds) \in ProofKinds
        /\ AggregateProof(kinds) = "verified" <=> kinds # <<>> /\ ToSet(kinds) = {"verified"}
        /\ AggregateProof(kinds) = "failed" <=> "failed" \in ToSet(kinds)

-----------------------------------------------------------------------------
(* The cache.                                                              *)

Slots == 1..MaxCalls
Entries == Sessions \X Keys
NoError == <<>>

\* `by` and `joined` are history: the session whose SDK answered, and whether an
\* invalidation joined the fetch that answered.  `last` is history too: the outcome
\* of the latest attempt, and whether the entry shows it.
EmptyEntry ==
    [data |-> None, by |-> 0, joined |-> FALSE, invalid |-> FALSE, error |-> NoError,
     last |-> None]

Init ==
    /\ FeedInit
    /\ observed = {}
    /\ entry = [e \in Entries |-> EmptyEntry]
    /\ call = [s \in Sessions |-> [k \in Keys |-> [n \in Slots |-> None]]]
    /\ world = 0 /\ confirmed = 0
    /\ inspector = [enabled |-> TRUE, generation |-> 0]
    /\ evidence = [e \in Entries |-> None]
    /\ banner = 0

-----------------------------------------------------------------------------
(* Keys and readiness.                                                     *)

\* getSdkQueryKey: [npe, network, trusted, session, ...key]; a session has one
\* network.
SdkQueryKey(s, k) == <<s, k>>
CacheEntry(s, k) == entry[SdkQueryKey(s, k)]

\* status === 'ready' && !!sdk && !sessionSignal?.aborted
Ready == shownSdk # 0 /\ shownSdk \notin aborted

Live(s, k) == {n \in Slots : call[s][k][n] # None /\ ~call[s][k][n].dropped}
Fetching(s, k) == Live(s, k) # {}
Free(s, k) == {n \in Slots : call[s][k][n] = None}

\* An entry without data is pending while it is fetched; a fetch that is cancelled
\* gives it back the error it had.
Status(s, k) ==
    IF CacheEntry(s, k).data = None /\ Fetching(s, k) THEN "pending"
    ELSE IF CacheEntry(s, k).error # NoError THEN "error"
    ELSE IF CacheEntry(s, k).data # None THEN "success" ELSE "pending"

\* shouldUseProofTransport, with the inspector enabled.
FirstStage(k) == IF inspector.enabled /\ k \in ProofKeys THEN "proof" ELSE "plain"

NewCall(k, joined) ==
    [stage |-> FirstStage(k), since |-> world, generation |-> inspector.generation,
     retried |-> FALSE, dropped |-> FALSE, joined |-> joined, capture |-> NoError]

\* Of a fetch that was cancelled only the SDK's answer is still to come.
Dropped(c) == [c EXCEPT !.dropped = TRUE, !.stage = "plain", !.retried = TRUE,
                        !.joined = FALSE, !.capture = NoError]

\* The entry's calls with its running fetch cancelled and, where `restart`, a new one.
Restarted(s, k, restart) ==
    [n \in Slots |->
        IF n \in Live(s, k) THEN Dropped(call[s][k][n])
        ELSE IF restart /\ n = CHOOSE m \in Free(s, k) : TRUE THEN NewCall(k, FALSE)
        ELSE call[s][k][n]]

Cancelled(s, k) == Restarted(s, k, FALSE)

\* The page renders: an enabled query fetches when it has no data, stale data, or
\* has failed before the page was mounted.  (Data goes stale with time, too.)
Fetch(k) ==
    LET s == shownSdk IN
    /\ k \in observed /\ Ready
    /\ ~Fetching(s, k) /\ Free(s, k) # {}
    /\ call' = [call EXCEPT ![s][k] = Restarted(s, k, TRUE)]
    /\ UNCHANGED <<feedVars, observed, entry, world, confirmed, inspector, evidence, banner>>

Mount(k) ==
    /\ k \notin observed
    /\ observed' = observed \cup {k}
    /\ UNCHANGED <<feedVars, entry, call, world, confirmed, inspector, evidence, banner>>

\* The query function has read React Query's signal, so that an entry nothing
\* observes any more cancels its fetch.
Unmount(k) ==
    /\ k \in observed
    /\ observed' = observed \ {k}
    /\ call' = IF shownSdk = 0 THEN call
               ELSE [call EXCEPT ![shownSdk][k] = Cancelled(shownSdk, k)]
    /\ UNCHANGED <<feedVars, entry, world, confirmed, inspector, evidence, banner>>

-----------------------------------------------------------------------------
(* The session.                                                            *)

\* A step of the provider.  The abort event of a session cancels its queries at
\* once; removeQueries drops what retired sessions cached once a new one renders.
AbortedCalls(s, k) == Cancelled(s, k)

\* Ids are taken in order; an attempt aborted before it published anything only
\* skips one.
ProviderStep ==
    \/ \E i \in Sessions : PublishSdk(i) /\ 1..(i - 1) \subseteq aborted
    \/ RetireSdk({}) \/ ReplaceProvider({}) \/ RenderSdk

SessionStep ==
    /\ ProviderStep
    /\ call' = [s \in Sessions |-> [k \in Keys |->
                   IF s \in aborted' \ aborted THEN AbortedCalls(s, k) ELSE call[s][k]]]
    /\ entry' = [e \in Entries |-> IF shownSdk' \notin {0, shownSdk} /\ e[1] \in aborted
                                   THEN EmptyEntry ELSE entry[e]]
    /\ banner' = IF banner \in aborted' THEN 0 ELSE banner
    /\ UNCHANGED <<observed, world, confirmed, inspector, evidence>>

-----------------------------------------------------------------------------
(* The answers of SDK calls.                                               *)

\* assertActive(): the fetch is cancelled or its session retired.
BugActiveAlways(s, k, n) == TRUE
Active(s, k, n) == ~call[s][k][n].dropped /\ s \notin aborted

\* reportUnreachable(sessionId, ...), which the provider heeds for its session only.
Report(s, unreachable) ==
    banner' = IF s # sdk THEN banner ELSE IF unreachable THEN s ELSE 0

\* record(): of the generation the attempt started with.
BugRecordAnyGeneration(s, k, n, outcome) ==
    evidence' = IF inspector.enabled
                THEN [evidence EXCEPT ![SdkQueryKey(s, k)] = outcome] ELSE evidence
Record(s, k, n, outcome) ==
    evidence' = IF inspector.enabled /\ inspector.generation = call[s][k][n].generation
                THEN [evidence EXCEPT ![SdkQueryKey(s, k)] = outcome] ELSE evidence

Outcome(k, at, error, c) ==
    [at |-> at, error |-> error, capture |-> c.capture, generation |-> c.generation,
     verdict |-> EvidenceVerdict(error = NoError, k \in ProofKeys, error)]

Gone(s, k, n) == call' = [call EXCEPT ![s][k][n] = None]

\* A dropped call answers: nothing may come of it.
LateAnswer(s, k, n) ==
    /\ call[s][k][n] # None /\ ~Active(s, k, n)
    /\ Gone(s, k, n)
    /\ UNCHANGED <<feedVars, observed, entry, world, confirmed, inspector, evidence, banner>>

\* The call answers with what Platform held at some time since it was made; an
\* absence the SDK has proved is an answer, too.
Answer(s, k, n) ==
    /\ call[s][k][n] # None /\ Active(s, k, n) /\ call[s][k][n].stage # "waiting"
    /\ \E at \in call[s][k][n].since..world :
          LET outcome == Outcome(k, at, NoError, call[s][k][n]) IN
          /\ Record(s, k, n, outcome)
          /\ entry' = [entry EXCEPT ![SdkQueryKey(s, k)] =
                [data |-> at, by |-> s, joined |-> call[s][k][n].joined, invalid |-> FALSE,
                 error |-> NoError, last |-> [outcome |-> outcome, shown |-> TRUE]]]
    /\ Report(s, FALSE)
    /\ Gone(s, k, n)
    /\ UNCHANGED <<feedVars, observed, world, confirmed, inspector>>

\* The capture of a proof fails in a way that does not concern the proof: the
\* ordinary method, which verifies as well, is asked.
BugAlwaysFallBack(e) == ~AbsentEntity(e)
FallsBack(e) == ~AbsentEntity(e) /\ ~FallbackBlocked(e)

\* reportUnreachable, of failures that name every endpoint.
ReportFailure(s, e) == IF AllEndpointsFailed(e) THEN Report(s, TRUE) ELSE UNCHANGED banner

\* shouldRetrySdkQuery
BugRetriesForever(s, k, n, e) == Retryable(e)
RetriesOnce(s, k, n, e) == Retryable(e) /\ ~call[s][k][n].retried

CaptureFails(s, k, n) ==
    /\ call[s][k][n] # None /\ Active(s, k, n) /\ call[s][k][n].stage = "proof"
    /\ \E e \in Errors :
          /\ FallsBack(e)
          /\ call' = [call EXCEPT ![s][k][n] = [@ EXCEPT !.stage = "plain", !.capture = e]]
    /\ UNCHANGED <<feedVars, observed, entry, world, confirmed, inspector, evidence, banner>>

\* The attempt fails, is recorded, and is repeated once if that may help.
RecordFailure(s, k, n, outcome) == Record(s, k, n, outcome)

Fail(s, k, n) ==
    /\ call[s][k][n] # None /\ Active(s, k, n) /\ call[s][k][n].stage # "waiting"
    /\ \E e \in Errors :
          LET outcome == Outcome(k, None, e, call[s][k][n])
          IN /\ ~AbsentEntity(e)
             /\ call[s][k][n].stage = "proof" => ~FallsBack(e)
             /\ RecordFailure(s, k, n, outcome)
             /\ ReportFailure(s, e)
             /\ IF RetriesOnce(s, k, n, e)
                THEN /\ call' = [call EXCEPT ![s][k][n] =
                                   [@ EXCEPT !.stage = "waiting", !.retried = TRUE,
                                             !.capture = NoError]]
                     /\ entry' = [entry EXCEPT ![SdkQueryKey(s, k)].last =
                                     [outcome |-> outcome, shown |-> FALSE]]
                ELSE /\ Gone(s, k, n)
                     /\ entry' = [entry EXCEPT ![SdkQueryKey(s, k)].error = e, ![SdkQueryKey(s, k)].last =
                                     [outcome |-> outcome, shown |-> TRUE]]
    /\ UNCHANGED <<feedVars, observed, world, confirmed, inspector>>

Retry(s, k, n) ==
    /\ call[s][k][n] # None /\ Active(s, k, n) /\ call[s][k][n].stage = "waiting"
    /\ call' = [call EXCEPT ![s][k][n] =
                   [@ EXCEPT !.stage = FirstStage(k), !.since = world,
                             !.generation = inspector.generation]]
    /\ UNCHANGED <<feedVars, observed, entry, world, confirmed, inspector, evidence, banner>>

-----------------------------------------------------------------------------
(* Writes, and the inspector.                                              *)

Events == world + inspector.generation

WriteExecuted ==
    /\ Events < MaxEvents
    /\ world' = world + 1
    /\ UNCHANGED <<feedVars, observed, entry, call, confirmed, inspector, evidence, banner>>

\* invalidateNetworkQueries: every entry is stale, those of mounted pages are
\* fetched again.
BugInvalidateIdle(s, k) == ~Fetching(s, k)
Invalidates(s, k) == TRUE

WriteConfirmed ==
    LET active == {k \in observed : Ready}
        restarts == {k \in active : ~Fetching(shownSdk, k) \/ CacheEntry(shownSdk, k).data # None}
        joins == active \ restarts
    IN /\ confirmed < world
       /\ \A k \in restarts : Free(shownSdk, k) # {}
       /\ confirmed' = world
       /\ entry' = [e \in Entries |->
                       [entry[e] EXCEPT !.invalid = @ \/ Invalidates(e[1], e[2])]]
       /\ call' = [s \in Sessions |-> [k \in Keys |->
                      IF s # shownSdk \/ ~Invalidates(s, k) THEN call[s][k]
                      ELSE IF k \in restarts THEN Restarted(s, k, TRUE)
                      ELSE IF k \in joins
                      THEN [n \in Slots |-> IF n \in Live(s, k)
                                            THEN [call[s][k][n] EXCEPT !.joined = TRUE]
                                            ELSE call[s][k][n]]
                      ELSE call[s][k]]]
       /\ UNCHANGED <<feedVars, observed, world, inspector, evidence, banner>>

\* clear(), and setEnabled(false), which clears as well.
Clear(enabled) ==
    /\ Events < MaxEvents
    /\ enabled => inspector.enabled
    /\ inspector' = [enabled |-> enabled, generation |-> inspector.generation + 1]
    /\ evidence' = [e \in Entries |-> None]
    /\ UNCHANGED <<feedVars, observed, entry, call, world, confirmed, banner>>

Enable ==
    /\ ~inspector.enabled
    /\ inspector' = [inspector EXCEPT !.enabled = TRUE]
    /\ UNCHANGED <<feedVars, observed, entry, call, world, confirmed, evidence, banner>>

-----------------------------------------------------------------------------

CallStep(s, k, n) ==
    LateAnswer(s, k, n) \/ Answer(s, k, n) \/ CaptureFails(s, k, n) \/ Fail(s, k, n)
    \/ Retry(s, k, n)

Next ==
    \/ SessionStep
    \/ \E k \in Keys : Mount(k) \/ Unmount(k) \/ Fetch(k)
    \/ \E s \in Sessions, k \in Keys, n \in Slots : CallStep(s, k, n)
    \/ WriteExecuted \/ WriteConfirmed
    \/ \E on \in BOOLEAN : Clear(on)
    \/ Enable

\* Pages fetch what they render without data, and SDK calls end: each DAPI request
\* has its timeout.
Fairness ==
    \A s \in Sessions, k \in Keys :
        /\ WF_vars(Fetch(k) /\ CacheEntry(shownSdk, k).data = None
                            /\ CacheEntry(shownSdk, k).error = NoError)
        /\ \A n \in Slots : WF_vars(CallStep(s, k, n))

Spec == Init /\ [][Next]_vars
FairSpec == Spec /\ Fairness

-----------------------------------------------------------------------------
(* Properties.                                                             *)

\* The answer of an SDK call that could not be aborted comes to nothing: once a session
\* is retired, nothing of it is cached or recorded any more, nor its failure shown.
RetiredSessionsSilent ==
    [][\A s \in aborted :
          /\ banner' = s => banner = s
          /\ \A k \in Keys :
                /\ evidence'[SdkQueryKey(s, k)] \in {None, evidence[SdkQueryKey(s, k)]}
                /\ entry'[SdkQueryKey(s, k)].last \in {None, CacheEntry(s, k).last}]_vars

\* Once a write is confirmed no page trusts what it read before: the entry is stale or
\* as new as the write.  React Query joins an initial load that is under way instead
\* of repeating it; only such a load may keep an older answer.
FreshAfterWrite ==
    \A e \in Entries :
        entry[e].data # None => entry[e].invalid \/ entry[e].data >= confirmed \/ entry[e].joined

\* The inspector tells of an entry what the latest attempt to fetch it was told, through
\* fallbacks, retries, clears and cancelled fetches; a glyph on the page never says
\* verified where the evidence says failed, nor the reverse.
EvidenceOfLatest ==
    \A s \in Sessions, k \in Keys :
        LET last == entry[s, k].last
            shown == ProofState(Status(s, k), k \in ProofKeys, entry[s, k].error)
        IN evidence[s, k] # None /\ last # None =>
              /\ evidence[s, k] = last.outcome
              /\ evidence[s, k].generation = inspector.generation
              /\ last.shown /\ Status(s, k) # "pending" =>
                    /\ shown = "verified" <=> last.outcome.verdict = "verified"
                    /\ shown = "failed" <=> last.outcome.verdict = "failed"

\* proofs.ts: a proof that failed to verify, or could not be checked, is never masked by
\* asking again without capturing it: no answer or error follows such a capture error.
NoVerificationMasked ==
    \A e \in Entries : entry[e].last # None =>
        ~Seen(entry[e].last.outcome.capture,
              {"mismatch", "verification", "proof-kind", "missing-quorum", "proof-unavailable"})

\* A page of a ready session does not stay pending: it gets an answer or an error,
\* unless it is left or the session is retired first.
PagesSettle ==
    \A k \in Keys :
        (k \in observed /\ Ready) ~>
            (k \notin observed \/ ~Ready \/ Status(shownSdk, k) # "pending")

=============================================================================
