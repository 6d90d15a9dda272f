----------------------------- MODULE SdkQueryProofs -----------------------------
(***************************************************************************)
(* Proofs about SdkQuery, for any sessions, queries, error chains, calls   *)
(* per entry, writes and clears: what pages cache of a write, what the     *)
(* inspector tells of an entry, and the silence of retired sessions.       *)
(***************************************************************************)
EXTENDS SdkQuery, TLAPS

Chains == Errors \cup {NoError}
Verdicts == {"verified", "not-verified", "failed", "unavailable"}
Outcomes == [at : Nat \cup {None}, error : Chains, capture : Chains, generation : Nat,
             verdict : Verdicts]
Lasts == [outcome : Outcomes, shown : BOOLEAN]
CacheEntries ==
    [data : Nat \cup {None}, by : Nat, joined : BOOLEAN, invalid : BOOLEAN,
     error : Chains, last : Lasts \cup {None}]
Calls ==
    [stage : {"proof", "plain", "waiting"}, since : Nat, generation : Nat, retried : BOOLEAN,
     dropped : BOOLEAN, joined : BOOLEAN, capture : Chains]

\* Every variable holds a value of its type; a write is confirmed once it is executed.
Typed ==
    /\ sdk \in Sessions \cup {0} /\ shownSdk \in Sessions \cup {0}
    /\ aborted \subseteq Sessions /\ observed \subseteq Keys
    /\ entry \in [Entries -> CacheEntries]
    /\ call \in [Sessions -> [Keys -> [Slots -> Calls \cup {None}]]]
    /\ world \in Nat /\ confirmed \in Nat /\ confirmed <= world
    /\ inspector \in [enabled : BOOLEAN, generation : Nat]
    /\ evidence \in [Entries -> Outcomes \cup {None}]

\* Pages render the provider's SDK, or one that was retired.
SdkCurrent ==
    /\ sdk # 0 => sdk \notin aborted
    /\ shownSdk # 0 /\ shownSdk \notin aborted => shownSdk = sdk

\* The capture of a proof that failed as a proof.
Unmasked(chain) ==
    ~Seen(chain, {"mismatch", "verification", "proof-kind", "missing-quorum", "proof-unavailable"})

\* The answer of a call that was not dropped still counts.
Running(s, k, n) == call[s][k][n] # None /\ ~call[s][k][n].dropped

\* An entry has one running call at most, for a mounted page of the session rendered; it
\* was made after the last confirmed write, or joined by its invalidation; and evidence
\* of the entry is of the call's generation, or was cleared since.
RunningCalls ==
    \A s \in Sessions, k \in Keys, n \in Slots : Running(s, k, n) =>
        /\ s = shownSdk /\ s \notin aborted /\ k \in observed
        /\ \A m \in Slots : Running(s, k, m) => m = n
        /\ call[s][k][n].joined \/ confirmed <= call[s][k][n].since
        /\ call[s][k][n].generation = inspector.generation \/ evidence[<<s, k>>] = None
        /\ Unmasked(call[s][k][n].capture)

\* Evidence is of the inspector's generation, and of the latest attempt.
EvidenceKept ==
    \A e \in Entries : evidence[e] # None =>
        /\ inspector.enabled
        /\ evidence[e].generation = inspector.generation
        /\ entry[e].last # None => evidence[e] = entry[e].last.outcome

\* What an attempt was told, and what the entry shows of it.
Told ==
    \A e \in Entries : entry[e].last # None =>
        LET outcome == entry[e].last.outcome IN
        /\ Unmasked(outcome.capture)
        /\ outcome.verdict = EvidenceVerdict(outcome.error = NoError, e[2] \in ProofKeys,
                                             outcome.error)
        /\ entry[e].last.shown => entry[e].error = outcome.error

QueryInv == Typed /\ SdkCurrent /\ RunningCalls /\ EvidenceKept /\ Told /\ FreshAfterWrite

USE DEF feedVars

\* The query function falls back to the ordinary method only where no proof failed.
LEMMA FallbackUnmasked ==
  ASSUME NEW e, FallsBack(e)
  PROVE  Unmasked(e)
  BY DEF FallsBack, FallbackBlocked, Classify, Seen, ClassSignals, Unmasked

\* Before any call, there is nothing to mask.
LEMMA NothingUnmasked == Unmasked(NoError)
  BY DEF Unmasked, Seen, NoError

\* Null is no session.
LEMMA NumberedFromOne == \A s \in Sessions : s \in Nat /\ s # 0
  BY DEF Sessions

LEMMA InitInv == Init => QueryInv
<1> SUFFICES ASSUME Init PROVE QueryInv
  OBVIOUS
<1> USE QueryAssumption DEF QueryAssumption, Init, FeedInit
<1>1. Typed
  BY DEF Typed, CacheEntries, EmptyEntry, Chains, NoError
<1>2. SdkCurrent /\ RunningCalls
  BY DEF SdkCurrent, RunningCalls, Running
<1>3. EvidenceKept /\ Told /\ FreshAfterWrite
  BY DEF EvidenceKept, Told, FreshAfterWrite, EmptyEntry
<1> QED BY <1>1, <1>2, <1>3 DEF QueryInv

\* What the invariant says of one running call.
LEMMA OfRunning ==
  ASSUME QueryInv, NEW t \in Sessions, NEW j \in Keys, NEW m \in Slots, Running(t, j, m)
  PROVE  /\ t = shownSdk /\ t \notin aborted /\ j \in observed
         /\ \A p \in Slots : Running(t, j, p) => p = m
         /\ call[t][j][m].joined \/ confirmed <= call[t][j][m].since
         /\ call[t][j][m].generation = inspector.generation \/ evidence[<<t, j>>] = None
         /\ Unmasked(call[t][j][m].capture)
  BY DEF QueryInv, RunningCalls

\* A page opens.
LEMMA MountStep ==
  ASSUME QueryInv, NEW k \in Keys, Mount(k)
  PROVE  QueryInv'
<1>1. /\ observed' = observed \cup {k}
      /\ UNCHANGED <<feedVars, entry, call, world, confirmed, inspector, evidence, banner>>
  BY DEF Mount
<1>2. Typed' /\ SdkCurrent'
  BY <1>1 DEF QueryInv, Typed, SdkCurrent
<1>3. RunningCalls'
  BY <1>1 DEF QueryInv, RunningCalls, Running
<1>4. EvidenceKept' /\ Told' /\ FreshAfterWrite'
  BY <1>1 DEF QueryInv, EvidenceKept, Told, FreshAfterWrite
<1> QED BY <1>2, <1>3, <1>4 DEF QueryInv

\* The calls of an entry whose fetch is cancelled, and made again where `restart`.
LEMMA RestartedCalls ==
  ASSUME QueryInv, NEW s \in Sessions, NEW k \in Keys, NEW restart \in BOOLEAN
  PROVE  /\ Restarted(s, k, restart) \in [Slots -> Calls \cup {None}]
         /\ \A n \in Slots :
               Restarted(s, k, restart)[n] # None /\ ~Restarted(s, k, restart)[n].dropped =>
                  /\ restart /\ n = CHOOSE m \in Free(s, k) : TRUE
                  /\ Restarted(s, k, restart)[n].since = world
                  /\ Restarted(s, k, restart)[n].generation = inspector.generation
                  /\ Restarted(s, k, restart)[n].capture = NoError
<1> DEFINE after == Restarted(s, k, restart)
<1>1. NewCall(k, FALSE) \in Calls
  BY DEF NewCall, FirstStage, Calls, Chains, QueryInv, Typed
<1>2. \A n \in Slots : call[s][k][n] \in Calls \cup {None}
  BY DEF QueryInv, Typed
<1>3. \A c \in Calls : Dropped(c) \in Calls /\ Dropped(c).dropped
  BY DEF Dropped, Calls, Chains
<1>4. \A n \in Slots : after[n] =
         IF n \in Live(s, k) THEN Dropped(call[s][k][n])
         ELSE IF restart /\ n = CHOOSE m \in Free(s, k) : TRUE THEN NewCall(k, FALSE)
         ELSE call[s][k][n]
  BY DEF Restarted
<1>5. \A n \in Live(s, k) : call[s][k][n] \in Calls
  BY <1>2 DEF Live
<1>6. after \in [Slots -> Calls \cup {None}]
  BY <1>1, <1>2, <1>3, <1>4, <1>5 DEF Restarted
<1>7. \A n \in Slots : n \notin Live(s, k) => call[s][k][n] = None \/ call[s][k][n].dropped
  BY DEF Live
<1>8. ASSUME NEW n \in Slots, after[n] # None, ~after[n].dropped
      PROVE  restart /\ n = (CHOOSE m \in Free(s, k) : TRUE) /\ after[n] = NewCall(k, FALSE)
  BY <1>3, <1>4, <1>5, <1>7, <1>8
<1> QED BY <1>6, <1>8 DEF NewCall

\* The calls of an entry whose fetch is cancelled: none of them counts.
LEMMA CancelledCalls ==
  ASSUME QueryInv, NEW s \in Sessions, NEW k \in Keys
  PROVE  /\ Cancelled(s, k) \in [Slots -> Calls \cup {None}]
         /\ \A n \in Slots : Cancelled(s, k)[n] = None \/ Cancelled(s, k)[n].dropped
<1>1. FALSE \in BOOLEAN
  OBVIOUS
<1>2. /\ Restarted(s, k, FALSE) \in [Slots -> Calls \cup {None}]
      /\ \A n \in Slots :
            ~(Restarted(s, k, FALSE)[n] # None /\ ~Restarted(s, k, FALSE)[n].dropped)
  BY <1>1, RestartedCalls, Zenon
<1> QED BY <1>2 DEF Cancelled

\* The calls of an entry that is fetched again: the new one alone counts.
LEMMA RefetchedCalls ==
  ASSUME QueryInv, NEW s \in Sessions, NEW k \in Keys
  PROVE  /\ Restarted(s, k, TRUE) \in [Slots -> Calls \cup {None}]
         /\ \A n \in Slots :
               Restarted(s, k, TRUE)[n] # None /\ ~Restarted(s, k, TRUE)[n].dropped =>
                  /\ n = CHOOSE m \in Free(s, k) : TRUE
                  /\ Restarted(s, k, TRUE)[n].since = world
                  /\ Restarted(s, k, TRUE)[n].generation = inspector.generation
                  /\ Restarted(s, k, TRUE)[n].capture = NoError
<1>1. TRUE \in BOOLEAN
  OBVIOUS
<1> QED BY <1>1, RestartedCalls, ZenonT(30)

\* A page fetches what it renders.
LEMMA FetchStep ==
  ASSUME QueryInv, NEW k \in Keys, Fetch(k)
  PROVE  QueryInv'
<1> DEFINE s == shownSdk
<1>1. /\ k \in observed /\ s # 0 /\ s \notin aborted /\ ~Fetching(s, k) /\ Free(s, k) # {}
      /\ call' = [call EXCEPT ![s][k] = Restarted(s, k, TRUE)]
      /\ UNCHANGED <<feedVars, observed, entry, world, confirmed, inspector, evidence, banner>>
  BY DEF Fetch, Ready
<1>2. s \in Sessions
  BY <1>1 DEF QueryInv, Typed
<1>3. PICK after : after = Restarted(s, k, TRUE)
  OBVIOUS
<1>4. /\ after \in [Slots -> Calls \cup {None}]
      /\ \A n \in Slots : after[n] # None /\ ~after[n].dropped =>
            /\ n = CHOOSE m \in Free(s, k) : TRUE
            /\ after[n].since = world /\ after[n].generation = inspector.generation
            /\ after[n].capture = NoError
  BY <1>2, <1>3, RefetchedCalls
<1>5. call \in [Sessions -> [Keys -> [Slots -> Calls \cup {None}]]]
  BY DEF QueryInv, Typed
<1>6. /\ call' \in [Sessions -> [Keys -> [Slots -> Calls \cup {None}]]]
      /\ call'[s][k] = after
      /\ \A t \in Sessions, j \in Keys : t # s \/ j # k => call'[t][j] = call[t][j]
  BY <1>1, <1>2, <1>3, <1>4, <1>5
<1>7. Typed' /\ SdkCurrent'
  BY <1>1, <1>6 DEF QueryInv, Typed, SdkCurrent
<1>8. RunningCalls'
  <2> SUFFICES ASSUME NEW t \in Sessions, NEW j \in Keys, NEW n \in Slots, Running(t, j, n)'
      PROVE  /\ t = shownSdk' /\ t \notin aborted' /\ j \in observed'
             /\ \A m \in Slots : Running(t, j, m)' => m = n
             /\ call'[t][j][n].joined \/ confirmed' <= call'[t][j][n].since
             /\ call'[t][j][n].generation = inspector'.generation \/ evidence'[<<t, j>>] = None
             /\ Unmasked(call'[t][j][n].capture)
    BY DEF RunningCalls
  <2>1. CASE t = s /\ j = k
    <3>1. \A m \in Slots : Running(t, j, m)' => after[m] # None /\ ~after[m].dropped
      BY <1>6, <2>1 DEF Running
    <3>2. /\ after[n].since = world /\ after[n].generation = inspector.generation
          /\ after[n].capture = NoError
          /\ \A m \in Slots : Running(t, j, m)' => m = n
      BY <1>4, <3>1
    <3>3. confirmed <= world
      BY DEF QueryInv, Typed
    <3> QED BY <1>1, <1>6, <2>1, <3>2, <3>3, NothingUnmasked
  <2>2. CASE t # s \/ j # k
    <3>1. call'[t][j] = call[t][j] /\ Running(t, j, n)
      BY <1>6, <2>2 DEF Running
    <3>2. \A m \in Slots : Running(t, j, m)' => Running(t, j, m)
      BY <3>1 DEF Running
    <3> QED BY <1>1, <3>1, <3>2 DEF QueryInv, RunningCalls
  <2> QED BY <2>1, <2>2
<1>9. EvidenceKept' /\ Told' /\ FreshAfterWrite'
  BY <1>1 DEF QueryInv, EvidenceKept, Told, FreshAfterWrite
<1> QED BY <1>7, <1>8, <1>9 DEF QueryInv

\* A page is left: nothing of its entry runs any more.
LEMMA UnmountStep ==
  ASSUME QueryInv, NEW k \in Keys, Unmount(k)
  PROVE  QueryInv'
<1> DEFINE s == shownSdk
<1>1. /\ observed' = observed \ {k}
      /\ call' = IF s = 0 THEN call ELSE [call EXCEPT ![s][k] = Cancelled(s, k)]
      /\ UNCHANGED <<feedVars, entry, world, confirmed, inspector, evidence, banner>>
  BY DEF Unmount
<1>2. call \in [Sessions -> [Keys -> [Slots -> Calls \cup {None}]]]
  BY DEF QueryInv, Typed
<1>3. /\ call' \in [Sessions -> [Keys -> [Slots -> Calls \cup {None}]]]
      /\ \A n \in Slots, t \in Sessions : ~Running(t, k, n)'
      /\ \A t \in Sessions, j \in Keys : j # k => call'[t][j] = call[t][j]
  <2>1. CASE s = 0
    BY <1>1, <1>2, <2>1, NumberedFromOne DEF QueryInv, RunningCalls, Running
  <2>2. CASE s # 0
    <3>1. s \in Sessions
      BY <2>2 DEF QueryInv, Typed
    <3>2. PICK after : after = Cancelled(s, k)
      OBVIOUS
    <3>3. /\ after \in [Slots -> Calls \cup {None}]
          /\ \A n \in Slots : after[n] = None \/ after[n].dropped
      BY <3>1, <3>2, CancelledCalls
    <3>4. call' = [call EXCEPT ![s][k] = after]
      BY <1>1, <2>2, <3>2
    <3>5. /\ call' \in [Sessions -> [Keys -> [Slots -> Calls \cup {None}]]]
          /\ call'[s][k] = after
          /\ \A t \in Sessions, j \in Keys : t # s \/ j # k => call'[t][j] = call[t][j]
      BY <1>2, <3>1, <3>3, <3>4
    <3>6. \A n \in Slots, t \in Sessions : ~Running(t, k, n)'
      <4>1. \A n \in Slots, t \in Sessions : t # s => ~Running(t, k, n)
        BY DEF QueryInv, RunningCalls
      <4> QED BY <3>3, <3>5, <4>1 DEF Running
    <3> QED BY <3>5, <3>6
  <2> QED BY <2>1, <2>2
<1>4. Typed' /\ SdkCurrent'
  BY <1>1, <1>3 DEF QueryInv, Typed, SdkCurrent
<1>5. RunningCalls'
  <2>1. \A t \in Sessions, j \in Keys, n \in Slots :
           Running(t, j, n)' => j # k /\ Running(t, j, n) /\ call'[t][j] = call[t][j]
    BY <1>3 DEF Running
  <2> QED BY <1>1, <2>1, <1>3 DEF QueryInv, RunningCalls, Running
<1>6. EvidenceKept' /\ Told' /\ FreshAfterWrite'
  BY <1>1 DEF QueryInv, EvidenceKept, Told, FreshAfterWrite
<1> QED BY <1>4, <1>5, <1>6 DEF QueryInv

\* A dropped call answers.
LEMMA LateAnswerStep ==
  ASSUME QueryInv, NEW s \in Sessions, NEW k \in Keys, NEW n \in Slots, LateAnswer(s, k, n)
  PROVE  QueryInv'
<1>1. /\ call' = [call EXCEPT ![s][k][n] = None]
      /\ UNCHANGED <<feedVars, observed, entry, world, confirmed, inspector, evidence, banner>>
  BY DEF LateAnswer, Gone
<1>2. call \in [Sessions -> [Keys -> [Slots -> Calls \cup {None}]]]
  BY DEF QueryInv, Typed
<1>3. /\ call' \in [Sessions -> [Keys -> [Slots -> Calls \cup {None}]]]
      /\ \A t \in Sessions, j \in Keys, m \in Slots :
            call'[t][j][m] = IF t = s /\ j = k /\ m = n THEN None ELSE call[t][j][m]
  BY <1>1, <1>2
<1>4. Typed' /\ SdkCurrent'
  BY <1>1, <1>3 DEF QueryInv, Typed, SdkCurrent
<1>5. RunningCalls'
  BY <1>1, <1>3 DEF QueryInv, RunningCalls, Running
<1>6. EvidenceKept' /\ Told' /\ FreshAfterWrite'
  BY <1>1 DEF QueryInv, EvidenceKept, Told, FreshAfterWrite
<1> QED BY <1>4, <1>5, <1>6 DEF QueryInv

\* The provider publishes, retires or renders an SDK: the calls of what it retires are
\* dropped at once.
LEMMA SessionStepInv ==
  ASSUME QueryInv, SessionStep
  PROVE  QueryInv'
<1>1. /\ call' = [s \in Sessions |-> [k \in Keys |->
                    IF s \in aborted' \ aborted THEN Cancelled(s, k) ELSE call[s][k]]]
      /\ entry' = [e \in Entries |-> IF shownSdk' \notin {0, shownSdk} /\ e[1] \in aborted
                                     THEN EmptyEntry ELSE entry[e]]
      /\ UNCHANGED <<observed, world, confirmed, inspector, evidence>>
  BY DEF SessionStep, AbortedCalls
<1>2. /\ sdk' \in Sessions \cup {0} /\ shownSdk' \in Sessions \cup {0}
      /\ aborted' \subseteq Sessions /\ aborted \subseteq aborted'
      /\ SdkCurrent'
      /\ \A s \in Sessions : s = shownSdk /\ s \notin aborted /\ s \notin aborted' \ aborted
                                => s = shownSdk' /\ s \notin aborted'
  <2> USE NumberedFromOne DEF QueryInv, Typed, SdkCurrent
  <2>1. CASE \E i \in Sessions : PublishSdk(i)
    BY <2>1 DEF PublishSdk
  <2>2. CASE RetireSdk({})
    BY <2>2 DEF RetireSdk
  <2>3. CASE ReplaceProvider({})
    BY <2>3 DEF ReplaceProvider
  <2>4. CASE RenderSdk
    BY <2>4 DEF RenderSdk
  <2> QED BY <2>1, <2>2, <2>3, <2>4 DEF SessionStep, ProviderStep
<1>3. \A s \in Sessions, k \in Keys :
         /\ Cancelled(s, k) \in [Slots -> Calls \cup {None}]
         /\ \A n \in Slots : Cancelled(s, k)[n] = None \/ Cancelled(s, k)[n].dropped
  BY CancelledCalls
<1>4. Typed'
  <2>1. call' \in [Sessions -> [Keys -> [Slots -> Calls \cup {None}]]]
    BY <1>1, <1>3 DEF QueryInv, Typed
  <2>2. EmptyEntry \in CacheEntries
    BY DEF EmptyEntry, CacheEntries, Chains
  <2>3. entry' \in [Entries -> CacheEntries]
    BY <1>1, <2>2 DEF QueryInv, Typed
  <2> QED BY <1>1, <1>2, <2>1, <2>3 DEF QueryInv, Typed
<1>5. RunningCalls'
  <2>1. ASSUME NEW s \in Sessions, NEW k \in Keys, NEW n \in Slots, Running(s, k, n)'
        PROVE  /\ s \notin aborted' \ aborted /\ Running(s, k, n)
               /\ call'[s][k] = call[s][k]
    <3>1. call'[s][k] = IF s \in aborted' \ aborted THEN Cancelled(s, k) ELSE call[s][k]
      BY <1>1
    <3>2. s \notin aborted' \ aborted
      BY <1>3, <2>1, <3>1 DEF Running
    <3> QED BY <2>1, <3>1, <3>2 DEF Running
  <2> QED BY <1>1, <1>2, <2>1 DEF QueryInv, RunningCalls
<1>6. EvidenceKept' /\ Told' /\ FreshAfterWrite'
  <2>1. \A e \in Entries : entry'[e] = entry[e] \/ entry'[e] = EmptyEntry
    BY <1>1
  <2>2. EmptyEntry.last = None /\ EmptyEntry.data = None
    BY DEF EmptyEntry
  <2>3. EvidenceKept'
    BY <1>1, <2>1, <2>2 DEF QueryInv, EvidenceKept
  <2>4. Told'
    BY <2>1, <2>2 DEF QueryInv, Told
  <2>5. FreshAfterWrite'
    BY <1>1, <2>1, <2>2 DEF QueryInv, FreshAfterWrite
  <2> QED BY <2>3, <2>4, <2>5
<1> QED BY <1>2, <1>4, <1>5, <1>6 DEF QueryInv

\* What is recorded of a running call's outcome: its entry's evidence, unless the store
\* was cleared since, and then there is none.
LEMMA RecordedEvidence ==
  ASSUME QueryInv, NEW s \in Sessions, NEW k \in Keys, NEW n \in Slots, Running(s, k, n),
         NEW outcome \in Outcomes, outcome.generation = call[s][k][n].generation,
         Record(s, k, n, outcome)
  PROVE  /\ evidence' \in [Entries -> Outcomes \cup {None}]
         /\ \A e \in Entries : e # <<s, k>> => evidence'[e] = evidence[e]
         /\ \/ evidence'[<<s, k>>] = None
            \/ /\ inspector.enabled
               /\ evidence'[<<s, k>>] = outcome
               /\ outcome.generation = inspector.generation
<1>1. evidence \in [Entries -> Outcomes \cup {None}] /\ <<s, k>> \in Entries
  BY DEF QueryInv, Typed, Entries
<1>2. CASE inspector.enabled /\ inspector.generation = call[s][k][n].generation
  <2>1. evidence' = [evidence EXCEPT ![<<s, k>>] = outcome]
    BY <1>2 DEF Record, SdkQueryKey
  <2> QED BY <1>1, <1>2, <2>1
<1>3. CASE ~(inspector.enabled /\ inspector.generation = call[s][k][n].generation)
  <2>1. evidence' = evidence
    BY <1>3 DEF Record
  <2>2. evidence[<<s, k>>] = None
    BY <1>1, <1>3 DEF QueryInv, RunningCalls, EvidenceKept
  <2> QED BY <1>1, <2>1, <2>2
<1> QED BY <1>2, <1>3

\* An outcome, by its verdict.
LEMMA OutcomeOf ==
  ASSUME QueryInv, NEW k \in Keys, NEW at \in Nat \cup {None}, NEW error \in Chains,
         NEW c \in Calls
  PROVE  /\ Outcome(k, at, error, c) \in Outcomes
         /\ Outcome(k, at, error, c).generation = c.generation
         /\ Outcome(k, at, error, c).capture = c.capture
         /\ Outcome(k, at, error, c).error = error
         /\ Outcome(k, at, error, c).verdict =
               EvidenceVerdict(error = NoError, k \in ProofKeys, error)
<1>1. EvidenceVerdict(error = NoError, k \in ProofKeys, error) \in Verdicts
  BY DEF EvidenceVerdict, Verdicts
<1> QED BY <1>1 DEF Outcome, Outcomes, Calls

\* An SDK call answers.
LEMMA AnswerStep ==
  ASSUME QueryInv, NEW s \in Sessions, NEW k \in Keys, NEW n \in Slots, Answer(s, k, n)
  PROVE  QueryInv'
<1> DEFINE c == call[s][k][n]
           key == <<s, k>>
<1>1. /\ c # None /\ ~c.dropped /\ s \notin aborted
      /\ call' = [call EXCEPT ![s][k][n] = None]
      /\ UNCHANGED <<feedVars, observed, world, confirmed, inspector>>
  BY DEF Answer, Active, Gone
<1>2. PICK at \in c.since..world :
         /\ Record(s, k, n, Outcome(k, at, NoError, c))
         /\ entry' = [entry EXCEPT ![key] =
               [data |-> at, by |-> s, joined |-> c.joined, invalid |-> FALSE,
                error |-> NoError, last |-> [outcome |-> Outcome(k, at, NoError, c),
                                             shown |-> TRUE]]]
  BY DEF Answer, SdkQueryKey
<1>3. /\ call \in [Sessions -> [Keys -> [Slots -> Calls \cup {None}]]]
      /\ entry \in [Entries -> CacheEntries] /\ key \in Entries
      /\ c \in Calls /\ Running(s, k, n)
  BY <1>1 DEF QueryInv, Typed, Entries, Running
<1>4. /\ c.since \in Nat /\ at \in Nat /\ c.since <= at /\ at <= world
      /\ c.joined \in BOOLEAN /\ Unmasked(c.capture) /\ NoError \in Chains
      /\ c.joined \/ confirmed <= c.since
  BY <1>3 DEF QueryInv, Typed, RunningCalls, Calls, Chains
<1>5. PICK outcome \in Outcomes : outcome = Outcome(k, at, NoError, c)
  BY <1>3, <1>4, OutcomeOf
<1>6. /\ outcome.generation = c.generation /\ outcome.capture = c.capture
      /\ outcome.error = NoError
      /\ outcome.verdict = EvidenceVerdict(outcome.error = NoError, k \in ProofKeys,
                                           outcome.error)
  BY <1>3, <1>4, <1>5, OutcomeOf
<1>7. /\ evidence' \in [Entries -> Outcomes \cup {None}]
      /\ \A e \in Entries : e # key => evidence'[e] = evidence[e]
      /\ \/ evidence'[key] = None
         \/ /\ inspector.enabled
            /\ evidence'[key] = outcome
            /\ outcome.generation = inspector.generation
  BY <1>2, <1>3, <1>5, <1>6, RecordedEvidence
<1>8. PICK new \in CacheEntries :
         /\ entry' = [entry EXCEPT ![key] = new]
         /\ new.data = at /\ new.joined = c.joined /\ new.error = NoError
         /\ new.last = [outcome |-> outcome, shown |-> TRUE]
  <2>1. [outcome |-> outcome, shown |-> TRUE] \in Lasts
    BY DEF Lasts
  <2> DEFINE answered == [data |-> at, by |-> s, joined |-> c.joined, invalid |-> FALSE,
                          error |-> NoError, last |-> [outcome |-> outcome, shown |-> TRUE]]
  <2>2. entry' = [entry EXCEPT ![key] = answered]
    BY <1>2, <1>5
  <2>3. answered \in CacheEntries
    BY <1>4, <2>1, NumberedFromOne DEF CacheEntries
  <2>4. /\ answered.data = at /\ answered.joined = c.joined /\ answered.error = NoError
        /\ answered.last = [outcome |-> outcome, shown |-> TRUE]
    OBVIOUS
  <2> HIDE DEF answered
  <2> QED BY <2>2, <2>3, <2>4
<1>9. /\ entry' \in [Entries -> CacheEntries] /\ entry'[key] = new
      /\ \A e \in Entries : e # key => entry'[e] = entry[e]
  BY <1>3, <1>8
<1>10. /\ call' \in [Sessions -> [Keys -> [Slots -> Calls \cup {None}]]]
       /\ \A t \in Sessions, j \in Keys, m \in Slots :
             call'[t][j][m] = IF t = s /\ j = k /\ m = n THEN None ELSE call[t][j][m]
  BY <1>1, <1>3
<1>11. Typed' /\ SdkCurrent'
  BY <1>1, <1>7, <1>9, <1>10 DEF QueryInv, Typed, SdkCurrent
<1>12. RunningCalls'
  <2>1. ASSUME NEW t \in Sessions, NEW j \in Keys, NEW m \in Slots, Running(t, j, m)'
        PROVE  /\ Running(t, j, m) /\ call'[t][j][m] = call[t][j][m]
               /\ <<t, j>> # key /\ <<t, j>> \in Entries
    <3>1. call'[t][j][m] = call[t][j][m] /\ Running(t, j, m) /\ ~(t = s /\ j = k /\ m = n)
      BY <1>10, <2>1 DEF Running
    <3>2. ~(t = s /\ j = k)
      BY <1>3, <3>1 DEF QueryInv, RunningCalls
    <3> QED BY <3>1, <3>2 DEF Entries
  <2> QED BY <1>1, <1>7, <2>1 DEF QueryInv, RunningCalls
<1>13. EvidenceKept'
  BY <1>1, <1>7, <1>8, <1>9 DEF QueryInv, EvidenceKept
<1>14. Told'
  <2>1. key[2] = k
    OBVIOUS
  <2> QED BY <1>4, <1>6, <1>8, <1>9, <2>1 DEF QueryInv, Told
<1>15. FreshAfterWrite'
  <2>1. new.joined \/ new.data >= confirmed
    BY <1>4, <1>8 DEF QueryInv, Typed
  <2> QED BY <1>1, <1>9, <2>1 DEF QueryInv, FreshAfterWrite
<1> QED BY <1>11, <1>12, <1>13, <1>14, <1>15 DEF QueryInv

\* The capture of a proof fails for a reason that is no failed proof: the ordinary method
\* is asked.
LEMMA CaptureFailsStep ==
  ASSUME QueryInv, NEW s \in Sessions, NEW k \in Keys, NEW n \in Slots, CaptureFails(s, k, n)
  PROVE  QueryInv'
<1>1. /\ call[s][k][n] # None /\ ~call[s][k][n].dropped
      /\ UNCHANGED <<feedVars, observed, entry, world, confirmed, inspector, evidence, banner>>
  BY DEF CaptureFails, Active
<1>2. PICK e \in Errors :
         /\ FallsBack(e)
         /\ call' = [call EXCEPT ![s][k][n] = [@ EXCEPT !.stage = "plain", !.capture = e]]
  BY DEF CaptureFails
<1>3. call \in [Sessions -> [Keys -> [Slots -> Calls \cup {None}]]] /\ call[s][k][n] \in Calls
  BY <1>1 DEF QueryInv, Typed
<1> DEFINE c == call[s][k][n]
<1>4. PICK new \in Calls :
         /\ call' = [call EXCEPT ![s][k][n] = new]
         /\ new.dropped = c.dropped /\ new.since = c.since /\ new.joined = c.joined
         /\ new.generation = c.generation /\ new.capture = e
  <2> DEFINE asked == [c EXCEPT !.stage = "plain", !.capture = e]
  <2>1. asked \in Calls
    BY <1>3 DEF Calls, Chains
  <2>2. call' = [call EXCEPT ![s][k][n] = asked]
    BY <1>2, <1>3
  <2>3. /\ asked.dropped = c.dropped /\ asked.since = c.since /\ asked.joined = c.joined
        /\ asked.generation = c.generation /\ asked.capture = e
    BY <1>3 DEF Calls
  <2> HIDE DEF asked
  <2> QED BY <2>1, <2>2, <2>3
<1>5. /\ call' \in [Sessions -> [Keys -> [Slots -> Calls \cup {None}]]]
      /\ \A t \in Sessions, j \in Keys, m \in Slots :
            call'[t][j][m] = IF t = s /\ j = k /\ m = n THEN new ELSE call[t][j][m]
  BY <1>3, <1>4
<1>6. Typed' /\ SdkCurrent'
  BY <1>1, <1>5 DEF QueryInv, Typed, SdkCurrent
<1>7. RunningCalls'
  <2>1. \A t \in Sessions, j \in Keys, m \in Slots : Running(t, j, m)' =>
           /\ Running(t, j, m)
           /\ call'[t][j][m].joined = call[t][j][m].joined
           /\ call'[t][j][m].since = call[t][j][m].since
           /\ call'[t][j][m].generation = call[t][j][m].generation
           /\ call'[t][j][m].capture \in {e, call[t][j][m].capture}
    BY <1>1, <1>4, <1>5 DEF Running
  <2>2. Unmasked(e)
    BY <1>2, FallbackUnmasked
  <2> QED BY SMTT(20), <1>1, <2>1, <2>2 DEF QueryInv, RunningCalls
<1>8. EvidenceKept' /\ Told' /\ FreshAfterWrite'
  BY <1>1 DEF QueryInv, EvidenceKept, Told, FreshAfterWrite
<1> QED BY <1>6, <1>7, <1>8 DEF QueryInv

\* An attempt that failed is repeated: the new one answers of what Platform holds now.
LEMMA RetryStep ==
  ASSUME QueryInv, NEW s \in Sessions, NEW k \in Keys, NEW n \in Slots, Retry(s, k, n)
  PROVE  QueryInv'
<1> DEFINE c == call[s][k][n]
           new == [c EXCEPT !.stage = FirstStage(k), !.since = world,
                            !.generation = inspector.generation]
<1>1. /\ c # None /\ ~c.dropped
      /\ call' = [call EXCEPT ![s][k][n] = new]
      /\ UNCHANGED <<feedVars, observed, entry, world, confirmed, inspector, evidence, banner>>
  BY DEF Retry, Active
<1>2. call \in [Sessions -> [Keys -> [Slots -> Calls \cup {None}]]] /\ c \in Calls
  BY <1>1 DEF QueryInv, Typed
<1>3. /\ new \in Calls /\ new.dropped = c.dropped /\ new.since = world
      /\ new.generation = inspector.generation /\ new.capture = c.capture
  BY <1>2 DEF QueryInv, Typed, FirstStage, Calls
<1> HIDE DEF new
<1>4. /\ call' \in [Sessions -> [Keys -> [Slots -> Calls \cup {None}]]]
      /\ \A t \in Sessions, j \in Keys, m \in Slots :
            call'[t][j][m] = IF t = s /\ j = k /\ m = n THEN new ELSE call[t][j][m]
  BY <1>1, <1>2, <1>3
<1>5. Typed' /\ SdkCurrent'
  BY <1>1, <1>4 DEF QueryInv, Typed, SdkCurrent
<1>6. RunningCalls'
  <2>1. \A t \in Sessions, j \in Keys, m \in Slots : Running(t, j, m)' =>
           /\ Running(t, j, m)
           /\ call'[t][j][m].capture = call[t][j][m].capture
           /\ \/ call'[t][j][m] = call[t][j][m]
              \/ /\ call'[t][j][m].since = world
                 /\ call'[t][j][m].generation = inspector.generation
    BY <1>1, <1>3, <1>4 DEF Running
  <2>2. confirmed <= world
    BY DEF QueryInv, Typed
  <2> QED BY SMTT(20), <1>1, <2>1, <2>2 DEF QueryInv, RunningCalls
<1>7. EvidenceKept' /\ Told' /\ FreshAfterWrite'
  BY <1>1 DEF QueryInv, EvidenceKept, Told, FreshAfterWrite
<1> QED BY <1>5, <1>6, <1>7 DEF QueryInv

\* An SDK call fails: the attempt is told of, and the call goes on or is gone.
LEMMA FailStep ==
  ASSUME QueryInv, NEW s \in Sessions, NEW k \in Keys, NEW n \in Slots, Fail(s, k, n)
  PROVE  QueryInv'
<1> DEFINE c == call[s][k][n]
           key == <<s, k>>
<1>1. /\ c # None /\ ~c.dropped /\ s \notin aborted
      /\ UNCHANGED <<feedVars, observed, world, confirmed, inspector>>
  BY DEF Fail, Active
<1>2. PICK e \in Errors :
         /\ Record(s, k, n, Outcome(k, None, e, c))
         /\ IF RetriesOnce(s, k, n, e)
            THEN /\ call' = [call EXCEPT ![s][k][n] =
                               [@ EXCEPT !.stage = "waiting", !.retried = TRUE,
                                         !.capture = NoError]]
                 /\ entry' = [entry EXCEPT ![key].last =
                                 [outcome |-> Outcome(k, None, e, c), shown |-> FALSE]]
            ELSE /\ call' = [call EXCEPT ![s][k][n] = None]
                 /\ entry' = [entry EXCEPT ![key].error = e, ![key].last =
                                 [outcome |-> Outcome(k, None, e, c), shown |-> TRUE]]
  BY DEF Fail, RecordFailure, Gone, SdkQueryKey
<1>3. /\ call \in [Sessions -> [Keys -> [Slots -> Calls \cup {None}]]]
      /\ entry \in [Entries -> CacheEntries] /\ key \in Entries
      /\ c \in Calls /\ Running(s, k, n) /\ e \in Chains
  BY <1>1 DEF QueryInv, Typed, Entries, Running, Chains
<1>4. Unmasked(c.capture) /\ c.generation \in Nat
  BY <1>3 DEF QueryInv, RunningCalls, Calls
<1>5. PICK outcome \in Outcomes : outcome = Outcome(k, None, e, c)
  BY <1>3, OutcomeOf
<1>6. /\ outcome.generation = c.generation /\ outcome.capture = c.capture
      /\ outcome.error = e
      /\ outcome.verdict = EvidenceVerdict(outcome.error = NoError, k \in ProofKeys,
                                           outcome.error)
  BY <1>5 DEF Outcome
<1>7. /\ evidence' \in [Entries -> Outcomes \cup {None}]
      /\ \A f \in Entries : f # key => evidence'[f] = evidence[f]
      /\ \/ evidence'[key] = None
         \/ /\ inspector.enabled
            /\ evidence'[key] = outcome
            /\ outcome.generation = inspector.generation
  BY <1>2, <1>3, <1>5, <1>6, RecordedEvidence
<1>8. PICK new \in CacheEntries :
         /\ entry' = [entry EXCEPT ![key] = new]
         /\ new.data = entry[key].data /\ new.joined = entry[key].joined
         /\ new.invalid = entry[key].invalid
         /\ new.last.outcome = outcome /\ (new.last.shown => new.error = e)
  <2> DEFINE retrying == [entry[key] EXCEPT !.last = [outcome |-> outcome, shown |-> FALSE]]
             failed == [entry[key] EXCEPT !.error = e,
                                          !.last = [outcome |-> outcome, shown |-> TRUE]]
  <2>1. /\ [outcome |-> outcome, shown |-> FALSE] \in Lasts
        /\ [outcome |-> outcome, shown |-> TRUE] \in Lasts
        /\ entry[key] \in CacheEntries
    BY <1>3 DEF Lasts
  <2>2. CASE RetriesOnce(s, k, n, e)
    <3>1. entry' = [entry EXCEPT ![key] = retrying]
      BY <1>2, <1>3, <1>5, <2>2
    <3>2. /\ retrying \in CacheEntries
          /\ retrying.data = entry[key].data /\ retrying.joined = entry[key].joined
          /\ retrying.invalid = entry[key].invalid
          /\ retrying.last.outcome = outcome /\ ~retrying.last.shown
      BY <2>1 DEF CacheEntries
    <3> HIDE DEF retrying
    <3> QED BY <3>1, <3>2
  <2>3. CASE ~RetriesOnce(s, k, n, e)
    <3>1. entry' = [entry EXCEPT ![key] = failed]
      BY <1>2, <1>3, <1>5, <2>3
    <3>2. /\ failed \in CacheEntries
          /\ failed.data = entry[key].data /\ failed.joined = entry[key].joined
          /\ failed.invalid = entry[key].invalid
          /\ failed.last.outcome = outcome /\ failed.error = e
      BY <1>3, <2>1 DEF CacheEntries
    <3> HIDE DEF failed
    <3> QED BY <3>1, <3>2
  <2> QED BY <2>2, <2>3
<1>9. /\ entry' \in [Entries -> CacheEntries] /\ entry'[key] = new
      /\ \A f \in Entries : f # key => entry'[f] = entry[f]
  BY <1>3, <1>8
<1>10. PICK left \in Calls \cup {None} :
          /\ call' = [call EXCEPT ![s][k][n] = left]
          /\ left # None /\ ~left.dropped =>
                /\ left.since = c.since /\ left.joined = c.joined
                /\ left.generation = c.generation /\ left.capture = NoError
  <2> DEFINE waiting == [c EXCEPT !.stage = "waiting", !.retried = TRUE, !.capture = NoError]
  <2>1. CASE RetriesOnce(s, k, n, e)
    <3>1. call' = [call EXCEPT ![s][k][n] = waiting]
      BY <1>2, <1>3, <2>1
    <3>2. /\ waiting \in Calls /\ waiting.since = c.since /\ waiting.joined = c.joined
          /\ waiting.generation = c.generation /\ waiting.capture = NoError
      BY <1>3 DEF Calls, Chains
    <3> HIDE DEF waiting
    <3> QED BY <3>1, <3>2
  <2>2. CASE ~RetriesOnce(s, k, n, e)
    BY <1>2, <2>2
  <2> QED BY <2>1, <2>2
<1>11. /\ call' \in [Sessions -> [Keys -> [Slots -> Calls \cup {None}]]]
       /\ \A t \in Sessions, j \in Keys, m \in Slots :
             call'[t][j][m] = IF t = s /\ j = k /\ m = n THEN left ELSE call[t][j][m]
  BY <1>3, <1>10
<1>12. Typed' /\ SdkCurrent'
  BY <1>1, <1>7, <1>9, <1>11 DEF QueryInv, Typed, SdkCurrent
<1>13. RunningCalls'
  <2>1. ASSUME NEW t \in Sessions, NEW j \in Keys, NEW m \in Slots, Running(t, j, m)'
        PROVE  /\ Running(t, j, m)
               /\ call'[t][j][m].since = call[t][j][m].since
               /\ call'[t][j][m].joined = call[t][j][m].joined
               /\ call'[t][j][m].generation = call[t][j][m].generation
               /\ call'[t][j][m].capture \in {NoError, call[t][j][m].capture}
    BY <1>3, <1>10, <1>11, <2>1 DEF Running
  <2>2. ASSUME NEW t \in Sessions, NEW j \in Keys, NEW m \in Slots, Running(t, j, m)'
        PROVE  call'[t][j][m].generation = inspector.generation \/ evidence'[<<t, j>>] = None
    <3>1. <<t, j>> \in Entries
      BY DEF Entries
    <3>2. CASE <<t, j>> = key
      <4>1. m = n
        BY <1>3, <2>1, <2>2, <3>2 DEF QueryInv, RunningCalls
      <4> QED BY <1>6, <1>7, <2>1, <2>2, <3>2, <4>1
    <3>3. CASE <<t, j>> # key
      <4>1. call[t][j][m].generation = inspector.generation \/ evidence[<<t, j>>] = None
        BY <2>1, <2>2, OfRunning
      <4> QED BY <1>7, <2>1, <2>2, <3>1, <3>3, <4>1
    <3> QED BY <3>2, <3>3
  <2>3. ASSUME NEW t \in Sessions, NEW j \in Keys, NEW m \in Slots, Running(t, j, m)'
        PROVE  /\ t = shownSdk' /\ t \notin aborted' /\ j \in observed'
               /\ \A p \in Slots : Running(t, j, p)' => p = m
               /\ call'[t][j][m].joined \/ confirmed' <= call'[t][j][m].since
               /\ Unmasked(call'[t][j][m].capture)
    <3>1. \A p \in Slots : Running(t, j, p)' => Running(t, j, p)
      BY <2>1
    <3>2. /\ t = shownSdk /\ t \notin aborted /\ j \in observed
          /\ \A p \in Slots : Running(t, j, p) => p = m
          /\ call[t][j][m].joined \/ confirmed <= call[t][j][m].since
          /\ Unmasked(call[t][j][m].capture)
      BY <2>1, <2>3, OfRunning
    <3> QED BY <1>1, <2>1, <2>3, <3>1, <3>2, NothingUnmasked
  <2> QED BY <1>1, <2>2, <2>3 DEF RunningCalls
<1>14. EvidenceKept'
  BY <1>1, <1>7, <1>8, <1>9 DEF QueryInv, EvidenceKept
<1>15. Told'
  <2>1. key[2] = k
    OBVIOUS
  <2> QED BY <1>4, <1>6, <1>8, <1>9, <2>1 DEF QueryInv, Told
<1>16. FreshAfterWrite'
  BY <1>1, <1>3, <1>8, <1>9 DEF QueryInv, FreshAfterWrite
<1> QED BY <1>12, <1>13, <1>14, <1>15, <1>16 DEF QueryInv

\* Platform executes a write.
LEMMA WriteExecutedStep ==
  ASSUME QueryInv, WriteExecuted
  PROVE  QueryInv'
<1>1. /\ world' = world + 1
      /\ UNCHANGED <<feedVars, observed, entry, call, confirmed, inspector, evidence, banner>>
  BY DEF WriteExecuted
<1>2. Typed' /\ SdkCurrent'
  BY <1>1 DEF QueryInv, Typed, SdkCurrent
<1>3. RunningCalls'
  BY <1>1 DEF QueryInv, RunningCalls, Running
<1>4. EvidenceKept' /\ Told' /\ FreshAfterWrite'
  BY <1>1 DEF QueryInv, EvidenceKept, Told, FreshAfterWrite
<1> QED BY <1>2, <1>3, <1>4 DEF QueryInv

\* A confirmed write makes every entry stale; running fetches are repeated or joined.
LEMMA WriteConfirmedStep ==
  ASSUME QueryInv, WriteConfirmed
  PROVE  QueryInv'
<1> DEFINE active == {k \in observed : Ready}
           restarts == {k \in active : \/ ~Fetching(shownSdk, k)
                                       \/ CacheEntry(shownSdk, k).data # None}
           joins == active \ restarts
           joined(s, k) == [n \in Slots |-> IF n \in Live(s, k)
                                            THEN [call[s][k][n] EXCEPT !.joined = TRUE]
                                            ELSE call[s][k][n]]
<1>0. /\ confirmed' = world
      /\ entry' = [e \in Entries |-> [entry[e] EXCEPT !.invalid = TRUE]]
      /\ UNCHANGED <<feedVars, observed, world, inspector, evidence, banner>>
  BY DEF WriteConfirmed, Invalidates
<1>1. call' = [s \in Sessions |-> [k \in Keys |->
                    IF s # shownSdk THEN call[s][k]
                    ELSE IF k \in restarts THEN Restarted(s, k, TRUE)
                    ELSE IF k \in joins THEN joined(s, k)
                    ELSE call[s][k]]]
  BY DEF WriteConfirmed, Invalidates
<1>2. call \in [Sessions -> [Keys -> [Slots -> Calls \cup {None}]]]
  BY DEF QueryInv, Typed
<1>3. \A s \in Sessions, k \in Keys :
         /\ joined(s, k) \in [Slots -> Calls \cup {None}]
         /\ \A n \in Slots : joined(s, k)[n] # None /\ ~joined(s, k)[n].dropped =>
               /\ Running(s, k, n) /\ joined(s, k)[n].joined
               /\ joined(s, k)[n].generation = call[s][k][n].generation
               /\ joined(s, k)[n].capture = call[s][k][n].capture
  <2>1. ASSUME NEW s \in Sessions, NEW k \in Keys, NEW n \in Slots
        PROVE  /\ joined(s, k)[n] \in Calls \cup {None}
               /\ joined(s, k)[n] # None /\ ~joined(s, k)[n].dropped =>
                     /\ Running(s, k, n) /\ joined(s, k)[n].joined
                     /\ joined(s, k)[n].generation = call[s][k][n].generation
                     /\ joined(s, k)[n].capture = call[s][k][n].capture
    <3>1. CASE n \in Live(s, k)
      <4>1. joined(s, k)[n] = [call[s][k][n] EXCEPT !.joined = TRUE]
        BY <3>1
      <4>2. call[s][k][n] \in Calls /\ Running(s, k, n)
        BY <1>2, <3>1 DEF Live, Running
      <4> QED BY <4>1, <4>2 DEF Calls
    <3>2. CASE n \notin Live(s, k)
      BY <1>2, <3>2 DEF Live
    <3> QED BY <3>1, <3>2
  <2>2. ASSUME NEW s \in Sessions, NEW k \in Keys
        PROVE  joined(s, k) \in [Slots -> Calls \cup {None}]
    <3>1. \A n \in Slots : joined(s, k)[n] \in Calls \cup {None}
      BY <2>1
    <3>2. joined(s, k) = [n \in Slots |-> joined(s, k)[n]]
      OBVIOUS
    <3> HIDE DEF joined
    <3> QED BY <3>1, <3>2
  <2> HIDE DEF joined
  <2> QED BY <2>1, <2>2
<1> HIDE DEF joined
<1>4. Typed'
  <2>1. call' \in [Sessions -> [Keys -> [Slots -> Calls \cup {None}]]]
    <3>1. \A s \in Sessions, k \in Keys :
             Restarted(s, k, TRUE) \in [Slots -> Calls \cup {None}]
      BY RefetchedCalls
    <3> HIDE DEF restarts, joins
    <3> QED BY <1>1, <1>2, <1>3, <3>1
  <2>2. entry' \in [Entries -> CacheEntries]
    <3>1. \A x \in CacheEntries : [x EXCEPT !.invalid = TRUE] \in CacheEntries
      BY DEF CacheEntries
    <3>2. entry \in [Entries -> CacheEntries]
      BY DEF QueryInv, Typed
    <3> QED BY <1>0, <3>1, <3>2
  <2> QED BY <1>0, <2>1, <2>2 DEF QueryInv, Typed
<1>5. SdkCurrent'
  BY <1>0 DEF QueryInv, SdkCurrent
<1>6. RunningCalls'
  <2> SUFFICES ASSUME NEW s \in Sessions, NEW k \in Keys, NEW n \in Slots, Running(s, k, n)'
      PROVE  /\ s = shownSdk' /\ s \notin aborted' /\ k \in observed'
             /\ \A m \in Slots : Running(s, k, m)' => m = n
             /\ call'[s][k][n].joined \/ confirmed' <= call'[s][k][n].since
             /\ call'[s][k][n].generation = inspector'.generation \/ evidence'[<<s, k>>] = None
             /\ Unmasked(call'[s][k][n].capture)
    BY DEF RunningCalls
  <2>1. CASE s = shownSdk /\ k \in restarts
    <3>1. call'[s][k] = Restarted(s, k, TRUE)
      BY <1>1, <2>1
    <3>2. \A m \in Slots : Running(s, k, m)' =>
             /\ m = CHOOSE p \in Free(s, k) : TRUE
             /\ call'[s][k][m].since = world
             /\ call'[s][k][m].generation = inspector.generation
             /\ call'[s][k][m].capture = NoError
      <4>1. \A m \in Slots : Running(s, k, m)' <=>
               Restarted(s, k, TRUE)[m] # None /\ ~Restarted(s, k, TRUE)[m].dropped
        BY <3>1 DEF Running
      <4>2. \A m \in Slots :
               Restarted(s, k, TRUE)[m] # None /\ ~Restarted(s, k, TRUE)[m].dropped =>
                  /\ m = CHOOSE p \in Free(s, k) : TRUE
                  /\ Restarted(s, k, TRUE)[m].since = world
                  /\ Restarted(s, k, TRUE)[m].generation = inspector.generation
                  /\ Restarted(s, k, TRUE)[m].capture = NoError
        BY RefetchedCalls
      <4> QED BY <3>1, <4>1, <4>2
    <3>3. s \notin aborted /\ k \in observed
      BY <2>1 DEF Ready
    <3>4. /\ \A m \in Slots : Running(s, k, m)' => m = n
          /\ call'[s][k][n].since = world
          /\ call'[s][k][n].generation = inspector.generation
          /\ call'[s][k][n].capture = NoError
      BY <3>2
    <3>5. confirmed' <= call'[s][k][n].since
      <4>1. confirmed' = world /\ world \in Nat
        BY <1>0 DEF QueryInv, Typed
      <4> QED BY <3>4, <4>1
    <3> QED BY <1>0, <2>1, <3>3, <3>4, <3>5, NothingUnmasked
  <2>2. CASE s = shownSdk /\ k \in joins
    <3>1. call'[s][k] = joined(s, k)
      BY <1>1, <2>2
    <3>2. \A m \in Slots : Running(s, k, m)' =>
             /\ Running(s, k, m) /\ call'[s][k][m].joined
             /\ call'[s][k][m].generation = call[s][k][m].generation
             /\ call'[s][k][m].capture = call[s][k][m].capture
      BY <1>3, <3>1 DEF Running
    <3> QED BY <1>0, <3>2 DEF QueryInv, RunningCalls
  <2>3. CASE s # shownSdk \/ k \notin active
    <3>1. call'[s][k] = call[s][k]
      BY <1>1, <2>3
    <3>2. Running(s, k, n)
      BY <3>1 DEF Running
    <3>3. s = shownSdk /\ s \notin aborted /\ k \in observed
      BY <3>2 DEF QueryInv, RunningCalls
    <3>4. k \in active
      BY <3>3, NumberedFromOne DEF Ready
    <3> QED BY <2>3, <3>3, <3>4
  <2> QED BY <2>1, <2>2, <2>3
<1>7. EvidenceKept' /\ Told' /\ FreshAfterWrite'
  <2>1. \A e \in Entries :
           /\ entry'[e].last = entry[e].last /\ entry'[e].error = entry[e].error
           /\ entry'[e].invalid
    <3>1. \A x \in CacheEntries : /\ [x EXCEPT !.invalid = TRUE].last = x.last
                                  /\ [x EXCEPT !.invalid = TRUE].error = x.error
                                  /\ [x EXCEPT !.invalid = TRUE].invalid
      BY DEF CacheEntries
    <3>2. entry \in [Entries -> CacheEntries]
      BY DEF QueryInv, Typed
    <3> QED BY <1>0, <3>1, <3>2
  <2>2. EvidenceKept'
    BY <1>0, <2>1 DEF QueryInv, EvidenceKept
  <2>3. Told'
    BY <2>1 DEF QueryInv, Told
  <2>4. FreshAfterWrite'
    BY <2>1 DEF FreshAfterWrite
  <2> QED BY <2>2, <2>3, <2>4
<1> QED BY <1>4, <1>5, <1>6, <1>7 DEF QueryInv

\* The inspector is cleared: answers of calls made before leave no evidence.
LEMMA ClearStep ==
  ASSUME QueryInv, NEW on \in BOOLEAN, Clear(on)
  PROVE  QueryInv'
<1>1. /\ inspector' = [enabled |-> on, generation |-> inspector.generation + 1]
      /\ evidence' = [e \in Entries |-> None]
      /\ UNCHANGED <<feedVars, observed, entry, call, world, confirmed, banner>>
  BY DEF Clear
<1>2. Typed' /\ SdkCurrent'
  BY <1>1 DEF QueryInv, Typed, SdkCurrent
<1>3. \A s \in Sessions, k \in Keys : evidence'[<<s, k>>] = None
  BY <1>1 DEF Entries
<1>4. RunningCalls'
  BY <1>1, <1>3 DEF QueryInv, RunningCalls, Running
<1>5. EvidenceKept' /\ Told' /\ FreshAfterWrite'
  BY <1>1 DEF QueryInv, EvidenceKept, Told, FreshAfterWrite
<1> QED BY <1>2, <1>4, <1>5 DEF QueryInv

\* The inspector is enabled: it holds nothing yet.
LEMMA EnableStep ==
  ASSUME QueryInv, Enable
  PROVE  QueryInv'
<1>1. /\ inspector' = [inspector EXCEPT !.enabled = TRUE]
      /\ UNCHANGED <<feedVars, observed, entry, call, world, confirmed, evidence, banner>>
  BY DEF Enable
<1>2. /\ inspector' \in [enabled : BOOLEAN, generation : Nat]
      /\ inspector'.enabled /\ inspector'.generation = inspector.generation
  BY <1>1 DEF QueryInv, Typed
<1>3. Typed' /\ SdkCurrent'
  BY <1>1, <1>2 DEF QueryInv, Typed, SdkCurrent
<1>4. RunningCalls'
  BY <1>1, <1>2 DEF QueryInv, RunningCalls, Running
<1>5. EvidenceKept' /\ Told' /\ FreshAfterWrite'
  BY <1>1, <1>2 DEF QueryInv, EvidenceKept, Told, FreshAfterWrite
<1> QED BY <1>3, <1>4, <1>5 DEF QueryInv

\* Every step keeps the invariant.
LEMMA NextInv == QueryInv /\ [Next]_vars => QueryInv'
<1> SUFFICES ASSUME QueryInv, [Next]_vars PROVE QueryInv'
  OBVIOUS
<1>1. CASE SessionStep
  BY <1>1, SessionStepInv
<1>2. ASSUME NEW k \in Keys, Mount(k) \/ Unmount(k) \/ Fetch(k) PROVE QueryInv'
  BY <1>2, MountStep, UnmountStep, FetchStep
<1>3. ASSUME NEW s \in Sessions, NEW k \in Keys, NEW n \in Slots, CallStep(s, k, n)
      PROVE  QueryInv'
  BY <1>3, LateAnswerStep, AnswerStep, CaptureFailsStep, FailStep, RetryStep DEF CallStep
<1>4. CASE WriteExecuted \/ WriteConfirmed \/ Enable
  BY <1>4, WriteExecutedStep, WriteConfirmedStep, EnableStep
<1>5. ASSUME NEW on \in BOOLEAN, Clear(on) PROVE QueryInv'
  BY <1>5, ClearStep
<1>6. CASE UNCHANGED vars
  <2>1. /\ UNCHANGED <<sdk, shownSdk, aborted, observed, entry, call, world, confirmed,
                       inspector, evidence>>
    BY <1>6 DEF vars, queryVars
  <2>2. Typed' /\ SdkCurrent'
    BY <2>1 DEF QueryInv, Typed, SdkCurrent
  <2>3. RunningCalls'
    BY <2>1 DEF QueryInv, RunningCalls, Running
  <2>4. EvidenceKept' /\ Told' /\ FreshAfterWrite'
    BY <2>1 DEF QueryInv, EvidenceKept, Told, FreshAfterWrite
  <2> QED BY <2>2, <2>3, <2>4 DEF QueryInv
<1> QED BY <1>1, <1>2, <1>3, <1>4, <1>5, <1>6 DEF Next

\* The invariant holds.
THEOREM QueryInvariant == Spec => []QueryInv
BY InitInv, NextInv, PTL DEF Spec

-----------------------------------------------------------------------------
(* What the runs check.                                                    *)

\* Once a write is confirmed no page trusts what it read before it, unless React Query
\* joined the load that was under way (invalidateNetworkQueries).
THEOREM PagesAreFreshAfterWrite == Spec => []FreshAfterWrite
<1>1. QueryInv => FreshAfterWrite
  BY DEF QueryInv
<1> QED BY <1>1, QueryInvariant, PTL

\* The inspector tells of an entry what its latest attempt was told, of its own generation,
\* and the page's glyph agrees with it (recordSdkQueryEvidence, classifyProof).
THEOREM EvidenceIsOfLatest == Spec => []EvidenceOfLatest
<1>1. ASSUME QueryInv PROVE EvidenceOfLatest
  <2> SUFFICES ASSUME NEW s \in Sessions, NEW k \in Keys,
                      evidence[<<s, k>>] # None, entry[<<s, k>>].last # None
      PROVE  LET last == entry[<<s, k>>].last
                 shown == ProofState(Status(s, k), k \in ProofKeys, entry[<<s, k>>].error)
             IN /\ evidence[<<s, k>>] = last.outcome
                /\ evidence[<<s, k>>].generation = inspector.generation
                /\ last.shown /\ Status(s, k) # "pending" =>
                      /\ shown = "verified" <=> last.outcome.verdict = "verified"
                      /\ shown = "failed" <=> last.outcome.verdict = "failed"
    BY DEF EvidenceOfLatest
  <2> DEFINE last == entry[<<s, k>>].last
             error == entry[<<s, k>>].error
  <2>1. <<s, k>> \in Entries /\ <<s, k>>[2] = k
    BY DEF Entries
  <2>2. /\ evidence[<<s, k>>] = last.outcome
        /\ evidence[<<s, k>>].generation = inspector.generation
    BY <1>1, <2>1 DEF QueryInv, EvidenceKept
  <2>3. ASSUME last.shown, Status(s, k) # "pending"
        PROVE  /\ ProofState(Status(s, k), k \in ProofKeys, error) = "verified"
                     <=> last.outcome.verdict = "verified"
               /\ ProofState(Status(s, k), k \in ProofKeys, error) = "failed"
                     <=> last.outcome.verdict = "failed"
    <3>1. last.outcome.verdict = EvidenceVerdict(error = NoError, k \in ProofKeys, error)
      BY <1>1, <2>1, <2>3 DEF QueryInv, Told
    <3>2. Status(s, k) = IF error # NoError THEN "error" ELSE "success"
      BY <2>3 DEF Status, CacheEntry, SdkQueryKey
    <3>3. CASE error # NoError
      BY <3>1, <3>2, <3>3 DEF ProofState, EvidenceVerdict
    <3>4. CASE error = NoError
      BY <3>1, <3>2, <3>4 DEF ProofState, EvidenceVerdict
    <3> QED BY <3>3, <3>4
  <2> QED BY <2>2, <2>3
<1> QED BY <1>1, QueryInvariant, PTL

\* No answer and no error follows the capture of a proof that failed as a proof
\* (isProofFallbackBlocked): it is not masked by asking again without capturing it.
THEOREM VerificationIsNotMasked == Spec => []NoVerificationMasked
<1>1. QueryInv => NoVerificationMasked
  BY DEF QueryInv, Told, NoVerificationMasked, Unmasked
<1> QED BY <1>1, QueryInvariant, PTL

\* Once a session is retired nothing of it is cached or recorded any more, nor its failure
\* shown (assertActive, the session check of reportUnreachable).
THEOREM RetiredSessionsAreSilent == Spec => RetiredSessionsSilent
<1> DEFINE Silent == \A s \in aborted :
                        /\ banner' = s => banner = s
                        /\ \A k \in Keys :
                              /\ evidence'[SdkQueryKey(s, k)] \in
                                    {None, evidence[SdkQueryKey(s, k)]}
                              /\ entry'[SdkQueryKey(s, k)].last \in
                                    {None, CacheEntry(s, k).last}
<1>1. ASSUME QueryInv, Next PROVE Silent
  <2> SUFFICES ASSUME NEW s \in aborted
      PROVE  /\ banner' = s => banner = s
             /\ \A k \in Keys : /\ evidence'[<<s, k>>] \in {None, evidence[<<s, k>>]}
                                /\ entry'[<<s, k>>].last \in {None, entry[<<s, k>>].last}
    BY DEF SdkQueryKey, CacheEntry
  <2>0. /\ s \in Sessions /\ s # 0 /\ \A k \in Keys : <<s, k>> \in Entries
        /\ evidence \in [Entries -> Outcomes \cup {None}]
        /\ entry \in [Entries -> CacheEntries]
        /\ sdk # 0 => sdk \notin aborted
    BY <1>1, NumberedFromOne DEF QueryInv, Typed, SdkCurrent, Entries
  <2>1. CASE UNCHANGED <<entry, evidence, banner>>
    BY <2>1
  <2>2. CASE SessionStep
    <3>1. /\ entry' = [e \in Entries |-> IF shownSdk' \notin {0, shownSdk} /\ e[1] \in aborted
                                         THEN EmptyEntry ELSE entry[e]]
          /\ banner' \in {0, banner} /\ evidence' = evidence
      BY <2>2 DEF SessionStep
    <3>2. \A e \in Entries : entry'[e].last \in {None, entry[e].last}
      BY <3>1 DEF EmptyEntry
    <3> QED BY <2>0, <3>1, <3>2
  <2>3. ASSUME NEW t \in Sessions, NEW k \in Keys, NEW n \in Slots,
               Answer(t, k, n) \/ Fail(t, k, n)
        PROVE  /\ banner' = s => banner = s
               /\ \A j \in Keys : /\ evidence'[<<s, j>>] = evidence[<<s, j>>]
                                  /\ entry'[<<s, j>>] = entry[<<s, j>>]
    <3>1. t \notin aborted /\ t # s
      BY <2>3 DEF Answer, Fail, Active
    <3>2. banner' \in {0, banner} \/ banner' = t
      BY <2>3 DEF Answer, Fail, ReportFailure, Report
    <3>3. \A j \in Keys : <<t, k>> # <<s, j>>
      BY <3>1
    <3>4. \A j \in Keys : evidence'[<<s, j>>] = evidence[<<s, j>>]
      BY <2>0, <2>3, <3>3 DEF Answer, Fail, RecordFailure, Record, SdkQueryKey
    <3>5. \A j \in Keys : entry'[<<s, j>>] = entry[<<s, j>>]
      BY <2>0, <2>3, <3>3 DEF Answer, Fail, SdkQueryKey
    <3> QED BY <2>0, <3>1, <3>2, <3>4, <3>5
  <2>4. CASE WriteConfirmed
    <3>1. /\ entry' = [e \in Entries |-> [entry[e] EXCEPT !.invalid = TRUE]]
          /\ UNCHANGED <<evidence, banner>>
      BY <2>4 DEF WriteConfirmed, Invalidates
    <3>2. \A x \in CacheEntries : [x EXCEPT !.invalid = TRUE].last = x.last
      BY DEF CacheEntries
    <3> QED BY <2>0, <3>1, <3>2
  <2>5. ASSUME NEW on \in BOOLEAN, Clear(on)
        PROVE  /\ UNCHANGED <<entry, banner>>
               /\ \A j \in Keys : evidence'[<<s, j>>] = None
    BY <2>0, <2>5 DEF Clear
  <2>6. ASSUME NEW t \in Sessions, NEW k \in Keys, NEW n \in Slots, CallStep(t, k, n),
               ~(Answer(t, k, n) \/ Fail(t, k, n))
        PROVE  UNCHANGED <<entry, evidence, banner>>
    BY <2>6 DEF CallStep, LateAnswer, CaptureFails, Retry
  <2>7. ASSUME NEW k \in Keys, Mount(k) \/ Unmount(k) \/ Fetch(k)
        PROVE  UNCHANGED <<entry, evidence, banner>>
    BY <2>7 DEF Mount, Unmount, Fetch
  <2>8. CASE WriteExecuted \/ Enable
    BY <2>8 DEF WriteExecuted, Enable
  <2> QED BY <1>1, <2>1, <2>2, <2>3, <2>4, <2>5, <2>6, <2>7, <2>8 DEF Next
<1>2. QueryInv /\ [Next]_vars => [Silent]_vars
  BY <1>1
<1> QED BY <1>2, QueryInvariant, PTL DEF Spec, RetiredSessionsSilent

\* However many causes wrap a failed verification, and whatever the other links say: it is
\* neither retried, nor answered by the ordinary method, nor told as an outage; and no
\* error is both retried and taken for a definite answer (classifySdkError).
THEOREM WrappingHidesNoMismatch ==
  ASSUME NEW chain
  PROVE  /\ Classify(chain) \in Classes
         /\ Seen(chain, {"mismatch"}) =>
               /\ ~Retryable(chain) /\ FallbackBlocked(chain)
               /\ EvidenceVerdict(FALSE, TRUE, chain) = "failed"
               /\ ProofState("error", TRUE, chain) = "failed"
         /\ ~(Retryable(chain) /\ FallbackBlocked(chain))
<1>1. Classify(chain) \in Classes
  BY DEF Classify, Classes
<1>2. Seen(chain, {"mismatch"}) => Classify(chain) = "verification"
  BY DEF Classify
<1> QED BY <1>1, <1>2 DEF Retryable, FallbackBlocked, EvidenceVerdict, ProofState
=============================================================================
