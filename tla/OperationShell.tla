---------------------------- MODULE OperationShell ----------------------------
(***************************************************************************)
(* The broadcast console: src/components/broadcast/OperationShell.tsx takes *)
(* one operation from a form through a review to a write, and the executors *)
(* (executors.ts, executors/form-signed.ts, outcomes.ts) carry the write    *)
(* out.  The SDK and the signer come from SignerFeed.                       *)
(*                                                                         *)
(* `shell` is the state the setters queued, `seen` the state React rendered *)
(* last.  Handlers and closures read `seen`; so do isCurrent and the refs   *)
(* it uses, which a render assigns.  A click is rendered, and its effects   *)
(* run, before anything else happens (`sync`).                              *)
(***************************************************************************)
EXTENDS SignerFeed, FiniteSets

CONSTANTS
    Inputs,      \* what a form may hand over
    SigningKeys, \* the signer's keys, best first
    SignsInForm, \* the operation signs with keys from its form
    NeedsAck,    \* it is destructive, or the network is mainnet
    MaxReviews,  \* bound: reviews are numbered from 1
    MaxRefresh,  \* bound: retries of the key check
    MaxOps,      \* bound: operations picked in the same shell
    None

\* What the proofs assume of the constants.
ShellAssumption ==
    /\ SigningKeys \subseteq Nat \ {0} /\ IsFiniteSet(SigningKeys)
    /\ SignsInForm \in BOOLEAN /\ NeedsAck \in BOOLEAN
    /\ MaxSessions \in Nat /\ MaxSigners \in Nat
    /\ MaxReviews \in Nat /\ MaxRefresh \in Nat /\ MaxOps \in Nat \ {0}
    /\ None \notin Inputs /\ None \notin [review : Nat, key : Nat, confirmed : Nat]

VARIABLES
    shell,      \* the shell's state, as queued
    seen,       \* the shell's state, as rendered
    seenCurrent,\* reviewIsCurrent, as rendered
    op,         \* the descriptor rendered
    inFlight,   \* inFlight.current
    mounted,    \* mounted.current
    reviews,    \* how many reviews were taken
    effects,    \* the passive effects of the last commit are due
    sync,       \* what is left of flushing a click
    deps,       \* what the effects last ran with
    keyRun,     \* availableKeys() under way, by the binding it serves
    criteriaRun,\* signingCriteria() under way
    chainKeys,  \* SigningKeys still enabled on Platform
    call,       \* the execute() call under way
    material,   \* the key loaded in the IdentitySigner of that call, or 0
    writes,     \* history: write calls started for each review
    reached,    \* history: reviews whose transition may be on Platform
    unknown,    \* history: reviews whose outcome was reported unknown
    approved,   \* history: the keys the user saw and let pass, by review
    acked       \* history: the reviews the user acknowledged

historyVars == <<writes, reached, unknown, approved, acked>>
reactVars == <<seen, seenCurrent, op, effects, deps>>
runVars == <<keyRun, criteriaRun>>
callVars == <<call, material, inFlight>>
envVars == <<feedVars, signerVars>>
vars == <<envVars, shell, reactVars, sync, mounted, reviews, runVars, chainKeys,
          callVars, historyVars>>

ReviewIds == 1..MaxReviews
Binding == <<shownSdk, shownSigner, op>>     \* contextBinding
BestOf(keys) == CHOOSE k \in keys : \A l \in keys : k <= l   \* selectSigningKey

EmptyShell ==
    [options |-> None, review |-> None, submission |-> 0, step |-> 0, ack |-> FALSE,
     busy |-> FALSE, outcome |-> "none", keys |-> None, reviewKey |-> None, refresh |-> 0]

NoCall == [pc |-> "none", review |-> None, key |-> 0]
FirstPc == IF SignsInForm THEN "version" ELSE "criteria"

DepsNow(current) ==
    [binding |-> Binding, refresh |-> seen.refresh, review |-> seen.review,
     keys |-> IF seen.keys # None /\ seen.keys.binding = Binding THEN seen.keys ELSE None,
     current |-> current, submission |-> seen.submission]

Init ==
    /\ SignerFeedInit
    /\ shell = EmptyShell /\ seen = EmptyShell /\ seenCurrent = FALSE
    /\ op = 1 /\ inFlight = FALSE /\ mounted = TRUE /\ reviews = 0
    /\ effects = FALSE /\ sync = "none"
    /\ deps = DepsNow(FALSE)
    /\ keyRun = None /\ criteriaRun = None
    /\ chainKeys = SigningKeys
    /\ call = NoCall /\ material = 0
    /\ writes = [r \in ReviewIds |-> 0]
    /\ reached = {} /\ unknown = {} /\ approved = {} /\ acked = {}

-----------------------------------------------------------------------------
(* What the handlers share.                                                *)

Free == sync = "none"
CanClick == Free /\ mounted

\* A click's updates are rendered next.
Flush == sync' = IF shell' = seen THEN "none" ELSE "commit"

ClearAck(s) == [s EXCEPT !.ack = FALSE]

PurgeSecrets(s) == [s EXCEPT !.options = None, !.review = None, !.reviewKey = None]

Reset(s) ==
    [ClearAck(PurgeSecrets(s)) EXCEPT !.submission = 0, !.outcome = "none", !.step = 0]

\* isCurrent: the review still matches what was rendered last.
IsCurrent(review) ==
    /\ mounted
    /\ shownSdk # 0
    /\ review.binding[1] \notin aborted
    /\ review.binding = Binding
    /\ review.options = seen.options

\* The signer's keys were checked for this binding and one may sign.
CapabilityAvailable ==
    \/ SignsInForm
    \/ /\ shownSigner # 0 /\ boundTo[shownSigner] = shownSdk
       /\ seen.keys # None
       /\ seen.keys.binding = Binding
       /\ seen.keys.list # {}

\* The key shown for the review, if the user let it pass.
SigningKeyReady ==
    \/ SignsInForm
    \/ /\ seen.reviewKey # None
       /\ seen.reviewKey.review = seen.review.id
       /\ seen.reviewKey.key # 0
       /\ seen.reviewKey.key = seen.reviewKey.confirmed

-----------------------------------------------------------------------------
(* The user.                                                               *)

\* The form hands over its inputs, in an event or from an effect of its own.
EditOptions(o, click) ==
    /\ CanClick /\ seen.submission = 0 /\ (shownSigner # 0 \/ SignsInForm)
    /\ click => seen.step = 0
    /\ shell.options # o
    /\ shell' = [shell EXCEPT !.options = o]
    /\ IF click THEN Flush ELSE UNCHANGED sync
    /\ UNCHANGED <<envVars, reactVars, mounted, reviews, runVars, chainKeys, callVars,
                   historyVars>>

Click == UNCHANGED <<envVars, reactVars, mounted, runVars, chainKeys>> /\ Flush

Review ==
    /\ CanClick /\ seen.step = 0 /\ seen.submission = 0 /\ reviews < MaxReviews
    /\ shownSdk # 0 /\ (shownSigner # 0 \/ SignsInForm)
    /\ shownSdk \notin aborted
    /\ CapabilityAvailable
    /\ seen.options # None
    /\ reviews' = reviews + 1
    /\ shell' = [ClearAck(shell) EXCEPT !.step = 1,
                    !.review = [id |-> reviews', binding |-> Binding, options |-> seen.options]]
    /\ Click
    /\ UNCHANGED <<callVars, historyVars>>

OnReviewStep == CanClick /\ seen.step = 1 /\ seenCurrent /\ seen.review # None

Acknowledge ==
    /\ OnReviewStep /\ ~seen.ack /\ NeedsAck
    /\ shell' = [shell EXCEPT !.ack = TRUE]
    /\ acked' = acked \cup {seen.review.id}
    /\ Click
    /\ UNCHANGED <<reviews, callVars, writes, reached, unknown, approved>>

Back ==
    /\ OnReviewStep
    /\ shell' = [ClearAck(shell) EXCEPT !.review = None, !.step = 0]
    /\ Click
    /\ UNCHANGED <<reviews, callVars, historyVars>>

RetryKeyCheck ==
    /\ CanClick /\ shownSigner # 0 /\ shell.refresh < MaxRefresh
    /\ shell' = [shell EXCEPT !.keys = None, !.refresh = @ + 1]
    /\ Click
    /\ UNCHANGED <<reviews, callVars, historyVars>>

\* "Use key": confirm the key on screen, unless a refresh has queued another.
Confirmed(shown) ==
    IF shell.reviewKey # None /\ shell.reviewKey.key = shown
    THEN [shell EXCEPT !.reviewKey.confirmed = shown]
    ELSE shell

ConfirmKey ==
    /\ OnReviewStep
    /\ seen.reviewKey # None
    /\ seen.reviewKey.review = seen.review.id
    /\ seen.reviewKey.key \notin {0, seen.reviewKey.confirmed}
    /\ shell' = Confirmed(seen.reviewKey.key)
    /\ approved' = approved \cup {<<seen.review.id, seen.reviewKey.key>>}
    /\ Click
    /\ UNCHANGED <<reviews, callVars, writes, reached, unknown, acked>>

CanProceed ==
    /\ OnReviewStep
    /\ CapabilityAvailable
    /\ SigningKeyReady
    /\ NeedsAck => seen.ack
    /\ ~seen.busy

\* onExecute, up to the first await of the executor.
Execute ==
    /\ CanProceed /\ IsCurrent(seen.review) /\ ~inFlight
    /\ inFlight' = TRUE
    /\ call' = [pc |-> FirstPc, review |-> seen.review,
                key |-> IF SignsInForm THEN 0 ELSE seen.reviewKey.key]
    /\ shell' = [shell EXCEPT !.submission = seen.review.id, !.step = 2, !.busy = TRUE,
                              !.outcome = "none"]
    /\ Click
    /\ UNCHANGED <<material, reviews, historyVars>>

\* "Return to build and review" and "Build a new operation".
StartOverOffered == seen.outcome \in {"notSubmitted", "done"}

StartOver ==
    /\ CanClick /\ seen.step \in {2, 3} /\ seen.submission # 0
    /\ StartOverOffered
    /\ shell' = Reset(shell)
    /\ Click
    /\ UNCHANGED <<reviews, callVars, historyVars>>

-----------------------------------------------------------------------------
(* Renders and effects.                                                    *)

\* The first key a review shows is approved by showing it.
FirstShown(s) ==
    IF /\ s.review # None /\ s.reviewKey # None
       /\ s.reviewKey.review = s.review.id
       /\ s.reviewKey.key # 0 /\ s.reviewKey.key = s.reviewKey.confirmed
       /\ \A k \in SigningKeys : <<s.review.id, k>> \notin approved
    THEN {<<s.review.id, s.reviewKey.key>>} ELSE {}

RenderAt(newOp) ==
    /\ Render
    /\ mounted /\ ~effects
    /\ seen' = shell
    /\ op' = newOp
    /\ seenCurrent' = (shell.review # None /\ sdk # 0
                       /\ shell.review.binding = <<sdk, signer, newOp>>
                       /\ shell.review.binding[1] \notin aborted
                       /\ shell.review.options = shell.options)
    /\ effects' = TRUE
    /\ approved' = approved \cup FirstShown(shell)
    /\ UNCHANGED <<shell, deps, mounted, reviews, runVars, chainKeys, callVars,
                   writes, reached, unknown, acked>>

Commit ==
    /\ sync # "effects"
    /\ <<shell, sdk, signer>> # <<seen, shownSdk, shownSigner>>
    /\ RenderAt(op)
    /\ sync' = IF sync = "commit" THEN "effects" ELSE "none"

\* The router moves to another operation: the same shell, another descriptor.
PickOperation ==
    /\ Free /\ op < MaxOps
    /\ RenderAt(op + 1)
    /\ UNCHANGED sync

\* The context effect.
ContextEffect(changed) ==
    shell' = IF seen.submission # 0
             THEN IF changed THEN PurgeSecrets(shell) ELSE shell
             ELSE IF changed \/ (seen.review # None /\ ~seenCurrent)
             THEN Reset(shell) ELSE shell

\* The key check, the signing-key review and the context effect, in one flush.
CriteriaEffect(now) ==
    criteriaRun' = IF now.review = deps.review /\ now.keys = deps.keys THEN criteriaRun
                   ELSE IF SignsInForm \/ seen.review = None \/ now.keys = None THEN None
                   ELSE [review |-> seen.review.id, list |-> now.keys.list]

RunEffects ==
    /\ effects
    /\ effects' = FALSE
    /\ LET now == DepsNow(seenCurrent) IN
       /\ deps' = now
       /\ keyRun' = IF now.binding = deps.binding /\ now.refresh = deps.refresh THEN keyRun
                    ELSE IF SignsInForm \/ shownSigner = 0 \/ shownSdk = 0 THEN None
                    ELSE Binding
       /\ CriteriaEffect(now)
       /\ ContextEffect(now.binding # deps.binding)
    /\ sync' = IF sync = "effects" THEN "none" ELSE sync
    /\ UNCHANGED <<envVars, seen, seenCurrent, op, mounted, reviews, chainKeys, callVars,
                   historyVars>>

\* availableKeys() answers.  No keys stand for an error too: a destroyed signer has
\* none, and Platform may not answer.
KeysArrive(failed) ==
    /\ Free /\ keyRun # None
    /\ keyRun' = None
    /\ shell' = [shell EXCEPT !.keys =
          [binding |-> keyRun,
           list |-> IF failed \/ keyRun[2] \in destroyed THEN {} ELSE chainKeys]]
    /\ UNCHANGED <<envVars, reactVars, sync, mounted, reviews, criteriaRun, chainKeys,
                   callVars, historyVars>>

\* The key that would sign the review, or 0 for none.
BugConfirmAny(key, previous) == key
ConfirmedBefore(key, previous) == IF previous = 0 THEN key ELSE previous

CriteriaArrive(failed) ==
    /\ Free /\ criteriaRun # None
    /\ criteriaRun' = None
    /\ LET key == IF failed \/ criteriaRun.list = {} THEN 0 ELSE BestOf(criteriaRun.list)
           previous == IF shell.reviewKey # None /\ shell.reviewKey.review = criteriaRun.review
                       THEN shell.reviewKey.confirmed ELSE 0
       IN shell' = [shell EXCEPT !.reviewKey =
              [review |-> criteriaRun.review, key |-> key,
               confirmed |-> ConfirmedBefore(key, previous)]]
    /\ UNCHANGED <<envVars, reactVars, sync, mounted, reviews, keyRun, chainKeys,
                   callVars, historyVars>>

\* Leaving the page.  The call in flight runs on.
Unmount ==
    /\ Free /\ mounted
    /\ mounted' = FALSE
    /\ keyRun' = None /\ criteriaRun' = None /\ effects' = FALSE
    /\ UNCHANGED <<envVars, shell, seen, seenCurrent, op, deps, sync, reviews, chainKeys,
                   callVars, historyVars>>

-----------------------------------------------------------------------------
(* The executor, from its first await to the shell's continuation.         *)

CallFrame == UNCHANGED <<envVars, reactVars, sync, mounted, reviews, runVars>>

\* The call ends: the executor frees the key, the shell shows the outcome and drops
\* what it no longer needs.
Settled(outcome) ==
    PurgeSecrets([shell EXCEPT !.outcome = outcome, !.busy = FALSE,
                               !.step = IF outcome = "done" THEN 3 ELSE @])

BugSkipRelease(outcome) ==
    /\ call' = NoCall
    /\ inFlight' = FALSE
    /\ shell' = IF mounted THEN Settled(outcome) ELSE shell
    /\ UNCHANGED material
EndCall(outcome) ==
    /\ call' = NoCall
    /\ material' = 0
    /\ inFlight' = FALSE
    /\ shell' = IF mounted THEN Settled(outcome) ELSE shell

NotSubmitted ==
    /\ EndCall("notSubmitted")
    /\ UNCHANGED <<chainKeys, historyVars>>

Continue(pc) ==
    /\ call' = [call EXCEPT !.pc = pc]
    /\ UNCHANGED <<shell, inFlight, chainKeys, historyVars>>

At(pc) == Free /\ call.pc = pc

\* criteria() answers: for a document operation it reads the contract.
CriteriaResolved ==
    /\ At("criteria")
    /\ \/ Continue("prepare") /\ UNCHANGED material
       \/ NotSubmitted
    /\ CallFrame

\* prepareSdk: a live signer reads the identity's keys and loads the pinned one.
SigningSigner == call.review.binding[2]
Loadable == IF SigningSigner \in destroyed THEN {} ELSE chainKeys
PrepareKey ==
    /\ At("prepare")
    /\ \/ call.key \in Loadable /\ material' = call.key /\ Continue("version")
       \/ NotSubmitted
    /\ CallFrame

\* assertWritableProtocolVersion.
VersionChecked ==
    /\ At("version")
    /\ \/ Continue("build") /\ UNCHANGED material
       \/ NotSubmitted
    /\ CallFrame

\* The executor built its transition and calls submit: the write starts only if
\* the review is still current.
AssertCurrent == IsCurrent(call.review)

SubmitOrFail ==
    /\ At("build")
    /\ \/ /\ AssertCurrent
          /\ call' = [call EXCEPT !.pc = "write"]
          /\ writes' = [writes EXCEPT ![call.review.id] = @ + 1]
          /\ UNCHANGED <<shell, inFlight, material, chainKeys, reached, unknown, approved, acked>>
       \/ NotSubmitted
    /\ CallFrame

\* The SDK's write call ends.  Platform has the transition, or the SDK refused it
\* first (InvalidArgument), or a failure says nothing about it.
WriteAccepted ==
    /\ At("write")
    /\ reached' = reached \cup {call.review.id}
    /\ \/ EndCall("done") /\ UNCHANGED unknown
       \/ EndCall("unknown") /\ unknown' = unknown \cup {call.review.id}
    /\ UNCHANGED <<chainKeys, writes, approved, acked>>
    /\ CallFrame

WriteRefused ==
    /\ At("write")
    /\ NotSubmitted
    /\ CallFrame

BugTimeoutMeansRejected(sent) ==
    /\ EndCall("notSubmitted")
    /\ reached' = IF sent THEN reached \cup {call.review.id} ELSE reached
    /\ UNCHANGED unknown
FailedWrite(sent) ==
    /\ EndCall("unknown")
    /\ reached' = IF sent THEN reached \cup {call.review.id} ELSE reached
    /\ unknown' = unknown \cup {call.review.id}

WriteFails ==
    /\ At("write")
    /\ \E sent \in BOOLEAN : FailedWrite(sent)
    /\ UNCHANGED <<chainKeys, writes, approved, acked>>
    /\ CallFrame

-----------------------------------------------------------------------------
(* The providers above, and Platform.                                      *)

Provider ==
    /\ Free
    /\ \/ /\ (\E i \in Sessions : PublishSdk(i)) \/ (sdk # 0 /\ RetireSdk({}))
          /\ UNCHANGED signerVars
       \/ \E k \in Signers : BuildSigner(k) \/ AcceptSigner(k)
       \/ signer # 0 /\ DropSigner
    /\ UNCHANGED <<shell, reactVars, sync, mounted, reviews, runVars, chainKeys, callVars,
                   historyVars>>

DisableKey(k) ==
    /\ Free /\ k \in chainKeys
    /\ chainKeys' = chainKeys \ {k}
    /\ UNCHANGED <<envVars, shell, reactVars, sync, mounted, reviews, runVars, callVars,
                   historyVars>>

User ==
    \/ \E o \in Inputs \cup {None}, click \in BOOLEAN : EditOptions(o, click)
    \/ Review \/ Acknowledge \/ Back \/ RetryKeyCheck \/ ConfirmKey \/ Execute
    \/ StartOver \/ PickOperation \/ Unmount

Arrivals == \E failed \in BOOLEAN : KeysArrive(failed) \/ CriteriaArrive(failed)

Executor ==
    \/ CriteriaResolved \/ PrepareKey \/ VersionChecked \/ SubmitOrFail
    \/ WriteAccepted \/ WriteRefused \/ WriteFails

Next ==
    \/ User
    \/ Commit \/ RunEffects
    \/ Arrivals
    \/ Executor
    \/ Provider
    \/ \E k \in SigningKeys : DisableKey(k)

Spec == Init /\ [][Next]_vars

\* React's scheduler makes progress.
FairSpec == Spec /\ WF_vars(Commit) /\ WF_vars(RunEffects)

-----------------------------------------------------------------------------
(* Properties.                                                             *)

Bindings == Session0 \X Signer0 \X (1..MaxOps)
Reviews == [id : ReviewIds, binding : Bindings, options : Inputs]
Key0 == SigningKeys \cup {0}
ShellStates ==
    [options : Inputs \cup {None}, review : Reviews \cup {None},
     submission : 0..MaxReviews, step : 0..3, ack : BOOLEAN, busy : BOOLEAN,
     outcome : {"none", "notSubmitted", "unknown", "done"},
     keys : [binding : Bindings, list : SUBSET SigningKeys] \cup {None},
     reviewKey : [review : ReviewIds, key : Key0, confirmed : Key0] \cup {None},
     refresh : 0..MaxRefresh]

\* Every variable holds a value of its type.
TypeOK ==
    /\ shell \in ShellStates /\ seen \in ShellStates
    /\ seenCurrent \in BOOLEAN /\ inFlight \in BOOLEAN /\ mounted \in BOOLEAN
    /\ op \in 1..MaxOps /\ reviews \in 0..MaxReviews
    /\ sync \in {"none", "commit", "effects"} /\ effects \in BOOLEAN
    /\ keyRun \in Bindings \cup {None}
    /\ criteriaRun \in [review : ReviewIds, list : SUBSET SigningKeys] \cup {None}
    /\ call \in [pc : {"none", "criteria", "prepare", "version", "build", "write"},
                 review : Reviews \cup {None}, key : Key0]
    /\ material \in Key0
    /\ chainKeys \subseteq SigningKeys
    /\ writes \in [ReviewIds -> Nat]

Writing(r) == writes'[r] # writes[r]

\* One review is submitted at most once: no click, retry or late continuation starts
\* its write again.  And a write starts only for what the user approved: in the session, with the signer
\* and the inputs that were reviewed, even when the SDK was retired while the
\* executor was reading and React has not rendered that yet; signed with the key the
\* review showed or one confirmed after a key refresh; and, when destructive, with an
\* acknowledgement of this very review and not of the one before.
ApprovedWrite ==
    \A r \in ReviewIds : Writing(r) =>
          /\ writes[r] = 0
          /\ mounted
          /\ call.review.binding[1] = sdk
          /\ call.review.binding[2] = shownSigner
          /\ call.review.options = seen.options
          /\ SignsInForm \/ <<r, material>> \in approved
          /\ NeedsAck => r \in acked

\* No outcome is lost or wrong.  What the shell calls not submitted, and safe to build
\* again, is not on Platform; and the receipt of a write under way or of unknown outcome
\* stays on screen through every context change, so the shell starts no second transaction
\* beside it.
OutcomesKept ==
    /\ shell.outcome = "notSubmitted" => shell.submission \notin reached
    /\ mounted =>
        /\ call.pc # "none" => shell.submission = call.review.id /\ shell.busy
        /\ \A r \in unknown : shell.submission = r /\ shell.outcome = "unknown"

\* "Drop the inputs once they can no longer be submitted": what React renders with a
\* settled call holds no inputs, and the key loaded for a call never outlives it.
SecretsDropped ==
    /\ seen.submission # 0 /\ ~seen.busy => seen.options = None /\ seen.review = None
    /\ material # 0 => call.pc \in {"version", "build", "write"}

=============================================================================
