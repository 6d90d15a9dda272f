----------------------------- MODULE SignerSession -----------------------------
(***************************************************************************)
(* The connected signer: src/signer/SignerProvider.tsx and the panes of     *)
(* app/wallet/page.tsx that build a signer and hand it to connect().        *)
(*                                                                         *)
(* A pane calls createLocalSigner with the SDK it rendered, waits for the   *)
(* identity's keys, then calls the connect() of that same render.  Several  *)
(* panes may be waiting.  signerRef and generationRef change at once and    *)
(* the state queued with them is the same value, so one variable stands     *)
(* for both; what React rendered last has a variable of its own.            *)
(***************************************************************************)
EXTENDS SessionFeed

CONSTANTS
    MaxSigners,    \* connection attempts are numbered from 1
    MaxGeneration, \* bound: no user input once the generation reached it
    None

VARIABLES
    signer,          \* signerRef, and the signer state as queued
    shownSigner,     \* the signer state as rendered
    generation,      \* generationRef
    shownGeneration, \* connectionGeneration, as rendered
    attempt,         \* attempt[k]: a pane's connection attempt and its keys
    hint,            \* the signer the stored reconnect hint names; 0: one of an
                     \* earlier page, None: no hint
    path,            \* the rendered route
    effects,         \* passive effects of the last commit are due
    deps,            \* what those effects last ran with
    hasReady,        \* hasReadySessionRef
    mounted          \* mountedRef

refVars == <<signer, generation, hint>>
reactVars == <<shownSigner, shownGeneration, path, effects, deps, hasReady>>
vars == <<feedVars, refVars, reactVars, attempt, mounted>>

Signers == 1..MaxSigners
Signer0 == 0..MaxSigners
Paths == {"write", "read"}   \* isWriteRoute(pathname), or not
Keys == {"none", "scanning", "held", "wiped"}

\* `overtaken` is history: the signer changed or was cleared since the start.
NoAttempt == [keys |-> "none", sdk |-> 0, generation |-> 0, overtaken |-> FALSE]

Init ==
    /\ FeedInit
    /\ signer = 0 /\ shownSigner = 0
    /\ generation = 0 /\ shownGeneration = 0
    /\ attempt = [k \in Signers |-> NoAttempt]
    /\ hint \in {None, 0}
    /\ path \in Paths
    /\ effects = FALSE
    /\ deps = [signer |-> 0, path |-> path, sdk |-> 0]
    /\ hasReady = FALSE
    /\ mounted = TRUE

-----------------------------------------------------------------------------
(* clearSigner and the handlers that call it.                              *)

\* The attempts once the signer was replaced by `next` (0: cleared).
Replaced(next) ==
    [k \in Signers |->
        IF k = next THEN [attempt[k] EXCEPT !.keys = "held"]
        ELSE IF k = signer THEN [attempt[k] EXCEPT !.keys = "wiped"]
        ELSE IF attempt[k].keys = "scanning" THEN [attempt[k] EXCEPT !.overtaken = TRUE]
        ELSE attempt[k]]

ClearSigner(keepHint) ==
    /\ generation' = generation + 1
    /\ attempt' = Replaced(0)
    /\ signer' = 0
    /\ hint' = IF keepHint THEN hint ELSE None

InputAllowed == mounted /\ generation < MaxGeneration

\* The Disconnect button.
Disconnect ==
    /\ InputAllowed /\ shownSigner # 0 /\ path = "write"
    /\ ClearSigner(FALSE)
    /\ UNCHANGED <<feedVars, reactVars, mounted>>

\* No input for IDLE_TIMEOUT_MS, on the timer of the signer last rendered, or
\* beforeunload on a page that then stays.
IdleOut ==
    /\ InputAllowed /\ shownSigner # 0 /\ deps.signer = shownSigner
    /\ ClearSigner(TRUE)
    /\ UNCHANGED <<feedVars, reactVars, mounted>>

DismissHint ==
    /\ InputAllowed /\ shownSigner = 0 /\ hint # None
    /\ hint' = None
    /\ UNCHANGED <<feedVars, reactVars, signer, generation, attempt, mounted>>

-----------------------------------------------------------------------------
(* Connecting.                                                             *)

\* The Connect button of a pane, with the SDK and the connect() it rendered.
StartConnect(k) ==
    /\ InputAllowed /\ attempt[k].keys = "none"
    /\ shownSdk # 0 /\ path = "write"
    /\ attempt' = [attempt EXCEPT ![k] =
          [keys |-> "scanning", sdk |-> shownSdk, generation |-> shownGeneration,
           overtaken |-> generation # shownGeneration]]
    /\ UNCHANGED <<feedVars, refVars, reactVars, mounted>>

\* createLocalSigner throws: no matching key, or the identity read failed.
SignerFails(k) ==
    /\ attempt[k].keys = "scanning"
    /\ attempt' = [attempt EXCEPT ![k].keys = "wiped"]
    /\ UNCHANGED <<feedVars, refVars, reactVars, mounted>>

\* The conditions of connect(), on the values of the render that captured it.
BugIgnoreGeneration(k) ==
    mounted /\ attempt[k].sdk = shownSdk /\ attempt[k].sdk \notin aborted
BugIgnoreAbort(k) ==
    mounted /\ attempt[k].generation = generation /\ attempt[k].sdk = shownSdk
SessionUnchanged(k) ==
    /\ mounted
    /\ attempt[k].generation = generation
    /\ attempt[k].sdk = shownSdk
    /\ attempt[k].sdk \notin aborted

Reject(k) ==
    /\ attempt' = [attempt EXCEPT ![k].keys = "wiped"]
    /\ UNCHANGED refVars

Accept(k) ==
    /\ attempt' = Replaced(k)
    /\ signer' = k
    /\ generation' = generation + 1
    /\ hint' = k

\* createLocalSigner resolved and the pane calls connect().
SignerBuilt(k) ==
    /\ attempt[k].keys = "scanning"
    /\ IF SessionUnchanged(k) THEN Accept(k) ELSE Reject(k)
    /\ UNCHANGED <<feedVars, reactVars, mounted>>

-----------------------------------------------------------------------------
(* Renders and effects.                                                    *)

\* The SDK provider's steps.  Aborting an attempt that published nothing changes
\* nothing here.
SdkStep ==
    /\ (\E i \in Sessions : PublishSdk(i)) \/ (sdk # 0 /\ RetireSdk({}))
    /\ UNCHANGED <<refVars, reactVars, attempt, mounted>>

\* React renders every queued update, and the route the router moved to.
RenderAt(p) ==
    /\ mounted
    /\ RenderSdk
    /\ shownSigner' = signer
    /\ shownGeneration' = generation
    /\ path' = p
    /\ effects' = TRUE
    /\ UNCHANGED <<refVars, deps, hasReady, attempt, mounted>>

Commit ==
    /\ <<sdk, signer, generation>> # <<shownSdk, shownSigner, shownGeneration>>
    /\ ~effects
    /\ RenderAt(path)

Navigate(p) ==
    /\ InputAllowed /\ ~effects /\ p # path
    /\ RenderAt(p)

\* The route effect saw a signer outside the write routes; the session effect, next
\* in the same flush, saw another SDK.  (Clearing twice is clearing once.)
RouteCleared ==
    /\ <<path, shownSigner>> # <<deps.path, deps.signer>>
    /\ path = "read" /\ signer # 0

SessionChanged == deps.sdk # shownSdk /\ (hasReady \/ (signer # 0 /\ ~RouteCleared))

RunEffects ==
    /\ effects
    /\ effects' = FALSE
    /\ deps' = [signer |-> shownSigner, path |-> path, sdk |-> shownSdk]
    /\ hasReady' = (hasReady \/ shownSdk # 0)
    /\ \/ SessionChanged /\ ClearSigner(FALSE)
       \/ ~SessionChanged /\ RouteCleared /\ ClearSigner(TRUE)
       \/ ~SessionChanged /\ ~RouteCleared /\ UNCHANGED <<refVars, attempt>>
    /\ UNCHANGED <<feedVars, shownSigner, shownGeneration, path, mounted>>

\* The provider unmounts; attempts run on and their connect() rejects.
Unmount ==
    /\ InputAllowed
    /\ mounted' = FALSE
    /\ attempt' = Replaced(0)
    /\ signer' = 0
    /\ effects' = FALSE
    /\ UNCHANGED <<feedVars, shownSigner, generation, shownGeneration, hint, path,
                   deps, hasReady>>

UserInput ==
    \/ Disconnect \/ IdleOut \/ DismissHint \/ Unmount
    \/ \E k \in Signers : StartConnect(k)
    \/ \E p \in Paths : Navigate(p)

Continue(k) == SignerFails(k) \/ SignerBuilt(k)

Next ==
    \/ SdkStep
    \/ UserInput
    \/ Commit \/ RunEffects
    \/ \E k \in Signers : Continue(k)

Spec == Init /\ [][Next]_vars

\* React's scheduler makes progress.  Platform may never answer an attempt.
FairSpec == Spec /\ WF_vars(Commit) /\ WF_vars(RunEffects)

-----------------------------------------------------------------------------
(* Properties.                                                             *)

\* Every variable holds a value of its type.
TypeOK ==
    /\ signer \in Signer0 /\ shownSigner \in Signer0
    /\ generation \in Nat /\ shownGeneration \in Nat
    /\ attempt \in [Signers -> [keys : Keys, sdk : Session0, generation : Nat,
                                overtaken : BOOLEAN]]
    /\ hint \in Signer0 \cup {None}
    /\ path \in Paths
    /\ effects \in BOOLEAN /\ hasReady \in BOOLEAN /\ mounted \in BOOLEAN
    /\ deps \in [signer : Signer0, path : Paths, sdk : Session0]

\* Keys outlive an attempt only in the connected signer: a replaced, rejected, failed
\* or cleared signer's bytes are wiped (lines 117, 138, 144, 228).  And a disconnect,
\* an idle timeout or another pane's signer wins over every attempt under way: a late
\* createLocalSigner does not bring keys back.
KeysOfConnected ==
    /\ \A k \in Signers : attempt[k].keys = "held" => k = signer
    /\ signer # 0 => ~attempt[signer].overtaken

\* What the broadcast console relies on: SignerFeed.
Promise == INSTANCE SignerFeed WITH
    boundTo <- [k \in Signers |-> attempt[k].sdk],
    destroyed <- {k \in Signers : attempt[k].keys = "wiped"}
FeedsSigners == Promise!SignerFeedSpec

=============================================================================
