----------------------------- MODULE SdkSession -----------------------------
(***************************************************************************)
(* The connection life cycle of src/sdk/SdkProvider.tsx.                    *)
(*                                                                         *)
(* A provider keeps two kinds of state.  Refs change at once.  React state *)
(* (`st`) is what the setters queued; children see it (`view`) only after  *)
(* the next Commit, whose passive effects run later: UrlNetworkSync's      *)
(* first (SyncUrl), then the provider's own (RunEffects), with nothing in  *)
(* between.  A click is flushed before anything else runs (`flushSync`);   *)
(* an update queued by an effect or a promise waits for the scheduler.     *)
(*                                                                         *)
(* Session ids and connection attempts share one counter.  Attempt i owns  *)
(* abort signal i and SDK instance i; 0 stands for null.                   *)
(*                                                                         *)
(* An operator named Bug... is a plausible mistake in the definition that  *)
(* follows it.  No behavior uses it; it shows which property notices.      *)
(***************************************************************************)
EXTENDS Naturals, FiniteSets

CONSTANTS
    Networks,        \* the names hasNetwork accepts
    Unregistered,    \* names a URL or a build may carry that it does not
    DefaultNetwork,  \* NEXT_PUBLIC_DEFAULT_NETWORK, known or not
    Settings,        \* the connection settings a user can save
    DefaultSettings,
    SessionOptions,  \* what buildSdkOptions makes of a network and settings
    MaxSessions,     \* bound on the session counter
    InputRoom,       \* bound: the ids an input leaves for what it causes
    None

Names == Networks \cup Unregistered

ASSUME SessionAssumption ==
    /\ DefaultNetwork \in Names
    /\ Networks \cap Unregistered = {}
    /\ DefaultSettings \in Settings
    /\ DOMAIN SessionOptions = Networks \X Settings
    /\ MaxSessions \in Nat \ {0} /\ InputRoom \in Nat
    /\ None \notin Names \cup [name : Names, source : {"url", "default", "selection"}]

VARIABLES
    nextSessionId,  \* module-level counter, shared by every provider mount
    aborted,        \* the aborted signals
    attempt,        \* attempt[i]: the connect() call that took id i
    ref,            \* the provider's refs
    st,             \* React state as queued
    view,           \* React state as last committed
    connectDeps,    \* dependencies the connect effect last ran with
    effects,        \* the passive effects of the last commit
    flushSync,      \* a click's updates are being flushed
    url,            \* the ?network= parameter of the address bar, or None
    param,          \* the parameter the router last rendered
    seenUrl         \* the parameter UrlNetworkSync last reported

routerVars == <<url, param, seenUrl>>
providerVars == <<ref, st, view, connectDeps, effects, flushSync, routerVars>>
vars == <<nextSessionId, aborted, attempt, providerVars>>

Ids == 1..MaxSessions
Id0 == 0..MaxSessions
Statuses == {"idle", "connecting", "ready", "error"}
Failures == {"unknown-network", "failed", "timeout", "unreachable"}

\* Where connect() is suspended, and what became of the SDK it builds.
Phases == {"none", "loading", "connecting", "done"}
WasmStates == {"none", "pending", "orphan", "live"}

OptionsKey(n, s) == IF n \in Networks THEN SessionOptions[<<n, s>>] ELSE None

ReactState ==
    [network : Names, settings : Settings, sdk : Id0, status : Statuses,
     error : Failures \cup {None}, unreachable : Id0, session : Id0,
     signal : Id0, hydrated : BOOLEAN, networkError : Names \cup {None}]

Refs ==
    [network : Names, settings : Settings, active : Id0, connecting : BOOLEAN,
     controller : Id0,
     networkError : [name : Names, source : {"url", "default", "selection"}] \cup {None}]

InitialState ==
    [network |-> DefaultNetwork, settings |-> DefaultSettings, sdk |-> 0,
     status |-> "idle", error |-> None, unreachable |-> 0, session |-> 0,
     signal |-> 0, hydrated |-> FALSE, networkError |-> None]

InitialRefs ==
    [network |-> DefaultNetwork, settings |-> DefaultSettings, active |-> 0,
     connecting |-> FALSE, controller |-> 0, networkError |-> None]

\* `blocked` is history: a name was blocked when the attempt started.
Attempts == [phase : Phases, network : Names, settings : Settings,
             wasm : WasmStates, blocked : BOOLEAN]

NoAttempt == [phase |-> "none", network |-> DefaultNetwork,
              settings |-> DefaultSettings, wasm |-> "none", blocked |-> FALSE]

DepsOf(s) == <<s.network, OptionsKey(s.network, s.settings), s.hydrated, s.networkError>>

Init ==
    /\ nextSessionId = 0
    /\ aborted = {}
    /\ attempt = [i \in Ids |-> NoAttempt]
    /\ ref = InitialRefs
    /\ st = InitialState
    /\ view = InitialState
    /\ connectDeps = DepsOf(InitialState)
    /\ effects = "none"
    /\ flushSync = FALSE
    /\ url \in Names \cup {None}
    /\ param = url
    /\ seenUrl = "unseen"

-----------------------------------------------------------------------------
(* What the handlers share.                                                *)

BugNoAbort == aborted' = aborted
AbortController == aborted' = aborted \cup ({ref.controller} \ {0})

\* The queued state and refs after blockUnknownNetwork took id `id`.
BugBlockedKeepsSdk(s, name, id) ==
    [s EXCEPT !.session = id, !.networkError = name, !.error = "unknown-network"]
BlockedState(s, name, id) ==
    [s EXCEPT !.session = id, !.networkError = name, !.sdk = 0,
              !.status = "error", !.error = "unknown-network"]
BlockedRefs(r, name, source, id) ==
    [r EXCEPT !.networkError = [name |-> name, source |-> source],
              !.connecting = FALSE, !.active = id]

BlockUnknownNetwork(s, name, source) ==
    IF ref.networkError = [name |-> name, source |-> source]
    THEN /\ st' = s
         /\ UNCHANGED <<nextSessionId, aborted, ref>>
    ELSE /\ nextSessionId < MaxSessions
         /\ nextSessionId' = nextSessionId + 1
         /\ AbortController
         /\ ref' = BlockedRefs(ref, name, source, nextSessionId + 1)
         /\ st' = BlockedState(s, name, nextSessionId + 1)

\* The synchronous part of connect(net, settings).
Connect(net, settings) ==
    /\ nextSessionId < MaxSessions
    /\ LET id == nextSessionId + 1 IN
       /\ nextSessionId' = id
       /\ AbortController
       /\ attempt' = [attempt EXCEPT ![id] =
             [phase |-> "loading", network |-> net, settings |-> settings,
              wasm |-> "none", blocked |-> ref.networkError # None]]
       /\ ref' = [ref EXCEPT !.active = id, !.connecting = TRUE, !.controller = id]
       /\ st' = [st EXCEPT !.session = id, !.signal = id, !.sdk = 0,
                           !.status = "connecting", !.error = None]

\* retireSession, with the queued selection `s` it is called for.
BugKeepSdk(s) ==
    /\ AbortController
    /\ st' = [s EXCEPT !.status = "connecting", !.error = None]
RetireSession(s) ==
    /\ AbortController
    /\ st' = [s EXCEPT !.sdk = 0, !.status = "connecting", !.error = None]

Retired(i) == i \in aborted

\* settle(): only the attempt the provider still counts on clears `connecting`.
Settle(i) ==
    ref' = IF ref.active = i THEN [ref EXCEPT !.connecting = FALSE] ELSE ref

\* Nothing runs between a click and its commit, or within a flush of effects.
Idle == ~flushSync /\ effects # "begun"

\* No click lands before the effects of the mount, and each leaves room for the
\* ids it can still cause: its own, a blocked name's, a connect effect's.
InputAllowed == Idle /\ st.hydrated /\ nextSessionId + InputRoom <= MaxSessions

\* A click that queued an update has it rendered before anything else runs.
FlushClick == flushSync' = (st' # st /\ st' # view)

-----------------------------------------------------------------------------
(* Effects and commits.                                                    *)

\* First passive effect: read the URL and the stored preferences, which another
\* tab may have written and storage may have refused.
Hydrate ==
    /\ Idle /\ ~st.hydrated
    /\ \E stored \in Names \cup {None}, storedSettings \in Settings :
         LET valid  == url \in Networks
             chosen == IF valid THEN url
                       ELSE IF stored \in Networks THEN stored ELSE DefaultNetwork
             next   == [st EXCEPT !.network = chosen, !.settings = storedSettings,
                                  !.hydrated = TRUE]
         IN IF url \in Unregistered THEN BlockUnknownNetwork(next, url, "url")
            ELSE IF chosen \notin Networks
            THEN BlockUnknownNetwork(next, chosen, "default")
            ELSE st' = next /\ UNCHANGED <<nextSessionId, aborted, ref>>
    /\ UNCHANGED <<attempt, view, connectDeps, effects, flushSync, url, param, seenUrl>>

\* React renders every queued update.  Rendering assigns the mirrored refs.  The
\* effects of a click's commit are flushed with it.
Commit ==
    /\ st # view /\ effects = "none"
    /\ view' = st
    /\ ref' = [ref EXCEPT !.network = st.network, !.settings = st.settings]
    /\ effects' = IF flushSync THEN "begun" ELSE "pending"
    /\ flushSync' = FALSE
    /\ UNCHANGED <<nextSessionId, aborted, attempt, st, connectDeps, routerVars>>

\* The router's transition, which React renders after queued updates.
CommitNavigation ==
    /\ Idle /\ param # url /\ st = view /\ effects = "none"
    /\ param' = url
    /\ effects' = IF view.hydrated THEN "pending" ELSE "none"
    /\ UNCHANGED <<nextSessionId, aborted, attempt, ref, st, view, connectDeps,
                   flushSync, url, seenUrl>>

UrlSyncDue == view.hydrated /\ seenUrl # param

\* The connect effect, run when a dependency changed.
RunEffects ==
    /\ effects # "none" /\ ~UrlSyncDue
    /\ effects' = "none"
    /\ connectDeps' = DepsOf(view)
    /\ IF DepsOf(view) # connectDeps /\ view.hydrated /\ view.networkError = None
       THEN Connect(view.network, ref.settings)
       ELSE UNCHANGED <<nextSessionId, aborted, attempt, ref, st>>
    /\ flushSync' = (flushSync /\ st' # view)
    /\ UNCHANGED <<view, routerVars>>

-----------------------------------------------------------------------------
(* Selections, by the user or by the URL.                                  *)

SelectNetwork(n) ==
    IF n \notin Networks
    THEN /\ BlockUnknownNetwork(st, n, "selection")
         /\ UNCHANGED url
    ELSE IF ref.network = n /\ ref.networkError = None
    THEN UNCHANGED <<nextSessionId, aborted, ref, st, url>>
    ELSE /\ url' = IF url = None THEN None ELSE n
         /\ ref' = [ref EXCEPT !.networkError = None, !.network = n]
         /\ RetireSession([st EXCEPT !.networkError = None, !.network = n])
         /\ UNCHANGED nextSessionId

SetNetwork(n) ==
    /\ InputAllowed
    /\ SelectNetwork(n)
    /\ FlushClick
    /\ UNCHANGED <<attempt, view, connectDeps, effects, param, seenUrl>>

\* A link or the history changes the ?network= parameter.
NavigateUrl(n) ==
    /\ InputAllowed /\ url # n
    /\ url' = n
    /\ UNCHANGED <<nextSessionId, aborted, attempt, ref, st, view, connectDeps,
                   effects, flushSync, param, seenUrl>>

\* UrlNetworkSync's effect reports the parameter it was rendered with.
SyncUrl ==
    /\ effects # "none" /\ UrlSyncDue
    /\ effects' = "begun"
    /\ seenUrl' = param
    /\ \/ /\ param \in Unregistered
          /\ BlockUnknownNetwork(st, param, "url")
          /\ UNCHANGED url
       \/ param \in Networks /\ SelectNetwork(param)
       \/ /\ param = None
          /\ IF ref.networkError = None \/ ref.networkError.source # "url"
             THEN UNCHANGED <<nextSessionId, aborted, ref, st>>
             ELSE IF ref.network \in Networks
             THEN /\ ref' = [ref EXCEPT !.networkError = None]
                  /\ st' = [st EXCEPT !.networkError = None]
                  /\ UNCHANGED <<nextSessionId, aborted>>
             ELSE BlockUnknownNetwork(st, ref.network, "default")
          /\ UNCHANGED url
    /\ UNCHANGED <<attempt, view, connectDeps, flushSync, param>>

SetConnectionSettings(s) ==
    /\ InputAllowed
    /\ s # ref.settings
    /\ ref' = [ref EXCEPT !.settings = s]
    /\ LET next == [st EXCEPT !.settings = s]
           changesSession == OptionsKey(ref.network, ref.settings) # OptionsKey(ref.network, s)
       IN IF changesSession /\ ref.networkError = None
          THEN RetireSession(next)
          ELSE st' = next /\ UNCHANGED aborted
    /\ FlushClick
    /\ UNCHANGED <<nextSessionId, attempt, view, connectDeps, effects, routerVars>>

\* A Reconnect button (`sync`), a failed card's refetch or the back-online effect.
Reconnect(sync) ==
    /\ InputAllowed
    /\ ref.networkError = None /\ ~ref.connecting
    /\ Connect(ref.network, ref.settings)
    /\ flushSync' = sync
    /\ UNCHANGED <<view, connectDeps, effects, routerVars>>

\* A query of session i found every endpoint failing, or got an answer.
ReportUnreachable(i, failed) ==
    /\ Idle /\ attempt[i].wasm = "live"
    /\ i = ref.active
    /\ st' = [st EXCEPT !.unreachable = IF failed THEN i ELSE 0]
    /\ UNCHANGED <<nextSessionId, aborted, attempt, ref, view, connectDeps,
                   effects, flushSync, routerVars>>

-----------------------------------------------------------------------------
(* The continuations of connect().                                         *)

\* What a continuation of attempt i queues, unless the attempt was superseded.
BugPublishLate(i, next) == st' = next
Publish(i, next) == st' = IF Retired(i) THEN st ELSE next

Failed(kind) == [st EXCEPT !.error = kind, !.status = "error"]

\* An attempt that leaves no WASM state behind is forgotten.
Finish(i, wasm) ==
    /\ attempt' = [attempt EXCEPT ![i] =
          IF wasm = "none" THEN [NoAttempt EXCEPT !.phase = "done"]
          ELSE [@ EXCEPT !.phase = "done", !.wasm = wasm]]
    /\ Settle(i)

ContinuationFrame ==
    UNCHANGED <<nextSessionId, aborted, view, connectDeps, effects, flushSync,
                routerVars>>

ConstructDone(i) ==
    /\ attempt[i].phase = "loading" /\ Idle
    /\ IF Retired(i)
       THEN Finish(i, "none")
       ELSE /\ attempt' = [attempt EXCEPT ![i].phase = "connecting", ![i].wasm = "pending"]
            /\ UNCHANGED ref
    /\ UNCHANGED st
    /\ ContinuationFrame

ConstructFails(i) ==
    /\ attempt[i].phase = "loading" /\ Idle
    /\ Finish(i, "none")
    /\ Publish(i, Failed("failed"))
    /\ ContinuationFrame

\* React renders an attempt before the quorum service can answer it.
Rendered(i) == Retired(i) \/ view.session = i

BugFreePublished(i) ==
    /\ attempt[i].phase = "connecting" /\ Idle /\ Rendered(i)
    /\ Finish(i, "none")
    /\ Publish(i, [st EXCEPT !.sdk = i, !.status = "ready"])
    /\ ContinuationFrame

\* connect() resolved in time; a superseded instance is freed, not published.
ConnectSucceeds(i) ==
    /\ attempt[i].phase = "connecting" /\ Idle /\ Rendered(i)
    /\ Finish(i, IF Retired(i) THEN "none" ELSE "live")
    /\ Publish(i, [st EXCEPT !.sdk = i, !.status = "ready"])
    /\ ContinuationFrame

ConnectFails(i) ==
    /\ attempt[i].phase = "connecting" /\ Idle
    /\ Finish(i, "none")
    /\ Publish(i, Failed("unreachable"))
    /\ ContinuationFrame

BugSilentTimeout(i) ==
    /\ attempt[i].phase = "connecting" /\ Idle
    /\ Finish(i, "orphan")
    /\ UNCHANGED st
    /\ ContinuationFrame

\* The startup deadline fires first; the SDK is freed when connect() settles.
DeadlineExpires(i) ==
    /\ attempt[i].phase = "connecting" /\ Idle
    /\ Finish(i, "orphan")
    /\ Publish(i, Failed("timeout"))
    /\ ContinuationFrame

BugKeepOrphan(i) ==
    /\ attempt[i].wasm = "orphan" /\ Idle
    /\ attempt' = [attempt EXCEPT ![i].wasm = "live"]
    /\ UNCHANGED <<nextSessionId, aborted, providerVars>>
OrphanSettles(i) ==
    /\ attempt[i].wasm = "orphan" /\ Idle
    /\ attempt' = [attempt EXCEPT ![i] = [NoAttempt EXCEPT !.phase = "done"]]
    /\ UNCHANGED <<nextSessionId, aborted, providerVars>>

\* The provider unmounts and mounts again; its attempts run on.
MountAgain ==
    /\ InputAllowed
    /\ AbortController
    /\ ref' = InitialRefs
    /\ st' = InitialState
    /\ view' = InitialState
    /\ connectDeps' = DepsOf(InitialState)
    /\ effects' = "none"
    /\ seenUrl' = "unseen"
    /\ UNCHANGED <<attempt, flushSync, url, param>>

Remount == MountAgain /\ UNCHANGED nextSessionId

UserInput ==
    \/ \E n \in Names : SetNetwork(n)
    \/ \E n \in Names \cup {None} : NavigateUrl(n)
    \/ \E s \in Settings : SetConnectionSettings(s)
    \/ \E sync \in BOOLEAN : Reconnect(sync)
    \/ Remount

React == Hydrate \/ Commit \/ CommitNavigation \/ SyncUrl \/ RunEffects

Continue(i) ==
    \/ ConstructDone(i) \/ ConstructFails(i)
    \/ ConnectSucceeds(i) \/ ConnectFails(i) \/ DeadlineExpires(i)
    \/ OrphanSettles(i)

Next ==
    \/ UserInput
    \/ React
    \/ \E i \in Ids : Continue(i)
    \/ \E i \in Ids, failed \in BOOLEAN : ReportUnreachable(i, failed)

Spec == Init /\ [][Next]_vars

\* React's scheduler, module loading and the startup timer make progress, however
\* often a flush of effects makes them wait.  The quorum service may never
\* answer, and nobody has to click.
Fairness ==
    /\ WF_vars(React)
    /\ \A i \in Ids : SF_vars(ConstructDone(i) \/ ConstructFails(i) \/ DeadlineExpires(i))

FairSpec == Spec /\ Fairness

-----------------------------------------------------------------------------
(* Properties.                                                             *)

\* Every variable holds a value of its type.
TypeOK ==
    /\ nextSessionId \in Id0
    /\ aborted \subseteq Ids
    /\ attempt \in [Ids -> Attempts]
    /\ ref \in Refs
    /\ st \in ReactState
    /\ view \in ReactState
    /\ effects \in {"none", "pending", "begun"}
    /\ flushSync \in BOOLEAN
    /\ url \in Names \cup {None}
    /\ param \in Names \cup {None}
    /\ seenUrl \in Names \cup {None, "unseen"}

\* At most one attempt is not aborted, the one whose controller the provider
\* holds: whatever supersedes an attempt aborts it first (lines 225, 259, 334).
SingleLiveAttempt ==
    \A i \in Ids : attempt[i].phase # "none" /\ i \notin aborted => i = ref.controller

\* A queued SDK is the one of the current session: connected, not aborted, the
\* id and the signal it is published with are its own, and reports about it
\* are still accepted.  A late success of a superseded attempt is not queued.
PublishedIsCurrent ==
    st.sdk # 0 =>
        /\ st.status = "ready"
        /\ st.sdk = st.session /\ st.sdk = st.signal /\ st.sdk = ref.active
        /\ st.sdk \notin aborted
        /\ attempt[st.sdk].wasm = "live"

\* What children render never pairs an SDK with a network or with options it
\* was not built for; the exception is an attempt BlockedNeverConnects forbids.
ViewMatchesSelection ==
    view.sdk # 0 /\ ~attempt[view.sdk].blocked =>
        LET a == attempt[view.sdk] IN
        /\ a.network = view.network
        /\ OptionsKey(a.network, a.settings) = OptionsKey(view.network, view.settings)

\* releaseUnpublished frees only instances no consumer received: an instance
\* children render, or will render, still has its WASM state.
NoUseAfterFree ==
    \A i \in {st.sdk, view.sdk} \ {0} : attempt[i].wasm = "live"

\* `connecting` says whether the attempt the provider counts on is still under
\* way, so reconnect() is refused exactly while one attempt can serve the callers.
ConnectingFlagAccurate ==
    ref.connecting <=> /\ ref.active # 0
                       /\ attempt[ref.active].phase \in {"loading", "connecting"}

\* No connected instance is forgotten: one that connected after its deadline, or
\* for a superseded attempt, is freed; any other is published (lines 294, 305).
KeptOnlyIfPublished ==
    [][\A i \in Ids : attempt'[i].wasm = "live" /\ attempt[i].wasm # "live"
          => st'.sdk = i]_vars

\* What the components below the provider rely on: SessionFeed.
Feed == INSTANCE SessionFeed WITH sdk <- st.sdk, shownSdk <- view.sdk
FeedsSessions == Feed!FeedSpec

\* The startup deadline bounds every attempt: the session the provider shows as
\* connecting is superseded, or becomes ready or failed, even if the quorum
\* service never answers.
ConnectingEnds ==
    \A i \in Ids :
        (st.status = "connecting" /\ st.signal = i /\ i \notin aborted)
            ~> (i \in aborted \/ st.status \in {"ready", "error"})

\* "The connect-on-change effect starts the new session after this state
\* commits" (SdkProvider.tsx:331): a retired provider gets a new session.
RetireStartsSession ==
    (view.hydrated /\ view.status = "connecting")
        ~> (view.status \in {"ready", "error"} \/ ~view.hydrated)

=============================================================================
