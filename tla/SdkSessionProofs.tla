-------------------------- MODULE SdkSessionProofs --------------------------
(***************************************************************************)
(* Proofs about SdkSession, for every set of networks and settings and     *)
(* every bound on the session counter: its invariants, and that it         *)
(* implements SessionFeed.                                                 *)
(***************************************************************************)
EXTENDS SdkSession, TLAPS

\* Ids above the counter are unused.
FreshIds == \A i \in Ids : i > nextSessionId => attempt[i] = NoAttempt

\* What an attempt under way owns.
PhaseOwns ==
    \A i \in Ids : /\ attempt[i].phase = "none" => attempt[i] = NoAttempt
                   /\ attempt[i].phase = "loading" => attempt[i].wasm = "none"
                   /\ attempt[i].phase = "connecting" => attempt[i].wasm = "pending"
                   /\ attempt[i].wasm \in {"live", "orphan"} => attempt[i].phase = "done"

\* An attempt that is not aborted is the one every ref and state field names.
LiveAttemptShown ==
    \A i \in Ids : attempt[i].phase # "none" /\ i \notin aborted =>
        i = ref.controller /\ i = ref.active /\ i = st.session /\ i = st.signal

SessionInv ==
    /\ TypeOK
    /\ FreshIds /\ PhaseOwns /\ LiveAttemptShown
    /\ PublishedIsCurrent /\ NoUseAfterFree /\ ConnectingFlagAccurate

\* The handlers' shared parts are well typed.
LEMMA ConstantTypes ==
    /\ InitialState \in ReactState
    /\ InitialRefs \in Refs
    /\ NoAttempt \in Attempts
    /\ 0 \in Id0 /\ Ids \subseteq Id0
  BY SessionAssumption DEF InitialState, ReactState, InitialRefs, Refs, NoAttempt,
     Attempts, Id0, Ids, Names, Statuses, Phases, WasmStates

\* Aborting the controller's signal aborts a signal.
LEMMA AbortType ==
  ASSUME TypeOK, AbortController
  PROVE  aborted' \subseteq Ids
<1>1. ref.controller \in Id0
  BY DEF TypeOK, Refs
<1>2. {ref.controller} \ {0} \subseteq Ids
  BY <1>1, SessionAssumption DEF Id0, Ids
<1> QED BY <1>2 DEF AbortController, TypeOK

\* blockUnknownNetwork keeps the types.
LEMMA BlockType ==
  ASSUME TypeOK, NEW s \in ReactState, NEW name \in Names,
         NEW source \in {"url", "default", "selection"},
         BlockUnknownNetwork(s, name, source)
  PROVE  /\ nextSessionId' \in Id0 /\ aborted' \subseteq Ids
         /\ ref' \in Refs /\ st' \in ReactState
<1>1. CASE ref.networkError = [name |-> name, source |-> source]
  BY <1>1 DEF BlockUnknownNetwork, TypeOK
<1>2. CASE ref.networkError # [name |-> name, source |-> source]
  <2>1. /\ nextSessionId < MaxSessions
        /\ nextSessionId' = nextSessionId + 1
        /\ AbortController
        /\ ref' = BlockedRefs(ref, name, source, nextSessionId + 1)
        /\ st' = BlockedState(s, name, nextSessionId + 1)
    BY <1>2 DEF BlockUnknownNetwork
  <2>2. nextSessionId + 1 \in Id0 /\ nextSessionId + 1 \in Ids
    BY <2>1, SessionAssumption DEF TypeOK, Id0, Ids
  <2>3. aborted' \subseteq Ids
    BY <2>1, AbortType
  <2>4. ref' \in Refs
    BY <2>1, <2>2 DEF BlockedRefs, TypeOK, Refs
  <2>5. st' \in ReactState
    BY <2>1, <2>2, ConstantTypes DEF BlockedState, ReactState, Statuses, Failures
  <2> QED BY <2>1, <2>2, <2>3, <2>4, <2>5
<1> QED BY <1>1, <1>2

\* connect() keeps the types.
LEMMA ConnectType ==
  ASSUME TypeOK, NEW net \in Names, NEW settings \in Settings, Connect(net, settings)
  PROVE  /\ nextSessionId' \in Id0 /\ aborted' \subseteq Ids
         /\ attempt' \in [Ids -> Attempts]
         /\ ref' \in Refs /\ st' \in ReactState
<1>1. nextSessionId + 1 \in Ids /\ nextSessionId + 1 \in Id0
  BY SessionAssumption DEF Connect, TypeOK, Id0, Ids
<1>2. nextSessionId' \in Id0 /\ aborted' \subseteq Ids
  BY <1>1, AbortType DEF Connect
<1>3. attempt' \in [Ids -> Attempts]
  <2>1. [phase |-> "loading", network |-> net, settings |-> settings,
         wasm |-> "none", blocked |-> ref.networkError # None] \in Attempts
    BY DEF Attempts, Phases, WasmStates
  <2> QED BY <1>1, <2>1 DEF Connect, TypeOK
<1>4. ref' \in Refs
  BY <1>1 DEF Connect, TypeOK, Refs
<1>5. st' \in ReactState
  BY <1>1, ConstantTypes DEF Connect, TypeOK, ReactState, Statuses
<1> QED BY <1>2, <1>3, <1>4, <1>5

\* Selecting a network keeps the types.
LEMMA SelectType ==
  ASSUME TypeOK, NEW n \in Names, SelectNetwork(n)
  PROVE  /\ nextSessionId' \in Id0 /\ aborted' \subseteq Ids
         /\ ref' \in Refs /\ st' \in ReactState
         /\ url' \in Names \cup {None}
<1>1. CASE n \notin Networks
  BY <1>1, BlockType DEF SelectNetwork, TypeOK
<1>2. CASE n \in Networks /\ ref.network = n /\ ref.networkError = None
  BY <1>2 DEF SelectNetwork, TypeOK
<1>3. CASE n \in Networks /\ ~(ref.network = n /\ ref.networkError = None)
  <2>1. /\ url' = IF url = None THEN None ELSE n
        /\ ref' = [ref EXCEPT !.networkError = None, !.network = n]
        /\ AbortController
        /\ st' = [[st EXCEPT !.networkError = None, !.network = n]
                    EXCEPT !.sdk = 0, !.status = "connecting", !.error = None]
        /\ nextSessionId' = nextSessionId
    BY <1>3 DEF SelectNetwork, RetireSession
  <2>2. aborted' \subseteq Ids
    BY <2>1, AbortType
  <2>3. ref' \in Refs
    BY <2>1 DEF TypeOK, Refs
  <2>4. st' \in ReactState
    BY <2>1, ConstantTypes DEF TypeOK, ReactState, Statuses
  <2> QED BY <2>1, <2>2, <2>3, <2>4 DEF TypeOK
<1> QED BY <1>1, <1>2, <1>3

\* A continuation's attempt, refs and state keep their types.
LEMMA FinishType ==
  ASSUME TypeOK, NEW i \in Ids, NEW w \in WasmStates, Finish(i, w)
  PROVE  attempt' \in [Ids -> Attempts] /\ ref' \in Refs
<1>1. [NoAttempt EXCEPT !.phase = "done"] \in Attempts
  BY ConstantTypes DEF Attempts, Phases
<1>2. [attempt[i] EXCEPT !.phase = "done", !.wasm = w] \in Attempts
  BY DEF TypeOK, Attempts, Phases
<1>3. attempt' \in [Ids -> Attempts]
  BY <1>1, <1>2 DEF Finish, TypeOK
<1>4. ref' \in Refs
  BY DEF Finish, Settle, TypeOK, Refs
<1> QED BY <1>3, <1>4

\* A failure message is a well typed state.
LEMMA PublishType ==
  ASSUME TypeOK, NEW i \in Ids, NEW next \in ReactState, Publish(i, next)
  PROVE  st' \in ReactState
  BY DEF Publish, TypeOK

LEMMA FailedType ==
  ASSUME TypeOK, NEW kind \in Failures
  PROVE  Failed(kind) \in ReactState
  BY DEF Failed, TypeOK, ReactState, Statuses

-----------------------------------------------------------------------------
(* Type correctness.                                                       *)

\* Every step keeps the types.
LEMMA TypeStep ==
  ASSUME TypeOK, [Next]_vars
  PROVE  TypeOK'
<1> USE DEF providerVars, routerVars
<1>1. CASE Hydrate
  <2>1. PICK stored \in Names \cup {None}, storedSettings \in Settings :
         LET valid  == url \in Networks
             chosen == IF valid THEN url
                       ELSE IF stored \in Networks THEN stored ELSE DefaultNetwork
             next   == [st EXCEPT !.network = chosen, !.settings = storedSettings,
                                  !.hydrated = TRUE]
         IN IF url \in Unregistered THEN BlockUnknownNetwork(next, url, "url")
            ELSE IF chosen \notin Networks
            THEN BlockUnknownNetwork(next, chosen, "default")
            ELSE st' = next /\ UNCHANGED <<nextSessionId, aborted, ref>>
    BY <1>1 DEF Hydrate
  <2> DEFINE chosen == IF url \in Networks THEN url
                       ELSE IF stored \in Networks THEN stored ELSE DefaultNetwork
             next == [st EXCEPT !.network = chosen, !.settings = storedSettings,
                                !.hydrated = TRUE]
  <2>2. chosen \in Names
    BY SessionAssumption DEF Names
  <2>3. next \in ReactState
    BY <2>2 DEF TypeOK, ReactState
  <2>4. CASE url \in Unregistered
    <3>1. BlockUnknownNetwork(next, url, "url") /\ url \in Names
      BY <2>1, <2>4 DEF Names
    <3> QED BY <3>1, <2>3, <1>1, BlockType DEF Hydrate, TypeOK
  <2>5. CASE url \notin Unregistered /\ chosen \notin Networks
    <3>1. BlockUnknownNetwork(next, chosen, "default")
      BY <2>1, <2>5
    <3> QED BY <3>1, <2>2, <2>3, <1>1, BlockType DEF Hydrate, TypeOK
  <2>6. CASE url \notin Unregistered /\ chosen \in Networks
    <3>1. st' = next /\ UNCHANGED <<nextSessionId, aborted, ref>>
      BY <2>1, <2>6
    <3> QED BY <3>1, <2>3, <1>1 DEF Hydrate, TypeOK
  <2> QED BY <2>4, <2>5, <2>6
<1>2. CASE Commit
  <2>1. ref' \in Refs
    BY <1>2 DEF Commit, TypeOK, Refs, ReactState
  <2> QED BY <1>2, <2>1 DEF Commit, TypeOK
<1>3. CASE CommitNavigation
  BY <1>3 DEF CommitNavigation, TypeOK
<1>4. CASE RunEffects
  <2>1. CASE DepsOf(view) # connectDeps /\ view.hydrated /\ view.networkError = None
    <3>1. Connect(view.network, ref.settings)
      BY <1>4, <2>1 DEF RunEffects
    <3>2. view.network \in Names /\ ref.settings \in Settings
      BY DEF TypeOK, ReactState, Refs
    <3> QED BY <1>4, <3>1, <3>2, ConnectType DEF RunEffects, TypeOK
  <2>2. CASE ~(DepsOf(view) # connectDeps /\ view.hydrated /\ view.networkError = None)
    BY <1>4, <2>2 DEF RunEffects, TypeOK
  <2> QED BY <2>1, <2>2
<1>5. CASE SyncUrl
  <2>0. /\ seenUrl' = param /\ effects' = "begun"
        /\ UNCHANGED <<attempt, view, connectDeps, flushSync, param>>
    BY <1>5 DEF SyncUrl
  <2>1. CASE param \in Unregistered /\ BlockUnknownNetwork(st, param, "url") /\ url' = url
    <3>1. param \in Names /\ st \in ReactState
      BY <2>1 DEF Names, TypeOK
    <3> QED BY <2>0, <2>1, <3>1, BlockType DEF TypeOK
  <2>2. CASE param \in Networks /\ SelectNetwork(param)
    <3>1. param \in Names
      BY <2>2 DEF Names
    <3> QED BY <2>0, <2>2, <3>1, SelectType DEF TypeOK
  <2>3. CASE UNCHANGED <<nextSessionId, aborted, ref, st, url>>
    BY <2>0, <2>3 DEF TypeOK
  <2>4. CASE /\ ref' = [ref EXCEPT !.networkError = None]
             /\ st' = [st EXCEPT !.networkError = None]
             /\ UNCHANGED <<nextSessionId, aborted, url>>
    <3>1. ref' \in Refs /\ st' \in ReactState
      BY <2>4 DEF TypeOK, Refs, ReactState
    <3> QED BY <2>0, <2>4, <3>1 DEF TypeOK
  <2>5. CASE BlockUnknownNetwork(st, ref.network, "default") /\ url' = url
    <3>1. ref.network \in Names /\ st \in ReactState
      BY DEF TypeOK, Refs
    <3> QED BY <2>0, <2>5, <3>1, BlockType DEF TypeOK
  <2> QED BY <1>5, <2>1, <2>2, <2>3, <2>4, <2>5 DEF SyncUrl
<1>6. ASSUME NEW n \in Names, SetNetwork(n) PROVE TypeOK'
  BY <1>6, SelectType DEF SetNetwork, FlushClick, TypeOK
<1>7. ASSUME NEW n \in Names \cup {None}, NavigateUrl(n) PROVE TypeOK'
  BY <1>7 DEF NavigateUrl, TypeOK
<1>8. ASSUME NEW s \in Settings, SetConnectionSettings(s) PROVE TypeOK'
  <2>1. ref' \in Refs
    BY <1>8 DEF SetConnectionSettings, TypeOK, Refs
  <2>2. aborted' \subseteq Ids
    BY <1>8, AbortType DEF SetConnectionSettings, RetireSession, TypeOK
  <2>3. st' \in ReactState
    <3>1. [st EXCEPT !.settings = s] \in ReactState
      BY DEF TypeOK, ReactState
    <3>2. [[st EXCEPT !.settings = s] EXCEPT !.sdk = 0, !.status = "connecting",
                                              !.error = None] \in ReactState
      BY <3>1, ConstantTypes DEF ReactState, Statuses
    <3> QED BY <1>8, <3>1, <3>2 DEF SetConnectionSettings, RetireSession
  <2> QED BY <1>8, <2>1, <2>2, <2>3 DEF SetConnectionSettings, FlushClick, TypeOK
<1>9. ASSUME NEW sync \in BOOLEAN, Reconnect(sync) PROVE TypeOK'
  <2>1. Connect(ref.network, ref.settings) /\ ref.network \in Names /\ ref.settings \in Settings
    BY <1>9 DEF Reconnect, TypeOK, Refs
  <2> QED BY <1>9, <2>1, ConnectType DEF Reconnect, FlushClick, TypeOK
<1>10. CASE Remount
  <2>1. aborted' \subseteq Ids
    BY <1>10, AbortType DEF Remount, MountAgain
  <2> QED BY <1>10, <2>1, ConstantTypes DEF Remount, MountAgain, TypeOK
<1>11. ASSUME NEW i \in Ids, Continue(i) PROVE TypeOK'
  <2> USE DEF ContinuationFrame
  <2>0. /\ "none" \in WasmStates /\ "live" \in WasmStates /\ "orphan" \in WasmStates
        /\ "failed" \in Failures /\ "unreachable" \in Failures /\ "timeout" \in Failures
    BY DEF WasmStates, Failures
  <2>1. CASE ConstructDone(i)
    <3>1. CASE Retired(i)
      BY <2>0, <2>1, <3>1, FinishType DEF ConstructDone, TypeOK
    <3>2. CASE ~Retired(i)
      <4>1. [attempt[i] EXCEPT !.phase = "connecting", !.wasm = "pending"] \in Attempts
        BY DEF TypeOK, Attempts, Phases, WasmStates
      <4>2. attempt' \in [Ids -> Attempts]
        BY <2>1, <3>2, <4>1 DEF ConstructDone, TypeOK
      <4> QED BY <2>1, <3>2, <4>2 DEF ConstructDone, TypeOK
    <3> QED BY <3>1, <3>2
  <2>2. CASE ConstructFails(i)
    BY <2>0, <2>2, FinishType, FailedType, PublishType DEF ConstructFails, TypeOK
  <2>3. CASE ConnectSucceeds(i)
    <3>1. [st EXCEPT !.sdk = i, !.status = "ready"] \in ReactState
      BY ConstantTypes DEF TypeOK, ReactState, Statuses
    <3>2. (IF Retired(i) THEN "none" ELSE "live") \in WasmStates
      BY <2>0
    <3> QED BY <2>3, <3>1, <3>2, FinishType, PublishType DEF ConnectSucceeds, TypeOK
  <2>4. CASE ConnectFails(i)
    BY <2>0, <2>4, FinishType, FailedType, PublishType DEF ConnectFails, TypeOK
  <2>5. CASE DeadlineExpires(i)
    BY <2>0, <2>5, FinishType, FailedType, PublishType DEF DeadlineExpires, TypeOK
  <2>6. CASE OrphanSettles(i)
    <3>1. [NoAttempt EXCEPT !.phase = "done"] \in Attempts
      BY ConstantTypes DEF Attempts, Phases
    <3> QED BY <2>6, <3>1 DEF OrphanSettles, TypeOK
  <2> QED BY <1>11, <2>1, <2>2, <2>3, <2>4, <2>5, <2>6 DEF Continue
<1>12. ASSUME NEW i \in Ids, NEW failed \in BOOLEAN, ReportUnreachable(i, failed)
       PROVE  TypeOK'
  <2>1. st' \in ReactState
    BY <1>12, ConstantTypes DEF ReportUnreachable, TypeOK, ReactState
  <2> QED BY <1>12, <2>1 DEF ReportUnreachable, TypeOK
<1>13. CASE UNCHANGED vars
  BY <1>13 DEF vars, TypeOK
<1> QED
  BY <1>1, <1>2, <1>3, <1>4, <1>5, <1>6, <1>7, <1>8, <1>9, <1>10, <1>11, <1>12, <1>13
     DEF Next, UserInput, React

LEMMA TypeInit == Init => TypeOK
  BY ConstantTypes, SessionAssumption DEF Init, TypeOK, Id0

\* Every variable of the provider keeps its type.
THEOREM TypeCorrect == Spec => []TypeOK
  BY TypeInit, TypeStep, PTL DEF Spec

-----------------------------------------------------------------------------
(* What the steps do to sessions.  Every step is one of six kinds; the     *)
(* invariants are then proved once for each kind.                          *)

SameRefs ==
    /\ ref'.active = ref.active
    /\ ref'.connecting = ref.connecting
    /\ ref'.controller = ref.controller

SameShown == st'.session = st.session /\ st'.signal = st.signal

\* Nothing about a session changes, except that a commit may show it.
QuietStep ==
    /\ UNCHANGED <<nextSessionId, aborted, attempt>>
    /\ SameRefs /\ SameShown
    /\ st'.sdk = st.sdk /\ st'.status = st.status
    /\ view'.sdk \in {view.sdk, st.sdk}

RetireStep ==
    /\ AbortController
    /\ UNCHANGED <<nextSessionId, attempt>>
    /\ SameRefs /\ SameShown
    /\ st'.sdk = 0 /\ view'.sdk = view.sdk

BlockStep ==
    /\ nextSessionId < MaxSessions /\ nextSessionId' = nextSessionId + 1
    /\ AbortController
    /\ attempt' = attempt
    /\ ref'.active = nextSessionId + 1 /\ ~ref'.connecting
    /\ ref'.controller = ref.controller
    /\ st'.sdk = 0 /\ view'.sdk = view.sdk

ConnectStep ==
    /\ \E net \in Names, settings \in Settings : Connect(net, settings)
    /\ view'.sdk = view.sdk

ContinueStep == \E i \in Ids : Continue(i)

\* Blocking a name is a block step, or leaves the state `s` it is given.
LEMMA BlockShape ==
  ASSUME TypeOK, NEW s \in ReactState, NEW name \in Names,
         NEW source \in {"url", "default", "selection"},
         BlockUnknownNetwork(s, name, source), attempt' = attempt, view' = view,
         s.sdk = st.sdk, s.status = st.status, s.session = st.session, s.signal = st.signal
  PROVE  BlockStep \/ QuietStep
<1>1. CASE ref.networkError = [name |-> name, source |-> source]
  BY <1>1 DEF BlockUnknownNetwork, QuietStep, SameRefs, SameShown
<1>2. CASE ref.networkError # [name |-> name, source |-> source]
  <2>1. /\ nextSessionId < MaxSessions /\ nextSessionId' = nextSessionId + 1
        /\ AbortController
        /\ ref' = BlockedRefs(ref, name, source, nextSessionId + 1)
        /\ st' = BlockedState(s, name, nextSessionId + 1)
    BY <1>2 DEF BlockUnknownNetwork
  <2>2. /\ ref'.active = nextSessionId + 1 /\ ref'.connecting = FALSE
        /\ ref'.controller = ref.controller
    BY <2>1 DEF BlockedRefs, TypeOK, Refs
  <2>3. st'.sdk = 0
    BY <2>1 DEF BlockedState, ReactState
  <2> QED BY <2>1, <2>2, <2>3 DEF BlockStep
<1> QED BY <1>1, <1>2

\* Selecting a network blocks it, retires the session or does nothing.
LEMMA SelectShape ==
  ASSUME TypeOK, NEW n \in Names, SelectNetwork(n), attempt' = attempt, view' = view
  PROVE  BlockStep \/ RetireStep \/ QuietStep
<1>1. CASE n \notin Networks
  <2>1. BlockUnknownNetwork(st, n, "selection") /\ st \in ReactState
    BY <1>1 DEF SelectNetwork, TypeOK
  <2> QED BY <2>1, BlockShape
<1>2. CASE n \in Networks /\ ref.network = n /\ ref.networkError = None
  BY <1>2 DEF SelectNetwork, QuietStep, SameRefs, SameShown
<1>3. CASE n \in Networks /\ ~(ref.network = n /\ ref.networkError = None)
  <2>1. /\ ref' = [ref EXCEPT !.networkError = None, !.network = n]
        /\ AbortController
        /\ st' = [[st EXCEPT !.networkError = None, !.network = n]
                    EXCEPT !.sdk = 0, !.status = "connecting", !.error = None]
        /\ nextSessionId' = nextSessionId
    BY <1>3 DEF SelectNetwork, RetireSession
  <2>2. SameRefs
    BY <2>1 DEF SameRefs, TypeOK, Refs
  <2>3. st'.sdk = 0 /\ SameShown
    BY <2>1 DEF SameShown, TypeOK, ReactState
  <2> QED BY <2>1, <2>2, <2>3 DEF RetireStep
<1> QED BY <1>1, <1>2, <1>3

LEMMA StepShape ==
  ASSUME TypeOK, [Next]_vars
  PROVE  QuietStep \/ RetireStep \/ BlockStep \/ ConnectStep \/ ContinueStep \/ Remount
<1> USE DEF providerVars, routerVars
<1>1. CASE Hydrate
  <2>1. PICK stored \in Names \cup {None}, storedSettings \in Settings :
         LET valid  == url \in Networks
             chosen == IF valid THEN url
                       ELSE IF stored \in Networks THEN stored ELSE DefaultNetwork
             next   == [st EXCEPT !.network = chosen, !.settings = storedSettings,
                                  !.hydrated = TRUE]
         IN IF url \in Unregistered THEN BlockUnknownNetwork(next, url, "url")
            ELSE IF chosen \notin Networks
            THEN BlockUnknownNetwork(next, chosen, "default")
            ELSE st' = next /\ UNCHANGED <<nextSessionId, aborted, ref>>
    BY <1>1 DEF Hydrate
  <2> DEFINE chosen == IF url \in Networks THEN url
                       ELSE IF stored \in Networks THEN stored ELSE DefaultNetwork
             next == [st EXCEPT !.network = chosen, !.settings = storedSettings,
                                !.hydrated = TRUE]
  <2>2. chosen \in Names
    BY SessionAssumption DEF Names
  <2>3. /\ next \in ReactState
        /\ next.sdk = st.sdk /\ next.status = st.status
        /\ next.session = st.session /\ next.signal = st.signal
    BY <2>2 DEF TypeOK, ReactState
  <2>4. attempt' = attempt /\ view' = view
    BY <1>1 DEF Hydrate
  <2>5. CASE url \in Unregistered
    <3>1. BlockUnknownNetwork(next, url, "url") /\ url \in Names
      BY <2>1, <2>5 DEF Names
    <3> QED BY <3>1, <2>3, <2>4, BlockShape
  <2>6. CASE url \notin Unregistered /\ chosen \notin Networks
    <3>1. BlockUnknownNetwork(next, chosen, "default")
      BY <2>1, <2>6
    <3> HIDE DEF chosen, next
    <3> QED BY <3>1, <2>2, <2>3, <2>4, BlockShape
  <2>7. CASE url \notin Unregistered /\ chosen \in Networks
    <3>1. st' = next /\ UNCHANGED <<nextSessionId, aborted, ref>>
      BY <2>1, <2>7
    <3> HIDE DEF chosen, next
    <3> QED BY <3>1, <2>3, <2>4 DEF QuietStep, SameRefs, SameShown
  <2> QED BY <2>5, <2>6, <2>7
<1>2. CASE Commit
  <2>1. SameRefs
    BY <1>2 DEF Commit, SameRefs, TypeOK, Refs
  <2> QED BY <1>2, <2>1 DEF Commit, QuietStep, SameShown
<1>3. CASE CommitNavigation
  BY <1>3 DEF CommitNavigation, QuietStep, SameRefs, SameShown
<1>4. CASE RunEffects
  <2>1. CASE DepsOf(view) # connectDeps /\ view.hydrated /\ view.networkError = None
    <3>1. Connect(view.network, ref.settings) /\ view' = view
      BY <1>4, <2>1 DEF RunEffects
    <3>2. view.network \in Names /\ ref.settings \in Settings
      BY DEF TypeOK, ReactState, Refs
    <3> QED BY <3>1, <3>2 DEF ConnectStep
  <2>2. CASE ~(DepsOf(view) # connectDeps /\ view.hydrated /\ view.networkError = None)
    BY <1>4, <2>2 DEF RunEffects, QuietStep, SameRefs, SameShown
  <2> QED BY <2>1, <2>2
<1>5. CASE SyncUrl
  <2>0. attempt' = attempt /\ view' = view
    BY <1>5 DEF SyncUrl
  <2>1. CASE param \in Unregistered /\ BlockUnknownNetwork(st, param, "url")
    <3>1. param \in Names /\ st \in ReactState
      BY <2>1 DEF Names, TypeOK
    <3> QED BY <2>0, <2>1, <3>1, BlockShape
  <2>2. CASE param \in Networks /\ SelectNetwork(param)
    <3>1. param \in Names
      BY <2>2 DEF Names
    <3> QED BY <2>0, <2>2, <3>1, SelectShape
  <2>3. CASE UNCHANGED <<nextSessionId, aborted, ref, st, url>>
    BY <2>0, <2>3 DEF QuietStep, SameRefs, SameShown
  <2>4. CASE /\ ref' = [ref EXCEPT !.networkError = None]
             /\ st' = [st EXCEPT !.networkError = None]
             /\ UNCHANGED <<nextSessionId, aborted, url>>
    BY <2>0, <2>4 DEF TypeOK, Refs, ReactState, QuietStep, SameRefs, SameShown
  <2>5. CASE BlockUnknownNetwork(st, ref.network, "default") /\ url' = url
    <3>1. ref.network \in Names /\ st \in ReactState
      BY DEF TypeOK, Refs
    <3> QED BY <2>0, <2>5, <3>1, BlockShape
  <2> QED BY <1>5, <2>1, <2>2, <2>3, <2>4, <2>5 DEF SyncUrl
<1>6. ASSUME NEW n \in Names, SetNetwork(n) PROVE BlockStep \/ RetireStep \/ QuietStep
  BY <1>6, SelectShape DEF SetNetwork
<1>7. ASSUME NEW n \in Names \cup {None}, NavigateUrl(n) PROVE QuietStep
  BY <1>7 DEF NavigateUrl, QuietStep, SameRefs, SameShown
<1>8. ASSUME NEW s \in Settings, SetConnectionSettings(s) PROVE RetireStep \/ QuietStep
  <2>1. SameRefs
    BY <1>8 DEF SetConnectionSettings, SameRefs, TypeOK, Refs
  <2>2. UNCHANGED <<nextSessionId, attempt, view>>
    BY <1>8 DEF SetConnectionSettings
  <2>3. CASE st' = [st EXCEPT !.settings = s] /\ UNCHANGED aborted
    <3>1. SameShown /\ st'.sdk = st.sdk /\ st'.status = st.status
      BY <2>3 DEF SameShown, TypeOK, ReactState
    <3> QED BY <2>1, <2>2, <2>3, <3>1 DEF QuietStep
  <2>4. CASE RetireSession([st EXCEPT !.settings = s])
    <3>1. SameShown /\ st'.sdk = 0
      BY <2>4 DEF RetireSession, SameShown, TypeOK, ReactState
    <3> QED BY <2>1, <2>2, <2>4, <3>1 DEF RetireStep, RetireSession
  <2> QED BY <1>8, <2>3, <2>4 DEF SetConnectionSettings
<1>9. ASSUME NEW sync \in BOOLEAN, Reconnect(sync) PROVE ConnectStep
  <2>1. Connect(ref.network, ref.settings) /\ ref.network \in Names /\ ref.settings \in Settings
    BY <1>9 DEF Reconnect, TypeOK, Refs
  <2> QED BY <1>9, <2>1 DEF Reconnect, ConnectStep
<1>10. ASSUME NEW i \in Ids, NEW failed \in BOOLEAN, ReportUnreachable(i, failed)
       PROVE  QuietStep
  <2>1. SameShown /\ st'.sdk = st.sdk /\ st'.status = st.status
    BY <1>10 DEF ReportUnreachable, SameShown, TypeOK, ReactState
  <2> QED BY <1>10, <2>1 DEF ReportUnreachable, QuietStep, SameRefs
<1>11. CASE UNCHANGED vars
  BY <1>11 DEF vars, QuietStep, SameRefs, SameShown
<1> QED
  BY <1>1, <1>2, <1>3, <1>4, <1>5, <1>6, <1>7, <1>8, <1>9, <1>10, <1>11
     DEF Next, UserInput, React, ContinueStep

-----------------------------------------------------------------------------
(* The inductive invariant.  LiveAttemptShown is what makes it inductive:  *)
(* a continuation that is not aborted belongs to the session shown.        *)

\* What the invariant needs of connect().
LEMMA ConnectFacts ==
  ASSUME SessionInv, NEW net \in Names, NEW settings \in Settings, Connect(net, settings)
  PROVE  LET id == nextSessionId + 1 IN
         /\ id \in Ids /\ nextSessionId' = id /\ AbortController
         /\ attempt[id] = NoAttempt
         /\ attempt'[id].phase = "loading" /\ attempt'[id].wasm = "none"
         /\ \A j \in Ids \ {id} : attempt'[j] = attempt[j]
         /\ ref'.active = id /\ ref'.connecting /\ ref'.controller = id
         /\ st'.session = id /\ st'.signal = id /\ st'.sdk = 0
<1>1. nextSessionId + 1 \in Ids /\ nextSessionId \in Nat
  BY SessionAssumption DEF Connect, SessionInv, TypeOK, Id0, Ids
<1>2. attempt[nextSessionId + 1] = NoAttempt
  BY <1>1 DEF SessionInv, FreshIds
<1>3. attempt \in [Ids -> Attempts] /\ ref \in Refs /\ st \in ReactState
  BY DEF SessionInv, TypeOK
<1>4. /\ attempt'[nextSessionId + 1].phase = "loading"
      /\ attempt'[nextSessionId + 1].wasm = "none"
      /\ \A j \in Ids \ {nextSessionId + 1} : attempt'[j] = attempt[j]
  BY <1>1, <1>3 DEF Connect
<1>5. /\ ref'.active = nextSessionId + 1 /\ ref'.connecting
      /\ ref'.controller = nextSessionId + 1
  BY <1>3 DEF Connect, Refs
<1>6. /\ st'.session = nextSessionId + 1 /\ st'.signal = nextSessionId + 1 /\ st'.sdk = 0
  BY <1>3 DEF Connect, ReactState
<1> QED BY <1>1, <1>2, <1>4, <1>5, <1>6 DEF Connect

\* What the invariant needs of the end of an attempt.
LEMMA FinishFacts ==
  ASSUME SessionInv, NEW i \in Ids, NEW w \in WasmStates, Finish(i, w)
  PROVE  /\ attempt'[i].phase = "done" /\ attempt'[i].wasm = w
         /\ \A j \in Ids \ {i} : attempt'[j] = attempt[j]
         /\ ref'.active = ref.active /\ ref'.controller = ref.controller
         /\ ref'.connecting = (ref.connecting /\ ref.active # i)
<1>1. attempt \in [Ids -> Attempts] /\ ref \in Refs
  BY DEF SessionInv, TypeOK
<1>2. \A j \in Ids \ {i} : attempt'[j] = attempt[j]
  BY <1>1 DEF Finish
<1>3. attempt'[i].phase = "done" /\ attempt'[i].wasm = w
  BY <1>1 DEF Finish, NoAttempt, Attempts
<1>4. /\ ref'.active = ref.active /\ ref'.controller = ref.controller
      /\ ref'.connecting = (ref.connecting /\ ref.active # i)
  BY <1>1 DEF Finish, Settle, Refs
<1> QED BY <1>2, <1>3, <1>4

\* An attempt under way that is not aborted: nothing is published yet.
LEMMA UnderWay ==
  ASSUME SessionInv, NEW i \in Ids, i \notin aborted,
         attempt[i].phase \in {"loading", "connecting"}
  PROVE  /\ st.sdk = 0 /\ i = ref.active /\ i = st.session /\ i = st.signal
<1>1. i = ref.active /\ i = st.session /\ i = st.signal
  BY DEF SessionInv, LiveAttemptShown
<1>2. ASSUME st.sdk # 0 PROVE FALSE
  <2>1. st.sdk = i /\ attempt[i].wasm = "live"
    BY <1>1, <1>2 DEF SessionInv, PublishedIsCurrent
  <2> QED BY <2>1 DEF SessionInv, PhaseOwns
<1> QED BY <1>1, <1>2

\* The end of attempt i, published as `next` unless it was superseded.
LEMMA EndStep ==
  ASSUME SessionInv, TypeOK', NEW i \in Ids, NEW w \in WasmStates, NEW next \in ReactState,
         attempt[i].phase \in {"loading", "connecting"},
         Finish(i, w), Publish(i, next), ContinuationFrame,
         next.session = st.session, next.signal = st.signal,
         \/ next.sdk = st.sdk
         \/ next.sdk = i /\ next.status = "ready" /\ (~Retired(i) => w = "live")
  PROVE  SessionInv'
<1>1. /\ nextSessionId' = nextSessionId /\ aborted' = aborted /\ view' = view
  BY DEF ContinuationFrame
<1>2. /\ attempt'[i].phase = "done" /\ attempt'[i].wasm = w
      /\ \A j \in Ids \ {i} : attempt'[j] = attempt[j]
      /\ ref'.active = ref.active /\ ref'.controller = ref.controller
      /\ ref'.connecting = (ref.connecting /\ ref.active # i)
  BY FinishFacts
<1>3. attempt[i].wasm \notin {"live", "orphan"} /\ attempt[i].phase # "none"
  BY DEF SessionInv, PhaseOwns
<1>4. st'.session = st.session /\ st'.signal = st.signal
  BY DEF Publish
<1>5. st'.sdk \in {st.sdk, i} /\ (st'.sdk # st.sdk => ~Retired(i) /\ w = "live")
  BY DEF Publish
<1>6. FreshIds'
  <2>1. i <= nextSessionId
    BY <1>3 DEF SessionInv, FreshIds, NoAttempt, TypeOK, Ids, Id0
  <2> QED BY <1>1, <1>2, <2>1 DEF SessionInv, FreshIds, TypeOK, Ids, Id0
<1>7. PhaseOwns'
  BY <1>2 DEF SessionInv, PhaseOwns
<1>8. LiveAttemptShown'
  BY <1>1, <1>2, <1>3, <1>4 DEF SessionInv, LiveAttemptShown
<1>9. PublishedIsCurrent'
  <2>1. CASE Retired(i)
    <3>1. st' = st
      BY <2>1 DEF Publish
    <3>2. st.sdk # 0 => st.sdk # i
      BY <1>3 DEF SessionInv, PublishedIsCurrent
    <3>3. st.sdk \in Id0
      BY DEF SessionInv, TypeOK, ReactState
    <3>4. st.sdk # 0 => st.sdk \in Ids
      BY <3>3, SessionAssumption DEF Id0, Ids
    <3>5. st.sdk # 0 => attempt'[st.sdk] = attempt[st.sdk]
      BY <3>2, <3>4, <1>2
    <3> QED BY <3>1, <3>5, <1>1, <1>2 DEF SessionInv, PublishedIsCurrent
  <2>2. CASE ~Retired(i)
    <3>1. st.sdk = 0 /\ i = ref.active /\ i = st.session /\ i = st.signal
      BY <2>2, UnderWay DEF Retired
    <3>2. st' = next
      BY <2>2 DEF Publish
    <3> QED BY <2>2, <3>1, <3>2, <1>1, <1>2 DEF PublishedIsCurrent, Retired
  <2> QED BY <2>1, <2>2
<1>10. NoUseAfterFree'
  <2>1. ASSUME NEW k \in {st.sdk, view.sdk} \ {0} PROVE k \in Ids /\ attempt'[k].wasm = "live"
    <3>1. k \in Id0 /\ attempt[k].wasm = "live"
      BY <2>1 DEF SessionInv, TypeOK, ReactState, NoUseAfterFree
    <3>2. k \in Ids /\ k # i
      BY <2>1, <3>1, <1>3, SessionAssumption DEF Id0, Ids
    <3> QED BY <3>1, <3>2, <1>2
  <2>2. st'.sdk = i /\ st'.sdk # st.sdk => attempt'[i].wasm = "live"
    BY <1>5, <1>2
  <2> QED BY <1>1, <1>5, <2>1, <2>2 DEF NoUseAfterFree
<1>11. ConnectingFlagAccurate'
  <2>1. ref.active \in Id0
    BY DEF SessionInv, TypeOK, Refs
  <2>2. ref.active # 0 => ref.active \in Ids
    BY <2>1, SessionAssumption DEF Id0, Ids
  <2>3. CASE ref.active = i
    BY <2>3, <1>2 DEF ConnectingFlagAccurate
  <2>4. CASE ref.active # i
    <3>1. ref.active # 0 => attempt'[ref.active] = attempt[ref.active]
      BY <2>2, <2>4, <1>2
    <3> QED BY <2>4, <3>1, <1>2 DEF SessionInv, ConnectingFlagAccurate
  <2> QED BY <2>3, <2>4
<1> QED BY <1>6, <1>7, <1>8, <1>9, <1>10, <1>11 DEF SessionInv

\* The ids that ref and state name, when they name one.
LEMMA NamedIds ==
  ASSUME TypeOK
  PROVE  /\ st.sdk # 0 => st.sdk \in Ids
         /\ view.sdk # 0 => view.sdk \in Ids
         /\ ref.active # 0 => ref.active \in Ids
         /\ ref.controller # 0 => ref.controller \in Ids
  BY SessionAssumption DEF TypeOK, ReactState, Refs, Id0, Ids

LEMMA QuietKeeps ==
  ASSUME SessionInv, TypeOK', QuietStep
  PROVE  SessionInv'
<1> USE DEF QuietStep, SameRefs, SameShown, SessionInv
<1>1. FreshIds' /\ PhaseOwns'
  BY DEF FreshIds, PhaseOwns
<1>2. LiveAttemptShown'
  BY DEF LiveAttemptShown
<1>3. PublishedIsCurrent'
  BY DEF PublishedIsCurrent
<1>4. NoUseAfterFree'
  BY DEF NoUseAfterFree
<1>5. ConnectingFlagAccurate'
  BY DEF ConnectingFlagAccurate
<1> QED BY <1>1, <1>2, <1>3, <1>4, <1>5

\* After the controller's signal is aborted no attempt is live.
LEMMA AllAborted ==
  ASSUME SessionInv, AbortController
  PROVE  \A i \in Ids : attempt[i].phase # "none" => i \in aborted'
  BY DEF SessionInv, LiveAttemptShown, AbortController, Ids

LEMMA RetireKeeps ==
  ASSUME SessionInv, TypeOK', RetireStep
  PROVE  SessionInv'
<1> USE DEF RetireStep, SameRefs, SameShown, SessionInv
<1>1. FreshIds' /\ PhaseOwns'
  BY DEF FreshIds, PhaseOwns
<1>2. LiveAttemptShown'
  BY AllAborted DEF LiveAttemptShown
<1>3. PublishedIsCurrent'
  BY DEF PublishedIsCurrent
<1>4. NoUseAfterFree'
  BY DEF NoUseAfterFree
<1>5. ConnectingFlagAccurate'
  BY DEF ConnectingFlagAccurate
<1> QED BY <1>1, <1>2, <1>3, <1>4, <1>5

LEMMA BlockKeeps ==
  ASSUME SessionInv, TypeOK', BlockStep
  PROVE  SessionInv'
<1> USE DEF BlockStep, SessionInv
<1>0. nextSessionId \in Nat /\ nextSessionId + 1 \in Ids
  BY SessionAssumption DEF TypeOK, Id0, Ids
<1>1. FreshIds' /\ PhaseOwns'
  BY <1>0 DEF FreshIds, PhaseOwns, Ids
<1>2. LiveAttemptShown'
  BY AllAborted DEF LiveAttemptShown
<1>3. PublishedIsCurrent'
  BY DEF PublishedIsCurrent
<1>4. NoUseAfterFree'
  BY DEF NoUseAfterFree
<1>5. ConnectingFlagAccurate'
  <2>1. attempt[nextSessionId + 1].phase = "none"
    BY <1>0 DEF FreshIds, NoAttempt
  <2> QED BY <2>1 DEF ConnectingFlagAccurate
<1> QED BY <1>1, <1>2, <1>3, <1>4, <1>5

LEMMA ConnectKeeps ==
  ASSUME SessionInv, TypeOK', ConnectStep
  PROVE  SessionInv'
<1>1. PICK net \in Names, settings \in Settings : Connect(net, settings)
  BY DEF ConnectStep
<1> DEFINE id == nextSessionId + 1
<1>2. /\ id \in Ids /\ nextSessionId' = id /\ AbortController
      /\ attempt[id] = NoAttempt
      /\ attempt'[id].phase = "loading" /\ attempt'[id].wasm = "none"
      /\ \A j \in Ids \ {id} : attempt'[j] = attempt[j]
      /\ ref'.active = id /\ ref'.connecting /\ ref'.controller = id
      /\ st'.session = id /\ st'.signal = id /\ st'.sdk = 0
  BY <1>1, ConnectFacts
<1>3. nextSessionId \in Nat /\ view'.sdk = view.sdk
  BY DEF ConnectStep, SessionInv, TypeOK, Id0
<1>4. FreshIds'
  BY <1>2, <1>3 DEF SessionInv, FreshIds, Ids
<1> HIDE DEF id
<1>5. PhaseOwns'
  BY <1>2 DEF SessionInv, PhaseOwns
<1>6. LiveAttemptShown'
  <2>1. \A j \in Ids \ {id} : attempt'[j].phase # "none" => j \in aborted'
    BY <1>2, AllAborted
  <2> QED BY <1>2, <2>1 DEF LiveAttemptShown
<1>7. PublishedIsCurrent'
  BY <1>2 DEF PublishedIsCurrent
<1>8. NoUseAfterFree'
  <2>1. view.sdk # 0 => view.sdk \in Ids /\ attempt[view.sdk].wasm = "live"
    BY NamedIds DEF SessionInv, NoUseAfterFree
  <2>2. view.sdk # id \/ view.sdk = 0
    BY <2>1, <1>2 DEF NoAttempt
  <2> QED BY <1>2, <1>3, <2>1, <2>2 DEF NoUseAfterFree
<1>9. ConnectingFlagAccurate'
  BY <1>2 DEF ConnectingFlagAccurate, Ids
<1> QED BY <1>4, <1>5, <1>6, <1>7, <1>8, <1>9 DEF SessionInv

LEMMA RemountKeeps ==
  ASSUME SessionInv, TypeOK', Remount
  PROVE  SessionInv'
<1>1. /\ AbortController /\ UNCHANGED <<nextSessionId, attempt>>
      /\ ref' = InitialRefs /\ st' = InitialState /\ view' = InitialState
  BY DEF Remount, MountAgain
<1>2. FreshIds' /\ PhaseOwns'
  BY <1>1 DEF SessionInv, FreshIds, PhaseOwns
<1>3. LiveAttemptShown'
  BY <1>1, AllAborted DEF LiveAttemptShown
<1>4. PublishedIsCurrent' /\ NoUseAfterFree' /\ ConnectingFlagAccurate'
  BY <1>1 DEF PublishedIsCurrent, NoUseAfterFree, ConnectingFlagAccurate,
     InitialState, InitialRefs
<1> QED BY <1>2, <1>3, <1>4 DEF SessionInv

\* A continuation of connect().
LEMMA ContinueKeeps ==
  ASSUME SessionInv, TypeOK', NEW i \in Ids, Continue(i)
  PROVE  SessionInv'
<1>0. /\ "none" \in WasmStates /\ "live" \in WasmStates /\ "orphan" \in WasmStates
      /\ \A kind \in Failures :
            /\ Failed(kind) \in ReactState /\ Failed(kind).session = st.session
            /\ Failed(kind).signal = st.signal /\ Failed(kind).sdk = st.sdk
      /\ {"failed", "unreachable", "timeout"} \subseteq Failures
  BY FailedType DEF SessionInv, TypeOK, WasmStates, Failures, Failed, ReactState
<1>1. CASE ConstructDone(i)
  <2>1. CASE Retired(i)
    <3>1. Finish(i, "none") /\ Publish(i, st) /\ ContinuationFrame
      BY <1>1, <2>1 DEF ConstructDone, Publish
    <3> QED BY <1>1, <3>1, <1>0, EndStep DEF ConstructDone, SessionInv, TypeOK
  <2>2. CASE ~Retired(i)
    <3>1. /\ nextSessionId' = nextSessionId /\ aborted' = aborted /\ view' = view
          /\ ref' = ref /\ st' = st /\ attempt[i].phase = "loading"
      BY <1>1, <2>2 DEF ConstructDone, ContinuationFrame
    <3>2. /\ attempt'[i].phase = "connecting" /\ attempt'[i].wasm = "pending"
          /\ \A j \in Ids \ {i} : attempt'[j] = attempt[j]
      BY <1>1, <2>2 DEF ConstructDone, SessionInv, TypeOK, Attempts
    <3>3. i <= nextSessionId /\ attempt[i].wasm = "none"
      BY <3>1 DEF SessionInv, FreshIds, PhaseOwns, NoAttempt, TypeOK, Ids, Id0
    <3>4. FreshIds' /\ PhaseOwns'
      BY <3>1, <3>2, <3>3 DEF SessionInv, FreshIds, PhaseOwns, TypeOK, Ids, Id0
    <3>5. LiveAttemptShown'
      BY <3>1, <3>2 DEF SessionInv, LiveAttemptShown
    <3>6. PublishedIsCurrent'
      BY <3>1, <3>2, <3>3, NamedIds DEF SessionInv, PublishedIsCurrent
    <3>7. NoUseAfterFree'
      BY <3>1, <3>2, <3>3, NamedIds DEF SessionInv, NoUseAfterFree
    <3>8. ConnectingFlagAccurate'
      BY <3>1, <3>2, NamedIds DEF SessionInv, ConnectingFlagAccurate
    <3> QED BY <3>4, <3>5, <3>6, <3>7, <3>8 DEF SessionInv
  <2> QED BY <2>1, <2>2
<1>2. CASE ConstructFails(i)
  BY <1>2, <1>0, EndStep DEF ConstructFails
<1>3. CASE ConnectSucceeds(i)
  <2> DEFINE w == IF Retired(i) THEN "none" ELSE "live"
             next == [st EXCEPT !.sdk = i, !.status = "ready"]
  <2>1. Finish(i, w) /\ Publish(i, next) /\ ContinuationFrame /\ attempt[i].phase = "connecting"
    BY <1>3 DEF ConnectSucceeds
  <2>2. /\ next \in ReactState /\ next.session = st.session /\ next.signal = st.signal
        /\ next.sdk = i /\ next.status = "ready"
    BY ConstantTypes DEF SessionInv, TypeOK, ReactState, Statuses
  <2>3. w \in WasmStates /\ (~Retired(i) => w = "live")
    BY <1>0
  <2> HIDE DEF w, next
  <2> QED BY <2>1, <2>2, <2>3, EndStep
<1>4. CASE ConnectFails(i)
  BY <1>4, <1>0, EndStep DEF ConnectFails
<1>5. CASE DeadlineExpires(i)
  BY <1>5, <1>0, EndStep DEF DeadlineExpires
<1>6. CASE OrphanSettles(i)
  <2>1. /\ UNCHANGED <<nextSessionId, aborted, ref, st, view>> /\ attempt[i].wasm = "orphan"
    BY <1>6 DEF OrphanSettles, providerVars
  <2>2. /\ attempt'[i].phase = "done" /\ attempt'[i].wasm = "none"
        /\ \A j \in Ids \ {i} : attempt'[j] = attempt[j]
    BY <1>6 DEF OrphanSettles, SessionInv, TypeOK, NoAttempt, Attempts
  <2>3. i <= nextSessionId /\ attempt[i].phase = "done"
    BY <2>1 DEF SessionInv, FreshIds, PhaseOwns, NoAttempt, TypeOK, Ids, Id0
  <2>4. FreshIds' /\ PhaseOwns'
    BY <2>1, <2>2, <2>3 DEF SessionInv, FreshIds, PhaseOwns, TypeOK, Ids, Id0
  <2>5. LiveAttemptShown'
    BY <2>1, <2>2, <2>3 DEF SessionInv, LiveAttemptShown
  <2>6. PublishedIsCurrent'
    BY <2>1, <2>2, NamedIds DEF SessionInv, PublishedIsCurrent
  <2>7. NoUseAfterFree'
    BY <2>1, <2>2, NamedIds DEF SessionInv, NoUseAfterFree
  <2>8. ConnectingFlagAccurate'
    BY <2>1, <2>2, <2>3, NamedIds DEF SessionInv, ConnectingFlagAccurate
  <2> QED BY <2>4, <2>5, <2>6, <2>7, <2>8 DEF SessionInv
<1> QED BY <1>1, <1>2, <1>3, <1>4, <1>5, <1>6 DEF Continue

LEMMA SessionInit == Init => SessionInv
<1> SUFFICES ASSUME Init PROVE SessionInv
  OBVIOUS
<1>1. TypeOK
  BY TypeInit
<1>2. FreshIds /\ PhaseOwns /\ LiveAttemptShown
  BY DEF Init, FreshIds, PhaseOwns, LiveAttemptShown, NoAttempt
<1>3. PublishedIsCurrent /\ NoUseAfterFree /\ ConnectingFlagAccurate
  BY DEF Init, PublishedIsCurrent, NoUseAfterFree, ConnectingFlagAccurate,
     InitialState, InitialRefs
<1> QED BY <1>1, <1>2, <1>3 DEF SessionInv

LEMMA SessionStep == SessionInv /\ [Next]_vars => SessionInv'
<1> SUFFICES ASSUME SessionInv, [Next]_vars PROVE SessionInv'
  OBVIOUS
<1>1. TypeOK /\ TypeOK'
  BY TypeStep DEF SessionInv
<1> QED
  BY <1>1, StepShape, QuietKeeps, RetireKeeps, BlockKeeps, ConnectKeeps, ContinueKeeps,
     RemountKeeps DEF ContinueStep

\* The inductive invariant holds in every reachable state.
THEOREM SessionInvariant == Spec => []SessionInv
  BY SessionInit, SessionStep, PTL DEF Spec

\* At most one attempt is live, and it is the one the provider's controller aborts.
THEOREM OneLiveAttempt == Spec => []SingleLiveAttempt
<1>1. SessionInv => SingleLiveAttempt
  BY DEF SessionInv, LiveAttemptShown, SingleLiveAttempt
<1> QED BY <1>1, SessionInvariant, PTL

\* Only the current session's own, connected, not aborted SDK is published.
THEOREM PublishedCurrent == Spec => []PublishedIsCurrent
<1>1. SessionInv => PublishedIsCurrent
  BY DEF SessionInv
<1> QED BY <1>1, SessionInvariant, PTL

\* No SDK a component holds has been freed.
THEOREM NeverUsedFreed == Spec => []NoUseAfterFree
<1>1. SessionInv => NoUseAfterFree
  BY DEF SessionInv
<1> QED BY <1>1, SessionInvariant, PTL

\* reconnect() is refused exactly while an attempt is under way.
THEOREM ConnectingAccurate == Spec => []ConnectingFlagAccurate
<1>1. SessionInv => ConnectingFlagAccurate
  BY DEF SessionInv
<1> QED BY <1>1, SessionInvariant, PTL

\* An instance that connected stays only when this step publishes it.
LEMMA KeptStep ==
  ASSUME SessionInv, [Next]_vars, NEW i \in Ids,
         attempt'[i].wasm = "live", attempt[i].wasm # "live"
  PROVE  st'.sdk = i
<1>1. TypeOK
  BY DEF SessionInv
<1>2. ~(QuietStep \/ RetireStep \/ BlockStep \/ Remount)
  BY DEF QuietStep, RetireStep, BlockStep, Remount, MountAgain
<1>3. ~ConnectStep
  <2>1. ASSUME NEW net \in Names, NEW settings \in Settings, Connect(net, settings) PROVE FALSE
    <3>1. /\ attempt'[nextSessionId + 1].wasm = "none"
          /\ \A j \in Ids \ {nextSessionId + 1} : attempt'[j] = attempt[j]
      BY <2>1, ConnectFacts
    <3> QED BY <3>1
  <2> QED BY <2>1 DEF ConnectStep
<1>4. PICK k \in Ids : Continue(k)
  BY <1>1, <1>2, <1>3, StepShape DEF ContinueStep
<1>5. ASSUME NEW w \in WasmStates, w # "live", Finish(k, w) PROVE FALSE
  <2>1. attempt'[k].wasm = w /\ \A j \in Ids \ {k} : attempt'[j] = attempt[j]
    BY <1>5, FinishFacts
  <2> QED BY <1>5, <2>1
<1>6. "none" \in WasmStates /\ "orphan" \in WasmStates /\ "live" \in WasmStates
  BY DEF WasmStates
<1>7. CASE ConstructDone(k)
  <2>1. CASE Retired(k)
    BY <1>5, <1>6, <1>7, <2>1 DEF ConstructDone
  <2>2. CASE ~Retired(k)
    BY <1>1, <1>7, <2>2 DEF ConstructDone, TypeOK, Attempts
  <2> QED BY <2>1, <2>2
<1>8. CASE ConstructFails(k) \/ ConnectFails(k) \/ DeadlineExpires(k)
  BY <1>5, <1>6, <1>8 DEF ConstructFails, ConnectFails, DeadlineExpires
<1>9. CASE ConnectSucceeds(k)
  <2>1. CASE Retired(k)
    BY <1>5, <1>6, <1>9, <2>1 DEF ConnectSucceeds
  <2>2. CASE ~Retired(k)
    <3>1. Finish(k, "live") /\ st' = [st EXCEPT !.sdk = k, !.status = "ready"]
      BY <1>9, <2>2 DEF ConnectSucceeds, Publish
    <3>2. i = k
      BY <3>1, <1>6, FinishFacts
    <3> QED BY <3>1, <3>2, <1>1 DEF TypeOK, ReactState
  <2> QED BY <2>1, <2>2
<1>10. CASE OrphanSettles(k)
  BY <1>1, <1>10 DEF OrphanSettles, TypeOK, NoAttempt, Attempts
<1> QED BY <1>4, <1>7, <1>8, <1>9, <1>10 DEF Continue

\* Every connected instance is published or freed.
THEOREM NoInstanceForgotten == Spec => KeptOnlyIfPublished
<1>1. SessionInv /\ [Next]_vars =>
        [\A i \in Ids : attempt'[i].wasm = "live" /\ attempt[i].wasm # "live"
            => st'.sdk = i]_vars
  BY KeptStep
<1> QED BY <1>1, SessionInvariant, PTL DEF Spec, KeptOnlyIfPublished

-----------------------------------------------------------------------------
(* Refinement: every step is one the components below the provider expect. *)

\* Aborting the controller's signal aborts whatever SDK is queued.
LEMMA AbortEnds ==
  ASSUME SessionInv, AbortController
  PROVE  \E others \in SUBSET Feed!Sessions :
            aborted' = aborted \cup ({st.sdk} \ {0}) \cup others
<1> DEFINE others == {ref.controller} \ {0}
<1>1. others \in SUBSET Feed!Sessions
  BY NamedIds DEF SessionInv, Feed!Sessions, Ids
<1>2. st.sdk # 0 => st.sdk \in aborted'
  <2>1. st.sdk # 0 => st.sdk \in Ids /\ attempt[st.sdk].wasm = "live"
    BY NamedIds DEF SessionInv, PublishedIsCurrent
  <2>2. st.sdk # 0 => attempt[st.sdk].phase # "none"
    BY <2>1 DEF SessionInv, PhaseOwns
  <2> QED BY <2>1, <2>2, AllAborted
<1>3. aborted' = aborted \cup others
  BY DEF AbortController
<1>4. aborted' = aborted \cup ({st.sdk} \ {0}) \cup others
  BY <1>2, <1>3
<1> QED BY <1>1, <1>4

\* A continuation publishes the SDK of an attempt that is not aborted, or shows nothing.
LEMMA ContinueFeeds ==
  ASSUME SessionInv, NEW i \in Ids, Continue(i)
  PROVE  \/ Feed!PublishSdk(i)
         \/ st'.sdk = st.sdk /\ view' = view /\ aborted' = aborted
<1>1. st \in ReactState
  BY DEF SessionInv, TypeOK
<1>2. \A kind : Failed(kind).sdk = st.sdk
  BY <1>1 DEF Failed, ReactState
<1>3. CASE ConstructDone(i) \/ OrphanSettles(i)
  BY <1>3 DEF ConstructDone, OrphanSettles, ContinuationFrame, providerVars
<1>4. CASE ConstructFails(i) \/ ConnectFails(i) \/ DeadlineExpires(i)
  BY <1>2, <1>4 DEF ConstructFails, ConnectFails, DeadlineExpires, Publish, ContinuationFrame
<1>5. CASE ConnectSucceeds(i) /\ Retired(i)
  BY <1>5 DEF ConnectSucceeds, Publish, ContinuationFrame
<1>6. CASE ConnectSucceeds(i) /\ ~Retired(i)
  <2>1. st.sdk = 0 /\ i \notin aborted
    BY <1>6, UnderWay DEF ConnectSucceeds, Retired
  <2>2. st'.sdk = i
    BY <1>1, <1>6 DEF ConnectSucceeds, Publish, ReactState
  <2> QED BY <1>6, <2>1, <2>2 DEF ConnectSucceeds, ContinuationFrame, Feed!PublishSdk
<1> QED BY <1>3, <1>4, <1>5, <1>6 DEF Continue

LEMMA StepFeeds ==
  ASSUME SessionInv, [Next]_vars
  PROVE  [Feed!FeedNext]_(Feed!feedVars)
<1>1. CASE QuietStep
  BY <1>1 DEF QuietStep, Feed!FeedNext, Feed!RenderSdk, Feed!feedVars
<1>2. CASE RetireStep \/ BlockStep \/ ConnectStep
  <2>1. AbortController /\ st'.sdk = 0 /\ view'.sdk = view.sdk
    BY <1>2, ConnectFacts DEF RetireStep, BlockStep, ConnectStep
  <2>2. PICK others \in SUBSET Feed!Sessions :
           aborted' = aborted \cup ({st.sdk} \ {0}) \cup others
    BY <2>1, AbortEnds
  <2>3. Feed!RetireSdk(others)
    BY <2>1, <2>2 DEF Feed!RetireSdk
  <2> QED BY <2>3 DEF Feed!FeedNext
<1>3. CASE ContinueStep
  <2>1. PICK i \in Ids : Continue(i)
    BY <1>3 DEF ContinueStep
  <2>2. i \in Feed!Sessions
    BY DEF Ids, Feed!Sessions
  <2> QED BY <2>1, <2>2, ContinueFeeds DEF Feed!FeedNext, Feed!feedVars
<1>4. CASE Remount
  <2>1. AbortController /\ st'.sdk = 0 /\ view'.sdk = 0
    BY <1>4 DEF Remount, MountAgain, InitialState
  <2>2. PICK others \in SUBSET Feed!Sessions :
           aborted' = aborted \cup ({st.sdk} \ {0}) \cup others
    BY <2>1, AbortEnds
  <2>3. Feed!ReplaceProvider(others)
    BY <2>1, <2>2 DEF Feed!ReplaceProvider
  <2> QED BY <2>3 DEF Feed!FeedNext
<1> QED BY <1>1, <1>2, <1>3, <1>4, StepShape DEF SessionInv

\* The provider keeps what useSdk() promises: an SDK appears once, for a session that is
\* not aborted, and whatever takes it away aborts that session in the same step.
THEOREM ImplementsSessionFeed == Spec => FeedsSessions
<1>1. Init => Feed!FeedInit
  BY DEF Init, InitialState, Feed!FeedInit
<1>2. SessionInv /\ [Next]_vars => [Feed!FeedNext]_(Feed!feedVars)
  BY StepFeeds
<1> QED BY <1>1, <1>2, SessionInvariant, PTL DEF Spec, FeedsSessions, Feed!FeedSpec

-----------------------------------------------------------------------------
(* What children render: an SDK of the network and the options shown.     *)

\* The attempts that may still be rendered: under way, or published, and not made for a
\* name that was blocked in the same flush.
Counts(i) ==
    /\ i \notin aborted /\ ~attempt[i].blocked
    /\ attempt[i].phase \in {"loading", "connecting"} \/ attempt[i].wasm = "live"

\* Attempt i was made for the network and the options of the React state s.
Matches(i, s) ==
    /\ attempt[i].network = s.network
    /\ OptionsKey(attempt[i].network, attempt[i].settings) = OptionsKey(s.network, s.settings)

\* The connect effect of the last commit, or of the next one, starts a new attempt.
ConnectsNow ==
    /\ effects # "none" /\ DepsOf(view) # connectDeps
    /\ view.hydrated /\ view.networkError = None
ConnectsNext == st.hydrated /\ st.networkError = None /\ DepsOf(st) # DepsOf(view)

\* Refs follow the queued state; before the commit of the hydrated preferences those of
\* the selection lag behind.  The connect effect has seen each commit whose effects ran.
Mirrored ==
    /\ st.hydrated = view.hydrated => ref.network = st.network /\ ref.settings = st.settings
    /\ ref.networkError = None <=> st.networkError = None
    /\ view.hydrated => st.hydrated
    /\ effects = "none" => connectDeps = DepsOf(view)

\* No session before the preferences are read; none is rendered before they are.
BeforeHydration ==
    /\ ~st.hydrated => st.session = 0
    /\ ~view.hydrated => view.session = 0 /\ st.sdk = 0
    /\ st.session <= nextSessionId /\ view.session <= nextSessionId

\* An attempt that may be rendered was made for the selection, or is superseded before it.
Selected ==
    \A i \in Ids : Counts(i) =>
        /\ ref.networkError = None
        /\ Matches(i, st) \/ ConnectsNow \/ (ConnectsNext /\ view.session # i /\ st.sdk # i)

SelectionInv == Mirrored /\ BeforeHydration /\ Selected /\ ViewMatchesSelection

\* The fields of the records these proofs are about.
LEMMA FieldTypes ==
  ASSUME SessionInv
  PROVE  /\ st \in ReactState /\ view \in ReactState /\ ref \in Refs
         /\ attempt \in [Ids -> Attempts]
         /\ nextSessionId \in Nat /\ st.session \in Nat /\ view.session \in Nat
         /\ \A i \in Ids : i \in Nat /\ i # 0
         /\ view.sdk # 0 => view.sdk \in Ids /\ attempt[view.sdk].wasm = "live"
         /\ st.sdk # 0 => st.sdk \in Ids
  BY SMTT(20), NamedIds, SessionAssumption
     DEF SessionInv, TypeOK, NoUseAfterFree, ReactState, Id0, Ids

\* What a step that leaves the selection alone, and makes no attempt, keeps: it may end or
\* publish one.
LEMMA Carried ==
  ASSUME SessionInv, SelectionInv,
         aborted \subseteq aborted', view' = view, connectDeps' = connectDeps,
         effects' = "none" <=> effects = "none",
         nextSessionId' \in Nat, nextSessionId <= nextSessionId',
         st'.network = st.network, st'.settings = st.settings, st'.session = st.session,
         st'.hydrated = st.hydrated, st'.networkError = st.networkError,
         ref'.network = ref.network, ref'.settings = ref.settings,
         ref'.networkError = ref.networkError,
         st'.sdk \in {0, st.sdk} \/ (st'.sdk = view.session /\ view.session # 0),
         \A i \in Ids : Counts(i)' =>
            /\ Counts(i)
            /\ attempt'[i].network = attempt[i].network
            /\ attempt'[i].settings = attempt[i].settings,
         view.sdk # 0 => attempt'[view.sdk] = attempt[view.sdk]
  PROVE  SelectionInv'
<1>1. DepsOf(st)' = DepsOf(st) /\ DepsOf(view)' = DepsOf(view)
  BY DEF DepsOf
<1>2. Mirrored'
  BY <1>1 DEF SelectionInv, Mirrored
<1>3. BeforeHydration'
  BY FieldTypes DEF SelectionInv, BeforeHydration
<1>4. \A i \in Ids : Counts(i)' => (Matches(i, st) => Matches(i, st)')
  BY DEF Matches
<1>5. Selected'
  <2> SUFFICES ASSUME NEW i \in Ids, Counts(i)'
      PROVE  /\ ref'.networkError = None
             /\ \/ Matches(i, st)' \/ ConnectsNow'
                \/ ConnectsNext' /\ view'.session # i /\ st'.sdk # i
    BY DEF Selected
  <2>1. /\ ref.networkError = None
        /\ Matches(i, st) \/ ConnectsNow \/ (ConnectsNext /\ view.session # i /\ st.sdk # i)
    BY DEF SelectionInv, Selected
  <2>2. ConnectsNow => ConnectsNow'
    BY <1>1 DEF ConnectsNow
  <2>3. ConnectsNext => ConnectsNext'
    BY <1>1 DEF ConnectsNext
  <2> QED BY <1>4, <2>1, <2>2, <2>3, FieldTypes
<1>6. ViewMatchesSelection'
  BY DEF SelectionInv, ViewMatchesSelection
<1> QED BY <1>2, <1>3, <1>5, <1>6 DEF SelectionInv

\* What a step that ends every attempt leaves to show: what it does to refs and state.
LEMMA Ended ==
  ASSUME SessionInv, SelectionInv, AbortController, attempt' = attempt,
         Mirrored', BeforeHydration', view' = view \/ view'.sdk = 0
  PROVE  SelectionInv'
<1>1. \A i \in Ids : ~Counts(i)'
  BY AllAborted DEF Counts, SessionInv, PhaseOwns
<1>2. Selected'
  BY <1>1 DEF Selected
<1>3. ViewMatchesSelection'
  BY DEF SelectionInv, ViewMatchesSelection
<1> QED BY <1>2, <1>3 DEF SelectionInv

\* blockUnknownNetwork, of queued state `s`: nothing, or every attempt ends.
LEMMA BlockEffect ==
  ASSUME SessionInv, NEW s \in ReactState, NEW name \in Names,
         NEW source \in {"url", "default", "selection"}, BlockUnknownNetwork(s, name, source)
  PROVE  \/ /\ ref.networkError # None
            /\ st' = s /\ UNCHANGED <<nextSessionId, aborted, ref>>
         \/ /\ nextSessionId' = nextSessionId + 1 /\ AbortController
            /\ ref'.network = ref.network /\ ref'.settings = ref.settings
            /\ ref'.networkError # None
            /\ st'.network = s.network /\ st'.settings = s.settings
            /\ st'.hydrated = s.hydrated /\ st'.networkError # None
            /\ st'.session = nextSessionId + 1 /\ st'.sdk = 0
<1>1. /\ ref \in Refs /\ name # None
      /\ [name |-> name, source |-> source] # None
  BY SessionAssumption DEF SessionInv, TypeOK
<1>2. CASE ref.networkError = [name |-> name, source |-> source]
  <2>1. st' = s /\ UNCHANGED <<nextSessionId, aborted, ref>>
    BY <1>2 DEF BlockUnknownNetwork
  <2> QED BY <1>1, <1>2, <2>1
<1>3. CASE ref.networkError # [name |-> name, source |-> source]
  <2>1. /\ nextSessionId' = nextSessionId + 1 /\ AbortController
        /\ ref' = BlockedRefs(ref, name, source, nextSessionId + 1)
        /\ st' = BlockedState(s, name, nextSessionId + 1)
    BY <1>3 DEF BlockUnknownNetwork
  <2>2. /\ ref'.network = ref.network /\ ref'.settings = ref.settings
        /\ ref'.networkError # None
    BY <1>1, <2>1 DEF BlockedRefs, Refs
  <2>3. /\ st'.network = s.network /\ st'.settings = s.settings
        /\ st'.hydrated = s.hydrated /\ st'.networkError = name
        /\ st'.session = nextSessionId + 1 /\ st'.sdk = 0
    BY <1>1, <2>1 DEF BlockedState, ReactState
  <2> QED BY <1>1, <2>1, <2>2, <2>3
<1> QED BY <1>2, <1>3

\* A step of the effects or the router that leaves attempts, refs and state alone.
LEMMA UnchangedSelects ==
  ASSUME SessionInv, SelectionInv,
         UNCHANGED <<nextSessionId, aborted, attempt, ref, st, view, connectDeps>>,
         effects' = "none" <=> effects = "none"
  PROVE  SelectionInv'
<1>1. DepsOf(st)' = DepsOf(st) /\ DepsOf(view)' = DepsOf(view)
  BY DEF DepsOf
<1>2. Mirrored' /\ BeforeHydration'
  BY <1>1 DEF SelectionInv, Mirrored, BeforeHydration
<1>3. Selected'
  BY <1>1 DEF SelectionInv, Selected, Counts, Matches, ConnectsNow, ConnectsNext
<1>4. ViewMatchesSelection'
  BY DEF SelectionInv, ViewMatchesSelection
<1> QED BY <1>2, <1>3, <1>4 DEF SelectionInv

\* A name is blocked once the preferences are read.
LEMMA BlockSelects ==
  ASSUME SessionInv, SelectionInv, NEW name \in Names, st.hydrated,
         NEW source \in {"url", "default", "selection"}, BlockUnknownNetwork(st, name, source),
         UNCHANGED <<attempt, view, connectDeps>>, effects' = "none" <=> effects = "none"
  PROVE  SelectionInv'
<1>1. CASE st' = st /\ UNCHANGED <<nextSessionId, aborted, ref>>
  BY <1>1, UnchangedSelects
<1>2. CASE /\ nextSessionId' = nextSessionId + 1 /\ AbortController
           /\ ref'.network = ref.network /\ ref'.settings = ref.settings
           /\ ref'.networkError # None
           /\ st'.network = st.network /\ st'.settings = st.settings
           /\ st'.hydrated = st.hydrated /\ st'.networkError # None
           /\ st'.session = nextSessionId + 1 /\ st'.sdk = 0
  <2>1. Mirrored'
    BY <1>2 DEF SelectionInv, Mirrored, DepsOf
  <2>2. BeforeHydration'
    BY <1>2, FieldTypes DEF SelectionInv, BeforeHydration
  <2> QED BY <1>2, <2>1, <2>2, Ended
<1> QED BY <1>1, <1>2, FieldTypes, BlockEffect

\* The preferences are read: no attempt was made before.
LEMMA HydrateSelects ==
  ASSUME SessionInv, SelectionInv, Hydrate
  PROVE  SelectionInv'
<1>1. PICK stored \in Names \cup {None}, storedSettings \in Settings :
         LET valid  == url \in Networks
             chosen == IF valid THEN url
                       ELSE IF stored \in Networks THEN stored ELSE DefaultNetwork
             next   == [st EXCEPT !.network = chosen, !.settings = storedSettings,
                                  !.hydrated = TRUE]
         IN IF url \in Unregistered THEN BlockUnknownNetwork(next, url, "url")
            ELSE IF chosen \notin Networks
            THEN BlockUnknownNetwork(next, chosen, "default")
            ELSE st' = next /\ UNCHANGED <<nextSessionId, aborted, ref>>
  BY DEF Hydrate
<1>2. /\ ~st.hydrated
      /\ UNCHANGED <<attempt, view, connectDeps, effects>>
  BY DEF Hydrate
<1> DEFINE chosen == IF url \in Networks THEN url
                     ELSE IF stored \in Networks THEN stored ELSE DefaultNetwork
           next   == [st EXCEPT !.network = chosen, !.settings = storedSettings,
                                !.hydrated = TRUE]
<1>3. chosen \in Names
  BY SessionAssumption DEF Names
<1>4. /\ next \in ReactState /\ next.hydrated /\ next.networkError = st.networkError
      /\ next.session = st.session /\ next.sdk = st.sdk
  BY <1>3, FieldTypes DEF ReactState
<1>5. \/ UNCHANGED <<nextSessionId, aborted, ref>> /\ st' = next
      \/ \E name \in Names, source \in {"url", "default", "selection"} :
            BlockUnknownNetwork(next, name, source)
  BY <1>1, <1>3 DEF Names
<1> HIDE DEF next
<1>6. /\ ~view.hydrated /\ st.session = 0 /\ view.session = 0 /\ st.sdk = 0
      /\ effects = "none" => connectDeps = DepsOf(view)
      /\ ref.networkError = None <=> st.networkError = None
  BY <1>2 DEF SelectionInv, BeforeHydration, Mirrored
<1>7. \A i \in Ids : ~Counts(i)
  BY <1>6, FieldTypes DEF Counts, SessionInv, PhaseOwns, LiveAttemptShown
<1>8. CASE UNCHANGED <<nextSessionId, aborted, ref>> /\ st' = next
  <2>1. Mirrored' /\ BeforeHydration'
    BY <1>2, <1>4, <1>6, <1>8, FieldTypes DEF Mirrored, BeforeHydration, DepsOf
  <2>2. Selected' /\ ViewMatchesSelection'
    BY <1>2, <1>7, <1>8 DEF Selected, Counts, SelectionInv, ViewMatchesSelection
  <2> QED BY <2>1, <2>2 DEF SelectionInv
<1>9. ASSUME NEW name \in Names, NEW source \in {"url", "default", "selection"},
             BlockUnknownNetwork(next, name, source)
      PROVE  SelectionInv'
  <2>1. CASE st' = next /\ UNCHANGED <<nextSessionId, aborted, ref>>
    BY <1>8, <2>1
  <2>2. CASE /\ nextSessionId' = nextSessionId + 1 /\ AbortController
             /\ ref'.networkError # None
             /\ st'.hydrated = next.hydrated /\ st'.networkError # None
             /\ st'.session = nextSessionId + 1 /\ st'.sdk = 0
    <3>1. Mirrored'
      BY <1>2, <1>4, <1>6, <2>2 DEF Mirrored, DepsOf
    <3>2. BeforeHydration'
      BY <1>2, <1>4, <1>6, <2>2, FieldTypes DEF BeforeHydration
    <3> QED BY <1>2, <2>2, <3>1, <3>2, Ended
  <2> QED BY <1>4, <1>9, <2>1, <2>2, BlockEffect
<1> QED BY <1>5, <1>8, <1>9

\* React renders the queued state.
LEMMA CommitSelects ==
  ASSUME SessionInv, SelectionInv, Commit
  PROVE  SelectionInv'
<1>1. /\ effects = "none" /\ effects' # "none" /\ view' = st /\ st' = st
      /\ ref' = [ref EXCEPT !.network = st.network, !.settings = st.settings]
      /\ UNCHANGED <<nextSessionId, aborted, attempt, connectDeps>>
  BY DEF Commit
<1>2. /\ ref'.network = st.network /\ ref'.settings = st.settings
      /\ ref'.networkError = ref.networkError
  BY <1>1, FieldTypes DEF Refs
<1>3. Mirrored'
  BY <1>1, <1>2 DEF SelectionInv, Mirrored
<1>4. BeforeHydration'
  BY <1>1 DEF SelectionInv, BeforeHydration, Mirrored
<1>5. connectDeps = DepsOf(view) /\ DepsOf(view)' = DepsOf(st) /\ ~ConnectsNow
  BY <1>1 DEF SelectionInv, Mirrored, DepsOf, ConnectsNow
<1>6. Selected'
  <2> SUFFICES ASSUME NEW i \in Ids, Counts(i)'
      PROVE  ref'.networkError = None /\ (Matches(i, st)' \/ ConnectsNow')
    BY DEF Selected
  <2>1. /\ ref.networkError = None
        /\ Matches(i, st) \/ ConnectsNext
    BY <1>1, <1>5 DEF SelectionInv, Selected, Counts
  <2>2. Matches(i, st) => Matches(i, st)'
    BY <1>1 DEF Matches
  <2>3. ConnectsNext => ConnectsNow'
    BY <1>1, <1>5 DEF ConnectsNext, ConnectsNow
  <2> QED BY <1>2, <2>1, <2>2, <2>3
<1>7. ViewMatchesSelection'
  <2> SUFFICES ASSUME st.sdk # 0, ~attempt[st.sdk].blocked PROVE Matches(st.sdk, st)
    BY <1>1 DEF ViewMatchesSelection, Matches
  <2>1. st.sdk \in Ids /\ Counts(st.sdk)
    BY FieldTypes DEF Counts, SessionInv, PublishedIsCurrent
  <2> QED BY <1>5, <2>1 DEF SelectionInv, Selected
<1> QED BY <1>3, <1>4, <1>6, <1>7 DEF SelectionInv

\* The router renders a navigation.
LEMMA CommitNavigationSelects ==
  ASSUME SessionInv, SelectionInv, CommitNavigation
  PROVE  SelectionInv'
<1>1. /\ effects = "none" /\ st = view
      /\ UNCHANGED <<nextSessionId, aborted, attempt, ref, st, view, connectDeps>>
  BY DEF CommitNavigation
<1>2. Mirrored' /\ BeforeHydration'
  BY <1>1 DEF SelectionInv, Mirrored, BeforeHydration, DepsOf
<1>3. \A i \in Ids : Counts(i)' => Counts(i) /\ (Matches(i, st) => Matches(i, st)')
  BY <1>1 DEF Counts, Matches
<1>4. ~ConnectsNow /\ ~ConnectsNext
  BY <1>1 DEF ConnectsNow, ConnectsNext
<1>5. Selected' /\ ViewMatchesSelection'
  BY <1>1, <1>3, <1>4 DEF SelectionInv, Selected, ViewMatchesSelection
<1> QED BY <1>2, <1>5 DEF SelectionInv

\* connect(): what it was given is the selection, or another attempt follows.
LEMMA ConnectSelects ==
  ASSUME SessionInv, SelectionInv, NEW net \in Names, Connect(net, ref.settings),
         st.hydrated, view' = view, effects' = "none" => connectDeps' = DepsOf(view),
         ref.networkError = None =>
            \/ net = st.network /\ ref.settings = st.settings
            \/ DepsOf(st) # DepsOf(view)
  PROVE  SelectionInv'
<1> DEFINE id == nextSessionId + 1
<1>1. /\ st \in ReactState /\ ref \in Refs /\ attempt \in [Ids -> Attempts]
      /\ ref.settings \in Settings
  BY FieldTypes DEF Refs
<1>2. /\ id \in Ids /\ nextSessionId' = id /\ AbortController
      /\ attempt[id] = NoAttempt
      /\ \A j \in Ids \ {id} : attempt'[j] = attempt[j]
      /\ st'.session = id /\ st'.sdk = 0
  BY <1>1, ConnectFacts
<1>3. /\ attempt'[id].network = net /\ attempt'[id].settings = ref.settings
      /\ attempt'[id].blocked = (ref.networkError # None)
  BY <1>1, <1>2 DEF Connect
<1>4. /\ ref'.network = ref.network /\ ref'.settings = ref.settings
      /\ ref'.networkError = ref.networkError
  BY <1>1 DEF Connect, Refs
<1>5. /\ st'.network = st.network /\ st'.settings = st.settings
      /\ st'.hydrated = st.hydrated /\ st'.networkError = st.networkError
  BY <1>1 DEF Connect, ReactState
<1>6. DepsOf(st)' = DepsOf(st) /\ DepsOf(view)' = DepsOf(view)
  BY <1>5 DEF DepsOf
<1>7. view.sdk # id \/ view.sdk = 0
  BY <1>2, FieldTypes DEF NoAttempt
<1>8. id \in Nat /\ nextSessionId < id /\ view.session # id /\ id # 0
  BY FieldTypes DEF SelectionInv, BeforeHydration
<1> HIDE DEF id
<1>9. Mirrored'
  BY <1>4, <1>5, <1>6 DEF SelectionInv, Mirrored
<1>10. BeforeHydration'
  BY <1>2, <1>5, <1>8, FieldTypes DEF SelectionInv, BeforeHydration
<1>11. Selected'
  <2> SUFFICES ASSUME NEW i \in Ids, Counts(i)'
      PROVE  /\ ref'.networkError = None
             /\ \/ Matches(i, st)'
                \/ ConnectsNext' /\ view'.session # i /\ st'.sdk # i
    BY DEF Selected
  <2>1. i = id
    BY <1>2, AllAborted DEF Counts, SessionInv, PhaseOwns
  <2>2. ref.networkError = None
    BY <1>3, <2>1 DEF Counts
  <2>3. CASE net = st.network /\ ref.settings = st.settings
    <3>1. attempt'[i].network = st'.network /\ attempt'[i].settings = st'.settings
      BY <1>3, <1>5, <2>1, <2>3
    <3>2. Matches(i, st)'
      BY <3>1 DEF Matches
    <3> QED BY <1>4, <2>2, <3>2
  <2>4. CASE DepsOf(st) # DepsOf(view)
    BY <1>2, <1>4, <1>5, <1>6, <1>8, <2>1, <2>2, <2>4 DEF SelectionInv, Mirrored, ConnectsNext
  <2> QED BY <2>2, <2>3, <2>4
<1>12. ViewMatchesSelection'
  BY <1>2, <1>7, FieldTypes DEF SelectionInv, ViewMatchesSelection
<1> QED BY <1>9, <1>10, <1>11, <1>12 DEF SelectionInv

\* The effects of a commit run: connect(), or nothing.
LEMMA RunEffectsSelects ==
  ASSUME SessionInv, SelectionInv, RunEffects
  PROVE  SelectionInv'
<1>1. /\ effects' = "none" /\ connectDeps' = DepsOf(view) /\ view' = view
      /\ DepsOf(view)' = DepsOf(view)
  BY DEF RunEffects, DepsOf
<1>2. CASE DepsOf(view) # connectDeps /\ view.hydrated /\ view.networkError = None
  <2>1. Connect(view.network, ref.settings)
    BY <1>2 DEF RunEffects
  <2>2. view.network \in Names
    BY FieldTypes DEF ReactState
  <2>3. st.hydrated /\ ref.settings = st.settings
    BY <1>2 DEF SelectionInv, Mirrored
  <2>4. view.network = st.network \/ DepsOf(st) # DepsOf(view)
    BY DEF DepsOf
  <2> QED BY <1>1, <2>1, <2>2, <2>3, <2>4, ConnectSelects
<1>3. CASE ~(DepsOf(view) # connectDeps /\ view.hydrated /\ view.networkError = None)
  <2>1. UNCHANGED <<nextSessionId, aborted, attempt, ref, st>>
    BY <1>3 DEF RunEffects
  <2>2. Mirrored' /\ BeforeHydration'
    BY <1>1, <2>1 DEF SelectionInv, Mirrored, BeforeHydration
  <2>3. \A i \in Ids : Counts(i)' => Counts(i) /\ (Matches(i, st) => Matches(i, st)')
    BY <2>1 DEF Counts, Matches
  <2>4. ~ConnectsNow /\ (ConnectsNext => ConnectsNext')
    BY <1>1, <1>3, <2>1 DEF ConnectsNow, ConnectsNext, DepsOf
  <2>5. Selected'
    BY <1>1, <2>1, <2>3, <2>4 DEF SelectionInv, Selected
  <2>6. ViewMatchesSelection'
    BY <1>1, <2>1 DEF SelectionInv, ViewMatchesSelection
  <2> QED BY <2>2, <2>5, <2>6 DEF SelectionInv
<1> QED BY <1>2, <1>3

\* Reconnect connects to what the refs hold: the selection, or what precedes it before the
\* commit of the preferences.
LEMMA ReconnectSelects ==
  ASSUME SessionInv, SelectionInv, NEW sync \in BOOLEAN, Reconnect(sync)
  PROVE  SelectionInv'
<1>1. /\ st.hydrated /\ Connect(ref.network, ref.settings)
      /\ UNCHANGED <<view, connectDeps, effects>>
  BY DEF Reconnect, InputAllowed
<1>2. ref.network \in Names
  BY FieldTypes DEF Refs
<1>3. effects' = "none" => connectDeps' = DepsOf(view)
  BY <1>1 DEF SelectionInv, Mirrored
<1>4. \/ ref.network = st.network /\ ref.settings = st.settings
      \/ DepsOf(st) # DepsOf(view)
  BY DEF SelectionInv, Mirrored, DepsOf
<1> QED BY <1>1, <1>2, <1>3, <1>4, ConnectSelects

\* Refs and queued state after a selection, by the user or by the URL.
LEMMA SelectNetworkSelects ==
  ASSUME SessionInv, SelectionInv, NEW n \in Names, SelectNetwork(n), st.hydrated,
         UNCHANGED <<attempt, view, connectDeps>>, effects' = "none" <=> effects = "none"
  PROVE  SelectionInv'
<1>1. DepsOf(view)' = DepsOf(view) /\ view.hydrated' = view.hydrated
  BY DEF DepsOf
<1>2. CASE n \notin Networks
  <2>1. BlockUnknownNetwork(st, n, "selection")
    BY <1>2 DEF SelectNetwork
  <2> QED BY <2>1, BlockSelects
<1>3. CASE n \in Networks /\ ref.network = n /\ ref.networkError = None
  <2>1. UNCHANGED <<nextSessionId, aborted, ref, st>>
    BY <1>3 DEF SelectNetwork
  <2> QED BY <2>1, UnchangedSelects
<1>4. CASE n \in Networks /\ ~(ref.network = n /\ ref.networkError = None)
  <2>1. /\ ref' = [ref EXCEPT !.networkError = None, !.network = n]
        /\ RetireSession([st EXCEPT !.networkError = None, !.network = n])
        /\ UNCHANGED nextSessionId
    BY <1>4 DEF SelectNetwork
  <2>2. /\ ref'.networkError = None /\ ref'.network = n /\ ref'.settings = ref.settings
        /\ st'.networkError = None /\ st'.network = n /\ st'.settings = st.settings
        /\ st'.hydrated = st.hydrated /\ st'.session = st.session /\ st'.sdk = 0
    BY <2>1, FieldTypes DEF RetireSession, Refs, ReactState
  <2>3. Mirrored' /\ BeforeHydration'
    BY <1>1, <2>1, <2>2 DEF SelectionInv, Mirrored, BeforeHydration
  <2> QED BY <2>1, <2>3, Ended DEF RetireSession
<1> QED BY <1>2, <1>3, <1>4

\* A click on a network.
LEMMA SetNetworkSelects ==
  ASSUME SessionInv, SelectionInv, NEW n \in Names, SetNetwork(n)
  PROVE  SelectionInv'
<1>1. SelectNetwork(n) /\ st.hydrated /\ UNCHANGED <<attempt, view, connectDeps, effects>>
  BY DEF SetNetwork, InputAllowed
<1> QED BY <1>1, SelectNetworkSelects

\* The URL's parameter is reported.
LEMMA SyncUrlSelects ==
  ASSUME SessionInv, SelectionInv, SyncUrl
  PROVE  SelectionInv'
<1>1. /\ st.hydrated
      /\ UNCHANGED <<attempt, view, connectDeps>>
      /\ effects' = "none" <=> effects = "none"
  BY DEF SyncUrl, UrlSyncDue, SelectionInv, Mirrored
<1>2. CASE param \in Unregistered /\ BlockUnknownNetwork(st, param, "url")
  <2>1. param \in Names
    BY <1>2 DEF Names
  <2> QED BY <1>1, <1>2, <2>1, BlockSelects
<1>3. CASE param \in Networks /\ SelectNetwork(param)
  <2>1. param \in Names
    BY <1>3 DEF Names
  <2> QED BY <1>1, <1>3, <2>1, SelectNetworkSelects
<1>4. CASE ref.networkError = None \/ ref.networkError.source # "url"
  <2>1. CASE UNCHANGED <<nextSessionId, aborted, ref, st>>
    BY <1>1, <2>1, UnchangedSelects
  <2> QED BY <1>2, <1>3, <1>4, <2>1 DEF SyncUrl
<1>5. CASE ~(ref.networkError = None \/ ref.networkError.source # "url")
  <2>1. CASE /\ ref' = [ref EXCEPT !.networkError = None]
             /\ st' = [st EXCEPT !.networkError = None]
             /\ UNCHANGED <<nextSessionId, aborted>>
    <3>1. /\ ref'.networkError = None /\ st'.networkError = None
          /\ ref'.network = ref.network /\ ref'.settings = ref.settings
          /\ st'.network = st.network /\ st'.settings = st.settings
          /\ st'.hydrated = st.hydrated /\ st'.session = st.session /\ st'.sdk = st.sdk
      BY <2>1, FieldTypes DEF Refs, ReactState
    <3>2. Mirrored' /\ BeforeHydration'
      BY <1>1, <2>1, <3>1 DEF SelectionInv, Mirrored, BeforeHydration, DepsOf
    <3>3. \A i \in Ids : ~Counts(i)'
      BY <1>1, <1>5, <2>1 DEF SelectionInv, Selected, Counts
    <3>4. Selected' /\ ViewMatchesSelection'
      BY <1>1, <3>3 DEF Selected, SelectionInv, ViewMatchesSelection
    <3> QED BY <3>2, <3>4 DEF SelectionInv
  <2>2. CASE BlockUnknownNetwork(st, ref.network, "default")
    <3>1. ref.network \in Names
      BY FieldTypes DEF Refs
    <3> QED BY <1>1, <2>2, <3>1, BlockSelects
  <2> QED BY <1>2, <1>3, <1>5, <2>1, <2>2 DEF SyncUrl
<1> QED BY <1>4, <1>5

\* Settings are saved: every attempt ends, or its options stay those of the selection.
LEMMA SettingsSelect ==
  ASSUME SessionInv, SelectionInv, NEW s \in Settings, SetConnectionSettings(s)
  PROVE  SelectionInv'
<1> DEFINE changes == OptionsKey(ref.network, ref.settings) # OptionsKey(ref.network, s)
           next == [st EXCEPT !.settings = s]
<1>1. /\ st.hydrated /\ ref' = [ref EXCEPT !.settings = s]
      /\ UNCHANGED <<nextSessionId, attempt, view, connectDeps, effects>>
  BY DEF SetConnectionSettings, InputAllowed
<1>2. /\ ref'.settings = s /\ ref'.network = ref.network
      /\ ref'.networkError = ref.networkError
  BY <1>1, FieldTypes DEF Refs
<1>3. \/ RetireSession(next)
      \/ /\ st' = next /\ aborted' = aborted
         /\ ~changes \/ ref.networkError # None
  BY DEF SetConnectionSettings
<1>4. /\ st'.settings = s /\ st'.network = st.network /\ st'.hydrated = st.hydrated
      /\ st'.networkError = st.networkError /\ st'.session = st.session
      /\ st'.sdk \in {0, st.sdk}
  BY <1>3, FieldTypes DEF RetireSession, ReactState
<1>5. Mirrored' /\ BeforeHydration'
  BY <1>1, <1>2, <1>4 DEF SelectionInv, Mirrored, BeforeHydration, DepsOf
<1>6. CASE RetireSession(next)
  BY <1>1, <1>5, <1>6, Ended DEF RetireSession
<1>7. CASE st' = next /\ aborted' = aborted /\ (~changes \/ ref.networkError # None)
  <2>1. \A i \in Ids : Counts(i)' => Counts(i)
    BY <1>1, <1>7 DEF Counts
  <2>2. Selected'
    <3> SUFFICES ASSUME NEW i \in Ids, Counts(i)'
        PROVE  /\ ref'.networkError = None
               /\ \/ Matches(i, st)' \/ ConnectsNow'
                  \/ ConnectsNext' /\ view'.session # i /\ st'.sdk # i
      BY DEF Selected
    <3>1. /\ ref.networkError = None /\ ~changes
          /\ Matches(i, st) \/ ConnectsNow \/ (ConnectsNext /\ view.session # i /\ st.sdk # i)
      BY <1>7, <2>1 DEF SelectionInv, Selected
    <3>2. CASE st.hydrated = view.hydrated
      <4>1. ref.network = st.network /\ ref.settings = st.settings
        BY <3>2 DEF SelectionInv, Mirrored
      <4>2. OptionsKey(st'.network, st'.settings) = OptionsKey(st.network, st.settings)
        BY <1>4, <3>1, <4>1
      <4>3. DepsOf(st)' = DepsOf(st) /\ DepsOf(view)' = DepsOf(view)
        BY <1>1, <1>4, <4>2 DEF DepsOf
      <4>4. Matches(i, st) => Matches(i, st)'
        BY <1>1, <1>4, <4>2 DEF Matches
      <4>5. (ConnectsNow => ConnectsNow') /\ (ConnectsNext => ConnectsNext')
        BY <1>1, <1>4, <4>3 DEF ConnectsNow, ConnectsNext
      <4> QED BY <1>1, <1>2, <1>4, <3>1, <4>4, <4>5, FieldTypes
    <3>3. CASE st.hydrated # view.hydrated
      <4>1. ~view.hydrated /\ view.session = 0 /\ st.sdk = 0
        BY <3>3, FieldTypes DEF ReactState, SelectionInv, Mirrored, BeforeHydration
      <4>2. DepsOf(st)' # DepsOf(view)'
        BY <1>1, <1>4, <3>3 DEF DepsOf
      <4>3. ConnectsNext'
        BY <1>1, <1>4, <3>1, <4>2 DEF ConnectsNext, SelectionInv, Mirrored
      <4> QED BY <1>1, <1>2, <1>4, <3>1, <4>1, <4>3, FieldTypes
    <3> QED BY <3>2, <3>3
  <2>3. ViewMatchesSelection'
    BY <1>1 DEF SelectionInv, ViewMatchesSelection
  <2> QED BY <1>5, <2>2, <2>3 DEF SelectionInv
<1> QED BY <1>3, <1>6, <1>7

\* A query reports, or a link changes the address bar.
LEMMA ReportSelects ==
  ASSUME SessionInv, SelectionInv,
         \/ \E i \in Ids, failed \in BOOLEAN : ReportUnreachable(i, failed)
         \/ \E n \in Names \cup {None} : NavigateUrl(n)
  PROVE  SelectionInv'
<1>1. /\ UNCHANGED <<nextSessionId, aborted, attempt, ref, view, connectDeps, effects>>
      /\ st' = st \/ \E u : st' = [st EXCEPT !.unreachable = u]
  BY DEF ReportUnreachable, NavigateUrl
<1>2. /\ st'.network = st.network /\ st'.settings = st.settings /\ st'.session = st.session
      /\ st'.hydrated = st.hydrated /\ st'.networkError = st.networkError
      /\ st'.sdk = st.sdk
  BY <1>1, FieldTypes DEF ReactState
<1>3. \A i \in Ids : Counts(i)' => Counts(i)
  BY <1>1 DEF Counts
<1>4. nextSessionId' \in Nat /\ nextSessionId <= nextSessionId'
  BY <1>1, FieldTypes
<1> QED BY <1>1, <1>2, <1>3, <1>4, Carried

\* A provider mounts again.
LEMMA RemountSelects ==
  ASSUME SessionInv, SelectionInv, Remount
  PROVE  SelectionInv'
<1>1. /\ AbortController /\ UNCHANGED <<nextSessionId, attempt>>
      /\ ref' = InitialRefs /\ st' = InitialState /\ view' = InitialState
      /\ connectDeps' = DepsOf(InitialState)
  BY DEF Remount, MountAgain
<1>2. Mirrored' /\ BeforeHydration'
  BY <1>1, FieldTypes DEF Mirrored, BeforeHydration, InitialState, InitialRefs, DepsOf
<1>3. view'.sdk = 0
  BY <1>1 DEF InitialState
<1> QED BY <1>1, <1>2, <1>3, Ended

\* A continuation of connect(): the attempt goes on, ends, or is published once rendered.
LEMMA ContinueSelects ==
  ASSUME SessionInv, SelectionInv, NEW i \in Ids, Continue(i)
  PROVE  SelectionInv'
<1>1. /\ UNCHANGED <<nextSessionId, aborted, view, connectDeps, effects>>
      /\ st \in ReactState /\ ref \in Refs /\ attempt \in [Ids -> Attempts]
  BY FieldTypes DEF Continue, ConstructDone, ConstructFails, ConnectSucceeds, ConnectFails,
     DeadlineExpires, OrphanSettles, ContinuationFrame, providerVars
<1>2. /\ ref'.network = ref.network /\ ref'.settings = ref.settings
      /\ ref'.networkError = ref.networkError
  <2>1. ref' = ref \/ ref' = [ref EXCEPT !.connecting = FALSE]
    BY DEF Continue, ConstructDone, ConstructFails, ConnectSucceeds, ConnectFails,
       DeadlineExpires, OrphanSettles, Finish, Settle, providerVars
  <2> QED BY <1>1, <2>1 DEF Refs
<1>3. /\ st'.network = st.network /\ st'.settings = st.settings /\ st'.session = st.session
      /\ st'.hydrated = st.hydrated /\ st'.networkError = st.networkError
      /\ st'.sdk = st.sdk \/ (st'.sdk = view.session /\ view.session # 0)
  <2>1. CASE ConstructDone(i) \/ OrphanSettles(i)
    BY <2>1 DEF ConstructDone, OrphanSettles, providerVars
  <2>2. CASE ConstructFails(i) \/ ConnectFails(i) \/ DeadlineExpires(i)
    <3>1. st' = st \/ \E kind : st' = Failed(kind)
      BY <2>2 DEF ConstructFails, ConnectFails, DeadlineExpires, Publish
    <3> QED BY <1>1, <3>1 DEF Failed, ReactState
  <2>3. CASE ConnectSucceeds(i)
    <3>1. st' = st \/ (st' = [st EXCEPT !.sdk = i, !.status = "ready"] /\ view.session = i)
      BY <2>3 DEF ConnectSucceeds, Publish, Rendered
    <3> QED BY <1>1, <3>1, FieldTypes DEF ReactState
  <2> QED BY <2>1, <2>2, <2>3 DEF Continue
<1>4. /\ \A j \in Ids \ {i} : attempt'[j] = attempt[j]
      /\ \/ attempt'[i].phase = "done" /\ attempt'[i].wasm # "live"
         \/ /\ attempt[i].phase \in {"loading", "connecting"}
            /\ attempt'[i].network = attempt[i].network
            /\ attempt'[i].settings = attempt[i].settings
            /\ attempt'[i].blocked = attempt[i].blocked
  <2>1. CASE ConstructDone(i) /\ ~Retired(i)
    BY <1>1, <2>1 DEF ConstructDone, Attempts
  <2>2. ASSUME Finish(i, "none") \/ Finish(i, "orphan")
        PROVE  /\ \A j \in Ids \ {i} : attempt'[j] = attempt[j]
               /\ attempt'[i].phase = "done" /\ attempt'[i].wasm # "live"
    BY <2>2, FinishFacts DEF WasmStates
  <2>3. CASE ConnectSucceeds(i) /\ ~Retired(i)
    <3>1. /\ attempt[i].phase = "connecting"
          /\ attempt' = [attempt EXCEPT ![i] = [@ EXCEPT !.phase = "done", !.wasm = "live"]]
      BY <2>3 DEF ConnectSucceeds, Finish
    <3> QED BY <1>1, <3>1 DEF Attempts
  <2>4. CASE OrphanSettles(i)
    BY <1>1, <2>4 DEF OrphanSettles, NoAttempt
  <2> QED BY <2>1, <2>2, <2>3, <2>4 DEF Continue, ConstructDone, ConstructFails,
             ConnectSucceeds, ConnectFails, DeadlineExpires
<1>5. \A j \in Ids : Counts(j)' =>
         /\ Counts(j)
         /\ attempt'[j].network = attempt[j].network
         /\ attempt'[j].settings = attempt[j].settings
  BY <1>1, <1>4 DEF Counts
<1>6. view.sdk # 0 => attempt'[view.sdk] = attempt[view.sdk]
  <2>1. CASE view.sdk # i
    BY <1>4, <2>1, FieldTypes
  <2>2. CASE view.sdk = i
    <3>1. attempt[i].wasm = "live" /\ attempt[i].phase = "done"
      BY <2>2, FieldTypes DEF SessionInv, PhaseOwns
    <3> QED BY <3>1 DEF Continue, ConstructDone, ConstructFails, ConnectSucceeds,
               ConnectFails, DeadlineExpires, OrphanSettles
  <2> QED BY <2>1, <2>2
<1> QED BY <1>1, <1>2, <1>3, <1>5, <1>6, FieldTypes, Carried

LEMMA SelectionInit == Init => SelectionInv
<1> SUFFICES ASSUME Init PROVE SelectionInv
  OBVIOUS
<1>1. Mirrored /\ BeforeHydration
  BY DEF Init, Mirrored, BeforeHydration, InitialState, InitialRefs
<1>2. Selected /\ ViewMatchesSelection
  BY DEF Init, Selected, Counts, ViewMatchesSelection, InitialState, NoAttempt
<1> QED BY <1>1, <1>2 DEF SelectionInv

LEMMA SelectionStep == SessionInv /\ SelectionInv /\ [Next]_vars => SelectionInv'
<1> SUFFICES ASSUME SessionInv, SelectionInv, [Next]_vars PROVE SelectionInv'
  OBVIOUS
<1>1. CASE UserInput
  BY <1>1, SetNetworkSelects, ReportSelects, SettingsSelect, ReconnectSelects, RemountSelects
     DEF UserInput
<1>2. CASE React
  BY <1>2, HydrateSelects, CommitSelects, CommitNavigationSelects, SyncUrlSelects,
     RunEffectsSelects DEF React
<1>3. CASE UNCHANGED vars
  BY <1>3, UnchangedSelects DEF vars, providerVars
<1> QED BY <1>1, <1>2, <1>3, ContinueSelects, ReportSelects DEF Next

\* Children never render an SDK of another network, or of other options, than those they
\* render with it (the retire in selectNetwork, the connect-on-change effect).
THEOREM ViewMatches == Spec => []ViewMatchesSelection
<1>1. SelectionInv => ViewMatchesSelection
  BY DEF SelectionInv
<1>2. Spec => []SelectionInv
  BY SessionInvariant, SelectionInit, SelectionStep, PTL DEF Spec
<1> QED BY <1>1, <1>2, PTL

=============================================================================
