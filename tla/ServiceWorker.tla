----------------------------- MODULE ServiceWorker -----------------------------
(***************************************************************************)
(* The offline service worker (scripts/sw/service-worker.js), the pages that *)
(* register it and switch to a newer one (src/util/service-worker.ts), the   *)
(* site they are deployed from, and the browser's registration.              *)
(*                                                                         *)
(* A build is a release: its pages name it, its worker keeps caches named    *)
(* after it, and its static files are known by their hash.  Build b has two  *)
(* of them: its own file b, and file 0, which no build changes.  Every build *)
(* serves its own file at the same path.                                    *)
(***************************************************************************)
EXTENDS Naturals, FiniteSets

CONSTANTS
    MaxBuild,      \* builds are numbered from 1; 0 stands for none
    Tabs,
    MaxDeploys,    \* bound: deploys and roll-backs
    None

ASSUME WorkerAssumption ==
    /\ MaxBuild \in Nat \ {0} /\ MaxDeploys \in Nat
    /\ None \notin 0..MaxBuild

VARIABLES
    deployed,   \* the build the site serves
    edge,       \* the build whose sw.js the CDN's edge serves
    deploys,    \* how many deploys there were
    pages,      \* pages[b]: the build of the home page in the pages cache of b
    statics,    \* statics[b]: the files in the static cache of b
    installing, \* the registration: the installing worker
    waiting,    \* the installed one
    active,     \* the active one
    skip,       \* skipWaiting() was called in the waiting worker
    activating, \* the activate event is under way
    install,    \* the precaching under way: what its two Cache objects hold,
                \* and whether those caches still exist
    tab,        \* the open pages
    consent,    \* history: the user pressed Reload for the waiting worker, or
                \* had a page of its build
    swept       \* history: builds whose caches were deleted before activation, and
                \* not filled by an installation since

siteVars == <<deployed, edge, deploys>>
cacheVars == <<pages, statics>>
regVars == <<installing, waiting, active, skip, activating, install>>
historyVars == <<consent, swept>>
vars == <<siteVars, cacheVars, regVars, tab, historyVars>>

Builds == 1..MaxBuild
Build0 == 0..MaxBuild
AssetsOf(b) == {0, b}

\* CONFIG.shell: the home page (as the offline one) and the files it references.
Home == MaxBuild + 1
Shell(b) == {Home} \cup AssetsOf(b)

NoInstall == [has |-> {}, live |-> FALSE, carried |-> FALSE]

\* `overtaken` is history: a worker of another build took the page over and no reload
\* was offered since, by whether the page was listening.
Closed == [release |-> 0, controller |-> 0, started |-> FALSE, changed |-> FALSE,
           asks |-> {}, offer |-> None, reloading |-> FALSE, overtaken |-> "no"]

Init ==
    /\ deployed = 1 /\ edge = 1 /\ deploys = 0
    /\ pages = [b \in Builds |-> 0]
    /\ statics = [b \in Builds |-> {}]
    /\ installing = 0 /\ waiting = 0 /\ active = 0 /\ skip = FALSE /\ activating = FALSE
    /\ install = NoInstall
    /\ tab = [t \in Tabs |-> Closed]
    /\ consent = FALSE /\ swept = {}

-----------------------------------------------------------------------------
(* The site.  A request to it may also fail.                               *)

Deploy(b) ==
    /\ deploys < MaxDeploys /\ b # deployed
    /\ deployed' = b
    /\ deploys' = deploys + 1
    /\ UNCHANGED <<edge, cacheVars, regVars, tab, historyVars>>

EdgeRefreshes ==
    /\ edge # deployed
    /\ edge' = deployed
    /\ UNCHANGED <<deployed, deploys, cacheVars, regVars, tab, historyVars>>

\* What the site answers to the path of file f.
Served(f) == IF f = 0 THEN 0 ELSE deployed

\* storeAsset: the bytes are stored if they match this build's hash.
BugStoreAnyBytes(b, f) == [statics EXCEPT ![b] = @ \cup {Served(f)}]
StoreAsset(b, f) == [statics EXCEPT ![b] = IF Served(f) = f THEN @ \cup {f} ELSE @]

\* storePage: the page is stored if it names this build.
StorePage(b) == [pages EXCEPT ![b] = IF deployed = b THEN b ELSE @]

-----------------------------------------------------------------------------
(* Installing.                                                             *)

\* The browser fetches sw.js; other bytes than the newest worker's are a new one.  A
\* first worker activates before the next update check.
UpdateFound ==
    /\ installing = 0 /\ (active = 0 => waiting = 0)
    /\ edge # (IF waiting # 0 THEN waiting ELSE active)
    /\ active # 0 \/ \E t \in Tabs : tab[t].started
    /\ installing' = edge
    /\ install' = [has |-> statics[edge], live |-> TRUE, carried |-> FALSE]
    /\ UNCHANGED <<siteVars, cacheVars, waiting, active, skip, activating, tab, historyVars>>

\* Put into the caches opened at the start, which may have been deleted since.
Put(item) ==
    /\ install' = [install EXCEPT !.has = @ \cup {item}]
    /\ IF ~install.live THEN UNCHANGED cacheVars
       ELSE IF item = Home
       THEN pages' = [pages EXCEPT ![installing] = deployed] /\ UNCHANGED statics
       ELSE statics' = [statics EXCEPT ![installing] = @ \cup {item}] /\ UNCHANGED pages

CarryOverUnchangedAssets ==
    /\ installing # 0 /\ ~install.carried
    /\ LET found == (UNION {statics[b] : b \in Builds}) \cap AssetsOf(installing) IN
       /\ install' = [install EXCEPT !.carried = TRUE, !.has = @ \cup found]
       /\ statics' = IF install.live
                     THEN [statics EXCEPT ![installing] = @ \cup found] ELSE statics
    /\ UNCHANGED <<siteVars, pages, installing, waiting, active, skip, activating, tab,
                   historyVars>>

BelongsToBuild(item) ==
    IF item = Home THEN deployed = installing ELSE Served(item) = item

\* One file of the shell: another build's, or an unreachable one, fails the install.
Precache(item) ==
    /\ installing # 0 /\ install.carried
    /\ item \in Shell(installing) \ install.has
    /\ \/ BelongsToBuild(item) /\ Put(item) /\ UNCHANGED installing
       \/ installing' = 0 /\ install' = NoInstall /\ UNCHANGED cacheVars
    /\ UNCHANGED <<siteVars, waiting, active, skip, activating, tab, historyVars>>

Ask(t, kind, worker) == [tab[t] EXCEPT !.asks = @ \cup {<<kind, worker>>}]

\* Promise.all: every file was stored.
Precached == install.carried /\ Shell(installing) \subseteq install.has

\* Controlled pages that follow the installing worker inspect it.
Installed ==
    /\ installing # 0 /\ Precached
    /\ waiting' = installing
    /\ skip' = FALSE /\ consent' = FALSE
    /\ installing' = 0 /\ install' = NoInstall
    /\ tab' = [t \in Tabs |-> IF tab[t].started /\ tab[t].controller # 0
                              THEN Ask(t, "waiting", installing) ELSE tab[t]]
    /\ swept' = IF install.live THEN swept \ {installing} ELSE swept
    /\ UNCHANGED <<siteVars, cacheVars, active, activating>>

-----------------------------------------------------------------------------
(* Activating.                                                             *)

TakenOver(t, worker) ==
    [tab[t] EXCEPT
        !.controller = worker,
        !.changed = tab[t].started,
        !.overtaken = IF worker = tab[t].release THEN "no"
                      ELSE IF tab[t].started THEN "listening"
                      ELSE IF tab[t].controller # 0 THEN "loading" ELSE "no"]

\* The old worker has no pending events, and no pages unless skipWaiting was called.
Activate ==
    /\ waiting # 0 /\ ~activating
    /\ active = 0 \/ skip \/ \A t \in Tabs : tab[t].controller = 0
    /\ active' = waiting /\ waiting' = 0 /\ skip' = FALSE
    /\ activating' = TRUE
    /\ tab' = [t \in Tabs |-> IF tab[t].controller # 0 THEN TakenOver(t, waiting) ELSE tab[t]]
    /\ UNCHANGED <<siteVars, cacheVars, installing, install, historyVars>>

\* The activate event: every other build's caches are deleted, and pages without a
\* worker are claimed.
Kept == {active}

ActivateEvent ==
    /\ activating
    /\ activating' = FALSE
    /\ pages' = [b \in Builds |-> IF b \in Kept THEN pages[b] ELSE 0]
    /\ statics' = [b \in Builds |-> IF b \in Kept THEN statics[b] ELSE {}]
    /\ install' = [install EXCEPT !.live = @ /\ installing = active]
    /\ swept' = swept \cup ({installing, waiting} \ {0, active})
    /\ tab' = [t \in Tabs |-> IF tab[t].release # 0 /\ tab[t].controller = 0
                              THEN TakenOver(t, active) ELSE tab[t]]
    /\ UNCHANGED <<siteVars, installing, waiting, active, skip, consent>>

-----------------------------------------------------------------------------
(* Pages and their requests.                                               *)

\* A navigation: network first; without a network the cached page, else the offline
\* page, which is in the shell like the home page.
LoadOnline(t) ==
    /\ tab[t].release = 0 /\ ~activating
    /\ tab' = [tab EXCEPT ![t] = [Closed EXCEPT !.release = deployed, !.controller = active]]
    /\ pages' = IF active # 0 THEN StorePage(active) ELSE pages
    /\ UNCHANGED <<siteVars, statics, regVars, historyVars>>

LoadOffline(t) ==
    /\ tab[t].release = 0 /\ ~activating
    /\ active # 0 /\ pages[active] # 0
    /\ tab' = [tab EXCEPT ![t] = [Closed EXCEPT !.release = pages[active],
                                                !.controller = active]]
    /\ UNCHANGED <<siteVars, cacheVars, regVars, historyVars>>

\* A static file of the controlling worker's build, or npe:cache-loaded.
LoadAsset(f) ==
    /\ active # 0 /\ ~activating
    /\ f \in AssetsOf(active) \ statics[active]
    /\ \E t \in Tabs : tab[t].controller = active
    /\ statics' = StoreAsset(active, f)
    /\ UNCHANGED <<siteVars, pages, regVars, tab, historyVars>>

\* npe:cache-loaded: the worker fetches again the page that loaded without it.
CacheLoaded ==
    /\ active # 0 /\ ~activating
    /\ \E t \in Tabs : tab[t].controller = active /\ tab[t].started
    /\ pages' = StorePage(active)
    /\ pages' # pages
    /\ UNCHANGED <<siteVars, statics, regVars, tab, historyVars>>

Close(t) ==
    /\ tab[t].release # 0
    /\ tab' = [tab EXCEPT ![t] = Closed]
    /\ UNCHANGED <<siteVars, cacheVars, regVars, historyVars>>

\* startServiceWorker, after the page's load event.
Start(t) ==
    /\ tab[t].release # 0 /\ ~tab[t].started
    /\ LET started == [tab[t] EXCEPT !.started = TRUE] IN
       tab' = [tab EXCEPT ![t] =
           IF waiting # 0 /\ tab[t].controller # 0
           THEN [started EXCEPT !.asks = {<<"waiting", waiting>>}] ELSE started]
    /\ UNCHANGED <<siteVars, cacheVars, regVars, historyVars>>

\* controllerchange.
OnControllerChange(t) ==
    /\ tab[t].changed
    /\ tab' = [tab EXCEPT ![t] =
           IF tab[t].reloading THEN Closed
           ELSE [Ask(t, "controller", tab[t].controller) EXCEPT !.changed = FALSE]]
    /\ UNCHANGED <<siteVars, cacheVars, regVars, historyVars>>

OfferUpdate(t, ask, worker) ==
    [tab[t] EXCEPT !.asks = @ \ {ask}, !.offer = worker, !.overtaken = "no"]

\* askWorkerRelease answered, or timed out (0).
BugNullIsOwn(t, theirs) == theirs \in {0, tab[t].release}
SameBuild(t, theirs) == theirs = tab[t].release

ControllerAnswered(t, ask, theirs) ==
    tab' = [tab EXCEPT ![t] = IF theirs \notin {0, tab[t].release}
                              THEN OfferUpdate(t, ask, 0)
                              ELSE [tab[t] EXCEPT !.asks = @ \ {ask},
                                        !.overtaken = IF theirs = 0 THEN "unanswered" ELSE @]]

\* skipWaiting() in the worker, if it is still the waiting one.
PostActivate(worker) == skip' = (skip \/ waiting = worker)

Answered(t, ask, theirs) ==
    /\ ask \in tab[t].asks
    /\ theirs \in {0, ask[2]}
    /\ IF ask[1] = "controller"
       THEN ControllerAnswered(t, ask, theirs) /\ UNCHANGED <<skip, consent>>
       ELSE IF SameBuild(t, theirs)
       THEN /\ PostActivate(ask[2])
            /\ tab' = [tab EXCEPT ![t].asks = @ \ {ask}]
            /\ consent' = (consent \/ tab[t].release = waiting)
       ELSE tab' = [tab EXCEPT ![t] = OfferUpdate(t, ask, ask[2])]
            /\ UNCHANGED <<skip, consent>>
    /\ UNCHANGED <<siteVars, cacheVars, installing, waiting, active, activating, install,
                   swept>>

\* The Reload button.
Accept(t) ==
    /\ tab[t].offer # None /\ ~tab[t].reloading
    /\ LET worker == tab[t].offer IN
       IF worker # 0 /\ worker = waiting
       THEN /\ tab' = [tab EXCEPT ![t].reloading = TRUE]
            /\ PostActivate(worker)
            /\ consent' = TRUE
       ELSE /\ tab' = [tab EXCEPT ![t] = Closed]
            /\ UNCHANGED <<skip, consent>>
    /\ UNCHANGED <<siteVars, cacheVars, installing, waiting, active, activating, install,
                   swept>>

Dismiss(t) ==
    /\ tab[t].offer # None /\ ~tab[t].reloading
    /\ tab' = [tab EXCEPT ![t].offer = None]
    /\ UNCHANGED <<siteVars, cacheVars, regVars, historyVars>>

\* ACTIVATION_TIMEOUT_MS after Reload was pressed.
BugWaitForController(t) == tab[t].reloading /\ tab[t].changed
ActivationTimedOut(t) == tab[t].reloading

ReloadTimeout(t) ==
    /\ ActivationTimedOut(t)
    /\ tab' = [tab EXCEPT ![t] = Closed]
    /\ UNCHANGED <<siteVars, cacheVars, regVars, historyVars>>

-----------------------------------------------------------------------------
Browser ==
    \/ UpdateFound \/ CarryOverUnchangedAssets \/ Installed \/ Activate \/ ActivateEvent
    \/ \E item \in {Home} \cup Build0 : Precache(item)

Page(t) ==
    \/ Start(t) \/ OnControllerChange(t) \/ ReloadTimeout(t)
    \/ \E ask \in tab[t].asks, theirs \in Build0 : Answered(t, ask, theirs)

User(t) ==
    \/ LoadOnline(t) \/ LoadOffline(t)
    \/ Close(t) \/ Accept(t) \/ Dismiss(t)

Next ==
    \/ \E b \in Builds : Deploy(b)
    \/ EdgeRefreshes \/ Browser \/ CacheLoaded
    \/ \E t \in Tabs : Page(t) \/ User(t)
    \/ \E f \in Build0 : LoadAsset(f)

\* The browser runs the activation and the events of open pages; nobody is bound to
\* visit, to press a button or to deploy.
Fairness ==
    /\ WF_vars(Activate) /\ WF_vars(ActivateEvent)
    /\ \A t \in Tabs : WF_vars(Page(t))

Spec == Init /\ [][Next]_vars /\ Fairness

-----------------------------------------------------------------------------
(* Properties.                                                             *)

Offers == Build0 \cup {None}
Asks == {"waiting", "controller"} \X Builds

\* Every variable holds a value of its type; only an installing worker precaches, and
\* only a waiting one skips waiting.
TypeOK ==
    /\ deployed \in Builds /\ edge \in Builds /\ deploys \in 0..MaxDeploys
    /\ pages \in [Builds -> Build0]
    /\ statics \in [Builds -> SUBSET Build0]
    /\ installing \in Build0 /\ waiting \in Build0 /\ active \in Build0
    /\ skip \in BOOLEAN /\ activating \in BOOLEAN
    /\ install.has \subseteq {Home} \cup Build0
    /\ install.live \in BOOLEAN /\ install.carried \in BOOLEAN
    /\ (installing = 0 => install = NoInstall) /\ (skip => waiting # 0)
    /\ \A t \in Tabs :
          /\ tab[t].release \in Build0 /\ tab[t].controller \in Build0
          /\ tab[t].asks \subseteq Asks /\ tab[t].offer \in Offers
          /\ tab[t].overtaken \in {"no", "loading", "listening", "unanswered"}

ShellCached(b) == pages[b] = b /\ statics[b] = AssetsOf(b)

\* "the cache holds exactly this build's files whatever the server or an older cache
\* returns": deploys and roll-backs during an install, a navigation or a load never mix two
\* builds in a cache, and without a network the active worker serves its home and offline
\* pages and the files their HTML references, unless another worker's activation deleted
\* them while they were being precached.
ShellServed ==
    /\ \A b \in Builds : pages[b] \in {0, b} /\ statics[b] \subseteq AssetsOf(b)
    /\ active # 0 => ShellCached(active) \/ active \in swept

\* "A new worker never takes over by itself": the worker of a page in use is replaced
\* only by a build the user pressed Reload for, or already had a page of.
TakesOverWithConsent ==
    [][active' # active /\ (\E t \in Tabs : tab[t].controller # 0) => consent]_vars

\* Reload ends in a reload, even when the worker it activated was replaced.
ReloadEnds == \A t \in Tabs : tab[t].reloading ~> ~tab[t].reloading

=============================================================================
