-------------------------- MODULE ServiceWorkerProofs --------------------------
(***************************************************************************)
(* Proofs about ServiceWorker, for any number of builds, pages and deploys: *)
(* what its caches hold, and who lets a new worker take over.               *)
(***************************************************************************)
EXTENDS ServiceWorker, TLAPS

TabStates ==
    [release : Build0, controller : Build0, started : BOOLEAN, changed : BOOLEAN,
     asks : SUBSET Asks, offer : Offers, reloading : BOOLEAN,
     overtaken : {"no", "loading", "listening", "unanswered"}]

\* Every variable holds a value of its type; only an installing worker precaches, and only
\* an active one activates.
Typed ==
    /\ deployed \in Builds /\ edge \in Builds /\ deploys \in 0..MaxDeploys
    /\ pages \in [Builds -> Build0]
    /\ statics \in [Builds -> SUBSET Build0]
    /\ installing \in Build0 /\ waiting \in Build0 /\ active \in Build0
    /\ skip \in BOOLEAN /\ activating \in BOOLEAN /\ consent \in BOOLEAN
    /\ install \in [has : SUBSET ({Home} \cup Build0), live : BOOLEAN, carried : BOOLEAN]
    /\ installing = 0 => install = NoInstall
    /\ activating => active # 0
    /\ tab \in [Tabs -> TabStates]

\* A cache holds its own build's files only.
CachesOwn == \A b \in Builds : pages[b] \in {0, b} /\ statics[b] \subseteq AssetsOf(b)

\* What a worker has precached is in its caches, unless they were deleted.
Precaching ==
    installing # 0 =>
        /\ install.has \subseteq Shell(installing)
        /\ ~install.live => installing \in swept
        /\ install.live => /\ Home \in install.has => pages[installing] = installing
                           /\ install.has \ {Home} \subseteq statics[installing]

\* The installed workers have the whole shell, unless their caches were deleted.
ShellKept == \A b \in {waiting, active} \ {0} : ShellCached(b) \/ b \in swept

\* Pages are controlled by the active worker; a closed one is forgotten.
Controlled ==
    \A t \in Tabs :
        /\ tab[t].controller \in {0, active}
        /\ tab[t].release = 0 => tab[t] = Closed
        /\ tab[t].changed => tab[t].controller # 0

\* Only a waiting worker the user consented to skips waiting.
Consented == skip => waiting # 0 /\ consent

WorkerInv == Typed /\ CachesOwn /\ Precaching /\ ShellKept /\ Controlled /\ Consented

\* The numbers of builds and of the files of their shells.
LEMMA BuildFacts ==
    /\ \A b \in Build0 : b # 0 <=> b \in Builds
    /\ \A b \in Builds : b \in Build0 /\ b # 0
    /\ 0 \in Build0 /\ 0 \notin Builds /\ 1 \in Builds /\ Home \notin Build0
    /\ \A b \in Builds : AssetsOf(b) \subseteq Build0 /\ Shell(b) = {Home} \cup AssetsOf(b)
  BY WorkerAssumption DEF Builds, Build0, Home, AssetsOf, Shell

\* A closed page.
LEMMA ClosedType == Closed \in TabStates
  BY BuildFacts DEF Closed, TabStates, Offers

LEMMA InitWorker == Init => WorkerInv
<1> SUFFICES ASSUME Init PROVE WorkerInv
  OBVIOUS
<1> USE DEF Init
<1>1. NoInstall \in [has : SUBSET ({Home} \cup Build0), live : BOOLEAN, carried : BOOLEAN]
  BY DEF NoInstall
<1>2. Typed
  <2>1. /\ deployed \in Builds /\ edge \in Builds /\ deploys \in 0..MaxDeploys
        /\ installing \in Build0 /\ waiting \in Build0 /\ active \in Build0
    BY BuildFacts, WorkerAssumption
  <2>2. pages \in [Builds -> Build0] /\ statics \in [Builds -> SUBSET Build0]
    BY BuildFacts
  <2>3. tab \in [Tabs -> TabStates]
    BY ClosedType
  <2> QED BY <1>1, <2>1, <2>2, <2>3 DEF Typed
<1>3. CachesOwn /\ Precaching /\ ShellKept /\ Consented
  BY DEF CachesOwn, Precaching, ShellKept, Consented
<1>4. Controlled
  BY DEF Controlled, Closed
<1> QED BY <1>2, <1>3, <1>4 DEF WorkerInv

\* A step of the site.
LEMMA SiteStep ==
  ASSUME WorkerInv, (\E b \in Builds : Deploy(b)) \/ EdgeRefreshes
  PROVE  WorkerInv'
<1>1. /\ deployed' \in Builds /\ edge' \in Builds /\ deploys' \in 0..MaxDeploys
      /\ UNCHANGED <<cacheVars, regVars, tab, historyVars>>
  <2>1. /\ deployed' \in Builds /\ edge' \in Builds
        /\ UNCHANGED <<cacheVars, regVars, tab, historyVars>>
    BY DEF Deploy, EdgeRefreshes, WorkerInv, Typed
  <2>2. deploys' = deploys \/ (deploys < MaxDeploys /\ deploys' = deploys + 1)
    BY DEF Deploy, EdgeRefreshes
  <2>3. deploys' \in 0..MaxDeploys
    BY <2>2, WorkerAssumption DEF WorkerInv, Typed
  <2> QED BY <2>1, <2>3
<1> USE <1>1 DEF cacheVars, regVars, historyVars
<1>2. Typed'
  BY DEF WorkerInv, Typed
<1>3. CachesOwn' /\ Precaching' /\ ShellKept' /\ Controlled' /\ Consented'
  BY DEF WorkerInv, CachesOwn, Precaching, ShellKept, ShellCached, Controlled, Consented
<1> QED BY <1>2, <1>3 DEF WorkerInv

\* What the invariant says of the caches is kept by a step that only adds a build's own
\* files or page to them.
LEMMA Filled ==
  ASSUME WorkerInv, CachesOwn', UNCHANGED <<waiting, active, swept>>,
         \A b \in Builds : /\ pages[b] = b => pages'[b] = b
                           /\ statics[b] \subseteq statics'[b]
  PROVE  ShellKept'
<1> SUFFICES ASSUME NEW b \in {waiting, active} \ {0}, b \notin swept PROVE ShellCached(b)'
  BY DEF ShellKept
<1>1. b \in Builds /\ ShellCached(b)
  BY BuildFacts DEF WorkerInv, Typed, ShellKept
<1>2. pages'[b] = b
  BY <1>1 DEF ShellCached
<1>3. statics'[b] = AssetsOf(b)
  <2>1. AssetsOf(b) \subseteq statics'[b]
    BY <1>1 DEF ShellCached
  <2>2. statics'[b] \subseteq AssetsOf(b)
    BY <1>1 DEF CachesOwn
  <2> QED BY <2>1, <2>2
<1> QED BY <1>2, <1>3 DEF ShellCached

\* A step of a page that leaves caches and registration alone, and closes the page or
\* changes what it is told.
LEMMA PageStep ==
  ASSUME WorkerInv, NEW t \in Tabs, NEW new \in TabStates,
         tab' = [tab EXCEPT ![t] = new],
         UNCHANGED <<siteVars, installing, waiting, active, activating, install, swept>>,
         (skip' = skip /\ consent' = consent)
            \/ (skip' \in BOOLEAN /\ consent' \in BOOLEAN /\ Consented'),
         new = Closed \/ (new.release # 0 /\ new.controller \in {0, active}
                          /\ (new.changed => new.controller # 0)),
         pages' \in [Builds -> Build0], UNCHANGED statics,
         \A b \in Builds : pages'[b] \in {pages[b], b}
  PROVE  WorkerInv'
<1> USE DEF siteVars
<1>1. tab' \in [Tabs -> TabStates] /\ tab'[t] = new /\ \A u \in Tabs \ {t} : tab'[u] = tab[u]
  BY DEF WorkerInv, Typed
<1>2. Typed'
  BY <1>1 DEF WorkerInv, Typed
<1>3. CachesOwn'
  BY DEF WorkerInv, CachesOwn
<1>4. \A b \in Builds : pages[b] = b => pages'[b] = b
  OBVIOUS
<1>5. Precaching'
  BY <1>4, BuildFacts DEF WorkerInv, Typed, Precaching
<1>6. ShellKept'
  BY <1>3, <1>4, Filled
<1>7. Controlled'
  <2>1. Closed.controller = 0 /\ ~Closed.changed
    BY DEF Closed
  <2> QED BY <1>1, <2>1 DEF WorkerInv, Controlled
<1>8. Consented'
  BY DEF WorkerInv, Consented
<1> QED BY <1>2, <1>3, <1>5, <1>6, <1>7, <1>8 DEF WorkerInv

\* The browser finds a new build.
LEMMA UpdateFoundStep ==
  ASSUME WorkerInv, UpdateFound
  PROVE  WorkerInv'
<1>1. /\ installing' = edge
      /\ install' = [has |-> statics[edge], live |-> TRUE, carried |-> FALSE]
      /\ UNCHANGED <<deployed, edge, deploys, pages, statics, waiting, active, skip,
                     activating, tab, consent, swept>>
  BY DEF UpdateFound, siteVars, cacheVars, historyVars
<1>2. edge \in Builds /\ statics[edge] \subseteq AssetsOf(edge)
  BY DEF WorkerInv, Typed, CachesOwn
<1>3. /\ install'.has = statics[edge] /\ install'.live
      /\ install' \in [has : SUBSET ({Home} \cup Build0), live : BOOLEAN, carried : BOOLEAN]
  BY <1>1, <1>2, BuildFacts
<1>4. Typed'
  BY <1>1, <1>2, <1>3, BuildFacts DEF WorkerInv, Typed
<1>5. Precaching'
  BY <1>1, <1>2, <1>3, BuildFacts DEF Precaching
<1>6. CachesOwn' /\ ShellKept' /\ Controlled' /\ Consented'
  BY <1>1 DEF WorkerInv, CachesOwn, ShellKept, ShellCached, Controlled, Consented
<1> QED BY <1>4, <1>5, <1>6 DEF WorkerInv

\* A step of the precaching worker that adds its own files or page to what it has, and to
\* its caches if they still exist.
LEMMA Precached1 ==
  ASSUME WorkerInv, installing # 0, NEW more \in SUBSET Shell(installing),
         NEW carried \in BOOLEAN,
         install' = [has |-> install.has \cup more, live |-> install.live, carried |-> carried],
         pages' = IF install.live /\ Home \in more
                  THEN [pages EXCEPT ![installing] = installing] ELSE pages,
         statics' = IF install.live
                    THEN [statics EXCEPT ![installing] = @ \cup (more \ {Home})] ELSE statics,
         UNCHANGED <<siteVars, installing, waiting, active, skip, activating, tab, historyVars>>
  PROVE  WorkerInv'
<1> USE DEF siteVars, historyVars
<1>1. installing \in Builds /\ more \ {Home} \subseteq AssetsOf(installing)
  BY BuildFacts DEF WorkerInv, Typed
<1>2. /\ install'.has = install.has \cup more /\ install'.live = install.live
      /\ install' \in [has : SUBSET ({Home} \cup Build0), live : BOOLEAN, carried : BOOLEAN]
  BY <1>1, BuildFacts DEF WorkerInv, Typed
<1>3. /\ pages' \in [Builds -> Build0]
      /\ \A b \in Builds : pages'[b] = IF b = installing /\ install.live /\ Home \in more
                                       THEN b ELSE pages[b]
  BY <1>1, BuildFacts DEF WorkerInv, Typed
<1>4. /\ statics' \in [Builds -> SUBSET Build0]
      /\ \A b \in Builds : statics'[b] = IF b = installing /\ install.live
                                         THEN statics[b] \cup (more \ {Home}) ELSE statics[b]
  BY <1>1, BuildFacts DEF WorkerInv, Typed
<1>5. Typed'
  BY <1>2, <1>3, <1>4 DEF WorkerInv, Typed
<1>6. CachesOwn'
  BY <1>1, <1>3, <1>4 DEF WorkerInv, CachesOwn
<1>7. Precaching'
  BY <1>1, <1>2, <1>3, <1>4 DEF WorkerInv, Precaching
<1>8. ShellKept'
  BY <1>3, <1>4, <1>6, Filled
<1>9. Controlled' /\ Consented'
  BY DEF WorkerInv, Controlled, Consented
<1> QED BY <1>5, <1>6, <1>7, <1>8, <1>9 DEF WorkerInv

\* The worker copies unchanged files out of older caches.
LEMMA CarryOverStep ==
  ASSUME WorkerInv, CarryOverUnchangedAssets
  PROVE  WorkerInv'
<1> DEFINE found == (UNION {statics[b] : b \in Builds}) \cap AssetsOf(installing)
<1>1. installing # 0 /\ installing \in Builds
  BY BuildFacts DEF CarryOverUnchangedAssets, WorkerInv, Typed
<1>2. found \subseteq AssetsOf(installing)
  OBVIOUS
<1>3. /\ install' = [install EXCEPT !.carried = TRUE, !.has = @ \cup found]
      /\ statics' = IF install.live
                    THEN [statics EXCEPT ![installing] = @ \cup found] ELSE statics
  BY DEF CarryOverUnchangedAssets
<1>4. pages' = pages
      /\ UNCHANGED <<siteVars, installing, waiting, active, skip, activating, tab, historyVars>>
  BY DEF CarryOverUnchangedAssets, siteVars, historyVars
<1> HIDE DEF found
<1>5. found \in SUBSET Shell(installing) /\ Home \notin found /\ found \ {Home} = found
  BY <1>1, <1>2, BuildFacts
<1>6. install' = [has |-> install.has \cup found, live |-> install.live, carried |-> TRUE]
  BY <1>3 DEF WorkerInv, Typed
<1>7. /\ pages' = IF install.live /\ Home \in found
                  THEN [pages EXCEPT ![installing] = installing] ELSE pages
      /\ statics' = IF install.live
                    THEN [statics EXCEPT ![installing] = @ \cup (found \ {Home})] ELSE statics
  BY <1>3, <1>4, <1>5
<1> QED BY <1>1, <1>4, <1>5, <1>6, <1>7, Precached1

\* The worker stores a file of its shell, or gives up.
LEMMA PrecacheStep ==
  ASSUME WorkerInv, NEW item \in {Home} \cup Build0, Precache(item)
  PROVE  WorkerInv'
<1>1. /\ installing \in Builds /\ installing # 0 /\ item \in Shell(installing)
      /\ UNCHANGED <<siteVars, waiting, active, skip, activating, tab, historyVars>>
  BY BuildFacts DEF Precache, WorkerInv, Typed
<1>2. CASE BelongsToBuild(item) /\ Put(item) /\ UNCHANGED installing
  <2>1. install' = [has |-> install.has \cup {item}, live |-> install.live,
                    carried |-> install.carried]
    BY <1>2 DEF Put, WorkerInv, Typed
  <2>2. {item} \in SUBSET Shell(installing) /\ install.carried \in BOOLEAN
    BY <1>1 DEF WorkerInv, Typed
  <2>3. pages' = IF install.live /\ Home \in {item}
                 THEN [pages EXCEPT ![installing] = installing] ELSE pages
    BY <1>2 DEF Put, BelongsToBuild, cacheVars
  <2>4. statics' = IF install.live
                   THEN [statics EXCEPT ![installing] = @ \cup ({item} \ {Home})] ELSE statics
    <3>1. CASE install.live /\ item = Home
      <4>1. statics' = statics /\ {item} \ {Home} = {}
        BY <1>2, <3>1 DEF Put
      <4>2. [statics EXCEPT ![installing] = @ \cup {}] = statics
        BY DEF WorkerInv, Typed
      <4> QED BY <4>1, <4>2, <3>1
    <3>2. CASE install.live /\ item # Home
      <4>1. {item} \ {Home} = {item}
        BY <3>2
      <4> QED BY <1>2, <3>2, <4>1 DEF Put
    <3>3. CASE ~install.live
      BY <1>2, <3>3 DEF Put, cacheVars
    <3> QED BY <3>1, <3>2, <3>3
  <2> QED BY <1>1, <1>2, <2>1, <2>2, <2>3, <2>4, Precached1
<1>3. CASE installing' = 0 /\ install' = NoInstall /\ UNCHANGED cacheVars
  <2> USE <1>1, <1>3 DEF siteVars, cacheVars, historyVars
  <2>1. Typed'
    <3>1. NoInstall \in [has : SUBSET ({Home} \cup Build0), live : BOOLEAN, carried : BOOLEAN]
      BY DEF NoInstall
    <3> QED BY <3>1, BuildFacts DEF WorkerInv, Typed
  <2>2. CachesOwn' /\ Precaching' /\ ShellKept' /\ Controlled' /\ Consented'
    BY DEF WorkerInv, CachesOwn, Precaching, ShellKept, ShellCached, Controlled, Consented
  <2> QED BY <2>1, <2>2 DEF WorkerInv
<1> QED BY <1>2, <1>3 DEF Precache

\* The whole shell is stored: the worker waits, and pages that follow it ask it.
LEMMA InstalledStep ==
  ASSUME WorkerInv, Installed
  PROVE  WorkerInv'
<1>1. /\ installing # 0 /\ Shell(installing) \subseteq install.has
      /\ waiting' = installing /\ skip' = FALSE /\ consent' = FALSE
      /\ installing' = 0 /\ install' = NoInstall
      /\ swept' = IF install.live THEN swept \ {installing} ELSE swept
      /\ UNCHANGED <<deployed, edge, deploys, pages, statics, active, activating>>
  BY DEF Installed, Precached, siteVars, cacheVars
<1>2. installing \in Builds
  BY <1>1, BuildFacts DEF WorkerInv, Typed
<1>3. \A t \in Tabs :
        /\ tab'[t] \in TabStates
        /\ tab'[t].controller = tab[t].controller /\ tab'[t].changed = tab[t].changed
        /\ tab'[t].release = tab[t].release
        /\ tab[t] = Closed => tab'[t] = Closed
  <2> SUFFICES ASSUME NEW t \in Tabs
               PROVE  /\ tab'[t] \in TabStates
                      /\ tab'[t].controller = tab[t].controller
                      /\ tab'[t].changed = tab[t].changed
                      /\ tab'[t].release = tab[t].release
                      /\ tab[t] = Closed => tab'[t] = Closed
    OBVIOUS
  <2>1. tab'[t] = IF tab[t].started /\ tab[t].controller # 0
                  THEN Ask(t, "waiting", installing) ELSE tab[t]
    BY DEF Installed
  <2>2. <<"waiting", installing>> \in Asks /\ tab[t] \in TabStates
    BY <1>2 DEF WorkerInv, Typed, Asks
  <2>3. tab[t] = Closed => ~tab[t].started
    BY DEF Closed
  <2> QED BY <2>1, <2>2, <2>3 DEF Ask, TabStates
<1>4. tab' = [t \in Tabs |-> tab'[t]]
  BY DEF Installed
<1>5. NoInstall \in [has : SUBSET ({Home} \cup Build0), live : BOOLEAN, carried : BOOLEAN]
  BY DEF NoInstall
<1>6. Typed'
  <2>1. tab' \in [Tabs -> TabStates]
    BY <1>3, <1>4
  <2> QED BY <1>1, <1>2, <1>5, <2>1, BuildFacts DEF WorkerInv, Typed
<1>7. CachesOwn' /\ Precaching' /\ Consented'
  BY <1>1 DEF WorkerInv, CachesOwn, Precaching, Consented
<1>8. ShellKept'
  <2>1. install.live => ShellCached(installing)
    <3> SUFFICES ASSUME install.live PROVE ShellCached(installing)
      OBVIOUS
    <3>1. pages[installing] = installing
      BY <1>1, <1>2, BuildFacts DEF WorkerInv, Precaching
    <3>2. AssetsOf(installing) \subseteq statics[installing]
      BY <1>1, <1>2, BuildFacts DEF WorkerInv, Precaching
    <3>3. statics[installing] = AssetsOf(installing)
      BY <1>2, <3>2 DEF WorkerInv, CachesOwn
    <3> QED BY <3>1, <3>3 DEF ShellCached
  <2>2. ~install.live => installing \in swept
    BY <1>1 DEF WorkerInv, Precaching
  <2>3. \A b : ShellCached(b)' <=> ShellCached(b)
    BY <1>1 DEF ShellCached
  <2>4. \A b \in {active} \ {0} : ShellCached(b) \/ b \in swept
    BY DEF WorkerInv, ShellKept
  <2> QED BY <1>1, <2>1, <2>2, <2>3, <2>4 DEF ShellKept
<1>9. Controlled'
  BY <1>1, <1>3 DEF WorkerInv, Controlled
<1> QED BY <1>6, <1>7, <1>8, <1>9 DEF WorkerInv

\* A worker takes a page over.
LEMMA TakenOverType ==
  ASSUME WorkerInv, NEW t \in Tabs, NEW worker \in Builds
  PROVE  /\ TakenOver(t, worker) \in TabStates
         /\ TakenOver(t, worker).controller = worker
         /\ TakenOver(t, worker).release = tab[t].release
<1>1. tab[t] \in TabStates /\ worker \in Build0
  BY BuildFacts DEF WorkerInv, Typed
<1> QED BY <1>1 DEF TakenOver, TabStates

\* The waiting worker becomes the active one, and takes the controlled pages over.
LEMMA ActivateStep ==
  ASSUME WorkerInv, Activate
  PROVE  WorkerInv'
<1>1. /\ waiting # 0 /\ active' = waiting /\ waiting' = 0 /\ skip' = FALSE /\ activating' = TRUE
      /\ UNCHANGED <<deployed, edge, deploys, pages, statics, installing, install, consent,
                     swept>>
  BY DEF Activate, siteVars, cacheVars, historyVars
<1>2. waiting \in Builds
  BY <1>1, BuildFacts DEF WorkerInv, Typed
<1>3. \A t \in Tabs : /\ tab'[t] = IF tab[t].controller # 0 THEN TakenOver(t, waiting) ELSE tab[t]
                      /\ tab'[t] \in TabStates
  <2>1. \A t \in Tabs : tab'[t] = IF tab[t].controller # 0 THEN TakenOver(t, waiting) ELSE tab[t]
    BY DEF Activate
  <2> QED BY <1>2, <2>1, TakenOverType DEF WorkerInv, Typed
<1>4. tab' = [t \in Tabs |-> tab'[t]]
  BY DEF Activate
<1>5. Typed'
  <2>1. tab' \in [Tabs -> TabStates]
    BY <1>3, <1>4
  <2> QED BY <1>1, <1>2, <2>1, BuildFacts DEF WorkerInv, Typed
<1>6. CachesOwn' /\ Precaching' /\ Consented'
  BY <1>1 DEF WorkerInv, CachesOwn, Precaching, Consented
<1>7. ShellKept'
  BY <1>1 DEF WorkerInv, ShellKept, ShellCached
<1>8. Controlled'
  <2> SUFFICES ASSUME NEW t \in Tabs
               PROVE  /\ tab'[t].controller \in {0, active'}
                      /\ tab'[t].release = 0 => tab'[t] = Closed
                      /\ tab'[t].changed => tab'[t].controller # 0
    BY DEF Controlled
  <2>1. /\ tab[t].release = 0 => tab[t] = Closed
        /\ tab[t].changed => tab[t].controller # 0
        /\ Closed.controller = 0
    BY DEF WorkerInv, Controlled, Closed
  <2>2. CASE tab[t].controller = 0
    BY <1>3, <2>1, <2>2
  <2>3. CASE tab[t].controller # 0
    BY <1>1, <1>2, <1>3, <2>1, <2>3, TakenOverType
  <2> QED BY <2>2, <2>3
<1> QED BY <1>5, <1>6, <1>7, <1>8 DEF WorkerInv

\* The active worker deletes every other build's caches and claims pages without a worker.
LEMMA ActivateEventStep ==
  ASSUME WorkerInv, ActivateEvent
  PROVE  WorkerInv'
<1>1. /\ activating' = FALSE
      /\ pages' = [b \in Builds |-> IF b = active THEN pages[b] ELSE 0]
      /\ statics' = [b \in Builds |-> IF b = active THEN statics[b] ELSE {}]
      /\ install' = [install EXCEPT !.live = @ /\ installing = active]
      /\ swept' = swept \cup ({installing, waiting} \ {0, active})
      /\ UNCHANGED <<deployed, edge, deploys, installing, waiting, active, skip, consent>>
  BY DEF ActivateEvent, Kept, siteVars
<1>2. active # 0 /\ active \in Builds
  BY BuildFacts DEF ActivateEvent, WorkerInv, Typed
<1>3. \A t \in Tabs : /\ tab'[t] = IF tab[t].release # 0 /\ tab[t].controller = 0
                                   THEN TakenOver(t, active) ELSE tab[t]
                      /\ tab'[t] \in TabStates
  <2>1. \A t \in Tabs : tab'[t] = IF tab[t].release # 0 /\ tab[t].controller = 0
                                  THEN TakenOver(t, active) ELSE tab[t]
    BY DEF ActivateEvent
  <2> QED BY <1>2, <2>1, TakenOverType DEF WorkerInv, Typed
<1>4. tab' = [t \in Tabs |-> tab'[t]]
  BY DEF ActivateEvent
<1>5. /\ install'.has = install.has /\ install'.live = (install.live /\ installing = active)
      /\ install' \in [has : SUBSET ({Home} \cup Build0), live : BOOLEAN, carried : BOOLEAN]
  <2>1. install \in [has : SUBSET ({Home} \cup Build0), live : BOOLEAN, carried : BOOLEAN]
    BY DEF WorkerInv, Typed
  <2>2. (install.live /\ installing = active) \in BOOLEAN
    OBVIOUS
  <2> QED BY <1>1, <2>1, <2>2
<1>6. installing = 0 => install' = NoInstall
  <2> SUFFICES ASSUME installing = 0 PROVE install' = NoInstall
    OBVIOUS
  <2>1. install = NoInstall
    BY DEF WorkerInv, Typed
  <2> QED BY <1>1, <1>2, <2>1 DEF NoInstall
<1>7. pages' \in [Builds -> Build0] /\ statics' \in [Builds -> SUBSET Build0]
  BY <1>1, BuildFacts DEF WorkerInv, Typed
<1>8. Typed'
  <2>1. tab' \in [Tabs -> TabStates]
    BY <1>3, <1>4
  <2> QED BY <1>1, <1>5, <1>6, <1>7, <2>1 DEF WorkerInv, Typed
<1>9. CachesOwn'
  BY <1>1 DEF WorkerInv, CachesOwn
<1>10. Precaching'
  BY <1>1, <1>2, <1>5 DEF WorkerInv, Precaching
<1>11. ShellKept'
  <2>1. ShellCached(active)' <=> ShellCached(active)
    BY <1>1, <1>2 DEF ShellCached
  <2> QED BY <1>1, <1>2, <2>1 DEF WorkerInv, ShellKept
<1>12. Controlled'
  <2> SUFFICES ASSUME NEW t \in Tabs
               PROVE  /\ tab'[t].controller \in {0, active'}
                      /\ tab'[t].release = 0 => tab'[t] = Closed
                      /\ tab'[t].changed => tab'[t].controller # 0
    BY DEF Controlled
  <2>1. CASE tab[t].release # 0 /\ tab[t].controller = 0
    BY <1>1, <1>2, <1>3, <2>1, TakenOverType
  <2>2. CASE ~(tab[t].release # 0 /\ tab[t].controller = 0)
    BY <1>1, <1>3, <2>2 DEF WorkerInv, Controlled
  <2> QED BY <2>1, <2>2
<1>13. Consented'
  BY <1>1 DEF WorkerInv, Consented
<1> QED BY <1>8, <1>9, <1>10, <1>11, <1>12, <1>13 DEF WorkerInv

\* The page's requests and the user's visits.
LEMMA LoadOnlineStep ==
  ASSUME WorkerInv, NEW t \in Tabs, LoadOnline(t)
  PROVE  WorkerInv'
<1> DEFINE new == [Closed EXCEPT !.release = deployed, !.controller = active]
<1>1. /\ tab' = [tab EXCEPT ![t] = new]
      /\ pages' = IF active # 0 THEN StorePage(active) ELSE pages
      /\ UNCHANGED <<siteVars, statics, regVars, historyVars>>
  BY DEF LoadOnline
<1>2. /\ deployed \in Builds /\ deployed # 0 /\ active \in Build0
      /\ active # 0 => active \in Builds
  BY BuildFacts DEF WorkerInv, Typed
<1>3. new \in TabStates /\ new.release = deployed /\ new.controller = active /\ ~new.changed
  BY <1>2, BuildFacts DEF Closed, TabStates, Offers
<1>4. /\ pages' \in [Builds -> Build0]
      /\ \A b \in Builds : pages'[b] \in {pages[b], b}
  BY <1>1, <1>2, BuildFacts DEF WorkerInv, Typed, StorePage
<1> HIDE DEF new
<1> QED BY <1>1, <1>2, <1>3, <1>4, PageStep DEF regVars, historyVars

LEMMA LoadOfflineStep ==
  ASSUME WorkerInv, NEW t \in Tabs, LoadOffline(t)
  PROVE  WorkerInv'
<1> DEFINE new == [Closed EXCEPT !.release = pages[active], !.controller = active]
<1>1. /\ tab' = [tab EXCEPT ![t] = new] /\ active # 0 /\ pages[active] # 0
      /\ UNCHANGED <<siteVars, cacheVars, regVars, historyVars>>
  BY DEF LoadOffline
<1>2. active \in Builds /\ pages[active] \in Build0 /\ active \in Build0
  BY <1>1, BuildFacts DEF WorkerInv, Typed
<1>3. /\ new \in TabStates /\ new.release = pages[active]
      /\ new.controller = active /\ ~new.changed
  BY <1>2, BuildFacts DEF Closed, TabStates, Offers
<1>4. pages' = pages /\ pages \in [Builds -> Build0]
  BY <1>1 DEF WorkerInv, Typed, cacheVars
<1> HIDE DEF new
<1> QED BY <1>1, <1>2, <1>3, <1>4, PageStep DEF regVars, cacheVars, historyVars

LEMMA LoadAssetStep ==
  ASSUME WorkerInv, NEW f \in Build0, LoadAsset(f)
  PROVE  WorkerInv'
<1>1. /\ active # 0 /\ f \in AssetsOf(active)
      /\ statics' = StoreAsset(active, f)
      /\ UNCHANGED <<deployed, edge, deploys, pages, installing, waiting, active, skip,
                     activating, install, tab, consent, swept>>
  BY DEF LoadAsset, siteVars, regVars, historyVars
<1>2. active \in Builds
  BY <1>1, BuildFacts DEF WorkerInv, Typed
<1>3. /\ statics' \in [Builds -> SUBSET Build0]
      /\ \A b \in Builds : /\ statics[b] \subseteq statics'[b]
                           /\ statics'[b] \subseteq statics[b] \cup AssetsOf(b)
  BY <1>1, <1>2 DEF WorkerInv, Typed, StoreAsset
<1>4. Typed'
  BY <1>1, <1>3 DEF WorkerInv, Typed
<1>5. CachesOwn'
  BY <1>1, <1>3 DEF WorkerInv, CachesOwn
<1>6. Precaching'
  BY <1>1, <1>3, BuildFacts DEF WorkerInv, Typed, Precaching
<1>7. ShellKept'
  BY <1>1, <1>3, <1>5, Filled
<1>8. Controlled' /\ Consented'
  BY <1>1 DEF WorkerInv, Controlled, Consented
<1> QED BY <1>4, <1>5, <1>6, <1>7, <1>8 DEF WorkerInv

LEMMA CacheLoadedStep ==
  ASSUME WorkerInv, CacheLoaded
  PROVE  WorkerInv'
<1>1. /\ active # 0 /\ pages' = StorePage(active)
      /\ UNCHANGED <<deployed, edge, deploys, statics, installing, waiting, active, skip,
                     activating, install, tab, consent, swept>>
  BY DEF CacheLoaded, siteVars, regVars, historyVars
<1>2. active \in Builds
  BY <1>1, BuildFacts DEF WorkerInv, Typed
<1>3. pages' \in [Builds -> Build0] /\ \A b \in Builds : pages'[b] \in {pages[b], b}
  BY <1>1, <1>2, BuildFacts DEF WorkerInv, Typed, StorePage
<1>4. Typed'
  BY <1>1, <1>3 DEF WorkerInv, Typed
<1>5. CachesOwn'
  BY <1>1, <1>3 DEF WorkerInv, CachesOwn
<1>6. Precaching'
  BY <1>1, <1>3, BuildFacts DEF WorkerInv, Typed, Precaching
<1>7. ShellKept'
  <2>1. \A b \in Builds : pages[b] = b => pages'[b] = b
    BY <1>3
  <2> QED BY <1>1, <1>5, <2>1, Filled
<1>8. Controlled' /\ Consented'
  BY <1>1 DEF WorkerInv, Controlled, Consented
<1> QED BY <1>4, <1>5, <1>6, <1>7, <1>8 DEF WorkerInv

\* A page that is closed.
LEMMA CloseStep ==
  ASSUME WorkerInv, NEW t \in Tabs, tab' = [tab EXCEPT ![t] = Closed],
         UNCHANGED <<siteVars, cacheVars, regVars, historyVars>>
  PROVE  WorkerInv'
<1>1. pages' = pages /\ pages \in [Builds -> Build0]
  BY DEF WorkerInv, Typed, cacheVars
<1> QED BY <1>1, ClosedType, PageStep DEF regVars, cacheVars, historyVars

\* A step of an open page that changes neither its release nor its controller.
LEMMA OpenPageStep ==
  ASSUME WorkerInv, NEW t \in Tabs, NEW new \in TabStates,
         tab[t].release # 0 , tab' = [tab EXCEPT ![t] = new],
         new.release = tab[t].release, new.controller = tab[t].controller,
         new.changed => tab[t].changed,
         UNCHANGED <<siteVars, cacheVars, installing, waiting, active, activating, install,
                     swept>>,
         (skip' = skip /\ consent' = consent)
            \/ (skip' \in BOOLEAN /\ consent' \in BOOLEAN /\ Consented')
  PROVE  WorkerInv'
<1>1. pages' = pages /\ statics' = statics /\ pages \in [Builds -> Build0]
  BY DEF WorkerInv, Typed, cacheVars
<1>2. new.release # 0 /\ new.controller \in {0, active} /\ (new.changed => new.controller # 0)
  BY DEF WorkerInv, Controlled
<1> QED BY <1>1, <1>2, PageStep DEF cacheVars

\* What is said of an open page, and of one that asks something or is made an offer.
LEMMA OpenPage ==
  ASSUME WorkerInv, NEW t \in Tabs
  PROVE  /\ tab[t] \in TabStates
         /\ tab[t].release = 0 =>
               /\ ~tab[t].started /\ ~tab[t].changed /\ ~tab[t].reloading
               /\ tab[t].asks = {} /\ tab[t].offer = None
  BY DEF WorkerInv, Typed, Controlled, Closed

LEMMA StartStep ==
  ASSUME WorkerInv, NEW t \in Tabs, Start(t)
  PROVE  WorkerInv'
<1> DEFINE started == [tab[t] EXCEPT !.started = TRUE]
           new == IF waiting # 0 /\ tab[t].controller # 0
                  THEN [started EXCEPT !.asks = {<<"waiting", waiting>>}] ELSE started
<1>1. /\ tab' = [tab EXCEPT ![t] = new] /\ tab[t].release # 0
      /\ UNCHANGED <<siteVars, cacheVars, regVars, historyVars>>
  BY DEF Start
<1>2. waiting # 0 => <<"waiting", waiting>> \in Asks
  BY BuildFacts DEF WorkerInv, Typed, Asks
<1>3. /\ new \in TabStates /\ new.release = tab[t].release
      /\ new.controller = tab[t].controller /\ new.changed = tab[t].changed
  BY <1>2, OpenPage DEF TabStates
<1> HIDE DEF new, started
<1> QED BY <1>1, <1>3, OpenPageStep DEF regVars, historyVars

LEMMA OnControllerChangeStep ==
  ASSUME WorkerInv, NEW t \in Tabs, OnControllerChange(t)
  PROVE  WorkerInv'
<1>1. CASE tab[t].reloading
  BY <1>1, CloseStep DEF OnControllerChange
<1>2. CASE ~tab[t].reloading
  <2> DEFINE new == [Ask(t, "controller", tab[t].controller) EXCEPT !.changed = FALSE]
  <2>1. /\ tab' = [tab EXCEPT ![t] = new] /\ tab[t].changed
        /\ UNCHANGED <<siteVars, cacheVars, regVars, historyVars>>
    BY <1>2 DEF OnControllerChange
  <2>2. tab[t].release # 0
    BY <2>1, OpenPage
  <2>3. <<"controller", tab[t].controller>> \in Asks
    BY <2>1, BuildFacts DEF WorkerInv, Typed, Controlled, Asks
  <2>4. /\ new \in TabStates /\ new.release = tab[t].release
        /\ new.controller = tab[t].controller /\ ~new.changed
    BY <2>3, OpenPage DEF Ask, TabStates
  <2> HIDE DEF new
  <2> QED BY <2>1, <2>2, <2>4, OpenPageStep DEF regVars, historyVars
<1> QED BY <1>1, <1>2

\* A worker's answer: it takes over only if the page has its build, or the user agreed.
LEMMA AnsweredStep ==
  ASSUME WorkerInv, NEW t \in Tabs, NEW ask \in tab[t].asks, NEW theirs \in Build0,
         Answered(t, ask, theirs)
  PROVE  WorkerInv'
<1>1. /\ theirs \in {0, ask[2]}
      /\ UNCHANGED <<siteVars, cacheVars, installing, waiting, active, activating, install,
                     swept>>
  BY DEF Answered
<1>2. /\ tab[t] \in TabStates /\ tab[t].release # 0
      /\ ask \in Asks /\ ask[2] \in Builds /\ 0 \in Offers /\ ask[2] \in Offers
  BY OpenPage, BuildFacts DEF TabStates, Asks, Offers
<1>3. CASE ask[1] = "controller"
  <2> DEFINE new == IF theirs \notin {0, tab[t].release}
                    THEN OfferUpdate(t, ask, 0)
                    ELSE [tab[t] EXCEPT !.asks = @ \ {ask},
                             !.overtaken = IF theirs = 0 THEN "unanswered" ELSE @]
  <2>1. tab' = [tab EXCEPT ![t] = new] /\ UNCHANGED <<skip, consent>>
    BY <1>3 DEF Answered, ControllerAnswered
  <2>2. /\ new \in TabStates /\ new.release = tab[t].release
        /\ new.controller = tab[t].controller /\ new.changed = tab[t].changed
    BY <1>2 DEF OfferUpdate, TabStates
  <2> HIDE DEF new
  <2> QED BY <1>1, <1>2, <2>1, <2>2, OpenPageStep
<1>4. CASE ask[1] # "controller" /\ SameBuild(t, theirs)
  <2> DEFINE new == [tab[t] EXCEPT !.asks = @ \ {ask}]
  <2>1. /\ tab' = [tab EXCEPT ![t] = new]
        /\ skip' = (skip \/ waiting = ask[2])
        /\ consent' = (consent \/ tab[t].release = waiting)
    BY <1>4, <1>2 DEF Answered, PostActivate, WorkerInv, Typed, TabStates
  <2>2. /\ new \in TabStates /\ new.release = tab[t].release
        /\ new.controller = tab[t].controller /\ new.changed = tab[t].changed
    BY <1>2 DEF TabStates
  <2>3. tab[t].release = ask[2]
    BY <1>1, <1>2, <1>4 DEF SameBuild
  <2>4. Consented' /\ skip' \in BOOLEAN /\ consent' \in BOOLEAN
    BY <1>1, <1>2, <2>1, <2>3, BuildFacts DEF WorkerInv, Typed, Consented
  <2> HIDE DEF new
  <2> QED BY <1>1, <1>2, <2>1, <2>2, <2>4, OpenPageStep
<1>5. CASE ask[1] # "controller" /\ ~SameBuild(t, theirs)
  <2> DEFINE new == OfferUpdate(t, ask, ask[2])
  <2>1. tab' = [tab EXCEPT ![t] = new] /\ UNCHANGED <<skip, consent>>
    BY <1>5 DEF Answered
  <2>2. /\ new \in TabStates /\ new.release = tab[t].release
        /\ new.controller = tab[t].controller /\ new.changed = tab[t].changed
    BY <1>2 DEF OfferUpdate, TabStates
  <2> HIDE DEF new
  <2> QED BY <1>1, <1>2, <2>1, <2>2, OpenPageStep
<1> QED BY <1>3, <1>4, <1>5

LEMMA AcceptStep ==
  ASSUME WorkerInv, NEW t \in Tabs, Accept(t)
  PROVE  WorkerInv'
<1>1. /\ tab[t].offer # None
      /\ UNCHANGED <<siteVars, cacheVars, installing, waiting, active, activating, install,
                     swept>>
  BY DEF Accept
<1>2. tab[t] \in TabStates /\ tab[t].release # 0
  BY <1>1, OpenPage
<1>3. CASE tab[t].offer # 0 /\ tab[t].offer = waiting
  <2> DEFINE new == [tab[t] EXCEPT !.reloading = TRUE]
  <2>1. /\ tab' = [tab EXCEPT ![t] = new]
        /\ skip' = TRUE /\ consent' = TRUE /\ waiting # 0
    BY <1>3, <1>2 DEF Accept, PostActivate, WorkerInv, Typed, TabStates
  <2>2. /\ new \in TabStates /\ new.release = tab[t].release
        /\ new.controller = tab[t].controller /\ new.changed = tab[t].changed
    BY <1>2 DEF TabStates
  <2>3. Consented'
    BY <1>1, <2>1 DEF Consented
  <2> HIDE DEF new
  <2> QED BY <1>1, <1>2, <2>1, <2>2, <2>3, OpenPageStep
<1>4. CASE ~(tab[t].offer # 0 /\ tab[t].offer = waiting)
  BY <1>1, <1>4, CloseStep DEF Accept, regVars, historyVars
<1> QED BY <1>3, <1>4

LEMMA DismissStep ==
  ASSUME WorkerInv, NEW t \in Tabs, Dismiss(t)
  PROVE  WorkerInv'
<1> DEFINE new == [tab[t] EXCEPT !.offer = None]
<1>1. tab[t] \in TabStates /\ tab[t].release # 0
  BY OpenPage DEF Dismiss
<1>2. /\ tab' = [tab EXCEPT ![t] = new]
      /\ UNCHANGED <<siteVars, cacheVars, regVars, historyVars>>
  BY <1>1 DEF Dismiss, WorkerInv, Typed, TabStates
<1>3. /\ new \in TabStates /\ new.release = tab[t].release
      /\ new.controller = tab[t].controller /\ new.changed = tab[t].changed
  BY <1>1 DEF TabStates, Offers
<1> HIDE DEF new
<1> QED BY <1>1, <1>2, <1>3, OpenPageStep DEF regVars, historyVars

\* Every step.
LEMMA NextWorker ==
  ASSUME WorkerInv, [Next]_vars
  PROVE  WorkerInv'
<1>1. CASE Next
  <2>1. CASE (\E b \in Builds : Deploy(b)) \/ EdgeRefreshes
    BY <2>1, SiteStep
  <2>2. CASE Browser
    BY <2>2, UpdateFoundStep, CarryOverStep, PrecacheStep, InstalledStep, ActivateStep,
       ActivateEventStep DEF Browser
  <2>3. CASE CacheLoaded \/ \E f \in Build0 : LoadAsset(f)
    BY <2>3, CacheLoadedStep, LoadAssetStep
  <2>4. ASSUME NEW t \in Tabs, Page(t) \/ User(t)
        PROVE  WorkerInv'
    <3>1. Close(t) \/ ReloadTimeout(t) => WorkerInv'
      BY CloseStep DEF Close, ReloadTimeout
    <3> QED BY <2>4, <3>1, StartStep, OnControllerChangeStep, AnsweredStep, LoadOnlineStep,
               LoadOfflineStep, AcceptStep, DismissStep DEF Page, User
  <2> QED BY <1>1, <2>1, <2>2, <2>3, <2>4 DEF Next
<1>2. CASE UNCHANGED vars
  <2> USE <1>2 DEF vars, siteVars, cacheVars, regVars, historyVars
  <2>1. Typed'
    BY DEF WorkerInv, Typed
  <2>2. CachesOwn' /\ Precaching' /\ ShellKept' /\ Controlled' /\ Consented'
    BY DEF WorkerInv, CachesOwn, Precaching, ShellKept, ShellCached, Controlled, Consented
  <2> QED BY <2>1, <2>2 DEF WorkerInv
<1> QED BY <1>1, <1>2

-----------------------------------------------------------------------------

\* The invariant of the caches, the registration and the pages.
THEOREM WorkerInvariant == Spec => []WorkerInv
  BY InitWorker, NextWorker, PTL DEF Spec

\* Every variable holds a value of its type; only an installing worker precaches, and only
\* a waiting one skips waiting.
THEOREM WorkerTypes == Spec => []TypeOK
<1>1. WorkerInv => TypeOK
  BY DEF WorkerInv, Typed, Consented, TypeOK, TabStates
<1> QED BY <1>1, WorkerInvariant, PTL

\* However often releases are deployed and rolled back, at whatever point of an install, a
\* navigation or a load, a cache holds one build's files only, and the active worker serves
\* its whole shell without a network, unless its caches were deleted while it precached.
THEOREM ShellIsServed == Spec => []ShellServed
<1>1. WorkerInv => ShellServed
  BY BuildFacts DEF WorkerInv, Typed, CachesOwn, ShellKept, ShellServed
<1> QED BY <1>1, WorkerInvariant, PTL

\* A worker that has pages is replaced only by a build the user agreed to: no interleaving
\* of pages that ask, reload and close makes one skip waiting by itself.
THEOREM TakeOverNeedsConsent == Spec => TakesOverWithConsent
<1>1. WorkerInv /\ [Next]_vars =>
         [active' # active /\ (\E t \in Tabs : tab[t].controller # 0) => consent]_vars
  <2> SUFFICES ASSUME WorkerInv, Next, active' # active,
                      NEW t \in Tabs, tab[t].controller # 0
               PROVE  consent
    OBVIOUS
  <2>1. Activate
    BY DEF Next, Browser, Page, User, Deploy, EdgeRefreshes, UpdateFound,
       CarryOverUnchangedAssets, Precache, Installed, ActivateEvent, LoadOnline, LoadOffline,
       LoadAsset, CacheLoaded, Close, Start, OnControllerChange, Answered, Accept, Dismiss,
       ReloadTimeout, regVars
  <2>2. active # 0
    BY DEF WorkerInv, Controlled
  <2> QED BY <2>1, <2>2 DEF Activate, WorkerInv, Consented
<1> QED BY <1>1, WorkerInvariant, PTL DEF Spec, TakesOverWithConsent
=============================================================================
