------------------------------- MODULE MCReads -------------------------------
(***************************************************************************)
(* Small instances of what stands around the reads of the pages: their     *)
(* cache keys, the walks over many SDK calls, the current epoch, the SDK's *)
(* caches, the query inspector's store, what the pages make of it all, the *)
(* query workspace with its index checks, and what the browser keeps: the  *)
(* history of viewed identities and the user's lists.  They share no       *)
(* state, so a behaviour is of one of them, `part`, and the others stand   *)
(* still.                                                                  *)
(***************************************************************************)
EXTENDS Integers, Sequences, FiniteSets, TLC

CONSTANTS a, b, n, nd, t1, t2, Undefined, EmptyText, None,
  Parts,                                     \* the parts that behaviours are of
  Ids, Names, Label, Numbers, Lists, Filters,  \* of QueryKeys
  Tabs,                                      \* of the caches, histories and lists
  Positions, PageLimit, WalkPages, MaxChanges,  \* of Walks
  Duration, MaxTime,                         \* of CurrentEpoch
  MaxContract,                               \* of ContractCache
  Floor, Latest, MaxProtocol,                \* of ProtocolVersion
  CacheKeys, Executions, MaxSize, MaxEntries, MaxBytes,  \* of QueryProofStore
  MaxGeneration, MaxDropped,
  DocumentTypes, StatementFields, MaxFilters, MaxOrder,  \* of QueryIndexes
  Texts, Statements, Contracts, MaxRuns, MaxSessions, RunPages,  \* of QueryWorkspace
  Viewed, MaxGrants, MaxRefusals,            \* of ViewedIdentities
  Saved, Scopes, Remote, Savable, MaxItems, ListRefusals  \* of LocalLists

ASSUME ReadsAssumption ==
  /\ Positions \in Nat /\ PageLimit \in Nat /\ PageLimit > 1
  /\ Duration \in Nat \ {0}
  /\ Floor \in Nat \ {0} /\ Latest \in Nat /\ MaxProtocol \in Nat /\ "storage" \notin Tabs
  /\ Statements \in [Texts -> Seq({"documents", "aggregate", "unresolved"})]
  /\ None \notin [id : Nat, text : Texts, contract : Contracts, session : Nat]
  /\ None \notin [failed : BOOLEAN,
                   of : [run : Nat, at : Nat, text : Texts, contract : Contracts,
                         session : Nat, page : Nat]]
  /\ MaxItems \in [{"entities", "queries", "registry"} -> Nat]
  /\ Savable \in [{"entities", "queries", "registry"} -> SUBSET (Scopes \X Saved)]

\* No identifier and no number is the empty string.
ASSUME KeysAssumption == EmptyText \notin Ids \cup Numbers

ASSUME StoreAssumption ==
  /\ IsFiniteSet(CacheKeys)
  /\ MaxSize \in Nat /\ MaxEntries \in Nat /\ MaxBytes \in Nat
  /\ MaxGeneration \in Nat /\ MaxDropped \in Nat
  /\ None \notin [bytes : Nat, omitted : BOOLEAN, stale : BOOLEAN]
  /\ None \notin [key : CacheKeys, generation : Nat, stale : BOOLEAN]

\* An index has a property (getIndicesForType), and names each once (Platform's rule).
ASSUME IndexAssumption ==
  \A t \in DocumentTypes :
    /\ t.indices \in Seq([fields : Seq(Nat), points : SUBSET {"count", "sum"},
                          ranges : SUBSET {"count", "sum"}])
    /\ \A i \in DOMAIN t.indices :
         /\ Len(t.indices[i].fields) >= 1
         /\ \A j, k \in DOMAIN t.indices[i].fields :
              t.indices[i].fields[j] = t.indices[i].fields[k] => j = k

VARIABLES part,
  kPage, kCached,
  wKind, wFrom, wTo, wHeld, wChanges, wThroughout, wOut, wStart, wPages, wPhase,
  wTruncated,
  eBlocks, ePhase, eIndex, ePrevious, eAttempt, eFirst, eEpoch, eError,
  cContract, cStored, cMemory, cRead,
  pNetwork, pStored, pSession, pWrite, pRan, pClean,
  sOrder, sStored, sRetained, sDropped, sGeneration, sEnabled, sDrawerOpen, sSeen,
  sQuery,
  gPlace, gFacts, gSession, gQ,
  rText, rPicker, rSession, rPending, rRun, rRuns, rView, rRequests,
  xType, xVersion, xSelect, xWhere, xOrderBy, xGroupBy,
  hConsent, hHistory, hRevoked, hCleared, hEvents, hShown, hGrants, hRefusals,
  hWithdrawn, hErased,
  lList, lStored, lShown, lScope, lLoaded, lRemote, lEvents, lChange, lBlind, lKept, lLost,
  lRefusals

keysVars == <<kPage, kCached>>
walksVars == <<wKind, wFrom, wTo, wHeld, wChanges, wThroughout, wOut, wStart,
  wPages, wPhase, wTruncated>>
epochVars == <<eBlocks, ePhase, eIndex, ePrevious, eAttempt, eFirst, eEpoch,
  eError>>
contractVars == <<cContract, cStored, cMemory, cRead>>
protocolVars == <<pNetwork, pStored, pSession, pWrite, pRan, pClean>>
storeVars == <<sOrder, sStored, sRetained, sDropped, sGeneration, sEnabled,
  sDrawerOpen, sSeen, sQuery>>
pagesVars == <<gPlace, gFacts, gSession, gQ>>
runVars == <<rText, rPicker, rSession, rPending, rRun, rRuns, rView, rRequests>>
indexVars == <<xType, xVersion, xSelect, xWhere, xOrderBy, xGroupBy>>
historyVars == <<hConsent, hHistory, hRevoked, hCleared, hEvents, hShown, hGrants,
  hRefusals, hWithdrawn, hErased>>
listVars == <<lList, lStored, lShown, lScope, lLoaded, lRemote, lEvents, lChange,
  lBlind, lKept, lLost, lRefusals>>
browserVars == <<runVars, indexVars, historyVars, listVars>>
readVars == <<keysVars, walksVars, epochVars, contractVars, protocolVars, storeVars, pagesVars>>

\* A name with .dash and without has one label.
SomeLabels == [name \in Names |-> n]
SomeLists == {<<>>, <<a>>, <<a, b>>}
SomeFilters == {<<>>, <<a>>}

K == INSTANCE QueryKeys WITH
       Absent <- Undefined, Empty <- EmptyText,
       page <- kPage, cached <- kCached

W == INSTANCE Walks WITH
       Keys <- 1..Positions, MaxPages <- WalkPages,
       kind <- wKind, from <- wFrom, to <- wTo, held <- wHeld, changes <- wChanges,
       throughout <- wThroughout, out <- wOut, start <- wStart, pages <- wPages,
       phase <- wPhase, truncated <- wTruncated

E == INSTANCE CurrentEpoch WITH
       blocks <- eBlocks, phase <- ePhase, index <- eIndex, previous <- ePrevious,
       attempt <- eAttempt, first <- eFirst, epoch <- eEpoch, error <- eError

C == INSTANCE ContractCache WITH
       contract <- cContract, stored <- cStored, memory <- cMemory, read <- cRead

P == INSTANCE ProtocolVersion WITH
       network <- pNetwork, stored <- pStored, session <- pSession, write <- pWrite,
       ran <- pRan, clean <- pClean

Store == INSTANCE QueryProofStore WITH
       Keys <- CacheKeys, Queries <- Executions,
       order <- sOrder, stored <- sStored, retained <- sRetained, dropped <- sDropped,
       generation <- sGeneration, enabled <- sEnabled, drawerOpen <- sDrawerOpen,
       seen <- sSeen, query <- sQuery

G == INSTANCE Pages WITH
       place <- gPlace, facts <- gFacts, session <- gSession, q <- gQ

\* Three statements, one without a contract to ask, and a text that is in error.
SomeStatements ==
  [t \in Texts |-> CASE t = "t1" -> <<"documents", "aggregate", "aggregate">>
                      [] t = "t2" -> <<"unresolved">>
                      [] t = "t3" -> <<>>]

R == INSTANCE QueryWorkspace WITH
       MaxPages <- RunPages,
       sqlText <- rText, picker <- rPicker, session <- rSession, pending <- rPending,
       run <- rRun, runs <- rRuns, view <- rView, requests <- rRequests

\* Two document types: indices with and without a continuation, one that is a suffix of
\* another, one of four fields, and totals of each kind.
Index(fields, points, ranges) == [fields |-> fields, points |-> points, ranges |-> ranges]
SomeDocumentTypes ==
  {[indices |-> <<Index(<<1, 2, 3>>, {"count"}, {"count"}),
                  Index(<<2, 3>>, {"count", "sum"}, {"count", "sum"})>>,
    totals |-> {"count"}],
   [indices |-> <<Index(<<1, 2>>, {"count"}, {"count"}), Index(<<3, 1, 2, 4>>, {}, {}),
                  Index(<<3>>, {"count", "sum"}, {"sum"})>>,
    totals |-> {"other"}]}

X == INSTANCE QueryIndexes WITH
       Types <- DocumentTypes, Fields <- StatementFields,
       type <- xType, version <- xVersion, select <- xSelect, where <- xWhere,
       orderBy <- xOrderBy, groupBy <- xGroupBy

H == INSTANCE ViewedIdentities WITH
       Ids <- Viewed,
       consent <- hConsent, history <- hHistory, revoked <- hRevoked, cleared <- hCleared,
       events <- hEvents, shown <- hShown, grants <- hGrants, refusals <- hRefusals,
       withdrawn <- hWithdrawn, erased <- hErased

SomeRemote == {<<n, a>>}
\* Two items where each change is two steps; three registry entries, of which two clash,
\* one of them with the remote registry too.  One list can be full, the others hold two.
SomeSavable ==
  [entities |-> {<<n, a>>, <<nd, a>>},
   queries |-> {<<n, a>>, <<n, b>>},
   registry |-> {<<n, b>>, <<nd, a>>, <<None, a>>}]
SomeLimits == [entities |-> 2, queries |-> 1, registry |-> 2]

L == INSTANCE LocalLists WITH
       Ids <- Saved, Everywhere <- None, MaxRefusals <- ListRefusals,
       list <- lList, stored <- lStored, shown <- lShown, scope <- lScope,
       loaded <- lLoaded, remote <- lRemote, events <- lEvents, change <- lChange,
       blind <- lBlind, kept <- lKept, lost <- lLost, refusals <- lRefusals

vars == <<part, readVars, browserVars>>

\* Every part treats its tabs alike.
TabSymmetry == Permutations(Tabs)

ReadsInit ==
  /\ IF part = "keys" THEN K!Init ELSE kPage = None /\ kCached = None
  /\ IF part = "walks" THEN W!Init
     ELSE /\ wKind = None /\ wFrom = None /\ wTo = None /\ wHeld = None
          /\ wChanges = None /\ wThroughout = None /\ wOut = None /\ wStart = None
          /\ wPages = None /\ wPhase = None /\ wTruncated = None
  /\ E!Init /\ C!Init /\ Store!Init
  /\ IF part = "protocol" THEN P!Init
     ELSE /\ pNetwork = None /\ pStored = None /\ pSession = None /\ pWrite = None
          /\ pRan = None /\ pClean = None
  /\ IF part = "pages" THEN G!Init
     ELSE gPlace = None /\ gFacts = None /\ gSession = None /\ gQ = None

BrowserInit ==
  /\ IF part = "workspace" THEN R!Init
     ELSE /\ rText = None /\ rPicker = None /\ rSession = None /\ rPending = None
          /\ rRun = None /\ rRuns = None /\ rView = None /\ rRequests = None
  /\ IF part = "indexes" THEN X!Init
     ELSE /\ xType = None /\ xVersion = None /\ xSelect = None /\ xWhere = None
          /\ xOrderBy = None /\ xGroupBy = None
  /\ H!Init
  /\ IF part = "lists" THEN L!Init
     ELSE /\ lList = None /\ lStored = None /\ lShown = None /\ lScope = None
          /\ lLoaded = None /\ lRemote = None /\ lEvents = None /\ lChange = None
          /\ lBlind = None /\ lKept = None /\ lLost = None /\ lRefusals = None

Init == part \in Parts /\ ReadsInit /\ BrowserInit

KeysNext ==
  part = "keys" /\ K!Next
  /\ UNCHANGED <<part, walksVars, epochVars, contractVars, protocolVars, storeVars, pagesVars, browserVars>>
WalksNext ==
  part = "walks" /\ W!Next
  /\ UNCHANGED <<part, keysVars, epochVars, contractVars, protocolVars, storeVars, pagesVars, browserVars>>
EpochNext ==
  part = "epoch" /\ E!Next
  /\ UNCHANGED <<part, keysVars, walksVars, contractVars, protocolVars, storeVars, pagesVars, browserVars>>
ContractNext ==
  part = "contract" /\ C!Next
  /\ UNCHANGED <<part, keysVars, walksVars, epochVars, protocolVars, storeVars, pagesVars, browserVars>>
ProtocolNext ==
  part = "protocol" /\ P!Next
  /\ UNCHANGED <<part, keysVars, walksVars, epochVars, contractVars, storeVars, pagesVars, browserVars>>
StoreNext ==
  part = "store" /\ Store!Next
  /\ UNCHANGED <<part, keysVars, walksVars, epochVars, contractVars, protocolVars, pagesVars, browserVars>>
PagesNext ==
  part = "pages" /\ G!Next
  /\ UNCHANGED <<part, keysVars, walksVars, epochVars, contractVars, protocolVars, storeVars, browserVars>>
WorkspaceNext ==
  part = "workspace" /\ R!Next
  /\ UNCHANGED <<part, readVars, indexVars, historyVars, listVars>>
IndexNext ==
  part = "indexes" /\ X!Next
  /\ UNCHANGED <<part, readVars, runVars, historyVars, listVars>>
HistoryNext ==
  part = "history" /\ H!Next
  /\ UNCHANGED <<part, readVars, runVars, indexVars, listVars>>
ListNext ==
  part = "lists" /\ L!Next
  /\ UNCHANGED <<part, readVars, runVars, indexVars, historyVars>>

Next == KeysNext \/ WalksNext \/ EpochNext \/ ContractNext \/ ProtocolNext \/ StoreNext
        \/ PagesNext \/ WorkspaceNext \/ IndexNext \/ HistoryNext \/ ListNext

Spec == Init /\ [][Next]_vars

\* QueryKeys: a page never shows the answer to another request than its own.
PageShowsItsRequest == part = "keys" => K!PageShowsItsRequest

\* Walks: what a walk gathers is complete or says that it is truncated.
CompleteOrTruncated == part = "walks" => W!CompleteOrTruncated

\* CurrentEpoch: a rollover cannot publish the previous epoch, answers of an honest chain
\* are never called contradictory, and the query gives up only over rollovers.
EpochEstablished ==
  part = "epoch" => E!PublishedIsOfLatestTime /\ E!NeverContradicted /\ E!GivesUpAfterRollovers

\* ContractCache: a read ends as of a stale cache only for what the contract it knows does
\* not have, or after an outage.
StaleEndsWithRefresh == part = "contract" => C!StaleEndsWithRefresh

\* ProtocolVersion: writes are built with rules the network has run meanwhile, the banner
\* explains those refused, and clearing the SDK cache allows them again after a reset.
WritesFollowNetwork ==
  part = "protocol" => P!BuiltByNetworkRules /\ P!RefusalExplained /\ P!ClearingFollowsReset

\* QueryProofStore: no page shows evidence the store no longer holds, the store keeps to
\* its limits with an exact count of bytes, and what was cleared does not come back.
EvidenceUpToDate == part = "store" => Store!PagesUpToDate /\ Store!WithinLimits /\ Store!ClearedForGood

\* Pages: none only of what Platform has none of, waiting only for what may come.
ClaimsTrue == part = "pages" => G!ClaimsTrue

\* Pages: what failed is told, or what is told is more urgent.
FailuresShown == part = "pages" => G!FailuresShown

\* QueryWorkspace: a result on screen answers what the screen says it does.
ResultsOfContext == part = "workspace" => R!ResultsOfContext

\* QueryWorkspace: statements take turns, and none is left behind.
StatementsTakeTurns == part = "workspace" => R!StatementsTakeTurns

\* QueryIndexes: a statement without a warning is one an index serves.
PassedIsServed == part = "indexes" => X!PassedIsServed

\* ViewedIdentities: history is shown only under the consent it was recorded under.
HistoryNeedsConsent == part = "history" => H!HistoryNeedsConsent

\* LocalLists: what a user saves stays until a user removes it, or a tab that could not know
\* of it writes over it.
EntriesKept == part = "lists" => L!EntriesKept

=============================================================================
