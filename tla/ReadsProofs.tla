------------------------------ MODULE ReadsProofs ------------------------------
(***************************************************************************)
(* Proofs about what stands around the reads of the pages, for any cache     *)
(* keys, contracts, protocol versions, statements, document types, pages,    *)
(* epochs, entries of the proof store, tabs and lists.                      *)
(***************************************************************************)
EXTENDS MCReads, FiniteSetTheorems, SequenceTheorems, WellFoundedInduction, TLAPS

-----------------------------------------------------------------------------
(* Sets of naturals.  Each instance counts with a Cardinality of its own.    *)

LEMMA SameCardinality ==
  /\ \A S : W!Cardinality(S) = Cardinality(S)
  /\ \A S : E!Cardinality(S) = Cardinality(S)
  /\ \A S : R!Cardinality(S) = Cardinality(S)
  /\ \A S : L!Cardinality(S) = Cardinality(S)
<1>1. \A S : W!Cardinality(S) = Cardinality(S)
  BY DEF W!Cardinality, Cardinality
<1>2. \A S : E!Cardinality(S) = Cardinality(S)
  BY DEF E!Cardinality, Cardinality
<1>3. \A S : R!Cardinality(S) = Cardinality(S)
  BY DEF R!Cardinality, Cardinality
<1>4. \A S : L!Cardinality(S) = Cardinality(S)
  BY DEF L!Cardinality, Cardinality
<1> QED BY <1>1, <1>2, <1>3, <1>4

\* A set of naturals has a least element.
LEMMA Least ==
  ASSUME NEW T \in SUBSET Nat, T # {}
  PROVE  \E m \in T : \A x \in T : m <= x
<1> DEFINE before == {p \in Nat \X Nat : p[1] < p[2]}
<1>1. before = OpToRel(<, Nat)
  BY Zenon DEF OpToRel
<1>2. IsWellFoundedOn(before, Nat)
  BY <1>1, NatLessThanWellFounded, Zenon
<1>3. PICK m \in T : \A x \in T : ~(<<x, m>> \in before)
  BY <1>2, WFMin
<1>4. \A x \in T : m \in Nat /\ x \in Nat /\ ~(x < m)
  BY <1>3
<1> QED BY <1>4

\* One with a bound has a greatest.
LEMMA Greatest ==
  ASSUME NEW N \in Nat, NEW T \in SUBSET (0..N), T # {}
  PROVE  \E m \in T : \A x \in T : x <= m
<1> DEFINE D == {N - x : x \in T}
<1>1. D \in SUBSET Nat /\ D # {}
  <2>1. \A x \in T : N - x \in Nat
    OBVIOUS
  <2> QED BY <2>1
<1>2. PICK d \in D : \A e \in D : d <= e
  BY <1>1, Least
<1>3. PICK m \in T : d = N - m
  OBVIOUS
<1>4. \A x \in T : N - m <= N - x
  BY <1>2, <1>3
<1>5. \A x \in T : x <= m
  BY <1>4
<1> QED BY <1>5

\* The first k elements of a set of naturals: they are its first ones, they are no more
\* than k, and if they are fewer they are all.
Firsts(T, k) == {x \in T : Cardinality({y \in T : y < x}) < k}

LEMMA FirstsFill ==
  ASSUME NEW T \in SUBSET Nat, IsFiniteSet(T), NEW k \in Nat
  PROVE  /\ Firsts(T, k) \subseteq T /\ IsFiniteSet(Firsts(T, k))
         /\ Cardinality(Firsts(T, k)) \in Nat
         /\ \A x \in Firsts(T, k), y \in T : y < x => y \in Firsts(T, k)
         /\ Cardinality(Firsts(T, k)) < k => Firsts(T, k) = T
<1> DEFINE F == Firsts(T, k)
           Below(x) == {y \in T : y < x}
<1>1. F \subseteq T /\ (\A x : x \in F <=> x \in T /\ Cardinality(Below(x)) < k)
  BY DEF Firsts
<1>2. IsFiniteSet(F) /\ Cardinality(F) \in Nat
  BY <1>1, FS_Subset, FS_CardinalityType
<1>3. \A x : IsFiniteSet(Below(x)) /\ Cardinality(Below(x)) \in Nat
  BY FS_Subset, FS_CardinalityType
<1>4. ASSUME NEW x \in F, NEW y \in T, y < x
      PROVE  y \in F
  <2>1. Below(y) \subseteq Below(x) /\ Cardinality(Below(x)) < k
    <3>1. x \in Nat /\ y \in Nat /\ y < x
      BY <1>1, <1>4
    <3>2. \A z \in T : z < y => z < x
      <4> HIDE DEF F
      <4> QED BY <3>1
    <3>3. Below(y) \subseteq Below(x)
      BY <3>2
    <3> HIDE DEF Below, F
    <3> QED BY <1>1, <1>4, <3>3
  <2>2. Cardinality(Below(y)) <= Cardinality(Below(x))
    BY <1>3, <2>1, FS_Subset
  <2> HIDE DEF Below
  <2>3. Cardinality(Below(y)) < k
    BY <1>3, <2>1, <2>2
  <2> QED BY <1>1, <2>3
<1>5. ASSUME Cardinality(F) < k, F # T
      PROVE  FALSE
  <2>1. PICK x \in T \ F : \A y \in T \ F : x <= y
    <3>1. T \ F \in SUBSET Nat /\ T \ F # {}
      BY <1>1, <1>5
    <3> QED BY <3>1, Least
  <2>2. Below(x) \subseteq F
    <3>1. \A y \in T : y < x => ~(x <= y)
      BY <2>1
    <3> QED BY <2>1, <3>1
  <2>3. Cardinality(Below(x)) <= Cardinality(F)
    BY <1>2, <2>2, FS_Subset
  <2> HIDE DEF Below
  <2>4. Cardinality(Below(x)) < k
    BY <1>2, <1>3, <1>5, <2>3
  <2> QED BY <1>1, <2>1, <2>4
<1> QED BY <1>1, <1>2, <1>4, <1>5

LEMMA FirstsAreFew ==
  ASSUME NEW T \in SUBSET Nat, IsFiniteSet(T), NEW k \in Nat
  PROVE  Cardinality(Firsts(T, k)) <= k
<1> DEFINE F == Firsts(T, k)
           Below(x) == {y \in T : y < x}
           rank == [x \in F |-> Cardinality(Below(x))]
<1>1. \A x : IsFiniteSet(Below(x)) /\ Cardinality(Below(x)) \in Nat
  BY FS_Subset, FS_CardinalityType
<1>2. /\ F \subseteq T /\ IsFiniteSet(F)
      /\ \A x \in F : Cardinality(Below(x)) < k
  BY FirstsFill DEF Firsts
<1>3. ASSUME NEW x \in F, NEW y \in F, x < y
      PROVE  Cardinality(Below(x)) < Cardinality(Below(y))
  <2>1. Below(x) \cup {x} \subseteq Below(y) /\ x \notin Below(x)
    <3>1. x \in Nat /\ y \in Nat /\ x < y /\ x \in T
      BY <1>2, <1>3
    <3>2. /\ \A z \in T : z < x => z < y
          /\ ~(x < x)
      <4> HIDE DEF F
      <4> QED BY <3>1
    <3> QED BY <3>1, <3>2
  <2>2. Cardinality(Below(x) \cup {x}) = Cardinality(Below(x)) + 1
    <3>1. IsFiniteSet(Below(x)) /\ x \notin Below(x)
      BY <1>1, <2>1
    <3> HIDE DEF Below
    <3> QED BY <3>1, FS_AddElement
  <2>3. Cardinality(Below(x) \cup {x}) <= Cardinality(Below(y))
    BY <1>1, <2>1, FS_Subset
  <2> HIDE DEF Below
  <2> QED BY <1>1, <2>2, <2>3
<1>4. \A x \in F : Cardinality(Below(x)) \in 0..(k - 1)
  <2> HIDE DEF Below
  <2> QED BY <1>1, <1>2
<1>5. rank \in [F -> 0..(k - 1)]
  BY <1>4
<1>6. \A x, y \in F : x # y => rank[x] # rank[y]
  <2> SUFFICES ASSUME NEW x \in F, NEW y \in F, x # y
               PROVE  Cardinality(Below(x)) # Cardinality(Below(y))
    OBVIOUS
  <2>1. x \in Nat /\ y \in Nat
    BY <1>2
  <2>2. x < y \/ y < x
    BY <2>1
  <2>3. /\ x < y => Cardinality(Below(x)) < Cardinality(Below(y))
        /\ y < x => Cardinality(Below(y)) < Cardinality(Below(x))
    BY <1>3
  <2> HIDE DEF Below
  <2> QED BY <1>1, <2>2, <2>3
<1> HIDE DEF rank
<1>7. rank \in Injection(F, 0..(k - 1))
  BY <1>5, <1>6 DEF Injection, IsInjective
<1>8. IsFiniteSet(0..(k - 1)) /\ Cardinality(0..(k - 1)) = k
  BY FS_Interval
<1>9. Cardinality(F) <= Cardinality(0..(k - 1))
  BY <1>7, <1>8, FS_Injection
<1> QED BY <1>8, <1>9

-----------------------------------------------------------------------------
(* ContractCache.                                                          *)

ReadStates == {"none", "first", "refresh", "second", "found", "failed"}

CachedReads == [at : ReadStates, type : Int, known : Int, outage : BOOLEAN]

CacheTypes ==
  /\ cContract \in Int /\ cContract >= 1 /\ cStored \in Int
  /\ cMemory \in [Tabs -> Int]
  /\ cRead \in [Tabs -> CachedReads]

\* The second read of a tab is built from what the refresh found, or something newer.
SecondIsRefreshed ==
  \A t \in Tabs : cRead[t].at = "second" =>
    /\ cMemory[t] >= cRead[t].known /\ cRead[t].known >= 1
    /\ cContract >= cMemory[t]

CacheInv == CacheTypes /\ SecondIsRefreshed /\ C!StaleEndsWithRefresh

LEMMA InitCache == C!Init => CacheInv
<1> SUFFICES ASSUME C!Init PROVE CacheInv
  OBVIOUS
<1>1. CacheTypes
  BY DEF C!Init, C!NoRead, CacheTypes, ReadStates, CachedReads
<1> QED BY <1>1 DEF C!Init, C!NoRead, CacheInv, SecondIsRefreshed, C!StaleEndsWithRefresh

\* A tab's read that keeps, or gives up, what the tab holds of the contract.
LEMMA CacheStep ==
  ASSUME CacheInv, NEW t \in Tabs, NEW r \in CachedReads,
         NEW m \in Int, cMemory' = [cMemory EXCEPT ![t] = m], cRead' = [cRead EXCEPT ![t] = r],
         cContract' = cContract, cStored' \in Int,
         r.at = "second" => m >= r.known /\ r.known >= 1 /\ cContract >= m,
         r.at = "failed" => r.type > r.known \/ r.outage
  PROVE  CacheInv'
<1>1. /\ \A u \in Tabs : cRead'[u] = IF u = t THEN r ELSE cRead[u]
      /\ \A u \in Tabs : cMemory'[u] = IF u = t THEN m ELSE cMemory[u]
  BY DEF CacheInv, CacheTypes
<1>2. CacheTypes'
  BY DEF CacheInv, CacheTypes
<1>3. SecondIsRefreshed'
  BY <1>1 DEF CacheInv, SecondIsRefreshed
<1>4. C!StaleEndsWithRefresh'
  BY <1>1 DEF CacheInv, C!StaleEndsWithRefresh
<1> QED BY <1>2, <1>3, <1>4 DEF CacheInv

LEMMA ReadSteps ==
  ASSUME CacheInv, NEW t \in Tabs,
         \/ \E type \in 1..MaxContract : C!Read(t, type)
         \/ C!ReadFails(t) \/ C!NewSession(t) \/ C!ClearPersistedSdkCache(t)
  PROVE  CacheInv'
<1>1. cMemory[t] \in Int /\ cMemory = [cMemory EXCEPT ![t] = cMemory[t]]
  BY DEF CacheInv, CacheTypes
<1>2. ASSUME NEW type \in 1..MaxContract, C!Read(t, type)
      PROVE  CacheInv'
  <2> DEFINE r == [at |-> "first", type |-> type, known |-> cContract, outage |-> FALSE]
  <2>1. r \in CachedReads /\ r.at = "first"
    BY DEF CacheInv, CacheTypes, ReadStates, CachedReads
  <2>2. cRead' = [cRead EXCEPT ![t] = r] /\ cMemory' = cMemory /\ cContract' = cContract
        /\ cStored' \in Int
    BY <1>2 DEF C!Read, CacheInv, CacheTypes
  <2> HIDE DEF r
  <2> QED BY <1>1, <2>1, <2>2, CacheStep
<1>3. CASE C!ReadFails(t) \/ C!NewSession(t) \/ C!ClearPersistedSdkCache(t)
  <2>1. C!NoRead \in CachedReads /\ C!NoRead.at = "none"
    BY DEF C!NoRead, ReadStates, CachedReads
  <2>2. /\ cRead' = [cRead EXCEPT ![t] = C!NoRead] /\ cContract' = cContract /\ cStored' \in Int
        /\ cMemory' = cMemory \/ cMemory' = [cMemory EXCEPT ![t] = 0]
    BY <1>3 DEF C!ReadFails, C!NewSession, C!ClearPersistedSdkCache, CacheInv, CacheTypes
  <2>3. 0 \in Int
    OBVIOUS
  <2> QED BY <1>1, <2>1, <2>2, <2>3, CacheStep
<1> QED BY <1>2, <1>3

\* The first read of a stale contract refreshes it; the second finds whatever the refresh did.
LEMMA AnswerReadStep ==
  ASSUME CacheInv, NEW t \in Tabs, C!AnswerRead(t)
  PROVE  CacheInv'
<1>1. /\ cRead[t] \in CachedReads /\ cMemory[t] \in Int
      /\ cContract \in Int /\ cContract' = cContract /\ C!Cached(t) \in Int /\ cStored \in Int
  BY DEF CacheInv, CacheTypes, C!AnswerRead, C!Cached
<1>2. ASSUME NEW version \in Int, C!Caches(t, version)
      PROVE  cMemory' = [cMemory EXCEPT ![t] = version] /\ cStored' \in Int
  BY <1>1, <1>2 DEF C!Caches
<1>3. cRead[t].at = "second" => C!Cached(t) >= cRead[t].known
  <2> SUFFICES ASSUME cRead[t].at = "second" PROVE C!Cached(t) >= cRead[t].known
    OBVIOUS
  <2>1. cMemory[t] >= cRead[t].known /\ cRead[t].known >= 1 /\ cRead[t].known \in Int
    BY <1>1 DEF CacheInv, SecondIsRefreshed, CachedReads
  <2>2. cMemory[t] # 0
    BY <1>1, <2>1
  <2>3. C!Cached(t) = cMemory[t]
    BY <2>2 DEF C!Cached
  <2> QED BY <2>1, <2>3
<1>4. ASSUME NEW version \in Int, C!Caches(t, version),
             cRead' = [cRead EXCEPT ![t].at = "found"]
      PROVE  CacheInv'
  <2> DEFINE r == [cRead[t] EXCEPT !.at = "found"]
  <2>1. r \in CachedReads /\ r.at = "found"
    BY <1>1 DEF ReadStates, CachedReads
  <2>2. cRead' = [cRead EXCEPT ![t] = r]
    BY <1>4
  <2> HIDE DEF r
  <2> QED BY <1>1, <1>2, <1>4, <2>1, <2>2, CacheStep
<1>5. ASSUME C!Caches(t, C!Cached(t)), cRead[t].type > C!Cached(t),
             cRead[t].at \in {"first", "second"},
             cRead' = [cRead EXCEPT ![t].at = C!AfterStale(t)]
      PROVE  CacheInv'
  <2> DEFINE r == [cRead[t] EXCEPT !.at = C!AfterStale(t)]
  <2>1. /\ C!AfterStale(t) \in {"refresh", "failed"}
        /\ C!AfterStale(t) = "failed" => cRead[t].at = "second"
    BY <1>5 DEF C!AfterStale
  <2>2. /\ r \in CachedReads
        /\ r.at = C!AfterStale(t) /\ r.type = cRead[t].type /\ r.known = cRead[t].known
    BY <1>1, <2>1 DEF ReadStates, CachedReads
  <2>3. cRead' = [cRead EXCEPT ![t] = r]
    BY <1>5
  <2> HIDE DEF r
  <2>4. r.at = "failed" => r.type > r.known
    <3>1. r.at = "failed" => C!Cached(t) >= cRead[t].known
      BY <1>3, <2>1, <2>2
    <3>2. cRead[t].type \in Int /\ cRead[t].known \in Int
      BY <1>1 DEF CachedReads
    <3> QED BY <1>1, <1>5, <2>2, <3>1, <3>2
  <2>5. r.at # "second"
    BY <2>1, <2>2
  <2>6. cMemory' = [cMemory EXCEPT ![t] = C!Cached(t)] /\ cStored' \in Int
    BY <1>1, <1>2, <1>5
  <2> QED BY <1>1, <2>2, <2>3, <2>4, <2>5, <2>6, CacheStep
<1> QED BY <1>1, <1>4, <1>5 DEF C!AnswerRead

LEMMA RefreshStep ==
  ASSUME CacheInv, NEW t \in Tabs, C!Refresh(t)
  PROVE  CacheInv'
<1> DEFINE r == [cRead[t] EXCEPT !.at = "second", !.known = cContract]
<1>1. /\ cRead[t] \in CachedReads /\ cStored \in Int
      /\ cContract \in Int /\ cContract >= 1 /\ cContract' = cContract
  BY DEF CacheInv, CacheTypes, C!Refresh
<1>2. /\ r \in CachedReads
      /\ r.at = "second" /\ r.known = cContract
  BY <1>1 DEF ReadStates, CachedReads
<1>3. cRead' = [cRead EXCEPT ![t] = r]
  BY DEF C!Refresh
<1>4. cMemory' = [cMemory EXCEPT ![t] = cContract] /\ cStored' \in Int
  BY <1>1 DEF C!Refresh, C!Caches
<1> HIDE DEF r
<1>5. /\ cContract >= r.known /\ r.known >= 1 /\ cContract >= cContract
      /\ r.at # "failed"
  BY <1>1, <1>2
<1> QED BY <1>1, <1>2, <1>3, <1>4, <1>5, CacheStep

\* A refresh that fails gives back the error of the first read, of an outage.
LEMMA RefreshFailsStep ==
  ASSUME CacheInv, NEW t \in Tabs, C!RefreshFails(t)
  PROVE  CacheInv'
<1> DEFINE r == [cRead[t] EXCEPT !.at = "failed", !.outage = TRUE]
<1>1. /\ cRead[t] \in CachedReads /\ cStored \in Int /\ cMemory[t] \in Int
      /\ cMemory' = [cMemory EXCEPT ![t] = cMemory[t]]
      /\ cContract' = cContract /\ cStored' = cStored
  BY DEF CacheInv, CacheTypes, C!RefreshFails
<1>2. r \in CachedReads /\ r.at = "failed" /\ r.outage = TRUE
  BY <1>1 DEF ReadStates, CachedReads
<1>3. cRead' = [cRead EXCEPT ![t] = r]
  BY DEF C!RefreshFails
<1> HIDE DEF r
<1> QED BY <1>1, <1>2, <1>3, CacheStep

LEMMA UpdateContractStep ==
  ASSUME CacheInv, C!UpdateContract
  PROVE  CacheInv'
<1>1. cContract' = cContract + 1 /\ UNCHANGED <<cStored, cMemory, cRead>>
  BY DEF C!UpdateContract
<1>2. CacheTypes'
  BY <1>1 DEF CacheInv, CacheTypes
<1>3. SecondIsRefreshed'
  BY <1>1 DEF CacheInv, CacheTypes, SecondIsRefreshed
<1>4. C!StaleEndsWithRefresh'
  BY <1>1 DEF CacheInv, C!StaleEndsWithRefresh
<1> QED BY <1>2, <1>3, <1>4 DEF CacheInv

LEMMA NextCache ==
  ASSUME CacheInv, C!Next
  PROVE  CacheInv'
BY ReadSteps, AnswerReadStep, RefreshStep, RefreshFailsStep, UpdateContractStep DEF C!Next

LEMMA CacheStutters == CacheInv /\ UNCHANGED contractVars => CacheInv'
BY DEF contractVars, CacheInv, CacheTypes, SecondIsRefreshed, C!StaleEndsWithRefresh

-----------------------------------------------------------------------------
(* ProtocolVersion.                                                        *)

WriteStates == {"none", "reading", "answered", "allowed", "built", "refused"}
Checks == [at : WriteStates, seen : Nat, rules : Nat]

ProtocolTypes ==
  /\ pNetwork \in Nat /\ pNetwork >= Floor
  /\ pStored \in Nat /\ pSession \in [Tabs -> Nat] /\ pWrite \in [Tabs -> Checks]
  /\ pRan \in [Tabs -> SUBSET Nat] /\ pClean \in SUBSET (Tabs \cup {"storage"})

\* What a check has established: of write w, in a session at s, with the versions r run
\* since it began, on a network at v.
Established(w, s, r, v) ==
  /\ w.at # "none" => v \in r /\ s # 0
  /\ w.at = "answered" => w.seen \in r /\ (w.seen <= Latest => s >= w.seen)
  /\ w.at = "allowed" => s \in r
  /\ w.at = "built" => w.rules \in r
  /\ w.at = "refused" => P!ProtocolVersionMismatch(w.rules, w.seen) # "none"

ChecksHold == \A t \in Tabs : Established(pWrite[t], pSession[t], pRan[t], pNetwork)

\* What was cleared after a reset is not above the network.
ClearedIsLow ==
  /\ "storage" \in pClean => pStored <= pNetwork
  /\ \A t \in Tabs : t \in pClean => pSession[t] <= pNetwork

ProtocolInv == ProtocolTypes /\ ChecksHold /\ ClearedIsLow

LEMMA InitProtocol == P!Init => ProtocolInv
<1> SUFFICES ASSUME P!Init PROVE ProtocolInv
  OBVIOUS
<1>0. P!NoWrite \in Checks /\ P!NoWrite.at = "none"
  BY DEF P!NoWrite, Checks, WriteStates
<1>1. /\ pNetwork \in Nat /\ pNetwork >= Floor /\ pStored = 0 /\ pClean = {"storage"}
      /\ \A t \in Tabs : pSession[t] = 0 /\ pWrite[t] = P!NoWrite
      /\ pSession \in [Tabs -> Nat] /\ pWrite \in [Tabs -> Checks]
      /\ pRan \in [Tabs -> SUBSET Nat]
  BY <1>0, ReadsAssumption DEF P!Init
<1>2. ChecksHold
  BY <1>0, <1>1 DEF ChecksHold, Established
<1>3. ClearedIsLow
  BY <1>1, ReadsAssumption DEF ClearedIsLow
<1> QED BY <1>1, <1>2, <1>3 DEF ProtocolInv, ProtocolTypes

LEMMA ChangeNetworkStep ==
  ASSUME ProtocolInv, NEW v \in Floor..MaxProtocol, P!ChangeNetwork(v)
  PROVE  ProtocolInv'
<1>1. /\ v \in Nat /\ v >= Floor /\ pNetwork \in Nat
      /\ pNetwork' = v /\ pStored' = pStored /\ pSession' = pSession /\ pWrite' = pWrite
      /\ pClean' = IF v < pNetwork THEN {} ELSE pClean
      /\ pRan' = [t \in Tabs |-> IF pRan[t] = {} THEN {} ELSE pRan[t] \cup {v}]
  BY ReadsAssumption DEF P!ChangeNetwork, ProtocolInv, ProtocolTypes
<1>2. ProtocolTypes'
  BY <1>1 DEF ProtocolInv, ProtocolTypes
<1>3. ASSUME NEW t \in Tabs
      PROVE  Established(pWrite[t], pSession[t], pRan'[t], v)
  <2>1. Established(pWrite[t], pSession[t], pRan[t], pNetwork)
    BY DEF ProtocolInv, ChecksHold
  <2>2. pRan[t] # {} => pRan'[t] = pRan[t] \cup {v}
    BY <1>1
  <2> QED BY <2>1, <2>2 DEF Established
<1>4. ChecksHold'
  BY <1>1, <1>3 DEF ChecksHold
<1>5. ClearedIsLow'
  BY <1>1 DEF ProtocolInv, ProtocolTypes, ClearedIsLow
<1> QED BY <1>2, <1>4, <1>5 DEF ProtocolInv

\* Whatever a tab does leaves the checks of the other tabs as they are.
LEMMA TabProtocol ==
  ASSUME ProtocolInv, NEW t \in Tabs, NEW s \in Nat, NEW w \in Checks, NEW r \in SUBSET Nat,
         pNetwork' = pNetwork, pStored' \in Nat,
         pSession' = [pSession EXCEPT ![t] = s], pWrite' = [pWrite EXCEPT ![t] = w],
         pRan' = [pRan EXCEPT ![t] = r], pClean' \in SUBSET (Tabs \cup {"storage"}),
         Established(w, s, r, pNetwork), ClearedIsLow'
  PROVE  ProtocolInv'
<1>1. /\ \A u \in Tabs : pSession'[u] = IF u = t THEN s ELSE pSession[u]
      /\ \A u \in Tabs : pWrite'[u] = IF u = t THEN w ELSE pWrite[u]
      /\ \A u \in Tabs : pRan'[u] = IF u = t THEN r ELSE pRan[u]
  BY DEF ProtocolInv, ProtocolTypes
<1>2. ProtocolTypes'
  BY DEF ProtocolInv, ProtocolTypes
<1>3. ASSUME NEW u \in Tabs
      PROVE  Established(pWrite'[u], pSession'[u], pRan'[u], pNetwork)
  <2>1. Established(pWrite[u], pSession[u], pRan[u], pNetwork)
    BY DEF ProtocolInv, ChecksHold
  <2>2. CASE u = t
    BY <1>1, <2>2
  <2>3. CASE u # t
    BY <1>1, <2>1, <2>3
  <2> QED BY <2>2, <2>3
<1>4. ChecksHold'
  BY <1>3 DEF ChecksHold
<1> QED BY <1>2, <1>4 DEF ProtocolInv

\* What is known of tab t before it acts.
LEMMA OfTab ==
  ASSUME ProtocolInv, NEW t \in Tabs
  PROVE  /\ pNetwork \in Nat /\ pNetwork >= Floor /\ pStored \in Nat
         /\ pSession[t] \in Nat /\ pRan[t] \in SUBSET Nat
         /\ pWrite[t] \in Checks
         /\ pWrite[t].at \in WriteStates /\ pWrite[t].seen \in Nat /\ pWrite[t].rules \in Nat
         /\ Established(pWrite[t], pSession[t], pRan[t], pNetwork)
         /\ pSession = [pSession EXCEPT ![t] = pSession[t]]
         /\ pWrite = [pWrite EXCEPT ![t] = pWrite[t]]
         /\ pRan = [pRan EXCEPT ![t] = pRan[t]]
         /\ pClean \in SUBSET (Tabs \cup {"storage"})
<1>1. pWrite[t] \in Checks
  BY DEF ProtocolInv, ProtocolTypes
<1>2. pWrite[t].at \in WriteStates /\ pWrite[t].seen \in Nat /\ pWrite[t].rules \in Nat
  BY <1>1 DEF Checks
<1>3. Established(pWrite[t], pSession[t], pRan[t], pNetwork)
  BY DEF ProtocolInv, ChecksHold
<1> QED BY <1>1, <1>2, <1>3 DEF ProtocolInv, ProtocolTypes

LEMMA ConnectTabStep ==
  ASSUME ProtocolInv, NEW t \in Tabs, P!Connect(t)
  PROVE  ProtocolInv'
<1> DEFINE s == P!Higher(Floor, pStored)
<1>1. /\ pSession[t] = 0 /\ pSession' = [pSession EXCEPT ![t] = s]
      /\ pClean' = IF "storage" \in pClean THEN pClean \cup {t} ELSE pClean \ {t}
      /\ pNetwork' = pNetwork /\ pStored' = pStored /\ pWrite' = pWrite /\ pRan' = pRan
  BY DEF P!Connect
<1>2. s \in Nat /\ s # 0 /\ ("storage" \in pClean => s <= pNetwork)
  BY ReadsAssumption, OfTab DEF P!Higher, ProtocolInv, ClearedIsLow
<1> HIDE DEF s
<1>3. \A u \in Tabs : pSession'[u] = IF u = t THEN s ELSE pSession[u]
  BY <1>1 DEF ProtocolInv, ProtocolTypes
<1>4. Established(pWrite[t], s, pRan[t], pNetwork)
  BY <1>1, <1>2, OfTab DEF Established, WriteStates
<1>5. ClearedIsLow'
  BY <1>1, <1>2, <1>3, ReadsAssumption DEF ProtocolInv, ClearedIsLow
<1>6. pStored' \in Nat /\ pClean' \in SUBSET (Tabs \cup {"storage"})
  BY <1>1, OfTab
<1> QED BY <1>1, <1>2, <1>4, <1>5, <1>6, OfTab, TabProtocol

\* A proved answer raises a session at most to the network's version.
LEMMA Proved ==
  ASSUME ProtocolInv, NEW t \in Tabs, P!ProvedAnswer(t), pNetwork' = pNetwork,
         pClean' = pClean
  PROVE  /\ P!Raised(t) \in Nat /\ P!Raised(t) # 0 /\ P!Raised(t) >= pSession[t]
         /\ P!Raised(t) = pSession[t] \/ P!Raised(t) = pNetwork
         /\ pNetwork <= Latest => P!Raised(t) >= pNetwork
         /\ pSession' = [pSession EXCEPT ![t] = P!Raised(t)]
         /\ pStored' \in Nat /\ ClearedIsLow'
<1>1. /\ pSession[t] # 0 /\ pSession' = [pSession EXCEPT ![t] = P!Raised(t)]
      /\ pStored' = IF P!Raised(t) = pSession[t] THEN pStored
                    ELSE P!Higher(pStored, P!Raised(t))
  BY DEF P!ProvedAnswer
<1>2. /\ P!Raised(t) \in Nat /\ P!Raised(t) # 0 /\ P!Raised(t) >= pSession[t]
      /\ P!Raised(t) = pSession[t] \/ P!Raised(t) = pNetwork
      /\ pNetwork <= Latest => P!Raised(t) >= pNetwork
  BY <1>1, OfTab, ReadsAssumption DEF P!Raised, P!Higher
<1>3. /\ pStored' \in Nat
      /\ pStored <= pNetwork => pStored' <= pNetwork
  BY <1>1, <1>2, OfTab DEF P!Higher
<1>4. \A u \in Tabs : pSession'[u] = IF u = t THEN P!Raised(t) ELSE pSession[u]
  BY <1>1 DEF ProtocolInv, ProtocolTypes
<1>5. t \in pClean => P!Raised(t) <= pNetwork
  BY <1>2, OfTab DEF ProtocolInv, ClearedIsLow
<1>6. ClearedIsLow'
  BY <1>3, <1>4, <1>5 DEF ProtocolInv, ClearedIsLow
<1> QED BY <1>1, <1>2, <1>3, <1>6

LEMMA OtherAnswerStep ==
  ASSUME ProtocolInv, NEW t \in Tabs, P!OtherAnswer(t)
  PROVE  ProtocolInv'
<1>1. /\ P!ProvedAnswer(t)
      /\ pNetwork' = pNetwork /\ pWrite' = pWrite /\ pRan' = pRan /\ pClean' = pClean
  BY DEF P!OtherAnswer
<1>2. /\ P!Raised(t) \in Nat /\ P!Raised(t) # 0 /\ P!Raised(t) >= pSession[t]
      /\ P!Raised(t) = pSession[t] \/ P!Raised(t) = pNetwork
      /\ pSession' = [pSession EXCEPT ![t] = P!Raised(t)]
      /\ pStored' \in Nat /\ ClearedIsLow'
  BY <1>1, Proved
<1>3. Established(pWrite[t], P!Raised(t), pRan[t], pNetwork)
  <2> DEFINE s == P!Raised(t)
             w == pWrite[t]
             r == pRan[t]
  <2>1. /\ s \in Nat /\ s # 0 /\ s >= pSession[t]
        /\ s = pSession[t] \/ s = pNetwork
        /\ pSession[t] \in Nat /\ w.seen \in Nat /\ Latest \in Nat
        /\ Established(w, pSession[t], r, pNetwork)
    BY <1>2, OfTab, ReadsAssumption
  <2> HIDE DEF s, w, r
  <2>2. w.at = "answered" => w.seen \in r /\ (w.seen <= Latest => s >= w.seen)
    BY <2>1 DEF Established
  <2>3. w.at = "allowed" => s \in r
    BY <2>1 DEF Established
  <2>4. w.at # "none" => pNetwork \in r /\ s # 0
    BY <2>1 DEF Established
  <2>5. w.at = "built" => w.rules \in r
    BY <2>1 DEF Established
  <2>6. w.at = "refused" => P!ProtocolVersionMismatch(w.rules, w.seen) # "none"
    BY <2>1 DEF Established
  <2>7. Established(w, s, r, pNetwork)
    BY <2>2, <2>3, <2>4, <2>5, <2>6 DEF Established
  <2> QED BY <2>7 DEF s, w, r
<1> QED BY <1>1, <1>2, <1>3, OfTab, TabProtocol

LEMMA AnswerCheckStep ==
  ASSUME ProtocolInv, NEW t \in Tabs, P!AnswerCheck(t)
  PROVE  ProtocolInv'
<1> DEFINE w == [pWrite[t] EXCEPT !.at = "answered", !.seen = pNetwork]
<1>1. /\ P!ProvedAnswer(t) /\ pWrite[t].at = "reading"
      /\ pNetwork' = pNetwork /\ pRan' = pRan /\ pClean' = pClean
      /\ pWrite' = [pWrite EXCEPT ![t] = w]
  BY DEF P!AnswerCheck
<1>2. /\ P!Raised(t) \in Nat /\ P!Raised(t) # 0
      /\ pNetwork <= Latest => P!Raised(t) >= pNetwork
      /\ pSession' = [pSession EXCEPT ![t] = P!Raised(t)]
      /\ pStored' \in Nat /\ ClearedIsLow'
  BY <1>1, Proved
<1>3. w \in Checks /\ w.at = "answered" /\ w.seen = pNetwork
  <2>1. pWrite[t] \in Checks /\ pNetwork \in Nat
    BY OfTab
  <2> QED BY <2>1 DEF Checks, WriteStates
<1> HIDE DEF w
<1>4. pNetwork \in pRan[t]
  BY <1>1, OfTab DEF Established
<1>5. Established(w, P!Raised(t), pRan[t], pNetwork)
  BY <1>2, <1>3, <1>4 DEF Established
<1> QED BY <1>1, <1>2, <1>3, <1>5, OfTab, TabProtocol

\* Steps of a check, or of Settings, between two answers.
LEMMA CheckSteps ==
  ASSUME ProtocolInv, NEW t \in Tabs,
         P!CheckWrite(t) \/ P!CheckFails(t) \/ P!ClearPersistedSdkCache(t)
  PROVE  ProtocolInv'
<1>1. CASE P!CheckWrite(t)
  <2> DEFINE w == [at |-> "reading", seen |-> 0, rules |-> 0]
  <2>1. /\ pSession[t] # 0 /\ pWrite' = [pWrite EXCEPT ![t] = w]
        /\ pRan' = [pRan EXCEPT ![t] = {pNetwork}]
        /\ pNetwork' = pNetwork /\ pStored' = pStored /\ pSession' = pSession
        /\ pClean' = pClean
    BY <1>1 DEF P!CheckWrite
  <2>2. w \in Checks /\ w.at = "reading"
    BY DEF Checks, WriteStates
  <2> HIDE DEF w
  <2>3. {pNetwork} \in SUBSET Nat
    BY OfTab
  <2>4. Established(w, pSession[t], {pNetwork}, pNetwork)
    BY <2>1, <2>2 DEF Established
  <2>5. ClearedIsLow'
    BY <2>1 DEF ProtocolInv, ClearedIsLow
  <2> QED BY <2>1, <2>2, <2>3, <2>4, <2>5, OfTab, TabProtocol
<1>2. P!NoWrite \in Checks /\ P!NoWrite.at = "none"
  BY DEF P!NoWrite, Checks, WriteStates
<1>3. \A s : Established(P!NoWrite, s, {}, pNetwork)
  BY <1>2 DEF Established
<1>4. CASE P!CheckFails(t)
  <2>1. /\ pWrite' = [pWrite EXCEPT ![t] = P!NoWrite] /\ pRan' = [pRan EXCEPT ![t] = {}]
        /\ pNetwork' = pNetwork /\ pStored' = pStored /\ pSession' = pSession
        /\ pClean' = pClean
    BY <1>4 DEF P!CheckFails
  <2>2. ClearedIsLow'
    BY <2>1 DEF ProtocolInv, ClearedIsLow
  <2>3. {} \in SUBSET Nat
    OBVIOUS
  <2> QED BY <1>2, <1>3, <2>1, <2>2, <2>3, OfTab, TabProtocol
<1>5. CASE P!ClearPersistedSdkCache(t)
  <2>1. /\ pWrite' = [pWrite EXCEPT ![t] = P!NoWrite] /\ pRan' = [pRan EXCEPT ![t] = {}]
        /\ pNetwork' = pNetwork /\ pStored' = 0
        /\ pSession' = [pSession EXCEPT ![t] = 0]
        /\ pClean' = (pClean \ {t}) \cup {"storage"}
    BY <1>5 DEF P!ClearPersistedSdkCache, P!ClearedStore
  <2>2. \A u \in Tabs : pSession'[u] = IF u = t THEN 0 ELSE pSession[u]
    BY <2>1 DEF ProtocolInv, ProtocolTypes
  <2>3. ClearedIsLow'
    BY <2>1, <2>2, OfTab, ReadsAssumption DEF ProtocolInv, ClearedIsLow
  <2>4. {} \in SUBSET Nat /\ 0 \in Nat /\ pClean' \in SUBSET (Tabs \cup {"storage"})
    BY <2>1, OfTab
  <2> QED BY <1>2, <1>3, <2>1, <2>3, <2>4, TabProtocol
<1> QED BY <1>1, <1>4, <1>5

\* A refused write saw versions that the banner tells apart.
LEMMA DecideSteps ==
  ASSUME ProtocolInv, NEW t \in Tabs, P!Decide(t) \/ P!Build(t)
  PROVE  ProtocolInv'
<1>1. /\ pNetwork' = pNetwork /\ pStored' = pStored /\ pSession' = pSession
      /\ pRan' = pRan /\ pClean' = pClean
  BY DEF P!Decide, P!Build
<1>2. ClearedIsLow'
  BY <1>1 DEF ProtocolInv, ClearedIsLow
<1>3. CASE P!Decide(t)
  <2> DEFINE to == IF P!Writable(pSession[t], pWrite[t].seen) THEN "allowed" ELSE "refused"
             w == [pWrite[t] EXCEPT !.rules = pSession[t], !.at = to]
  <2>1. pWrite[t].at = "answered" /\ pWrite' = [pWrite EXCEPT ![t] = w]
    BY <1>3 DEF P!Decide
  <2>2. /\ pWrite[t].seen \in pRan[t] /\ pNetwork \in pRan[t] /\ pSession[t] # 0
        /\ pWrite[t].seen <= Latest => pSession[t] >= pWrite[t].seen
    BY <2>1, OfTab DEF Established
  <2>3. /\ to \in {"allowed", "refused"}
        /\ to = "allowed" => pSession[t] = pWrite[t].seen
        /\ to = "refused" => pSession[t] # pWrite[t].seen
    BY DEF P!Writable
  <2> HIDE DEF to
  <2>4. w \in Checks /\ w.at = to /\ w.rules = pSession[t] /\ w.seen = pWrite[t].seen
    <3>1. pWrite[t] \in Checks /\ pSession[t] \in Nat
      BY OfTab
    <3> QED BY <2>3, <3>1 DEF Checks, WriteStates
  <2> HIDE DEF w
  <2>5. w.at = "refused" => P!ProtocolVersionMismatch(w.rules, w.seen) # "none"
    <3>1. /\ pWrite[t].seen \in Nat /\ pSession[t] \in Nat /\ Latest \in Nat
          /\ pWrite[t].seen <= Latest => pSession[t] >= pWrite[t].seen
      BY <2>2, OfTab, ReadsAssumption
    <3>2. w.at = "refused" => w.rules # w.seen
      BY <2>3, <2>4
    <3>3. /\ w.rules \in Nat /\ w.seen \in Nat
          /\ w.seen <= Latest => w.rules >= w.seen
      BY <2>4, <3>1
    <3> QED BY <3>1, <3>2, <3>3 DEF P!ProtocolVersionMismatch
  <2>6. Established(w, pSession[t], pRan[t], pNetwork)
    BY <2>2, <2>3, <2>4, <2>5 DEF Established
  <2> QED BY <1>1, <1>2, <2>1, <2>4, <2>6, OfTab, TabProtocol
<1>4. CASE P!Build(t)
  <2> DEFINE w == [pWrite[t] EXCEPT !.at = "built", !.rules = pSession[t]]
  <2>1. pWrite[t].at = "allowed" /\ pWrite' = [pWrite EXCEPT ![t] = w]
    BY <1>4 DEF P!Build
  <2>2. w \in Checks /\ w.at = "built" /\ w.rules = pSession[t]
    <3>1. pWrite[t] \in Checks /\ pSession[t] \in Nat
      BY OfTab
    <3> QED BY <3>1 DEF Checks, WriteStates
  <2> HIDE DEF w
  <2>3. Established(w, pSession[t], pRan[t], pNetwork)
    BY <2>1, <2>2, OfTab DEF Established
  <2> QED BY <1>1, <1>2, <2>1, <2>2, <2>3, OfTab, TabProtocol
<1> QED BY <1>3, <1>4

LEMMA NextProtocol ==
  ASSUME ProtocolInv, P!Next
  PROVE  ProtocolInv'
BY ChangeNetworkStep, ConnectTabStep, OtherAnswerStep, AnswerCheckStep, CheckSteps,
   DecideSteps DEF P!Next

LEMMA ProtocolHolds == ProtocolInv => P!BuiltByNetworkRules /\ P!RefusalExplained
                                      /\ P!ClearingFollowsReset
BY DEF ProtocolInv, ChecksHold, Established, ClearedIsLow, P!BuiltByNetworkRules,
       P!RefusalExplained, P!ClearingFollowsReset

LEMMA ProtocolStutters == ProtocolInv /\ UNCHANGED protocolVars => ProtocolInv'
<1> SUFFICES ASSUME ProtocolInv, UNCHANGED protocolVars PROVE ProtocolInv'
  OBVIOUS
<1>1. /\ pNetwork' = pNetwork /\ pStored' = pStored /\ pSession' = pSession
      /\ pWrite' = pWrite /\ pRan' = pRan /\ pClean' = pClean
  BY DEF protocolVars
<1> QED BY <1>1 DEF ProtocolInv, ProtocolTypes, ChecksHold, Established, ClearedIsLow,
                    P!ProtocolVersionMismatch

-----------------------------------------------------------------------------
(* ViewedIdentities.                                                       *)

HistoryTypes ==
  /\ hConsent \in BOOLEAN
  /\ hShown = [t \in Tabs |-> hShown[t]] /\ hErased = [t \in Tabs |-> hErased[t]]
  /\ hWithdrawn \subseteq Tabs /\ hEvents \subseteq Tabs \X {"consent", "history"}

OfThisConsent == hConsent => \A e \in hHistory : e[2] = hGrants

\* A withdrawal and an erasure are stored, or the tab they were made in remembers them.
Withdrawals == \A t \in hWithdrawn : t \in hRevoked \/ ~hConsent
Erasures == \A t \in Tabs : t \in hCleared \/ hHistory \cap hErased[t] = {}

ShownRight ==
  \A t \in Tabs : /\ t \in hWithdrawn => hShown[t] = H!Hidden
                  /\ hShown[t].entries \cap hErased[t] = {}

HistoryInv == HistoryTypes /\ OfThisConsent /\ Withdrawals /\ Erasures /\ ShownRight

LEMMA InitHistory == H!Init => HistoryInv
BY DEF H!Init, H!Hidden, HistoryInv, HistoryTypes, OfThisConsent, Withdrawals, Erasures,
       ShownRight

\* The pages of a tab that has refreshed are right when withdrawals and erasures are.
LEMMA RefreshIsRight ==
  ASSUME HistoryInv, NEW t \in Tabs, H!Refresh(t), Withdrawals', Erasures',
         hWithdrawn' \subseteq hWithdrawn \cup {t},
         hErased' = [u \in Tabs |-> hErased'[u]],
         \A u \in Tabs \ {t} : hErased'[u] \subseteq hErased[u]
  PROVE  ShownRight' /\ hShown' = [u \in Tabs |-> hShown'[u]]
<1>1. \A u \in Tabs : hShown'[u] = IF u = t THEN H!Visible(t) ELSE hShown[u]
  BY DEF H!Refresh, HistoryInv, HistoryTypes
<1>2. t \in hWithdrawn' => H!Visible(t) = H!Hidden
  BY DEF Withdrawals, H!Visible, H!HasConsent
<1>3. H!Visible(t).entries \cap hErased'[t] = {}
  BY DEF Erasures, H!Visible, H!Hidden
<1>4. ShownRight'
  <2>1. ASSUME NEW u \in Tabs
        PROVE  /\ u \in hWithdrawn' => hShown'[u] = H!Hidden
               /\ hShown'[u].entries \cap hErased'[u] = {}
    <3>1. CASE u = t
      BY <1>1, <1>2, <1>3, <3>1
    <3>2. CASE u # t
      BY <1>1, <3>2 DEF HistoryInv, ShownRight
    <3> QED BY <3>1, <3>2
  <2> QED BY <2>1 DEF ShownRight, H!Hidden
<1>5. hShown' = [u \in Tabs |-> hShown'[u]]
  BY DEF H!Refresh, HistoryInv, HistoryTypes
<1> QED BY <1>4, <1>5

LEMMA ToldEvents ==
  ASSUME HistoryInv, NEW t \in Tabs, NEW K1, K1 \subseteq {"consent", "history"},
         hEvents' = hEvents \cup (H!Others(t) \X K1)
  PROVE  hEvents' \subseteq Tabs \X {"consent", "history"}
BY DEF HistoryInv, HistoryTypes, H!Others

LEMMA GiveConsentStep ==
  ASSUME HistoryInv, H!GiveConsent
  PROVE  HistoryInv'
<1>1. PICK t \in Tabs : /\ H!Refresh(t)
                        /\ H!EraseRefused(t) \/ \E saved \in BOOLEAN : H!Granted(t, saved)
  BY DEF H!GiveConsent
<1>2. hErased' = hErased /\ hErased' = [u \in Tabs |-> hErased'[u]]
  BY <1>1 DEF H!EraseRefused, H!Granted, HistoryInv, HistoryTypes
<1>3. CASE H!EraseRefused(t)
  <2>1. /\ hCleared' = hCleared \cup {t} /\ hConsent' = hConsent /\ hHistory' = hHistory
        /\ hRevoked' = hRevoked /\ hEvents' = hEvents /\ hGrants' = hGrants
        /\ hWithdrawn' = hWithdrawn
    BY <1>3 DEF H!EraseRefused
  <2>2. Withdrawals' /\ OfThisConsent'
    BY <2>1 DEF HistoryInv, Withdrawals, OfThisConsent
  <2>3. Erasures'
    BY <1>2, <2>1 DEF HistoryInv, Erasures
  <2>4. ShownRight' /\ hShown' = [u \in Tabs |-> hShown'[u]]
    BY <1>1, <1>2, <2>1, <2>2, <2>3, RefreshIsRight
  <2>5. HistoryTypes'
    BY <1>2, <2>1, <2>4 DEF HistoryInv, HistoryTypes
  <2> QED BY <2>2, <2>3, <2>4, <2>5 DEF HistoryInv
<1>4. ASSUME NEW saved \in BOOLEAN, H!Granted(t, saved)
      PROVE  HistoryInv'
  <2> DEFINE changed == {k \in {"consent", "history"} :
                           IF k = "consent" THEN hConsent' # hConsent
                                            ELSE hHistory' # hHistory}
  <2>1. /\ hHistory' = IF H!ErasesFirst(t) THEN {} ELSE hHistory
        /\ hCleared' = IF H!ErasesFirst(t) THEN hCleared \ {t} ELSE hCleared
        /\ hConsent' = (hConsent \/ saved)
        /\ hRevoked' = IF saved THEN hRevoked \ {t} ELSE hRevoked
        /\ hGrants' = IF saved /\ ~H!HasConsent(t) THEN hGrants + 1 ELSE hGrants
        /\ hWithdrawn' = IF saved THEN {} ELSE hWithdrawn
        /\ hEvents' = hEvents \cup (H!Others(t) \X changed)
    BY <1>4 DEF H!Granted, H!Tells
  <2>2. Withdrawals'
    BY <2>1 DEF HistoryInv, Withdrawals
  <2>3. OfThisConsent'
    BY <2>1 DEF HistoryInv, OfThisConsent, H!ErasesFirst, H!HasConsent
  <2>4. Erasures'
    BY <1>2, <2>1 DEF HistoryInv, Erasures
  <2>5. ShownRight' /\ hShown' = [u \in Tabs |-> hShown'[u]]
    BY <1>1, <1>2, <2>1, <2>2, <2>4, RefreshIsRight
  <2>6. changed \subseteq {"consent", "history"}
    OBVIOUS
  <2> HIDE DEF changed
  <2>7. hEvents' \subseteq Tabs \X {"consent", "history"}
    BY <2>1, <2>6, ToldEvents
  <2>8. HistoryTypes'
    BY <1>2, <2>1, <2>5, <2>7 DEF HistoryInv, HistoryTypes
  <2> QED BY <2>2, <2>3, <2>4, <2>5, <2>8 DEF HistoryInv
<1> QED BY <1>1, <1>3, <1>4

LEMMA WithdrawConsentStep ==
  ASSUME HistoryInv, H!WithdrawConsent
  PROVE  HistoryInv'
<1>1. PICK t \in Tabs, consentRemoved \in BOOLEAN, historyRemoved \in BOOLEAN :
        /\ hConsent' = (hConsent /\ ~consentRemoved)
        /\ hHistory' = IF historyRemoved THEN {} ELSE hHistory
        /\ hRevoked' = H!Set(hRevoked, t, ~consentRemoved)
        /\ hCleared' = H!Set(hCleared, t, ~historyRemoved)
        /\ H!Tells(t, {k \in {"consent", "history"} :
                        IF k = "consent" THEN hConsent' # hConsent
                                         ELSE hHistory' # hHistory})
        /\ H!Refresh(t)
        /\ hWithdrawn' = hWithdrawn \cup {t}
        /\ hErased' = [hErased EXCEPT ![t] = @ \cup hHistory]
        /\ hGrants' = hGrants
  BY DEF H!WithdrawConsent
<1> DEFINE changed == {k \in {"consent", "history"} :
                         IF k = "consent" THEN hConsent' # hConsent
                                          ELSE hHistory' # hHistory}
<1>2. hEvents' = hEvents \cup (H!Others(t) \X changed)
  BY <1>1 DEF H!Tells
<1>3. changed \subseteq {"consent", "history"}
  OBVIOUS
<1> HIDE DEF changed
<1>4. hEvents' \subseteq Tabs \X {"consent", "history"}
  BY <1>2, <1>3, ToldEvents
<1>5. /\ \A u \in Tabs : hErased'[u] = IF u = t THEN hErased[t] \cup hHistory ELSE hErased[u]
      /\ hErased' = [u \in Tabs |-> hErased'[u]]
  BY <1>1 DEF HistoryInv, HistoryTypes
<1>6. Withdrawals'
  BY <1>1 DEF HistoryInv, Withdrawals, H!Set
<1>7. OfThisConsent'
  BY <1>1 DEF HistoryInv, OfThisConsent
<1>8. Erasures'
  BY <1>1, <1>5 DEF HistoryInv, Erasures, H!Set
<1>9. ShownRight' /\ hShown' = [u \in Tabs |-> hShown'[u]]
  BY <1>1, <1>5, <1>6, <1>8, RefreshIsRight
<1>10. HistoryTypes'
  BY <1>1, <1>4, <1>5, <1>9 DEF HistoryInv, HistoryTypes
<1> QED BY <1>6, <1>7, <1>8, <1>9, <1>10 DEF HistoryInv

\* What is recorded is of the consent that stands; what was erased does not come back.
LEMMA RecordStep ==
  ASSUME HistoryInv, H!Record
  PROVE  HistoryInv'
<1>1. PICK t \in Tabs, id \in Viewed, ok \in BOOLEAN :
        /\ H!HasConsent(t)
        /\ hConsent' = hConsent /\ hRevoked' = hRevoked /\ hGrants' = hGrants
        /\ hWithdrawn' = hWithdrawn
        /\ IF ok
           THEN /\ hHistory' = {<<id, hGrants>>} \cup
                      {e \in IF t \in hCleared THEN {} ELSE hHistory : e[1] # id}
                /\ hCleared' = hCleared \ {t}
                /\ H!Tells(t, IF hHistory' # hHistory THEN {"history"} ELSE {})
                /\ H!Refresh(t)
                /\ hErased' = [u \in Tabs |-> IF u = t THEN hErased[t] \ hHistory' ELSE {}]
           ELSE UNCHANGED <<hHistory, hCleared, hEvents, hShown, hErased>>
  BY DEF H!Record
<1>2. CASE ~ok
  BY <1>1, <1>2 DEF HistoryInv, HistoryTypes, OfThisConsent, Withdrawals, Erasures,
                    ShownRight, H!Hidden
<1>3. CASE ok
  <2>1. OfThisConsent'
    BY <1>1, <1>3 DEF HistoryInv, OfThisConsent, H!HasConsent
  <2>2. Withdrawals'
    BY <1>1 DEF HistoryInv, Withdrawals
  <2>3. /\ \A u \in Tabs : hErased'[u] = IF u = t THEN hErased[t] \ hHistory' ELSE {}
        /\ hErased' = [u \in Tabs |-> hErased'[u]]
    BY <1>1, <1>3
  <2>4. Erasures'
    BY <2>3 DEF Erasures
  <2>5. ShownRight' /\ hShown' = [u \in Tabs |-> hShown'[u]]
    BY <1>1, <1>3, <2>2, <2>3, <2>4, RefreshIsRight
  <2>6. hEvents' \subseteq Tabs \X {"consent", "history"}
    BY <1>1, <1>3 DEF H!Tells, H!Others, HistoryInv, HistoryTypes
  <2>7. HistoryTypes'
    BY <1>1, <2>3, <2>5, <2>6 DEF HistoryInv, HistoryTypes
  <2> QED BY <2>1, <2>2, <2>4, <2>5, <2>7 DEF HistoryInv
<1> QED BY <1>2, <1>3

LEMMA ClearStep ==
  ASSUME HistoryInv, H!Clear
  PROVE  HistoryInv'
<1>1. PICK t \in Tabs, ok \in BOOLEAN :
        /\ hConsent' = hConsent /\ hRevoked' = hRevoked /\ hGrants' = hGrants
        /\ hWithdrawn' = hWithdrawn
        /\ hHistory' = IF ok THEN {} ELSE hHistory
        /\ hCleared' = H!Set(hCleared, t, ~ok)
        /\ H!Tells(t, IF hHistory' # hHistory THEN {"history"} ELSE {})
        /\ H!Refresh(t)
        /\ hErased' = [hErased EXCEPT ![t] = @ \cup hHistory]
  BY DEF H!Clear
<1>2. /\ \A u \in Tabs : hErased'[u] = IF u = t THEN hErased[t] \cup hHistory ELSE hErased[u]
      /\ hErased' = [u \in Tabs |-> hErased'[u]]
  BY <1>1 DEF HistoryInv, HistoryTypes
<1>3. OfThisConsent' /\ Withdrawals'
  BY <1>1 DEF HistoryInv, OfThisConsent, Withdrawals
<1>4. Erasures'
  BY <1>1, <1>2 DEF HistoryInv, Erasures, H!Set
<1>5. ShownRight' /\ hShown' = [u \in Tabs |-> hShown'[u]]
  BY <1>1, <1>2, <1>3, <1>4, RefreshIsRight
<1>6. hEvents' \subseteq Tabs \X {"consent", "history"}
  BY <1>1 DEF H!Tells, H!Others, HistoryInv, HistoryTypes
<1>7. HistoryTypes'
  BY <1>1, <1>2, <1>5, <1>6 DEF HistoryInv, HistoryTypes
<1> QED BY <1>3, <1>4, <1>5, <1>7 DEF HistoryInv

\* A tab that hears of another's update, or is loaded again, forgets what it hid.
LEMMA ForgetStep ==
  ASSUME HistoryInv, H!Event \/ H!Reload
  PROVE  HistoryInv'
<1>1. PICK t \in Tabs :
        /\ hConsent' = hConsent /\ hHistory' = hHistory /\ hGrants' = hGrants
        /\ hEvents' \subseteq hEvents /\ H!Refresh(t)
        /\ \/ hRevoked' = hRevoked /\ hWithdrawn' = hWithdrawn
           \/ hRevoked' = hRevoked \ {t} /\ hWithdrawn' = hWithdrawn \ {t}
        /\ \/ hCleared' = hCleared /\ hErased' = hErased
           \/ hCleared' = hCleared \ {t} /\ hErased' = [hErased EXCEPT ![t] = {}]
  <2>1. CASE H!Event
    <3>1. PICK e \in hEvents :
            /\ hConsent' = hConsent /\ hHistory' = hHistory /\ hGrants' = hGrants
            /\ hEvents' = hEvents \ {e} /\ H!Refresh(e[1])
            /\ IF e[2] = "consent"
               THEN /\ hRevoked' = hRevoked \ {e[1]} /\ hWithdrawn' = hWithdrawn \ {e[1]}
                    /\ UNCHANGED <<hCleared, hErased>>
               ELSE /\ hCleared' = hCleared \ {e[1]}
                    /\ hErased' = [hErased EXCEPT ![e[1]] = {}]
                    /\ UNCHANGED <<hRevoked, hWithdrawn>>
      BY <2>1 DEF H!Event
    <3>2. e[1] \in Tabs
      BY DEF HistoryInv, HistoryTypes
    <3> QED BY <3>1, <3>2
  <2>2. CASE H!Reload
    BY <2>2 DEF H!Reload
  <2> QED BY <2>1, <2>2
<1>2. /\ \A u \in Tabs : hErased'[u] = hErased[u] \/ (u = t /\ hErased'[u] = {})
      /\ hErased' = [u \in Tabs |-> hErased'[u]]
  BY <1>1 DEF HistoryInv, HistoryTypes
<1>3. OfThisConsent' /\ Withdrawals'
  BY <1>1 DEF HistoryInv, OfThisConsent, Withdrawals
<1>4. Erasures'
  <2>1. CASE hCleared' = hCleared /\ hErased' = hErased
    BY <1>1, <2>1 DEF HistoryInv, Erasures
  <2>2. CASE hCleared' = hCleared \ {t} /\ hErased' = [hErased EXCEPT ![t] = {}]
    <3>1. \A u \in Tabs : hErased'[u] = IF u = t THEN {} ELSE hErased[u]
      BY <2>2 DEF HistoryInv, HistoryTypes
    <3> QED BY <1>1, <2>2, <3>1 DEF HistoryInv, Erasures
  <2> QED BY <1>1, <2>1, <2>2
<1>5. ShownRight' /\ hShown' = [u \in Tabs |-> hShown'[u]]
  BY <1>1, <1>2, <1>3, <1>4, RefreshIsRight
<1>6. HistoryTypes'
  BY <1>1, <1>2, <1>5 DEF HistoryInv, HistoryTypes
<1> QED BY <1>3, <1>4, <1>5, <1>6 DEF HistoryInv

LEMMA NextHistory ==
  ASSUME HistoryInv, H!Next
  PROVE  HistoryInv'
BY GiveConsentStep, WithdrawConsentStep, RecordStep, ClearStep, ForgetStep DEF H!Next

LEMMA HistoryHolds == HistoryInv => H!HistoryNeedsConsent
BY DEF HistoryInv, HistoryTypes, OfThisConsent, ShownRight, H!HistoryNeedsConsent

LEMMA HistoryStutters == HistoryInv /\ UNCHANGED historyVars => HistoryInv'
BY DEF historyVars, HistoryInv, HistoryTypes, OfThisConsent, Withdrawals, Erasures,
       ShownRight, H!Hidden

-----------------------------------------------------------------------------
(* Walks.                                                                  *)

WalkTypes ==
  /\ wKind \in {"blocks", "votes", "range"}
  /\ wFrom \in Nat /\ wFrom >= 1 /\ (wKind = "range" => wTo \in Int)
  /\ wKind # "range" => wFrom = 1
  /\ wHeld \in SUBSET (1..Positions) /\ wThroughout \subseteq wHeld
  /\ wStart \in Nat

\* What the pages so far have covered.
Covered ==
  /\ wKind = "blocks" => \A k \in wThroughout : k <= wStart => k \in wOut
  /\ wKind = "votes" => /\ \A k \in wThroughout : k < wStart => k \in wOut
                        /\ \A k \in wOut : k \in Nat /\ k <= wStart
  /\ wKind = "range" => \A k \in wThroughout : wFrom <= k /\ k < wStart => k \in wOut

WalkInv == WalkTypes /\ (wPhase = "walking" => Covered) /\ W!CompleteOrTruncated

\* The first page of a set of keys is a full one, or the set.
LEMMA FirstPageFacts ==
  ASSUME NEW T, T \in SUBSET (1..Positions)
  PROVE  /\ W!FirstPage(T) \subseteq T
         /\ \A x \in W!FirstPage(T), y \in T : y < x => y \in W!FirstPage(T)
         /\ W!LastPage(W!FirstPage(T)) => W!FirstPage(T) = T
         /\ \A z : W!FirstPage(T) \subseteq {z} => W!FirstPage(T) = T
<1>1. T \in SUBSET Nat /\ IsFiniteSet(T) /\ PageLimit \in Nat /\ PageLimit > 1
  <2>1. T \in SUBSET Nat
    OBVIOUS
  <2>2. IsFiniteSet(1..Positions)
    <3>1. Positions \in Int /\ 1 \in Int
      BY ReadsAssumption
    <3> QED BY <3>1, FS_Interval
  <2>3. IsFiniteSet(T)
    BY <2>2, FS_Subset
  <2> QED BY <2>1, <2>3, ReadsAssumption
<1>2. W!FirstPage(T) = Firsts(T, PageLimit)
  BY SameCardinality DEF W!FirstPage, Firsts
<1>3. /\ Firsts(T, PageLimit) \subseteq T /\ IsFiniteSet(Firsts(T, PageLimit))
      /\ \A x \in Firsts(T, PageLimit), y \in T : y < x => y \in Firsts(T, PageLimit)
      /\ Cardinality(Firsts(T, PageLimit)) < PageLimit => Firsts(T, PageLimit) = T
  BY <1>1, FirstsFill
<1> DEFINE F == Firsts(T, PageLimit)
<1> HIDE DEF F
<1>4. F = {} => Cardinality(F) < PageLimit
  BY <1>1, FS_EmptySet
<1>5. W!LastPage(F) => F = T
  BY <1>3, <1>4, SameCardinality DEF W!LastPage, F
<1>6. ASSUME NEW z, F \subseteq {z}
      PROVE  F = T
  <2>1. IsFiniteSet({z}) /\ Cardinality({z}) = 1
    BY FS_Singleton
  <2>2. Cardinality(F) \in Nat /\ Cardinality(F) <= 1
    BY <1>6, <2>1, FS_Subset, FS_CardinalityType
  <2>3. Cardinality(F) < PageLimit
    BY <1>1, <2>2
  <2> QED BY <1>3, <2>3 DEF F
<1> QED BY <1>2, <1>3, <1>5, <1>6 DEF F

LEMMA LastOfPage ==
  ASSUME NEW T, T \in SUBSET (1..Positions), T # {}
  PROVE  /\ W!Max(T) \in T /\ W!Max(T) \in Nat
         /\ \A x \in T : x <= W!Max(T)
<1>1. \E m \in T : \A x \in T : x <= m
  <2>1. T \in SUBSET (0..Positions) /\ Positions \in Nat
    BY ReadsAssumption
  <2> QED BY <2>1, Greatest
<1>2. \E m \in T : \A x \in T : m >= x
  <2>1. PICK m \in T : \A x \in T : x <= m
    BY <1>1
  <2>2. \A x \in T : m \in Nat /\ x \in Nat
    OBVIOUS
  <2>3. \A x \in T : m >= x
    BY <2>1, <2>2
  <2> QED BY <2>3
<1>3. W!Max(T) \in T /\ \A x \in T : W!Max(T) >= x
  BY <1>2 DEF W!Max
<1>4. \A x \in T : x \in Nat
  OBVIOUS
<1> QED BY <1>3, <1>4

LEMMA InitWalk == W!Init => WalkInv
<1> SUFFICES ASSUME W!Init PROVE WalkInv
  OBVIOUS
<1>1. WalkTypes
  BY ReadsAssumption DEF W!Init, WalkTypes
<1>2. Covered
  BY <1>1 DEF W!Init, Covered, WalkTypes
<1>3. W!CompleteOrTruncated
  BY DEF W!Init, W!CompleteOrTruncated
<1> QED BY <1>1, <1>2, <1>3 DEF WalkInv

LEMMA ChangeStep ==
  ASSUME WalkInv, W!Change
  PROVE  WalkInv'
<1>1. PICK k \in 1..Positions :
        /\ wHeld' = IF k \in wHeld THEN wHeld \ {k} ELSE wHeld \cup {k}
        /\ wThroughout' = wThroughout \ {k}
  BY DEF W!Change
<1>2. /\ wPhase = "walking" /\ wPhase' = wPhase /\ wKind' = wKind /\ wFrom' = wFrom
      /\ wTo' = wTo /\ wOut' = wOut /\ wStart' = wStart
  BY DEF W!Change
<1>3. WalkTypes'
  BY <1>1, <1>2 DEF WalkInv, WalkTypes
<1>4. Covered'
  BY <1>1, <1>2 DEF WalkInv, Covered
<1> QED BY <1>2, <1>3, <1>4 DEF WalkInv, W!CompleteOrTruncated

\* A walk that has ended covers its keys when it gathered all Platform has held throughout.
LEMMA EndOfWalk ==
  ASSUME WalkInv, wKind' = wKind, wFrom' = wFrom, wTo' = wTo, wHeld' = wHeld,
         wThroughout' = wThroughout, wStart' = wStart, wPhase' = "done",
         wThroughout \cap wFrom..wTo \subseteq wOut'
  PROVE  WalkInv'
BY DEF WalkInv, WalkTypes, W!CompleteOrTruncated

\* One that goes on, or is truncated, keeps what it has covered.
LEMMA WalkGoesOn ==
  ASSUME WalkInv, wPhase = "walking", wKind' = wKind, wFrom' = wFrom, wTo' = wTo,
         wHeld' = wHeld, wThroughout' = wThroughout, wStart' \in Nat, Covered',
         wPhase' = wPhase \/ (wPhase' = "done" /\ wTruncated' = TRUE)
  PROVE  WalkInv'
BY DEF WalkInv, WalkTypes, W!CompleteOrTruncated

LEMMA WalkBlocksStep ==
  ASSUME WalkInv, W!Page, W!WalkBlocks
  PROVE  WalkInv'
<1> DEFINE T == {k \in wHeld : k > wStart}
           B == W!BlocksPage
<1>1. /\ wPhase = "walking" /\ wKind = "blocks" /\ wOut' = wOut \cup B
      /\ wKind' = wKind /\ wFrom' = wFrom /\ wTo' = wTo /\ wHeld' = wHeld
      /\ wThroughout' = wThroughout
      /\ IF W!LastPage(B) THEN W!Ended ELSE W!GoesOn(W!Max(B))
  BY DEF W!Page, W!WalkBlocks
<1>2. T \in SUBSET (1..Positions) /\ B = W!FirstPage(T)
  BY DEF W!BlocksPage, WalkInv, WalkTypes
<1>3. /\ B \subseteq T /\ \A x \in B, y \in T : y < x => y \in B
      /\ W!LastPage(B) => B = T
  BY <1>2, FirstPageFacts
<1>4. /\ \A k \in wThroughout : k \in wHeld /\ k \in Nat /\ wStart \in Nat
      /\ \A k \in wThroughout : k <= wStart => k \in wOut
  BY <1>1 DEF WalkInv, WalkTypes, Covered
<1> HIDE DEF B
<1>5. CASE W!LastPage(B)
  <2>1. wThroughout \subseteq wOut'
    BY <1>1, <1>3, <1>4, <1>5
  <2>2. wPhase' = "done" /\ wStart' = wStart
    BY <1>1, <1>5 DEF W!Ended
  <2> QED BY <1>1, <2>1, <2>2, EndOfWalk
<1>6. CASE ~W!LastPage(B)
  <2>1. B # {}
    BY <1>6 DEF W!LastPage
  <2>2. W!Max(B) \in B /\ W!Max(B) \in Nat
    BY <1>2, <1>3, <2>1, LastOfPage
  <2>3. /\ wStart' = W!Max(B)
        /\ wPhase' = wPhase \/ (wPhase' = "done" /\ wTruncated' = TRUE)
    BY <1>1, <1>6 DEF W!GoesOn
  <2>4. \A k \in wThroughout : k <= W!Max(B) => k \in wOut'
    <3> SUFFICES ASSUME NEW k \in wThroughout, k <= W!Max(B), k > wStart
                 PROVE  k \in B
      BY <1>1, <1>4
    <3>1. k \in T /\ (k < W!Max(B) \/ k = W!Max(B))
      BY <1>4, <2>2
    <3> QED BY <1>3, <2>2, <3>1
  <2>5. Covered'
    BY <1>1, <2>3, <2>4 DEF Covered
  <2> QED BY <1>1, <2>2, <2>3, <2>5, WalkGoesOn
<1> QED BY <1>5, <1>6

\* The votes' pages repeat their start; a page without another key is the last.
LEMMA WalkVotesStep ==
  ASSUME WalkInv, W!Page, W!WalkVotes
  PROVE  WalkInv'
<1> DEFINE T == {k \in wHeld : k >= wStart}
           V == W!VotesPage
<1>1. /\ wPhase = "walking" /\ wKind = "votes" /\ wOut' = wOut \cup V
      /\ wKind' = wKind /\ wFrom' = wFrom /\ wTo' = wTo /\ wHeld' = wHeld
      /\ wThroughout' = wThroughout
      /\ IF W!LastPage(V) \/ V \subseteq wOut THEN W!Ended ELSE W!GoesOn(W!Max(V))
  BY DEF W!Page, W!WalkVotes, W!NextVoteStart
<1>2. T \in SUBSET (1..Positions) /\ V = W!FirstPage(T)
  BY DEF W!VotesPage, WalkInv, WalkTypes
<1>3. /\ V \subseteq T /\ \A x \in V, y \in T : y < x => y \in V
      /\ W!LastPage(V) => V = T
      /\ V \subseteq {wStart} => V = T
  BY <1>2, FirstPageFacts
<1>4. /\ \A k \in wThroughout : k \in wHeld /\ k \in Nat /\ wStart \in Nat
      /\ \A k \in T : k \in Nat /\ k >= wStart /\ wStart \in Nat
      /\ \A k \in wThroughout : k < wStart => k \in wOut
      /\ \A k \in wOut : k \in Nat /\ k <= wStart
  BY <1>1 DEF WalkInv, WalkTypes, Covered
<1> HIDE DEF V
<1>5. CASE W!LastPage(V) \/ V \subseteq wOut
  <2>1. V \subseteq wOut => V \subseteq {wStart}
    BY <1>3, <1>4
  <2>2. V = T
    BY <1>3, <1>5, <2>1
  <2>3. wThroughout \subseteq wOut'
    BY <1>1, <1>4, <2>2
  <2>4. wPhase' = "done" /\ wStart' = wStart
    BY <1>1, <1>5 DEF W!Ended
  <2> QED BY <1>1, <2>3, <2>4, EndOfWalk
<1>6. CASE ~(W!LastPage(V) \/ V \subseteq wOut)
  <2>1. V # {}
    BY <1>6 DEF W!LastPage
  <2>2. /\ W!Max(V) \in V /\ W!Max(V) \in Nat
        /\ \A x \in V : x <= W!Max(V)
    BY <1>2, <1>3, <2>1, LastOfPage
  <2>3. /\ wStart' = W!Max(V)
        /\ wPhase' = wPhase \/ (wPhase' = "done" /\ wTruncated' = TRUE)
    BY <1>1, <1>6 DEF W!GoesOn
  <2>4. \A k \in wThroughout : k < W!Max(V) => k \in wOut'
    <3> SUFFICES ASSUME NEW k \in wThroughout, k < W!Max(V), k >= wStart
                 PROVE  k \in V
      BY <1>1, <1>4
    <3>1. k \in T
      BY <1>4
    <3> QED BY <1>3, <2>2, <3>1
  <2>5. \A k \in wOut' : k \in Nat /\ k <= W!Max(V)
    <3>1. W!Max(V) \in T
      BY <1>3, <2>2
    <3>2. W!Max(V) >= wStart
      BY <3>1
    <3>3. ASSUME NEW k \in wOut
          PROVE  k \in Nat /\ k <= W!Max(V)
      <4>1. k \in Nat /\ k <= wStart /\ wStart \in Nat
        BY <1>4 DEF WalkInv, WalkTypes
      <4> QED BY <2>2, <3>2, <4>1
    <3>4. ASSUME NEW k \in V
          PROVE  k \in Nat /\ k <= W!Max(V)
      BY <1>3, <1>4, <2>2
    <3> QED BY <1>1, <3>3, <3>4
  <2>6. Covered'
    BY <1>1, <2>3, <2>4, <2>5 DEF Covered
  <2> QED BY <1>1, <2>2, <2>3, <2>6, WalkGoesOn
<1> QED BY <1>5, <1>6

LEMMA LesserOf ==
  ASSUME NEW x \in Int, NEW y \in Int
  PROVE  W!Min({x, y}) = IF x <= y THEN x ELSE y
<1>1. \E m \in {x, y} : \A z \in {x, y} : m =< z
  OBVIOUS
<1>2. W!Min({x, y}) \in {x, y} /\ \A z \in {x, y} : W!Min({x, y}) =< z
  BY <1>1 DEF W!Min
<1> DEFINE m == W!Min({x, y})
<1> HIDE DEF m
<1>3. (m = x \/ m = y) /\ m <= x /\ m <= y
  BY <1>2 DEF m
<1>4. m = IF x <= y THEN x ELSE y
  BY <1>3
<1> QED BY <1>4 DEF m

LEMMA ReadBatchStep ==
  ASSUME WalkInv, W!Page, W!ReadBatch
  PROVE  WalkInv'
<1>1. /\ wPhase = "walking" /\ wKind = "range"
      /\ wOut' = wOut \cup (wHeld \cap W!Batch(wStart))
      /\ wKind' = wKind /\ wFrom' = wFrom /\ wTo' = wTo /\ wHeld' = wHeld
      /\ wThroughout' = wThroughout
      /\ IF wStart + PageLimit > wTo THEN W!Ended
         ELSE wStart' = wStart + PageLimit /\ UNCHANGED <<wPhase, wTruncated>>
  BY DEF W!Page, W!ReadBatch
<1>2. /\ wTo \in Int /\ wStart \in Nat /\ wFrom \in Nat /\ PageLimit \in Nat
      /\ wStart + PageLimit - 1 \in Int /\ wStart + PageLimit \in Nat
  BY <1>1, ReadsAssumption DEF WalkInv, WalkTypes
<1>3. /\ \A k \in wThroughout : k \in wHeld /\ k \in Nat
      /\ \A k \in wThroughout : wFrom <= k /\ k < wStart => k \in wOut
  BY <1>1 DEF WalkInv, WalkTypes, Covered
<1>4. W!Batch(wStart) =
        wStart..(IF wStart + PageLimit - 1 <= wTo THEN wStart + PageLimit - 1 ELSE wTo)
  BY <1>2, LesserOf DEF W!Batch
<1>5. CASE wStart + PageLimit > wTo
  <2>1. \A k \in wThroughout : wStart <= k /\ k <= wTo => k \in W!Batch(wStart)
    BY <1>2, <1>3, <1>4, <1>5
  <2>2. \A k \in wThroughout : wFrom <= k /\ k <= wTo => k \in wOut'
    BY <1>1, <1>2, <1>3, <2>1
  <2>3. wThroughout \cap wFrom..wTo \subseteq wOut'
    BY <1>2, <2>2
  <2>4. wPhase' = "done" /\ wStart' = wStart
    BY <1>1, <1>5 DEF W!Ended
  <2> QED BY <1>1, <2>3, <2>4, EndOfWalk
<1>6. CASE ~(wStart + PageLimit > wTo)
  <2>1. \A k \in wThroughout : wStart <= k /\ k < wStart + PageLimit => k \in W!Batch(wStart)
    BY <1>2, <1>3, <1>4, <1>6
  <2>2. wStart' = wStart + PageLimit /\ wPhase' = wPhase
    BY <1>1, <1>6
  <2>3. \A k \in wThroughout : wFrom <= k /\ k < wStart + PageLimit => k \in wOut'
    BY <1>1, <1>2, <1>3, <2>1
  <2>4. Covered'
    BY <1>1, <2>2, <2>3 DEF Covered
  <2> QED BY <1>1, <1>2, <2>2, <2>4, WalkGoesOn
<1> QED BY <1>5, <1>6

LEMMA CancelWalkStep ==
  ASSUME WalkInv, W!Cancel
  PROVE  WalkInv'
BY DEF W!Cancel, WalkInv, WalkTypes, W!CompleteOrTruncated

LEMMA NextWalk ==
  ASSUME WalkInv, W!Next
  PROVE  WalkInv'
<1>1. ASSUME W!Page PROVE W!WalkBlocks \/ W!WalkVotes \/ W!ReadBatch
  BY <1>1 DEF W!Page
<1> QED BY <1>1, ChangeStep, WalkBlocksStep, WalkVotesStep, ReadBatchStep, CancelWalkStep
        DEF W!Next

LEMMA WalkStutters == WalkInv /\ UNCHANGED walksVars => WalkInv'
BY DEF walksVars, WalkInv, WalkTypes, Covered, W!CompleteOrTruncated

-----------------------------------------------------------------------------
(* CurrentEpoch.                                                           *)

EpochTypes ==
  /\ eBlocks \in SUBSET Nat /\ IsFiniteSet(eBlocks) /\ 0 \in eBlocks /\ ePrevious \in eBlocks
  /\ eIndex \in Nat /\ eAttempt \in Nat /\ eFirst \in Nat
  /\ ePhase \in {"genesis", "reading", "done", "failed"}

\* The epochs that have a block, from that of the genesis answer on; those reached.
EpochsOf(T, f) == {t \div Duration : t \in {u \in T : u \div Duration >= f}}
EpochsSince == EpochsOf(eBlocks, eFirst)
EpochsReached == {e \in EpochsSince : e <= eIndex}

\* Every attempt saw another epoch.
Attempts ==
  /\ ePhase = "genesis" => eAttempt = 0
  /\ ePhase = "reading" => /\ ePrevious \div Duration = eIndex /\ eFirst <= eIndex
                           /\ Cardinality(EpochsReached) >= eAttempt + 1
  /\ eError = "changed" => ePhase = "failed" /\ Cardinality(EpochsSince) > 3

EpochInv == EpochTypes /\ Attempts /\ E!PublishedIsOfLatestTime /\ E!NeverContradicted

LEMMA Division ==
  /\ \A t \in Nat : t \div Duration \in Nat
  /\ \A t, u \in Nat : t <= u => t \div Duration <= u \div Duration
<1>1. Duration \in Nat /\ Duration >= 1
  BY ReadsAssumption
<1>2. ASSUME NEW t \in Nat
      PROVE  t \div Duration \in Nat
  BY <1>1
<1>3. ASSUME NEW t \in Nat, NEW u \in Nat, t <= u
      PROVE  t \div Duration <= u \div Duration
  BY <1>1, <1>3
<1> QED BY <1>2, <1>3

LEMMA EpochsFinite ==
  ASSUME NEW T, T \in SUBSET Nat, IsFiniteSet(T)
  PROVE  IsFiniteSet({t \div Duration : t \in T})
<1> DEFINE Q == {t \div Duration : t \in T}
           f == [t \in T |-> t \div Duration]
<1>1. f \in [T -> Q] /\ \A y \in Q : \E x \in T : f[x] = y
  OBVIOUS
<1>2. f \in Surjection(T, Q)
  BY <1>1 DEF Surjection
<1> QED BY <1>2, FS_Surjection

LEMMA EpochSets ==
  ASSUME NEW T, T \in SUBSET Nat, IsFiniteSet(T), NEW f, NEW i
  PROVE  LET Q == EpochsOf(T, f)
             G0 == {e \in Q : e <= i}
         IN  /\ Q \in SUBSET Nat /\ IsFiniteSet(Q) /\ Cardinality(Q) \in Nat
             /\ IsFiniteSet(G0) /\ Cardinality(G0) \in Nat
<1> DEFINE U == {u \in T : u \div Duration >= f}
           Q == EpochsOf(T, f)
           G0 == {e \in Q : e <= i}
<1>1. U \in SUBSET Nat /\ IsFiniteSet(U)
  BY FS_Subset
<1>2. IsFiniteSet(Q)
  BY <1>1, EpochsFinite DEF EpochsOf
<1>3. Q \in SUBSET Nat
  BY <1>1, Division DEF EpochsOf
<1>4. G0 \subseteq Q
  OBVIOUS
<1> QED BY <1>2, <1>3, <1>4, FS_Subset, FS_CardinalityType

\* The same of the epochs now, and after a step.
LEMMA EpochsNow ==
  ASSUME EpochTypes
  PROVE  /\ EpochsSince \in SUBSET Nat /\ IsFiniteSet(EpochsSince)
         /\ EpochsReached \subseteq EpochsSince /\ IsFiniteSet(EpochsReached)
         /\ Cardinality(EpochsSince) \in Nat /\ Cardinality(EpochsReached) \in Nat
BY EpochSets DEF EpochTypes, EpochsSince, EpochsReached

LEMMA EpochsThen ==
  ASSUME EpochTypes'
  PROVE  /\ IsFiniteSet(EpochsSince') /\ IsFiniteSet(EpochsReached')
         /\ Cardinality(EpochsSince') \in Nat /\ Cardinality(EpochsReached') \in Nat
BY EpochSets DEF EpochTypes, EpochsSince, EpochsReached

LEMMA InitEpoch == E!Init => EpochInv
<1> SUFFICES ASSUME E!Init PROVE EpochInv
  OBVIOUS
<1>1. EpochTypes
  <2>1. IsFiniteSet({0}) /\ {0} \in SUBSET Nat
    BY FS_Singleton
  <2> QED BY <2>1 DEF E!Init, EpochTypes
<1>2. Attempts
  BY DEF E!Init, Attempts
<1> QED BY <1>1, <1>2
        DEF E!Init, EpochInv, E!PublishedIsOfLatestTime, E!NeverContradicted

\* Blocks only add epochs.
LEMMA BlockStep ==
  ASSUME EpochInv, E!Block
  PROVE  EpochInv'
<1>1. PICK t \in 1..MaxTime : eBlocks' = eBlocks \cup {t}
  BY DEF E!Block
<1>2. /\ ePhase' = ePhase /\ eIndex' = eIndex /\ ePrevious' = ePrevious
      /\ eAttempt' = eAttempt /\ eFirst' = eFirst /\ eEpoch' = eEpoch /\ eError' = eError
  BY DEF E!Block
<1>3. EpochTypes'
  <2>1. IsFiniteSet(eBlocks') /\ eBlocks' \in SUBSET Nat
    BY <1>1, FS_AddElement DEF EpochInv, EpochTypes
  <2> QED BY <1>1, <1>2, <2>1 DEF EpochInv, EpochTypes
<1>4. EpochsSince \subseteq EpochsSince' /\ EpochsReached \subseteq EpochsReached'
  BY <1>1, <1>2 DEF EpochsSince, EpochsOf, EpochsReached
<1>5. /\ IsFiniteSet(EpochsSince') /\ IsFiniteSet(EpochsReached')
      /\ Cardinality(EpochsSince') \in Nat /\ Cardinality(EpochsReached') \in Nat
      /\ Cardinality(EpochsSince) \in Nat /\ Cardinality(EpochsReached) \in Nat
  BY <1>3, EpochsNow, EpochsThen DEF EpochInv
<1>6. /\ Cardinality(EpochsSince) <= Cardinality(EpochsSince')
      /\ Cardinality(EpochsReached) <= Cardinality(EpochsReached')
  BY <1>4, <1>5, FS_Subset
<1>7. Attempts'
  <2> DEFINE m == Cardinality(EpochsReached)
             n0 == Cardinality(EpochsSince)
             m1 == Cardinality(EpochsReached')
             n1 == Cardinality(EpochsSince')
  <2>1. m \in Nat /\ n0 \in Nat /\ m1 \in Nat /\ n1 \in Nat /\ n0 <= n1 /\ m <= m1
        /\ eAttempt \in Nat
    BY <1>5, <1>6 DEF EpochInv, EpochTypes
  <2>2. /\ ePhase = "genesis" => eAttempt = 0
        /\ ePhase = "reading" => /\ ePrevious \div Duration = eIndex /\ eFirst <= eIndex
                                 /\ m >= eAttempt + 1
        /\ eError = "changed" => ePhase = "failed" /\ n0 > 3
    BY DEF EpochInv, Attempts
  <2> HIDE DEF m, n0, m1, n1
  <2>3. /\ ePhase = "reading" => m1 >= eAttempt + 1
        /\ eError = "changed" => n1 > 3
    BY <2>1, <2>2
  <2> QED BY <1>2, <2>2, <2>3 DEF Attempts, m1, n1
<1>8. (E!PublishedIsOfLatestTime /\ E!NeverContradicted)'
  BY <1>2 DEF EpochInv, E!PublishedIsOfLatestTime, E!NeverContradicted
<1> QED BY <1>3, <1>7, <1>8 DEF EpochInv

LEMMA ReadGenesisStep ==
  ASSUME EpochInv, E!ReadGenesis
  PROVE  EpochInv'
<1>1. PICK t \in eBlocks : /\ eIndex' = t \div Duration /\ eFirst' = t \div Duration
                           /\ ePrevious' = t
  BY DEF E!ReadGenesis, E!IndexAt
<1>2. /\ ePhase = "genesis" /\ ePhase' = "reading" /\ eBlocks' = eBlocks
      /\ eAttempt' = eAttempt /\ eError' = eError
  BY DEF E!ReadGenesis
<1>3. t \in Nat /\ t \div Duration \in Nat
  BY Division DEF EpochInv, EpochTypes
<1>4. EpochTypes'
  BY <1>1, <1>2, <1>3 DEF EpochInv, EpochTypes
<1>5. t \div Duration \in EpochsReached'
  BY <1>1, <1>2, <1>3 DEF EpochsReached, EpochsSince, EpochsOf
<1>6. Cardinality(EpochsReached') >= 1
  <2>1. IsFiniteSet(EpochsReached') /\ Cardinality(EpochsReached') \in Nat
    BY <1>4, EpochsThen
  <2>2. Cardinality(EpochsReached') # 0
    BY <1>5, <2>1, FS_EmptySet
  <2> QED BY <2>1, <2>2
<1>7. eAttempt = 0 /\ eError # "changed"
  BY <1>2 DEF EpochInv, Attempts
<1>8. Attempts'
  <2>1. eFirst' <= eIndex'
    BY <1>1, <1>3
  <2>2. Cardinality(EpochsReached') >= eAttempt' + 1
    BY <1>2, <1>6, <1>7
  <2> QED BY <1>1, <1>2, <1>7, <2>1, <2>2 DEF Attempts
<1>9. (E!PublishedIsOfLatestTime /\ E!NeverContradicted)'
  BY <1>2 DEF EpochInv, E!PublishedIsOfLatestTime, E!NeverContradicted
<1> QED BY <1>4, <1>8, <1>9 DEF EpochInv

\* An epoch beyond those reached is one more.
LEMMA OneMoreEpoch ==
  ASSUME EpochInv, ePhase = "reading", NEW t \in eBlocks, t >= ePrevious,
         t \div Duration # eIndex
  PROVE  /\ t \div Duration \in Nat /\ t \div Duration > eIndex
         /\ t \div Duration \in EpochsSince
         /\ IsFiniteSet(EpochsReached \cup {t \div Duration})
         /\ Cardinality(EpochsReached \cup {t \div Duration}) >= eAttempt + 2
<1> DEFINE e == t \div Duration
<1>1. /\ t \in Nat /\ ePrevious \in Nat /\ eIndex \in Nat /\ eFirst \in Nat /\ eAttempt \in Nat
      /\ ePrevious \div Duration = eIndex /\ eFirst <= eIndex
      /\ Cardinality(EpochsReached) >= eAttempt + 1
  BY DEF EpochInv, EpochTypes, Attempts
<1>2. e \in Nat /\ ePrevious \div Duration <= e
  BY <1>1, Division
<1>3. e \in Nat /\ e > eIndex /\ e >= eFirst
  <2> HIDE DEF e
  <2>1. e # eIndex
    BY DEF e
  <2> QED BY <1>1, <1>2, <2>1
<1>4. e \in EpochsSince
  BY <1>3 DEF EpochsSince, EpochsOf
<1>5. e \notin EpochsReached
  <2> HIDE DEF e
  <2> QED BY <1>1, <1>3 DEF EpochsReached
<1>6. IsFiniteSet(EpochsReached) /\ Cardinality(EpochsReached) \in Nat
  BY EpochsNow DEF EpochInv
<1>7. /\ IsFiniteSet(EpochsReached \cup {e})
      /\ Cardinality(EpochsReached \cup {e}) = Cardinality(EpochsReached) + 1
  BY <1>5, <1>6, FS_AddElement
<1> HIDE DEF e
<1>8. Cardinality(EpochsReached \cup {e}) >= eAttempt + 2
  BY <1>1, <1>6, <1>7
<1> QED BY <1>3, <1>4, <1>7, <1>8 DEF e

\* The record of the epoch of a block is there in any answer of that block's node.
LEMMA RecordIsThere ==
  ASSUME EpochTypes, NEW t \in eBlocks, t \div Duration = eIndex
  PROVE  eIndex \in E!Recorded(t) /\ ~(E!FirstBlock(eIndex) > t)
<1>1. t \in Nat /\ eBlocks \in SUBSET Nat
  BY DEF EpochTypes
<1>2. eIndex \in E!Recorded(t)
  BY <1>1 DEF E!Recorded
<1> DEFINE T == {u \in eBlocks : u \div Duration = eIndex}
<1>3. T \in SUBSET Nat /\ t \in T
  BY <1>1
<1>4. E!FirstBlock(eIndex) = E!Min(T)
  BY DEF E!FirstBlock
<1> HIDE DEF T
<1>5. PICK m \in T : \A x \in T : m <= x
  BY <1>3, Least
<1>6. E!Min(T) \in T /\ \A x \in T : E!Min(T) =< x
  BY <1>5 DEF E!Min
<1>7. E!Min(T) \in Nat /\ E!Min(T) =< t
  BY <1>3, <1>6
<1> QED BY <1>1, <1>2, <1>4, <1>7

LEMMA ReadStep ==
  ASSUME EpochInv, E!Read
  PROVE  EpochInv'
<1>1. PICK t \in eBlocks :
          IF t < ePrevious THEN E!Fails("backwards")
          ELSE IF E!RolledOver(t)
          THEN IF E!LastAttempt THEN E!Fails("changed")
               ELSE /\ eIndex' = E!IndexAt(t) /\ ePrevious' = t /\ eAttempt' = eAttempt + 1
                    /\ UNCHANGED <<ePhase, eEpoch, eError>>
          ELSE IF eIndex \notin E!Recorded(t) \/ E!FirstBlock(eIndex) > t
          THEN E!Fails("mismatch")
          ELSE /\ ePhase' = "done" /\ eEpoch' = eIndex /\ ePrevious' = t
               /\ UNCHANGED <<eIndex, eAttempt, eError>>
  BY DEF E!Read
<1>2. ePhase = "reading" /\ eBlocks' = eBlocks /\ eFirst' = eFirst
  BY DEF E!Read
<1>3. /\ t \in Nat /\ ePrevious \in Nat /\ eIndex \in Nat /\ eAttempt \in Nat
      /\ eFirst \in Nat /\ t \div Duration \in Nat
  BY Division DEF EpochInv, EpochTypes
<1>4. eError # "changed" /\ eError # "mismatch"
  BY <1>2 DEF EpochInv, Attempts, E!NeverContradicted
<1>5. EpochsSince' = EpochsSince
  BY <1>2 DEF EpochsSince, EpochsOf
<1>6. ASSUME NEW why \in {"backwards", "changed"}, E!Fails(why),
             why = "changed" => Cardinality(EpochsSince) > 3
      PROVE  EpochInv'
  <2>1. /\ ePhase' = "failed" /\ eError' = why /\ eIndex' = eIndex
        /\ ePrevious' = ePrevious /\ eAttempt' = eAttempt
    BY <1>6 DEF E!Fails
  <2>2. EpochTypes'
    BY <1>2, <2>1 DEF EpochInv, EpochTypes
  <2>3. Attempts'
    BY <1>5, <1>6, <2>1 DEF Attempts
  <2> QED BY <1>6, <2>1, <2>2, <2>3
          DEF EpochInv, E!PublishedIsOfLatestTime, E!NeverContradicted
<1>7. CASE t < ePrevious
  BY <1>1, <1>6, <1>7
<1>8. CASE t >= ePrevious /\ t \div Duration # eIndex
  <2> DEFINE e == t \div Duration
             G0 == EpochsReached \cup {e}
  <2>1. /\ e \in Nat /\ e > eIndex /\ e \in EpochsSince
        /\ IsFiniteSet(G0) /\ Cardinality(G0) >= eAttempt + 2
    BY <1>2, <1>8, OneMoreEpoch
  <2>2. Cardinality(G0) \in Nat
    BY <2>1, FS_CardinalityType
  <2>3. ~(t < ePrevious) /\ E!RolledOver(t) /\ E!IndexAt(t) = e
    BY <1>3, <1>8 DEF E!RolledOver, E!IndexAt
  <2>4. EpochsReached \subseteq EpochsSince /\ IsFiniteSet(EpochsSince)
        /\ EpochsSince \in SUBSET Nat
    BY EpochsNow DEF EpochInv
  <2> HIDE DEF e
  <2>5. CASE E!LastAttempt
    <3>1. G0 \subseteq EpochsSince
      BY <2>1, <2>4
    <3>2. Cardinality(G0) <= Cardinality(EpochsSince) /\ Cardinality(EpochsSince) \in Nat
      BY <2>4, <3>1, FS_Subset, FS_CardinalityType
    <3>3. eAttempt + 1 >= 3
      BY <2>5 DEF E!LastAttempt
    <3> HIDE DEF G0
    <3>4. Cardinality(EpochsSince) > 3
      BY <1>3, <2>1, <2>2, <3>2, <3>3
    <3> QED BY <1>1, <1>6, <2>3, <2>5, <3>4
  <2>6. CASE ~E!LastAttempt
    <3>1. /\ eIndex' = e /\ ePrevious' = t /\ eAttempt' = eAttempt + 1
          /\ ePhase' = ePhase /\ eError' = eError
      BY <1>1, <2>3, <2>6
    <3>2. EpochTypes'
      BY <1>2, <1>3, <2>1, <3>1 DEF EpochInv, EpochTypes
    <3>3. G0 \subseteq EpochsReached'
      <4>1. \A x \in EpochsReached : x \in Nat /\ x <= eIndex /\ x \in EpochsSince
        BY <2>4 DEF EpochsReached
      <4>2. \A x \in EpochsReached : x <= e
        BY <1>3, <2>1, <4>1
      <4>3. \A x \in G0 : x \in EpochsSince /\ x <= e
        BY <2>1, <4>1, <4>2
      <4>4. EpochsReached' = {x \in EpochsSince : x <= e}
        BY <1>5, <3>1 DEF EpochsReached
      <4> HIDE DEF G0
      <4> QED BY <4>3, <4>4
    <3>4. IsFiniteSet(EpochsReached') /\ Cardinality(EpochsReached') \in Nat
      BY <3>2, EpochsThen
    <3>5. Cardinality(G0) <= Cardinality(EpochsReached')
      BY <3>3, <3>4, FS_Subset
    <3> HIDE DEF G0
    <3>6. Cardinality(EpochsReached') >= eAttempt' + 1
      <4> DEFINE m1 == Cardinality(EpochsReached')
      <4>1. m1 \in Nat /\ Cardinality(G0) <= m1
        BY <3>4, <3>5
      <4> HIDE DEF m1
      <4>2. m1 >= (eAttempt + 1) + 1
        BY <1>3, <2>1, <2>2, <4>1
      <4> QED BY <3>1, <4>2 DEF m1
    <3>7. eFirst <= eIndex
      BY <1>2 DEF EpochInv, Attempts
    <3>8. eFirst' <= eIndex'
      BY <1>2, <1>3, <2>1, <3>1, <3>7
    <3>9. Attempts'
      BY <1>2, <1>4, <3>1, <3>6, <3>8 DEF Attempts, e
    <3> QED BY <1>2, <1>4, <3>1, <3>2, <3>9
            DEF EpochInv, E!PublishedIsOfLatestTime, E!NeverContradicted
  <2> QED BY <2>5, <2>6
<1>9. CASE t >= ePrevious /\ t \div Duration = eIndex
  <2>1. ~(t < ePrevious) /\ ~E!RolledOver(t)
    BY <1>3, <1>9 DEF E!RolledOver, E!IndexAt
  <2>2. eIndex \in E!Recorded(t) /\ ~(E!FirstBlock(eIndex) > t)
    BY <1>9, RecordIsThere DEF EpochInv
  <2>3. /\ ePhase' = "done" /\ eEpoch' = eIndex /\ ePrevious' = t
        /\ eIndex' = eIndex /\ eAttempt' = eAttempt /\ eError' = eError
    BY <1>1, <2>1, <2>2
  <2>4. EpochTypes'
    BY <1>2, <2>3 DEF EpochInv, EpochTypes
  <2> QED BY <1>4, <1>9, <2>3, <2>4
          DEF EpochInv, Attempts, E!PublishedIsOfLatestTime, E!NeverContradicted
<1> QED BY <1>3, <1>7, <1>8, <1>9

LEMMA NextEpoch ==
  ASSUME EpochInv, E!Next
  PROVE  EpochInv'
BY BlockStep, ReadGenesisStep, ReadStep DEF E!Next

LEMMA EpochHolds ==
  EpochInv => E!PublishedIsOfLatestTime /\ E!NeverContradicted /\ E!GivesUpAfterRollovers
BY SameCardinality DEF EpochInv, Attempts, EpochsSince, EpochsOf, E!GivesUpAfterRollovers

LEMMA EpochStutters == EpochInv /\ UNCHANGED epochVars => EpochInv'
<1> SUFFICES ASSUME EpochInv, UNCHANGED epochVars PROVE EpochInv'
  OBVIOUS
<1>1. /\ eBlocks' = eBlocks /\ ePhase' = ePhase /\ eIndex' = eIndex
      /\ ePrevious' = ePrevious /\ eAttempt' = eAttempt /\ eFirst' = eFirst
      /\ eEpoch' = eEpoch /\ eError' = eError
  BY DEF epochVars
<1>2. EpochsSince' = EpochsSince
  BY <1>1 DEF EpochsSince, EpochsOf
<1>3. EpochsReached' = EpochsReached
  BY <1>1, <1>2 DEF EpochsReached
<1>4. Attempts'
  BY <1>1, <1>2, <1>3 DEF EpochInv, Attempts
<1>5. EpochTypes'
  BY <1>1 DEF EpochInv, EpochTypes
<1> QED BY <1>1, <1>4, <1>5
        DEF EpochInv, E!PublishedIsOfLatestTime, E!NeverContradicted

-----------------------------------------------------------------------------
(* LocalLists.                                                             *)

ListItems == Scopes \X Saved
ListNames == {"entities", "queries", "registry"}

ListChanges ==
  [pending : BOOLEAN, items : SUBSET ListItems, before : SUBSET ListItems,
   saved : SUBSET ListItems, gone : SUBSET ListItems]

ListTypes ==
  /\ lList \in ListNames
  /\ lStored \in SUBSET ListItems /\ IsFiniteSet(lStored)
  /\ lKept \ lLost \subseteq lStored
  /\ lShown \in [Tabs -> SUBSET ListItems]
  /\ lScope = [t \in Tabs |-> lScope[t]] /\ lLoaded = [t \in Tabs |-> lLoaded[t]]
  /\ lChange \in [Tabs -> ListChanges] /\ lBlind \in [Tabs -> BOOLEAN]

Sizes == \A s : Cardinality(L!Of(s, lStored)) <= MaxItems[lList]

\* What a tab's saved queries show is of the scope they are loaded for.
ShownOfScope ==
  lList = "queries" =>
    \A t \in Tabs : lLoaded[t] = lScope[t] => \A x \in lShown[t] : x[1] = lScope[t]

\* No entry of the registry hides another, in storage or in a tab's snapshot of it.
Distinct(items) == \A x, y \in items : x # y /\ x[2] = y[2] => ~L!OneNetwork(x, y)
Snapshot(items) == IsFiniteSet(items) /\ Cardinality(items) <= MaxItems[lList] /\ Distinct(items)
RegistryDistinct ==
  lList = "registry" => Distinct(lStored) /\ \A t \in Tabs : Snapshot(lShown[t])

\* A tab of which no storage event is on its way knows the registry.
RegistryKnown ==
  lList = "registry" =>
    \A t \in Tabs : lShown[t] = lStored \/ lBlind[t] \/ <<t, None>> \in lEvents

\* What a tab is about to write holds what it has read, but for what a user removes.
Keeps(c, s) ==
  c.pending =>
    /\ lList # "registry" /\ IsFiniteSet(c.items) /\ Cardinality(c.items) <= MaxItems[lList]
    /\ lList = "queries" => \A x \in c.items : x[1] = s
    /\ c.saved \subseteq c.items /\ L!Of(s, c.before) \ c.gone \subseteq c.items

ChangesKeep == \A t \in Tabs : Keeps(lChange[t], lScope[t])

ListInv == ListTypes /\ Sizes /\ ShownOfScope /\ RegistryDistinct /\ RegistryKnown /\ ChangesKeep

LEMMA NoItems ==
  ASSUME lList \in ListNames
  PROVE  /\ IsFiniteSet({}) /\ Cardinality({}) = 0 /\ Cardinality({}) <= MaxItems[lList]
         /\ MaxItems[lList] \in Nat
         /\ \A s : L!Of(s, {}) = {}
         /\ Snapshot({})
<1>1. IsFiniteSet({}) /\ Cardinality({}) = 0
  BY FS_EmptySet
<1>2. MaxItems[lList] \in Nat /\ Cardinality({}) <= MaxItems[lList]
  BY <1>1, ReadsAssumption DEF ListNames
<1>3. \A s : L!Of(s, {}) = {}
  BY DEF L!Of
<1> QED BY <1>1, <1>2, <1>3 DEF Snapshot, Distinct

LEMMA InitList == L!Init => ListInv
<1> SUFFICES ASSUME L!Init PROVE ListInv
  OBVIOUS
<1>1. /\ lStored = {} /\ lKept = {} /\ lList \in ListNames
      /\ lShown = [t \in Tabs |-> {}] /\ \A t \in Tabs : lShown[t] = {}
      /\ lLoaded = [t \in Tabs |-> lLoaded[t]] /\ lScope = [t \in Tabs |-> lScope[t]]
      /\ lChange = [t \in Tabs |-> L!NoChange] /\ lBlind = [t \in Tabs |-> FALSE]
  BY DEF L!Init, ListNames
<1>2. L!NoChange \in ListChanges /\ ~L!NoChange.pending
  BY DEF L!NoChange, ListChanges
<1>3. ListTypes
  BY <1>1, <1>2, NoItems DEF ListTypes
<1>4. Sizes
  BY <1>1, NoItems DEF Sizes
<1>5. ShownOfScope /\ RegistryKnown
  BY <1>1 DEF ShownOfScope, RegistryKnown
<1>6. RegistryDistinct
  BY <1>1, NoItems DEF RegistryDistinct, Snapshot
<1>7. ChangesKeep
  BY <1>1, <1>2 DEF ChangesKeep, Keeps
<1> QED BY <1>3, <1>4, <1>5, <1>6, <1>7 DEF ListInv

\* A list with at most one item more than one that is not full.
LEMMA OneMoreItem ==
  ASSUME NEW m \in Nat, NEW T, IsFiniteSet(T), NEW x, Cardinality(T \ {x}) < m
  PROVE  IsFiniteSet(T \cup {x}) /\ Cardinality(T \cup {x}) <= m
<1>1. IsFiniteSet(T \ {x}) /\ Cardinality(T \ {x}) \in Nat
  BY FS_RemoveElement, FS_CardinalityType
<1>2. /\ IsFiniteSet((T \ {x}) \cup {x})
      /\ Cardinality((T \ {x}) \cup {x}) = Cardinality(T \ {x}) + 1
  BY <1>1, FS_AddElement
<1>3. (T \ {x}) \cup {x} = T \cup {x}
  OBVIOUS
<1> DEFINE c == Cardinality(T \ {x})
<1>4. c \in Nat /\ c < m /\ Cardinality(T \cup {x}) = c + 1 /\ IsFiniteSet(T \cup {x})
  BY <1>1, <1>2, <1>3
<1> HIDE DEF c
<1> QED BY <1>4

\* One with fewer.
LEMMA FewerItems ==
  ASSUME NEW m \in Nat, NEW T, IsFiniteSet(T), Cardinality(T) <= m, NEW U, U \subseteq T
  PROVE  IsFiniteSet(U) /\ Cardinality(U) <= m
<1>1. IsFiniteSet(U) /\ Cardinality(U) <= Cardinality(T)
  BY FS_Subset
<1>2. Cardinality(U) \in Nat /\ Cardinality(T) \in Nat
  BY <1>1, FS_CardinalityType
<1> QED BY <1>1, <1>2

\* The list of a scope is part of what is stored, and keeps to its limit.
LEMMA ListOf ==
  ASSUME ListInv, NEW s
  PROVE  /\ L!Of(s, lStored) \subseteq lStored /\ L!Of(s, lStored) \in SUBSET ListItems
         /\ IsFiniteSet(L!Of(s, lStored)) /\ Cardinality(L!Of(s, lStored)) <= MaxItems[lList]
         /\ lList = "queries" => \A x \in L!Of(s, lStored) : x[1] = s
         /\ lList # "queries" => L!Of(s, lStored) = lStored
         /\ MaxItems[lList] \in Nat
<1>1. L!Of(s, lStored) \subseteq lStored
  BY DEF L!Of
<1>2. IsFiniteSet(L!Of(s, lStored))
  BY <1>1, FS_Subset DEF ListInv, ListTypes
<1>3. MaxItems[lList] \in Nat
  BY NoItems DEF ListInv, ListTypes
<1> QED BY <1>1, <1>2, <1>3 DEF ListInv, ListTypes, Sizes, L!Of

\* Writing the list of one scope leaves the others as they are.
LEMMA WriteList ==
  ASSUME ListInv, NEW s, NEW items, items \in SUBSET ListItems, IsFiniteSet(items),
         Cardinality(items) <= MaxItems[lList], lList = "queries" => \A x \in items : x[1] = s,
         lStored' = (lStored \ L!Of(s, lStored)) \cup items, lList' = lList
  PROVE  /\ lStored' \in SUBSET ListItems /\ IsFiniteSet(lStored') /\ Sizes'
         /\ L!Of(s, lStored') = items
<1>1. lStored' \in SUBSET ListItems /\ IsFiniteSet(lStored')
  <2>1. IsFiniteSet(lStored \ L!Of(s, lStored))
    BY FS_Difference DEF ListInv, ListTypes
  <2>2. IsFiniteSet(lStored')
    BY <2>1, FS_Union
  <2> QED BY <2>2 DEF ListInv, ListTypes
<1>2. L!Of(s, lStored') = items
  BY DEF L!Of
<1>3. ASSUME NEW r
      PROVE  Cardinality(L!Of(r, lStored)') <= MaxItems[lList]
  <2>1. CASE lList # "queries" \/ r = s
    <3>1. L!Of(r, lStored)' = items
      BY <2>1 DEF L!Of
    <3> QED BY <3>1
  <2>2. CASE lList = "queries" /\ r # s
    <3>1. L!Of(r, lStored)' = L!Of(r, lStored)
      BY <2>2 DEF L!Of
    <3> QED BY <3>1, ListOf
  <2> QED BY <2>1, <2>2
<1>4. Sizes'
  BY <1>3 DEF Sizes
<1> QED BY <1>1, <1>2, <1>4

\* What a tab shows after it has read the list of the scope its page is for.
LEMMA ShowList ==
  ASSUME ListInv, lList' = lList, lScope' = lScope, lLoaded' = lLoaded, lList # "registry",
         NEW t \in Tabs, NEW items \in SUBSET ListItems,
         lList = "queries" => \A x \in items : lLoaded[t] = lScope[t] => x[1] = lScope[t],
         lShown' = lShown \/ lShown' = [lShown EXCEPT ![t] = items]
  PROVE  lShown' \in [Tabs -> SUBSET ListItems] /\ ShownOfScope' /\ RegistryDistinct'
<1>1. CASE lShown' = lShown
  BY <1>1 DEF ListInv, ListTypes, ShownOfScope, RegistryDistinct
<1>2. CASE lShown' = [lShown EXCEPT ![t] = items]
  <2>1. /\ lShown' \in [Tabs -> SUBSET ListItems]
        /\ \A u \in Tabs : lShown'[u] = IF u = t THEN items ELSE lShown[u]
    BY <1>2 DEF ListInv, ListTypes
  <2>2. ShownOfScope'
    BY <2>1 DEF ListInv, ShownOfScope
  <2> QED BY <2>1, <2>2 DEF RegistryDistinct
<1> QED BY <1>1, <1>2

\* A tab that has read its list holds a change of it until it is written.
LEMMA BeginsStep ==
  ASSUME ListInv, NEW t \in Tabs, NEW readable \in BOOLEAN, NEW items, NEW saved, NEW gone,
         L!Begins(t, readable, items, saved, gone), lShown' = lShown, lList # "registry",
         saved \in SUBSET ListItems, gone \in SUBSET ListItems,
         readable =>
           /\ items \in SUBSET ListItems /\ IsFiniteSet(items)
           /\ Cardinality(items) <= MaxItems[lList]
           /\ lList = "queries" => \A x \in items : x[1] = lScope[t]
           /\ saved \subseteq items /\ L!Of(lScope[t], lStored) \ gone \subseteq items
  PROVE  ListInv'
<1> DEFINE c == [pending |-> TRUE, items |-> items, before |-> lStored,
                 saved |-> saved, gone |-> gone]
<1>1. /\ lList' = lList /\ lScope' = lScope /\ lLoaded' = lLoaded /\ lStored' = lStored
      /\ lEvents' = lEvents /\ lBlind' = lBlind /\ lKept' = lKept /\ lLost' = lLost
      /\ lChange' = IF readable THEN [lChange EXCEPT ![t] = c] ELSE lChange
  BY DEF L!Begins, L!MayWrite, L!listState
<1>2. readable => c \in ListChanges
  BY DEF ListInv, ListTypes, ListChanges
<1>3. readable => Keeps(c, lScope[t])
  BY DEF Keeps
<1> HIDE DEF c
<1>4. /\ lChange' \in [Tabs -> ListChanges]
      /\ \A u \in Tabs : lChange'[u] = lChange[u] \/ (u = t /\ readable /\ lChange'[u] = c)
  BY <1>1, <1>2 DEF ListInv, ListTypes
<1>5. \A u \in Tabs : Keeps(lChange'[u], lScope[u])
  BY <1>3, <1>4 DEF ListInv, ChangesKeep
<1>6. ChangesKeep'
  BY <1>1, <1>5 DEF ChangesKeep, Keeps, L!Of
<1>7. ListTypes' /\ Sizes'
  BY <1>1, <1>4 DEF ListInv, ListTypes, Sizes, L!Of
<1>8. ShownOfScope' /\ RegistryDistinct' /\ RegistryKnown'
  BY <1>1 DEF ListInv, ShownOfScope, RegistryDistinct, RegistryKnown
<1> QED BY <1>6, <1>7, <1>8 DEF ListInv

LEMMA SaveStep ==
  ASSUME ListInv, L!Save
  PROVE  ListInv'
<1>1. PICK t \in Tabs, x \in L!Items, readable \in BOOLEAN :
        LET read == L!Getter(lScope[t], readable) IN
        /\ L!MaySave(t, x) /\ ~L!Full(read, x)
        /\ L!Begins(t, readable, read \cup {x}, {x}, {})
        /\ lShown' = lShown
  BY Zenon DEF L!Save
<1> DEFINE read == L!Getter(lScope[t], readable)
           items == read \cup {x}
<1>2. /\ x \in ListItems /\ lList # "registry" /\ (lList = "queries" => x[1] = lScope[t])
      /\ ~L!Full(read, x) /\ L!Begins(t, readable, items, {x}, {}) /\ lShown' = lShown
  BY <1>1, ReadsAssumption DEF L!MaySave, L!Items, ListItems, ListNames, ListInv, ListTypes
<1>3. ASSUME readable
      PROVE  /\ items \in SUBSET ListItems /\ IsFiniteSet(items)
             /\ Cardinality(items) <= MaxItems[lList]
             /\ lList = "queries" => \A y \in items : y[1] = lScope[t]
             /\ {x} \subseteq items /\ L!Of(lScope[t], lStored) \ {} \subseteq items
  <2>1. read = L!Of(lScope[t], lStored)
    BY <1>3 DEF L!Getter
  <2>2. /\ read \in SUBSET ListItems /\ IsFiniteSet(read)
        /\ lList = "queries" => \A y \in read : y[1] = lScope[t]
    BY <2>1, ListOf
  <2> HIDE DEF read
  <2>3. Cardinality(read \ {x}) < MaxItems[lList]
    <3>1. Cardinality(read \ {x}) \in Nat
      BY <2>2, FS_RemoveElement, FS_CardinalityType
    <3>2. ~(Cardinality(read \ {x}) >= MaxItems[lList])
      BY <1>2, SameCardinality DEF L!Full
    <3> QED BY <3>1, <3>2, ListOf
  <2>4. IsFiniteSet(items) /\ Cardinality(items) <= MaxItems[lList]
    BY <2>2, <2>3, OneMoreItem, ListOf
  <2> QED BY <1>2, <2>1, <2>2, <2>4
<1>4. {x} \in SUBSET ListItems /\ {} \in SUBSET ListItems
  BY <1>2
<1> HIDE DEF items
<1> QED BY <1>2, <1>3, <1>4, BeginsStep

\* A save that finds the list full, or the entity saved, writes nothing.
LEMMA SaveEndsEarlyStep ==
  ASSUME ListInv, L!SaveEndsEarly
  PROVE  ListInv'
<1>1. PICK t \in Tabs, x \in L!Items :
        LET read == L!Of(lScope[t], lStored) IN
        /\ L!MaySave(t, x)
        /\ lShown' = IF lList = "queries" THEN [lShown EXCEPT ![t] = read] ELSE lShown
        /\ lKept' = IF x \in read THEN lKept \cup {x} ELSE lKept
        /\ UNCHANGED <<L!listState, lStored, lEvents, lChange, lBlind, lLost, lRefusals>>
  BY Zenon DEF L!SaveEndsEarly
<1> DEFINE read == L!Of(lScope[t], lStored)
<1>2. /\ lList' = lList /\ lScope' = lScope /\ lLoaded' = lLoaded /\ lStored' = lStored
      /\ lChange' = lChange /\ lBlind' = lBlind /\ lLost' = lLost /\ lList # "registry"
      /\ lShown' = lShown \/ lShown' = [lShown EXCEPT ![t] = read]
      /\ lKept' = IF x \in read THEN lKept \cup {x} ELSE lKept
  BY <1>1 DEF L!listState, L!MaySave
<1>3. /\ read \in SUBSET ListItems /\ read \subseteq lStored
      /\ lList = "queries" => \A y \in read : lLoaded[t] = lScope[t] => y[1] = lScope[t]
  BY ListOf
<1> HIDE DEF read
<1>4. lShown' \in [Tabs -> SUBSET ListItems] /\ ShownOfScope' /\ RegistryDistinct'
  BY <1>2, <1>3, ShowList
<1>5. ListTypes'
  BY <1>2, <1>3, <1>4 DEF ListInv, ListTypes
<1>6. Sizes' /\ RegistryKnown' /\ ChangesKeep'
  BY <1>2 DEF ListInv, Sizes, RegistryKnown, ChangesKeep, Keeps, L!Of
<1> QED BY <1>4, <1>5, <1>6 DEF ListInv

LEMMA RemoveStep ==
  ASSUME ListInv, L!Remove
  PROVE  ListInv'
<1>1. PICK t \in Tabs, readable \in BOOLEAN : \E x \in L!Current(t) :
        /\ lList # "registry"
        /\ L!Begins(t, readable, L!Getter(lScope[t], readable) \ {x}, {}, {x})
        /\ lShown' = lShown
  BY DEF L!Remove
<1>2. PICK x \in L!Current(t) :
        /\ lList # "registry"
        /\ L!Begins(t, readable, L!Getter(lScope[t], readable) \ {x}, {}, {x})
        /\ lShown' = lShown
  BY <1>1
<1> DEFINE items == L!Getter(lScope[t], readable) \ {x}
<1>3. {x} \in SUBSET ListItems /\ {} \in SUBSET ListItems
  BY DEF L!Current, ListInv, ListTypes
<1>4. ASSUME readable
      PROVE  /\ items \in SUBSET ListItems /\ IsFiniteSet(items)
             /\ Cardinality(items) <= MaxItems[lList]
             /\ lList = "queries" => \A y \in items : y[1] = lScope[t]
             /\ {} \subseteq items /\ L!Of(lScope[t], lStored) \ {x} \subseteq items
  <2>1. items = L!Of(lScope[t], lStored) \ {x} /\ items \subseteq L!Of(lScope[t], lStored)
    BY <1>4 DEF L!Getter
  <2> HIDE DEF items
  <2> QED BY <2>1, ListOf, FewerItems
<1>5. L!Begins(t, readable, items, {}, {x}) /\ lShown' = lShown /\ lList # "registry"
  BY <1>2
<1> HIDE DEF items
<1> QED BY <1>3, <1>4, <1>5, BeginsStep

LEMMA ClearListStep ==
  ASSUME ListInv, L!Clear
  PROVE  ListInv'
<1>1. PICK t \in Tabs, readable \in BOOLEAN :
        /\ lList # "registry"
        /\ L!Begins(t, readable, {}, {}, L!Of(lScope[t], ListItems))
        /\ lShown' = lShown
  BY DEF L!Clear, ListItems
<1>2. /\ L!Of(lScope[t], ListItems) \in SUBSET ListItems
      /\ L!Of(lScope[t], lStored) \ L!Of(lScope[t], ListItems) \subseteq {}
  BY DEF L!Of, ListInv, ListTypes
<1> QED BY <1>1, <1>2, NoItems, BeginsStep DEF ListInv, ListTypes

\* The list is written as the change has made it of what was read.
LEMMA EndChangeStep ==
  ASSUME ListInv, L!EndChange
  PROVE  ListInv'
<1>1. PICK t \in Tabs, written \in BOOLEAN, readable \in BOOLEAN :
        LET c == lChange[t] IN
        /\ c.pending
        /\ lChange' = [lChange EXCEPT ![t] = L!NoChange]
        /\ IF written
           THEN /\ L!Write(t, lScope[t], c.items)
                /\ lShown' = [lShown EXCEPT ![t] = IF readable THEN c.items ELSE {}]
                /\ lKept' = (lKept \ c.gone) \cup c.saved
                /\ lLost' = (lLost \cup (lKept \ c.before)) \ lStored'
           ELSE UNCHANGED <<lStored, lEvents, lShown, lKept, lLost>>
        /\ UNCHANGED <<L!listState, lBlind>>
  BY Zenon DEF L!EndChange
<1> DEFINE c == lChange[t]
           s == lScope[t]
           shows == IF readable THEN c.items ELSE {}
<1>2. /\ c \in ListChanges /\ c.pending /\ Keeps(c, s)
      /\ lList' = lList /\ lScope' = lScope /\ lLoaded' = lLoaded /\ lBlind' = lBlind
  BY <1>1 DEF ListInv, ListTypes, ChangesKeep, L!listState
<1>3. /\ lList # "registry" /\ IsFiniteSet(c.items) /\ Cardinality(c.items) <= MaxItems[lList]
      /\ lList = "queries" => \A x \in c.items : x[1] = s
      /\ c.saved \subseteq c.items /\ L!Of(s, c.before) \ c.gone \subseteq c.items
      /\ c.items \in SUBSET ListItems
  BY <1>2 DEF Keeps, ListChanges
<1>4. lChange' \in [Tabs -> ListChanges] /\ ChangesKeep'
  <2>1. L!NoChange \in ListChanges /\ ~L!NoChange.pending
    BY DEF L!NoChange, ListChanges
  <2>2. /\ lChange' \in [Tabs -> ListChanges]
        /\ \A u \in Tabs : lChange'[u] = lChange[u] \/ lChange'[u] = L!NoChange
    BY <1>1, <2>1 DEF ListInv, ListTypes
  <2>3. \A u \in Tabs : Keeps(lChange'[u], lScope[u])
    BY <2>1, <2>2 DEF ListInv, ChangesKeep, Keeps
  <2> QED BY <1>2, <2>2, <2>3 DEF ChangesKeep, Keeps, L!Of
<1>5. CASE ~written
  <2>1. UNCHANGED <<lStored, lShown, lKept, lLost>>
    BY <1>1, <1>5
  <2>2. ListTypes' /\ Sizes'
    BY <1>2, <1>4, <2>1 DEF ListInv, ListTypes, Sizes, L!Of
  <2>3. ShownOfScope' /\ RegistryDistinct' /\ RegistryKnown'
    BY <1>2, <1>3, <2>1 DEF ListInv, ShownOfScope, RegistryDistinct, RegistryKnown
  <2> QED BY <1>4, <2>2, <2>3 DEF ListInv
<1>6. CASE written
  <2>1. /\ lStored' = (lStored \ L!Of(s, lStored)) \cup c.items
        /\ lShown' = [lShown EXCEPT ![t] = shows]
        /\ lKept' = (lKept \ c.gone) \cup c.saved
        /\ lLost' = (lLost \cup (lKept \ c.before)) \ lStored'
    BY <1>1, <1>6 DEF L!Write
  <2>2. /\ shows \in SUBSET ListItems
        /\ lList = "queries" => \A x \in shows : lLoaded[t] = s => x[1] = s
    BY <1>3
  <2> HIDE DEF c, s, shows
  <2>3. /\ lStored' \in SUBSET ListItems /\ IsFiniteSet(lStored') /\ Sizes'
    BY <1>2, <1>3, <2>1, WriteList
  <2>4. lKept' \ lLost' \subseteq lStored'
    <3>1. ASSUME NEW x \in lKept' \ lLost', x \notin lStored'
          PROVE  FALSE
      <4>1. x \in lKept /\ x \notin c.gone /\ x \notin lLost /\ x \in c.before
        BY <1>3, <2>1, <3>1
      <4>2. x \in lStored
        BY <4>1 DEF ListInv, ListTypes
      <4>3. x \in L!Of(s, lStored)
        BY <2>1, <3>1, <4>2
      <4>4. x \in L!Of(s, c.before)
        BY <4>1, <4>3 DEF L!Of
      <4> QED BY <1>3, <2>1, <3>1, <4>1, <4>4
    <3> QED BY <3>1
  <2>5. lShown' \in [Tabs -> SUBSET ListItems] /\ ShownOfScope' /\ RegistryDistinct'
    BY <1>2, <1>3, <2>1, <2>2, ShowList DEF s
  <2>6. ListTypes' /\ RegistryKnown'
    BY <1>2, <1>3, <1>4, <2>3, <2>4, <2>5 DEF ListInv, ListTypes, RegistryKnown
  <2> QED BY <1>4, <2>3, <2>5, <2>6 DEF ListInv
<1> QED BY <1>5, <1>6

LEMMA ListStutter ==
  ASSUME ListInv, lList' = lList, lStored' = lStored, lShown' = lShown, lScope' = lScope,
         lLoaded' = lLoaded, lKept' = lKept, lLost' = lLost, lChange' = lChange,
         lBlind' = lBlind, lEvents' = lEvents
  PROVE  ListInv'
<1>1. ListTypes' /\ Sizes' /\ ShownOfScope'
  BY DEF ListInv, ListTypes, Sizes, ShownOfScope, L!Of
<1>2. RegistryDistinct' /\ RegistryKnown'
  BY DEF ListInv, RegistryDistinct, RegistryKnown, Distinct, Snapshot, L!OneNetwork
<1>3. ChangesKeep'
  BY DEF ListInv, ChangesKeep, Keeps, L!Of
<1> QED BY <1>1, <1>2, <1>3 DEF ListInv

\* SavedQueries of another scope show nothing until they are loaded.
LEMMA ChangeScopeStep ==
  ASSUME ListInv, L!ChangeScope
  PROVE  ListInv'
<1>1. PICK t \in Tabs, s \in Scopes \ {None} :
        /\ lList = "queries" /\ lLoaded[t] = lScope[t] /\ ~lChange[t].pending
        /\ lScope' = [lScope EXCEPT ![t] = s]
        /\ UNCHANGED <<lList, lStored, lShown, lLoaded, lRemote, lEvents, lChange, lBlind,
                       lKept, lLost, lRefusals>>
  BY DEF L!ChangeScope, L!Idle
<1>2. \A u \in Tabs : lScope'[u] = IF u = t THEN s ELSE lScope[u]
  BY <1>1 DEF ListInv, ListTypes
<1>3. ListTypes'
  BY <1>1 DEF ListInv, ListTypes
<1>4. Sizes'
  BY <1>1 DEF ListInv, Sizes, L!Of
<1>5. ShownOfScope'
  BY <1>1, <1>2 DEF ListInv, ShownOfScope
<1>6. RegistryDistinct' /\ RegistryKnown'
  BY <1>1 DEF RegistryDistinct, RegistryKnown
<1>7. \A u \in Tabs : Keeps(lChange[u], lScope'[u])
  BY <1>1, <1>2 DEF ListInv, ChangesKeep, Keeps
<1>8. ChangesKeep'
  BY <1>1, <1>7 DEF ChangesKeep, Keeps, L!Of
<1> QED BY <1>3, <1>4, <1>5, <1>6, <1>8 DEF ListInv

\* What leaves the list, the scopes and the changes alone leaves their sizes and contents so.
LEMMA SameList ==
  ASSUME ListInv, lList' = lList, lStored' = lStored, lScope' = lScope, lChange' = lChange
  PROVE  Sizes' /\ ChangesKeep'
<1>1. \A s : L!Of(s, lStored)' = L!Of(s, lStored)
  BY DEF L!Of
<1>2. Sizes'
  BY <1>1 DEF ListInv, Sizes
<1>3. ASSUME NEW t \in Tabs PROVE Keeps(lChange[t], lScope[t])'
  <2> DEFINE c == lChange[t]
  <2>1. Keeps(c, lScope[t]) /\ c' = c
    BY DEF ListInv, ChangesKeep
  <2> HIDE DEF c
  <2>2. L!Of(lScope[t], c.before)' = L!Of(lScope[t], c.before)
    BY <2>1 DEF L!Of
  <2> QED BY <2>1, <2>2 DEF Keeps, c
<1> QED BY <1>2, <1>3 DEF ChangesKeep

\* A tab reads a list, on its own or since another tab has written.
LEMMA ReadList ==
  ASSUME ListInv, NEW t \in Tabs, NEW s, NEW readable \in BOOLEAN,
         lStored' = lStored, lKept' = lKept, lLost' = lLost, lList' = lList, lScope' = lScope,
         lChange' = lChange, lBlind' \in [Tabs -> BOOLEAN],
         lLoaded' = [u \in Tabs |-> lLoaded'[u]],
         \A u \in Tabs \ {t} : lLoaded'[u] = lLoaded[u],
         lList = "queries" /\ lLoaded'[t] = lScope[t] => s = lScope[t],
         lShown' = [lShown EXCEPT ![t] = L!Getter(s, readable)],
         lList = "registry" =>
           /\ lBlind'[t] = ~readable
           /\ \A u \in Tabs \ {t} :
                /\ lBlind'[u] = lBlind[u]
                /\ <<u, None>> \in lEvents => <<u, None>> \in lEvents'
  PROVE  ListInv'
<1> DEFINE items == L!Getter(s, readable)
<1>1. /\ items \in SUBSET ListItems /\ items \subseteq lStored
      /\ IsFiniteSet(items) /\ Cardinality(items) <= MaxItems[lList]
      /\ lList = "queries" => \A x \in items : x[1] = s
      /\ lList = "registry" /\ readable => items = lStored
  BY ListOf, NoItems DEF L!Getter, ListInv, ListTypes
<1> HIDE DEF items
<1>2. /\ lShown' \in [Tabs -> SUBSET ListItems]
      /\ \A u \in Tabs : lShown'[u] = IF u = t THEN items ELSE lShown[u]
  BY <1>1 DEF items, ListInv, ListTypes
<1>3. ListTypes'
  BY <1>2 DEF ListInv, ListTypes
<1>4. Sizes' /\ ChangesKeep'
  BY SameList
<1>5. ShownOfScope'
  BY <1>1, <1>2 DEF ListInv, ShownOfScope
<1>6. ASSUME lList = "registry"
      PROVE  Distinct(lStored) /\ \A u \in Tabs : Snapshot(lShown'[u])
  <2>1. Distinct(lStored) /\ \A u \in Tabs : Snapshot(lShown[u])
    BY <1>6 DEF ListInv, RegistryDistinct
  <2>2. Snapshot(items)
    BY <1>1, <2>1 DEF Snapshot, Distinct
  <2> QED BY <1>2, <2>1, <2>2
<1>7. RegistryDistinct'
  BY <1>6 DEF RegistryDistinct, Distinct, Snapshot, L!OneNetwork
<1>8. ASSUME lList = "registry", NEW u \in Tabs
      PROVE  lShown'[u] = lStored \/ lBlind'[u] \/ <<u, None>> \in lEvents'
  <2>1. CASE u = t
    BY <1>1, <1>2, <1>8, <2>1
  <2>2. CASE u # t
    <3>1. lShown[u] = lStored \/ lBlind[u] \/ <<u, None>> \in lEvents
      BY <1>8 DEF ListInv, RegistryKnown
    <3>2. lShown'[u] = lShown[u]
      BY <1>2, <2>2
    <3>3. lBlind'[u] = lBlind[u] /\ (<<u, None>> \in lEvents => <<u, None>> \in lEvents')
      BY <1>8, <2>2
    <3> QED BY Zenon, <3>1, <3>2, <3>3
  <2> QED BY <2>1, <2>2
<1>9. RegistryKnown'
  BY <1>8 DEF RegistryKnown
<1> QED BY <1>3, <1>4, <1>5, <1>7, <1>9 DEF ListInv

LEMMA LoadStep ==
  ASSUME ListInv, L!Load
  PROVE  ListInv'
<1>1. PICK t \in Tabs, readable \in BOOLEAN :
        /\ lShown' = [lShown EXCEPT ![t] = L!Getter(lScope[t], readable)]
        /\ lLoaded' = [lLoaded EXCEPT ![t] = lScope[t]]
        /\ lBlind' = [lBlind EXCEPT ![t] = ~readable]
        /\ UNCHANGED <<lList, lStored, lScope, lEvents, lChange, lKept, lLost>>
  BY DEF L!Load
<1>2. /\ lLoaded' = [u \in Tabs |-> lLoaded'[u]]
      /\ \A u \in Tabs \ {t} : lLoaded'[u] = lLoaded[u]
      /\ lBlind' \in [Tabs -> BOOLEAN] /\ lBlind'[t] = ~readable
      /\ \A u \in Tabs \ {t} : lBlind'[u] = lBlind[u]
  BY <1>1 DEF ListInv, ListTypes
<1>3. /\ lStored' = lStored /\ lKept' = lKept /\ lLost' = lLost /\ lList' = lList
      /\ lScope' = lScope /\ lChange' = lChange /\ lEvents' = lEvents
  BY <1>1
<1> QED BY <1>1, <1>2, <1>3, ReadList

LEMMA EventListStep ==
  ASSUME ListInv, L!Event
  PROVE  ListInv'
<1>1. PICK e \in lEvents, readable \in BOOLEAN :
        LET heard == lList # "queries" \/ e[2] = lLoaded[e[1]] IN
        /\ lEvents' = lEvents \ {e}
        /\ lShown' = IF heard /\ (readable \/ lList # "queries")
                     THEN [lShown EXCEPT ![e[1]] = L!Getter(e[2], readable)] ELSE lShown
        /\ lBlind' = [lBlind EXCEPT ![e[1]] = heard /\ ~readable]
        /\ UNCHANGED <<L!listState, lStored, lChange, lKept, lLost>>
  BY DEF L!Event
<1>2. /\ lStored' = lStored /\ lKept' = lKept /\ lLost' = lLost /\ lList' = lList
      /\ lScope' = lScope /\ lChange' = lChange
      /\ lLoaded' = lLoaded /\ lLoaded' = [u \in Tabs |-> lLoaded'[u]]
  <2>1. UNCHANGED <<lList, lScope, lLoaded, lStored, lChange, lKept, lLost>>
    BY <1>1 DEF L!listState
  <2> QED BY <2>1 DEF ListInv, ListTypes
<1>3. /\ lBlind' \in [Tabs -> BOOLEAN]
      /\ \A u \in Tabs \ {e[1]} : lBlind'[u] = lBlind[u]
      /\ e[1] \in Tabs /\ lList = "registry" => lBlind'[e[1]] = ~readable
  <2>1. PICK blind \in BOOLEAN : /\ lBlind' = [lBlind EXCEPT ![e[1]] = blind]
                                 /\ lList = "registry" => blind = ~readable
    BY <1>1
  <2>2. lBlind \in [Tabs -> BOOLEAN]
    BY DEF ListInv, ListTypes
  <2> QED BY <2>1, <2>2
<1>4. \A u \in Tabs \ {e[1]} : <<u, None>> \in lEvents => <<u, None>> \in lEvents'
  BY <1>1
<1>5. CASE e[1] \in Tabs /\ (lList # "queries" \/ (e[2] = lLoaded[e[1]] /\ readable))
  <2>1. lShown' = [lShown EXCEPT ![e[1]] = L!Getter(e[2], readable)]
    BY <1>1, <1>5
  <2>2. lList = "queries" /\ lLoaded'[e[1]] = lScope[e[1]] => e[2] = lScope[e[1]]
    BY <1>2, <1>5
  <2> QED BY <1>2, <1>5, <1>3, <1>4, <2>1, <2>2, ReadList
<1>6. CASE ~(e[1] \in Tabs /\ (lList # "queries" \/ (e[2] = lLoaded[e[1]] /\ readable)))
  <2>1. lShown' = lShown
    BY <1>1, <1>6 DEF ListInv, ListTypes
  <2>2. ListTypes' /\ Sizes' /\ ChangesKeep'
    <3>1. ListTypes'
      BY <1>2, <1>3, <2>1 DEF ListInv, ListTypes
    <3> QED BY <1>2, <3>1, SameList
  <2>3. ShownOfScope' /\ RegistryDistinct'
    BY <1>2, <2>1 DEF ListInv, ShownOfScope, RegistryDistinct, Distinct, Snapshot, L!OneNetwork
  <2>4. RegistryKnown'
    BY <1>2, <1>6, <1>3, <1>4, <2>1 DEF ListInv, RegistryKnown
  <2> QED BY <2>2, <2>3, <2>4 DEF ListInv
<1> QED BY <1>5, <1>6

\* The registry is written as the tab knows it; the tabs that do not know hear of it.
LEMMA WriteRegistry ==
  ASSUME ListInv, lList = "registry", lList' = lList, lScope' = lScope, lLoaded' = lLoaded,
         lChange' = lChange,
         NEW t \in Tabs, NEW items \in SUBSET ListItems, Snapshot(items), NEW ok \in BOOLEAN,
         lShown' = [lShown EXCEPT ![t] = items], lBlind' = [lBlind EXCEPT ![t] = ~ok],
         IF ok THEN L!Write(t, None, items) ELSE UNCHANGED <<lStored, lEvents>>,
         lKept' \ lLost' \subseteq lStored'
  PROVE  ListInv'
<1>1. ok => /\ lStored' = items
            /\ lEvents' = IF items = lStored THEN lEvents
                          ELSE lEvents \cup ((Tabs \ {t}) \X {None})
  BY ListOf DEF L!Write, L!Key
<1>2. /\ lShown' \in [Tabs -> SUBSET ListItems] /\ lBlind' \in [Tabs -> BOOLEAN]
      /\ \A u \in Tabs : lShown'[u] = IF u = t THEN items ELSE lShown[u]
      /\ \A u \in Tabs : lBlind'[u] = IF u = t THEN ~ok ELSE lBlind[u]
  BY DEF ListInv, ListTypes
<1>3. /\ lStored' \in SUBSET ListItems /\ IsFiniteSet(lStored')
      /\ Cardinality(lStored') <= MaxItems[lList]
  BY <1>1, ListOf DEF Snapshot, ListInv, ListTypes
<1>4. ListTypes'
  BY <1>2, <1>3 DEF ListInv, ListTypes
<1>5. Sizes' /\ ChangesKeep'
  BY <1>3 DEF ListInv, Sizes, ChangesKeep, Keeps, L!Of
<1>6. Distinct(lStored') /\ \A u \in Tabs : Snapshot(lShown'[u])
  BY <1>1, <1>2 DEF ListInv, RegistryDistinct, Snapshot
<1>7. RegistryDistinct'
  BY <1>6 DEF RegistryDistinct, Distinct, Snapshot, L!OneNetwork
<1>8. ShownOfScope'
  BY DEF ShownOfScope
<1>9. ASSUME NEW u \in Tabs
      PROVE  lShown'[u] = lStored' \/ lBlind'[u] \/ <<u, None>> \in lEvents'
  BY <1>1, <1>2 DEF ListInv, RegistryKnown
<1>10. RegistryKnown'
  BY <1>9 DEF RegistryKnown
<1> QED BY <1>4, <1>5, <1>7, <1>8, <1>10 DEF ListInv

\* What a tab writes of the registry holds all it knows to be kept.
LEMMA RegistryKept ==
  ASSUME ListInv, lList = "registry", NEW t \in Tabs, NEW x, NEW items,
         lStored' = items, lShown[t] \ {x} \subseteq items,
         lLost' = (lLost \cup L!Unknown(t)) \ lStored'
  PROVE  (lKept \ {x}) \ lLost' \subseteq lStored'
<1>1. ASSUME NEW y \in lKept \ {x}, y \notin lLost', y \notin lStored'
      PROVE  FALSE
  <2>1. y \notin lLost /\ y \notin L!Unknown(t) /\ y \notin lShown[t]
    BY <1>1
  <2>2. lShown[t] = lStored
    BY <1>1, <2>1 DEF L!Unknown, ListInv, RegistryKnown
  <2> QED BY <1>1, <2>1, <2>2 DEF ListInv, ListTypes
<1> QED BY <1>1

LEMMA AddLocalStep ==
  ASSUME ListInv, L!AddLocal
  PROVE  ListInv'
<1>1. PICK t \in Tabs, x \in L!Items :
        /\ lList = "registry"
        /\ L!Clash(t, x) = {} /\ L!Cardinality(lShown[t]) < MaxItems[lList]
        /\ L!Write(t, None, lShown[t] \cup {x})
        /\ lShown' = [lShown EXCEPT ![t] = @ \cup {x}]
        /\ lBlind' = [lBlind EXCEPT ![t] = FALSE]
        /\ lKept' = lKept \cup {x}
        /\ lLost' = (lLost \cup L!Unknown(t)) \ lStored'
        /\ UNCHANGED <<L!listState, lChange, lRefusals>>
  BY DEF L!AddLocal
<1> DEFINE items == lShown[t] \cup {x}
<1>2. /\ lShown[t] \in SUBSET ListItems /\ IsFiniteSet(lShown[t]) /\ Distinct(lShown[t])
      /\ Cardinality(lShown[t]) < MaxItems[lList]
  BY <1>1, SameCardinality DEF ListInv, ListTypes, RegistryDistinct, Snapshot
<1>3. IsFiniteSet(items) /\ Cardinality(items) <= MaxItems[lList]
  <2>1. /\ lShown[t] \ {x} \subseteq lShown[t] /\ IsFiniteSet(lShown[t] \ {x})
        /\ Cardinality(lShown[t] \ {x}) <= Cardinality(lShown[t])
    BY <1>2, FS_Subset
  <2>2. Cardinality(lShown[t] \ {x}) \in Nat /\ Cardinality(lShown[t]) \in Nat
    BY <1>2, <2>1, FS_CardinalityType
  <2>3. Cardinality(lShown[t] \ {x}) < MaxItems[lList]
    BY <1>2, <2>1, <2>2, ListOf
  <2> QED BY <1>2, <2>3, OneMoreItem, ListOf
<1>4. \A y \in lShown[t] : y[2] = x[2] => ~L!OneNetwork(x, y) /\ ~L!OneNetwork(y, x)
  BY <1>1 DEF L!Clash, L!OneNetwork
<1>5. Distinct(items)
  BY <1>2, <1>4 DEF Distinct
<1>6. items \in SUBSET ListItems
  BY <1>1, <1>2, ReadsAssumption DEF L!Items, ListItems
<1>7. lStored' = items
  BY <1>1, ListOf DEF L!Write
<1>8. /\ lList' = lList /\ lScope' = lScope /\ lLoaded' = lLoaded /\ lList = "registry"
      /\ lShown' = [lShown EXCEPT ![t] = items] /\ L!Write(t, None, items)
      /\ lChange' = lChange /\ lBlind' = [lBlind EXCEPT ![t] = ~TRUE]
      /\ lKept' = lKept \cup {x} /\ lLost' = (lLost \cup L!Unknown(t)) \ lStored'
  BY <1>1 DEF L!listState
<1>9. lShown[t] \ {x} \subseteq items /\ x \in items
  OBVIOUS
<1> HIDE DEF items
<1>10. lKept' \ lLost' \subseteq lStored'
  <2>1. (lKept \ {x}) \ lLost' \subseteq lStored'
    BY <1>7, <1>8, <1>9, RegistryKept
  <2> QED BY <1>7, <1>8, <1>9, <2>1
<1>11. Snapshot(items)
  BY <1>3, <1>5 DEF Snapshot
<1> QED BY <1>6, <1>8, <1>10, <1>11, WriteRegistry

LEMMA RemoveLocalStep ==
  ASSUME ListInv, L!RemoveLocal
  PROVE  ListInv'
<1>0. PICK t \in Tabs, ok \in BOOLEAN : \E x \in lShown[t] :
        /\ lList = "registry"
        /\ IF ok
           THEN /\ L!Write(t, None, lShown[t] \ {x})
                /\ lLost' = (lLost \cup L!Unknown(t)) \ lStored'
           ELSE UNCHANGED <<lStored, lEvents, lLost>>
        /\ lShown' = [lShown EXCEPT ![t] = @ \ {x}]
        /\ lBlind' = [lBlind EXCEPT ![t] = ~ok]
        /\ lKept' = lKept \ {x}
        /\ UNCHANGED <<L!listState, lChange>>
  BY DEF L!RemoveLocal
<1>1. PICK x \in lShown[t] :
        /\ lList = "registry"
        /\ IF ok
           THEN /\ L!Write(t, None, lShown[t] \ {x})
                /\ lLost' = (lLost \cup L!Unknown(t)) \ lStored'
           ELSE UNCHANGED <<lStored, lEvents, lLost>>
        /\ lShown' = [lShown EXCEPT ![t] = @ \ {x}]
        /\ lBlind' = [lBlind EXCEPT ![t] = ~ok]
        /\ lKept' = lKept \ {x}
        /\ UNCHANGED <<L!listState, lChange>>
  BY <1>0
<1> DEFINE items == lShown[t] \ {x}
<1>2. /\ lShown[t] \in SUBSET ListItems /\ IsFiniteSet(lShown[t]) /\ Distinct(lShown[t])
      /\ Cardinality(lShown[t]) <= MaxItems[lList]
  BY <1>1 DEF ListInv, ListTypes, RegistryDistinct, Snapshot
<1>3. items \in SUBSET ListItems /\ Distinct(items)
  BY <1>2 DEF Distinct
<1>4. Snapshot(items)
  BY <1>2, <1>3, FewerItems, ListOf DEF Snapshot
<1>5. /\ lList' = lList /\ lScope' = lScope /\ lLoaded' = lLoaded /\ lList = "registry"
      /\ lChange' = lChange /\ lBlind' = [lBlind EXCEPT ![t] = ~ok]
      /\ lShown' = [lShown EXCEPT ![t] = items] /\ lKept' = lKept \ {x}
      /\ IF ok THEN L!Write(t, None, items) ELSE UNCHANGED <<lStored, lEvents>>
      /\ IF ok THEN lLost' = (lLost \cup L!Unknown(t)) \ lStored' ELSE lLost' = lLost
  BY <1>1 DEF L!listState
<1>6. lShown[t] \ {x} \subseteq items
  OBVIOUS
<1> HIDE DEF items
<1>7. lKept' \ lLost' \subseteq lStored'
  <2>1. CASE ok
    <3>1. lStored' = items
      BY <1>5, <2>1, ListOf DEF L!Write
    <3> QED BY <1>5, <1>6, <2>1, <3>1, RegistryKept
  <2>2. CASE ~ok
    BY <1>5, <2>2 DEF ListInv, ListTypes
  <2> QED BY <2>1, <2>2
<1> QED BY <1>3, <1>4, <1>5, <1>7, WriteRegistry

LEMMA NextList ==
  ASSUME ListInv, L!Next
  PROVE  ListInv'
<1>1. CASE L!RemoteAnswers
  BY <1>1, ListStutter DEF L!RemoteAnswers
<1> QED BY <1>1, SaveStep, SaveEndsEarlyStep, RemoveStep, ClearListStep, EndChangeStep,
           ChangeScopeStep, LoadStep, EventListStep, AddLocalStep, RemoveLocalStep DEF L!Next

LEMMA ListHolds == ListInv => L!EntriesKept
<1> SUFFICES ASSUME ListInv PROVE L!EntriesKept
  OBVIOUS
<1>1. \A s \in Scopes : L!Cardinality(L!Of(s, lStored)) <= MaxItems[lList]
  BY SameCardinality DEF ListInv, Sizes
<1>2. ASSUME lList = "queries", NEW t \in Tabs
      PROVE  L!Current(t) \subseteq {lScope[t]} \X Saved
  BY <1>2 DEF L!Current, ListInv, ListTypes, ShownOfScope, ListItems
<1>3. lList = "registry" => \A t \in Tabs : Distinct(lShown[t])
  BY DEF ListInv, RegistryDistinct, Snapshot
<1> QED BY <1>1, <1>2, <1>3 DEF L!EntriesKept, Distinct, ListInv, ListTypes

LEMMA ListStutters == ListInv /\ UNCHANGED listVars => ListInv'
BY ListStutter DEF listVars

-----------------------------------------------------------------------------
(* QueryWorkspace.                                                         *)

RunRecords == [id : Nat, text : Texts, contract : Contracts, session : Nat]
Asks == [run : Nat, at : Nat, text : Texts, contract : Contracts, session : Nat, page : Nat]
Answers == [failed : BOOLEAN, of : Asks]
Panels == [state : {"queued", "running", "done"}, page : Nat, asked : Nat,
           result : Answers \cup {None}, next : {"no", "checking", "yes"}]

StatementsOf(run) == DOMAIN Statements[run.text]
Ask(run, i, page) ==
  [run |-> run.id, at |-> i, text |-> run.text, contract |-> run.contract,
   session |-> run.session, page |-> page]

\* What a panel may hold for statement i of a run.
Holds(run, i, v) ==
  /\ v.state = "running" => v.asked = v.page
  /\ v.result # None => v.state = "done" /\ v.result.of = Ask(run, i, v.page)
  /\ v.state = "done" /\ v.result = None => Statements[run.text][i] = "unresolved"

RunTypes ==
  /\ rText \in Texts /\ rPicker \in Contracts /\ rSession \in Nat /\ rRuns \in Nat
  /\ rRun \in RunRecords \cup {None} /\ rRequests \in SUBSET Asks
  /\ rRun # None => /\ rRun.session <= rSession /\ rRun.id <= rRuns
                    /\ rView \in [StatementsOf(rRun) -> Panels]

\* Requests of the run ask what the run asks; an earlier run has another number.
OfTheRun ==
  \A r \in rRequests :
    /\ r.run <= rRuns
    /\ rRun # None /\ r.run = rRun.id =>
         r.at \in StatementsOf(rRun) /\ r = Ask(rRun, r.at, r.page)

PanelsHold == rRun # None => \A i \in StatementsOf(rRun) : Holds(rRun, i, rView[i])

Running == {i \in StatementsOf(rRun) : rView[i].state = "running"}

AskedFor ==
  R!Current => \A i \in Running : Ask(rRun, i, rView[i].page) \in rRequests

TwoAtOnce == rRun # None => Cardinality(Running) <= 2

RunInv == RunTypes /\ OfTheRun /\ PanelsHold /\ AskedFor /\ TwoAtOnce

LEMMA StatementsFinite ==
  ASSUME NEW run \in RunRecords
  PROVE  /\ StatementsOf(run) \in SUBSET Nat /\ IsFiniteSet(StatementsOf(run))
         /\ \A T \in SUBSET StatementsOf(run) :
              T \in SUBSET Nat /\ IsFiniteSet(T) /\ Cardinality(T) \in Nat
<1>1. run.text \in Texts
  BY DEF RunRecords
<1>2. Statements[run.text] \in Seq({"documents", "aggregate", "unresolved"})
  BY <1>1, ReadsAssumption
<1> DEFINE k == Len(Statements[run.text])
<1>3. k \in Nat /\ StatementsOf(run) = 1..k
  BY <1>2 DEF StatementsOf
<1> HIDE DEF k
<1>4. IsFiniteSet(StatementsOf(run)) /\ StatementsOf(run) \in SUBSET Nat
  <2>1. IsFiniteSet(1..k)
    BY <1>3, FS_Interval
  <2> QED BY <1>3, <2>1
<1>5. ASSUME NEW T \in SUBSET StatementsOf(run)
      PROVE  T \in SUBSET Nat /\ IsFiniteSet(T) /\ Cardinality(T) \in Nat
  BY <1>4, FS_Subset, FS_CardinalityType
<1> QED BY <1>4, <1>5

LEMMA InitRun == R!Init => RunInv
<1> SUFFICES ASSUME R!Init PROVE RunInv
  OBVIOUS
<1>1. /\ rText \in Texts /\ rPicker \in Contracts /\ rSession = 0 /\ rRuns = 0
      /\ rRun = None /\ rRequests = {}
  BY DEF R!Init
<1> QED BY <1>1
        DEF RunInv, RunTypes, OfTheRun, PanelsHold, AskedFor, TwoAtOnce, R!Current

\* Without a run there is little to hold.
LEMMA NoRunLeft ==
  ASSUME RunInv, rText' \in Texts, rPicker' \in Contracts, rSession' \in Nat,
         rRuns' = rRuns, rRequests' \subseteq rRequests, rRun' = None
  PROVE  RunInv'
<1>1. RunTypes'
  BY DEF RunInv, RunTypes
<1>2. OfTheRun'
  BY DEF RunInv, OfTheRun
<1> QED BY <1>1, <1>2 DEF RunInv, PanelsHold, AskedFor, TwoAtOnce, R!Current

\* A run that starts has asked for nothing, and no request bears its number.
LEMMA StartRunStep ==
  ASSUME RunInv, NEW text \in Texts, NEW contract \in Contracts, R!StartRun(text, contract),
         rText' = text, rPicker' = contract
  PROVE  RunInv'
<1>1. rSession' = rSession /\ rRequests' = rRequests /\ rSession \in Nat /\ rRuns \in Nat
  BY DEF R!StartRun, RunInv, RunTypes
<1>2. CASE Statements[text] = <<>> \/ ~R!Ready
  <2>1. rRun' = None /\ rRuns' = rRuns
    BY <1>2 DEF R!StartRun
  <2> QED BY <1>1, <2>1, NoRunLeft
<1>3. CASE ~(Statements[text] = <<>> \/ ~R!Ready)
  <2> DEFINE run == [id |-> rRuns + 1, text |-> text, contract |-> contract,
                     session |-> rSession]
  <2>1. /\ rRun' = run /\ rRuns' = rRuns + 1
        /\ rView' = [i \in DOMAIN Statements[text] |-> R!Fresh]
    BY <1>3 DEF R!StartRun
  <2>2. /\ run \in RunRecords /\ run.id = rRuns + 1 /\ run.text = text
        /\ run.session = rSession /\ rRuns + 1 \in Nat
    BY <1>1 DEF RunRecords
  <2> HIDE DEF run
  <2>3. run # None
    BY <2>2, ReadsAssumption DEF RunRecords
  <2>4. /\ R!Fresh \in Panels /\ R!Fresh.state = "queued" /\ R!Fresh.result = None
    BY DEF R!Fresh, Panels
  <2>5. /\ rView' \in [StatementsOf(run) -> Panels]
        /\ \A i \in StatementsOf(run) : rView'[i] = R!Fresh
    BY <2>1, <2>2, <2>4 DEF StatementsOf
  <2>6. RunTypes'
    <3>1. run.session <= rSession' /\ run.id <= rRuns'
      BY <1>1, <2>1, <2>2
    <3> QED BY <1>1, <2>1, <2>2, <2>5, <3>1 DEF RunInv, RunTypes
  <2>7. OfTheRun'
    <3>1. ASSUME NEW r \in rRequests
          PROVE  r.run <= rRuns + 1 /\ r.run # run.id
      <4>1. r.run \in Nat /\ r.run <= rRuns
        BY DEF RunInv, RunTypes, OfTheRun, Asks
      <4> QED BY <1>1, <2>2, <4>1
    <3> QED BY <1>1, <2>1, <3>1 DEF OfTheRun
  <2>8. PanelsHold'
    BY <2>1, <2>4, <2>5 DEF PanelsHold, Holds
  <2>9. Running' = {}
    BY <2>1, <2>4, <2>5 DEF Running
  <2>10. AskedFor' /\ TwoAtOnce'
    BY <2>9, FS_EmptySet DEF AskedFor, TwoAtOnce
  <2> QED BY <2>6, <2>7, <2>8, <2>10 DEF RunInv
<1> QED BY <1>2, <1>3

\* The run stays; the editor, the picker or the session may leave it behind.
LEMMA RunLeftBehind ==
  ASSUME RunInv, rText' \in Texts, rPicker' \in Contracts, rSession' \in Nat,
         rSession' >= rSession, rRuns' = rRuns, rRequests' = rRequests, rRun' = rRun,
         rView' = rView, R!Current' => R!Current
  PROVE  RunInv'
<1>1. Running' = Running
  BY DEF Running
<1>2. RunTypes'
  <2>1. rRun # None => rRun.session <= rSession'
    <3> SUFFICES ASSUME rRun # None PROVE rRun.session <= rSession'
      OBVIOUS
    <3>1. rRun.session \in Nat /\ rRun.session <= rSession /\ rSession \in Nat
      BY DEF RunInv, RunTypes, RunRecords
    <3> QED BY <3>1
  <2> QED BY <2>1 DEF RunInv, RunTypes
<1>3. OfTheRun' /\ PanelsHold'
  BY DEF RunInv, OfTheRun, PanelsHold
<1>4. AskedFor'
  BY <1>1 DEF RunInv, AskedFor
<1>5. TwoAtOnce'
  BY <1>1 DEF RunInv, TwoAtOnce
<1> QED BY <1>2, <1>3, <1>4, <1>5 DEF RunInv

LEMMA UserSteps ==
  ASSUME RunInv, R!Run \/ R!Preset \/ R!SharedLink \/ R!Edit \/ R!Cancel \/ R!CloseRun
                 \/ R!SessionStep
  PROVE  RunInv'
<1>1. rText \in Texts /\ rPicker \in Contracts /\ rSession \in Nat
  BY DEF RunInv, RunTypes
<1>2. CASE R!Run \/ R!SharedLink
  BY <1>1, <1>2, StartRunStep DEF R!Run, R!SharedLink
<1>3. CASE R!Preset
  BY <1>3, StartRunStep DEF R!Preset
<1>4. CASE R!Cancel \/ R!CloseRun
  <2>1. /\ rText' = rText /\ rPicker' = rPicker /\ rSession' = rSession /\ rRuns' = rRuns
        /\ rRequests' = rRequests /\ rRun' = None
    BY <1>4 DEF R!Cancel, R!CloseRun, R!NoRun
  <2> QED BY <1>1, <2>1, NoRunLeft
<1>5. CASE R!Edit
  <2>1. /\ rText' \in Texts /\ rPicker' \in Contracts /\ rSession' = rSession
        /\ rRuns' = rRuns /\ rRequests' = rRequests /\ rRun' = rRun /\ rView' = rView
    BY <1>1, <1>5 DEF R!Edit
  <2>2. rRun # None => R!Current
    BY <1>5 DEF R!Edit, R!EffectsDue
  <2>3. R!Current' => R!Current
    BY <2>1, <2>2 DEF R!Current
  <2>4. rSession' \in Nat /\ rSession' >= rSession
    BY <1>1, <2>1
  <2> QED BY <2>1, <2>3, <2>4, RunLeftBehind
<1>6. CASE R!SessionStep
  <2>1. /\ rText' = rText /\ rPicker' = rPicker /\ rSession' = rSession + 1
        /\ rRuns' = rRuns /\ rRequests' = rRequests /\ rRun' = rRun /\ rView' = rView
    BY <1>6 DEF R!SessionStep
  <2>2. ~R!Current'
    <3> SUFFICES ASSUME rRun # None, rRun.session = rSession + 1 PROVE FALSE
      BY <2>1 DEF R!Current
    <3>1. rRun.session <= rSession
      BY DEF RunInv, RunTypes
    <3> QED BY <1>1, <3>1
  <2>3. rSession' \in Nat /\ rSession' >= rSession
    BY <1>1, <2>1
  <2> QED BY <1>1, <2>1, <2>2, <2>3, RunLeftBehind
<1> QED BY <1>2, <1>3, <1>4, <1>5, <1>6

\* One panel of the run changes, and perhaps the requests with it.
LEMMA PanelStep ==
  ASSUME RunInv, rRun # None, rText' = rText, rPicker' = rPicker, rSession' = rSession,
         rRuns' = rRuns, rRun' = rRun,
         NEW i \in StatementsOf(rRun), NEW v \in Panels, Holds(rRun, i, v),
         rView' = [rView EXCEPT ![i] = v],
         v.state = "running" =>
           Cardinality(Running) < 2 /\ Ask(rRun, i, v.page) \in rRequests',
         rRequests' \subseteq rRequests \cup {Ask(rRun, i, v.page)},
         \A r \in rRequests \ rRequests' : r.at = i \/ ~R!Current
  PROVE  RunInv'
<1>1. /\ rRun \in RunRecords /\ rRun.id \in Nat /\ rRun.id <= rRuns /\ i \in Nat
      /\ v.page \in Nat /\ rRun.text \in Texts /\ rRun.contract \in Contracts
      /\ rRun.session \in Nat
  BY StatementsFinite DEF RunInv, RunTypes, RunRecords, Panels
<1>2. /\ Ask(rRun, i, v.page) \in Asks /\ Ask(rRun, i, v.page).run = rRun.id
      /\ Ask(rRun, i, v.page).at = i /\ Ask(rRun, i, v.page).page = v.page
  BY <1>1 DEF Ask, Asks
<1>3. /\ rView' \in [StatementsOf(rRun) -> Panels]
      /\ \A j \in StatementsOf(rRun) : rView'[j] = IF j = i THEN v ELSE rView[j]
  BY DEF RunInv, RunTypes
<1>4. RunTypes'
  BY <1>2, <1>3 DEF RunInv, RunTypes
<1>5. OfTheRun'
  <2>1. ASSUME NEW r \in rRequests'
        PROVE  /\ r.run <= rRuns
               /\ r.run = rRun.id => r.at \in StatementsOf(rRun) /\ r = Ask(rRun, r.at, r.page)
    <3>1. CASE r \in rRequests
      BY <3>1 DEF RunInv, OfTheRun
    <3>2. CASE r = Ask(rRun, i, v.page)
      BY <1>1, <1>2, <3>2
    <3> QED BY <3>1, <3>2
  <2> QED BY <2>1 DEF OfTheRun
<1>6. PanelsHold'
  BY <1>3 DEF RunInv, PanelsHold
<1>7. \A j \in Running' : (j = i /\ v.state = "running") \/ (j \in Running /\ j # i)
  BY <1>3 DEF Running
<1>8. AskedFor'
  <2> SUFFICES ASSUME R!Current', NEW j \in Running'
               PROVE  Ask(rRun, j, rView'[j].page) \in rRequests'
    BY DEF AskedFor
  <2>1. R!Current
    BY DEF R!Current
  <2>2. CASE j = i /\ v.state = "running"
    BY <1>3, <2>2
  <2>3. CASE j \in Running /\ j # i
    <3>1. Ask(rRun, j, rView[j].page) \in rRequests
      BY <2>1, <2>3 DEF RunInv, AskedFor
    <3>2. Ask(rRun, j, rView[j].page).at = j
      BY DEF Ask
    <3>3. rView'[j] = rView[j]
      BY <1>3, <2>3 DEF Running
    <3> QED BY <2>1, <2>3, <3>1, <3>2, <3>3
  <2> QED BY <1>7, <2>2, <2>3
<1>9. TwoAtOnce'
  <2>1. Running \in SUBSET StatementsOf(rRun)
    BY DEF Running
  <2>2. IsFiniteSet(Running) /\ Cardinality(Running) \in Nat /\ Cardinality(Running) <= 2
    BY <1>1, <2>1, StatementsFinite DEF RunInv, TwoAtOnce
  <2> DEFINE U == IF v.state = "running" THEN Running \cup {i} ELSE Running
  <2>3. IsFiniteSet(U) /\ Cardinality(U) \in Nat /\ Cardinality(U) <= 2
    <3>1. CASE v.state = "running"
      <4>1. /\ IsFiniteSet(Running \cup {i})
            /\ Cardinality(Running \cup {i}) =
                 IF i \in Running THEN Cardinality(Running) ELSE Cardinality(Running) + 1
        BY <2>2, FS_AddElement
      <4>2. Cardinality(Running \cup {i}) \in Nat /\ Cardinality(Running \cup {i}) <= 2
        BY <2>2, <3>1, <4>1
      <4> QED BY <3>1, <4>1, <4>2
    <3>2. CASE v.state # "running"
      BY <2>2, <3>2
    <3> QED BY <3>1, <3>2
  <2>4. Running' \subseteq U
    BY <1>7
  <2> HIDE DEF U
  <2>5. IsFiniteSet(Running') /\ Cardinality(Running') <= Cardinality(U)
    BY <2>3, <2>4, FS_Subset
  <2>6. Cardinality(Running') \in Nat
    BY <2>5, FS_CardinalityType
  <2> DEFINE c == Cardinality(Running')
  <2>7. c \in Nat /\ c <= Cardinality(U)
    BY <2>5, <2>6
  <2> HIDE DEF c
  <2>8. c <= 2
    BY <2>3, <2>7
  <2> QED BY <2>8 DEF TwoAtOnce, c
<1> QED BY <1>4, <1>5, <1>6, <1>8, <1>9 DEF RunInv

\* A statement of the run, and what its panel holds.
LEMMA OfPanel ==
  ASSUME RunInv, rRun # None, NEW i \in DOMAIN rView
  PROVE  /\ i \in StatementsOf(rRun) /\ rView[i] \in Panels /\ Holds(rRun, i, rView[i])
         /\ rView[i].state \in {"queued", "running", "done"} /\ rView[i].page \in Nat
         /\ rView[i].asked \in Nat /\ rView[i].result \in Answers \cup {None}
         /\ rView[i].next \in {"no", "checking", "yes"}
         /\ R!Kind(i) = Statements[rRun.text][i]
         /\ R!Request(i) = Ask(rRun, i, rView[i].page)
<1>1. i \in StatementsOf(rRun) /\ rView[i] \in Panels
  BY DEF RunInv, RunTypes
<1>2. Holds(rRun, i, rView[i])
  BY <1>1 DEF RunInv, PanelsHold
<1> QED BY <1>1, <1>2 DEF Panels, R!Kind, R!Request, Ask

\* Another page of a statement, or the same again, is queued anew.
LEMMA BrowseStep ==
  ASSUME RunInv, R!Browse
  PROVE  RunInv'
<1>1. R!Current /\ rRun # None
  BY DEF R!Browse, R!Current
<1>2. PICK i \in R!InState("done") :
          /\ rView[i].result # None
          /\ \/ rView[i].next = "yes" /\ rView[i].page < RunPages
                /\ R!Requeue(i, rView[i].page + 1)
             \/ rView[i].page > 1 /\ ~rView[i].result.failed /\ R!Requeue(i, rView[i].page - 1)
             \/ rView[i].result.failed /\ R!Requeue(i, rView[i].page)
  BY DEF R!Browse
<1>3. i \in DOMAIN rView
  BY DEF R!InState
<1>4. i \in StatementsOf(rRun) /\ rView[i] \in Panels /\ rView[i].page \in Nat
  BY <1>1, <1>3, OfPanel
<1>5. PICK page \in Nat : R!Requeue(i, page)
  BY <1>2, <1>4
<1> DEFINE v == [rView[i] EXCEPT !.state = "queued", !.page = page, !.asked = 0,
                                 !.result = None, !.next = "no"]
<1>6. /\ rView' = [rView EXCEPT ![i] = v]
      /\ rText' = rText /\ rPicker' = rPicker /\ rSession' = rSession /\ rRuns' = rRuns
      /\ rRun' = rRun /\ rRequests' = rRequests
  BY <1>5 DEF R!Requeue
<1>7. v \in Panels /\ v.state = "queued" /\ v.result = None
  BY <1>4 DEF Panels
<1> HIDE DEF v
<1>8. Holds(rRun, i, v)
  BY <1>7 DEF Holds
<1> QED BY <1>1, <1>4, <1>6, <1>7, <1>8, PanelStep

\* At most as many statements as two allow are due: one that is asks, and runs.
LEMMA ExecuteStep ==
  ASSUME RunInv, R!Execute
  PROVE  RunInv'
<1>1. PICK i \in R!Due :
        IF R!Kind(i) = "unresolved"
        THEN /\ rView' = [rView EXCEPT ![i].state = "done", ![i].asked = rView[i].page]
             /\ UNCHANGED rRequests
        ELSE /\ rView' = [rView EXCEPT ![i].state = "running", ![i].asked = rView[i].page]
             /\ rRequests' = rRequests \cup {R!Request(i)}
  BY DEF R!Execute
<1>2. /\ rText' = rText /\ rPicker' = rPicker /\ rSession' = rSession /\ rRuns' = rRuns
      /\ rRun' = rRun
  BY DEF R!Execute
<1>3. /\ i \in R!Active /\ rView[i].asked # rView[i].page
      /\ R!Current /\ rRun # None
  BY DEF R!Due, R!Active, R!Current
<1>4. i \in DOMAIN rView
  BY <1>3 DEF R!Active, R!InState
<1>5. /\ i \in StatementsOf(rRun) /\ rView[i] \in Panels /\ Holds(rRun, i, rView[i])
      /\ rView[i].page \in Nat
      /\ R!Kind(i) = Statements[rRun.text][i]
      /\ R!Request(i) = Ask(rRun, i, rView[i].page)
  BY <1>3, <1>4, OfPanel
<1>6. rView[i].state # "running"
  BY <1>3, <1>5 DEF Holds
<1>7. /\ rView[i].state = "queued"
      /\ Cardinality({j \in R!InState("queued") : j < i}) + Cardinality(R!InState("running")) < 2
  BY <1>3, <1>6, SameCardinality DEF R!Active, R!InState
<1>8. Cardinality(Running) < 2
  <2>1. R!InState("running") = Running
    BY <1>3 DEF R!InState, Running, RunInv, RunTypes
  <2>2. rRun \in RunRecords
    BY <1>3 DEF RunInv, RunTypes
  <2>3. DOMAIN rView = StatementsOf(rRun)
    BY <1>3 DEF RunInv, RunTypes
  <2> DEFINE p == Cardinality({j \in R!InState("queued") : j < i})
             q == Cardinality(Running)
  <2>4. p \in Nat /\ q \in Nat
    <3>1. /\ {j \in R!InState("queued") : j < i} \in SUBSET StatementsOf(rRun)
          /\ Running \in SUBSET StatementsOf(rRun)
      BY <2>3 DEF R!InState, Running
    <3> QED BY <2>2, <3>1, StatementsFinite
  <2>5. p + q < 2
    BY <1>7, <2>1
  <2> HIDE DEF p, q
  <2>6. q < 2
    BY <2>4, <2>5
  <2> QED BY <2>6 DEF q
<1>9. rView[i].result = None
  BY <1>5, <1>7 DEF Holds
<1>10. CASE R!Kind(i) = "unresolved"
  <2> DEFINE v == [rView[i] EXCEPT !.state = "done", !.asked = rView[i].page]
  <2>1. rView' = [rView EXCEPT ![i] = v] /\ rRequests' = rRequests
    BY <1>1, <1>10
  <2>2. v \in Panels /\ v.state = "done" /\ v.result = None
    BY <1>5, <1>9 DEF Panels
  <2> HIDE DEF v
  <2>3. Holds(rRun, i, v)
    BY <1>5, <1>10, <2>2 DEF Holds
  <2> QED BY <1>2, <1>3, <1>5, <2>1, <2>2, <2>3, PanelStep
<1>11. CASE R!Kind(i) # "unresolved"
  <2> DEFINE v == [rView[i] EXCEPT !.state = "running", !.asked = rView[i].page]
  <2>1. /\ rView' = [rView EXCEPT ![i] = v]
        /\ rRequests' = rRequests \cup {Ask(rRun, i, rView[i].page)}
    BY <1>1, <1>5, <1>11
  <2>2. /\ v \in Panels /\ v.state = "running" /\ v.result = None
        /\ v.page = rView[i].page /\ v.asked = v.page
    BY <1>5, <1>9 DEF Panels
  <2> HIDE DEF v
  <2>3. Holds(rRun, i, v)
    BY <2>2 DEF Holds
  <2>4. /\ Ask(rRun, i, v.page) \in rRequests'
        /\ rRequests' \subseteq rRequests \cup {Ask(rRun, i, v.page)}
        /\ rRequests \ rRequests' = {}
    BY <2>1, <2>2
  <2> QED BY <1>2, <1>3, <1>5, <1>8, <2>1, <2>2, <2>3, <2>4, PanelStep
<1> QED BY <1>10, <1>11

\* The answer that is awaited is what the panel then shows; any other is ignored.
LEMMA AnswerStep ==
  ASSUME RunInv, R!Answer
  PROVE  RunInv'
<1>1. PICK r \in rRequests, failed \in BOOLEAN, full \in BOOLEAN :
          /\ rRequests' = rRequests \ {r}
          /\ IF R!Awaited(r)
             THEN rView' = [rView EXCEPT
                    ![r.at].state = "done",
                    ![r.at].result = [failed |-> failed, of |-> r],
                    ![r.at].next = IF full /\ R!Kind(r.at) = "documents"
                                   THEN "checking" ELSE "no"]
             ELSE ~failed /\ ~full /\ UNCHANGED rView
  BY ZenonT(30) DEF R!Answer
<1>2. /\ rText' = rText /\ rPicker' = rPicker /\ rSession' = rSession /\ rRuns' = rRuns
      /\ rRun' = rRun
  BY DEF R!Answer
<1>3. r \in Asks
  BY DEF RunInv, RunTypes
<1>4. CASE R!Awaited(r)
  <2>1. /\ R!Current /\ rRun # None /\ r.run = rRun.id
        /\ rView[r.at].state = "running" /\ rView[r.at].asked = r.page
    BY <1>4 DEF R!Awaited, R!Current
  <2> DEFINE i == r.at
             next == IF full /\ R!Kind(i) = "documents" THEN "checking" ELSE "no"
             v == [rView[i] EXCEPT !.state = "done",
                     !.result = [failed |-> failed, of |-> r], !.next = next]
  <2>2. i \in StatementsOf(rRun) /\ r = Ask(rRun, i, r.page)
    BY <2>1 DEF RunInv, OfTheRun
  <2>3. /\ rView[i] \in Panels /\ Holds(rRun, i, rView[i])
    BY <2>1, <2>2 DEF RunInv, RunTypes, PanelsHold
  <2>4. rView' = [rView EXCEPT ![i] = v]
    BY <1>1, <1>4
  <2>5. rView[i].page = r.page
    BY <2>1, <2>3 DEF Holds
  <2>6. /\ [failed |-> failed, of |-> r] \in Answers /\ [failed |-> failed, of |-> r].of = r
    BY <1>3 DEF Answers
  <2>7. [failed |-> failed, of |-> r] # None
    BY <2>6, ReadsAssumption DEF Answers, Asks
  <2>8. next \in {"no", "checking"}
    OBVIOUS
  <2> HIDE DEF next
  <2>9. /\ v \in Panels /\ v.state = "done" /\ v.page = rView[i].page
        /\ v.result = [failed |-> failed, of |-> r]
    BY <2>3, <2>6, <2>8 DEF Panels
  <2> HIDE DEF v
  <2>10. Holds(rRun, i, v)
    BY <2>2, <2>5, <2>6, <2>7, <2>9 DEF Holds
  <2>11. \A x \in rRequests \ rRequests' : x.at = i
    BY <1>1
  <2>12. rRequests' \subseteq rRequests
    BY <1>1
  <2> HIDE DEF i
  <2> QED BY <1>2, <2>1, <2>2, <2>4, <2>9, <2>10, <2>11, <2>12, PanelStep
<1>5. CASE ~R!Awaited(r)
  <2>1. rView' = rView
    BY <1>1, <1>5
  <2>2. Running' = Running
    BY <1>2, <2>1 DEF Running
  <2>3. RunTypes'
    BY <1>1, <1>2, <2>1 DEF RunInv, RunTypes
  <2>4. OfTheRun' /\ PanelsHold'
    BY <1>1, <1>2, <2>1 DEF RunInv, OfTheRun, PanelsHold
  <2>5. AskedFor'
    <3> SUFFICES ASSUME R!Current, NEW i \in Running
                 PROVE  Ask(rRun, i, rView[i].page) \in rRequests'
      BY <1>2, <2>1, <2>2 DEF AskedFor, R!Current
    <3>1. Ask(rRun, i, rView[i].page) \in rRequests
      BY DEF RunInv, AskedFor
    <3>2. rView[i].asked = rView[i].page /\ rView[i].state = "running"
      BY DEF RunInv, PanelsHold, Holds, Running, R!Current
    <3>3. Ask(rRun, i, rView[i].page) # r
      <4> SUFFICES ASSUME r = Ask(rRun, i, rView[i].page) PROVE R!Awaited(r)
        BY <1>5
      <4>1. r.run = rRun.id /\ r.at = i /\ r.page = rView[i].page
        BY DEF Ask
      <4> QED BY <3>2, <4>1 DEF R!Awaited
    <3> QED BY <1>1, <3>1, <3>3
  <2>6. TwoAtOnce'
    BY <1>2, <2>2 DEF RunInv, TwoAtOnce
  <2> QED BY <2>3, <2>4, <2>5, <2>6 DEF RunInv
<1> QED BY <1>4, <1>5

LEMMA NextPageStep ==
  ASSUME RunInv, R!NextPageChecked
  PROVE  RunInv'
<1>1. PICK i \in DOMAIN rView, next \in {"yes", "no"} :
        rView[i].next = "checking" /\ rView' = [rView EXCEPT ![i].next = next]
  BY DEF R!NextPageChecked
<1>2. /\ rText' = rText /\ rPicker' = rPicker /\ rSession' = rSession /\ rRuns' = rRuns
      /\ rRun' = rRun /\ rRequests' = rRequests /\ R!Current /\ rRun # None
  BY DEF R!NextPageChecked, R!Current
<1>3. /\ i \in StatementsOf(rRun) /\ rView[i] \in Panels /\ Holds(rRun, i, rView[i])
      /\ rView \in [StatementsOf(rRun) -> Panels] /\ rRun \in RunRecords
  BY <1>2, OfPanel DEF RunInv, RunTypes
<1> DEFINE v == [rView[i] EXCEPT !.next = next]
<1>4. rView' = [rView EXCEPT ![i] = v]
  BY <1>1
<1>5. /\ v \in Panels /\ v.state = rView[i].state /\ v.page = rView[i].page
      /\ v.asked = rView[i].asked /\ v.result = rView[i].result
  BY <1>3 DEF Panels
<1> HIDE DEF v
<1>6. /\ rView' \in [StatementsOf(rRun) -> Panels]
      /\ \A j \in StatementsOf(rRun) : /\ rView'[j].state = rView[j].state
                                       /\ rView'[j].page = rView[j].page
                                       /\ rView'[j].asked = rView[j].asked
                                       /\ rView'[j].result = rView[j].result
  BY <1>3, <1>4, <1>5
<1>7. Running' = Running
  BY <1>2, <1>6 DEF Running
<1>8. RunTypes' /\ OfTheRun'
  BY <1>2, <1>6 DEF RunInv, RunTypes, OfTheRun
<1>9. PanelsHold'
  BY <1>2, <1>6 DEF RunInv, PanelsHold, Holds
<1>10. AskedFor' /\ TwoAtOnce'
  <2>1. \A j \in Running : rView'[j].page = rView[j].page
    BY <1>6 DEF Running
  <2> QED BY <1>2, <1>7, <2>1 DEF RunInv, AskedFor, TwoAtOnce, R!Current
<1> QED BY <1>8, <1>9, <1>10 DEF RunInv

LEMMA NextRun ==
  ASSUME RunInv, R!Next
  PROVE  RunInv'
BY UserSteps, BrowseStep, ExecuteStep, AnswerStep, NextPageStep DEF R!Next

LEMMA RunStutters == RunInv /\ UNCHANGED runVars => RunInv'
<1> SUFFICES ASSUME RunInv, UNCHANGED runVars PROVE RunInv'
  OBVIOUS
<1>1. /\ rText' = rText /\ rPicker' = rPicker /\ rSession' = rSession /\ rRuns' = rRuns
      /\ rRun' = rRun /\ rRequests' = rRequests /\ rView' = rView
  BY DEF runVars
<1>2. rText' \in Texts /\ rPicker' \in Contracts /\ rSession' \in Nat /\ rSession' >= rSession
  BY <1>1 DEF RunInv, RunTypes
<1>3. R!Current' => R!Current
  BY <1>1 DEF R!Current
<1> QED BY <1>1, <1>2, <1>3, RunLeftBehind

\* While a statement runs or waits its screen says so; once it is done it shows what was
\* asked for.
LEMMA RunShowsItsContext == RunInv => R!ResultsOfContext
<1> SUFFICES ASSUME RunInv, R!Current, NEW i \in DOMAIN rView
             PROVE  IF rView[i].result = None
                    THEN R!Kind(i) # "unresolved" => R!Screen(i) = "loading"
                    ELSE /\ R!Screen(i) # "loading"
                         /\ rView[i].result.of =
                              [run |-> rRun.id, at |-> i, text |-> rText, contract |-> rPicker,
                               session |-> rSession, page |-> rView[i].page]
  BY DEF R!ResultsOfContext
<1>1. /\ rRun # None /\ rRun.text = rText /\ rRun.contract = rPicker
      /\ rRun.session = rSession
  BY DEF R!Current
<1>2. /\ Holds(rRun, i, rView[i]) /\ rView[i].state \in {"queued", "running", "done"}
      /\ R!Kind(i) = Statements[rRun.text][i]
  BY <1>1, OfPanel
<1>3. ASSUME rView[i].result = None, R!Kind(i) # "unresolved"
      PROVE  R!Screen(i) = "loading"
  <2>1. rView[i].state \in {"queued", "running"}
    BY <1>2, <1>3 DEF Holds
  <2>2. rView[i].state = "running" => i \in R!Active
    BY DEF R!Active, R!InState
  <2> QED BY <2>1, <2>2 DEF R!Screen
<1>4. ASSUME rView[i].result # None
      PROVE  /\ R!Screen(i) # "loading"
             /\ rView[i].result.of =
                  [run |-> rRun.id, at |-> i, text |-> rText, contract |-> rPicker,
                   session |-> rSession, page |-> rView[i].page]
  <2>1. rView[i].state = "done" /\ rView[i].result.of = Ask(rRun, i, rView[i].page)
    BY <1>2, <1>4 DEF Holds
  <2>2. i \notin R!Active
    BY <2>1 DEF R!Active, R!InState
  <2>3. R!Screen(i) # "loading"
    BY <1>4, <2>1, <2>2 DEF R!Screen
  <2> QED BY <1>1, <2>1, <2>3 DEF Ask
<1> QED BY <1>3, <1>4

\* The active statements are those that run and the first of the queue, two in all unless
\* the queue has no more.
LEMMA RunTakesTurns == RunInv => R!StatementsTakeTurns
<1> SUFFICES ASSUME RunInv, R!Current
             PROVE  /\ R!Cardinality(R!Active) <= 2
                    /\ \A i \in R!InState("running") : R!Request(i) \in rRequests
                    /\ R!InState("queued") \ R!Active # {} => R!Cardinality(R!Active) = 2
  BY DEF R!StatementsTakeTurns
<1>1. rRun # None /\ rRun \in RunRecords /\ DOMAIN rView = StatementsOf(rRun)
  BY DEF R!Current, RunInv, RunTypes
<1> DEFINE Q == R!InState("queued")
           U == R!InState("running")
           c == Cardinality(U)
           F == Firsts(Q, 2 - c)
<1>2. U = Running
  BY <1>1 DEF R!InState, Running
<1>3. /\ Q \in SUBSET Nat /\ IsFiniteSet(Q) /\ IsFiniteSet(U) /\ c \in Nat /\ c <= 2
  <2>1. Q \in SUBSET StatementsOf(rRun) /\ U \in SUBSET StatementsOf(rRun)
    BY <1>1 DEF R!InState
  <2>2. Cardinality(Running) <= 2
    BY <1>1 DEF RunInv, TwoAtOnce
  <2> QED BY <1>1, <1>2, <2>1, <2>2, StatementsFinite
<1>4. Q \cap U = {}
  BY DEF R!InState
<1>5. 2 - c \in Nat
  BY <1>3
<1>6. F = {i \in Q : Cardinality({j \in Q : j < i}) + c < 2}
  <2>1. \A i \in Q : Cardinality({j \in Q : j < i}) \in Nat
    <3> SUFFICES ASSUME NEW i \in Q PROVE Cardinality({j \in Q : j < i}) \in Nat
      OBVIOUS
    <3> HIDE DEF Q
    <3>1. IsFiniteSet({j \in Q : j < i})
      BY <1>3, FS_Subset
    <3> QED BY <3>1, FS_CardinalityType
  <2> HIDE DEF Q, c
  <2>2. \A k \in Nat : k < 2 - c <=> k + c < 2
    BY <1>3
  <2> QED BY <2>1, <2>2 DEF Firsts
<1>7. R!Active = U \cup F
  BY <1>6, SameCardinality DEF R!Active
<1> HIDE DEF Q, U, c
<1>8. /\ F \subseteq Q /\ IsFiniteSet(F) /\ Cardinality(F) \in Nat
      /\ Cardinality(F) < 2 - c => F = Q
      /\ Cardinality(F) <= 2 - c
  BY <1>3, <1>5, FirstsFill, FirstsAreFew
<1> HIDE DEF F
<1>9. Cardinality(U \cup F) = c + Cardinality(F)
  <2>1. U \cap F = {}
    BY <1>4, <1>8
  <2>2. /\ Cardinality(U \cap F) = 0
        /\ Cardinality(U \cup F) = Cardinality(U) + Cardinality(F) - Cardinality(U \cap F)
    BY <1>3, <1>8, <2>1, FS_Union, FS_EmptySet
  <2> QED BY <1>3, <1>8, <2>2 DEF c
<1>10. Cardinality(U \cup F) <= 2
  BY <1>3, <1>8, <1>9
<1>11. Q \ (U \cup F) # {} => Cardinality(U \cup F) = 2
  <2> SUFFICES ASSUME Q \ (U \cup F) # {} PROVE Cardinality(U \cup F) = 2
    OBVIOUS
  <2>1. ~(Cardinality(F) < 2 - c)
    BY <1>8
  <2> QED BY <1>3, <1>8, <1>9, <2>1
<1>12. ASSUME NEW i \in U
       PROVE  R!Request(i) \in rRequests
  BY <1>2, <1>12 DEF RunInv, AskedFor, R!Request, Ask
<1> QED BY <1>7, <1>10, <1>11, <1>12, SameCardinality DEF Q, U

-----------------------------------------------------------------------------
(* QueryProofStore: the bytes of a set of entries.                           *)

\* Among finite sets, one has no other inside it.
LEMMA Smallest ==
  ASSUME NEW Family, Family # {}, \A s \in Family : IsFiniteSet(s)
  PROVE  \E m \in Family : \A s \in Family : s \subseteq m => s = m
<1> DEFINE T == {Cardinality(s) : s \in Family}
<1>1. T \in SUBSET Nat /\ T # {}
  BY FS_CardinalityType
<1>2. PICK c \in T : \A d \in T : c <= d
  BY <1>1, Least
<1>3. PICK m \in Family : c = Cardinality(m)
  OBVIOUS
<1>4. ASSUME NEW s \in Family, s \subseteq m, s # m
      PROVE  FALSE
  <2>1. Cardinality(s) < Cardinality(m)
    <3>1. IsFiniteSet(m) /\ s \in SUBSET m
      BY <1>4
    <3>2. /\ Cardinality(s) <= Cardinality(m)
          /\ Cardinality(m) = Cardinality(s) => m = s
      BY <3>1, FS_Subset
    <3>3. Cardinality(s) \in Nat /\ Cardinality(m) \in Nat
      BY <1>1
    <3> QED BY <1>4, <3>2, <3>3
  <2>2. Cardinality(m) <= Cardinality(s)
    BY <1>2, <1>3
  <2>3. Cardinality(s) \in Nat /\ Cardinality(m) \in Nat
    BY <1>1
  <2> QED BY <2>1, <2>2, <2>3
<1> QED BY <1>4

Some(s) == CHOOSE x \in s : TRUE

\* What the fold adds up: g[s] is the sum over s, for each subset s of S.
Sums(f, g, S) ==
  g = [s \in SUBSET S |-> IF s = {} THEN 0 ELSE f[Some(s)].bytes + g[s \ {Some(s)}]]

LEMMA SumsAgree ==
  ASSUME NEW f, NEW S, NEW T, NEW g, NEW h, Sums(f, g, S), Sums(f, h, T),
         NEW U \in SUBSET (S \cap T), IsFiniteSet(U)
  PROVE  g[U] = h[U]
<1> DEFINE Family == {s \in SUBSET U : g[s] # h[s]}
<1>1. SUFFICES ASSUME Family # {} PROVE FALSE
  OBVIOUS
<1>2. \A s \in Family : IsFiniteSet(s)
  BY FS_Subset
<1>3. PICK m \in Family : \A s \in Family : s \subseteq m => s = m
  <2> HIDE DEF Family
  <2> QED BY <1>1, <1>2, Smallest
<1>4. /\ g[m] = (IF m = {} THEN 0 ELSE f[Some(m)].bytes + g[m \ {Some(m)}])
      /\ h[m] = (IF m = {} THEN 0 ELSE f[Some(m)].bytes + h[m \ {Some(m)}])
  <2>1. m \in SUBSET S /\ m \in SUBSET T
    OBVIOUS
  <2> HIDE DEF Family
  <2> QED BY <2>1 DEF Sums
<1>5. m # {} => Some(m) \in m
  BY DEF Some
<1>6. m # {} => m \ {Some(m)} \notin Family
  BY <1>3, <1>5
<1> QED BY <1>4, <1>6

LEMMA SumsExist ==
  ASSUME NEW f, NEW S, IsFiniteSet(S)
  PROVE  \E g : Sums(f, g, S)
<1> DEFINE Family == {s \in SUBSET S : ~\E g : Sums(f, g, s)}
           Total(t) == (CHOOSE g : Sums(f, g, t))[t]
<1>1. SUFFICES ASSUME Family # {} PROVE FALSE
  OBVIOUS
<1>2. \A s \in Family : IsFiniteSet(s)
  BY FS_Subset
<1>3. PICK m \in Family : \A s \in Family : s \subseteq m => s = m
  <2> HIDE DEF Family
  <2> QED BY <1>1, <1>2, Smallest
<1>4. m \subseteq S /\ ~\E g : Sums(f, g, m)
  OBVIOUS
<1>5. \A t : t \subseteq m /\ t # m => Sums(f, CHOOSE g : Sums(f, g, t), t) /\ IsFiniteSet(t)
  BY <1>2, <1>3, FS_Subset
<1> HIDE DEF Family
<1>6. ASSUME NEW t, t \subseteq m, t # m
      PROVE  Total(t) = (IF t = {} THEN 0 ELSE f[Some(t)].bytes + Total(t \ {Some(t)}))
  <2> DEFINE g == CHOOSE h : Sums(f, h, t)
             u == t \ {Some(t)}
             k == CHOOSE h : Sums(f, h, u)
  <2>1. Sums(f, g, t)
    BY <1>5, <1>6
  <2>2. g[t] = (IF t = {} THEN 0 ELSE f[Some(t)].bytes + g[u])
    <3> HIDE DEF g
    <3> QED BY <2>1 DEF Sums
  <2>3. t # {} => g[u] = k[u]
    <3>1. u \subseteq m /\ u # m /\ u \in SUBSET (t \cap u)
      BY <1>6
    <3>2. Sums(f, k, u) /\ IsFiniteSet(u)
      BY <1>5, <3>1
    <3> HIDE DEF g, u, k
    <3> QED BY <2>1, <3>1, <3>2, SumsAgree
  <2> QED BY <2>2, <2>3
<1> DEFINE Sum == [s \in SUBSET m |-> IF s = {} THEN 0 ELSE f[Some(s)].bytes + Total(s \ {Some(s)})]
<1>7. \A s \in SUBSET m : s # {} => Sum[s \ {Some(s)}] = Total(s \ {Some(s)})
  <2> SUFFICES ASSUME NEW s \in SUBSET m, s # {} PROVE Sum[s \ {Some(s)}] = Total(s \ {Some(s)})
    OBVIOUS
  <2>1. s \ {Some(s)} \in SUBSET m /\ s \ {Some(s)} # m
    BY DEF Some
  <2> DEFINE t == s \ {Some(s)}
  <2>2. Total(t) = (IF t = {} THEN 0 ELSE f[Some(t)].bytes + Total(t \ {Some(t)}))
    <3> HIDE DEF t, Total
    <3> QED BY <1>6, <2>1 DEF t
  <2> HIDE DEF Total, t
  <2>3. Sum[t] = (IF t = {} THEN 0 ELSE f[Some(t)].bytes + Total(t \ {Some(t)}))
    BY <2>1 DEF t
  <2> QED BY <2>2, <2>3 DEF t
<1>8. Sum = [s \in SUBSET m |-> IF s = {} THEN 0 ELSE f[Some(s)].bytes + Sum[s \ {Some(s)}]]
  <2> DEFINE term(s) == IF s = {} THEN 0 ELSE f[Some(s)].bytes + Total(s \ {Some(s)})
             again(s) == IF s = {} THEN 0 ELSE f[Some(s)].bytes + Sum[s \ {Some(s)}]
  <2>1. \A s \in SUBSET m : term(s) = again(s)
    <3> HIDE DEF Sum, Total
    <3> QED BY <1>7
  <2>2. Sum = [s \in SUBSET m |-> term(s)]
    OBVIOUS
  <2> HIDE DEF term, again, Sum
  <2>3. Sum = [s \in SUBSET m |-> again(s)]
    BY <2>1, <2>2
  <2> QED BY <2>3 DEF again
<1>9. Sums(f, Sum, m)
  <2> HIDE DEF Sum
  <2> QED BY <1>8 DEF Sums
<1> QED BY <1>4, <1>9

LEMMA BytesUnfold ==
  ASSUME NEW f, NEW S, IsFiniteSet(S)
  PROVE  Store!BytesOf(f, S) =
           (IF S = {} THEN 0 ELSE f[Some(S)].bytes + Store!BytesOf(f, S \ {Some(S)}))
<1> DEFINE Total(t) == CHOOSE g : Sums(f, g, t)
<1>1. \A t : Store!BytesOf(f, t) = Total(t)[t]
  BY DEF Store!BytesOf, Store!MapThenSumSet, Store!MapThenFoldSet, Sums, Some
<1>2. \A t : t \subseteq S => IsFiniteSet(t) /\ Sums(f, Total(t), t)
  BY SumsExist, FS_Subset
<1> HIDE DEF Total
<1>3. Total(S)[S] = (IF S = {} THEN 0 ELSE f[Some(S)].bytes + Total(S)[S \ {Some(S)}])
  <2>1. Sums(f, Total(S), S)
    BY <1>2
  <2> QED BY <2>1 DEF Sums
<1>4. Total(S)[S \ {Some(S)}] = Total(S \ {Some(S)})[S \ {Some(S)}]
  <2> DEFINE t == S \ {Some(S)}
  <2>1. t \in SUBSET (S \cap t)
    OBVIOUS
  <2>2. IsFiniteSet(t) /\ Sums(f, Total(t), t) /\ Sums(f, Total(S), S)
    BY <1>2
  <2> HIDE DEF t
  <2>3. Total(S)[t] = Total(t)[t]
    BY <2>1, <2>2, SumsAgree
  <2> QED BY <2>3 DEF t
<1> QED BY <1>1, <1>3, <1>4

\* The entries of the keys have sizes.
Sized(f, Held) == IsFiniteSet(Held) /\ \A k \in Held : f[k].bytes \in Nat

LEMMA BytesNat ==
  ASSUME NEW f, NEW Held, Sized(f, Held)
  PROVE  Store!BytesOf(f, Held) \in Nat
<1> DEFINE Family == {s \in SUBSET Held : Store!BytesOf(f, s) \notin Nat}
<1>1. SUFFICES ASSUME Family # {} PROVE FALSE
  OBVIOUS
<1>2. \A s \in Family : IsFiniteSet(s)
  BY FS_Subset DEF Sized
<1>3. PICK m \in Family : \A s \in Family : s \subseteq m => s = m
  <2> HIDE DEF Family
  <2> QED BY <1>1, <1>2, Smallest
<1>4. Store!BytesOf(f, m) =
        (IF m = {} THEN 0 ELSE f[Some(m)].bytes + Store!BytesOf(f, m \ {Some(m)}))
  BY <1>2, BytesUnfold
<1>5. m # {} => Some(m) \in m
  BY DEF Some
<1>6. m # {} => m \ {Some(m)} \notin Family
  BY <1>3, <1>5
<1>7. m # {} => f[Some(m)].bytes \in Nat /\ Store!BytesOf(f, m \ {Some(m)}) \in Nat
  BY <1>5, <1>6 DEF Sized
<1> QED BY <1>4, <1>7

\* The order in which entries are added up does not matter.
LEMMA BytesTake ==
  ASSUME NEW f, NEW Held, Sized(f, Held), NEW k \in Held
  PROVE  Store!BytesOf(f, Held) = f[k].bytes + Store!BytesOf(f, Held \ {k})
<1> DEFINE B(s) == Store!BytesOf(f, s)
           Family == {s \in SUBSET Held : \E x \in s : B(s) # f[x].bytes + B(s \ {x})}
<1>1. SUFFICES ASSUME Family # {} PROVE FALSE
  OBVIOUS
<1>2. \A s \in Family : IsFiniteSet(s)
  BY FS_Subset DEF Sized
<1>3. PICK m \in Family : \A s \in Family : s \subseteq m => s = m
  <2> HIDE DEF Family
  <2> QED BY <1>1, <1>2, Smallest
<1>4. PICK x \in m : B(m) # f[x].bytes + B(m \ {x})
  OBVIOUS
<1> DEFINE c == Some(m)
<1>5. c \in m /\ m \subseteq Held /\ B(m) = f[c].bytes + B(m \ {c})
  BY <1>2, BytesUnfold DEF Some
<1>6. c # x
  BY <1>4, <1>5
<1>7. m \ {c} \notin Family /\ m \ {x} \notin Family
  BY <1>3, <1>5
<1>8. B(m \ {c}) = f[x].bytes + B((m \ {c}) \ {x})
  BY <1>5, <1>6, <1>7
<1>9. B(m \ {x}) = f[c].bytes + B((m \ {x}) \ {c})
  BY <1>5, <1>6, <1>7
<1>10. B((m \ {c}) \ {x}) = B((m \ {x}) \ {c})
  <2>1. (m \ {c}) \ {x} = (m \ {x}) \ {c}
    OBVIOUS
  <2> QED BY <2>1
<1>11. f[c].bytes \in Nat /\ f[x].bytes \in Nat /\ B((m \ {c}) \ {x}) \in Nat
  <2>1. Sized(f, (m \ {c}) \ {x})
    BY <1>2, <1>5, FS_Subset DEF Sized
  <2> QED BY <1>5, <2>1, BytesNat DEF Sized
<1> HIDE DEF B, Family, c
<1> QED BY <1>4, <1>5, <1>8, <1>9, <1>10, <1>11

\* Only the sizes of the entries matter.
LEMMA BytesSame ==
  ASSUME NEW f, NEW h, NEW Held, IsFiniteSet(Held), \A k \in Held : f[k].bytes = h[k].bytes
  PROVE  Store!BytesOf(f, Held) = Store!BytesOf(h, Held)
<1> DEFINE Family == {s \in SUBSET Held : Store!BytesOf(f, s) # Store!BytesOf(h, s)}
<1>1. SUFFICES ASSUME Family # {} PROVE FALSE
  OBVIOUS
<1>2. \A s \in Family : IsFiniteSet(s)
  BY FS_Subset
<1>3. PICK m \in Family : \A s \in Family : s \subseteq m => s = m
  <2> HIDE DEF Family
  <2> QED BY <1>1, <1>2, Smallest
<1>4. /\ Store!BytesOf(f, m) =
           (IF m = {} THEN 0 ELSE f[Some(m)].bytes + Store!BytesOf(f, m \ {Some(m)}))
      /\ Store!BytesOf(h, m) =
           (IF m = {} THEN 0 ELSE h[Some(m)].bytes + Store!BytesOf(h, m \ {Some(m)}))
  BY <1>2, BytesUnfold
<1>5. m # {} => Some(m) \in m
  BY DEF Some
<1>6. m # {} => m \ {Some(m)} \notin Family
  BY <1>3, <1>5
<1>7. m # {} => f[Some(m)].bytes = h[Some(m)].bytes
  BY <1>5
<1> QED BY <1>4, <1>6, <1>7

\* What is evicted and what is kept add up to what there was.
LEMMA BytesSplit ==
  ASSUME NEW f, NEW Held, Sized(f, Held), NEW S \in SUBSET Held
  PROVE  Store!BytesOf(f, Held) = Store!BytesOf(f, S) + Store!BytesOf(f, Held \ S)
<1> DEFINE B(s) == Store!BytesOf(f, s)
           Family == {s \in SUBSET Held : B(Held) # B(Held \ s) + B(s)}
<1>1. SUFFICES ASSUME Family # {} PROVE FALSE
  <2>1. Held \ S \in SUBSET Held /\ Held \ (Held \ S) = S
    OBVIOUS
  <2> QED BY <2>1
<1>2. \A s \in Family : IsFiniteSet(s)
  BY FS_Subset DEF Sized
<1>3. PICK m \in Family : \A s \in Family : s \subseteq m => s = m
  <2> HIDE DEF Family
  <2> QED BY <1>1, <1>2, Smallest
<1>4. m \subseteq Held /\ B(Held) # B(Held \ m) + B(m)
  OBVIOUS
<1>5. \A s : s \subseteq Held => Sized(f, s) /\ B(s) \in Nat
  BY BytesNat, FS_Subset DEF Sized
<1>6. m # {}
  <2>1. B({}) = 0
    BY BytesUnfold, FS_EmptySet
  <2>2. Held \ {} = Held /\ B(Held) \in Nat
    BY <1>5
  <2> HIDE DEF B, Family
  <2> QED BY <1>4, <2>1, <2>2
<1>7. PICK x \in m : TRUE
  BY <1>6
<1>8. B(m) = f[x].bytes + B(m \ {x})
  BY <1>4, <1>5, BytesTake
<1>9. B(Held \ (m \ {x})) = f[x].bytes + B(Held \ m)
  <2>1. x \in Held \ (m \ {x}) /\ (Held \ (m \ {x})) \ {x} = Held \ m
    BY <1>4
  <2>2. Sized(f, Held \ (m \ {x}))
    BY <1>5
  <2>3. B(Held \ (m \ {x})) = f[x].bytes + B((Held \ (m \ {x})) \ {x})
    BY <2>1, <2>2, BytesTake
  <2> QED BY <2>1, <2>3
<1>10. B(Held) = B(Held \ (m \ {x})) + B(m \ {x})
  BY <1>3, <1>4
<1>11. f[x].bytes \in Nat /\ B(m \ {x}) \in Nat /\ B(Held \ m) \in Nat
  BY <1>4, <1>5 DEF Sized
<1> HIDE DEF B, Family
<1> QED BY <1>4, <1>8, <1>9, <1>10, <1>11

-----------------------------------------------------------------------------
(* QueryProofStore: the recordings of the query inspector.                   *)

USE DEF Store!Clear, Store!Notify, Store!Changed

\* The keys of a Map, in their order: no key twice.
KeyList(s) == s \in Seq(CacheKeys) /\ \A i, j \in 1..Len(s) : s[i] = s[j] => i = j
KeysIn(s) == {s[i] : i \in 1..Len(s)}

LEMMA KeysOfList ==
  ASSUME NEW s \in Seq(CacheKeys)
  PROVE  /\ Store!ToSet(s) = KeysIn(s)
         /\ KeysIn(s) \subseteq CacheKeys /\ IsFiniteSet(KeysIn(s))
         /\ KeyList(s) <=> Store!IsInjective(s)
<1>1. DOMAIN s = 1..Len(s)
  OBVIOUS
<1>2. Store!ToSet(s) = KeysIn(s) /\ (KeyList(s) <=> Store!IsInjective(s))
  BY <1>1 DEF Store!ToSet, Store!IsInjective, KeyList, KeysIn
<1>3. KeysIn(s) \subseteq CacheKeys
  BY DEF KeysIn
<1> QED BY <1>2, <1>3, FS_Subset, StoreAssumption DEF StoreAssumption

\* delete(key) of a Map.
LEMMA KeyDeleted ==
  ASSUME NEW s, KeyList(s), NEW k
  PROVE  /\ KeyList(Store!RemoveFirst(s, k))
         /\ KeysIn(Store!RemoveFirst(s, k)) = KeysIn(s) \ {k}
         /\ Len(Store!RemoveFirst(s, k)) <= Len(s)
<1> DEFINE r == Store!RemoveFirst(s, k)
<1>1. s \in Seq(CacheKeys) /\ Len(s) \in Nat
  BY DEF KeyList
<1>2. CASE \A i \in 1..Len(s) : s[i] # k
  <2>1. r = s
    BY <1>2, Zenon DEF Store!RemoveFirst
  <2>2. KeysIn(s) = KeysIn(s) \ {k}
    BY <1>2 DEF KeysIn
  <2> QED BY <1>1, <2>1, <2>2
<1>3. CASE \E i \in 1..Len(s) : s[i] = k
  <2> DEFINE I == {i \in 1..Len(s) : s[i] = k}
             at == CHOOSE i \in I : \A j \in I : i <= j
  <2>1. PICK p \in 1..Len(s) : s[p] = k
    BY <1>3
  <2>2. I = {p}
    BY <2>1 DEF KeyList
  <2>3. at = p
    <3>1. p \in Nat
      BY <2>1
    <3> HIDE DEF I
    <3> QED BY <2>2, <3>1
  <2>4. r = Store!RemoveAt(s, at)
    BY <1>3 DEF Store!RemoveFirst, Store!SelectInSeq, Store!Min
  <2> HIDE DEF I, at
  <2>5. r = SubSeq(s, 1, p - 1) \o SubSeq(s, p + 1, Len(s))
    BY <2>3, <2>4 DEF Store!RemoveAt
  <2> DEFINE x == SubSeq(s, 1, p - 1)
             y == SubSeq(s, p + 1, Len(s))
  <2>6. /\ x \in Seq(CacheKeys) /\ Len(x) = p - 1
        /\ \A i \in 1..(p - 1) : x[i] = s[i]
    <3>1. \A i \in 1..(p - 1) : s[i] \in CacheKeys
      BY <1>1, <2>1
    <3>2. 1 \in Int /\ p - 1 \in Int /\ (p - 1) - 1 + 1 = p - 1 /\ p \in Nat /\ p >= 1
      BY <2>1
    <3>3. /\ x \in Seq(CacheKeys) /\ Len(x) = (IF 1 <= p - 1 THEN (p - 1) - 1 + 1 ELSE 0)
          /\ \A i \in 1..((p - 1) - 1 + 1) : x[i] = s[1 + i - 1]
      BY <3>1, <3>2, SubSeqProperties
    <3> HIDE DEF x
    <3> QED BY <3>2, <3>3
  <2>7. /\ y \in Seq(CacheKeys) /\ Len(y) = Len(s) - p
        /\ \A i \in 1..(Len(s) - p) : y[i] = s[p + i]
    <3>1. \A i \in (p + 1)..Len(s) : s[i] \in CacheKeys
      BY <1>1, <2>1
    <3>2. /\ p + 1 \in Int /\ Len(s) \in Int /\ Len(s) - (p + 1) + 1 = Len(s) - p
          /\ p \in Nat /\ p >= 1 /\ p <= Len(s)
      BY <1>1, <2>1
    <3>3. /\ y \in Seq(CacheKeys)
          /\ Len(y) = (IF p + 1 <= Len(s) THEN Len(s) - (p + 1) + 1 ELSE 0)
          /\ \A i \in 1..(Len(s) - (p + 1) + 1) : y[i] = s[(p + 1) + i - 1]
      BY <3>1, <3>2, SubSeqProperties
    <3> HIDE DEF y
    <3>4. \A i \in 1..(Len(s) - p) : (p + 1) + i - 1 = p + i
      BY <3>2
    <3>5. Len(y) = Len(s) - p
      <4>1. Len(y) = (IF p + 1 <= Len(s) THEN Len(s) - (p + 1) + 1 ELSE 0)
        BY <3>3
      <4>2. CASE p + 1 <= Len(s)
        BY <3>2, <4>1, <4>2
      <4>3. CASE ~(p + 1 <= Len(s))
        <5>1. Len(s) \in Nat /\ p \in Nat /\ p <= Len(s)
          BY <1>1, <3>2
        <5>2. Len(s) = p
          BY <4>3, <5>1
        <5>3. Len(s) - p = 0
          BY <5>1, <5>2
        <5> QED BY <4>1, <4>3, <5>3
      <4> QED BY <4>2, <4>3
    <3>6. ASSUME NEW i \in 1..(Len(s) - p) PROVE y[i] = s[p + i]
      <4>1. y[i] = s[(p + 1) + i - 1]
        BY <3>2, <3>3
      <4> QED BY <3>4, <4>1
    <3> QED BY <3>3, <3>5, <3>6
  <2> HIDE DEF x, y
  <2>8. r = x \o y
    BY <2>5 DEF x, y
  <2> HIDE DEF r
  <2>9. p \in Nat /\ 1 <= p /\ p <= Len(s)
    BY <1>1, <2>1
  <2>10. /\ r \in Seq(CacheKeys) /\ Len(r) = Len(s) - 1
         /\ \A i \in 1..(Len(s) - 1) : r[i] = s[IF i < p THEN i ELSE i + 1]
    <3>1. /\ r \in Seq(CacheKeys) /\ Len(r) = Len(x) + Len(y)
          /\ \A i \in 1..(Len(x) + Len(y)) :
               r[i] = (IF i <= Len(x) THEN x[i] ELSE y[i - Len(x)])
      BY <2>6, <2>7, <2>8, ConcatProperties
    <3>2. Len(r) = Len(s) - 1 /\ Len(x) + Len(y) = Len(s) - 1
      BY <1>1, <2>6, <2>7, <2>9, <3>1
    <3>3. ASSUME NEW i \in 1..(Len(s) - 1)
          PROVE  r[i] = s[IF i < p THEN i ELSE i + 1]
      <4>1. CASE i < p
        BY <1>1, <2>6, <2>9, <3>1, <3>2, <4>1
      <4>2. CASE ~(i < p)
        <5>1. i - (p - 1) \in 1..(Len(s) - p) /\ p + (i - (p - 1)) = i + 1 /\ ~(i <= p - 1)
          BY <1>1, <2>9, <4>2
        <5>2. r[i] = y[i - (p - 1)]
          BY <2>6, <3>1, <3>2, <5>1
        <5> QED BY <2>7, <4>2, <5>1, <5>2
      <4> QED BY <4>1, <4>2
    <3> QED BY <3>1, <3>2, <3>3
  <2>11. KeyList(r)
    <3>1. ASSUME NEW i \in 1..Len(r), NEW j \in 1..Len(r), r[i] = r[j]
          PROVE  i = j
      <4> DEFINE u == IF i < p THEN i ELSE i + 1
                 v == IF j < p THEN j ELSE j + 1
      <4>1. u \in 1..Len(s) /\ v \in 1..Len(s) /\ (u = v => i = j)
        BY <1>1, <2>9, <2>10
      <4>2. s[u] = s[v]
        BY <2>10, <3>1
      <4> HIDE DEF u, v
      <4> QED BY <4>1, <4>2 DEF KeyList
    <3> QED BY <2>10, <3>1 DEF KeyList
  <2>12. KeysIn(r) = KeysIn(s) \ {k}
    <3>1. ASSUME NEW i \in 1..Len(r)
          PROVE  r[i] \in KeysIn(s) \ {k}
      <4> DEFINE u == IF i < p THEN i ELSE i + 1
      <4>1. u \in 1..Len(s) /\ u # p /\ r[i] = s[u]
        BY <1>1, <2>9, <2>10
      <4> HIDE DEF u
      <4> QED BY <2>1, <4>1 DEF KeyList, KeysIn
    <3>2. ASSUME NEW u \in 1..Len(s), s[u] # k
          PROVE  s[u] \in KeysIn(r)
      <4> DEFINE i == IF u < p THEN u ELSE u - 1
      <4>1. u # p
        BY <2>1, <3>2
      <4>2. i \in 1..(Len(s) - 1) /\ (IF i < p THEN i ELSE i + 1) = u
        BY <1>1, <2>9, <4>1
      <4> HIDE DEF i
      <4>3. r[i] = s[u] /\ i \in 1..Len(r)
        BY <2>10, <4>2
      <4> QED BY <4>3 DEF KeysIn
    <3> QED BY <3>1, <3>2 DEF KeysIn
  <2>13. Len(r) <= Len(s)
    BY <1>1, <2>10
  <2> QED BY <2>11, <2>12, <2>13 DEF r
<1> QED BY <1>2, <1>3

\* delete(key), then set(key, entry).
LEMMA KeyMovedLast ==
  ASSUME NEW s, KeyList(s), NEW k \in CacheKeys
  PROVE  LET t == Append(Store!RemoveFirst(s, k), k) IN
         KeyList(t) /\ KeysIn(t) = KeysIn(s) \cup {k} /\ Len(t) >= 1 /\ t[Len(t)] = k
<1> DEFINE r == Store!RemoveFirst(s, k)
           t == Append(r, k)
<1>1. KeyList(r) /\ KeysIn(r) = KeysIn(s) \ {k}
  BY KeyDeleted
<1> HIDE DEF r
<1>2. r \in Seq(CacheKeys) /\ Len(r) \in Nat
  BY <1>1 DEF KeyList
<1>3. /\ t \in Seq(CacheKeys) /\ Len(t) = Len(r) + 1
      /\ \A i \in 1..Len(r) : t[i] = r[i]
      /\ t[Len(r) + 1] = k
  BY <1>2, AppendProperties
<1> HIDE DEF t
<1>4. \A i \in 1..Len(r) : r[i] # k
  BY <1>1 DEF KeysIn
<1>5. ASSUME NEW i \in 1..Len(t), NEW j \in 1..Len(t), t[i] = t[j]
      PROVE  i = j
  <2>1. CASE i \in 1..Len(r) /\ j \in 1..Len(r)
    BY <1>1, <1>3, <1>5, <2>1 DEF KeyList
  <2>2. CASE i = Len(r) + 1 \/ j = Len(r) + 1
    BY <1>2, <1>3, <1>4, <1>5, <2>2
  <2> QED BY <1>2, <1>3, <2>1, <2>2
<1>6. KeyList(t)
  BY <1>3, <1>5 DEF KeyList
<1>7. KeysIn(t) = KeysIn(r) \cup {k}
  <2>1. ASSUME NEW i \in 1..Len(t) PROVE t[i] \in KeysIn(r) \cup {k}
    BY <1>2, <1>3 DEF KeysIn
  <2>2. ASSUME NEW i \in 1..Len(r) PROVE r[i] \in KeysIn(t)
    BY <1>2, <1>3 DEF KeysIn
  <2>3. k \in KeysIn(t)
    BY <1>2, <1>3 DEF KeysIn
  <2> QED BY <2>1, <2>2, <2>3 DEF KeysIn
<1> QED BY <1>1, <1>2, <1>3, <1>6, <1>7 DEF t, r

\* Evicting the oldest entries leaves some last ones, and they fit: the newest fits alone.
LEMMA RestFits ==
  ASSUME NEW f, NEW t, KeyList(t), Len(t) >= 1, \A k \in KeysIn(t) : f[k].bytes \in Nat,
         MaxEntries >= 1, f[t[Len(t)]].bytes <= MaxBytes
  PROVE  LET u == Store!Evict(f, t) IN
         /\ KeyList(u) /\ KeysIn(u) \subseteq KeysIn(t)
         /\ Len(u) <= MaxEntries /\ Store!BytesOf(f, KeysIn(u)) <= MaxBytes
<1> DEFINE rest(i) == SubSeq(t, i, Len(t))
           I == {i \in 1..Len(t) : Store!Fits(f, rest(i))}
           first == CHOOSE i \in I : \A j \in I : i <= j
           u == Store!Evict(f, t)
<1>1. t \in Seq(CacheKeys) /\ Len(t) \in Nat
  BY DEF KeyList
<1>2. MaxEntries \in Nat /\ MaxBytes \in Nat
  BY StoreAssumption DEF StoreAssumption
<1>3. ASSUME NEW i \in 1..Len(t)
      PROVE  /\ KeyList(rest(i)) /\ KeysIn(rest(i)) \subseteq KeysIn(t)
             /\ Len(rest(i)) = Len(t) - i + 1
             /\ \A j \in 1..(Len(t) - i + 1) : rest(i)[j] = t[i + j - 1]
  <2> DEFINE r == rest(i)
  <2>1. i \in Int /\ Len(t) \in Int /\ i <= Len(t) /\ 1 <= i
    BY <1>1
  <2>2. \A j \in i..Len(t) : t[j] \in CacheKeys
    BY <1>1
  <2>3. /\ r \in Seq(CacheKeys) /\ Len(r) = (IF i <= Len(t) THEN Len(t) - i + 1 ELSE 0)
        /\ \A j \in 1..(Len(t) - i + 1) : r[j] = t[i + j - 1]
    BY <2>1, <2>2, SubSeqProperties
  <2> HIDE DEF r
  <2>4. Len(r) = Len(t) - i + 1
    BY <2>1, <2>3
  <2>5. \A j \in 1..(Len(t) - i + 1) : i + j - 1 \in 1..Len(t)
    BY <2>1
  <2>6. ASSUME NEW j \in 1..Len(r), NEW l \in 1..Len(r), r[j] = r[l]
        PROVE  j = l
    <3>1. t[i + j - 1] = t[i + l - 1]
      BY <2>3, <2>4, <2>6
    <3>2. i + j - 1 = i + l - 1
      BY <2>4, <2>5, <3>1 DEF KeyList
    <3> QED BY <2>1, <2>4, <3>2
  <2>7. KeyList(r)
    BY <2>3, <2>6 DEF KeyList
  <2>8. KeysIn(r) \subseteq KeysIn(t)
    BY <2>3, <2>4, <2>5 DEF KeysIn
  <2> QED BY <2>3, <2>4, <2>7, <2>8 DEF r
<1>4. Len(t) \in I
  <2> DEFINE r == rest(Len(t))
             k == t[Len(t)]
  <2>1. Len(t) \in 1..Len(t)
    BY <1>1
  <2>2. /\ KeyList(r) /\ Len(r) = Len(t) - Len(t) + 1
        /\ \A j \in 1..(Len(t) - Len(t) + 1) : r[j] = t[Len(t) + j - 1]
    BY <1>3, <2>1
  <2> HIDE DEF r
  <2>3. Len(r) = 1 /\ r[1] = k
    BY <1>1, <2>2
  <2> HIDE DEF k
  <2>4. r \in Seq(CacheKeys) /\ Store!ToSet(r) = {k}
    <3>1. r \in Seq(CacheKeys)
      BY <2>2 DEF KeyList
    <3>2. \A i \in 1..1 : i = 1
      OBVIOUS
    <3>3. KeysIn(r) = {k}
      BY <2>3, <3>2 DEF KeysIn
    <3> QED BY <3>1, <3>3, KeysOfList
  <2>5. Sized(f, {k})
    <3>1. k \in KeysIn(t)
      BY <2>1 DEF k, KeysIn
    <3> QED BY <3>1, FS_Singleton DEF Sized
  <2>6. Store!BytesOf(f, {k}) = f[k].bytes
    <3>1. Store!BytesOf(f, {k}) = f[k].bytes + Store!BytesOf(f, {k} \ {k})
      BY <2>5, BytesTake
    <3>2. Store!BytesOf(f, {}) = 0
      BY BytesUnfold, FS_EmptySet
    <3>3. Store!BytesOf(f, {k} \ {k}) = Store!BytesOf(f, {}) /\ f[k].bytes \in Nat
      <4>1. {k} \ {k} = {}
        OBVIOUS
      <4>2. f[k].bytes \in Nat
        BY <2>5 DEF Sized
      <4> QED BY <4>1, <4>2
    <3> QED BY <3>1, <3>2, <3>3
  <2>7. Store!Fits(f, r)
    BY <1>2, <2>3, <2>4, <2>6 DEF Store!Fits, k
  <2> QED BY <2>1, <2>7 DEF r
<1>5. first \in I
  <2>1. I \subseteq Nat /\ I # {}
    <3>1. I # {}
      BY <1>4
    <3> QED BY <1>1, <3>1
  <2>2. \E m \in I : \A j \in I : m <= j
    <3> HIDE DEF I
    <3> QED BY <2>1, Least
  <2> HIDE DEF I
  <2> QED BY <2>2
<1>6. u = rest(first)
  BY Zenon DEF Store!Evict, Store!Min
<1> HIDE DEF first
<1>7. first \in 1..Len(t) /\ Store!Fits(f, rest(first))
  BY <1>5
<1> HIDE DEF I
<1>8. KeyList(rest(first)) /\ KeysIn(rest(first)) \subseteq KeysIn(t)
  BY <1>3, <1>7
<1> HIDE DEF rest, u
<1>9. Store!ToSet(u) = KeysIn(u)
  BY <1>6, <1>8, KeysOfList DEF KeyList
<1>10. Len(u) <= MaxEntries /\ Store!BytesOf(f, KeysIn(u)) <= MaxBytes
  BY <1>6, <1>7, <1>9 DEF Store!Fits
<1> QED BY <1>6, <1>8, <1>10 DEF u

\* The Map, its order and the count of its bytes agree, and are within the limits.
Holding ==
  /\ KeyList(sOrder)
  /\ \A k \in CacheKeys : sStored[k] # None <=> k \in KeysIn(sOrder)
  /\ sRetained = Store!BytesOf(sStored, KeysIn(sOrder))
  /\ Len(sOrder) <= MaxEntries /\ sRetained <= MaxBytes

\* A query that may still record started after the last clear().
QueriesOfTime ==
  \A q \in Executions : sQuery[q] # None =>
    /\ sQuery[q].generation <= sGeneration
    /\ sQuery[q].generation = sGeneration => ~sQuery[q].stale

\* What is held was recorded after the last clear(), while enabled.
HeldOfTime == \A k \in KeysIn(sOrder) : sEnabled /\ ~sStored[k].stale

StoreInv ==
  Store!TypeOK /\ Holding /\ Store!PagesUpToDate /\ QueriesOfTime /\ HeldOfTime

LEMMA EntriesSized ==
  /\ None \notin Store!Entries
  /\ \A e \in Store!Entries :
       /\ e.bytes \in Nat /\ e.stale \in BOOLEAN
       /\ e = [bytes |-> e.bytes, omitted |-> e.omitted, stale |-> e.stale]
<1>1. MaxSize \in Nat
  BY StoreAssumption DEF StoreAssumption
<1>2. \A m \in 1..MaxSize : m \in Nat
  BY <1>1
<1>3. Store!Entries \subseteq [bytes : Nat, omitted : BOOLEAN, stale : BOOLEAN]
  BY <1>2 DEF Store!Entries, Store!Sizes
<1>4. None \notin [bytes : Nat, omitted : BOOLEAN, stale : BOOLEAN]
  BY StoreAssumption DEF StoreAssumption
<1> QED BY <1>3, <1>4

LEMMA LimitsAreNumbers ==
  /\ MaxSize \in Nat /\ MaxEntries \in Nat /\ MaxBytes \in Nat
  /\ MaxGeneration \in Nat /\ MaxDropped \in Nat
BY StoreAssumption DEF StoreAssumption

LEMMA EmptyHeld ==
  /\ KeyList(<<>>) /\ KeysIn(<<>>) = {} /\ Len(<<>>) = 0
  /\ \A f : Store!BytesOf(f, {}) = 0
<1>1. <<>> \in Seq(CacheKeys) /\ Len(<<>>) = 0 /\ \A i \in 1..0 : FALSE
  OBVIOUS
<1>2. KeyList(<<>>) /\ KeysIn(<<>>) = {}
  BY <1>1 DEF KeyList, KeysIn
<1>3. \A f : Store!BytesOf(f, {}) = 0
  BY BytesUnfold, FS_EmptySet
<1> QED BY <1>1, <1>2, <1>3

LEMMA InitStore == Store!Init => StoreInv
<1> SUFFICES ASSUME Store!Init PROVE StoreInv
  OBVIOUS
<1> USE DEF Store!Init
<1>1. Store!TypeOK
  <2>1. 0 \in 0..MaxGeneration /\ 0 \in 0..MaxDropped /\ 0 \in Nat
    BY LimitsAreNumbers
  <2>2. <<>> \in Seq(CacheKeys)
    OBVIOUS
  <2> QED BY <2>1, <2>2 DEF Store!TypeOK
<1>2. Holding
  <2>1. sOrder = <<>> /\ sRetained = 0 /\ \A k \in CacheKeys : sStored[k] = None
    OBVIOUS
  <2>2. KeyList(sOrder) /\ KeysIn(sOrder) = {} /\ Len(sOrder) = 0
    BY <2>1, EmptyHeld
  <2>3. Store!BytesOf(sStored, KeysIn(sOrder)) = 0
    BY <2>2, EmptyHeld
  <2> QED BY <2>1, <2>2, <2>3, LimitsAreNumbers DEF Holding
<1> QED BY <1>1, <1>2, EmptyHeld DEF StoreInv, Store!PagesUpToDate, QueriesOfTime, HeldOfTime

\* The stored entries of the held keys have sizes.
LEMMA HeldSized ==
  ASSUME StoreInv
  PROVE  /\ sStored \in [CacheKeys -> Store!Entries \cup {None}]
         /\ KeyList(sOrder) /\ sOrder \in Seq(CacheKeys) /\ Store!ToSet(sOrder) = KeysIn(sOrder)
         /\ KeysIn(sOrder) \subseteq CacheKeys /\ IsFiniteSet(KeysIn(sOrder))
         /\ \A k \in KeysIn(sOrder) : sStored[k] \in Store!Entries
         /\ Sized(sStored, KeysIn(sOrder))
<1>1. /\ sStored \in [CacheKeys -> Store!Entries \cup {None}]
      /\ sOrder \in Seq(CacheKeys) /\ KeyList(sOrder)
      /\ \A k \in CacheKeys : sStored[k] # None <=> k \in KeysIn(sOrder)
  BY DEF StoreInv, Store!TypeOK, Holding
<1>2. /\ Store!ToSet(sOrder) = KeysIn(sOrder)
      /\ KeysIn(sOrder) \subseteq CacheKeys /\ IsFiniteSet(KeysIn(sOrder))
  BY <1>1, KeysOfList
<1>3. \A k \in KeysIn(sOrder) : sStored[k] \in Store!Entries
  BY <1>1, <1>2
<1> QED BY <1>1, <1>2, <1>3, EntriesSized DEF Sized

\* clear().
LEMMA StoreCleared ==
  ASSUME StoreInv, Store!Clear, sGeneration < MaxGeneration,
         sEnabled' \in BOOLEAN, sDrawerOpen' \in BOOLEAN
  PROVE  StoreInv'
<1>1. /\ sOrder' = <<>> /\ sStored' = [k \in CacheKeys |-> None]
      /\ sGeneration' = sGeneration + 1 /\ sRetained' = 0 /\ sDropped' = 0
      /\ sSeen' = [k \in CacheKeys |-> IF k \in Store!ToSet(sOrder) THEN sStored'[k] ELSE sSeen[k]]
      /\ sQuery' = [q \in Executions |-> IF sQuery[q] = None THEN None
                                         ELSE [sQuery[q] EXCEPT !.stale = TRUE]]
  OBVIOUS
<1>2. /\ sGeneration \in 0..MaxGeneration /\ sSeen = sStored
      /\ sQuery \in [Executions -> [key : CacheKeys, generation : 0..MaxGeneration,
                                    stale : BOOLEAN] \cup {None}]
  BY DEF StoreInv, Store!TypeOK, Store!PagesUpToDate
<1>3. sSeen' = [k \in CacheKeys |-> None]
  <2>1. \A k \in CacheKeys : k \notin Store!ToSet(sOrder) => sSeen[k] = None
    BY <1>2, HeldSized DEF StoreInv, Holding
  <2> QED BY <1>1, <2>1
<1>4. ASSUME NEW q \in Executions, sQuery[q] # None
      PROVE  /\ sQuery'[q] \in [key : CacheKeys, generation : 0..MaxGeneration, stale : BOOLEAN]
             /\ sQuery'[q].generation = sQuery[q].generation /\ sQuery'[q].stale
  <2>1. sQuery[q] \in [key : CacheKeys, generation : 0..MaxGeneration, stale : BOOLEAN]
    BY <1>2, <1>4
  <2>2. sQuery'[q] = [sQuery[q] EXCEPT !.stale = TRUE]
    BY <1>1, <1>4
  <2> QED BY <2>1, <2>2
<1>5. Store!TypeOK'
  <2>1. sGeneration' \in 0..MaxGeneration /\ 0 \in 0..MaxDropped /\ 0 \in Nat
    BY <1>1, <1>2, LimitsAreNumbers
  <2>2. sQuery' \in [Executions -> [key : CacheKeys, generation : 0..MaxGeneration,
                                    stale : BOOLEAN] \cup {None}]
    BY <1>1, <1>4
  <2>3. <<>> \in Seq(CacheKeys)
    OBVIOUS
  <2> QED BY <1>1, <1>3, <2>1, <2>2, <2>3 DEF Store!TypeOK
<1>6. Holding'
  <2>1. sOrder' = <<>> /\ sRetained' = 0 /\ \A k \in CacheKeys : sStored'[k] = None
    BY <1>1
  <2>2. KeyList(sOrder') /\ KeysIn(sOrder') = {} /\ Len(sOrder') = 0
    BY <2>1, EmptyHeld
  <2>3. Store!BytesOf(sStored', KeysIn(sOrder')) = 0
    BY <2>2, EmptyHeld
  <2> QED BY <2>1, <2>2, <2>3, LimitsAreNumbers DEF Holding
<1>7. QueriesOfTime'
  <2>1. ASSUME NEW q \in Executions, sQuery'[q] # None
        PROVE  sQuery'[q].generation < sGeneration'
    <3>1. sQuery[q] # None
      BY <1>1, <2>1
    <3>2. /\ sQuery[q].generation <= sGeneration /\ sQuery[q].generation \in 0..MaxGeneration
      BY <1>2, <3>1 DEF StoreInv, QueriesOfTime
    <3> QED BY <1>1, <1>2, <1>4, <3>1, <3>2, LimitsAreNumbers
  <2>2. \A q \in Executions : sQuery'[q] # None => sQuery'[q].generation \in Nat
    BY <1>5, LimitsAreNumbers DEF Store!TypeOK
  <2>3. sGeneration' \in Nat
    BY <1>1, <1>2, LimitsAreNumbers
  <2> QED BY <2>1, <2>2, <2>3 DEF QueriesOfTime
<1>8. HeldOfTime' /\ Store!PagesUpToDate'
  BY <1>1, <1>3, EmptyHeld DEF HeldOfTime, Store!PagesUpToDate
<1> QED BY <1>5, <1>6, <1>7, <1>8 DEF StoreInv

\* record(): the entry is kept, and the oldest ones make room for it.
LEMMA KeepHolds ==
  ASSUME StoreInv, NEW key \in CacheKeys, NEW entry \in Store!Entries,
         entry.bytes <= MaxBytes, MaxEntries >= 1, ~entry.stale, sEnabled, sEnabled' = sEnabled,
         Store!Keep(key, entry)
  PROVE  /\ sStored' \in [CacheKeys -> Store!Entries \cup {None}]
         /\ sDropped' = sDropped /\ sRetained' \in Nat
         /\ Holding' /\ HeldOfTime' /\ Store!PagesUpToDate'
<1> DEFINE entries == [sStored EXCEPT ![key] = entry]
           t == Append(Store!RemoveFirst(sOrder, key), key)
           u == Store!Evict(entries, t)
           O == KeysIn(sOrder)
           N == O \cup {key}
           S == KeysIn(u)
           B(f, keys) == Store!BytesOf(f, keys)
<1>1. /\ sOrder' = u
      /\ sStored' = [k \in CacheKeys |-> IF k \in Store!ToSet(u) THEN entries[k] ELSE None]
      /\ sRetained' = Store!NewTotal(key, entry.bytes,
                                     B(entries, Store!ToSet(t) \ Store!ToSet(u)))
      /\ sDropped' = sDropped
      /\ sSeen' = [k \in CacheKeys |->
                     IF k \in {key} \cup (Store!ToSet(sOrder) \ Store!ToSet(u))
                     THEN sStored'[k] ELSE sSeen[k]]
  BY Zenon DEF Store!Keep, Store!Newest
<1>2. /\ sStored \in [CacheKeys -> Store!Entries \cup {None}]
      /\ KeyList(sOrder) /\ Store!ToSet(sOrder) = O /\ O \subseteq CacheKeys
      /\ IsFiniteSet(O) /\ Sized(sStored, O)
  BY HeldSized
<1>3. KeyList(t) /\ KeysIn(t) = N /\ Len(t) >= 1 /\ t[Len(t)] = key
  <2> HIDE DEF O
  <2>1. LET s == Append(Store!RemoveFirst(sOrder, key), key) IN
        KeyList(s) /\ KeysIn(s) = O \cup {key} /\ Len(s) >= 1 /\ s[Len(s)] = key
    BY <1>2, KeyMovedLast DEF O
  <2> QED BY <2>1
<1> HIDE DEF t
<1>4. /\ entries \in [CacheKeys -> Store!Entries \cup {None}]
      /\ entries[key] = entry /\ \A k \in CacheKeys : k # key => entries[k] = sStored[k]
  BY <1>2
<1>5. Sized(entries, N)
  <2>1. IsFiniteSet(N)
    BY <1>2, FS_AddElement
  <2>2. \A k \in N : entries[k].bytes \in Nat
    <3> HIDE DEF entries, O
    <3>1. entries[key].bytes \in Nat
      BY <1>4, EntriesSized
    <3>2. \A k \in O : k # key => entries[k].bytes \in Nat
      BY <1>2, <1>4 DEF Sized
    <3> QED BY <3>1, <3>2
  <2> HIDE DEF entries, N
  <2> QED BY <2>1, <2>2 DEF Sized
<1> HIDE DEF entries
<1>6. /\ KeyList(u) /\ S \subseteq N /\ Len(u) <= MaxEntries /\ B(entries, S) <= MaxBytes
  <2>1. /\ \A k \in KeysIn(t) : entries[k].bytes \in Nat
        /\ entries[t[Len(t)]].bytes <= MaxBytes
    BY <1>3, <1>4, <1>5 DEF Sized
  <2>2. LET v == Store!Evict(entries, t) IN
        /\ KeyList(v) /\ KeysIn(v) \subseteq KeysIn(t)
        /\ Len(v) <= MaxEntries /\ Store!BytesOf(entries, KeysIn(v)) <= MaxBytes
    BY <1>3, <2>1, RestFits
  <2> QED BY <1>3, <2>2
<1> HIDE DEF u
<1>7. Store!ToSet(t) = N /\ Store!ToSet(u) = S
  BY <1>3, <1>6, KeysOfList DEF KeyList
<1> HIDE DEF S, O
<1>8. /\ \A k \in CacheKeys : sStored'[k] = (IF k \in S THEN entries[k] ELSE None)
      /\ sStored' \in [CacheKeys -> Store!Entries \cup {None}]
  BY <1>1, <1>4, <1>7
<1>9. sRetained' = B(sStored', S)
  <2>1. B(entries, N) = B(entries, S) + B(entries, N \ S)
    <3> HIDE DEF N
    <3> QED BY <1>5, <1>6, BytesSplit
  <2>2. B(entries, N) = entry.bytes + B(entries, N \ {key})
    <3>1. key \in N
      OBVIOUS
    <3> HIDE DEF N
    <3> QED BY <1>4, <1>5, <3>1, BytesTake
  <2>3. B(entries, N \ {key}) = B(sStored, O \ {key})
    <3>1. N \ {key} = O \ {key} /\ IsFiniteSet(O \ {key})
      BY <1>2, FS_Subset
    <3>2. \A k \in O \ {key} : entries[k].bytes = sStored[k].bytes
      BY <1>2, <1>4
    <3>3. B(entries, O \ {key}) = B(sStored, O \ {key})
      BY <3>1, <3>2, BytesSame
    <3> HIDE DEF N, B
    <3> QED BY <3>1, <3>3
  <2>4. sRetained = B(sStored, O) /\ (sStored[key] # None <=> key \in O)
    BY DEF StoreInv, Holding, O
  <2>5. B(sStored, O) =
          (IF sStored[key] = None THEN 0 ELSE sStored[key].bytes) + B(sStored, O \ {key})
    <3>1. CASE key \in O
      <4>1. B(sStored, O) = sStored[key].bytes + B(sStored, O \ {key})
        BY <1>2, <3>1, BytesTake
      <4> QED BY <2>4, <3>1, <4>1
    <3>2. CASE key \notin O
      <4>1. O \ {key} = O
        BY <3>2
      <4>2. B(sStored, O) \in Nat
        BY <1>2, BytesNat
      <4>3. B(sStored, O \ {key}) = B(sStored, O)
        BY <4>1
      <4> HIDE DEF B
      <4> QED BY <2>4, <3>2, <4>2, <4>3
    <3> QED BY <3>1, <3>2
  <2>6. sRetained' = (sRetained - (IF sStored[key] = None THEN 0 ELSE sStored[key].bytes))
                       + entry.bytes - B(entries, N \ S)
    BY <1>1, <1>7 DEF Store!NewTotal
  <2>7. B(entries, S) = B(sStored', S)
    <3>1. IsFiniteSet(S)
      BY <1>5, <1>6, FS_Subset DEF Sized
    <3>2. S \subseteq CacheKeys
      BY <1>2, <1>6
    <3>3. \A k \in S : entries[k].bytes = sStored'[k].bytes
      BY <1>8, <3>2
    <3> QED BY <3>1, <3>3, BytesSame
  <2>8. /\ B(entries, S) \in Nat /\ B(entries, N \ S) \in Nat /\ entry.bytes \in Nat
        /\ B(sStored, O \ {key}) \in Nat
        /\ (IF sStored[key] = None THEN 0 ELSE sStored[key].bytes) \in Nat
    <3>1. Sized(entries, S) /\ Sized(entries, N \ S) /\ Sized(sStored, O \ {key})
      BY <1>2, <1>5, <1>6, FS_Subset DEF Sized
    <3>2. (IF sStored[key] = None THEN 0 ELSE sStored[key].bytes) \in Nat
      BY <1>2, <2>4 DEF Sized
    <3> QED BY <3>1, <3>2, BytesNat, EntriesSized
  <2> DEFINE old == IF sStored[key] = None THEN 0 ELSE sStored[key].bytes
             now == entry.bytes
             keep == B(entries, S)
             gone == B(entries, N \ S)
             other == B(sStored, O \ {key})
  <2>9. /\ keep + gone = now + other /\ sRetained = old + other
        /\ sRetained' = (sRetained - old) + now - gone
    BY <2>1, <2>2, <2>3, <2>4, <2>5, <2>6
  <2>10. keep \in Nat /\ gone \in Nat /\ now \in Nat /\ other \in Nat /\ old \in Nat
    BY <2>8
  <2> HIDE DEF keep, gone, now, other, old
  <2>11. sRetained' = keep
    BY <2>9, <2>10
  <2> QED BY <2>7, <2>11 DEF keep
<1>10. B(entries, S) = B(sStored', S) /\ B(entries, S) \in Nat
  <2>1. IsFiniteSet(S) /\ Sized(entries, S)
    BY <1>5, <1>6, FS_Subset DEF Sized
  <2>2. \A k \in S : entries[k].bytes = sStored'[k].bytes
    BY <1>2, <1>6, <1>8
  <2> QED BY <2>1, <2>2, BytesSame, BytesNat
<1>11. \A k \in CacheKeys : sStored'[k] # None <=> k \in S
  <2>1. \A k \in S : entries[k] # None
    <3>1. \A k \in O : sStored[k] # None /\ k \in CacheKeys
      BY <1>2 DEF StoreInv, Holding, O
    <3>2. entries[key] # None
      BY <1>4, EntriesSized
    <3> QED BY <1>4, <1>6, <3>1, <3>2
  <2> QED BY <1>8, <2>1
<1>12. Holding'
  <2>1. KeysIn(sOrder') = S /\ KeyList(sOrder') /\ Len(sOrder') <= MaxEntries
    BY <1>1, <1>6 DEF S
  <2>2. sRetained' = B(sStored', S) /\ sRetained' <= MaxBytes
    BY <1>6, <1>9, <1>10
  <2> QED BY <1>11, <2>1, <2>2 DEF Holding
<1>13. HeldOfTime'
  <2>1. \A k \in O : ~sStored[k].stale /\ k \in CacheKeys
    BY <1>2 DEF StoreInv, HeldOfTime, O
  <2>2. \A k \in S : ~entries[k].stale /\ k \in CacheKeys
    BY <1>4, <1>6, <2>1
  <2>3. KeysIn(sOrder') = S
    BY <1>1 DEF S
  <2> QED BY <1>8, <2>2, <2>3 DEF HeldOfTime
<1>14. Store!PagesUpToDate'
  <2>1. sSeen = sStored
    BY DEF StoreInv, Store!PagesUpToDate
  <2>2. \A k \in CacheKeys : k \notin {key} \cup (O \ S) => sStored'[k] = sStored[k]
    <3>1. \A k \in CacheKeys : sStored[k] # None <=> k \in O
      BY DEF StoreInv, Holding, O
    <3> QED BY <1>4, <1>6, <1>8, <3>1
  <2>3. sSeen' = [k \in CacheKeys |-> sStored'[k]]
    BY <1>1, <1>2, <1>7, <2>1, <2>2
  <2> QED BY <1>8, <2>3 DEF Store!PagesUpToDate
<1> QED BY <1>1, <1>8, <1>9, <1>10, <1>12, <1>13, <1>14

\* record(): the entry is too large even without its result and proof.
LEMMA DropHolds ==
  ASSUME StoreInv, NEW key \in CacheKeys, sEnabled' = sEnabled, Store!Drop(key)
  PROVE  /\ sStored' \in [CacheKeys -> Store!Entries \cup {None}]
         /\ sDropped' \in 0..MaxDropped /\ sRetained' \in Nat
         /\ Holding' /\ HeldOfTime' /\ Store!PagesUpToDate'
<1> DEFINE O == KeysIn(sOrder)
           B(f, keys) == Store!BytesOf(f, keys)
<1>1. /\ sOrder' = Store!RemoveFirst(sOrder, key)
      /\ sStored' = [sStored EXCEPT ![key] = None]
      /\ sRetained' = sRetained - (IF sStored[key] = None THEN 0 ELSE sStored[key].bytes)
      /\ sDropped < MaxDropped /\ sDropped' = sDropped + 1
      /\ sSeen' = [k \in CacheKeys |-> IF k \in {key} THEN sStored'[k] ELSE sSeen[k]]
  BY Zenon DEF Store!Drop
<1>2. /\ sStored \in [CacheKeys -> Store!Entries \cup {None}]
      /\ KeyList(sOrder) /\ O \subseteq CacheKeys
      /\ IsFiniteSet(O) /\ Sized(sStored, O)
  BY HeldSized
<1>3. /\ KeyList(sOrder') /\ KeysIn(sOrder') = O \ {key} /\ Len(sOrder') <= Len(sOrder)
  <2> HIDE DEF O
  <2> QED BY <1>1, <1>2, KeyDeleted DEF O
<1>4. /\ sStored' \in [CacheKeys -> Store!Entries \cup {None}] /\ sStored'[key] = None
      /\ \A k \in CacheKeys : k # key => sStored'[k] = sStored[k]
  BY <1>1, <1>2
<1>5. /\ sRetained = B(sStored, O) /\ sRetained <= MaxBytes /\ Len(sOrder) <= MaxEntries
      /\ \A k \in CacheKeys : sStored[k] # None <=> k \in O
  BY DEF StoreInv, Holding
<1> HIDE DEF O
<1>6. B(sStored', O \ {key}) = B(sStored, O \ {key}) /\ B(sStored, O \ {key}) \in Nat
  <2>1. IsFiniteSet(O \ {key}) /\ Sized(sStored, O \ {key})
    BY <1>2, FS_Subset DEF Sized
  <2>2. \A k \in O \ {key} : sStored'[k].bytes = sStored[k].bytes
    BY <1>2, <1>4
  <2> QED BY <2>1, <2>2, BytesSame, BytesNat
<1>7. sRetained' = B(sStored, O \ {key}) /\ sRetained' <= MaxBytes
  <2>1. CASE key \in O
    <3>1. B(sStored, O) = sStored[key].bytes + B(sStored, O \ {key})
      BY <1>2, <2>1, BytesTake
    <3>2. sStored[key].bytes \in Nat /\ sStored[key] # None
      BY <1>2, <1>5, <2>1 DEF Sized
    <3>3. sRetained' = sRetained - sStored[key].bytes
      BY <1>1, <3>2
    <3> HIDE DEF B
    <3> QED BY <1>5, <1>6, <3>1, <3>2, <3>3, LimitsAreNumbers
  <2>2. CASE key \notin O
    <3>1. O \ {key} = O
      BY <2>2
    <3>2. B(sStored, O \ {key}) = B(sStored, O)
      BY <3>1
    <3>3. sRetained' = sRetained - 0
      BY <1>1, <1>5, <2>2
    <3> HIDE DEF B
    <3> QED BY <1>5, <1>6, <3>2, <3>3
  <2> QED BY <2>1, <2>2
<1>8. Holding'
  <2>1. Len(sOrder') <= MaxEntries
    <3>1. Len(sOrder') \in Nat /\ Len(sOrder) \in Nat
      BY <1>2, <1>3 DEF KeyList
    <3> QED BY <1>3, <1>5, <3>1, LimitsAreNumbers
  <2>2. \A k \in CacheKeys : sStored'[k] # None <=> k \in O \ {key}
    BY <1>4, <1>5
  <2> QED BY <1>3, <1>6, <1>7, <2>1, <2>2 DEF Holding
<1>9. HeldOfTime'
  <2>1. \A k \in O : sEnabled /\ ~sStored[k].stale /\ k \in CacheKeys
    BY <1>2 DEF StoreInv, HeldOfTime, O
  <2> QED BY <1>3, <1>4, <2>1 DEF HeldOfTime
<1>10. Store!PagesUpToDate'
  <2>1. sSeen = sStored
    BY DEF StoreInv, Store!PagesUpToDate
  <2>2. sSeen' = [k \in CacheKeys |-> sStored'[k]]
    BY <1>1, <1>4, <2>1
  <2> QED BY <1>4, <2>2 DEF Store!PagesUpToDate
<1>11. sDropped' \in 0..MaxDropped
  <2>1. sDropped \in 0..MaxDropped
    BY DEF StoreInv, Store!TypeOK
  <2> QED BY <1>1, <2>1, LimitsAreNumbers
<1> QED BY <1>4, <1>6, <1>7, <1>8, <1>9, <1>10, <1>11

\* A query ends.
LEMMA FinishStep ==
  ASSUME StoreInv, NEW q \in Executions, NEW full \in Store!Sizes, NEW summary \in Store!Sizes,
         Store!Finish(q, full, summary)
  PROVE  StoreInv'
<1> DEFINE Query == [key : CacheKeys, generation : 0..MaxGeneration, stale : BOOLEAN]
           key == sQuery[q].key
           stale == sQuery[q].stale
           bytes == IF full > MaxBytes THEN summary ELSE full
           entry == [bytes |-> bytes, omitted |-> full > MaxBytes, stale |-> stale]
<1>1. /\ sQuery[q] # None /\ sQuery' = [sQuery EXCEPT ![q] = None]
      /\ UNCHANGED <<sGeneration, sEnabled, sDrawerOpen>>
      /\ IF Store!Accepted(q) THEN Store!Record(key, full, summary, stale)
         ELSE UNCHANGED <<sOrder, sStored, sRetained, sDropped, sSeen>>
  BY Zenon DEF Store!Finish
<1>2. sQuery \in [Executions -> Query \cup {None}]
  BY DEF StoreInv, Store!TypeOK
<1>3. /\ sQuery[q] \in Query /\ key \in CacheKeys /\ stale \in BOOLEAN
      /\ sQuery' \in [Executions -> Query \cup {None}]
      /\ \A o \in Executions : sQuery'[o] # None => sQuery'[o] = sQuery[o]
  BY <1>1, <1>2
<1>4. QueriesOfTime'
  BY <1>1, <1>3 DEF StoreInv, QueriesOfTime
<1>5. /\ sStored' \in [CacheKeys -> Store!Entries \cup {None}]
      /\ sDropped' \in 0..MaxDropped /\ sRetained' \in Nat
      /\ Holding' /\ HeldOfTime' /\ Store!PagesUpToDate'
  <2>1. CASE ~Store!Accepted(q)
    <3>1. UNCHANGED <<sOrder, sStored, sRetained, sDropped, sSeen>> /\ sEnabled' = sEnabled
      BY <1>1, <2>1
    <3> QED BY <3>1 DEF StoreInv, Store!TypeOK, Holding, HeldOfTime, Store!PagesUpToDate
  <2>2. CASE Store!Accepted(q)
    <3>1. /\ Store!Record(key, full, summary, stale)
          /\ sEnabled /\ sQuery[q].generation = sGeneration /\ sEnabled' = sEnabled
      BY <1>1, <2>2 DEF Store!Accepted
    <3>2. ~stale
      BY <1>1, <3>1 DEF StoreInv, QueriesOfTime
    <3>3. bytes \in Store!Sizes
      OBVIOUS
    <3> HIDE DEF key, stale
    <3>4. CASE bytes > MaxBytes \/ MaxEntries < 1
      <4>1. Store!Drop(key)
        BY <3>1, <3>4 DEF Store!Record
      <4> QED BY <1>3, <3>1, <4>1, DropHolds
    <3>5. CASE ~(bytes > MaxBytes \/ MaxEntries < 1)
      <4>1. Store!Keep(key, entry)
        BY <3>1, <3>5 DEF Store!Record
      <4>2. entry \in Store!Entries
        BY <1>3, <3>3 DEF Store!Entries
      <4>3. entry.bytes <= MaxBytes /\ MaxEntries >= 1 /\ ~entry.stale
        <5>1. bytes \in Nat
          BY <3>3, LimitsAreNumbers DEF Store!Sizes
        <5> HIDE DEF bytes
        <5> QED BY <3>2, <3>5, <5>1, LimitsAreNumbers
      <4> HIDE DEF entry
      <4>4. /\ sStored' \in [CacheKeys -> Store!Entries \cup {None}]
            /\ sDropped' = sDropped /\ sRetained' \in Nat
            /\ Holding' /\ HeldOfTime' /\ Store!PagesUpToDate'
        BY <1>3, <3>1, <4>1, <4>2, <4>3, KeepHolds
      <4> QED BY <4>4 DEF StoreInv, Store!TypeOK
    <3> QED BY <3>4, <3>5
  <2> QED BY <2>1, <2>2
<1>6. Store!TypeOK'
  <2>1. sSeen' = sStored' /\ sOrder' \in Seq(CacheKeys)
    BY <1>5 DEF Store!PagesUpToDate, Holding, KeyList
  <2> QED BY <1>1, <1>3, <1>5, <2>1 DEF StoreInv, Store!TypeOK
<1> QED BY <1>4, <1>5, <1>6 DEF StoreInv

\* A query starts, or ends without recording.
LEMMA QueryStep ==
  ASSUME StoreInv, NEW q \in Executions,
         (\E key \in CacheKeys : Store!Start(q, key)) \/ Store!Cancel(q)
  PROVE  StoreInv'
<1> DEFINE Query == [key : CacheKeys, generation : 0..MaxGeneration, stale : BOOLEAN]
<1>1. PICK next :
        /\ sQuery' = [sQuery EXCEPT ![q] = next]
        /\ \/ next = None
           \/ \E key \in CacheKeys :
                next = [key |-> key, generation |-> sGeneration, stale |-> FALSE]
        /\ UNCHANGED <<sOrder, sStored, sRetained, sDropped, sGeneration, sEnabled,
                       sDrawerOpen, sSeen>>
  BY DEF Store!Start, Store!Cancel
<1>2. sQuery \in [Executions -> Query \cup {None}] /\ sGeneration \in 0..MaxGeneration
  BY DEF StoreInv, Store!TypeOK
<1>3. next \in Query \cup {None}
      /\ (next # None => next.generation = sGeneration /\ ~next.stale)
  <2>1. CASE next = None
    BY <2>1
  <2>2. CASE \E key \in CacheKeys :
               next = [key |-> key, generation |-> sGeneration, stale |-> FALSE]
    BY <1>2, <2>2
  <2> QED BY <1>1, <2>1, <2>2
<1>4. /\ sQuery' \in [Executions -> Query \cup {None}]
      /\ \A o \in Executions : sQuery'[o] = (IF o = q THEN next ELSE sQuery[o])
  BY <1>1, <1>2, <1>3
<1>5. sGeneration' = sGeneration /\ sGeneration <= sGeneration
  BY <1>1, <1>2, LimitsAreNumbers
<1>6. QueriesOfTime'
  BY <1>3, <1>4, <1>5 DEF StoreInv, QueriesOfTime
<1>7. Store!TypeOK'
  BY <1>1, <1>4 DEF StoreInv, Store!TypeOK
<1>8. Holding' /\ HeldOfTime' /\ Store!PagesUpToDate'
  BY <1>1 DEF StoreInv, Holding, HeldOfTime, Store!PagesUpToDate
<1> QED BY <1>6, <1>7, <1>8 DEF StoreInv

\* A button of the drawer.
LEMMA ButtonStep ==
  ASSUME StoreInv, NEW on \in BOOLEAN,
         Store!ClearAll \/ Store!SetEnabled(on) \/ Store!SetDrawer(on)
  PROVE  StoreInv'
<1>0. sEnabled \in BOOLEAN /\ sDrawerOpen \in BOOLEAN
  BY DEF StoreInv, Store!TypeOK
<1>1. CASE Store!ClearAll
  BY <1>0, <1>1, StoreCleared DEF Store!ClearAll
<1>2. CASE Store!SetEnabled(on) /\ ~on
  <2>1. /\ Store!Clear /\ sGeneration < MaxGeneration
        /\ sEnabled' = on /\ sDrawerOpen' = (on /\ sDrawerOpen)
    BY <1>2, Zenon DEF Store!SetEnabled
  <2>2. sEnabled' \in BOOLEAN /\ sDrawerOpen' \in BOOLEAN
    BY <2>1
  <2> QED BY <2>1, <2>2, StoreCleared
<1>3. CASE (Store!SetEnabled(on) /\ on) \/ Store!SetDrawer(on)
  <2>1. /\ UNCHANGED <<sOrder, sStored, sRetained, sDropped, sGeneration, sSeen, sQuery>>
        /\ sEnabled' \in BOOLEAN /\ (sEnabled => sEnabled') /\ sDrawerOpen' \in BOOLEAN
    BY <1>0, <1>3 DEF Store!SetEnabled, Store!SetDrawer
  <2> QED BY <2>1 DEF StoreInv, Store!TypeOK, Holding, HeldOfTime, Store!PagesUpToDate,
                      QueriesOfTime
<1> QED BY <1>1, <1>2, <1>3

LEMMA NextStore ==
  ASSUME StoreInv, Store!Next
  PROVE  StoreInv'
BY ButtonStep, QueryStep, FinishStep DEF Store!Next

LEMMA StoreStutters == StoreInv /\ UNCHANGED storeVars => StoreInv'
BY DEF storeVars, StoreInv, Store!TypeOK, Holding, HeldOfTime, Store!PagesUpToDate,
       QueriesOfTime

LEMMA EvidenceHolds ==
  ASSUME StoreInv
  PROVE  Store!PagesUpToDate /\ Store!WithinLimits /\ Store!ClearedForGood
<1>1. /\ sOrder \in Seq(CacheKeys) /\ KeyList(sOrder) /\ Store!ToSet(sOrder) = KeysIn(sOrder)
      /\ KeysIn(sOrder) \subseteq CacheKeys
  BY HeldSized
<1>2. Store!IsInjective(sOrder)
  BY <1>1, KeysOfList
<1>3. {k \in CacheKeys : sStored[k] # None} = KeysIn(sOrder)
  BY <1>1 DEF StoreInv, Holding
<1>4. Store!BytesAccurate
  BY <1>1, <1>2, <1>3 DEF StoreInv, Holding, Store!BytesAccurate
<1> QED BY <1>1, <1>4 DEF StoreInv, Holding, HeldOfTime, Store!WithinLimits, Store!ClearedForGood

HIDE DEF Store!Clear, Store!Notify, Store!Changed

-----------------------------------------------------------------------------
(* QueryIndexes: the index checks of the query workspace.                    *)

Ops == {"=", "in", "<", ">", "between"}

\* A statement, edited clause by clause.
IndexInv ==
  /\ xType \in DocumentTypes /\ xVersion \in {13, 14}
  /\ xSelect \in {"documents", "count", "sum", "avg"}
  /\ xWhere \in Seq(StatementFields \X Ops)
  /\ xOrderBy \in Seq(StatementFields) /\ xGroupBy \in Seq(StatementFields)

LEMMA InitIndex == X!Init => IndexInv
<1> SUFFICES ASSUME X!Init PROVE IndexInv
  OBVIOUS
<1>1. /\ <<>> \in Seq(StatementFields \X Ops) /\ <<>> \in Seq(StatementFields)
  OBVIOUS
<1> QED BY <1>1 DEF X!Init, IndexInv

LEMMA NextIndex ==
  ASSUME IndexInv, X!Next
  PROVE  IndexInv'
<1>1. CASE X!AddFilter
  <2>1. PICK filter \in StatementFields \X X!Range(X!Operators) : xWhere' = Append(xWhere, filter)
    BY <1>1 DEF X!AddFilter
  <2>2. X!Range(X!Operators) \subseteq Ops
    BY DEF X!Range, X!Operators, Ops
  <2>3. xWhere' \in Seq(StatementFields \X Ops)
    <3>1. filter \in StatementFields \X Ops
      BY <2>1, <2>2
    <3> QED BY <2>1, <3>1 DEF IndexInv
  <2> QED BY <1>1, <2>3 DEF X!AddFilter, IndexInv
<1>2. CASE X!AddOrder
  BY <1>2 DEF X!AddOrder, IndexInv
<1>3. CASE X!AddGroup
  BY <1>3 DEF X!AddGroup, IndexInv
<1> QED BY <1>1, <1>2, <1>3 DEF X!Next

LEMMA IndexStutters == IndexInv /\ UNCHANGED indexVars => IndexInv'
BY DEF indexVars, IndexInv

\* The properties of an index, each named once.
Columns(fields) ==
  /\ fields \in Seq(Nat) /\ Len(fields) \in Nat /\ Len(fields) >= 1
  /\ \A j, k \in 1..Len(fields) : fields[j] = fields[k] => j = k

LEMMA IndexColumns ==
  ASSUME IndexInv, NEW i \in DOMAIN xType.indices
  PROVE  Columns(xType.indices[i].fields) /\ i \in Nat
<1>1. /\ xType.indices \in Seq([fields : Seq(Nat), points : SUBSET {"count", "sum"},
                                ranges : SUBSET {"count", "sum"}])
      /\ Len(xType.indices[i].fields) >= 1
      /\ \A j, k \in DOMAIN xType.indices[i].fields :
           xType.indices[i].fields[j] = xType.indices[i].fields[k] => j = k
  BY IndexAssumption DEF IndexAssumption, IndexInv
<1>2. DOMAIN xType.indices = 1..Len(xType.indices) /\ Len(xType.indices) \in Nat
  BY <1>1
<1>3. xType.indices[i] \in [fields : Seq(Nat), points : SUBSET {"count", "sum"},
                            ranges : SUBSET {"count", "sum"}]
  <2> DEFINE list == xType.indices
             R0 == [fields : Seq(Nat), points : SUBSET {"count", "sum"},
                    ranges : SUBSET {"count", "sum"}]
  <2>1. list \in Seq(R0) /\ i \in 1..Len(list)
    BY <1>1, <1>2
  <2> HIDE DEF list, R0
  <2>2. list[i] \in R0
    BY <2>1
  <2> QED BY <2>2 DEF list, R0
<1> DEFINE fields == xType.indices[i].fields
<1>4. fields \in Seq(Nat)
  BY <1>3
<1>5. Len(fields) >= 1 /\ \A j, k \in DOMAIN fields : fields[j] = fields[k] => j = k
  BY <1>1
<1>6. i \in Nat
  BY <1>2
<1> HIDE DEF fields
<1>7. DOMAIN fields = 1..Len(fields) /\ Len(fields) \in Nat
  BY <1>4
<1>8. Columns(fields)
  BY <1>4, <1>5, <1>7 DEF Columns
<1> QED BY <1>6, <1>8 DEF fields

LEMMA PrefixCounts ==
  ASSUME NEW fields, Columns(fields), NEW c \in 0..Len(fields)
  PROVE  /\ X!Prefix(fields, c) = {fields[i] : i \in 1..c}
         /\ IsFiniteSet(X!Prefix(fields, c)) /\ Cardinality(X!Prefix(fields, c)) = c
<1> DEFINE P0 == {fields[i] : i \in 1..c}
           place == [i \in 1..c |-> fields[i]]
<1>1. /\ DOMAIN fields = 1..Len(fields) /\ c \in Nat /\ c <= Len(fields)
      /\ 1..c \subseteq 1..Len(fields)
  BY DEF Columns
<1>2. X!Prefix(fields, c) = P0
  <2>1. {j \in DOMAIN fields : j <= c} = 1..c
    BY <1>1
  <2> QED BY <2>1 DEF X!Prefix
<1>3. place \in Bijection(1..c, P0)
  <2>1. place \in [1..c -> P0] /\ DOMAIN place = 1..c
    OBVIOUS
  <2>2. \A j, k \in 1..c : place[j] = place[k] => j = k
    BY <1>1 DEF Columns
  <2>3. \A f \in P0 : \E i \in 1..c : place[i] = f
    OBVIOUS
  <2> HIDE DEF place, P0
  <2> QED BY <2>1, <2>2, <2>3, Zenon DEF Bijection, Injection, Surjection, IsInjective
<1>4. IsFiniteSet(1..c) /\ Cardinality(1..c) = c
  BY <1>1, FS_Interval
<1> HIDE DEF P0, place
<1>5. ExistsBijection(1..c, P0)
  BY <1>3 DEF ExistsBijection
<1>6. IsFiniteSet(P0) /\ Cardinality(P0) = c
  BY <1>4, <1>5, FS_Bijection
<1> QED BY <1>2, <1>6 DEF P0

\* Sets of fields in a prefix that is no longer fill it.
LEMMA PrefixFilled ==
  ASSUME NEW fields, Columns(fields), NEW T, IsFiniteSet(T), T \subseteq X!Range(fields),
         X!Prefix(fields, Cardinality(T)) \subseteq T
  PROVE  /\ Cardinality(T) \in 0..Len(fields)
         /\ T = {fields[i] : i \in 1..Cardinality(T)}
<1> DEFINE c == Cardinality(T)
<1>1. c \in Nat
  BY FS_CardinalityType
<1>2. Len(fields) \in Nat /\ Len(fields) \in 0..Len(fields)
  BY DEF Columns
<1>3. X!Range(fields) = X!Prefix(fields, Len(fields))
  <2>1. DOMAIN fields = 1..Len(fields)
    BY DEF Columns
  <2> QED BY <1>2, <2>1, PrefixCounts DEF X!Range
<1>4. c <= Len(fields)
  BY <1>2, <1>3, PrefixCounts, FS_Subset
<1>5. c \in 0..Len(fields)
  BY <1>1, <1>2, <1>4
<1>6. X!Prefix(fields, c) = T
  BY <1>5, PrefixCounts, FS_Subset
<1> QED BY <1>5, <1>6, PrefixCounts

LEMMA FewAreOne ==
  ASSUME NEW T, IsFiniteSet(T), Cardinality(T) <= 1
  PROVE  \A x, y \in T : x = y
<1> SUFFICES ASSUME NEW x \in T, NEW y \in T, x # y PROVE FALSE
  OBVIOUS
<1>1. IsFiniteSet({x}) /\ Cardinality({x}) = 1
  BY FS_Singleton
<1>2. IsFiniteSet({x} \cup {y}) /\ Cardinality({x} \cup {y}) = 2
  <2>1. /\ IsFiniteSet({x} \cup {y})
        /\ Cardinality({x} \cup {y}) =
             (IF y \in {x} THEN Cardinality({x}) ELSE Cardinality({x}) + 1)
    BY <1>1, FS_AddElement
  <2>2. y \notin {x} /\ 1 + 1 = 2
    OBVIOUS
  <2> QED BY <1>1, <2>1, <2>2
<1>3. {x} \cup {y} \subseteq T
  OBVIOUS
<1>4. Cardinality({x} \cup {y}) <= Cardinality(T)
  BY <1>3, FS_Subset
<1>5. Cardinality(T) \in Nat
  BY FS_CardinalityType
<1> QED BY <1>2, <1>4, <1>5

\* The fields that some filter names, and those of the first of them.
LEMMA FilterFields ==
  ASSUME IndexInv, NEW ops
  PROVE  /\ \A f : f \in X!FieldsWith(ops) <=>
                \E i \in 1..Len(xWhere) : xWhere[i][2] \in ops /\ xWhere[i][1] = f
         /\ IsFiniteSet(X!FieldsWith(ops))
         /\ X!FirstWith(ops) \subseteq X!FieldsWith(ops)
         /\ X!FieldsWith(ops) # {} => X!FirstWith(ops) # {}
<1> DEFINE I == {i \in 1..Len(xWhere) : xWhere[i][2] \in ops}
           name == [i \in I |-> xWhere[i][1]]
<1>1. DOMAIN xWhere = 1..Len(xWhere) /\ Len(xWhere) \in Nat
  BY DEF IndexInv
<1>2. X!FieldsWith(ops) = {xWhere[i][1] : i \in I}
  BY <1>1 DEF X!FieldsWith
<1>3. X!FirstWith(ops) = {xWhere[i][1] : i \in {j \in I : \A k \in I : j <= k}}
  BY <1>1 DEF X!FirstWith
<1>4. IsFiniteSet(I)
  <2>1. IsFiniteSet(1..Len(xWhere)) /\ I \subseteq 1..Len(xWhere)
    BY <1>1, FS_Interval
  <2> HIDE DEF I
  <2> QED BY <2>1, FS_Subset
<1>5. IsFiniteSet(X!FieldsWith(ops))
  <2>1. name \in Surjection(I, X!FieldsWith(ops))
    <3>1. name \in [I -> X!FieldsWith(ops)] /\ \A f \in X!FieldsWith(ops) : \E i \in I : name[i] = f
      <4> HIDE DEF I
      <4> QED BY <1>2
    <3> HIDE DEF name, I
    <3> QED BY <3>1 DEF Surjection
  <2> HIDE DEF name, I
  <2> QED BY <1>4, <2>1, FS_Surjection
<1>6. I # {} => \E j \in I : \A k \in I : j <= k
  <2>1. I \in SUBSET Nat
    BY <1>1
  <2> HIDE DEF I
  <2> QED BY <2>1, Least
<1>7. \A f : f \in X!FieldsWith(ops) <=>
         \E i \in 1..Len(xWhere) : xWhere[i][2] \in ops /\ xWhere[i][1] = f
  BY <1>2
<1> HIDE DEF I
<1>8. X!FirstWith(ops) \subseteq X!FieldsWith(ops)
  BY <1>2, <1>3
<1>9. X!FieldsWith(ops) # {} => X!FirstWith(ops) # {}
  BY <1>2, <1>3, <1>6
<1> QED BY <1>5, <1>7, <1>8, <1>9

LEMMA CountsAgree == \A S : X!Cardinality(S) = Cardinality(S)
BY DEF X!Cardinality, Cardinality

\* d is before x is before e in an index on whose first n properties d and e agree: so does x,
\* and it is between them on the next.
LEMMA Between ==
  ASSUME NEW fields, Columns(fields), NEW c \in 0..Len(fields),
         NEW d \in [X!Range(fields) -> 0..2], NEW e \in [X!Range(fields) -> 0..2],
         NEW x \in [X!Range(fields) -> 0..2],
         \A p \in 1..c : d[fields[p]] = e[fields[p]],
         X!Precedes(fields, d, x), X!Precedes(fields, x, e)
  PROVE  /\ \A p \in 1..c : x[fields[p]] = d[fields[p]]
         /\ c < Len(fields) =>
              /\ d[fields[c + 1]] <= x[fields[c + 1]]
              /\ x[fields[c + 1]] <= e[fields[c + 1]]
<1> DEFINE dv == [p \in 1..Len(fields) |-> d[fields[p]]]
           ev == [p \in 1..Len(fields) |-> e[fields[p]]]
           xv == [p \in 1..Len(fields) |-> x[fields[p]]]
<1>1. /\ Len(fields) \in Nat /\ DOMAIN fields = 1..Len(fields) /\ c \in Nat /\ c <= Len(fields)
      /\ \A p \in 1..Len(fields) : fields[p] \in X!Range(fields)
  BY DEF Columns, X!Range
<1>2. \A p \in 1..Len(fields) : dv[p] \in 0..2 /\ ev[p] \in 0..2 /\ xv[p] \in 0..2
  BY <1>1
<1>3. PICK i \in 1..Len(fields) : dv[i] < xv[i] /\ \A j \in 1..(i - 1) : dv[j] = xv[j]
  <2>1. PICK i \in 1..Len(fields) :
          d[fields[i]] < x[fields[i]] /\ \A j \in 1..(i - 1) : d[fields[j]] = x[fields[j]]
    BY <1>1 DEF X!Precedes
  <2>2. \A j \in 1..(i - 1) : j \in 1..Len(fields)
    BY <1>1
  <2> QED BY <2>1, <2>2
<1>4. PICK k \in 1..Len(fields) : xv[k] < ev[k] /\ \A j \in 1..(k - 1) : xv[j] = ev[j]
  <2>1. PICK k \in 1..Len(fields) :
          x[fields[k]] < e[fields[k]] /\ \A j \in 1..(k - 1) : x[fields[j]] = e[fields[j]]
    BY <1>1 DEF X!Precedes
  <2>2. \A j \in 1..(k - 1) : j \in 1..Len(fields)
    BY <1>1
  <2> QED BY <2>1, <2>2
<1>5. \A p \in 1..c : dv[p] = ev[p] /\ p \in 1..Len(fields)
  BY <1>1
<1> HIDE DEF dv, ev, xv
<1>6. i > c
  <2> SUFFICES ASSUME i <= c PROVE FALSE
    BY <1>1
  <2>1. i \in 1..c
    BY <1>1
  <2>2. dv[i] = ev[i] /\ dv[i] \in Int /\ ev[i] \in Int /\ xv[i] \in Int /\ dv[i] < xv[i]
    BY <1>2, <1>3, <1>5, <2>1
  <2>3. CASE k < i
    <3>1. k \in 1..c /\ k \in 1..(i - 1)
      BY <1>1, <2>3
    <3>2. xv[k] = dv[k] /\ dv[k] = ev[k] /\ xv[k] < ev[k] /\ xv[k] \in Int
      BY <1>2, <1>3, <1>4, <1>5, <3>1
    <3> QED BY <3>2
  <2>4. CASE k = i
    BY <1>4, <2>2, <2>4
  <2>5. CASE k > i
    <3>1. i \in 1..(k - 1)
      BY <1>1, <2>5
    <3> QED BY <1>4, <2>2, <3>1
  <2> QED BY <1>1, <2>3, <2>4, <2>5
<1>7. \A p \in 1..c : p \in 1..(i - 1)
  BY <1>1, <1>6
<1>8. k > c
  <2> SUFFICES ASSUME k <= c PROVE FALSE
    BY <1>1
  <2>1. k \in 1..c
    BY <1>1
  <2>2. xv[k] = dv[k] /\ dv[k] = ev[k] /\ xv[k] < ev[k] /\ xv[k] \in Int
    BY <1>2, <1>3, <1>4, <1>5, <1>7, <2>1
  <2> QED BY <2>2
<1>9. \A p \in 1..c : xv[p] = dv[p]
  BY <1>3, <1>7
<1>10. ASSUME c < Len(fields)
       PROVE  dv[c + 1] <= xv[c + 1] /\ xv[c + 1] <= ev[c + 1]
  <2>1. c + 1 \in 1..Len(fields)
    BY <1>1, <1>10
  <2>2. dv[c + 1] \in Int /\ xv[c + 1] \in Int /\ ev[c + 1] \in Int
    BY <1>2, <2>1
  <2>3. dv[c + 1] <= xv[c + 1]
    <3>1. i = c + 1 \/ c + 1 \in 1..(i - 1)
      BY <1>1, <1>6
    <3> QED BY <1>3, <2>2, <3>1
  <2>4. xv[c + 1] <= ev[c + 1]
    <3>1. k = c + 1 \/ c + 1 \in 1..(k - 1)
      BY <1>1, <1>8
    <3> QED BY <1>4, <2>2, <3>1
  <2> QED BY <2>3, <2>4
<1>11. \A p \in 1..c : x[fields[p]] = d[fields[p]]
  BY <1>5, <1>9 DEF xv, dv
<1>12. c < Len(fields) =>
         /\ d[fields[c + 1]] <= x[fields[c + 1]]
         /\ x[fields[c + 1]] <= e[fields[c + 1]]
  <2> SUFFICES ASSUME c < Len(fields)
               PROVE  /\ d[fields[c + 1]] <= x[fields[c + 1]]
                      /\ x[fields[c + 1]] <= e[fields[c + 1]]
    OBVIOUS
  <2>1. c + 1 \in 1..Len(fields)
    BY <1>1
  <2> QED BY <1>10, <2>1 DEF dv, xv, ev
<1> QED BY <1>11, <1>12

\* order is a run of the index's properties, and d and e agree on those before it.
LEMMA SortedAsAsked ==
  ASSUME NEW fields, Columns(fields), NEW order \in Seq(StatementFields), NEW s \in Nat,
         s + Len(order) <= Len(fields),
         \A j \in 1..Len(order) : order[j] = fields[s + j],
         NEW d \in [X!Range(fields) -> 0..2], NEW e \in [X!Range(fields) -> 0..2],
         order # <<>> => \A p \in 1..s : d[fields[p]] = e[fields[p]],
         X!Precedes(fields, d, e)
  PROVE  ~X!Precedes(order, e, d)
<1> SUFFICES ASSUME X!Precedes(order, e, d) PROVE FALSE
  OBVIOUS
<1>1. /\ Len(fields) \in Nat /\ DOMAIN fields = 1..Len(fields)
      /\ Len(order) \in Nat /\ DOMAIN order = 1..Len(order)
      /\ \A p \in 1..Len(fields) : fields[p] \in X!Range(fields)
  BY DEF Columns, X!Range
<1>2. PICK i \in 1..Len(fields) :
        d[fields[i]] < e[fields[i]] /\ \A j \in 1..(i - 1) : d[fields[j]] = e[fields[j]]
  BY <1>1 DEF X!Precedes
<1>3. PICK k \in 1..Len(order) :
        e[order[k]] < d[order[k]] /\ \A j \in 1..(k - 1) : e[order[j]] = d[order[j]]
  BY <1>1 DEF X!Precedes
<1>4. d[fields[i]] \in Int /\ e[fields[i]] \in Int
  BY <1>1
<1>5. order # <<>> /\ s + k \in 1..Len(fields) /\ order[k] = fields[s + k]
  BY <1>1, <1>3
<1>6. d[fields[s + k]] \in Int /\ e[fields[s + k]] \in Int /\ e[fields[s + k]] < d[fields[s + k]]
  BY <1>1, <1>3, <1>5
<1>7. CASE i <= s
  <2>1. i \in 1..s
    BY <1>1, <1>7
  <2> QED BY <1>2, <1>4, <1>5, <2>1
<1>8. CASE i > s /\ i < s + k
  <2>1. i - s \in 1..(k - 1) /\ i - s \in 1..Len(order) /\ s + (i - s) = i
    BY <1>1, <1>8
  <2>2. order[i - s] = fields[i]
    BY <2>1
  <2> QED BY <1>2, <1>3, <1>4, <2>1, <2>2
<1>9. CASE i = s + k
  BY <1>2, <1>6, <1>9
<1>10. CASE i > s + k
  <2>1. s + k \in 1..(i - 1)
    BY <1>1, <1>10
  <2> QED BY <1>2, <1>6, <2>1
<1> QED BY <1>1, <1>7, <1>8, <1>9, <1>10

LEMMA ClausesClear ==
  ASSUME NEW oneIn \in BOOLEAN, X!ClauseWarnings(oneIn) = {}
  PROVE  /\ X!InFields \cap X!RangeFields = {}
         /\ X!Equality \cap (X!RangeFields \cup X!InFields) = {}
<1>1. "IN and range" \notin X!ClauseWarnings(oneIn) /\ "= and other" \notin X!ClauseWarnings(oneIn)
  OBVIOUS
<1>2. X!InFields \cap X!RangeFields = {}
  BY <1>1 DEF X!ClauseWarnings
<1>3. X!Equality \cap (X!RangeFields \cup X!InFields) = {}
  BY <1>1 DEF X!ClauseWarnings
<1> QED BY <1>2, <1>3

\* An index that fits has no fewer properties than the statement names, and the best fits.
LEMMA BestFits ==
  ASSUME IndexInv, X!Fitting # {}
  PROVE  /\ X!Best \in X!Fitting /\ X!Best # 0
         /\ \A i \in X!Fitting :
              /\ Columns(xType.indices[i].fields)
              /\ X!Matches(xType.indices[i].fields)
              /\ xVersion >= 14 => X!Contiguous(xType.indices[i].fields)
<1> DEFINE Fields(i) == xType.indices[i].fields
           D(i) == X!Difference(xType.indices[i].fields)
<1>1. \A i \in X!Fitting :
        /\ i \in DOMAIN xType.indices /\ X!Matches(Fields(i))
        /\ xVersion >= 14 => X!Contiguous(Fields(i))
  BY DEF X!Fitting
<1>2. \A i \in X!Fitting : Columns(Fields(i)) /\ i \in Nat
  BY <1>1, IndexColumns
<1>3. \A i \in X!Fitting : i # 0
  <2>1. xType.indices \in Seq([fields : Seq(Nat), points : SUBSET {"count", "sum"},
                               ranges : SUBSET {"count", "sum"}])
    BY IndexAssumption DEF IndexAssumption, IndexInv
  <2>2. DOMAIN xType.indices = 1..Len(xType.indices)
    BY <2>1
  <2> QED BY <1>1, <2>2
<1>4. ASSUME NEW i \in X!Fitting
      PROVE  D(i) \in Nat
  <2> DEFINE fields == Fields(i)
  <2>1. Columns(fields) /\ X!Named \subseteq X!Range(fields)
    BY <1>1, <1>2 DEF X!Matches
  <2> HIDE DEF fields
  <2>2. Len(fields) \in Nat /\ Len(fields) \in 0..Len(fields) /\ DOMAIN fields = 1..Len(fields)
    BY <2>1 DEF Columns
  <2>3. X!Range(fields) = X!Prefix(fields, Len(fields))
    BY <2>1, <2>2, PrefixCounts DEF X!Range
  <2>4. IsFiniteSet(X!Range(fields)) /\ Cardinality(X!Range(fields)) = Len(fields)
    BY <2>1, <2>2, <2>3, PrefixCounts
  <2>5. Cardinality(X!Named) <= Len(fields) /\ Cardinality(X!Named) \in Nat
    BY <2>1, <2>4, FS_Subset, FS_CardinalityType
  <2>6. X!Difference(fields) = Len(fields) - Cardinality(X!Named)
    BY CountsAgree DEF X!Difference
  <2>7. X!Difference(fields) \in Nat
    BY <2>2, <2>5, <2>6
  <2> QED BY <2>7 DEF fields
<1> HIDE DEF D
<1> DEFINE least == {i \in X!Fitting : \A j \in X!Fitting : D(i) <= D(j)}
<1>5. least # {}
  <2> DEFINE Ds == {D(i) : i \in X!Fitting}
  <2>1. Ds \in SUBSET Nat /\ Ds # {}
    BY <1>4
  <2> HIDE DEF Ds
  <2>2. PICK m \in Ds : \A d \in Ds : m <= d
    BY <2>1, Least
  <2> QED BY <2>2 DEF Ds
<1>6. least \in SUBSET Nat
  BY <1>2
<1>7. \E i \in least : \A j \in least : i <= j
  <2> HIDE DEF least
  <2> QED BY <1>5, <1>6, Least
<1>8. PICK i \in least : \A j \in least : i <= j
  BY <1>7
<1>9. \A j \in X!Fitting : D(i) < D(j) \/ (D(i) = D(j) /\ i <= j)
  <2> SUFFICES ASSUME NEW j \in X!Fitting PROVE D(i) < D(j) \/ (D(i) = D(j) /\ i <= j)
    OBVIOUS
  <2>1. D(i) <= D(j) /\ D(i) \in Nat /\ D(j) \in Nat
    BY <1>4
  <2>2. D(i) = D(j) => j \in least
    OBVIOUS
  <2> HIDE DEF least
  <2> QED BY <1>8, <2>1, <2>2
<1>10. i \in X!Fitting /\ \A j \in X!Fitting : X!Better(i, j)
  BY <1>9 DEF X!Better, D
<1>11. X!Best \in X!Fitting
  <2>1. \E k \in X!Fitting : \A j \in X!Fitting : X!Better(k, j)
    BY <1>10
  <2> QED BY <2>1, Zenon DEF X!Best
<1> QED BY <1>1, <1>2, <1>3, <1>11

\* A run of an index's properties, position by position.
LEMMA RunOfColumns ==
  ASSUME NEW fields, Columns(fields), NEW s \in Nat, NEW l \in Nat, s + l <= Len(fields)
  PROVE  \A j \in 1..l : SubSeq(fields, s + 1, s + l)[j] = fields[s + j]
<1> DEFINE lo == s + 1
           hi == s + l
<1>1. fields \in Seq(Nat) /\ Len(fields) \in Nat
  BY DEF Columns
<1>2. \A i \in lo..hi : fields[i] \in Nat
  <2> SUFFICES ASSUME NEW i \in lo..hi PROVE fields[i] \in Nat
    OBVIOUS
  <2>1. i \in 1..Len(fields)
    BY <1>1
  <2> QED BY <1>1, <2>1, ElementOfSeq
<1>3. lo \in Int /\ hi \in Int
  OBVIOUS
<1>4. hi - lo + 1 = l /\ \A i \in 1..l : lo + i - 1 = s + i
  OBVIOUS
<1> HIDE DEF lo, hi
<1> DEFINE run == SubSeq(fields, lo, hi)
<1>5. /\ run \in Seq(Nat) /\ Len(run) = (IF lo <= hi THEN hi - lo + 1 ELSE 0)
      /\ \A i \in 1..(hi - lo + 1) : run[i] = fields[lo + i - 1]
  BY <1>2, <1>3, SubSeqProperties
<1> HIDE DEF run
<1>6. \A i \in 1..l : run[i] = fields[s + i]
  BY <1>4, <1>5
<1> QED BY <1>6 DEF run, lo, hi

LEMMA DocumentPlan ==
  ASSUME IndexInv, xVersion >= 14, X!QueryCheck.index # 0, X!QueryCheck.warnings = {},
         X!InFields = {} \/ X!RangeFields = {},
         NEW fields, fields = xType.indices[X!QueryCheck.index].fields
  PROVE  /\ Columns(fields)
         /\ \E c \in 0..Len(fields), s \in Nat :
              /\ X!Equality = {fields[i] : i \in 1..c}
              /\ \A f \in X!RangeFields \cup X!InFields : c < Len(fields) /\ f = fields[c + 1]
              /\ s + Len(xOrderBy) <= Len(fields)
              /\ \A j \in 1..Len(xOrderBy) : xOrderBy[j] = fields[s + j]
              /\ xOrderBy # <<>> => s <= c
<1> DEFINE Eq == X!Equality
           F == X!RangeFields \cup X!InFields
           c == Cardinality(Eq)
           m == Cardinality(X!Named)
<1>1. /\ X!Fitting # {} /\ X!QueryCheck.index = X!Best /\ X!QueryWarnings = {}
      /\ ~(X!Cardinality(X!InFields) > 1)
  BY Zenon DEF X!QueryCheck, X!Check
<1>2. Columns(fields) /\ X!Matches(fields) /\ X!Contiguous(fields)
  BY <1>1, BestFits
<1>3. /\ X!ClauseWarnings(xVersion < 14) = {}
      /\ ~(X!Cardinality(X!RangeFields) > 1) /\ X!Unordered = {}
  BY <1>1 DEF X!QueryWarnings
<1>4. Eq \cap F = {} /\ F \subseteq Range(xOrderBy)
  <2>1. Eq \cap F = {}
    <3>1. (xVersion < 14) \in BOOLEAN
      OBVIOUS
    <3> QED BY <1>3, <3>1, ClausesClear
  <2>2. F \subseteq X!Ordered
    BY <1>3 DEF X!Unordered
  <2> QED BY <2>1, <2>2 DEF X!Ordered, X!Range, Range
<1>5. /\ IsFiniteSet(Eq) /\ IsFiniteSet(X!RangeFields) /\ IsFiniteSet(X!InFields)
  BY FilterFields DEF X!Equality, X!RangeFields, X!InFields
<1>6. /\ \A x, y \in X!RangeFields : x = y
      /\ \A x, y \in X!InFields : x = y
  <2>1. /\ Cardinality(X!RangeFields) \in Nat /\ Cardinality(X!InFields) \in Nat
        /\ ~(Cardinality(X!RangeFields) > 1) /\ ~(Cardinality(X!InFields) > 1)
    BY <1>1, <1>3, <1>5, CountsAgree, FS_CardinalityType
  <2>2. Cardinality(X!RangeFields) <= 1 /\ Cardinality(X!InFields) <= 1
    BY <2>1
  <2> QED BY <1>5, <2>2, FewAreOne
<1>7. X!FirstWith(X!RangeOperators) = X!RangeFields /\ X!FirstWith({"in"}) = X!InFields
  <2>1. /\ X!FirstWith(X!RangeOperators) \subseteq X!RangeFields
        /\ X!RangeFields # {} => X!FirstWith(X!RangeOperators) # {}
    BY FilterFields DEF X!RangeFields
  <2>2. /\ X!FirstWith({"in"}) \subseteq X!InFields
        /\ X!InFields # {} => X!FirstWith({"in"}) # {}
    BY FilterFields DEF X!InFields
  <2> QED BY <1>6, <2>1, <2>2
<1>8. X!Named = Eq \cup F \cup X!Ordered /\ X!Follow = F
  BY <1>7 DEF X!Named, X!Follow
<1>9. /\ X!Named \subseteq X!Range(fields) /\ X!OrderRunEnds(fields) # {}
      /\ X!Prefix(fields, X!Cardinality(Eq)) \subseteq Eq
      /\ X!Follow \subseteq X!Prefix(fields, X!Cardinality(Eq) + X!Cardinality(X!Follow)) \ Eq
      /\ X!Prefix(fields, X!Cardinality(X!Named)) \subseteq X!Named
  BY <1>2 DEF X!Matches, X!Contiguous, X!FollowEquality, X!NoGap
<1>10. Len(fields) \in Nat /\ DOMAIN fields = 1..Len(fields) /\ fields \in Seq(Nat)
  BY <1>2 DEF Columns
<1>11. c \in 0..Len(fields) /\ Eq = {fields[i] : i \in 1..c}
  <2>1. X!Prefix(fields, Cardinality(Eq)) \subseteq Eq
    BY <1>9, CountsAgree
  <2>2. Eq \subseteq X!Range(fields)
    BY <1>8, <1>9
  <2> HIDE DEF Eq
  <2> QED BY <1>2, <1>5, <2>1, <2>2, PrefixFilled
<1>12. m \in 0..Len(fields) /\ X!Named = {fields[i] : i \in 1..m}
  <2>1. X!Prefix(fields, Cardinality(X!Named)) \subseteq X!Named
    BY <1>9, CountsAgree
  <2>2. IsFiniteSet(X!Named)
    <3>1. X!Range(fields) = X!Prefix(fields, Len(fields)) /\ Len(fields) \in 0..Len(fields)
      BY <1>2, <1>10, PrefixCounts DEF X!Range
    <3> QED BY <1>2, <1>9, <3>1, PrefixCounts, FS_Subset
  <2> QED BY <1>2, <1>9, <2>1, <2>2, PrefixFilled
<1> HIDE DEF Eq, F, c, m
<1>13. \A f \in F : c < Len(fields) /\ f = fields[c + 1]
  <2> SUFFICES ASSUME NEW f \in F PROVE c < Len(fields) /\ f = fields[c + 1]
    OBVIOUS
  <2>1. F = {f}
    BY <1>6 DEF F
  <2>2. Cardinality(F) = 1
    BY <2>1, FS_Singleton
  <2>3. f \in X!Prefix(fields, c + 1) /\ f \notin Eq
    BY <1>8, <1>9, <2>2, CountsAgree DEF c
  <2>4. PICK i \in DOMAIN fields : i <= c + 1 /\ f = fields[i]
    BY <2>3 DEF X!Prefix
  <2>5. c \in Nat /\ i \in Nat /\ i >= 1 /\ i <= Len(fields)
    BY <1>10, <1>11, <2>4
  <2>6. ~(i <= c)
    <3>1. i <= c => i \in 1..c
      BY <2>5
    <3> QED BY <1>11, <2>3, <2>4, <3>1
  <2>7. i = c + 1 /\ c < Len(fields)
    BY <1>10, <2>4, <2>5, <2>6
  <2> QED BY <2>4, <2>7
<1>14. PICK k \in Len(xOrderBy)..Len(fields) : SubSeq(fields, k - Len(xOrderBy) + 1, k) = xOrderBy
  BY <1>9 DEF X!OrderRunEnds
<1> DEFINE s == k - Len(xOrderBy)
<1>15. /\ xOrderBy \in Seq(StatementFields) /\ Len(xOrderBy) \in Nat
       /\ DOMAIN xOrderBy = 1..Len(xOrderBy)
  BY DEF IndexInv
<1>16. /\ s \in Nat /\ k \in Nat /\ s + Len(xOrderBy) = k /\ k <= Len(fields)
       /\ k - (s + 1) + 1 = Len(xOrderBy)
  BY <1>10, <1>14, <1>15
<1> HIDE DEF s
<1>17. \A j \in 1..Len(xOrderBy) : xOrderBy[j] = fields[s + j]
  <2>1. SubSeq(fields, s + 1, k) = xOrderBy
    BY <1>14 DEF s
  <2>2. s + Len(xOrderBy) <= Len(fields) /\ s + Len(xOrderBy) = k
    BY <1>16
  <2>3. \A j \in 1..Len(xOrderBy) : SubSeq(fields, s + 1, s + Len(xOrderBy))[j] = fields[s + j]
    BY <1>2, <1>15, <1>16, <2>2, RunOfColumns
  <2> QED BY <2>1, <2>2, <2>3
<1>18. \A f \in X!Ordered : \E j \in 1..Len(xOrderBy) : f = fields[s + j]
  BY <1>15, <1>17 DEF X!Ordered, X!Range
<1>19. ASSUME xOrderBy # <<>>
       PROVE  s <= c
  <2>1. 1 \in 1..Len(xOrderBy) /\ c \in Nat /\ m \in Nat
    BY <1>11, <1>12, <1>15, <1>19
  <2>2. fields[s + 1] \in X!Named /\ s + 1 \in 1..Len(fields)
    <3>1. xOrderBy[1] \in X!Ordered
      BY <1>15, <2>1 DEF X!Ordered, X!Range
    <3>2. s + 1 \in 1..Len(fields)
      BY <1>10, <1>15, <1>16, <2>1
    <3> QED BY <1>8, <1>17, <2>1, <3>1, <3>2
  <2>3. PICK p \in 1..m : fields[s + 1] = fields[p]
    BY <1>12, <2>2
  <2>4. s + 1 <= m
    <3>1. p \in 1..Len(fields)
      BY <1>10, <1>12, <2>3
    <3>2. p = s + 1
      BY <1>2, <2>2, <2>3, <3>1 DEF Columns
    <3> QED BY <2>1, <2>3, <3>2
  <2> SUFFICES ASSUME ~(s <= c) PROVE FALSE
    OBVIOUS
  <2>5. c + 1 \in 1..m /\ c + 1 <= s /\ c + 1 \in 1..Len(fields)
    <3>1. s \in Nat /\ c \in Nat /\ m \in Nat /\ Len(fields) \in Nat /\ m <= Len(fields)
      BY <1>10, <1>12, <1>16, <2>1
    <3>2. c + 1 <= s
      BY <3>1
    <3> QED BY <2>4, <3>1, <3>2
  <2>6. fields[c + 1] \in Eq \cup F \cup X!Ordered
    BY <1>8, <1>12, <2>5
  <2>7. fields[c + 1] \notin Eq
    <3> SUFFICES ASSUME NEW i \in 1..c, fields[i] = fields[c + 1] PROVE FALSE
      BY <1>11
    <3>1. i \in 1..Len(fields) /\ i # c + 1
      BY <1>10, <1>11, <2>1
    <3> QED BY <1>2, <2>5, <3>1 DEF Columns
  <2>8. F \subseteq X!Ordered
    BY <1>4 DEF X!Ordered, X!Range, Range
  <2>9. PICK j \in 1..Len(xOrderBy) : fields[c + 1] = fields[s + j]
    BY <1>18, <2>6, <2>7, <2>8
  <2>10. s + j \in 1..Len(fields) /\ s + j # c + 1
    <3>1. /\ s \in Nat /\ c \in Nat /\ j \in Nat /\ j >= 1 /\ j <= Len(xOrderBy)
          /\ Len(xOrderBy) \in Nat /\ Len(fields) \in Nat /\ s + Len(xOrderBy) <= Len(fields)
      BY <1>10, <1>15, <1>16, <2>1
    <3>2. c + 1 <= s
      BY <2>5
    <3>3. s + j # c + 1
      BY <3>1, <3>2
    <3>4. s + j \in 1..Len(fields)
      <4>1. s + j <= Len(fields) /\ 1 <= s + j /\ s + j \in Nat
        BY <3>1
      <4> QED BY <3>1, <4>1
    <3> QED BY <3>3, <3>4
  <2> QED BY <1>2, <2>5, <2>9, <2>10 DEF Columns
<1>20. s + Len(xOrderBy) <= Len(fields)
  BY <1>16
<1> QED BY <1>2, <1>11, <1>13, <1>16, <1>17, <1>19, <1>20 DEF Eq, F

\* One scan serves it.
LEMMA DocumentServed ==
  ASSUME IndexInv, xVersion >= 14, X!QueryCheck.index # 0, X!QueryCheck.warnings = {},
         X!InFields = {} \/ X!RangeFields = {}
  PROVE  X!ServedByScan(xType.indices[X!QueryCheck.index].fields)
<1> DEFINE fields == xType.indices[X!QueryCheck.index].fields
<1>1. /\ Columns(fields)
      /\ \E c \in 0..Len(fields), s \in Nat :
           /\ X!Equality = {fields[i] : i \in 1..c}
           /\ \A f \in X!RangeFields \cup X!InFields : c < Len(fields) /\ f = fields[c + 1]
           /\ s + Len(xOrderBy) <= Len(fields)
           /\ \A j \in 1..Len(xOrderBy) : xOrderBy[j] = fields[s + j]
           /\ xOrderBy # <<>> => s <= c
  BY DocumentPlan
<1> HIDE DEF fields
<1>2. PICK c \in 0..Len(fields), s \in Nat :
        /\ X!Equality = {fields[i] : i \in 1..c}
        /\ \A f \in X!RangeFields \cup X!InFields : c < Len(fields) /\ f = fields[c + 1]
        /\ s + Len(xOrderBy) <= Len(fields)
        /\ \A j \in 1..Len(xOrderBy) : xOrderBy[j] = fields[s + j]
        /\ xOrderBy # <<>> => s <= c
  BY <1>1
<1>3. /\ xWhere \in Seq(StatementFields \X Ops) /\ DOMAIN xWhere = 1..Len(xWhere)
      /\ xOrderBy \in Seq(StatementFields)
      /\ Len(fields) \in Nat /\ DOMAIN fields = 1..Len(fields) /\ c \in Nat /\ c <= Len(fields)
  BY <1>1 DEF IndexInv, Columns
<1>4. \A i \in 1..Len(xWhere) :
        /\ xWhere[i][2] \in Ops
        /\ xWhere[i][2] = "=" => xWhere[i][1] \in X!Equality
        /\ xWhere[i][2] # "=" => xWhere[i][1] \in X!RangeFields \cup X!InFields
  <2> SUFFICES ASSUME NEW i \in 1..Len(xWhere)
               PROVE  /\ xWhere[i][2] \in Ops
                      /\ xWhere[i][2] = "=" => xWhere[i][1] \in X!Equality
                      /\ xWhere[i][2] # "=" => xWhere[i][1] \in X!RangeFields \cup X!InFields
    OBVIOUS
  <2>1. xWhere[i][2] \in Ops
    BY <1>3
  <2>2. xWhere[i][2] = "=" => xWhere[i][1] \in X!Equality
    BY FilterFields DEF X!Equality
  <2>3. xWhere[i][2] = "in" => xWhere[i][1] \in X!InFields
    BY FilterFields DEF X!InFields
  <2>4. xWhere[i][2] \in X!RangeOperators => xWhere[i][1] \in X!RangeFields
    BY FilterFields DEF X!RangeFields
  <2> QED BY <2>1, <2>2, <2>3, <2>4 DEF Ops, X!RangeOperators
<1> DEFINE Rows == [X!Range(fields) -> 0..2]
           Meets(r, i) == X!Satisfies(r, xWhere[i])
<1>5. \A r : r \in X!Selected(fields) <=> r \in Rows /\ \A i \in 1..Len(xWhere) : Meets(r, i)
  BY <1>3 DEF X!Selected, X!Entries
<1>6. ASSUME NEW r \in X!Selected(fields), NEW p \in 1..c
      PROVE  r[fields[p]] = 1
  <2>1. PICK i \in 1..Len(xWhere) : xWhere[i][2] = "=" /\ xWhere[i][1] = fields[p]
    <3>1. fields[p] \in X!Equality
      BY <1>2
    <3> QED BY <3>1, FilterFields DEF X!Equality
  <2>2. X!Satisfies(r, xWhere[i])
    BY <1>5
  <2> QED BY <2>1, <2>2 DEF X!Satisfies
<1>7. ASSUME NEW d \in X!Selected(fields), NEW e \in X!Selected(fields), NEW x \in Rows,
             X!Precedes(fields, d, x), X!Precedes(fields, x, e)
      PROVE  x \in X!Selected(fields)
  <2>1. d \in Rows /\ e \in Rows /\ \A p \in 1..c : d[fields[p]] = e[fields[p]]
    BY <1>5, <1>6
  <2>2. /\ \A p \in 1..c : x[fields[p]] = d[fields[p]]
        /\ c < Len(fields) =>
             d[fields[c + 1]] <= x[fields[c + 1]] /\ x[fields[c + 1]] <= e[fields[c + 1]]
    BY <1>1, <1>7, <2>1, Between
  <2>3. ASSUME NEW i \in 1..Len(xWhere)
        PROVE  Meets(x, i)
    <3> DEFINE f == xWhere[i][1]
               op == xWhere[i][2]
    <3>1. CASE op = "="
      <4>1. PICK p \in 1..c : f = fields[p]
        BY <1>2, <1>4, <3>1
      <4>2. x[f] = 1
        BY <1>6, <2>2, <4>1
      <4> QED BY <3>1, <4>2 DEF X!Satisfies
    <3>2. CASE op # "="
      <4>1. c < Len(fields) /\ f = fields[c + 1]
        BY <1>2, <1>4, <3>2
      <4>2. d[f] <= x[f] /\ x[f] <= e[f] /\ d[f] \in 0..2 /\ e[f] \in 0..2 /\ x[f] \in 0..2
        <5>1. f \in X!Range(fields)
          <6>1. c + 1 \in 1..Len(fields)
            BY <1>3, <4>1
          <6> QED BY <1>3, <4>1, <6>1 DEF X!Range
        <5> QED BY <2>1, <2>2, <4>1, <5>1
      <4>3. X!Satisfies(d, xWhere[i]) /\ X!Satisfies(e, xWhere[i])
        BY <1>5
      <4>4. op \in {"in", "<", ">", "between"}
        BY <1>4, <3>2 DEF Ops
      <4>5. CASE op = "in"
        BY <4>2, <4>3, <4>5 DEF X!Satisfies
      <4>6. CASE op = "<"
        BY <4>2, <4>3, <4>6 DEF X!Satisfies
      <4>7. CASE op = ">"
        BY <4>2, <4>3, <4>7 DEF X!Satisfies
      <4>8. CASE op = "between"
        BY <4>2, <4>3, <4>8 DEF X!Satisfies
      <4> QED BY <4>4, <4>5, <4>6, <4>7, <4>8
    <3> QED BY <3>1, <3>2
  <2> QED BY <1>5, <2>3
<1>8. ASSUME NEW d \in X!Selected(fields), NEW e \in X!Selected(fields),
             X!Precedes(fields, d, e)
      PROVE  ~X!Precedes(xOrderBy, e, d)
  <2>1. d \in Rows /\ e \in Rows
    BY <1>5
  <2>2. xOrderBy # <<>> => \A p \in 1..s : d[fields[p]] = e[fields[p]]
    <3>1. xOrderBy # <<>> => \A p \in 1..s : p \in 1..c
      BY <1>2, <1>3
    <3> QED BY <1>6, <3>1
  <2>3. /\ s + Len(xOrderBy) <= Len(fields)
        /\ \A j \in 1..Len(xOrderBy) : xOrderBy[j] = fields[s + j]
    BY <1>2
  <2> QED BY <1>1, <1>3, <1>8, <2>1, <2>2, <2>3, SortedAsAsked
<1>9. X!Entries(fields) = Rows
  BY DEF X!Entries
<1>10. X!ServedByScan(fields)
  BY <1>7, <1>8, <1>9 DEF X!ServedByScan
<1> QED BY <1>10 DEF fields

\* An aggregate that passes is read from totals of what the filters select.
LEMMA AggregateServed ==
  ASSUME IndexInv, xSelect # "documents",
         X!AggregateCheck.index # 0, X!AggregateCheck.warnings = {}
  PROVE  X!TotalledByIndex(xType.indices[X!AggregateCheck.index].fields)
<1> DEFINE first == CHOOSE i \in X!Counting : \A j \in X!Counting : i <= j
           index == xType.indices[first]
           fields == index.fields
           Points == X!Points
           Ranges == X!RangeFields
<1>1. /\ X!Counting # {} /\ X!AggregateCheck.index = first
      /\ X!AggregateWarnings = {} /\ X!CarrierWarnings(index) = {}
  BY DEF X!AggregateCheck, X!Check
<1>2. first \in X!Counting
  <2>1. X!Counting \in SUBSET Nat
    BY IndexColumns DEF X!Counting
  <2>2. \E i \in X!Counting : \A j \in X!Counting : i <= j
    BY <1>1, <2>1, Least
  <2> QED BY <2>2
<1> HIDE DEF first
<1>3. Columns(fields) /\ X!CountsBy(index)
  <2>1. first \in DOMAIN xType.indices /\ X!CountsBy(index)
    BY <1>2 DEF X!Counting
  <2> QED BY <2>1, IndexColumns
<1> HIDE DEF index
<1>4. /\ Len(fields) \in Nat /\ Len(fields) >= 1 /\ DOMAIN fields = 1..Len(fields)
      /\ \A j, k \in 1..Len(fields) : fields[j] = fields[k] => j = k
  BY <1>3 DEF Columns
<1>5. /\ X!ClauseWarnings(TRUE) = {}
      /\ ~(X!Cardinality(Ranges) > 1 /\ ~X!Carrier)
  BY <1>1 DEF X!AggregateWarnings
<1>6. Points \cap Ranges = {}
  <2>1. X!InFields \cap Ranges = {} /\ X!Equality \cap Ranges = {}
    BY <1>5, ClausesClear
  <2> QED BY <2>1 DEF X!Points
<1>7. /\ IsFiniteSet(Ranges) /\ IsFiniteSet(Points)
      /\ Cardinality(Ranges) \in Nat /\ Cardinality(Points) \in Nat
  <2>1. IsFiniteSet(X!Equality) /\ IsFiniteSet(X!InFields) /\ IsFiniteSet(Ranges)
    BY FilterFields DEF X!Equality, X!InFields, X!RangeFields
  <2>2. IsFiniteSet(Points)
    BY <2>1, FS_Union DEF X!Points
  <2> QED BY <2>1, <2>2, FS_CardinalityType
<1>8. X!Range(fields) = {fields[i] : i \in 1..Len(fields)}
  BY <1>4 DEF X!Range
<1>9. X!Last(fields) = fields[Len(fields)]
  BY DEF X!Last
<1> HIDE DEF fields, Points, Ranges
<1>10. CASE X!Carrier
  <2>1. /\ Len(fields) >= 2 /\ fields[1] # fields[Len(fields)]
        /\ {fields[1], fields[Len(fields)]} \subseteq Ranges
        /\ {fields[i] : i \in 2..(Len(fields) - 1)} \subseteq Points
    BY <1>3, <1>9, <1>10 DEF X!CountsBy, fields, Ranges, Points
  <2>2. Cardinality(Ranges) = 2 /\ X!GroupMode = "range"
    BY <1>10, CountsAgree DEF X!Carrier, Ranges
  <2>3. Points \subseteq X!Range(fields) /\ fields[1] = xGroupBy[1]
    BY <1>1, <1>10 DEF X!CarrierWarnings, fields, Points
  <2>4. Ranges = {fields[1], fields[Len(fields)]}
    <3> DEFINE one == {fields[1]}
               two == one \cup {fields[Len(fields)]}
    <3>1. IsFiniteSet(one) /\ Cardinality(one) = 1
      BY FS_Singleton
    <3>2. fields[Len(fields)] \notin one
      BY <2>1
    <3> HIDE DEF one
    <3>3. Cardinality(two) = Cardinality(one) + 1
      BY <3>1, <3>2, FS_AddElement
    <3>4. two \subseteq Ranges /\ Cardinality(two) = 2
      BY <2>1, <3>1, <3>3 DEF one
    <3> HIDE DEF two
    <3>5. two = Ranges
      BY <1>7, <2>2, <3>4, FS_Subset
    <3> QED BY <3>5 DEF two, one
  <2>5. Len(xGroupBy) = 1 /\ xGroupBy = <<fields[1]>>
    <3>1. xGroupBy \in Seq(StatementFields)
      BY DEF IndexInv
    <3>2. xGroupBy # <<>> /\ Len(xGroupBy) # 2
      <4>1. CASE xGroupBy = <<>>
        <5>1. Len(xGroupBy) = 0
          BY <4>1
        <5>2. X!GroupMode = "aggregate"
          BY <4>1, <5>1 DEF X!GroupMode
        <5> QED BY <2>2, <5>2
      <4>2. CASE Len(xGroupBy) = 2
        <5>1. xGroupBy # <<>>
          BY <4>2
        <5>2. X!GroupMode \in {"compound", "unsupported"}
          BY <4>2, <5>1 DEF X!GroupMode
        <5> QED BY <2>2, <5>2
      <4> QED BY <4>1, <4>2
    <3>3. Len(xGroupBy) = 1
      <4> SUFFICES ASSUME Len(xGroupBy) # 1 PROVE FALSE
        OBVIOUS
      <4>1. X!GroupMode = "unsupported"
        BY <3>2 DEF X!GroupMode
      <4> QED BY <2>2, <4>1
    <3> QED BY <2>3, <3>1, <3>3
  <2>6. X!Range(fields) = Points \cup Ranges
    <3>1. \A i \in 1..Len(fields) : i = 1 \/ i = Len(fields) \/ i \in 2..(Len(fields) - 1)
      <4>1. Len(fields) \in Nat
        BY <1>4
      <4> QED BY <4>1
    <3>2. \A i \in 1..Len(fields) : fields[i] \in Points \cup Ranges
      BY <2>1, <2>4, <3>1
    <3>3. 1 \in 1..Len(fields) /\ Len(fields) \in 1..Len(fields)
      BY <1>4
    <3> QED BY <1>8, <2>3, <2>4, <3>2, <3>3
  <2>7. ASSUME NEW i \in 1..Len(fields), fields[i] \in Ranges
        PROVE  i = Len(fields) \/ (i = 1 /\ xGroupBy = <<fields[1]>>)
    <3>1. 1 \in 1..Len(fields) /\ Len(fields) \in 1..Len(fields)
      BY <1>4
    <3>2. i = 1 \/ i = Len(fields)
      BY <1>4, <2>4, <2>7, <3>1
    <3> QED BY <2>5, <3>2
  <2> QED BY <1>1, <1>4, <2>6, <2>7 DEF X!TotalledByIndex, fields, index, Points, Ranges
<1>11. CASE ~X!Carrier /\ Ranges = {}
  <2>1. /\ Len(fields) = X!Cardinality(Points) + 0 /\ X!Range(fields) \subseteq Points
    BY <1>3, <1>11 DEF X!CountsBy, fields, Ranges, Points
  <2>2. Len(fields) = Cardinality(Points)
    BY <1>7, <2>1, CountsAgree
  <2>3. Len(fields) \in 0..Len(fields)
    BY <1>4
  <2>4. Cardinality(X!Range(fields)) = Len(fields)
    <3>1. /\ X!Prefix(fields, Len(fields)) = {fields[i] : i \in 1..Len(fields)}
          /\ Cardinality(X!Prefix(fields, Len(fields))) = Len(fields)
      BY <1>3, <2>3, PrefixCounts
    <3> QED BY <1>8, <3>1
  <2>5. X!Range(fields) = Points
    BY <1>7, <2>1, <2>2, <2>4, FS_Subset
  <2> QED BY <1>1, <1>11, <2>5 DEF X!TotalledByIndex, fields, index, Points, Ranges
<1>12. CASE ~X!Carrier /\ Ranges # {}
  <2>1. /\ Len(fields) = X!Cardinality(Points) + 1
        /\ fields[Len(fields)] = CHOOSE f \in X!FirstWith(X!RangeOperators) : TRUE
        /\ X!Prefix(fields, Len(fields) - 1) \subseteq Points
    BY <1>3, <1>9, <1>12 DEF X!CountsBy, fields, Ranges, Points
  <2>2. \A x, y \in Ranges : x = y
    <3>1. ~(Cardinality(Ranges) > 1)
      BY <1>5, <1>12, CountsAgree
    <3>2. Cardinality(Ranges) <= 1
      BY <1>7, <3>1
    <3> QED BY <1>7, <3>2, FewAreOne
  <2>3. Ranges = {fields[Len(fields)]}
    <3>1. X!FirstWith(X!RangeOperators) # {} /\ X!FirstWith(X!RangeOperators) \subseteq Ranges
      BY <1>12, FilterFields DEF Ranges, X!RangeFields
    <3>2. fields[Len(fields)] \in Ranges
      BY <2>1, <3>1
    <3> QED BY <2>2, <3>2
  <2> DEFINE l == Len(fields) - 1
  <2>4. l \in 0..Len(fields) /\ l = Cardinality(Points)
    BY <1>4, <1>7, <2>1, CountsAgree
  <2>5. X!Prefix(fields, l) = {fields[i] : i \in 1..l} /\ Cardinality(X!Prefix(fields, l)) = l
    <3> HIDE DEF l
    <3> QED BY <1>3, <2>4, PrefixCounts
  <2>6. Points = {fields[i] : i \in 1..l}
    <3>1. X!Prefix(fields, l) \subseteq Points
      BY <2>1
    <3> HIDE DEF l
    <3>2. X!Prefix(fields, l) = Points
      BY <1>7, <2>4, <2>5, <3>1, FS_Subset
    <3> QED BY <2>5, <3>2
  <2>7. X!Range(fields) = Points \cup Ranges
    <3>1. \A i : i \in 1..Len(fields) <=> i \in 1..l \/ i = Len(fields)
      BY <1>4
    <3> HIDE DEF l
    <3> QED BY <1>8, <2>3, <2>6, <3>1
  <2>8. \A i \in 1..Len(fields) : fields[i] \in Ranges => i = Len(fields)
    <3>1. Len(fields) \in 1..Len(fields)
      BY <1>4
    <3> QED BY <1>4, <2>3, <3>1
  <2> QED BY <1>1, <1>4, <2>7, <2>8 DEF X!TotalledByIndex, fields, index, Points, Ranges
<1> QED BY <1>10, <1>11, <1>12

LEMMA PassedHolds == IndexInv => X!PassedIsServed
<1> SUFFICES ASSUME IndexInv, X!IndexCheck.index # 0, X!IndexCheck.warnings = {}
             PROVE  LET fields == xType.indices[X!IndexCheck.index].fields IN
                    IF xSelect # "documents" THEN X!TotalledByIndex(fields)
                    ELSE xVersion >= 14 /\ (X!InFields = {} \/ X!RangeFields = {}) =>
                           X!ServedByScan(fields)
  BY DEF X!PassedIsServed
<1>1. CASE xSelect # "documents"
  <2>1. X!IndexCheck = X!AggregateCheck
    BY <1>1 DEF X!IndexCheck
  <2> QED BY <1>1, <2>1, AggregateServed
<1>2. CASE xSelect = "documents"
  <2>1. X!IndexCheck = X!QueryCheck
    BY <1>2 DEF X!IndexCheck
  <2> QED BY <1>2, <2>1, DocumentServed
<1> QED BY <1>1, <1>2

-----------------------------------------------------------------------------
(* QueryKeys.  A request can be read back from its key, so a key has one     *)
(* request.  The words a key begins with tell the hook, except that          *)
(* "documents query", "epoch epochsInfo" and "protocol                       *)
(* versionUpgradeVoteStatus" are used by several, by keys of other lengths.  *)

\* What is put into a key as "", and as 0.
FromEmpty(v) == IF v = EmptyText THEN Undefined ELSE v
FromZero(v) == IF v = 0 THEN Undefined ELSE v

DocumentsCall(key) ==
  IF Len(key) > 7
  THEN <<"query", key[3], key[4], key[5], key[6], key[7], FromEmpty(key[8])>>
  ELSE IF key[3] = "tokenHistory"
  THEN <<"query", key[5], "directPurchase", <<>>, key[6], FromEmpty(key[7])>>
  ELSE <<"query", key[4], "domain", key[5], key[6], FromEmpty(key[7])>>

AggregatedCall(key) ==
  IF key[3] = "count"
  THEN <<key[3], key[4], key[5], key[6], key[7], FromEmpty(key[8])>>
  ELSE <<key[3], key[4], key[5], key[6], key[7], FromEmpty(key[8]), FromEmpty(key[9])>>

UpgradeVotesCall(key) ==
  IF Len(key) = 4 THEN <<"versionUpgradeVoteStatus", FromEmpty(key[3]), key[4]>>
  ELSE <<"allVotes">>

\* The hooks that shape their keys, by the facade and method a key of that length begins with.
Shaped(facade, method, length) ==
  \/ facade = "identities" /\ method = "byNonUniquePublicKeyHash"
  \/ facade = "contracts" /\ method = "getMany"
  \/ facade = "documents" /\ method \in {"history", "query", "aggregate"}
  \/ facade = "epoch" /\ method \in {"current", "evonodesProposedBlocksByRange"}
  \/ facade = "epoch" /\ method = "epochsInfo" /\ length = 4
  \/ facade = "protocol" /\ method = "versionUpgradeVoteStatus"
  \/ facade = "voting" /\ method = "votePollsByEndDate"
  \/ facade = "group" /\ method \in {"contestedResources", "contestedResourceVotersForIdentity"}

ShapedCall(key) ==
  CASE key[2] = "byNonUniquePublicKeyHash" -> <<"byNonUniquePublicKeyHash", key[3], key[4]>>
    [] key[2] = "getMany" -> <<"getMany", key[3]>>
    [] key[2] = "history" -> <<"history", key[3], key[4], key[5], key[6]>>
    [] key[2] = "query" -> DocumentsCall(key)
    [] key[2] = "aggregate" -> AggregatedCall(key)
    [] key[2] = "current" -> <<"current">>
    [] key[2] = "epochsInfo" -> <<"range", key[3], key[4]>>
    [] key[2] = "evonodesProposedBlocksByRange" -> <<"walk", key[4]>>
    [] key[2] = "versionUpgradeVoteStatus" -> UpgradeVotesCall(key)
    [] key[2] = "votePollsByEndDate" ->
         <<"votePollsByEndDate", FromZero(key[3]), FromZero(key[4])>>
    [] key[2] = "contestedResources" ->
         <<"contestedResources", key[3], key[4], key[5], key[6]>>
    [] key[2] = "contestedResourceVotersForIdentity" ->
         <<"voters", key[3], key[4], key[5], key[6], key[7], FromEmpty(key[8]), key[9]>>

Labelled(facade, method) ==
  facade = "dpns" /\ method \in {"isNameAvailable", "isContestedUsername", "isValidUsername"}

\* What the hook asks whose key this is.
CallOf(key) ==
  IF Shaped(key[1], key[2], Len(key)) THEN ShapedCall(key)
  ELSE IF Labelled(key[1], key[2]) THEN <<key[1], key[2], Label[key[3]]>>
  ELSE key

LEMMA NonUniqueCalls == \A r \in K!NonUniqueRequests : r.call = CallOf(r.key)
BY DEF K!NonUniqueRequests, K!Request, CallOf, Shaped, ShapedCall

LEMMA PreviewCalls == \A r \in K!PreviewRequests : r.call = CallOf(r.key)
<1> SUFFICES ASSUME NEW ids \in Lists
             PROVE  <<"getMany", ids>> = CallOf(<<"contracts", "getMany", ids>>)
  BY DEF K!PreviewRequests, K!Request
<1> QED BY DEF CallOf, Shaped, ShapedCall

LEMMA HistoryCalls == \A r \in K!HistoryRequests : r.call = CallOf(r.key)
BY DEF K!HistoryRequests, K!Request, CallOf, Shaped, ShapedCall

LEMMA FromEmptyInverse ==
  \A v \in K!Id0 \cup K!Num0 : FromEmpty(K!OrEmpty(v)) = v
BY KeysAssumption DEF KeysAssumption, FromEmpty, K!OrEmpty, K!Id0, K!Num0

LEMMA AggregateCalls == \A r \in K!AggregateRequests : r.call = CallOf(r.key)
<1>1. ASSUME NEW kind \in {"count", "sum", "avg"}, NEW c \in Ids, NEW t \in Ids,
             NEW filter \in Filters, NEW groups \in Filters, NEW limit \in K!Num0,
             NEW field \in Ids
      PROVE  K!AggregateCall(kind, c, t, filter, groups, limit, field)
               = CallOf(<<"documents", "aggregate", kind, c, t, filter, groups,
                          K!OrEmpty(limit), K!OrEmpty(field)>>)
  <2>1. FromEmpty(K!OrEmpty(limit)) = limit /\ FromEmpty(K!OrEmpty(field)) = field
    BY FromEmptyInverse DEF K!Id0, K!Num0
  <2> QED BY <2>1 DEF K!AggregateCall, CallOf, Shaped, ShapedCall, AggregatedCall
<1> QED BY <1>1 DEF K!AggregateRequests, K!Request

LEMMA PagedCalls == \A r \in K!PagedRequests : r.call = CallOf(r.key)
<1>1. \A after \in K!Id0 : FromEmpty(K!OrEmpty(after)) = after
  BY FromEmptyInverse
<1>2. \A c \in Ids, limit \in Numbers, after \in K!Id0 :
        <<"query", c, "directPurchase", <<>>, limit, after>>
          = CallOf(<<"documents", "query", "tokenHistory", "directPurchase", c, limit,
                     K!OrEmpty(after)>>)
  BY <1>1 DEF CallOf, Shaped, ShapedCall, DocumentsCall
<1>3. \A c \in Ids, prefix \in Names, limit \in Numbers, after \in K!Id0 :
        <<"query", c, "domain", prefix, limit, after>>
          = CallOf(<<"documents", "query", "dpnsPrefix", c, prefix, limit, K!OrEmpty(after)>>)
  BY <1>1 DEF CallOf, Shaped, ShapedCall, DocumentsCall
<1> QED BY <1>2, <1>3 DEF K!PagedRequests, K!Request

LEMMA EpochCalls == \A r \in K!CombinedEpochRequests : r.call = CallOf(r.key)
BY DEF K!CombinedEpochRequests, K!Request, CallOf, Shaped, ShapedCall

LEMMA VotingCalls == \A r \in K!VotingRequests : r.call = CallOf(r.key)
<1>1. \A start \in K!Id0 : FromEmpty(K!OrEmpty(start)) = start
  BY FromEmptyInverse
<1>2. \A date \in K!Dates : FromZero(IF date = Undefined THEN 0 ELSE date) = date
  BY DEF FromZero, K!Dates
<1>3. \A start \in K!Id0, count \in Numbers :
        <<"versionUpgradeVoteStatus", start, count>>
          = CallOf(<<"protocol", "versionUpgradeVoteStatus", K!OrEmpty(start), count>>)
  BY <1>1 DEF CallOf, Shaped, ShapedCall, UpgradeVotesCall
<1>4. <<"allVotes">> = CallOf(<<"protocol", "versionUpgradeVoteStatus", "all">>)
  <2> DEFINE key == <<"protocol", "versionUpgradeVoteStatus", "all">>
  <2>1. key[1] = "protocol" /\ key[2] = "versionUpgradeVoteStatus" /\ Len(key) = 3
    OBVIOUS
  <2> HIDE DEF key
  <2>2. CallOf(key) = <<"allVotes">>
    BY <2>1 DEF CallOf, Shaped, ShapedCall, UpgradeVotesCall
  <2> QED BY <2>2 DEF key
<1>5. \A from, to \in K!Dates :
        <<"votePollsByEndDate", from, to>>
          = CallOf(<<"voting", "votePollsByEndDate",
                     IF from = Undefined THEN 0 ELSE from, IF to = Undefined THEN 0 ELSE to>>)
  BY <1>2 DEF CallOf, Shaped, ShapedCall
<1> QED BY <1>3, <1>4, <1>5 DEF K!VotingRequests, K!Request

LEMMA ContestCalls == \A r \in K!ContestRequests : r.call = CallOf(r.key)
<1>1. \A after \in K!Id0 : FromEmpty(K!OrEmpty(after)) = after
  BY FromEmptyInverse
<1> QED BY <1>1
        DEF K!ContestRequests, K!VotersKey, K!Request, CallOf, Shaped, ShapedCall

LEMMA DocumentsCalls == \A r \in K!DocumentsRequests : r.call = CallOf(r.key)
<1>1. ASSUME NEW c \in Ids, NEW t \in Ids, NEW filter \in Filters, NEW order \in Filters,
             NEW limit \in Numbers, NEW after \in K!Id0, NEW execution \in K!ExecutionIds
      PROVE  <<"query", c, t, filter, order, limit, after>>
               = CallOf(K!DocumentsKey(c, t, filter, order, limit, after, execution))
  <2> DEFINE words == <<"documents", "query", c, t, filter, order, limit, K!OrEmpty(after)>>
             Parts0 == {"documents", "query", c, t, filter, order, limit, K!OrEmpty(after),
                        "execution"} \cup Ids
             key == words \o execution
  <2>1. words \in Seq(Parts0) /\ Len(words) = 8
    OBVIOUS
  <2>2. execution \in Seq(Parts0)
    <3>1. CASE execution = <<>>
      BY <3>1
    <3>2. CASE execution # <<>>
      <4> PICK i \in Ids : execution = <<"execution", i>>
        BY <3>2 DEF K!ExecutionIds
      <4> QED OBVIOUS
    <3> QED BY <3>1, <3>2
  <2>3. /\ words[1] = "documents" /\ words[2] = "query" /\ words[3] = c /\ words[4] = t
        /\ words[5] = filter /\ words[6] = order /\ words[7] = limit
        /\ words[8] = K!OrEmpty(after)
    OBVIOUS
  <2> HIDE DEF words, Parts0
  <2>4. /\ Len(key) = 8 + Len(execution) /\ Len(execution) \in Nat
        /\ \A i \in 1..8 : key[i] = words[i]
    <3>1. Len(execution) \in Nat
      BY <2>2, LenProperties
    <3>2. /\ Len(words \o execution) = Len(words) + Len(execution)
          /\ \A i \in 1..(Len(words) + Len(execution)) :
               (words \o execution)[i] = IF i <= Len(words) THEN words[i]
                                                           ELSE execution[i - Len(words)]
      BY <2>1, <2>2, ConcatProperties
    <3> QED BY <2>1, <3>1, <3>2
  <2>5. FromEmpty(K!OrEmpty(after)) = after
    BY FromEmptyInverse
  <2>6. K!DocumentsKey(c, t, filter, order, limit, after, execution) = key
    BY DEF K!DocumentsKey, words
  <2> HIDE DEF key
  <2>7. /\ key[1] = "documents" /\ key[2] = "query" /\ key[3] = c /\ key[4] = t
        /\ key[5] = filter /\ key[6] = order /\ key[7] = limit
        /\ key[8] = K!OrEmpty(after) /\ Len(key) > 7
    BY <2>3, <2>4
  <2> QED BY <2>5, <2>6, <2>7 DEF CallOf, Shaped, ShapedCall, DocumentsCall
<1> QED BY <1>1 DEF K!DocumentsRequests, K!Request

\* The hooks whose keys are their arguments: no other hook begins its keys like theirs, and a
\* hook that asks for a label takes a name only.
PlainRow(row) ==
  LET facade == row.method[1]
      method == row.method[2]
  IN /\ row.method = <<facade, method>> /\ Len(row.kinds) \in 0..4
     /\ ~Shaped(facade, method, 2 + Len(row.kinds))
     /\ Labelled(facade, method) => Len(row.kinds) = 1

LEMMA RowsArePlain == \A row \in K!Rows : PlainRow(row)
<1>1. \A row \in K!IdentityReads : PlainRow(row)
  BY DEF K!IdentityReads, K!Row, PlainRow, Shaped, Labelled
<1>2. \A row \in K!ContractReads : PlainRow(row)
  BY DEF K!ContractReads, K!Row, PlainRow, Shaped, Labelled
<1>3. \A row \in K!DocumentReads : PlainRow(row)
  BY DEF K!DocumentReads, K!Row, PlainRow, Shaped, Labelled
<1>4. \A row \in K!TokenReads : PlainRow(row)
  BY DEF K!TokenReads, K!Row, PlainRow, Shaped, Labelled
<1>5. \A row \in K!AddressReads : PlainRow(row)
  BY DEF K!AddressReads, K!Row, PlainRow, Shaped, Labelled
<1>6. \A row \in K!DpnsReads : PlainRow(row)
  BY DEF K!DpnsReads, K!Row, PlainRow, Shaped, Labelled
<1>7. \A row \in K!TransitionReads : PlainRow(row)
  BY DEF K!TransitionReads, K!Row, PlainRow, Shaped, Labelled
<1>8. \A row \in K!GroupReads : PlainRow(row)
  BY DEF K!GroupReads, K!Row, PlainRow, Shaped, Labelled
<1>9. \A row \in K!EpochReads : PlainRow(row)
  BY DEF K!EpochReads, K!Row, PlainRow, Shaped, Labelled
<1>10. \A row \in K!SystemReads : PlainRow(row)
  BY DEF K!SystemReads, K!Row, PlainRow, Shaped, Labelled
<1>11. \A row \in K!ShieldedReads : PlainRow(row)
  BY DEF K!ShieldedReads, K!Row, PlainRow, Shaped, Labelled
<1> QED BY <1>1, <1>2, <1>3, <1>4, <1>5, <1>6, <1>7, <1>8, <1>9, <1>10, <1>11 DEF K!Rows

\* Arguments come in the number the hook takes, and none is missing.
LEMMA ArgumentsOfKinds ==
  ASSUME NEW row, PlainRow(row), NEW args \in K!Arguments(row)
  PROVE  /\ Len(args) = Len(row.kinds) /\ args = [i \in 1..Len(args) |-> args[i]]
         /\ \A i \in 1..Len(args) : args[i] # Undefined
         /\ \A words : (\A i \in 1..Len(args) : args[i] \in words) => args \in Seq(words)
<1> DEFINE V(i) == K!Values(row.kinds[i])
<1>1. Len(row.kinds) \in 0..4
  BY DEF PlainRow
<1>2. \A i : \A v \in V(i) : v # Undefined
  BY DEF K!Values, K!Ready
<1> HIDE DEF V
<1>3. CASE Len(row.kinds) = 0
  <2>1. args = <<>>
    BY <1>3 DEF K!Arguments
  <2> QED BY <1>3, <2>1
<1>4. CASE Len(row.kinds) = 1
  <2> PICK v \in V(1) : args = <<v>>
    BY <1>4 DEF K!Arguments, V
  <2> QED BY <1>2, <1>4
<1>5. CASE Len(row.kinds) = 2
  <2> PICK v \in V(1), w \in V(2) : args = <<v, w>>
    BY <1>5 DEF K!Arguments, V
  <2> QED BY <1>2, <1>5
<1>6. CASE Len(row.kinds) = 3
  <2> PICK v \in V(1), w \in V(2), x \in V(3) : args = <<v, w, x>>
    BY <1>6 DEF K!Arguments, V
  <2> QED BY <1>2, <1>6
<1>7. CASE Len(row.kinds) = 4
  <2> PICK v \in V(1), w \in V(2), x \in V(3), y \in V(4) : args = <<v, w, x, y>>
    BY <1>7 DEF K!Arguments, V
  <2> QED BY <1>2, <1>7
<1> QED BY <1>1, <1>3, <1>4, <1>5, <1>6, <1>7

\* A list among the arguments is in the key as it is, since no argument is missing.
LEMMA KeyOfArguments ==
  ASSUME NEW row, PlainRow(row), NEW args \in K!Arguments(row)
  PROVE  K!RowKey(row, args) = row.method \o args
<1>1. \A i \in 1..Len(args) : K!Joined(args[i]) = args[i]
  BY ArgumentsOfKinds DEF K!Joined
<1>2. [i \in 1..Len(args) |->
         IF row.kinds[i] \in {"ids", "values"} THEN K!Joined(args[i]) ELSE args[i]]
        = [i \in 1..Len(args) |-> args[i]]
  BY <1>1
<1>3. args = [i \in 1..Len(args) |-> args[i]]
  BY ArgumentsOfKinds
<1> QED BY <1>2, <1>3 DEF K!RowKey

\* A key begins with the method, and goes on with the arguments.
LEMMA KeyBegins ==
  ASSUME NEW words, NEW method \in Seq(words), Len(method) = 2, NEW args \in Seq(words)
  PROVE  /\ Len(method \o args) = 2 + Len(args)
         /\ (method \o args)[1] = method[1] /\ (method \o args)[2] = method[2]
         /\ Len(args) = 1 => (method \o args)[3] = args[1]
<1>1. Len(args) \in Nat
  BY LenProperties
<1>2. /\ Len(method \o args) = Len(method) + Len(args)
      /\ \A i \in 1..(Len(method) + Len(args)) :
           (method \o args)[i] = IF i <= Len(method) THEN method[i] ELSE args[i - Len(method)]
  BY ConcatProperties
<1> QED BY <1>1, <1>2

LEMMA RowCalls == \A r \in K!RowRequests : r.call = CallOf(r.key)
<1>1. ASSUME NEW row \in K!Rows, NEW args \in K!Arguments(row)
      PROVE  K!RowCall(row, args) = CallOf(K!RowKey(row, args))
  <2> DEFINE facade == row.method[1]
             method == row.method[2]
             words == {args[i] : i \in 1..Len(args)} \cup {facade, method}
             key == row.method \o args
  <2>1. PlainRow(row)
    BY RowsArePlain
  <2>2. /\ row.method = <<facade, method>> /\ Len(row.kinds) \in 0..4
        /\ ~Shaped(facade, method, 2 + Len(row.kinds))
        /\ Labelled(facade, method) => Len(row.kinds) = 1
    BY <2>1 DEF PlainRow
  <2>3. args \in Seq(words) /\ Len(args) = Len(row.kinds)
    BY <2>1, ArgumentsOfKinds
  <2>4. row.method \in Seq(words) /\ Len(row.method) = 2
    <3> HIDE DEF facade, method
    <3> QED BY <2>2
  <2> HIDE DEF words
  <2>5. /\ Len(key) = 2 + Len(row.kinds)
        /\ key[1] = facade /\ key[2] = method
        /\ Len(row.kinds) = 1 => key[3] = args[1]
    <3> HIDE DEF facade, method
    <3> QED BY <2>2, <2>3, <2>4, KeyBegins
  <2>6. K!RowKey(row, args) = key
    BY <2>1, KeyOfArguments
  <2>7. row.method \in K!Labelled <=> Labelled(facade, method)
    <3> HIDE DEF facade, method
    <3> QED BY <2>2 DEF K!Labelled, Labelled
  <2>8. CASE Labelled(facade, method)
    <3>1. K!RowCall(row, args) = <<facade, method, Label[args[1]]>>
      BY <2>7, <2>8 DEF K!RowCall
    <3> HIDE DEF facade, method, key
    <3> QED BY <2>2, <2>5, <2>6, <2>8, <3>1 DEF CallOf
  <2>9. CASE ~Labelled(facade, method)
    <3>1. K!RowCall(row, args) = key
      BY <2>7, <2>9 DEF K!RowCall
    <3> HIDE DEF facade, method, key
    <3> QED BY <2>2, <2>5, <2>6, <2>9, <3>1 DEF CallOf
  <2> QED BY <2>8, <2>9
<1> QED BY <1>1 DEF K!RowRequests, K!Request

\* Requests that share a key ask the same.
LEMMA CallOfKey == \A r \in K!Requests : r.call = CallOf(r.key)
BY RowCalls, NonUniqueCalls, PreviewCalls, HistoryCalls, DocumentsCalls, AggregateCalls,
   PagedCalls, EpochCalls, VotingCalls, ContestCalls DEF K!Requests

\* The cache answers the page with a request filed under the same key.
KeysInv == kPage \in K!Requests /\ kCached \in K!Requests /\ kCached.key = kPage.key

LEMMA InitKeys == K!Init => KeysInv
BY DEF K!Init, KeysInv

LEMMA NextKeys == KeysInv /\ K!Next => KeysInv'
<1> SUFFICES ASSUME KeysInv, K!Next PROVE KeysInv'
  OBVIOUS
<1>1. ASSUME NEW r \in K!Requests, K!Ask(r) PROVE KeysInv'
  BY <1>1 DEF KeysInv, K!Ask
<1>2. CASE K!Refetch
  BY <1>2 DEF KeysInv, K!Refetch
<1> QED BY <1>1, <1>2 DEF K!Next

LEMMA KeysHold == KeysInv => K!PageShowsItsRequest
BY CallOfKey DEF KeysInv, K!PageShowsItsRequest

LEMMA KeysStutter == KeysInv /\ UNCHANGED keysVars => KeysInv'
BY DEF keysVars, KeysInv

-----------------------------------------------------------------------------
(* The parts together: a behaviour is of one of them.                      *)

ReadsInv ==
  /\ part = "keys" => KeysInv
  /\ part = "walks" => WalkInv
  /\ part = "epoch" => EpochInv
  /\ part = "contract" => CacheInv
  /\ part = "protocol" => ProtocolInv
  /\ part = "store" => StoreInv
  /\ part = "indexes" => IndexInv
  /\ part = "workspace" => RunInv
  /\ part = "history" => HistoryInv
  /\ part = "lists" => ListInv

LEMMA InitReads == Init => ReadsInv
<1> SUFFICES ASSUME Init PROVE ReadsInv
  OBVIOUS
<1>1. /\ part = "keys" => K!Init
      /\ part = "walks" => W!Init
      /\ E!Init /\ C!Init /\ Store!Init
      /\ part = "protocol" => P!Init
  BY DEF Init, ReadsInit
<1>2. /\ part = "workspace" => R!Init
      /\ part = "indexes" => X!Init
      /\ H!Init
      /\ part = "lists" => L!Init
  BY DEF Init, BrowserInit
<1> QED BY <1>1, <1>2, InitKeys, InitWalk, InitEpoch, InitCache, InitProtocol, InitStore, InitRun,
           InitIndex, InitHistory, InitList DEF ReadsInv

LEMMA NextReads ==
  ASSUME ReadsInv, [Next]_vars
  PROVE  ReadsInv'
<1>1. CASE WalksNext
  <2>1. part = "walks" /\ part' = part /\ W!Next
    BY <1>1 DEF WalksNext
  <2> QED BY <2>1, NextWalk DEF ReadsInv
<1>2. CASE EpochNext
  <2>1. part = "epoch" /\ part' = part /\ E!Next
    BY <1>2 DEF EpochNext
  <2> QED BY <2>1, NextEpoch DEF ReadsInv
<1>3. CASE ContractNext
  <2>1. part = "contract" /\ part' = part /\ C!Next
    BY <1>3 DEF ContractNext
  <2> QED BY <2>1, NextCache DEF ReadsInv
<1>4. CASE ProtocolNext
  <2>1. part = "protocol" /\ part' = part /\ P!Next
    BY <1>4 DEF ProtocolNext
  <2> QED BY <2>1, NextProtocol DEF ReadsInv
<1>5. CASE WorkspaceNext
  <2>1. part = "workspace" /\ part' = part /\ R!Next
    BY <1>5 DEF WorkspaceNext
  <2> QED BY <2>1, NextRun DEF ReadsInv
<1>6. CASE HistoryNext
  <2>1. part = "history" /\ part' = part /\ H!Next
    BY <1>6 DEF HistoryNext
  <2> QED BY <2>1, NextHistory DEF ReadsInv
<1>7. CASE ListNext
  <2>1. part = "lists" /\ part' = part /\ L!Next
    BY <1>7 DEF ListNext
  <2> QED BY <2>1, NextList DEF ReadsInv
<1>8. CASE StoreNext
  <2>1. part = "store" /\ part' = part /\ Store!Next
    BY <1>8 DEF StoreNext
  <2> QED BY <2>1, NextStore DEF ReadsInv
<1>9. CASE IndexNext
  <2>1. part = "indexes" /\ part' = part /\ X!Next
    BY <1>9 DEF IndexNext
  <2> QED BY <2>1, NextIndex DEF ReadsInv
<1>10. CASE KeysNext
  <2>1. part = "keys" /\ part' = part /\ K!Next
    BY <1>10 DEF KeysNext
  <2> QED BY <2>1, NextKeys DEF ReadsInv
<1>11. CASE PagesNext
  <2>1. part = "pages" /\ part' = part
    BY <1>11 DEF PagesNext
  <2> QED BY <2>1 DEF ReadsInv
<1>12. CASE UNCHANGED vars
  <2>1. /\ part' = part /\ UNCHANGED keysVars /\ UNCHANGED walksVars /\ UNCHANGED epochVars
        /\ UNCHANGED contractVars /\ UNCHANGED protocolVars /\ UNCHANGED storeVars
    BY <1>12 DEF vars, readVars
  <2>2. /\ UNCHANGED runVars /\ UNCHANGED indexVars /\ UNCHANGED historyVars
        /\ UNCHANGED listVars
    BY <1>12 DEF vars, browserVars
  <2> QED BY <2>1, <2>2, KeysStutter, WalkStutters, EpochStutters, CacheStutters, ProtocolStutters,
             StoreStutters, RunStutters, IndexStutters, HistoryStutters, ListStutters
         DEF ReadsInv
<1> QED BY <1>1, <1>2, <1>3, <1>4, <1>5, <1>6, <1>7, <1>8, <1>9, <1>10, <1>11, <1>12
    DEF Next

\* What the parts hold, whatever the constants are.
THEOREM ReadsInvariant == Spec => []ReadsInv
BY InitReads, NextReads, PTL DEF Spec

\* QueryKeys: requests that share a cache key ask the same, so that no page shows the answer
\* to another request than its own; for any identifiers, names, numbers, lists and filters.
THEOREM PagesShowTheirRequests == Spec => []PageShowsItsRequest
<1>1. ReadsInv => PageShowsItsRequest
  BY KeysHold DEF ReadsInv, PageShowsItsRequest
<1> QED BY <1>1, ReadsInvariant, PTL

\* Walks: a walk that does not say it is truncated gathered all Platform held throughout.
THEOREM WalksAreComplete == Spec => []CompleteOrTruncated
<1>1. ReadsInv => CompleteOrTruncated
  BY DEF ReadsInv, WalkInv, CompleteOrTruncated
<1> QED BY <1>1, ReadsInvariant, PTL

\* CurrentEpoch: the epoch published is of the latest time any answer was signed with, an
\* honest chain is never called contradictory, and only three rollovers end the query.
THEOREM EpochIsEstablished == Spec => []EpochEstablished
<1>1. ReadsInv => EpochEstablished
  BY EpochHolds DEF ReadsInv, EpochEstablished
<1> QED BY <1>1, ReadsInvariant, PTL

\* ContractCache: a read that ends as of a stale cache asked for what the contract does not
\* have as far as it knows, or an outage denied it its refresh.
THEOREM OneRefreshSuffices == Spec => []StaleEndsWithRefresh
<1>1. ReadsInv => StaleEndsWithRefresh
  BY DEF ReadsInv, CacheInv, StaleEndsWithRefresh
<1> QED BY <1>1, ReadsInvariant, PTL

\* ProtocolVersion: a write is built by rules the network has run since its check, every
\* refusal has its banner, and clearing the cache after a reset is enough.
THEOREM WritesFollowTheNetwork == Spec => []WritesFollowNetwork
<1>1. ReadsInv => WritesFollowNetwork
  BY ProtocolHolds DEF ReadsInv, WritesFollowNetwork
<1> QED BY <1>1, ReadsInvariant, PTL

\* QueryProofStore.tsx: whatever the limits, the keys and the sizes of the entries, the
\* count of bytes is the sum of what is kept and within its limit, pages show what is kept,
\* and nothing recorded before a clear() is.
THEOREM EvidenceIsUpToDate == Spec => []EvidenceUpToDate
<1>1. ReadsInv => EvidenceUpToDate
  BY EvidenceHolds DEF ReadsInv, EvidenceUpToDate
<1> QED BY <1>1, ReadsInvariant, PTL

\* QueryWorkspace: a result on screen answers the text, contract, session and page on it.
THEOREM ResultsAreOfContext == Spec => []ResultsOfContext
<1>1. ReadsInv => ResultsOfContext
  BY RunShowsItsContext DEF ReadsInv, ResultsOfContext
<1> QED BY <1>1, ReadsInvariant, PTL

\* QueryWorkspace: never do three statements run, and none waits while fewer than two do.
THEOREM StatementsTakeTheirTurns == Spec => []StatementsTakeTurns
<1>1. ReadsInv => StatementsTakeTurns
  BY RunTakesTurns DEF ReadsInv, StatementsTakeTurns
<1> QED BY <1>1, ReadsInvariant, PTL

\* QueryIndexes: whatever a document type's indexes and however a statement is edited, one
\* that passes the checks of the editor is served by the index they name: one scan of it
\* gives the rows asked for in the order asked for, or it totals the rows asked for.
THEOREM PassedStatementsAreServed == Spec => []PassedIsServed
<1>1. ReadsInv /\ part = "indexes" => X!PassedIsServed
  BY PassedHolds DEF ReadsInv
<1> QED BY <1>1, ReadsInvariant, PTL DEF PassedIsServed

\* ViewedIdentities: history is shown only under the consent it was recorded under, and
\* not again by a tab that withdrew it or erased it.
THEOREM HistoryIsOfConsent == Spec => []HistoryNeedsConsent
<1>1. ReadsInv => HistoryNeedsConsent
  BY HistoryHolds DEF ReadsInv, HistoryNeedsConsent
<1> QED BY <1>1, ReadsInvariant, PTL

\* LocalLists: what a user saves stays until a user removes it, but for what another tab
\* writes over, which cannot know of it: its change had read the list before, or its
\* snapshot of the registry is behind.  The lists keep their limits.
THEOREM EntriesAreKept == Spec => []EntriesKept
<1>1. ReadsInv => EntriesKept
  BY ListHolds DEF ReadsInv, EntriesKept
<1> QED BY <1>1, ReadsInvariant, PTL
=============================================================================
