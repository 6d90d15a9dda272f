------------------------------- MODULE QueryKeys -------------------------------
(***************************************************************************)
(* The reads of src/sdk/queries.ts: which cache key each hook files its      *)
(* answer under, what it asks the SDK, and when it asks.                    *)
(*                                                                         *)
(* A page asks by calling a hook with arguments; the cache knows the request *)
(* by its key only.  Two requests that share a key share an answer, whatever *)
(* they would have asked.                                                   *)
(***************************************************************************)
EXTENDS Naturals, Sequences

CONSTANTS
    Ids,     \* identifiers, hashes, names of document types and indexes
    Names,   \* labels a user may type, with and without the .dash suffix
    Label,   \* Label[n]: toLabel of a name
    Numbers, \* epochs, positions, counts, limits, times
    Lists,   \* lists of identifiers or of index values; <<>> is the empty one
    Filters, \* the texts of filters, orderings and groupings
    Absent,  \* undefined
    Empty    \* the empty string

VARIABLES
    page,  \* the request the page makes
    cached \* the request whose answer the cache has under the page's key

vars == <<page, cached>>

Id0 == Ids \cup {Absent}
Num0 == Numbers \cup {Absent}
Lists0 == Lists \cup {Absent}

\* `list?.join(',') ?? ''` and JSON.stringify(list ?? []): ids hold no comma.
Joined(list) == IF list = Absent THEN <<>> ELSE list
OrEmpty(v) == IF v = Absent THEN Empty ELSE v

-----------------------------------------------------------------------------
(* Hooks whose key is the method's name and arguments, and which ask once     *)
(* the arguments are known: [the method, the kinds of its arguments].        *)

Row(facade, method, kinds) == [method |-> <<facade, method>>, kinds |-> kinds]

IdentityReads ==
    {Row("identities", m, <<"id">>) :
        m \in {"fetch", "getKeys", "byPublicKeyHash", "balanceAndRevision", "nonce"}}
    \cup {Row("identities", m, <<"id", "id">>) : m \in {"contractNonce", "contractKeys"}}

ContractReads ==
    {Row("contracts", m, <<"id">>) : m \in {"fetch", "getHistory"}}

DocumentReads == {Row("documents", "get", <<"id", "id", "id">>)}

TokenReads ==
    {Row("tokens", m, <<"id">>) : m \in {"totalSupply", "contractInfo"}}
    \cup {Row("tokens", m, <<"ids">>) : m \in {"statuses", "directPurchasePrices"}}
    \cup {Row("tokens", m, <<"id", "ids">>) :
            m \in {"identityBalances", "balances", "identityTokenInfos"}}
    \cup {Row("tokens", "perpetualDistributionLastClaim", <<"id", "id">>)}

AddressReads == {Row("addresses", "get", <<"id">>)}

DpnsReads ==
    {Row("dpns", m, <<"id">>) : m \in {"username", "usernames"}}
    \cup {Row("dpns", m, <<"name">>) :
            m \in {"resolveName", "getUsernameByName", "isNameAvailable",
                   "isContestedUsername", "isValidUsername"}}

TransitionReads ==
    {Row("stateTransitions", "waitForStateTransitionResult", <<"id">>)}

GroupReads ==
    {Row("voting", "contestedResourceIdentityVotes", <<"id">>),
     Row("group", "identityGroups", <<"id">>),
     Row("group", "groupsDataContracts", <<"ids">>),
     Row("group", "infos", <<"id">>),
     Row("group", "info", <<"id", "number">>),
     Row("group", "members", <<"id", "number">>),
     Row("group", "actions", <<"id", "number", "status">>),
     Row("group", "actionSigners", <<"id", "number", "status", "id">>),
     Row("voting", "contestedResourceVoteState", <<"id", "id", "id", "values">>)}

EpochReads ==
    {Row("epoch", "epochsInfo", <<"number">>),
     Row("epoch", "finalizedInfos", <<"number">>),
     Row("epoch", "evonodesProposedBlocksByIds", <<"number", "ids">>)}

SystemReads ==
    {Row("system", m, <<>>) : m \in {"status", "currentQuorumsInfo", "totalCreditsInPlatform"}}
    \cup {Row("system", "prefundedSpecializedBalance", <<"id">>),
          Row("system", "pathElements", <<"ids", "ids">>),
          Row("protocol", "versionUpgradeState", <<>>)}

ShieldedReads ==
    {Row("shielded", m, <<>>) : m \in {"poolState", "mostRecentAnchor", "anchors"}}
    \cup {Row("shielded", "nullifiers", <<"ids">>),
          Row("shielded", "encryptedNotes", <<"number", "number">>)}

Rows ==
    IdentityReads \cup ContractReads \cup DocumentReads \cup TokenReads \cup AddressReads
    \cup DpnsReads \cup TransitionReads \cup GroupReads \cup EpochReads \cup SystemReads
    \cup ShieldedReads

Domain(kind) ==
    CASE kind = "id" -> Id0 [] kind = "ids" -> Lists0 [] kind = "name" -> Names \cup {Absent}
      [] kind = "number" -> Num0 [] kind = "status" -> {"ACTIVE", "CLOSED"}
      [] kind = "values" -> Lists0

\* `enabled`: every argument is there; only a list of index values may be empty.
Ready(kind, v) == v # Absent /\ (kind = "ids" => v # <<>>)

RowKey(row, args) ==
    row.method \o [i \in 1..Len(args) |->
        IF row.kinds[i] \in {"ids", "values"} THEN Joined(args[i]) ELSE args[i]]

Labelled == {<<"dpns", m>> : m \in {"isNameAvailable", "isContestedUsername", "isValidUsername"}}
RowCall(row, args) ==
    IF row.method \in Labelled THEN <<row.method[1], row.method[2], Label[args[1]]>>
    ELSE row.method \o args

Request(key, call) == [key |-> key, call |-> call]

Values(kind) == {v \in Domain(kind) : Ready(kind, v)}

Arguments(row) ==
    LET V(i) == Values(row.kinds[i])
    IN CASE Len(row.kinds) = 0 -> {<<>>}
         [] Len(row.kinds) = 1 -> {<<v>> : v \in V(1)}
         [] Len(row.kinds) = 2 -> V(1) \X V(2)
         [] Len(row.kinds) = 3 -> V(1) \X V(2) \X V(3)
         [] Len(row.kinds) = 4 -> V(1) \X V(2) \X V(3) \X V(4)

RowRequests ==
    UNION {{Request(RowKey(row, a), RowCall(row, a)) : a \in Arguments(row)} : row \in Rows}

-----------------------------------------------------------------------------
(* Hooks that shape their key or their request.                             *)

\* useIdentitiesByNonUniquePkh
NonUniqueRequests ==
    {Request(<<"identities", "byNonUniquePublicKeyHash", pkh, after>>,
             <<"byNonUniquePublicKeyHash", pkh, after>>) :
        pkh \in Ids, after \in Id0}

\* useContractsPreview, useDocumentHistory
PreviewRequests ==
    {Request(<<"contracts", "getMany", ids>>, <<"getMany", ids>>) : ids \in Lists \ {<<>>}}

HistoryRequests ==
    {Request(<<"documents", "history", c, t, d, after>>, <<"history", c, t, d, after>>) :
        c, t, d \in Ids, after \in {0} \cup Numbers}

\* useDocumentsQuery.  A statement of the workspace adds its execution, and may leave
\* the limit out; the request then has none.
ExecutionIds == {<<>>} \cup {<<"execution", i>> : i \in Ids}

BugNoCursorInKey(c, t, where, order, limit, after, run) ==
    <<"documents", "query", c, t, where, order, limit>> \o run
DocumentsKey(c, t, where, order, limit, after, run) ==
    <<"documents", "query", c, t, where, order, limit, OrEmpty(after)>> \o run

DocumentsRequests ==
    {Request(DocumentsKey(c, t, where, order, limit, after, run),
             <<"query", c, t, where, order, limit, after>>) :
        c, t \in Ids, where, order \in Filters, limit \in Numbers, after \in Id0,
        run \in ExecutionIds}

\* useDocumentsAggregate: of a sum or an average, the field as well.  What is counted is told
\* by the type, the filters, orderings and groupings, of which two stand for three; what an
\* execution adds to the key is as in DocumentsKey, and left out.
AggregateCall(kind, c, t, where, groups, limit, field) ==
    IF kind = "count" THEN <<kind, c, t, where, groups, limit>>
    ELSE <<kind, c, t, where, groups, limit, field>>

AggregateRequests ==
    {Request(<<"documents", "aggregate", kind, c, t, where, groups, OrEmpty(limit),
               OrEmpty(field)>>,
             AggregateCall(kind, c, t, where, groups, limit, field)) :
        kind \in {"count", "sum", "avg"}, c, t \in Ids, where, groups \in Filters,
        limit \in Num0, field \in Ids}

\* useTokenHistoryDirectPurchases, useDpnsPrefixSearch
PagedRequests ==
    {Request(<<"documents", "query", "tokenHistory", "directPurchase", c, limit, OrEmpty(after)>>,
             <<"query", c, "directPurchase", <<>>, limit, after>>) :
        c \in Ids, limit \in Numbers, after \in Id0}
    \cup {Request(<<"documents", "query", "dpnsPrefix", c, prefix, limit, OrEmpty(after)>>,
                  <<"query", c, "domain", prefix, limit, after>>) :
            c \in Ids, prefix \in Names, limit \in Numbers, after \in Id0}

\* useCurrentEpoch, useEpochRange, useAllEvonodeBlocksInEpoch
CombinedEpochRequests ==
    {Request(<<"epoch", "current">>, <<"current">>)}
    \cup {Request(<<"epoch", "epochsInfo", from, to>>, <<"range", from, to>>) :
            from, to \in Numbers}
    \cup {Request(<<"epoch", "evonodesProposedBlocksByRange", "all", n>>, <<"walk", n>>) :
            n \in Numbers}

\* useProtocolVersionUpgradeVoteStatus, useAllProtocolVotes, useVotePollsByEndDate, whose
\* dates are times in milliseconds and not 0.
Dates == (Numbers \ {0}) \cup {Absent}

VotingRequests ==
    {Request(<<"protocol", "versionUpgradeVoteStatus", OrEmpty(start), n>>,
             <<"versionUpgradeVoteStatus", start, n>>) : start \in Id0, n \in Numbers}
    \cup {Request(<<"protocol", "versionUpgradeVoteStatus", "all">>, <<"allVotes">>)}
    \cup {Request(<<"voting", "votePollsByEndDate", IF from = Absent THEN 0 ELSE from,
                    IF to = Absent THEN 0 ELSE to>>,
                  <<"votePollsByEndDate", from, to>>) : from, to \in Dates}

\* useContestedResources, useContestedResourceVoters
VotersKey(c, t, index, values, contender, after, limit) ==
    <<"group", "contestedResourceVotersForIdentity", c, t, index, values, contender,
      OrEmpty(after), limit>>

ContestRequests ==
    {Request(<<"group", "contestedResources", c, t, index, Joined(values)>>,
             <<"contestedResources", c, t, index, Joined(values)>>) :
        c, t, index \in Ids, values \in Lists0}
    \cup {Request(VotersKey(c, t, index, values, contender, after, limit),
                  <<"voters", c, t, index, values, contender, after, limit>>) :
            c, t, index, contender \in Ids, values \in Lists, after \in Id0, limit \in Numbers}

Requests ==
    RowRequests \cup NonUniqueRequests \cup PreviewRequests \cup HistoryRequests
    \cup DocumentsRequests \cup AggregateRequests \cup PagedRequests
    \cup CombinedEpochRequests \cup VotingRequests \cup ContestRequests

-----------------------------------------------------------------------------
(* Pages come and go; the cache keeps what was asked last under the key.     *)

Init == \E r \in Requests : page = r /\ cached = r

\* The page mounts with the request r: within its staleTime the cache's answer will do.
Ask(r) ==
    /\ page' = r
    /\ cached' = IF r.key = cached.key THEN cached ELSE r

\* The answer is stale, or the entry invalid: the page's own request is made.
Refetch == cached' = page /\ UNCHANGED page

Next == (\E r \in Requests : Ask(r)) \/ Refetch

Spec == Init /\ [][Next]_vars

-----------------------------------------------------------------------------
(* Properties.                                                             *)

\* No page is served the answer to another request: requests that differ in what they
\* ask never share a cache key.
PageShowsItsRequest == cached.call = page.call

=============================================================================
