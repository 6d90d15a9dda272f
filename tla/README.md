# Verification of native-platform-explorer

native-platform-explorer is a browser-only explorer and wallet page for Dash
Platform. There is no backend of its own: a React application, exported as
static files, talks to Platform through the evo-sdk (WASM), signs state
transitions with keys it holds in memory, and is served offline by a service
worker. What can go wrong in it is less in any single computation than in the
order of things: SDK sessions that are replaced while their connection is under
way, signers built for a session that is gone, reviews that are approved and then
change under the write, answers of nodes that lag, writes whose answer is lost,
pages built from several queries of which one fails, tabs that write the same
storage, builds that replace each other while pages are loading.

This directory models those parts in TLA+, checks them with TLC and proves with TLAPS,
for every value of the constants, the safety properties of the SDK session, the signer,
the operation shell, the query cache, the service worker, the forms and group writes, the
walks and the epoch, the SDK's caches, the query workspace and browser storage
(section 5). `PROJECT.json` lists components, runs, mutants, the source lines of each
definition, hazards, findings and theorems.

    tlc -workers 2 -config MCSdkSession.cfg MCSdkSession
    tlapm SdkSessionProofs.tla

and so for each `*Proofs` module.

## 1. Inventory of the system

Paths are relative to `src/src` unless they start with `scripts/`; `B/` stands for
`components/broadcast/`.

| Component | State | Operations | Talks to |
|---|---|---|---|
| **SDK session provider** `sdk/SdkProvider.tsx` | network, settings, status, SDK, session id, abort controller; refs beside the React state; the module-level id counter | hydrate, select network (URL, page), block an unknown name, change settings, reconnect, report unreachable, connect with its deadline, free unpublished instances | every consumer of the SDK context; the router; the quorum service |
| **Signer provider** `signer/SignerProvider.tsx` | the connected signer (keys), a connection generation, the reconnect hint in session storage | start a connection in a wallet pane, build the signer, accept or reject it, disconnect, idle out, leave the write pages, unmount | the SDK session (each signer belongs to one), operation shells |
| **Operation shell** `B/OperationShell.tsx`, `executors.ts`, `outcomes.ts`, `form-signing.ts` | inputs, the review with its binding, key lists, the key under review, acknowledgements, the call in flight, the receipt | edit, review, confirm a key, acknowledge, back, execute, start over; the executor's reads, key loading, checks and submission | SDK and signer contexts, Platform |
| **Executors of single operations** `B/executors*`, `B/capabilities.ts`, `signer/keys.ts` | none beyond a call | what each operation reads, checks, submits and frees, and which key may sign it | operation shell |
| **Token operations, group actions** `B/tokens`, `B/executors/tokens.ts` | snapshots of a token and its groups | which operations an identity may run, alone, by a proposal or as a co-signer; confirming a write by reads | executors, token form |
| **Operation forms** `B/forms` | form fields, what was read of the contract, document or token | follow the schema, reload, draft the options of a review | operation shell, Platform |
| **Query hooks** `sdk/hooks.ts`, `sdk/queries.ts`, `sdk/session-keys.ts`, `sdk/errors.ts` | the React Query cache, keyed by session | start, retry, cancel, invalidate, capture a proof, fall back, report unreachable | SDK session, proof store, pages |
| **Query proof store** `contexts/QueryProofStore.tsx` | entries by key with a byte total, dropped count, generation, enabled, drawer | record, evict, clear, enable, open; notify pages | query hooks, inspector |
| **Epoch reads and walks** `sdk/current-epoch.ts`, `sdk/epoch-queries.ts`, `util/epoch.ts`, `util/protocol-votes.ts` | none | establish the current epoch from signed block times; gather proposers, votes and epochs over many pages | network pages |
| **Contract cache, protocol version** `sdk/contract-cache.ts`, `sdk/protocol-version.ts` | the SDK's persisted contracts, its protocol version | refresh a contract, compare the version, clear the SDK cache | executors, SDK session, several tabs |
| **Service worker** `scripts/sw/service-worker.js`, `util/service-worker.ts` | two caches per build, the registration's installing, waiting and active worker; per page: release, controller, prompt | install, carry over, activate, answer requests, offer and accept an update, reload | the browser, the site and its CDN |
| **Well-known registry, saved entities, saved queries** `hooks/useWellKnownRegistry.ts`, `util/exploration.ts`, `util/query-workspace.ts` | lists in local storage, what each tab shows of them | save, remove, clear, follow another tab's change | several tabs |
| **Viewed identities** `util/session.ts` | consent, history, tombstones in memory for what storage refused | consent, withdraw, record, clear | several tabs |
| **Prefetch queue** `hooks/usePrefetch.ts`, `components/layout/PrefetchHost.tsx` | keys active and started, timers | start, finish, time out | query cache, SDK session |
| **Query workspace** `components/query`, `util/schema.ts` | the text, the statements of a run with their pages and results | edit, run, turn a page; which index serves a statement | SDK |
| **Entity pages** `app`, `components/{identity,contract,token,network,epoch,governance}` | tabs, filters, pages | show what the query hooks answer | query hooks |
| **Search, network bar, lookups of tools and forms** `app/search`, `util/search.ts`, `components/layout/MeterBar.tsx`, `sdk/health.ts`, `components/tools` | the text | classify a text, look up all it may name, tell of the lookups together | query hooks |
| **Query inspector, URL state, settings and layout, deserializer and formatting** | display state | rendering and pure conversions | the components above |
| **Kill switch, export hardening** `scripts/` | files | build-time | - |
| **evo-sdk, DAPI, quorum service, React, React Query, browser** | external | modelled only by what the code relies on | - |

How they interact. The SDK provider publishes one SDK per *session*; the session
id and its abort signal are what everything else uses to tell an answer of now
from one of before. The signer provider binds each signer to the SDK it was built
with. A form reads Platform and drafts options; a review in the operation shell binds
them to the SDK session, the signer and the operation, and the executor reads Platform
again and tests that binding before it writes. Queries carry the session in their cache
key and record evidence in the proof store; pages turn several queries into what they
claim. Lists in browser storage are shared by tabs. The service worker is independent
of all that.

What is hard in each, and what makes it correct:

* *SDK session*: `connect()` awaits, its successor starts meanwhile; the
  constructor may answer after its deadline; refs are ahead of React's state, and
  effects run with the values of their render. Correct: one attempt that is not
  aborted, only its SDK published, children never see an SDK of another network,
  no instance freed in use and none forgotten, connecting ends.
* *Signer*: three panes may be building signers while sessions and routes change.
  Correct: key material is held by the connected signer or an attempt under way
  and nowhere else, a late signer is never connected, a page never shows a
  signer with an SDK it was not built for once effects have run.
* *Operation shell*: the approval and the write are separated by renders and by
  network reads. Correct: a write is of the current session, signer and inputs and
  with an approved key; one write per review; an outcome of "not submitted" is
  true; a receipt survives what a review must not; secrets are dropped.
* *Executors*: a dozen steps, any of which throws, also after Platform took the
  transition. Correct: the verdict is true and stays true, the reviewed key signs,
  no key material outlives the call.
* *Tokens and groups*: the form decides from a snapshot, the executor from fresh
  reads, other members sign meanwhile, nodes lag. Correct: they agree; a receipt is
  true; a read confirms only what Platform took.
* *Forms*: contract, type and schema change under the input; refetches answer late.
  Correct: nothing is overwritten that was not edited, and the reviewed document is the
  form's, of its type.
* *Query hooks*: calls cannot be aborted, a proof may fail inside an outage, a write is
  confirmed while a page reads. Correct: answers stay with their session, a failed
  verification is never masked, what was read before a write is stale, a page settles, and requests that
  share a key ask the same.
* *Query proof store*: limits by count and bytes with an incremental total,
  listeners per key. Correct: exact total, limits kept, nothing of before a clear comes
  back, no page shows what is gone.
* *Epochs and walks*: entries come and go between pages, epochs roll over between
  answers. Correct: a walk misses nothing or says it is truncated; what is published is
  the epoch of the latest signed time.
* *Contract cache and protocol version*: persisted by the SDK, shared by tabs, only ever
  raised. Correct: one refresh ends staleness; a write follows rules the network runs.
* *Browser storage*: refuses calls, and tabs overwrite each other. Correct: what is saved is lost
  only to a tab that could not know of it; history only under the consent it was recorded under.
* *Query workspace*: answers of earlier runs and pages arrive late, two statements run at a
  time; an index search by counting and slicing. Correct: a result on screen answers
  what the screen says; no statement is left behind; what passes the check is served.
* *Pages*: every query may fail, be gated off or be empty. Correct: "none" is claimed only
  of what Platform answered so, and failures are shown. A search makes several lookups, one of them
  only after another has found nothing.
* *Service worker*: deploys and roll-backs, a CDN edge that is behind, a second
  worker of another build installing while the first activates, tabs of different
  builds. Correct: a cache never mixes builds, the shell is there offline, a build
  takes over only with consent, an accepted update ends in a reload.

`PROJECT.json` lists the hazards one by one at their source line.

## 2. Modules

    SessionFeed <-- SdkSession          (refinement, checked and proved)
         ^              ^
         |              +-- SdkSessionProofs
    SignerFeed <-- SignerSession        (refinement, checked and proved)
         ^              ^
         |              +-- SignerSessionProofs
         +------ OperationShell <-- OperationShellProofs   (EXTENDS SignerFeed)
    SessionFeed <--- SdkQuery <-- SdkQueryProofs   (EXTENDS SessionFeed)
    WritePromise <-- Executors          (refinement, checked and proved)
    TokenRules <---- TokenForm          (INSTANCE, once for each snapshot)
    Views <--------- IdentityPages, ContractPages, TokenPages, NetworkPages,
                     SearchPages <-- Pages
    alone: QueryKeys, QueryProofStore, Walks, CurrentEpoch, ContractCache,
    ProtocolVersion, DocumentForm, DocumentWrites, ContractUpdates, GroupActions,
    QueryWorkspace, QueryIndexes, LocalLists, ViewedIdentities, Prefetch,
    ServiceWorker <-- ServiceWorkerProofs
    instances of those: MCReads <-- ReadsProofs, MCWrites <-- WritesProofs,
                        MCSigning (of OperationShellProofs and SignerSessionProofs)

`SessionFeed` is the abstract specification of what a consumer of the SDK context
sees: sessions are aborted for good, an SDK appears only for a session that is not
aborted, and retiring a session takes its SDK away in the same step. `SdkSession`
implements it; `SignerFeed` EXTENDS it and adds what a consumer of the signer
context sees, which `SignerSession` implements; `OperationShell` EXTENDS
`SignerFeed`, and `SdkQuery` `SessionFeed`, as their environments. So each module is
checked against the promise of the ones it depends on and not against their whole state
spaces. `WritePromise` is what the shell relies on of an executor.

The `MC*` modules name the values of the constants. Modules that share no state are
checked in one run: a behaviour is of one `part` of `MCReads`, `MCWrites`, `MCLive` or
`MCSigning`, and the others stand still. What bounds an instance is a constant of `MCReads`,
`MCWrites` or `MCSigning` and has its value in the `.cfg`, so that the theorems of
`ReadsProofs`, `WritesProofs` and `MCSigning` are about every value. `MCSigning` takes its
parts by INSTANCE only: where the module that TLC runs and an instance of it both EXTEND a
module with constants, TLC evaluates that module's operators in the instance with the
constants of the first. Operators named `Bug...` are the mutated forms
`PROJECT.json` refers to: each is a plausible bug of the definition after it and is used
by no specification.

### How React is modelled

React decides the order in which this code runs, so the modules share one picture
of it, taken from React 19 as the code uses it:

* a state variable has a *queued* value (what setters wrote) and a *rendered* one
  (`view`, `seen`, `shown...`: what the last commit gave to handlers and effects);
  refs have one value, changed at once;
* updates queued in a click handler are rendered synchronously before anything
  else runs (`flushSync`, `sync`); updates queued in effects and promise
  continuations are rendered later, and anything may run before;
* the passive effects of a commit run after it, child effects first, and before
  the next render; between the commit and its effects other code may run;
* no click lands before the effects of the first mount have run.

`DocumentForm` and `QueryWorkspace` need only the last two: effects see the render they
were queued by, and have run before the next event of the user.

### Sessions, signers, the shell

**SdkSession** (`sdk/SdkProvider.tsx`). `ref` is the refs, `st`/`view` the state queued
and rendered, `attempt[i]` the `connect()` call that took id `i`: its network and
settings, where it is (`phase`) and whether its WASM instance exists, and as history
whether it was started while a name was blocked (`blocked`). `effects` and `connectDeps`
are the connect effect, `url`/`param`/`seenUrl` the address bar, the router and
`UrlNetworkSync`. `Hydrate`, `RunEffects`, `SyncUrl` are effects; `SetNetwork`,
`NavigateUrl`, `SetConnectionSettings`, `Reconnect`, `ReportUnreachable`, `Remount` what
users and consumers do; `ConstructDone/Fails`, `ConnectSucceeds/Fails`,
`DeadlineExpires`, `OrphanSettles` the steps of an attempt. An unknown name goes
through `BlockUnknownNetwork`.

**SignerSession** (`signer/SignerProvider.tsx`). `attempt[k]` is a pane's construction of
signer `k` with the generation and SDK it started with. `StartConnect`, `SignerBuilt`
(`Accept` or `Reject`), `SignerFails`, `Disconnect`, `IdleOut`, `DismissHint`,
`Navigate`, `Unmount`, and the two effects in `RunEffects` (the route and the session).
The SDK session moves by `SdkStep`, a step of `SessionFeed`. `signerRef` and the queued
signer state are always set together and are one variable, so are `generationRef` and
its queued state.

**OperationShell** (`B/OperationShell.tsx`, `executors.ts`, `outcomes.ts`).
`shell`/`seen` are the component's state queued and rendered, `deps` what its three
effects last ran with, `keyRun` and `criteriaRun` their requests under way. `call`
is the executor's call with its program counter: criteria, prepare (load the
pinned key), version, build, assertCurrent, write. `material` is the key loaded.
`SignsInForm` selects the operations that are signed with keys of the form.
`chainKeys` are the keys Platform has enabled, which `DisableKey` shrinks.
Provider steps come from `SignerFeed`. All ways in which a call fails before it
submits are `NotSubmitted`; all acknowledgement boxes are one flag. The end of a call
and the shell's continuation are one step. One shell instance is modelled; `Unmount`
ends it.

**Executors, WritePromise** (`B/executors*.ts`, `B/capabilities.ts`,
`signer/keys.ts`), of all operations but those of tokens, whose executor is in
`GroupActions` and `TokenForm`. An executor is a sequence of steps (`rest` is what is left of it):
read, check, load keys, guard, submit, read back. Any step may throw; the key the user
reviewed may be disabled meanwhile; the same transition may be broadcast elsewhere where
the operation allows it. Two envelopes (`withSigningMaterial`, `executeFormSigned`) turn
what is thrown into a verdict and free keys. `Executors` begins with the capabilities:
the operators that select keys, and the criteria inputs narrow.

### Forms, tokens, groups

**DocumentForm** (`forms/DocumentCreate.tsx`, `SchemaForm.tsx`): the contract and type
picked, the properties with the contract and type each was entered for, the JSON text
beside them, and the options handed to the shell in an effect.
**DocumentWrites** (`forms/Document*.tsx`, `executors.ts`): what is loaded, edited and
reloaded of a document others write too, up to Platform's answer.
**ContractUpdates** (`forms/ContractUpdate.tsx`): texts, resets and the version checked by
the executor.
**TokenRules** (`B/tokens`): every check of every token operation as an operator that
returns the problems found in a snapshot. **TokenForm** instantiates it for the form's
two snapshots and for the executor's own, after which the executor refuses a proposal that
may be a duplicate: `own` is the signer's pending action, `crowded` a full page of them.
**GroupActions** (`B/executors/tokens.ts`): a direct write, a proposal or a co-signature
over blocks; each read is of any block, and the pages of open and closed actions are read
separately. A direct write, and an action that closes, move a balance; `others` counts what
the others' moved.

### Reads and pages

**SdkQuery** (`sdk/hooks.ts`, `sdk/queries.ts` `useSdkQuery`): entries of the React Query
cache keyed by session and key, the SDK calls under way (`call[s][k][n]`, which nothing
aborts), capture and fallback, one retry, invalidation by confirmed writes, the banner,
the evidence. The module begins with what classifies an error, the chain of its causes.
**QueryKeys**: for each hook of `queries.ts` the key, the request and when it asks; lists and
the texts of filters are values of two sets, so that of any length is what the theorem says.
**Walks**, **CurrentEpoch**: page after page, or answer after answer, while Platform goes
on. **ContractCache**, **ProtocolVersion**: what the SDK persists for several tabs; a
refresh that fails or finds nothing leaves the error that asked for it (`outage`).
**QueryProofStore** (`contexts/QueryProofStore.tsx`, `queries.ts` 116-165): `order` and
`stored` are the Map of entries, `retained` the incremental total, `seen[k]` what the
page of key `k` read last, `query[q]` an execution with the generation it started with;
an entry is a size in full and one for its summary.
**Views** is what a component makes of its queries: a set of claims ("loading", "retry",
"failed", "absent", "shows"). The `...Pages` modules give the view of every page and
tab that reads Platform, `SearchPages` that of the global search, of the network bar and of
the lookups of tools and forms, and **Pages** runs them: queries are answered or fail in any order,
are asked again, and the session comes and goes.
**QueryWorkspace** (`components/query`): a run, its statements, the two that are active,
requests that cannot be recalled, and what the statement shows (`Screen`).
**QueryIndexes** (`util/schema.ts`): the index search with its warnings for two protocol
versions, against `ServedByScan` and `TotalledByIndex`, what an index can do.

### Browser storage, prefetches, the worker

**LocalLists**: saved entities, saved queries and the local registry; `stored` is shared,
`shown[t]` what a tab renders, `events` the storage events that have not arrived, `change[t]`
a call between its read and its write, when other tabs may write; storage may refuse any
call. `lost` is what a tab wrote over without having been able to know of it. **ViewedIdentities**: consent, history and what a tab hides in memory because
storage refused to forget it. **Prefetch**: active and started keys, timers, the queries
the host mounts, over sessions.

**ServiceWorker** (`scripts/sw/service-worker.js`, `util/service-worker.ts`).
`pages[b]` and `statics[b]` are the two caches of build `b`, `install` what the
worker that is precaching has put so far and whether the caches it opened still
exist; `installing`, `waiting`, `active`, `skip` and `activating` the
registration; `tab[t]` a page: its build, its controller, the questions it has
asked workers, its prompt. `Deploy` moves the site to any build (forward or
back), `edge` is the copy of `sw.js` the CDN still serves. A request may fail at any
time, which is what being offline comes to. A worker asked for its release may take
longer than the three seconds the page waits. The sweep of the activate event is one step.

## 3. Runs

Every property of a passing run has a mutant of the modelled code that breaks it.

| Run | Property | What it shows |
|---|---|---|
| `sdk_session` | `SingleLiveAttempt` | one attempt that is not aborted, the current session's |
| | `PublishedIsCurrent` | only the current session's SDK is published |
| | `ViewMatchesSelection` | children never see an SDK with a network or options it was not built for |
| | `NoUseAfterFree`, `KeptOnlyIfPublished` | no instance freed in use, none kept without being published |
| | `FeedsSessions` | `SessionFeed` is implemented |
| `sdk_session_live` | `ConnectingEnds` | the startup deadline ends every attempt although the quorum service need never answer |
| `signing` | `OutcomesKept` | "not submitted" is true; a receipt stays through every change of context |
| | `WritesApproved` | one write per review, of the current session, signer and inputs, with an approved key and its own acknowledgement |
| | `SecretsDropped` | inputs and loaded keys do not outlive the call |
| | `KeysOfConnected` | no key material outside the connected signer and attempts under way; late signers rejected |
| | `FeedsSigners` | `SignerFeed` is implemented |
| `sdk_query` | `RetiredSessionsSilent` | answers of a retired session are neither cached, recorded nor shown |
| | `FreshAfterWrite` | what was read before a confirmed write is stale |
| | `EvidenceOfLatest` | the inspector tells of the latest attempt, and agrees with the page |
| | `NoVerificationMasked` | no fallback after a failed verification |
| `reads` | `PageShowsItsRequest` | two requests that share a cache key ask the same |
| | `CompleteOrTruncated` | walks |
| | `EpochEstablished` | epoch of the latest signed time; no contradiction from honest blocks; gives up only over rollovers |
| | `StaleEndsWithRefresh` | one refresh finds what was added while a cache was stale; without it, or with nothing to find, the read ends as stale |
| | `WritesFollowNetwork` | rules of writes, explained refusals, clearing after a reset suffices |
| | `EvidenceUpToDate` | the proof store: pages, limits with an exact count, clears |
| | `ClaimsTrue`, `FailuresShown` | pages: "none" and "loading" are true, failures are told |
| | `ResultsOfContext`, `StatementsTakeTurns` | the query workspace |
| | `PassedIsServed` | the index advice against what an index can do |
| | `HistoryNeedsConsent`, `EntriesKept` | browser storage in two tabs that refuses calls; entries go only to a tab that could not know of them |
| `writes` | `NoLostUpdate`, `ReplacesWhatWasEdited` | document and contract updates |
| | `FormAgreesWithExecutor` | token form and token executor, but for proposals that may be duplicates |
| | `ReceiptTrue` | receipts of token writes, proposals and co-signatures |
| | `DocumentIsOfForm` | the reviewed document is the form's, complete, of its type |
| | `KeepsPromise` | every executor but that of token operations implements `WritePromise` |
| `live` | `PagesSettle` | a page of a ready session gets an answer or an error |
| | `SlotsFreed` | a prefetch frees its slot |
| | `ReloadEnds`, `TakesOverWithConsent`, `ShellServed` | the switch to a new build |
| `sdk_session_retire`, `document_type`, `token_form`, `group_confirm`, `group_balances` | one each | the findings, below |

`SdkQuery` also states two ASSUMEs that TLC evaluates in `sdk_query`: over all errors
of up to two causes, wrapping hides no failed verification; and over pages of up to three
queries, the aggregate tells the worst. They are checks of pure operators, not
assumptions of a proof.

### Bounds

| Modules | Bounds | Why they are enough |
|---|---|---|
| SdkSession | two networks and an unknown name, or one network and two settings; `MaxSessions` 4, `InputRoom` 3 | A hazard involves a session, its successor and one more that supersedes it. An input is taken only while `InputRoom` ids remain (its own, a blocked name's, a connect effect's), so the bound never cuts a sequence of effects short; inputs that start no session are not bounded (`sdk_session_retire`, without unknown names, gets by with 3 and 2) |
| SignerSession | 2 sessions, 3 signers, 2 generations | one signer connected, one late, one newer; a disconnect in between |
| OperationShell | "signed": 1 session, 1 signer, 2 keys, 1 review, 1 retry of the key check; "form": 2 sessions, 2 reviews, 2 operations | each has two of what its question is about; sessions may end in both |
| Executors | every operation, 4 inputs, one key of each purpose and rank and one bound to a document type, 2 keys disabled meanwhile | an executor disables nothing itself: the reviewed key and the one that would replace it |
| SdkQuery | 2 sessions, 1 key with a proof, 2 calls not answered, 1 event, 2 kinds of errors; for liveness 1 session | a call of before and one of after each event |
| QueryKeys | all pairs of requests over two values of each argument and its absence, 0 among the numbers | a key is compared with one other key; proved for every set of values |
| Walks | keys 1..6, pages of 2, at most 3 pages, 2 changes | one entry leaves and one comes, before, at or after the page boundary |
| CurrentEpoch | block times to 9, epochs of 2 | four rollovers, one more than the code repeats |
| ContractCache, ProtocolVersion | 2 tabs, 3 versions | a stale tab, a fresh tab, an update after the first |
| QueryProofStore | 3 keys, 2 queries, sizes to 4 against 3 bytes and 2 entries, 1 clear | an entry alone may exceed the limit, a recording may evict several; a second clear meets the states of the first |
| Pages | every page, tab and search with its facts, each query awaited, failed, empty or full | the view depends on nothing else |
| QueryWorkspace | 3 texts (3, 1, 0 statements), 2 contracts, 2 runs, 3 sessions, 2 pages | three statements queue for two slots |
| QueryIndexes | 2 types with indices of 1 to 4 fields, 3 filters, 2 orderings, protocol versions on both sides of the change of rules | a gap, a suffix, a continuation and a tie each occur |
| DocumentForm, DocumentWrites, ContractUpdates | 2 contracts, 2 types, 3 fetches; 2 documents, revision 2; 2 contracts, version 3 | one that was picked and one that is, one write of others in between |
| TokenForm | 2 tokens, 3 identities, 1 change by others or other tabs, balances 0 and 1; with `Sampled`, kinds reduced to the inputs that matter to them (`TokenSamples`) | rules are held by the signer, another or a group; the theorem is of any `Sampled` |
| GroupActions | 2 actions, 3 blocks, 2 further attempts, a full page or not | before, with and after the write |
| LocalLists, ViewedIdentities | 2 tabs, 2 ids or 1, 2 scopes, lists of 2 items, saved queries of 1, three items a user saves (`Savable`), refusals of storage 1 and 2, 2 consents; tabs are symmetric (`TabSymmetry`) | one tab writes what the other has not heard of, or between its read and its write |
| Prefetch | 1 slot, 2 keys, 2 sessions | one runs, one waits |
| ServiceWorker | 3 builds, 1 tab, 2 deploys | a roll-back, or an accepted worker that is replaced before it activates, takes two deploys; a page is overtaken by a worker an earlier page of the tab accepted |

Deadlock is not checked anywhere: users need not act and counters are bounded, so
every one of these systems may rightly stop.

### Fairness

* SdkSession (`sdk_session_live`, `sdk_session_retire`): weak fairness of React's own
  work (`React`), strong fairness per attempt of constructor answers and of its deadline
  (`setTimeout` fires even if other continuations keep running). None of the quorum
  service, of the user or of URL changes.
* SdkQuery (`live`): weak fairness of the fetch of an entry a page renders without data,
  which React Query starts, and of every step of an SDK call: each DAPI request has its
  timeout.
* Prefetch (`live`): weak fairness of the 30 s timer of each mounted prefetch. None of the SDK's answers.
* ServiceWorker (`live`): weak fairness of `Activate` and `ActivateEvent`, which the
  browser runs when nothing holds them, and of a page's own timers and messages
  (`Page`). None of installs, requests, deploys and users.

Assumptions on timing: React renders an attempt before the quorum service answers it
(`Rendered`), as a network round trip is far longer than a render. In GroupActions, the signer's
identity does not propose the same action from another device between the reads.

## 4. Findings

Disagreements between the code and what its comments or documents say; each of these has
a run in which TLC finds the property violated.

* `RetireStartsSession` (`sdk/SdkProvider.tsx:331`): selecting B (from the URL's effect)
  and A again before React commits B retires the session, but the connect effect
  sees no changed dependency and starts no new one; the provider stays
  "connecting" until the user reconnects. `ConnectingEnds` does hold: it is
  about sessions with an attempt.
* `TypeOfContract` (`B/forms/DocumentCreate.tsx:65`): a document type is chosen only while
  none is. After another contract is picked, or with a link whose type no contract has,
  the form keeps a type the contract lacks and shows another as selected.
* `FullNamesInputs` (`B/forms/tokens/TokenOperationForm.tsx:96`): for a mint whose token
  fixes the recipient the snapshot is loaded for the recipient of the link, or of the
  token named before; the mint is then refused for an identity "that does not exist".
* `ReadConfirmsWrite` (`B/executors/tokens.ts:350`): the pages of open and closed actions
  may be of different blocks; an own action that closes in between is in neither, and a
  proposal Platform never took is confirmed by it. `ReceiptTrue` holds when the reads
  before the write agree.
* `BalancesFollowWrite` (`B/executors/tokens.ts:301`): balances are read after a write until
  they move, but not for a group action, also when it is the signature with which it
  executes: the receipt says so beside balances of a block before it, without a warning.

Seen while modelling, without a run of their own. Where a property has to exempt one of
them it says so.

*Sessions and writes.*
* `SdkProvider.tsx:318`: the connect effect tests the error its render captured; a name
  blocked between that commit and its effects does not stop it. `ViewMatchesSelection`
  exempts such attempts.
* `OperationShell.tsx:239`: `isCurrent` compares with the last render, so a signer replaced
  and not rendered yet passes the check made immediately before the write.
  `WritesApproved` is stated over what React rendered.
* `OperationShell.tsx:311`: a key selection that answers after `purgeSecrets` queued
  its updates and before they are rendered queues `setReviewKey` with the dropped review.
* `TokenOperationForm.tsx`: a link to co-sign a configuration update loses its mode; and under
  lag a member may propose what is proposed already.
* `executors/tokens.ts:431`: a proposal the signer has pending already, or that a full page of
  pending actions may hide, is refused only after it was reviewed and the key unlocked; the form
  does not ask. `FormAgreesWithExecutor` exempts exactly that (`DuplicateRefused`).
* `ContractUpdate.tsx`, `DocumentReplace.tsx`: a form that shows the user's own confirmed
  write as still unwritten until its query is read again.

*Forms.*
* `SchemaForm.tsx`: "Keep JSON view fresh when value updates externally" is not so in the
  JSON view: a change of type resets the properties while the old text stays, and a
  text that is not JSON leaves the options of the one before reviewable.
* A refetch of the contract discards what was entered in the document form.

*Storage.*
* `util/session.ts`: a storage event that was under way when consent was withdrawn, and storage
  refused it, shows the history again.
* `useWellKnownRegistry.ts:88`: a tab's write drops entries another tab has added and
  it has not heard of yet, and a list that cannot be read is taken for an empty one.
* `query-workspace.ts:379`, `exploration.ts:71`: a write of another tab between a tab's read
  and its write is lost. Of both losses `EntriesKept` says exactly when they may occur (`lost`).
* `WellKnownRegistrySettings`: an entry of every network is called "not used" when it is
  shadowed on one of them.
* `contract-cache.ts:33`: a refresh that fails ends the read with the stale cache's error, which
  says nothing of the outage. `StaleEndsWithRefresh` exempts it.
* `contract-cache.ts`: if remembering the contract in storage fails, the contract query fails.

*Reads.*
* `queries.ts`: `limit ?? 25`, and a missing date as 0, share a key with the request that
  names that value. They also ask the same, but for the date.
* `StatementResult.tsx`: "Until system.status answers, apply the most permissive index
  rules" is not so for several IN filters.
* Pages that claim "none" of what failed or was not asked (`AbsenceGap` in Pages): identity
  names, against the document of the detail pages (`docs/prompts/stage-2-detail-pages.md:221`:
  an error card with "Retry"); the members of a group; polls on the home page, and on the polls page before it has
  read the clock; documents under filters that make no query; token balances with no
  token in scope; elements of an empty path (`PathElementsTool`); the network bar and the banner of
  the status page (`app/network/status/page.tsx:173`), which take a Core tip that is awaited
  or failed for a network without an Insight endpoint; and the badges of the status page
  (`page.tsx:154-169`), which say "in sync" and "not listening" of a status that is awaited or
  failed. Pages that wait for what will not come (`WaitGap`): a token's names
  without an owning contract; a token's id, and a contract's tokens, in a failed
  session; a contract that does not exist, in the document tool. Pages that show nothing of a failure (`Asides`), such as that of the
  upgrade state on the protocol page and that of the status on the documents tab.

*Service worker.*
* `service-worker.js:102`: the activate event of one build deletes the caches a worker
  of another build is filling; that worker installs and activates without its
  shell. `ShellServed` makes exactly this exception (`swept`).
* `service-worker.ts:139`: a page taken over before its load event does not hear
  `controllerchange` and is never offered the reload.

## 5. Proofs

The theorems hold for every value of the constants that the ASSUME of the module allows:
how many networks, sessions, signers, keys, reviews, queries, calls, builds, tabs,
documents, contracts, schemas, tokens, group actions, entries, pages, statements, indices
there are is left open. `SessionAssumption`, `QueryAssumption` and `WorkerAssumption` say
of what kind the constants are (`None` is no value of the kind it is missing from), and
`WritesAssumption`, `TokensAssumption`, `ReadsAssumption`, `StoreAssumption` and
`SigningAssumption` do the same for the constants of `MCWrites`, `MCReads` and `MCSigning`.
Beyond kinds, it is assumed

* that the signer is not the other member of the group;
* that a page of a walk holds more than one entry (the code asks for 100), since the walk over
  votes asks for the last one again;
* that an index has a property and names each once (`IndexAssumption`, Platform's rule for
  indices);
* that no identifier and no number is the empty string (`KeysAssumption`), which stands for a
  missing argument in a key.

The theorems of `OperationShellProofs` have `ShellAssumption` as a hypothesis, which
`MCSigning` shows of its two shells (`PartsAssumed`).

| Module | Theorem | States |
|---|---|---|
| `SdkSessionProofs` | `TypeCorrect` | `Spec => []TypeOK` |
| | `SessionInvariant` | `Spec => []SessionInv` |
| | `OneLiveAttempt` | `Spec => []SingleLiveAttempt` |
| | `PublishedCurrent` | `Spec => []PublishedIsCurrent` |
| | `NeverUsedFreed` | `Spec => []NoUseAfterFree` |
| | `ConnectingAccurate` | `Spec => []ConnectingFlagAccurate` |
| | `NoInstanceForgotten` | `Spec => KeptOnlyIfPublished` |
| | `ImplementsSessionFeed` | `Spec => FeedsSessions` |
| | `ViewMatches` | `Spec => []ViewMatchesSelection` |
| `SignerSessionProofs` | `SignerInvariant` | `Spec => []SignerInv` |
| | `KeysHeldByConnected` | `Spec => []KeysOfConnected` |
| | `ImplementsSignerFeed` | `Spec => FeedsSigners` |
| `OperationShellProofs` | `ShellInvariant` | `Spec => []ShellInv` |
| | `OutcomesAreKept` | `Spec => []OutcomesKept` |
| | `SecretsAreDropped` | `Spec => []SecretsDropped` |
| | `WritesAreApproved` | `Spec => [][ApprovedWrite]_vars` |
| `MCSigning` | `OutcomesAreKept` | `Spec => []OutcomesKept` |
| | `SecretsAreDropped` | `Spec => []SecretsDropped` |
| | `WritesAreApproved` | `Spec => WritesApproved` |
| | `KeysHeldByConnected` | `Spec => []KeysOfConnected` |
| | `ImplementsSignerFeed` | `Spec => FeedsSigners` |
| `SdkQueryProofs` | `QueryInvariant` | `Spec => []QueryInv` |
| | `PagesAreFreshAfterWrite` | `Spec => []FreshAfterWrite` |
| | `EvidenceIsOfLatest` | `Spec => []EvidenceOfLatest` |
| | `VerificationIsNotMasked` | `Spec => []NoVerificationMasked` |
| | `RetiredSessionsAreSilent` | `Spec => RetiredSessionsSilent` |
| | `WrappingHidesNoMismatch` | of `Classify`, for error chains of every length |
| `ServiceWorkerProofs` | `WorkerInvariant` | `Spec => []WorkerInv` |
| | `ShellIsServed` | `Spec => []ShellServed` |
| | `TakeOverNeedsConsent` | `Spec => TakesOverWithConsent` |
| `WritesProofs` | `WritesInvariant` | `Spec => []WritesInv` |
| | `NoUpdateIsLost` | `Spec => []NoLostUpdate` |
| | `UpdatesReplaceWhatWasEdited` | `Spec => []ReplacesWhatWasEdited` |
| | `ReceiptsAreTrue` | `Spec => []ReceiptTrue` |
| | `DocumentsAreOfForm` | `Spec => []DocumentIsOfForm` |
| | `FormsAgreeWithExecutor` | `Spec => []FormAgreesWithExecutor` |
| | `ExecutorsKeepPromise` | `Spec => KeepsPromise` |
| `ReadsProofs` | `ReadsInvariant` | `Spec => []ReadsInv` |
| | `PagesShowTheirRequests` | `Spec => []PageShowsItsRequest` |
| | `WalksAreComplete` | `Spec => []CompleteOrTruncated` |
| | `EpochIsEstablished` | `Spec => []EpochEstablished` |
| | `OneRefreshSuffices` | `Spec => []StaleEndsWithRefresh` |
| | `WritesFollowTheNetwork` | `Spec => []WritesFollowNetwork` |
| | `ResultsAreOfContext` | `Spec => []ResultsOfContext` |
| | `StatementsTakeTheirTurns` | `Spec => []StatementsTakeTurns` |
| | `HistoryIsOfConsent` | `Spec => []HistoryNeedsConsent` |
| | `EntriesAreKept` | `Spec => []EntriesKept` |
| | `EvidenceIsUpToDate` | `Spec => []EvidenceUpToDate` |
| | `PassedStatementsAreServed` | `Spec => []PassedIsServed` |

Every one of these proofs has the same shape: an inductive invariant, a conjunction of named
parts; that it holds initially; one lemma for each action, which shows that it is preserved;
and the property as its consequence.

*The session.* None of the properties is inductive. That only the current SDK is published depends
on an attempt that is over never coming back; that it is not freed depends on a
settled attempt owning nothing; that the rendered SDK exists depends on what was
queued before it. `SessionInv` is the conjunction

* `FreshIds`: ids above the counter have no attempt;
* `PhaseOwns`: what an attempt's phase says of its WASM instance;
* `LiveAttemptShown`: an attempt under way and not aborted is the one the refs and the queued
  state speak of;
* `PublishedIsCurrent`, `NoUseAfterFree`, `ConnectingFlagAccurate` themselves,

with `TypeOK`. `ViewMatchesSelection` needs more, as a selection goes through the refs,
the queued state, the commit and the connect effect: `SelectionInv` adds that refs and queued
state agree once hydrated (`Mirrored`), that nothing of a session exists before
(`BeforeHydration`), and that an attempt which may be rendered was made for the selection,
or the connect effect of this commit or the next supersedes it (`Selected`).

*The signer.* `KeysOfConnected` says that a late signer is never connected, but the code
only compares generations. So `SignerInv` has to say what generations mean:

* `OnTime`: while the provider is mounted, an attempt of the current generation was not
  overtaken; whatever replaces or clears the signer takes a new generation;
* `Bound`: every attempt has the session it started in, and `attempt[k].keys` is "held"
  exactly for the connected signer;
* `ShownSdkKnown`: the rendered SDK is the provider's or one whose session is aborted;
* the connected signer was not overtaken.

*The refinements* are shown step by step: each action of the detailed module is a step of
the feed or leaves what the feed speaks of unchanged. For the session the one hard
case is a step that aborts: it has to take the published SDK away at once, which follows
from `PublishedIsCurrent`. For the signer it is accepting one: it has to be
bound to the SDK that is current and rendered, which follows from `ShownSdkKnown`.

*The shell.* What is queued and what is rendered differ. `ShellInv` says

* how far they may drift apart before the next click is handled (`Lag`, `Depends`): only
  by what ends a review or a submission;
* that reviews are numbered as they are taken and nothing is known of later ones
  (`Numbered`), so that the histories speak of one review at most;
* what the call under way has to do with the shell (`Called`): it is of the submission,
  unsettled, with an approved key, not written before, and the loaded key is its own;
* what the histories say of the outcome (`Outcomes`);
* that lists of keys only shrink, so a review's key is the best of its time, and a
  confirmed key that another replaced is not offered again (`Shrinking`, `Best`,
  `Approving`, `Overtaking`). Without this a key check that overtakes the screen could
  have the write signed with a key the user never saw.

That a list of keys has a best one is the one use of well-founded minima here.

*Queries.* `FreshAfterWrite` rests on `RunningCalls`: of each entry at most one call still
counts; it was made for the rendered session after the last confirmed write, or its
invalidation joined it. `EvidenceOfLatest` rests on `EvidenceKept` and `Told`, which say
what the recorder and the entry hold of one and the same attempt; and
`NoVerificationMasked` on a call that goes on without proof never having failed as one
(`Unmasked`).

*The service worker.* `ShellServed` needs that the caches of a build hold its files only
(`CachesOwn`), that an installing worker's caches hold what it has put there unless they
were deleted (`Precaching`), and the same of the waiting and the active worker
(`ShellKept`); consent is kept because only the waiting worker the user accepted skips
waiting (`Consented`). For three deploys, which the run with two does not reach,
the invariant failed at first: the record of deleted caches (`swept`) was cleared when a worker was
found, not when it had filled them. It is now cleared when the worker is installed.

*Writes.* A document or update is of what was loaded (`EditsLoaded`,
`ReplacementOfEdited`, `TextOfPicked`, `UpdateOfEdited`): the revision sent is the one after it,
and Platform takes no other. For the document form, what was entered is of the contract and
type of the render whose effects ran last, by the number of its fetch
(`EntriesOfCommitted`, `OptionsOfCommitted`), and numbers are not used twice
(`FetchNumbers`). A receipt is true because blocks only add signatures and close actions
(`Blockchain`), what was seen of the target is of one of them (`SeenInBlock`), and reads that
miss nothing hold what the signer had proposed before (`BeforeHoldsProposals`). What balances say is argued by the blocks after the snapshot: what the
others moved only grows, and only the write moves the rest (`SeenInBlock`).

The token form and its executor run the same checks over different snapshots. `TokenInv` says
of what: the model the form decides by is of the token that is named (`BaseOfToken`), and as
long as nothing changed the full snapshot is what Platform holds, for the identities it was
loaded for (`FullOfChain`). The executor loads another set of them; a check asks only about
those the operation names, so it finds the same problems in both (`SameProblems`), and
whatever the form calls unavailable has a problem that refuses it (`UnavailableRefused`). What is
left is `DuplicateRefused`, of what neither holds.

An executor's invariant is about the steps it has left (`ScriptInv`): a criterion is
resolved before a key is loaded by it, a key is loaded before a write is submitted with it, a
result is awaited only of what was submitted, and where one of these steps is no longer to
come, its effect is there. A key that was loaded is in the care of its loader or of the
envelope, and one of them frees it however the call ends. `ExecutorsKeepPromise` shows each step of each
operation to be a step of `WritePromise` or to leave what it speaks of unchanged.

*The parts of `MCSigning`* are instances of the modules with the proofs. `PartsAssumed` shows
that the constants of each shell are what `ShellAssumption` asks for; the invariants of the
parts, each under the condition that the behaviour is of that part, are the invariant of
the whole.

*Reads.* `ReadsInv` has one invariant for each part:

* a walk has covered all keys up to where it goes on (`Covered`): after pages of any size and
  whatever comes and goes meanwhile;
* each attempt to read the epoch saw another one (`Attempts`), so three attempts need three
  rollovers; an honest chain has one first block time for each epoch;
* the second read of a contract is built from what the refresh found (`SecondIsRefreshed`);
* what a check of the protocol version has established, in each of its states
  (`Established`), and that what was cleared after a reset is not above the network's version
  (`ClearedIsLow`);
* in the workspace, what a panel may hold (`PanelsHold`), that requests of the run ask what the
  run asks (`OfTheRun`), that a running panel's request is on its way (`AskedFor`) and that two
  run (`TwoAtOnce`). The statement to go on is the first that waits, which exists as the
  minimum of a set of naturals;
* a withdrawal or an erasure is stored, or the tab it was made in remembers it
  (`Withdrawals`, `Erasures`), and history is of the consent in force (`OfThisConsent`);
* a request can be read back from its key (`CallOf`, one lemma for each family of hooks), and
  what is cached and what the page asks have the same key (`KeysInv`);
* the proof store's incremental total is the sum of what it holds, whatever the order, and within
  the limits (`Holding`, from lemmas on sums over a finite set); what it holds was recorded
  after the last clear (`HeldOfTime`), and a query of this generation started after it
  (`QueriesOfTime`);
* what the index advice passes is argued of every statement and index, with no steps (`IndexInv`
  is only what the editor can build). For documents: the fields filtered by equality are,
  counted, the first of the index, the one filtered otherwise is the next, and those it
  is ordered by are a run that begins no later (`DocumentPlan`); so an entry between two that
  are selected agrees with both up to there (`Between`). For aggregates: the
  filters name every field of the index, and ranges are on its last or, where each value of
  the first has a group, on both (`AggregateServed`);
* a list's size (`Sizes`), the scope of what a tab shows (`ShownOfScope`) and that no two
  entries hide each other in any tab's snapshot of the registry (`RegistryDistinct`).

*Operators.* `WrappingHidesNoMismatch` is proved of `Classify` for all chains of causes, where
`VerificationNotMasked`, an ASSUME of `SdkQuery`, evaluates those of up to two. The other operator lemmas are in the
modules that need them: best key of a list, first and last of a set of numbers, first page
of a set of keys and what it leaves out, sizes of sets with one element more or fewer, epochs
of a set of block times.

### Only model-checked

* `ClaimsTrue`, `FailuresShown`: `Pages` has no constants, so TLC enumerates every
  combination of answers; a proof would say no more.
* `AggregateTellsTheWorst`, which TLC evaluates for pages of up to three queries: it is about a
  fold, and what a fold computes for every input is an induction that needs a theorem with an
  operator as parameter, which the provers cannot instantiate.
* An index's entries have three values a field: one between two others, which is all
  that `ServedByScan` asks for. The number is in the model and not a constant.
* Liveness (`ConnectingEnds`, `PagesSettle`, `SlotsFreed`, `ReloadEnds`), and ENABLED: out of the
  reach of the prover's backends.

## 6. Not modelled

* Formatting, parsing and rendering: the SQL parser, the texts of amounts and identifiers,
  decoding of proofs and of raw transitions, charts, layout. They are conversions
  without state.
* The forms of identities, addresses, asset locks and raw transitions, but for what they look
  up: they validate text the user enters and keep no answer of Platform between renders.
* The mathematics of keys, mnemonics and state transitions, and what Platform does
  with a write beyond accepting, refusing, or not answering.
* In the signer: failures of session storage. In the service worker: the kill
  switch, quota evictions, RSC payloads and puts that complete after a failed
  install. In the lists: order, and the validation of what is read back.
* In the pages: charts and pages that show what no query answers (settings, wallet
  panes, decoders, saved lists beyond their store); the thresholds of the network's health;
  and what decorates an entity wherever it is named, which says nothing when it fails: the
  aliases of identities (`useDpnsAlias`), the price of credits in dollars, the
  balance beside the write actions of a token, the notice of an old SDK
  (`SdkVersionNotice`), the protocol version a statement's advice asks for.
* In the index advice: the direction of ORDER BY, and what it passes of the document queries of
  protocol version 13, of which `PassedIsServed` claims nothing.
* The components with status `not_modelled` in `PROJECT.json`, each with its reason.

## 7. Plan

Done: the session, the signer and the shell; the proof store and the service worker; then
the query hooks with their keys, walks and caches, the executors, forms, tokens and
groups, the query workspace, browser storage, prefetches, every page that reads
Platform and the search; the proofs of section 5.

Next, the most important first:

1. Composition of OperationShell with the scripts of Executors in place of its one envelope.
2. The wallet panes (`app/wallet`), and the grouping and truncation of aggregates
   (`components/query/AggregateResults.tsx`).
