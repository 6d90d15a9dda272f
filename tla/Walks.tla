--------------------------------- MODULE Walks ---------------------------------
(***************************************************************************)
(* Reads too large for one SDK call: fetchAllEvonodeBlocks (src/util/        *)
(* epoch.ts), fetchAllProtocolVotes (src/util/protocol-votes.ts) and         *)
(* fetchEpochRange (src/sdk/epoch-queries.ts).                              *)
(*                                                                         *)
(* Each asks page after page while Platform goes on: a page holds what is    *)
(* there when it is asked for.  Entries are numbered in the order of their   *)
(* keys: proTxHashes, or epochs.                                            *)
(***************************************************************************)
EXTENDS Naturals, FiniteSets, FiniteSetsExt

CONSTANTS
    Keys,       \* 1..n: the keys an entry may have, in Platform's order
    PageLimit,  \* entries of a page, or epochs of a batch; more than one
    MaxPages,   \* MAX_PROPOSER_PAGES, MAX_VOTE_PAGES
    MaxChanges  \* bound: entries that come or go during the walk

VARIABLES
    kind,    \* "blocks", "votes", or "range": which of the three
    from,    \* the first key asked for
    to,      \* the last one, of a range
    held,    \* the entries Platform holds
    changes, \* how often they changed
    throughout, \* history: those it has held since the walk began
    out,     \* the entries gathered
    start,   \* the key the next page starts after (blocks) or at
    pages,   \* pages asked for
    phase,   \* "walking", "done", or "cancelled"
    truncated

vars == <<kind, from, to, held, changes, throughout, out, start, pages, phase, truncated>>

\* epochRangeError: the indexes are in order.
Init ==
    /\ kind \in {"blocks", "votes", "range"}
    /\ from \in IF kind = "range" THEN Keys ELSE {1}
    /\ to \in IF kind = "range" THEN from..Cardinality(Keys) ELSE {Cardinality(Keys)}
    /\ held \in SUBSET Keys
    /\ changes = 0 /\ throughout = held
    /\ out = {} /\ pages = 0 /\ phase = "walking" /\ truncated = FALSE
    /\ start = IF kind = "blocks" THEN 0 ELSE from

-----------------------------------------------------------------------------

\* An evonode proposes its first block or is removed; a vote is cast or expires; an
\* epoch gets its first block.
Change ==
    /\ phase = "walking" /\ changes < MaxChanges
    /\ \E k \in Keys :
          /\ kind = "range" => k \notin held
          /\ held' = IF k \in held THEN held \ {k} ELSE held \cup {k}
          /\ throughout' = throughout \ {k}
    /\ changes' = changes + 1
    /\ UNCHANGED <<kind, from, to, out, start, pages, phase, truncated>>

\* The first PageLimit entries of a set of keys.
FirstPage(keys) == {k \in keys : Cardinality({l \in keys : l < k}) < PageLimit}

\* evonodesProposedBlocksByRange: after the cursor.  versionUpgradeVoteStatus: from the
\* start hash, which it repeats.
BlocksPage == FirstPage({k \in held : k > start})
VotesPage == FirstPage({k \in held : k >= start})

\* epochRangeQueries: explicit batches; the last is as long as the range leaves.
Batch(first) == first..Min({first + PageLimit - 1, to})

Ended == phase' = "done" /\ UNCHANGED <<start, truncated>>
GoesOn(next) ==
    /\ start' = next
    /\ IF pages' < MaxPages THEN UNCHANGED <<phase, truncated>>
       ELSE phase' = "done" /\ truncated' = TRUE

BugStopsShort(page) == page = {} \/ Cardinality(page) <= PageLimit
LastPage(page) == page = {} \/ Cardinality(page) < PageLimit

WalkBlocks ==
    /\ kind = "blocks"
    /\ out' = out \cup BlocksPage
    /\ IF LastPage(BlocksPage) THEN Ended ELSE GoesOn(Max(BlocksPage))

\* A page that adds nothing ends the walk, as its start would not move.
NextVoteStart == Max(VotesPage)

WalkVotes ==
    /\ kind = "votes"
    /\ out' = out \cup VotesPage
    /\ IF LastPage(VotesPage) \/ VotesPage \subseteq out THEN Ended ELSE GoesOn(NextVoteStart)

\* Epochs outside the batch asked for are ignored.  A range has no page cap.
ReadBatch ==
    /\ kind = "range"
    /\ out' = out \cup (held \cap Batch(start))
    /\ IF start + PageLimit > to THEN Ended
       ELSE start' = start + PageLimit /\ UNCHANGED <<phase, truncated>>

Page ==
    /\ phase = "walking"
    /\ pages' = pages + 1
    /\ WalkBlocks \/ WalkVotes \/ ReadBatch
    /\ UNCHANGED <<kind, from, to, held, changes, throughout>>

\* assertActive throws after the page: nothing of the walk is kept.
Cancel ==
    /\ phase = "walking"
    /\ phase' = "cancelled" /\ out' = {}
    /\ UNCHANGED <<kind, from, to, held, changes, throughout, start, pages, truncated>>

Next == Change \/ Page \/ Cancel

Spec == Init /\ [][Next]_vars

-----------------------------------------------------------------------------
(* Properties.                                                             *)

\* A walk that does not say it is truncated misses nothing that was there all along,
\* though entries came and went between its pages; rankings and tallies rest on that.
CompleteOrTruncated ==
    phase = "done" => truncated \/ (throughout \cap from..to) \subseteq out

=============================================================================
