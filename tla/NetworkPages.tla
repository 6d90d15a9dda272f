----------------------------- MODULE NetworkPages -----------------------------
(***************************************************************************)
(* The pages about the network, its epochs and evonodes, contests and groups, *)
(* and the home page: src/app and src/components/{epoch,network,governance}. *)
(***************************************************************************)
EXTENDS FiniteSets

VARIABLES place, facts, session, q

HomePlaces == {"home/stats", "home/proposers", "home/quorums", "home/polls"}
NetworkPlaces == {"network/status", "network/protocol", "network/credits", "network/quorums",
                  "shielded/pool", "shielded/nullifiers", "shielded/notes"}
EpochPlaces == {"epoch", "epoch/detail", "epoch/history", "evonode"}
GovernancePlaces == {"polls", "contested", "contest", "contender", "groups", "group",
                     "group/action"}
Places == HomePlaces \cup NetworkPlaces \cup EpochPlaces \cup GovernancePlaces

\* named: the URL names it, or a form was submitted.  past: an epoch that is over was
\* chosen.  finalEntry: the finalized record has this epoch.  chosen: the document type
\* of a contest is known.  contestable: the contract has contests.  hydrated: the page
\* has read the clock.  membersTab: the open tab.  insight: the network has an Insight
\* endpoint.  firstEpoch: the current epoch has none before it.
Facts(at) ==
    CASE at \in {"network/credits", "shielded/nullifiers", "shielded/notes", "epoch/detail",
                 "contest", "groups"} -> {"named"}
      [] at = "network/status" -> {"insight"}
      [] at = "network/protocol" -> {"firstEpoch"}
      [] at = "epoch/history" -> {"toGiven"}
      [] at = "evonode" -> {"past"}
      [] at = "polls" -> {"hydrated"}
      [] at = "contested" -> {"named", "chosen", "contestable"}
      [] at = "group" -> {"named", "membersTab"}
      [] OTHER -> {}

Is(fact) == fact \in facts
Data(n) == IF n \in DOMAIN q THEN q[n].data ELSE "no"
Known(n) == Data(n) = "some"
Then(condition, names) == IF condition THEN names ELSE {}

\* Walks of the current epoch wait for its number; the live walk of an epoch page, for
\* the finalized record to be found missing.
EpochAsks(at) ==
    CASE at = "epoch" -> {"current"} \cup Then(Known("current"), {"blocks"})
      [] at = "epoch/detail" /\ Is("named") ->
            {"epochInfo", "finalized", "current"}
            \cup Then(Data("finalized") = "none" /\ ~q["finalized"].error, {"blocks"})
      [] at = "epoch/history" ->
            {"current"} \cup Then(Known("current") \/ Is("toGiven"), {"range"})
      [] at = "evonode" ->
            {"current", "vote"}
            \cup Then(Known("current") /\ ~Is("past"), {"own", "blocks"})
            \cup Then(Known("current") /\ Is("past"), {"finalized"})
      [] OTHER -> {}

NetworkAsks(at) ==
    CASE at = "home/stats" -> {"status", "current", "credits", "votes", "quorums"}
      [] at = "home/proposers" -> {"current"} \cup Then(Known("current"), {"blocks"})
      [] at = "home/quorums" -> {"quorums"}
      [] at = "home/polls" -> {"polls"}
      [] at = "network/status" ->
            {"status", "quorums"} \cup Then(Is("insight") /\ session = "ready", {"core"})
      [] at = "network/protocol" ->
            {"upgrade", "current", "votes"} \cup Then(Known("current"), {"blocks"})
            \cup Then(Known("current") /\ ~Is("firstEpoch"), {"finalized"})
      [] at = "network/credits" -> {"credits"} \cup Then(Is("named"), {"prefunded"})
      [] at = "network/quorums" -> {"quorums"}
      [] at = "shielded/pool" -> {"pool", "anchor", "anchors"}
      [] at = "shielded/nullifiers" /\ Is("named") -> {"nullifiers"}
      [] at = "shielded/notes" /\ Is("named") -> {"notes"}
      [] OTHER -> {}

GovernanceAsks(at) ==
    CASE at = "polls" /\ Is("hydrated") -> {"polls"}
      [] at = "contested" /\ Is("named") ->
            {"contract"} \cup Then(Is("chosen"), {"resources"})
      [] at = "contest" /\ Is("named") -> {"contest", "polls"}
      [] at = "contender" -> {"voters"}
      [] at = "groups" /\ Is("named") -> {"groupInfos"}
      [] at = "group" /\ Is("named") -> {"groupInfo", "members", "actions"}
      [] at = "group/action" -> {"signers"}
      [] OTHER -> {}

asked == EpochAsks(place) \cup NetworkAsks(place) \cup GovernanceAsks(place)

INSTANCE Views

\* What a view leaves out without a word when it fails.  The upgrade state is read for
\* nothing but a note that it disagrees with the epoch.
Asides(at) ==
    CASE at = "epoch/detail" -> {"current"}
      [] at = "network/protocol" -> {"upgrade"}
      [] at = "epoch/history" /\ Is("toGiven") -> {"current"}
      [] at = "home/stats" /\ (~Has("current") \/ Answered("votes")) -> {"votes"}
      [] at = "contest" -> {"polls"}
      [] at = "contested" -> {"contract"}
      [] at = "group" -> IF Is("membersTab") THEN {"actions"} ELSE {"members"}
      [] at = "evonode" -> {"own"}
      [] OTHER -> {}

-----------------------------------------------------------------------------
(* src/app/page.tsx                                                        *)

\* StatCell has "error" where its figure would be; so has a footnote.
StatCell(n) ==
    IF Loading(n) THEN LoadingCard(n) ELSE IF Failed(n) THEN ErrorText(n)
    ELSE When(Has(n), Shows(n))
UpgradeFootnote ==
    When(Has("current"),
         IF Answered("votes") THEN Shows("votes")
         ELSE IF Failed("votes") THEN ErrorText("votes") ELSE LoadingCard("votes"))
HomeStats ==
    StatCell("status") \cup StatCell("current") \cup StatCell("credits")
    \cup UpgradeFootnote \cup StatCell("quorums")

\* The ranking says why it is missing, without a button.
HomeProposers ==
    IF Loading("current") \/ Loading("blocks") THEN LoadingFor({"current", "blocks"})
    ELSE IF Failed("current") THEN ErrorText("current")
    ELSE IF Failed("blocks") THEN ErrorText("blocks")
    ELSE IF Has("blocks") THEN Shows("blocks") ELSE NotFound("blocks")

HomeQuorums ==
    IF Loading("quorums") THEN LoadingCard("quorums")
    ELSE IF Failed("quorums") THEN ErrorText("quorums")
    ELSE IF Has("quorums") THEN Shows("quorums") ELSE NotFound("quorums")

\* Polls that failed to load are told as no polls.
HomePolls ==
    IF Loading("polls") THEN LoadingCard("polls")
    ELSE IF Has("polls") THEN Shows("polls") ELSE NotFound("polls")

-----------------------------------------------------------------------------
(* src/app/network                                                         *)

\* The badges of the heading say "in sync" and "not listening" of no status as well.
SyncBadges == IF Has("status") THEN Shows("status") ELSE NotFound("status")
NetworkStatus ==
    SyncBadges \cup Health \cup Card("status", Shows("status"))
    \cup When(Failed("core"), ErrorText("core")) \cup Rows("quorums")
NetworkQuorums == Rows("quorums")

\* A version or a count is "…" while what it takes is read and "unknown" after; the
\* next version takes both.
Stat(n) == IF Answered(n) THEN Shows(n) ELSE When(Loading(n), LoadingCard(n))
UpgradeStats == Stat("current") \cup Stat("votes")
UpgradeNote == When(Has("upgrade") /\ Has("current"), Shows("upgrade"))
\* The denominator counts those that voted or proposed; without the proposers it says
\* what is missing.
Denominator ==
    IF Success("blocks") /\ (Success("finalized") \/ "finalized" \notin asked)
    THEN Shows("blocks")
    ELSE IF Failed("current") THEN ErrorText("current")
    ELSE IF Failed("blocks") \/ Failed("finalized")
         THEN {<<"failed", {"blocks", "finalized"}>>}
    ELSE LoadingFor({"current", "blocks", "finalized"})
Tally == Card("votes", Denominator \cup IF Has("votes") THEN Shows("votes") ELSE NotFound("votes"))
NetworkProtocol ==
    When(Failed("current"), ErrorCard("current")) \cup UpgradeStats \cup UpgradeNote \cup Tally

NetworkCredits ==
    Card("credits", When(Has("credits"), Shows("credits")))
    \cup When(Is("named"), Rows("prefunded"))

\* ShieldedPoolView: nothing was shielded on a network without a pool.
Anchors == Rows("anchors")
ShieldedPool == Rows("pool") \cup Rows("anchor") \cup Anchors
NullifierLookup == When(Is("named"), Card("nullifiers", When(Has("nullifiers"), Shows("nullifiers"))))
EncryptedNotes == When(Is("named"), Rows("notes"))

-----------------------------------------------------------------------------
(* src/components/epoch and src/app/epoch                                  *)

\* EpochView: an epoch that failed says so twice, the second time without a button.
CurrentEpochView ==
    Card("current", When(Has("current"), Shows("current")))
    \cup IF Loading("current") \/ Loading("blocks") THEN LoadingFor({"current", "blocks"})
         ELSE IF Failed("blocks") THEN ErrorCard("blocks")
         ELSE IF Failed("current") THEN ErrorText("current")
         ELSE IF Has("blocks") THEN Shows("blocks") ELSE NotFound("blocks")

\* HistoricalEpochView chooses the source of the proposers by the finalized record, and
\* waits for it until a refresh gives one.
BugMissingWithoutFinalized == Success("epochInfo") /\ ~Has("epochInfo") /\ ~Has("finalized")
EpochMissing == Success("epochInfo") /\ Success("finalized") /\ ~Has("epochInfo") /\ ~Has("finalized")
Metadata ==
    IF Loading("epochInfo") THEN LoadingCard("epochInfo")
    ELSE IF Failed("epochInfo") THEN ErrorCard("epochInfo")
    ELSE IF Has("epochInfo") THEN Shows("epochInfo") ELSE NotFound("epochInfo")
FinalizedTotals ==
    IF Has("finalized")
    THEN Shows("finalized") \cup When(Failed("finalized"), ErrorCard("finalized"))
    ELSE Rows("finalized")
Proposers ==
    IF Has("finalized") THEN Shows("finalized")
    ELSE IF ~Success("finalized") THEN LoadingCard("finalized")
    ELSE Rows("blocks")
EpochDetail ==
    When(Is("named"),
         IF EpochMissing THEN NotFound("epochInfo") \cup NotFound("finalized")
         ELSE Metadata \cup FinalizedTotals \cup Proposers)

\* src/app/epoch/history/page.tsx: without an end the range ends at the current epoch.
EpochHistory ==
    IF ~Is("toGiven") /\ Failed("current") THEN ErrorCard("current")
    ELSE IF (~Is("toGiven") /\ Loading("current")) \/ Loading("range")
         THEN LoadingFor({"current", "range"})
    ELSE IF Failed("range") THEN ErrorCard("range")
    ELSE IF Has("range") THEN Shows("range") ELSE NotFound("range")

\* src/app/evonode/page.tsx.  The blocks of an evonode in the current epoch are those of
\* the ranking, or its own when the ranking failed.
OwnBlocks == IF Answered("blocks") THEN "blocks" ELSE "own"
BugStandingWithoutFallback ==
    IF Loading("current") \/ Loading("blocks") THEN LoadingFor({"current", "blocks"})
    ELSE IF Has("blocks") THEN Shows("blocks") ELSE NotFound("blocks")
Standing ==
    IF Loading("current") \/ Loading("blocks") \/ (Failed("blocks") /\ Loading("own"))
    THEN LoadingFor({"current", "blocks", "own"})
    ELSE When(Failed("blocks"), ErrorText("blocks"))
         \cup IF Failed("blocks") /\ Failed("own") THEN ErrorText("own")
              ELSE IF Has(OwnBlocks) THEN Shows(OwnBlocks) ELSE NotFound(OwnBlocks)
EvonodeEpoch ==
    IF Failed("current") THEN ErrorCard("current")
    ELSE IF ~Is("past") \/ ~Has("current") THEN Standing
    ELSE Rows("finalized")
Evonode == EvonodeEpoch \cup Rows("vote")

-----------------------------------------------------------------------------
(* src/app/governance and src/app/groups                                   *)

\* Before it has read the clock the page asks for no polls, and says there are none.
Polls == Rows("polls")

\* A contract that failed to load is left out without a word.
ContestedContract ==
    IF Loading("contract") THEN LoadingCard("contract")
    ELSE When(Has("contract"), IF Is("contestable") THEN Shows("contract") ELSE {})
Contested ==
    When(Is("named"), ContestedContract \cup When(Is("chosen"), Rows("resources")))

Contest == When(Is("named"), Rows("contest"))
ContenderVoters == Rows("voters")

Groups == When(Is("named"), Rows("groupInfos"))

\* The members of a group that failed to load are told as none.
Members ==
    IF Loading("members") THEN LoadingCard("members")
    ELSE IF Has("members") THEN Shows("members") ELSE NotFound("members")
Actions == Rows("actions")
Group ==
    When(Is("named"),
         Entity("groupInfo",
                Shows("groupInfo") \cup IF Is("membersTab") THEN Members ELSE Actions))
GroupActionSigners == Rows("signers")

HomeView ==
    CASE place = "home/stats" -> HomeStats
      [] place = "home/proposers" -> HomeProposers
      [] place = "home/quorums" -> HomeQuorums
      [] place = "home/polls" -> HomePolls
NetworkView ==
    CASE place = "network/status" -> NetworkStatus
      [] place = "network/protocol" -> NetworkProtocol
      [] place = "network/credits" -> NetworkCredits
      [] place = "network/quorums" -> NetworkQuorums
      [] place = "shielded/pool" -> ShieldedPool
      [] place = "shielded/nullifiers" -> NullifierLookup
      [] place = "shielded/notes" -> EncryptedNotes
EpochsView ==
    CASE place = "epoch" -> CurrentEpochView
      [] place = "epoch/detail" -> EpochDetail
      [] place = "epoch/history" -> EpochHistory
      [] place = "evonode" -> Evonode
GovernanceView ==
    CASE place = "polls" -> Polls
      [] place = "contested" -> Contested
      [] place = "contest" -> Contest
      [] place = "contender" -> ContenderVoters
      [] place = "groups" -> Groups
      [] place = "group" -> Group
      [] place = "group/action" -> GroupActionSigners
View ==
    CASE place \in HomePlaces -> HomeView
      [] place \in NetworkPlaces -> NetworkView
      [] place \in EpochPlaces -> EpochsView
      [] place \in GovernancePlaces -> GovernanceView

=============================================================================
