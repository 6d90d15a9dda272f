--------------------------------- MODULE Pages ---------------------------------
(***************************************************************************)
(* Every page that reads Platform, over whatever its queries do: they are     *)
(* answered or fail in any order, are asked again when they were shown as      *)
(* failed or have gone stale, and the session they need comes and goes.      *)
(***************************************************************************)
EXTENDS FiniteSets

VARIABLES
    place,   \* the component on screen
    facts,   \* what its URL and its answers say: see Facts of each module
    session, \* of the SDK: "connecting", "ready", or "failed"
    q        \* by name, the queries of the session that were asked

vars == <<place, facts, session, q>>

Id == INSTANCE IdentityPages
Con == INSTANCE ContractPages
Tok == INSTANCE TokenPages
Net == INSTANCE NetworkPages
Sea == INSTANCE SearchPages

asked == CASE place \in Id!Places -> Id!asked
           [] place \in Con!Places -> Con!asked
           [] place \in Tok!Places -> Tok!asked
           [] place \in Net!Places -> Net!asked
           [] place \in Sea!Places -> Sea!asked
View == CASE place \in Id!Places -> Id!View
          [] place \in Con!Places -> Con!View
          [] place \in Tok!Places -> Tok!View
          [] place \in Net!Places -> Net!View
          [] place \in Sea!Places -> Sea!View
Asides == CASE place \in Id!Places -> Id!Asides(place)
            [] place \in Con!Places -> Con!Asides(place)
            [] place \in Tok!Places -> Tok!Asides(place)
            [] place \in Net!Places -> Net!Asides(place)
            [] place \in Sea!Places -> Sea!Asides(place)
Facts(at) == CASE at \in Id!Places -> Id!Facts(at)
               [] at \in Con!Places -> Con!Facts(at)
               [] at \in Tok!Places -> Tok!Facts(at)
               [] at \in Net!Places -> Net!Facts(at)
               [] at \in Sea!Places -> Sea!Facts(at)

INSTANCE Views

Init ==
    /\ place \in Id!Places \cup Con!Places \cup Tok!Places \cup Net!Places \cup Sea!Places
    /\ facts \in SUBSET Facts(place)
    /\ session = "connecting"
    /\ q = [n \in {} |-> Unasked]

-----------------------------------------------------------------------------

Set(n, answer) == q' = [m \in DOMAIN q \cup {n} |-> IF m = n THEN answer ELSE q[m]]

\* There is always a current epoch; what a hook derives without Platform is not empty.
NeverEmpty == {"current", "tokenId"}

\* A query that is asked runs once the session is ready, and again when it is stale.
Answers ==
    /\ session = "ready"
    /\ \E n \in asked, data \in {"none", "some"} :
          /\ n \in NeverEmpty => data = "some"
          /\ Set(n, [data |-> data, error |-> FALSE])
    /\ UNCHANGED <<place, facts, session>>

Fails ==
    /\ session = "ready"
    /\ \E n \in asked : ~Query(n).error /\ Set(n, [data |-> Query(n).data, error |-> TRUE])
    /\ UNCHANGED <<place, facts, session>>

\* Retry, or a refetch of its own: a query without data is awaited again, one with data
\* keeps its error until it is answered.
Retries ==
    /\ session = "ready"
    /\ \E n \in asked : Query(n).error /\ ~Answered(n) /\ Set(n, Unasked)
    /\ UNCHANGED <<place, facts, session>>

\* SdkSession has the session in full.
Connects ==
    /\ session = "connecting"
    /\ session' \in {"ready", "failed"}
    /\ UNCHANGED <<place, facts, q>>

\* A new session, by Retry on what a failed one reports or by a change of settings:
\* no query of the old one is read again, but Core's tip while the network is the same.
Reconnects ==
    /\ session # "connecting"
    /\ session' = "connecting"
    /\ \E kept \in SUBSET (DOMAIN q \cap {"core"}) : q' = [n \in kept |-> q[n]]
    /\ UNCHANGED <<place, facts>>

Next == Answers \/ Fails \/ Retries \/ Connects \/ Reconnects

Spec == Init /\ [][Next]_vars

-----------------------------------------------------------------------------
(* Properties.                                                             *)

\* Where a failure is told as "none", and as nothing else: no names (identity tab), no
\* members (group tab), no polls (home page), no Insight endpoint (the bar above).
ToldAsNone(n) ==
    /\ Failed(n)
    /\ <<place, n>> \in {<<"identity", "aliases">>, <<"group", "members">>,
                         <<"home/polls", "polls">>, <<"meter", "core">>}

\* Where the code says "none" of what failed, is awaited, or was never asked for: besides
\* those, no Insight endpoint (health of the network) and a node that is in sync and does
\* not listen (status page); no polls before the page has read the clock, no balances of
\* no tokens, no documents for filters that make no query, no elements of no path.
AbsenceGap(n) ==
    \/ ToldAsNone(n)
    \/ n = "core" /\ place \in {"meter", "network/status"} /\ ~Success(n)
    \/ n = "status" /\ place = "network/status" /\ ~Has(n)
    \/ n \notin asked /\ <<place, n>> \in {<<"polls", "polls">>, <<"documents", "documents">>,
                                            <<"identity/tokens", "tokenBalances">>,
                                            <<"tools/path", "elements">>}

\* ... and where it waits for what will not come: the names of a token without an owning
\* contract, or whose owner failed to load; the id of a token, in a failed session; a
\* contract that is not there, to read a document with.
WaitGap(n) ==
    \/ place = "token/definition" /\ n = "owner"
    \/ place = "tools/document" /\ n = "contract"
    \/ place = "contract/token" /\ n = "tokenId" /\ session = "failed"
    \/ place = "contract/tokens" /\ n = "derivation" /\ session = "failed"

\* A page says that Platform has none of a thing only when Platform has answered so: never
\* of what is still awaited, has failed, or was not asked.  And it shows as awaited only
\* what is: not what it does not ask for, and not what has failed, unless it offers to
\* ask again.
ClaimsTrue ==
    \A c \in View :
        /\ c[1] = "absent" => \A n \in c[2] : Empty(n) \/ AbsenceGap(n)
        /\ c[1] = "loading" => \E n \in c[2] :
              Loading(n) \/ <<"retry", {n}>> \in View \/ WaitGap(n)

\* What a page tells of another query in place of this one: the proposers and what they
\* are divided by, of the epoch or the votes; a price, of the status; the proposers, of an epoch that
\* was not there; the rules, of their contract; balances, of the names they are asked for.
Behind(n) ==
    CASE place = "network/protocol" /\ n \in {"blocks", "finalized"} -> {"current", "votes"}
      [] place = "evonode" /\ n \in {"blocks", "finalized"} -> {"current"}
      [] place = "token/status" /\ n = "prices" -> {"statuses"}
      [] place = "token/overview" /\ n = "contract" -> {"owner"}
      [] place = "epoch/detail" /\ n = "blocks" -> {"epochInfo"}
      [] place = "token/holders" /\ n = "balances" -> {"resolution"}
      [] OTHER -> {}

\* A query that failed does not just leave a hole: the page names the failure, or is
\* still waiting for what would take its place, or names the failure or the absence of
\* what comes before it.  (The page may be nothing but that: a gate.)
FailuresShown ==
    \A n \in asked \ Asides : Failed(n) =>
        \/ ToldAsNone(n)
        \/ \E c \in View :
              \/ c[1] # "absent" /\ c[1] # "shows" /\ n \in c[2]
              \/ c[1] # "shows" /\ (View = {c} \/ c[2] \cap Behind(n) # {})

=============================================================================
