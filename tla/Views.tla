--------------------------------- MODULE Views ---------------------------------
(***************************************************************************)
(* What a page makes of the queries its hooks ask: src/sdk/queries.ts        *)
(* (isLoading), src/sdk/hooks.ts (a session that is not ready), and the      *)
(* cards of src/components/ui the pages are built from.                     *)
(*                                                                         *)
(* A view is a set of claims <<kind, names>> about queries: "loading" (one of *)
(* them is awaited), "retry" (an ErrorCard: it failed, and may be asked      *)
(* again), "failed" (the same without the button), "absent" (Platform has    *)
(* none: an empty list, a NotFoundCard), "shows" (what it answered).        *)
(***************************************************************************)
EXTENDS FiniteSets

VARIABLES
    session, \* "connecting", "ready", or "failed"
    q,       \* by name, the queries asked so far: what each answered, and whether it
             \* failed the last time
    asked    \* the names the hooks of the rendered page enable

\* data: "no" answer yet, "none" (null, undefined, or an empty list), or "some".
Unasked == [data |-> "no", error |-> FALSE]
Query(n) == IF n \in DOMAIN q THEN q[n] ELSE Unasked

Answered(n) == Query(n).data # "no"
Empty(n) == Query(n).data = "none"
Has(n) == Query(n).data = "some"

\* isError: a session that failed is the error of what it cannot answer.  A refetch
\* that fails keeps the data and is an error all the same.
Failed(n) == Query(n).error \/ (session = "failed" /\ n \in asked /\ ~Answered(n))
Success(n) == Answered(n) /\ ~Failed(n)

\* isLoading as queries.ts redefines it: what the caller asks for is awaited from
\* before the session is ready; what it does not ask for is never awaited.
Loading(n) == n \in asked /\ ~Answered(n) /\ ~Failed(n)

-----------------------------------------------------------------------------

Nothing == {}
LoadingFor(names) == {<<"loading", names>>}
LoadingCard(n) == LoadingFor({n})
ErrorCard(n) == {<<"retry", {n}>>}
ErrorText(n) == {<<"failed", {n}>>}
NotFound(n) == {<<"absent", {n}>>}
Shows(n) == {<<"shows", {n}>>}

When(condition, claims) == IF condition THEN claims ELSE Nothing

\* The common chain of the pages: loading, then failed, then the content.
Card(n, content) ==
    IF Loading(n) THEN LoadingCard(n)
    ELSE IF Failed(n) THEN ErrorCard(n)
    ELSE content

\* ... whose content is rows, or a sentence saying there are none.  No data is no rows.
Rows(n) == Card(n, IF Has(n) THEN Shows(n) ELSE NotFound(n))

\* ... whose content is a NotFoundCard for null.
Entity(n, content) == Card(n, IF Has(n) THEN content ELSE NotFound(n))

\* useNetworkHealth: unknown without a status.  Core's tip is not an SDK query: one that is
\* awaited or failed is told as a network without an Insight endpoint.
Health ==
    When(session = "ready" /\ Success("status") /\ Has("status"),
         Shows("status") \cup IF Success("core") /\ Has("core") THEN Shows("core")
                              ELSE NotFound("core"))

=============================================================================
