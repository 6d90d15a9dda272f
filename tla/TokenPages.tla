------------------------------ MODULE TokenPages ------------------------------
(***************************************************************************)
(* The pages about tokens: src/components/token, and src/app/token/holders.  *)
(***************************************************************************)
EXTENDS FiniteSets

VARIABLES place, facts, session, q

\* The tabs of TokenView below its gate, and the components with queries of their own.
Shown == {"token/overview", "token/definition", "token/status"}
Places == Shown \cup {"token/balance", "token/discovery", "token/holders"}

\* configured: the owning contract has a token at the position.  identity: one is
\* given or connected.  perpetual: the token has such a distribution.  listed: the
\* network's token history contract is known.  run: the holders form was submitted.
Facts(at) ==
    CASE at \in Shown -> {"configured"}
      [] at = "token/balance" -> {"identity", "perpetual"}
      [] at = "token/discovery" -> {"listed"}
      [] at = "token/holders" -> {"run"}

Is(fact) == fact \in facts
Data(n) == IF n \in DOMAIN q THEN q[n].data ELSE "no"

\* The contract is read once the token's own record has named it.
Asks(at) ==
    CASE at \in Shown ->
            {"supply", "statuses", "prices", "owner"}
            \cup (IF Data("owner") = "some" THEN {"contract"} ELSE {})
      [] at = "token/balance" /\ Is("identity") ->
            {"balance", "info"} \cup (IF Is("perpetual") THEN {"claim"} ELSE {})
      [] at = "token/discovery" /\ Is("listed") -> {"purchases"}
      [] at = "token/holders" /\ Is("run") ->
            (IF session = "ready" THEN {"resolution"} ELSE {})
            \cup (IF Data("resolution") = "some" THEN {"balances"} ELSE {})
      [] OTHER -> {}

asked == Asks(place)

INSTANCE Views

\* The digest above the tabs shows what is known of a token and no more.
Asides(at) ==
    CASE at = "token/overview" -> {"statuses", "prices"}
      [] at = "token/definition" -> {"statuses", "prices"}
      [] at = "token/status" -> {"owner", "contract"}
      [] OTHER -> {}

-----------------------------------------------------------------------------
(* src/components/token/TokenView.tsx                                      *)

\* The rules of the token: of the contract that owns it.
OverviewTab ==
    IF Loading("contract") \/ Loading("owner") THEN LoadingFor({"contract", "owner"})
    ELSE IF Failed("owner") THEN ErrorCard("owner")
    ELSE IF Failed("contract") THEN ErrorCard("contract")
    ELSE IF Has("contract") /\ Is("configured") THEN Shows("contract")
    ELSE When(~Has("owner"), NotFound("owner"))

\* Where it lives, and its names.  The names await a contract even of a token that is
\* recorded as having none.
Origin == Rows("owner")
Localizations ==
    Card("contract",
         IF Success("contract") /\ Has("contract") /\ Is("configured") THEN Shows("contract")
         ELSE When(~Has("owner"), LoadingCard("owner")))
DefinitionTab == Origin \cup Localizations

\* No status record means the token is active: that is shown once it was answered.
StatusTab ==
    IF Failed("statuses") THEN ErrorCard("statuses")
    ELSE Rows("statuses") \cup Rows("prices")

TokenGate(content) ==
    Card("supply", IF Success("supply") /\ ~Has("supply") THEN NotFound("supply") ELSE content)
TokenView ==
    TokenGate(Shows("supply") \cup
        CASE place = "token/overview" -> OverviewTab
          [] place = "token/definition" -> DefinitionTab
          [] place = "token/status" -> StatusTab)

\* TokenBalanceLookup: no balance reads as zero, no info as not frozen, no claim as
\* never claimed.
BalanceLines == Rows("balance") \cup Rows("info") \cup When(Is("perpetual"), Rows("claim"))
TokenBalance == When(Is("identity"), BalanceLines)

\* TokenDiscoveryPanel
TokenDiscovery == When(Is("listed"), Rows("purchases"))

\* SeededHoldersForm: what is wrong, what is awaited, and what is known, one below the
\* other.  Names that resolve to nothing leave no trace.
HoldersError ==
    IF Query("resolution").error THEN ErrorCard("resolution")
    ELSE When(Failed("balances"), ErrorCard("balances"))
TokenHolders ==
    HoldersError
    \cup When(Loading("resolution") \/ Loading("balances"), LoadingFor({"resolution", "balances"}))
    \cup When(Has("balances"), Shows("balances"))

View ==
    CASE place \in Shown -> TokenView
      [] place = "token/balance" -> TokenBalance
      [] place = "token/discovery" -> TokenDiscovery
      [] place = "token/holders" -> TokenHolders

=============================================================================
