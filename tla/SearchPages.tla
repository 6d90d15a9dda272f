----------------------------- MODULE SearchPages -----------------------------
(***************************************************************************)
(* The global search (src/app/search, src/components/search), and what reads *)
(* Platform beside the entity pages: the bar above every page, the tools,    *)
(* and the forms that look up what the user names.                          *)
(***************************************************************************)
EXTENDS FiniteSets

VARIABLES
    place,   \* the component on screen
    facts,   \* what its input says
    session,
    q

Searches == {"search/identifier", "search/keyHash", "search/hash", "search/epoch",
             "search/text"}
Forms == {"form/vote", "form/raw", "form/address", "form/withdrawal",
          "form/addressWithdrawal", "form/dpns"}
Places == Searches \cup Forms
          \cup {"meter", "wellKnown", "tools/path", "tools/document", "transition"}

\* A search by what classifyQuery makes of its text; any but an epoch may look like an
\* address as well, an epoch and another text like a name.  named: the input is well
\* formed.  insight: the network has an Insight endpoint.  wanted: the browser was idle.
Facts(at) ==
    CASE at = "search/epoch" -> {"name"}
      [] at = "search/text" -> {"name", "address"}
      [] at \in Searches \ {"search/epoch", "search/text"} -> {"address"}
      [] at = "meter" -> {"insight"}
      [] at = "wellKnown" -> {"wanted"}
      [] at = "form/withdrawal" -> {}
      [] OTHER -> {"named"}

Is(fact) == fact \in facts
Data(n) == IF n \in DOMAIN q THEN q[n].data ELSE "no"
Then(condition, names) == IF condition THEN names ELSE {}

-----------------------------------------------------------------------------
(* What is asked.                                                          *)

\* classifyQuery: the candidates that need Platform.  An identifier and a key hash pass
\* for names, a hash is too long.  The non-unique keys are asked once a key hash is
\* found not to be a unique key.
LookupsOf(at) ==
    Then(at = "search/identifier", {"identity", "contract", "token", "dpns"})
    \cup Then(at = "search/keyHash",
              {"pkh", "dpns"} \cup Then(Data("pkh") = "none" /\ ~q["pkh"].error, {"nonUnique"}))
    \cup Then(Is("address"), {"address"})
    \cup Then(Is("name"), {"dpns"})

\* Names with the prefix are listed where the text reads as nothing but a name, and not
\* while the search is unavailable.
Asks(at) ==
    CASE at \in Searches ->
            LookupsOf(at) \cup Then(Is("name") /\ ~Is("address") /\ session # "failed", {"prefix"})
      [] at = "meter" -> {"status", "current", "quorums"}
                        \cup Then(Is("insight") /\ session = "ready", {"core"})
      [] at = "wellKnown" /\ Is("wanted") -> {"preview"}
      [] at = "tools/path" /\ Is("named") -> {"elements"}
      [] at = "tools/document" /\ Is("named") -> {"contract"}
      [] at = "transition" /\ Is("named") -> {"result"}
      [] at = "form/vote" /\ Is("named") -> {"voteState"}
      [] at = "form/raw" /\ Is("named") -> {"owner"}
      [] at = "form/address" /\ Is("named") -> {"address"}
      [] at = "form/withdrawal" -> {"current"}
      [] at = "form/addressWithdrawal" -> {"current"} \cup Then(Is("named"), {"address"})
      [] at = "form/dpns" /\ Is("named") -> {"isContested"}
      [] OTHER -> {}

asked == Asks(place)

INSTANCE Views

\* What a view leaves out without a word when it fails: an epoch read before, or for which
\* the form that sends an address's credits takes the strictest minimum.
Asides(at) ==
    CASE at = "form/withdrawal" /\ Has("current") -> {"current"}
      [] at = "form/addressWithdrawal" -> {"current"}
      [] OTHER -> {}

-----------------------------------------------------------------------------
(* src/app/search/page.tsx                                                 *)

Lookups == asked \ {"prefix"}
Failures == {n \in Lookups : Failed(n)}

\* A hash may be a state transition's or an evonode's, a number an epoch's: destinations
\* without a lookup.
StaticMatch == place \in {"search/hash", "search/epoch"}
Matched == StaticMatch \/ \E n \in Lookups : Has(n)
Unavailable == Lookups # {} /\ session = "failed"

\* That nothing was found takes an answer to every lookup.  An input that is none of
\* the kinds has no lookups and is called invalid.
NoneFound ==
    When(Lookups # {} /\ (\A n \in Lookups : Success(n)) /\ ~Matched, {<<"absent", Lookups>>})

Search ==
    IF Unavailable THEN {<<"retry", Lookups>>}
    ELSE When(Failures # {}, {<<"retry", Failures>>})
         \cup When(\E n \in Lookups : Loading(n), LoadingFor(Lookups))
         \cup NoneFound
         \cup UNION {When(Has(n), Shows(n)) : n \in Lookups}

\* src/components/search/DpnsPrefixResults.tsx
DpnsPrefixResults == When("prefix" \in asked, Rows("prefix"))

-----------------------------------------------------------------------------
(* src/components/layout/MeterBar.tsx                                       *)

Gauge(n) == IF Loading(n) THEN LoadingCard(n) ELSE IF Failed(n) THEN ErrorText(n) ELSE Shows(n)

MeterBar == Gauge("status") \cup Gauge("current") \cup Gauge("quorums") \cup Health

-----------------------------------------------------------------------------
(* Lists, tools and the lookup of a state transition                        *)

\* WellKnownContracts: a row tells of its preview, and of waiting only while it is fetched.
Preview ==
    IF Failed("preview") THEN ErrorText("preview")
    ELSE IF ~Answered("preview") THEN When(session = "ready", LoadingCard("preview"))
    ELSE IF Has("preview") THEN Shows("preview") ELSE NotFound("preview")
WellKnownContracts == When(Is("wanted"), Preview)

\* PathElementsTool says of an empty path or no keys what it says of an empty answer.
PathElements == Rows("elements")

\* DocumentDeserializerTool waits for a contract that is not there as well.
DocumentDeserializer ==
    When(Is("named"),
         When(Failed("contract"), ErrorText("contract"))
         \cup IF Has("contract") THEN Shows("contract") ELSE LoadingCard("contract"))

\* src/components/tools/StateTransitionResultView.tsx
StateTransition == When(Is("named"), Rows("result"))

-----------------------------------------------------------------------------
(* src/components/broadcast/forms                                           *)

\* A sentence in the chain of the cards, which offers no retry.
Sentence(n, content) ==
    IF Loading(n) THEN LoadingCard(n) ELSE IF Failed(n) THEN ErrorText(n) ELSE content
Lookup(n) == Sentence(n, IF Has(n) THEN Shows(n) ELSE NotFound(n))

MasternodeVote == When(Is("named"), Lookup("voteState"))
RawBroadcast == When(Is("named"), Lookup("owner"))

\* An address Platform does not know has a balance of zero.
AddressKeyStatus == When(Is("named"), Sentence("address", Shows("address")))

\* The smallest withdrawal depends on the protocol version of the epoch; a failed read
\* stands for the strictest.
VersionKnown == Has("current") \/ Failed("current")
Withdrawal ==
    IF ~VersionKnown THEN LoadingCard("current")
    ELSE IF Has("current") THEN Shows("current") ELSE ErrorText("current")
AddressWithdrawal ==
    AddressKeyStatus \cup When(~VersionKnown, LoadingCard("current"))

\* DpnsRegister offers a review once it knows whether the name is contested.
DpnsRegister ==
    When(Failed("isContested"), ErrorText("isContested"))
    \cup When(Answered("isContested"), Shows("isContested"))

View ==
    CASE place \in Searches -> Search \cup DpnsPrefixResults
      [] place = "meter" -> MeterBar
      [] place = "wellKnown" -> WellKnownContracts
      [] place = "tools/path" -> PathElements
      [] place = "tools/document" -> DocumentDeserializer
      [] place = "transition" -> StateTransition
      [] place = "form/vote" -> MasternodeVote
      [] place = "form/raw" -> RawBroadcast
      [] place = "form/address" -> AddressKeyStatus
      [] place = "form/withdrawal" -> Withdrawal
      [] place = "form/addressWithdrawal" -> AddressWithdrawal
      [] place = "form/dpns" -> DpnsRegister

=============================================================================
