----------------------------- MODULE IdentityPages -----------------------------
(***************************************************************************)
(* The pages about identities, names and addresses: src/app/identity,        *)
(* src/app/dpns, src/app/address, and src/components/identity.              *)
(*                                                                         *)
(* One view per component that asks for something.  A component below a page  *)
(* has a place of its own: it is rendered with what the page passes it.      *)
(***************************************************************************)
EXTENDS FiniteSets

VARIABLES
    place,   \* the component on screen
    facts,   \* what its URL and its answers say, besides being there or not
    session,
    q

Places == {"identity", "identity/tokens", "identity/groups", "identity/votes",
           "identity/contract", "identity/digest", "identity/lookup", "dpns/directory",
           "dpns", "dpns/name", "dpns/search", "address"}

\* named: the URL names it.  keysTab, dpnsTab: the open tab.  scope: some token is
\* listed.  target: a contract was submitted.  listed: the network's DPNS contract is
\* known.  badAddress: the address is of another network.
Facts(at) ==
    CASE at = "identity" -> {"named", "dpnsTab"}
      [] at = "identity/tokens" -> {"scope"}
      [] at = "identity/contract" -> {"target"}
      [] at = "dpns/directory" -> {"listed"}
      [] at \in {"identity/lookup", "dpns"} -> {"named"}
      [] at = "dpns/search" -> {"named", "listed"}
      [] at = "address" -> {"named", "badAddress"}
      [] OTHER -> {}

Is(fact) == fact \in facts
Data(n) == IF n \in DOMAIN q THEN q[n].data ELSE "no"

\* The names each component's hooks enable.  The last identity query of the reverse
\* lookup waits for the first to find none; a contest, for a name.
Asks(at) ==
    CASE at = "identity" /\ Is("named") -> {"identity", "balance", "keys", "nonce", "aliases"}
      [] at = "identity/digest" ->
            {"alias"} \cup (IF Data("alias") = "some" THEN {"contested"} ELSE {})
      [] at = "identity/tokens" /\ Is("scope") -> {"tokenBalances", "tokenInfos"}
      [] at = "identity/groups" -> {"groups"}
      [] at = "identity/votes" -> {"votes"}
      [] at = "identity/contract" /\ Is("target") -> {"contractNonce", "contractKeys"}
      [] at = "identity/lookup" /\ Is("named") ->
            {"unique"} \cup (IF Data("unique") = "none" /\ ~q["unique"].error
                             THEN {"nonUnique"} ELSE {})
      [] at = "dpns/directory" /\ Is("listed") -> {"directory"}
      [] at = "dpns" /\ Is("named") -> {"resolve", "record", "available", "contest", "valid"}
      [] at = "dpns/name" -> {"isContested"}
      [] at = "dpns/search" /\ Is("named") /\ Is("listed") -> {"prefix"}
      [] at = "address" /\ Is("named") -> {"address"}
      [] OTHER -> {}

asked == Asks(place)

INSTANCE Views

\* What a view may leave out without a word when it fails: a dash, a badge or a block
\* that does not appear.
Asides(at) ==
    CASE at = "identity" -> {"balance", "nonce", "aliases"} \cup (IF Is("dpnsTab") THEN {"keys"} ELSE {})
      [] at = "identity/digest" -> {"alias", "contested"}
      [] at = "dpns" -> {"record", "available", "contest", "valid"}
      [] at = "dpns/name" -> {"isContested"}
      [] OTHER -> {}

-----------------------------------------------------------------------------
(* src/app/identity/page.tsx                                               *)

\* IdentityDpnsNames has no names to show for an answer that failed either.
IdentityDpnsNames == IF Has("aliases") THEN Shows("aliases") ELSE NotFound("aliases")
DpnsTab == IF Loading("aliases") THEN LoadingCard("aliases") ELSE IdentityDpnsNames

KeysTab == Rows("keys")

\* The identity is found missing once both have been awaited.
IdentityGate(content) ==
    IF Loading("identity") \/ Loading("balance") THEN LoadingFor({"identity", "balance"})
    ELSE IF Failed("identity") THEN ErrorCard("identity")
    ELSE IF Success("identity") /\ ~Has("identity") THEN NotFound("identity")
    ELSE content

Identity ==
    When(Is("named"),
         IdentityGate(Shows("identity") \cup IF Is("dpnsTab") THEN DpnsTab ELSE KeysTab))

\* IdentityDigestCard: the contested badge of the primary name.
IdentityDigest == When(Has("alias"), Shows("alias") \cup When(Has("contested"), Shows("contested")))

\* IdentityTokensTab: the frozen column has a state of its own.  With no token in
\* scope it says that no balance was returned.
FrozenCells ==
    IF Loading("tokenInfos") THEN LoadingCard("tokenInfos")
    ELSE IF Failed("tokenInfos") THEN ErrorCard("tokenInfos") \cup ErrorText("tokenInfos")
    ELSE IF Has("tokenInfos") THEN Shows("tokenInfos") ELSE NotFound("tokenInfos")
IdentityTokens ==
    Card("tokenBalances", IF Has("tokenBalances") THEN Shows("tokenBalances") \cup FrozenCells
                          ELSE NotFound("tokenBalances"))

IdentityGroups == Rows("groups")
IdentityVotes == Rows("votes")

\* IdentityContractLookup, after a contract was submitted.
IdentityContract == When(Is("target"), Rows("contractNonce") \cup Rows("contractKeys"))

\* src/app/identity/lookup/page.tsx
NonUniqueMatches == Rows("nonUnique")
IdentityLookup ==
    When(Is("named"),
         Card("unique", IF Has("unique") THEN Shows("unique") ELSE NonUniqueMatches))

-----------------------------------------------------------------------------
(* Names and addresses                                                     *)

\* DpnsDirectoryPanel says so where the network's DPNS contract is not known.
DpnsDirectory == When(Is("listed"), Rows("directory"))

\* src/app/dpns/page.tsx: badges for what is known, and the identity when there is one.
DpnsBadges ==
    UNION {When(Has(n), Shows(n)) : n \in {"valid", "available", "contest", "record"}}
DpnsName ==
    When(Is("named"), DpnsBadges \cup Card("resolve", When(Has("resolve"), Shows("resolve"))))

\* NameRow
DpnsNameRow == When(Has("isContested"), Shows("isContested"))

\* src/app/dpns/search/page.tsx
DpnsSearch == When(Is("named") /\ Is("listed"), Rows("prefix"))

\* src/app/address/page.tsx warns of a foreign address, and asks for it all the same.
Address == When(Is("named"), Entity("address", Shows("address")))

View ==
    CASE place = "identity" -> Identity
      [] place = "identity/digest" -> IdentityDigest
      [] place = "identity/tokens" -> IdentityTokens
      [] place = "identity/groups" -> IdentityGroups
      [] place = "identity/votes" -> IdentityVotes
      [] place = "identity/contract" -> IdentityContract
      [] place = "identity/lookup" -> IdentityLookup
      [] place = "dpns/directory" -> DpnsDirectory
      [] place = "dpns" -> DpnsName
      [] place = "dpns/name" -> DpnsNameRow
      [] place = "dpns/search" -> DpnsSearch
      [] place = "address" -> Address

=============================================================================
