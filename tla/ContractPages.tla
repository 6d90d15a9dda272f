----------------------------- MODULE ContractPages -----------------------------
(***************************************************************************)
(* The pages about contracts and documents: src/app/contract and             *)
(* src/components/contract.                                                 *)
(***************************************************************************)
EXTENDS FiniteSets

VARIABLES place, facts, session, q

Places == {"contract", "contract/tokens", "contract/supply", "contract/groups",
           "document", "document/history", "documents", "documents/landing",
           "contract/token"}

\* keepsHistory, declaresType, declaresGroups, declaresTokens: of the contract that
\* was read.  historyTab: the open tab.  filtersValid: the filters of the URL make a
\* query.  firstPage: no cursor was pushed.  derivable: the token has an id.
Facts(at) ==
    CASE at = "contract" -> {"named", "keepsHistory", "historyTab"}
      [] at = "contract/tokens" -> {"declaresTokens", "derivable"}
      [] at = "contract/groups" -> {"declaresGroups"}
      [] at = "document" -> {"named", "keepsHistory", "historyTab"}
      [] at = "document/history" -> {"keepsHistory", "firstPage"}
      [] at = "documents" -> {"named", "declaresType", "filtersValid"}
      [] at = "documents/landing" -> {"named", "declaresType"}
      [] at = "contract/token" -> {"named"}
      [] OTHER -> {}

Is(fact) == fact \in facts
Data(n) == IF n \in DOMAIN q THEN q[n].data ELSE "no"

\* Ids are derived while a session is ready; a contract's own facts are known once it
\* has been read.
Asks(at) ==
    CASE at = "contract" /\ Is("named") ->
            {"contract"} \cup (IF Data("contract") = "some" /\ Is("keepsHistory") /\ Is("historyTab")
                               THEN {"history"} ELSE {})
      [] at = "contract/tokens" ->
            {"derivation"} \cup (IF Data("derivation") = "some" /\ Is("derivable") THEN {"statuses", "prices"} ELSE {})
      [] at = "contract/supply" -> {"supply"}
      [] at = "contract/groups" -> {"groups"}
      [] at = "document" /\ Is("named") -> {"document", "contract"}
      [] at = "document/history" /\ Is("keepsHistory") -> {"revisions"}
      [] at = "documents" ->
            {"status"} \cup (IF Is("named") THEN {"contract"} ELSE {})
            \cup (IF Data("contract") = "some" /\ Is("declaresType") /\ Is("filtersValid")
                  THEN {"documents"} ELSE {})
      [] at = "documents/landing" /\ Is("named") -> {"contract"}
      [] at = "contract/token" /\ Is("named") -> {"tokenId"}
      [] OTHER -> {}

asked == Asks(place)

INSTANCE Views

\* What a view may leave out without a word when it fails: the protocol version, which
\* tells what a document query may use, is the status of the bar above.
Asides(at) ==
    CASE at = "document" /\ ~Is("historyTab") -> {"contract"}
      [] at = "documents" -> {"status"}
      [] OTHER -> {}

-----------------------------------------------------------------------------
(* src/app/contract/page.tsx                                               *)

\* ContractHistoryTimeline: no version at all is an answer too.
HistoryTab == When(Is("keepsHistory"), Rows("history"))

Contract ==
    When(Is("named"),
         Entity("contract", Shows("contract") \cup When(Is("historyTab"), HistoryTab)))

\* ContractTokensTab: statuses and prices have a cell of their own; their failure is
\* said there, without a button.
Cell(n) ==
    IF Failed(n) THEN ErrorText(n)
    ELSE IF Loading(n) THEN LoadingCard(n)
    ELSE When(Has(n), Shows(n))
ContractTokens ==
    IF Query("derivation").error THEN ErrorText("derivation")
    ELSE IF ~Answered("derivation") THEN LoadingCard("derivation")
    ELSE IF ~Has("derivation") THEN NotFound("derivation")
    ELSE Shows("derivation") \cup Cell("statuses") \cup Cell("prices")
TokenSupplyCell == Cell("supply")

\* ContractGroupsTab: the groups the contract declares stand in for those not returned.
ContractGroups ==
    Card("groups", IF Has("groups") THEN Shows("groups")
                   ELSE IF Is("declaresGroups") THEN {} ELSE NotFound("groups"))

\* src/app/contract/token/page.tsx: the id of the token at a position, computed by an
\* effect, and the token's own page once it is known.
ContractToken ==
    When(Is("named"),
         IF Query("tokenId").error THEN ErrorText("tokenId")
         ELSE IF Answered("tokenId") THEN Shows("tokenId")
         ELSE LoadingCard("tokenId"))

-----------------------------------------------------------------------------
(* Documents                                                               *)

\* DocumentHistorySection: the first page that is empty says there are no revisions; a
\* later one that there are no more.
DocumentHistory == When(Is("keepsHistory"), Rows("revisions"))

\* src/app/contract/document/page.tsx: the history tab needs the contract, to know
\* whether it keeps history.
DocumentHistoryTab ==
    Card("contract", IF Has("contract") THEN Shows("contract") ELSE ErrorText("contract"))
Document ==
    When(Is("named"),
         Entity("document", Shows("document") \cup When(Is("historyTab"), DocumentHistoryTab)))

\* src/app/contract/documents/page.tsx: filters that make no query show their errors
\* above a table that has no rows.
DocumentTable == Rows("documents")
Documents ==
    When(Is("named"),
         Card("contract",
              IF ~Has("contract") THEN NotFound("contract")
              ELSE IF ~Is("declaresType") THEN {}
              ELSE Shows("contract") \cup DocumentTable))

\* DocumentsLanding
DocumentsLanding ==
    When(Is("named"), Entity("contract", When(Is("declaresType"), Shows("contract"))))

View ==
    CASE place = "contract" -> Contract
      [] place = "contract/tokens" -> ContractTokens
      [] place = "contract/supply" -> TokenSupplyCell
      [] place = "contract/groups" -> ContractGroups
      [] place = "contract/token" -> ContractToken
      [] place = "document" -> Document
      [] place = "document/history" -> DocumentHistory
      [] place = "documents" -> Documents
      [] place = "documents/landing" -> DocumentsLanding

=============================================================================
