------------------------------ MODULE MCWrites ------------------------------
(***************************************************************************)
(* Small instances of the writes that depend on what Platform held when    *)
(* they were prepared.  They share no state, so a behaviour is of one of   *)
(* them, `part`, and the others are not there.                             *)
(***************************************************************************)
EXTENDS Integers

CONSTANTS me, you, them, ta, tb, d1, d2, c1, c2, a1, a2, None,
  Parts,                       \* the parts that behaviours are of
  Docs, Prices, MaxRevision,   \* of DocumentWrites
  Contracts, MaxVersion,       \* of ContractUpdates, and of the form
  Ids, Tokens, Models, Proposals, Changes, MaxChanges,  \* of TokenForm
  Sampled,                     \* the token forms are samples
  Actions, MaxHeight, Attempts,  \* of GroupActions
  SignerKeys, ExecutorInputs, MaxDisabled,  \* of Executors
  Types, Schemas, Links, MaxFetches  \* of DocumentForm

\* The absence of a document, a contract, a schema, a group action, a write, a receipt
\* or a key is none of them.
ASSUME WritesAssumption ==
  /\ "no document" \notin Docs /\ MaxRevision \in Int
  /\ "no contract" \notin Contracts /\ None \notin Contracts
  /\ MaxFetches \in Nat
  /\ \A link \in Links : link[1] \in Contracts \cup {None}
  /\ \A fetch \in 1..MaxFetches, c \in Contracts :
       \A i \in DOMAIN Types[c] : None # <<fetch, Types[c][i]>>
  /\ me # you /\ None \notin {"sent", "applied"}
  /\ None \notin [by : {me, you}, signers : SUBSET {me, you}, closed : BOOLEAN]
  /\ None \notin [by : {"sdk", "read"}, completes : BOOLEAN, provedAt : Nat]
  /\ \A key \in SignerKeys : key.id # None

VARIABLES part,
  dDoc, dCached, dTarget, dLoaded, dEditing, dReload, dOp, dOutcome,
  cVersion, cMine, cCached, cPicked, cText, cReset, cOp, cOutcome,
  tKind, tChain, tVersion, tToken, tFields, tMode, tLinked, tBase, tFull,
  gHistory, gPower, gMode, gTarget, gCrowded, gPhase, gSeen, gBefore, gWrite,
  gTries, gReceipt,
  eOp, eInput, eOnChain, eReviewed, eCriteria, eRest, eMaterial, eHeld, eGuarded,
  eOwned, eCurrent, eSubmitted, eElsewhere, eSent, eExecuted, eVerdict,
  fContract, fType, fProperties, fLink, fCached, fFetches, fJson, fOptions, fCommitted

documentVars == <<dDoc, dCached, dTarget, dLoaded, dEditing, dReload, dOp, dOutcome>>
contractVars == <<cVersion, cMine, cCached, cPicked, cText, cReset, cOp, cOutcome>>
tokenVars == <<tKind, tChain, tVersion, tToken, tFields, tMode, tLinked, tBase, tFull>>
groupVars == <<gHistory, gPower, gMode, gTarget, gCrowded, gPhase, gSeen, gBefore,
               gWrite, gTries, gReceipt>>
executorVars == <<eOp, eInput, eOnChain, eReviewed, eCriteria, eRest, eMaterial, eHeld, eGuarded,
                  eOwned, eCurrent, eSubmitted, eElsewhere, eSent, eExecuted, eVerdict>>
formVars == <<fContract, fType, fProperties, fLink, fCached, fFetches, fJson, fOptions,
              fCommitted>>
vars == <<part, documentVars, contractVars, tokenVars, groupVars, executorVars, formVars>>

-----------------------------------------------------------------------------
(* The tokens of a small contract, for TokenForm: three identities, two    *)
(* tokens whose rules are held by the signer, by another, or by a group    *)
(* that can or cannot act on the signer's signature alone.                 *)

SomeIds == {me, you, them}

NoOne == [type |-> "noOne"]
Owner == [type |-> "contractOwner"]
Identity(id) == [type |-> "identity", identity |-> id]
Group == [type |-> "group", position |-> 0]

Rule(takers) ==
  [authorized |-> takers, admin |-> takers, toNoOne |-> TRUE, adminToNoOne |-> FALSE,
   selfAdmin |-> TRUE]

RuleNames == {"conventions", "maxSupply", "perpetualDistribution",
  "newTokensDestinationIdentity", "mintingAllowChoosingDestination",
  "marketplaceTradeMode", "manualMinting", "manualBurning", "freeze", "unfreeze",
  "destroyFrozenFunds", "emergencyAction", "directPurchasePricing"}

\* A token under `takers`, whose group of `me` and `you` needs two signatures.
Token(t, takers, power, choosing, destination) ==
  [token |-> t, owner |-> me, mainGroup |-> 0, mainGroupBy |-> takers,
   groups |-> [p \in {0} |->
     [members |-> [id \in SomeIds |-> CASE id = me -> power [] id = you -> 1 [] OTHER -> 0],
      required |-> 2]],
   rules |-> [r \in RuleNames |-> Rule(IF r = "maxSupply" THEN Owner ELSE takers)],
   maxSupply |-> 3, choosing |-> choosing, destination |-> destination,
   toFrozen |-> FALSE, distributions |-> [d \in {"perpetual"} |-> {me}], decimals |-> 0]

SomeModels ==
  {[t \in {ta, tb} |-> Token(t, takers, power, choosing /\ t = ta,
                             IF t = ta THEN None ELSE them)] :
     takers \in {Owner, Identity(you), Group}, power \in {1, 2}, choosing \in BOOLEAN}

SomeChanges ==
  {[item |-> "value", rule |-> "maxSupply", value |-> 1, takers |-> NoOne],
   [item |-> "authorized", rule |-> "freeze", value |-> None, takers |-> Identity(them)],
   [item |-> "admin", rule |-> "freeze", value |-> None, takers |-> NoOne]}

\* What `you` has proposed and signed.
Proposal(kind) ==
  [kind |-> kind, proposer |-> you, signers |-> [id \in {you} |-> 1], power |-> 1,
   amount |-> IF kind \in {"mint", "burn"} THEN 1 ELSE None,
   recipient |-> IF kind = "mint" THEN them ELSE None,
   target |-> IF kind \in {"freeze", "unfreeze", "destroyFrozen"} THEN them ELSE None,
   action |-> IF kind = "emergencyAction" THEN "pause" ELSE None,
   change |-> IF kind # "configUpdate" THEN None
              ELSE [item |-> "authorized", rule |-> "freeze", value |-> None,
                    takers |-> Identity(them)]]

SomeProposals ==
  [kind \in {"mint", "burn", "freeze", "unfreeze", "destroyFrozen", "emergencyAction",
             "setPrice", "configUpdate"} |-> Proposal(kind)]

-----------------------------------------------------------------------------
(* The parts. *)

D == INSTANCE DocumentWrites WITH
       doc <- dDoc, cached <- dCached, target <- dTarget, loaded <- dLoaded,
       editing <- dEditing, reload <- dReload, op <- dOp, outcome <- dOutcome

C == INSTANCE ContractUpdates WITH
       version <- cVersion, mine <- cMine, cached <- cCached, picked <- cPicked,
       text <- cText, reset <- cReset, op <- cOp, outcome <- cOutcome

T == INSTANCE TokenForm WITH
       Me <- me,
       kind <- tKind, chain <- tChain, version <- tVersion, token <- tToken,
       fields <- tFields, mode <- tMode, linked <- tLinked, base <- tBase, full <- tFull

G == INSTANCE GroupActions WITH
       Me <- me, You <- you,
       history <- gHistory, power <- gPower, mode <- gMode, target <- gTarget,
       crowded <- gCrowded, phase <- gPhase, seen <- gSeen, before <- gBefore,
       write <- gWrite, tries <- gTries, receipt <- gReceipt

\* One of each kind of key, and one bound to a document type.
Key(id, purpose, level) ==
  [id |-> id, purpose |-> purpose, level |-> level, disabled |-> FALSE, bounds |-> None]
SomeKeys ==
  {Key(0, "AUTHENTICATION", 0), Key(2, "AUTHENTICATION", 2), Key(3, "TRANSFER", 1),
   Key(4, "OWNER", 1), Key(5, "AUTHENTICATION", 1),
   [Key(1, "AUTHENTICATION", 1) EXCEPT !.bounds = [contract |-> c1, type |-> d1]]}
SomeInputs ==
  {[contract |-> c, type |-> d1, required |-> r, toAddress |-> c = c1] :
     c \in {c1, c2}, r \in {1, 2}}

E == INSTANCE Executors WITH
       Dpns <- c2, Keys <- SignerKeys, Inputs <- ExecutorInputs,
       op <- eOp, input <- eInput, onChain <- eOnChain, reviewed <- eReviewed,
       criteria <- eCriteria, rest <- eRest, material <- eMaterial, held <- eHeld,
       guarded <- eGuarded, owned <- eOwned, current <- eCurrent,
       submitted <- eSubmitted, elsewhere <- eElsewhere, sent <- eSent,
       executed <- eExecuted, verdict <- eVerdict

\* One contract with two types that have a field in common, another with one of them.
FormTypes == [c \in Contracts |-> IF c = c1 THEN <<d1, d2>> ELSE <<d2>>]
FormSchema(c, t) ==
  CASE t = d1 -> [fields |-> {1, 2}, required |-> {1}, seeded |-> {2}]
    [] t = d2 /\ c = c1 -> [fields |-> {1}, required |-> {}, seeded |-> {}]
    [] t = d2 /\ c = c2 -> [fields |-> {1, 2}, required |-> {2}, seeded |-> {}]
FormSchemas == [c \in Contracts |-> [t \in {d1, d2} |-> FormSchema(c, t)]]
FormLinks == {<<None, None>>, <<c1, None>>, <<c1, d2>>}

F == INSTANCE DocumentForm WITH
       Invalid <- None,
       contractId <- fContract, documentType <- fType, properties <- fProperties,
       link <- fLink, cached <- fCached, fetches <- fFetches, json <- fJson,
       options <- fOptions, committed <- fCommitted

\* A token's model says which token it is of and who may claim from its perpetual
\* distribution; a change of configuration is of the main control group, of a value, or of
\* who may act under a rule or administer it, and names no one or somebody.
IsModel(model, t) ==
  /\ {"token", "distributions"} \subseteq DOMAIN model
  /\ model.token = t /\ "perpetual" \in DOMAIN model.distributions
IsChange(change) ==
  /\ \/ change.item = "mainControlGroup"
     \/ change.item = "value" /\ change.rule \in T!R!ValueRules
     \/ change.item \in {"authorized", "admin"} /\ change.rule \in T!R!ChangeRules
  /\ change.takers.type = "identity" => change.takers.identity # None
ASSUME TokensAssumption ==
  /\ me # None /\ None # [kind |-> "denied"]
  /\ \A models \in Models, t \in Tokens : IsModel(models[t], t)
  /\ \A change \in Changes \ {None} : IsChange(change)
  /\ \A kind \in DOMAIN Proposals :
       Proposals[kind].change = None \/ IsChange(Proposals[kind].change)

NoDocuments ==
  /\ dDoc = None /\ dCached = None /\ dTarget = None /\ dLoaded = None
  /\ dEditing = None /\ dReload = None /\ dOp = None /\ dOutcome = None
NoContracts ==
  /\ cVersion = None /\ cMine = None /\ cCached = None /\ cPicked = None
  /\ cText = None /\ cReset = None /\ cOp = None /\ cOutcome = None
NoTokens ==
  /\ tKind = None /\ tChain = None /\ tVersion = None /\ tToken = None /\ tFields = None
  /\ tMode = None /\ tLinked = None /\ tBase = None /\ tFull = None
NoGroups ==
  /\ gHistory = None /\ gPower = None /\ gMode = None /\ gTarget = None
  /\ gCrowded = None /\ gPhase = None /\ gSeen = None /\ gBefore = None
  /\ gWrite = None /\ gTries = None /\ gReceipt = None
NoExecutors ==
  /\ eOp = None /\ eInput = None /\ eOnChain = None /\ eReviewed = None
  /\ eCriteria = None /\ eRest = None /\ eMaterial = None /\ eHeld = {}
  /\ eGuarded = None /\ eOwned = None /\ eCurrent = None /\ eSubmitted = None
  /\ eElsewhere = None /\ eSent = FALSE /\ eExecuted = FALSE /\ eVerdict = "running"
NoForm ==
  /\ fContract = None /\ fType = None /\ fProperties = None /\ fLink = None
  /\ fCached = None /\ fFetches = None /\ fJson = None /\ fOptions = None
  /\ fCommitted = None

\* Bound of a run, not of the proofs: of the token forms, those whose inputs and rules
\* matter to their kind.
TokenSamples ==
  /\ tKind # "mint" => ~tChain[ta].model.choosing
  /\ tKind \notin {"burn", "transfer"} => tChain[ta].holders[me].balance = 1
  /\ tKind \notin {"mint", "transfer"} => tFields.recipient = None
  /\ tKind \notin {"freeze", "unfreeze", "destroyFrozen"} => tFields.target = None
  /\ me \notin {tFields.recipient, tFields.target}
  /\ tChain[ta].model.groups[0].members[me] = 2
       => tChain[ta].model.rules["freeze"].authorized = Group

Init ==
  /\ part \in Parts
  /\ IF part = "documents" THEN D!Init ELSE NoDocuments
  /\ IF part = "contracts" THEN C!Init ELSE NoContracts
  /\ IF part = "tokens" THEN T!Init /\ (Sampled => TokenSamples) ELSE NoTokens
  /\ IF part = "groups" THEN G!Init ELSE NoGroups
  /\ IF part = "executors" THEN E!Init ELSE NoExecutors
  /\ IF part = "form" THEN F!Init ELSE NoForm

DocumentNext ==
  /\ part = "documents" /\ D!Next
  /\ UNCHANGED <<part, contractVars, tokenVars, groupVars, executorVars, formVars>>
ContractNext ==
  /\ part = "contracts" /\ C!Next
  /\ UNCHANGED <<part, documentVars, tokenVars, groupVars, executorVars, formVars>>
\* The same bound: only a mint has use for a second token, with another destination.
TokenNext ==
  /\ part = "tokens" /\ T!Next
  /\ Sampled => (tToken' = tb => tKind = "mint")
  /\ UNCHANGED <<part, documentVars, contractVars, groupVars, executorVars, formVars>>
GroupNext ==
  /\ part = "groups" /\ G!Next
  /\ UNCHANGED <<part, documentVars, contractVars, tokenVars, executorVars, formVars>>
ExecutorNext ==
  /\ part = "executors" /\ E!Next
  /\ UNCHANGED <<part, documentVars, contractVars, tokenVars, groupVars, formVars>>
FormNext ==
  /\ part = "form" /\ F!Next
  /\ UNCHANGED <<part, documentVars, contractVars, tokenVars, groupVars, executorVars>>

Next == DocumentNext \/ ContractNext \/ TokenNext \/ GroupNext \/ ExecutorNext
        \/ FormNext

Spec == Init /\ [][Next]_vars

\* DocumentWrites: a replacement Platform accepts was edited from what it replaces.
NoLostUpdate == part = "documents" => D!NoLostUpdate

\* ContractUpdates: an update replaces the schemas and definitions that were edited.
ReplacesWhatWasEdited == part = "contracts" => C!ReplacesWhatWasEdited

\* TokenForm: the form and the executor agree on what can be done.
FormAgreesWithExecutor == part = "tokens" => T!FormAgreesWithExecutor

\* TokenForm: the full snapshot holds every identity the inputs name.
FullNamesInputs == part = "tokens" => T!FullNamesInputs

\* GroupActions: a lost write found again, after reads of any blocks, was taken.
ReadConfirmsWrite == part = "groups" => G!ReadConfirmsWrite

\* GroupActions: balances without a warning include the write, direct or of a group.
BalancesFollowWrite == part = "groups" => G!BalancesFollowWrite

\* GroupActions: what the receipt of a group action says is true.
ReceiptTrue == part = "groups" => G!ReceiptTrue

\* DocumentForm: what is reviewed is the form's document, of its type and contract.
DocumentIsOfForm == part = "form" => F!DocumentIsOfForm

\* DocumentForm: once schemas resolve, a type of the contract is chosen.
TypeOfContract == part = "form" => F!TypeOfContract

\* Executors: the executors of all operations but those of tokens keep what WritePromise says.
KeepsPromise == E!KeepsPromise

=============================================================================
