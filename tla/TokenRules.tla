----------------------------- MODULE TokenRules -----------------------------
(***************************************************************************)
(* Who may run which token operation, and why one cannot go ahead: the     *)
(* pure part of components/broadcast/tokens (model, config-change, checks, *)
(* options, draft, group-actions).  Wording is left out: a check that      *)
(* pushes a message is a problem with a name, and an operation goes ahead  *)
(* when it has none.  A snapshot is what loadTokenSnapshot reads:          *)
(*   model    the token's configuration and the contract's groups          *)
(*   holders  the identities it was asked about, with balance and freeze   *)
(*   pending  the group action to co-sign, or None                         *)
(***************************************************************************)
EXTENDS Integers, FiniteSets

CONSTANTS None

Kinds == {"mint", "burn", "transfer", "freeze", "unfreeze", "destroyFrozen",
  "emergencyAction", "setPrice", "directPurchase", "claim", "configUpdate"}

GroupOperations == Kinds \ {"transfer", "directPurchase", "claim"}

\* The rules a configuration update can re-assign.
ChangeRules == {"conventions", "maxSupply", "perpetualDistribution",
  "newTokensDestinationIdentity", "mintingAllowChoosingDestination",
  "marketplaceTradeMode", "manualMinting", "manualBurning", "freeze", "unfreeze",
  "destroyFrozenFunds", "emergencyAction"}

\* Those of them that govern a value.
ValueRules == {"conventions", "maxSupply", "perpetualDistribution",
  "newTokensDestinationIdentity", "mintingAllowChoosingDestination", "marketplaceTradeMode"}

OperationRule == [mint |-> "manualMinting", burn |-> "manualBurning",
  freeze |-> "freeze", unfreeze |-> "unfreeze", destroyFrozen |-> "destroyFrozenFunds",
  emergencyAction |-> "emergencyAction", setPrice |-> "directPurchasePricing"]

-----------------------------------------------------------------------------
(* Authority. *)

Denied == [kind |-> "denied"]
Direct == [kind |-> "direct"]
DirectIf(condition) == IF condition THEN Direct ELSE Denied

ViaGroup(position, model, signer) ==
  IF position \notin DOMAIN model.groups \/ model.groups[position].members[signer] = 0
  THEN Denied
  ELSE LET group == model.groups[position] IN
       [kind |-> "group", position |-> position, required |-> group.required,
        power |-> group.members[signer],
        alone |-> group.members[signer] >= group.required]

Authorize(takers, model, signer) ==
  CASE takers.type = "contractOwner" -> DirectIf(signer = model.owner)
    [] takers.type = "identity" -> DirectIf(signer = takers.identity)
    [] takers.type = "mainGroup" -> ViaGroup(model.mainGroup, model, signer)
    [] takers.type = "group" -> ViaGroup(takers.position, model, signer)
    [] OTHER -> Denied

\* A change of a value, or of who may act under a rule or administer it.
ConfigChangeAuthority(change, model, signer) ==
  LET rule == model.rules[change.rule] IN
  CASE change.item = "mainControlGroup" -> Authorize(model.mainGroupBy, model, signer)
    [] change.item = "value" -> Authorize(rule.authorized, model, signer)
    [] change.item = "authorized" /\ change.takers.type = "noOne" /\ ~rule.toNoOne -> Denied
    [] change.item = "admin" /\ ~rule.selfAdmin -> Denied
    [] change.item = "admin" /\ change.takers.type = "noOne" /\ ~rule.adminToNoOne -> Denied
    [] OTHER -> Authorize(rule.admin, model, signer)

\* None for the operations no rule governs.
AuthorityFor(options, model) ==
  CASE options.kind = "configUpdate" ->
         ConfigChangeAuthority(options.change, model, options.signer)
    [] options.kind \in DOMAIN OperationRule ->
         Authorize(model.rules[OperationRule[options.kind]].authorized, model, options.signer)
    [] OTHER -> None

-----------------------------------------------------------------------------
(* The checks forms run before review and executors before signing. *)

Stranger == [exists |-> FALSE, balance |-> 0, frozen |-> FALSE]
Holder(snapshot, id) ==
  IF id \in DOMAIN snapshot.holders THEN snapshot.holders[id] ELSE Stranger

ProblemIf(condition, name) == IF condition THEN {name} ELSE {}

\* The fields of a group action a co-signer must repeat; whose balance a burn
\* takes is the proposer's and not among them.
Parameters == {"kind", "amount", "recipient", "target", "action", "change"}

SameParameters(action, options) ==
  \A field \in Parameters : action[field] = options[field]

GroupProblems(options, snapshot) ==
  LET authority == AuthorityFor(options, snapshot.model)
      pending == snapshot.pending IN
  IF authority = None THEN ProblemIf(options.mode # "direct", "not a group action")
  ELSE IF authority.kind = "denied" THEN {"denied"}
  ELSE IF options.mode = "direct"
  THEN ProblemIf(authority.kind = "group" /\ ~authority.alone, "group must approve")
  ELSE IF authority.kind # "group" \/ authority.position # options.group THEN {"other group"}
  ELSE IF options.mode = "propose" THEN {}
  ELSE IF pending = None THEN {"not pending"}
  ELSE ProblemIf(~SameParameters(pending, options), "differs")
       \cup ProblemIf(options.signer \in DOMAIN pending.signers, "signed already")
       \cup ProblemIf(pending.power >= authority.required, "complete")

SupplyProblem(snapshot, amount) ==
  ProblemIf(snapshot.model.maxSupply # None
            /\ snapshot.supply + amount > snapshot.model.maxSupply, "max supply")

MintProblems(options, snapshot) ==
  LET model == snapshot.model
      recipient == Holder(snapshot, options.recipient) IN
  ProblemIf(~model.choosing /\ (options.choose \/ options.recipient # model.destination),
            "destination")
  \cup ProblemIf(model.choosing /\ ~options.choose /\ options.recipient # model.destination,
                 "choose")
  \cup ProblemIf(~recipient.exists, "no recipient")
  \cup ProblemIf(recipient.frozen /\ ~model.toFrozen, "recipient frozen")
  \cup SupplyProblem(snapshot, options.amount)

BurnProblems(options, snapshot) ==
  LET from == IF options.mode = "cosign" /\ snapshot.pending # None
              THEN snapshot.pending.proposer ELSE options.signer IN
  ProblemIf(Holder(snapshot, from).balance < options.amount, "holds less")

TransferProblems(options, snapshot) ==
  LET signer == Holder(snapshot, options.signer)
      recipient == Holder(snapshot, options.recipient) IN
  ProblemIf(options.recipient = options.signer, "to yourself")
  \cup ProblemIf(snapshot.paused, "paused")
  \cup ProblemIf(signer.frozen, "frozen")
  \cup ProblemIf(signer.balance < options.amount, "holds less")
  \cup ProblemIf(~recipient.exists, "no recipient")
  \cup ProblemIf(recipient.frozen /\ ~snapshot.model.toFrozen, "recipient frozen")

\* Freezing, unfreezing, and destroying the whole balance that was reviewed.
TargetProblems(options, snapshot) ==
  LET target == Holder(snapshot, options.target) IN
  ProblemIf(options.kind = "freeze" /\ ~target.exists, "no target")
  \cup ProblemIf(target.frozen = (options.kind = "freeze"), "freeze state")
  \cup ProblemIf(options.kind = "destroyFrozen" /\ target.balance = 0, "nothing to destroy")
  \cup ProblemIf(options.kind = "destroyFrozen" /\ target.balance # options.frozenBalance,
                 "not the reviewed balance")

PurchaseProblems(options, snapshot) ==
  IF snapshot.price = None THEN {"not for sale"}
  ELSE ProblemIf(snapshot.price # options.price, "price changed")
       \cup ProblemIf(options.cost # snapshot.price * options.amount, "total")
       \cup ProblemIf(snapshot.credits # None /\ snapshot.credits < options.cost, "credits")
       \cup SupplyProblem(snapshot, options.amount)

ClaimProblem(distribution, model, signer) ==
  ProblemIf(signer \notin model.distributions[distribution], "nothing to claim")

ConfigChangeProblems(change, snapshot) ==
  LET model == snapshot.model
      rule == model.rules[change.rule]
      current == IF change.item = "authorized" THEN rule.authorized ELSE rule.admin IN
  IF change.item \in {"authorized", "admin"}
  THEN ProblemIf(change.takers.type = "mainGroup" /\ model.mainGroup = None, "no main group")
       \cup ProblemIf(change.takers.type = "group"
                      /\ change.takers.position \notin DOMAIN model.groups, "no group")
       \cup ProblemIf(change.takers = current, "already")
       \cup ProblemIf(change.takers.type = "identity"
                      /\ ~Holder(snapshot, change.takers.identity).exists, "no identity")
  ELSE ProblemIf(change.item = "value" /\ change.rule = "maxSupply"
                 /\ change.value # None /\ change.value < snapshot.supply, "below supply")
       \cup ProblemIf(change.item = "mainControlGroup" /\ change.value # None
                      /\ change.value \notin DOMAIN model.groups, "no group")

OperationProblems(options, snapshot) ==
  CASE options.kind = "mint" -> MintProblems(options, snapshot)
    [] options.kind = "burn" -> BurnProblems(options, snapshot)
    [] options.kind = "transfer" -> TransferProblems(options, snapshot)
    [] options.kind \in {"freeze", "unfreeze", "destroyFrozen"} ->
         TargetProblems(options, snapshot)
    [] options.kind = "emergencyAction" ->
         ProblemIf(snapshot.paused = (options.action = "pause"), "pause state")
    [] options.kind = "directPurchase" -> PurchaseProblems(options, snapshot)
    [] options.kind = "claim" ->
         ClaimProblem(options.distribution, snapshot.model, options.signer)
    [] options.kind = "configUpdate" -> ConfigChangeProblems(options.change, snapshot)
    [] OTHER -> {}

\* An amount in base units means nothing once the decimals have changed.
TokenOperationProblems(options, snapshot) ==
  IF options.token # snapshot.model.token THEN {"another token"}
  ELSE IF options.decimals # snapshot.model.decimals THEN {"conventions changed"}
  ELSE GroupProblems(options, snapshot) \cup OperationProblems(options, snapshot)

-----------------------------------------------------------------------------
(* Whether the operation is offered at all. *)

\* The changes of configuration whose authority decides whether any is possible.
SampleChanges ==
  {[item |-> "mainControlGroup", rule |-> "freeze", takers |-> [type |-> "noOne"]]}
  \cup [item : {"value"}, takers : {[type |-> "noOne"]}, rule : ValueRules]
  \cup [item : {"authorized"}, rule : ChangeRules, takers : {[type |-> "contractOwner"]}]

CanUpdateConfig(model, signer) ==
  \E change \in SampleChanges : ConfigChangeAuthority(change, model, signer) # Denied

\* Burning takes your own balance, unless you co-sign a group burn.
NothingToBurn(authority, balance) == authority.kind = "direct" /\ balance = 0

\* operationUnavailable: before any input.
Unavailable(kind, snapshot, signer) ==
  LET model == snapshot.model
      balance == Holder(snapshot, signer).balance
      authority == IF kind \in DOMAIN OperationRule
                   THEN Authorize(model.rules[OperationRule[kind]].authorized, model, signer)
                   ELSE None IN
  \/ authority # None /\ authority.kind = "denied"
  \/ kind = "transfer" /\ balance = 0
  \/ kind = "burn" /\ NothingToBurn(authority, balance)
  \/ kind = "directPurchase" /\ snapshot.price = None
  \/ kind = "claim" /\ \A d \in DOMAIN model.distributions :
                         ClaimProblem(d, model, signer) # {}
  \/ kind = "configUpdate" /\ ~CanUpdateConfig(model, signer)

=============================================================================
