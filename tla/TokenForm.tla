------------------------------ MODULE TokenForm ------------------------------
(***************************************************************************)
(* The form of a token operation (forms/tokens/TokenOperationForm.tsx):    *)
(* which token it names, the two snapshots it loads of it, the options it  *)
(* drafts from its fields and from the group action to co-sign, and when   *)
(* they can be reviewed; and the checks executeTokenOperation repeats on a *)
(* snapshot of its own just before it signs.  Meanwhile others act on the  *)
(* token.                                                                  *)
(***************************************************************************)
EXTENDS Integers, FiniteSets

CONSTANTS
  Ids, Me,        \* identities, and the connected signer
  Tokens,
  Models,         \* [Tokens -> token configuration] the contract may have
  Proposals,      \* Proposals[kind]: the group action others have proposed
  Changes,        \* configuration changes the fields can build
  None,
  MaxChanges      \* bound: steps of others

R == INSTANCE TokenRules

VARIABLES
  kind,      \* the operation of the form
  chain,     \* [Tokens -> what Platform holds of the token and its pending actions]
  version,   \* number of changes so far
  token,     \* the token the form names
  fields,    \* recipient, target and change, as typed
  mode,      \* groupMode
  linked,    \* the link names the group of the action to co-sign
  base,      \* baseQ: the snapshot that shows the model, or None
  full       \* fullQ: the snapshot for what the inputs name, its key and version

vars == <<kind, chain, version, token, fields, mode, linked, base, full>>

-----------------------------------------------------------------------------
(* Snapshots (tokens/state.ts). *)

ChangeIds(change) ==
  IF change # None /\ change.takers.type = "identity" THEN {change.takers.identity} ELSE {}

\* loadTokenSnapshot, for the identities asked for and those a co-signed action
\* names.
Snapshot(t, ids, cosign) ==
  LET pending == IF cosign THEN chain[t].pending ELSE None
      named == IF pending = None THEN {}
               ELSE ({pending.recipient, pending.target, pending.proposer}
                     \cup ChangeIds(pending.change)) \ {None} IN
  [model |-> chain[t].model, paused |-> chain[t].paused, supply |-> chain[t].supply,
   price |-> chain[t].price, credits |-> IF kind = "directPurchase" THEN 2 ELSE None,
   holders |-> [id \in ids \cup named |-> chain[t].holders[id]], pending |-> pending]

\* Mistake: the executor does not look at the recipient.
BugForgetsRecipient(options) ==
  ({options.signer, options.target} \cup ChangeIds(options.change)) \ {None}
\* holderIdsFor: identities the operation depends on.
HolderIds(options) ==
  ({options.signer, options.recipient, options.target} \cup ChangeIds(options.change))
  \ {None}

-----------------------------------------------------------------------------
(* What the form derives from its snapshots. *)

Model == base.model

Authority ==
  IF kind = "configUpdate"
  THEN IF fields.change = None THEN None
       ELSE R!ConfigChangeAuthority(fields.change, Model, Me)
  ELSE IF kind \in DOMAIN R!OperationRule
       THEN R!Authorize(Model.rules[R!OperationRule[kind]].authorized, Model, Me)
       ELSE None

\* A link to co-sign a configuration change, until the change is known.
LinkedCosign == kind = "configUpdate" /\ Authority = None /\ mode = "cosign" /\ linked

GroupPosition == IF Authority # None /\ Authority.kind = "group" THEN Authority.position
                 ELSE IF LinkedCosign THEN 0 ELSE None

\* Acting alone is offered to those whose power suffices; others propose.
EffectiveMode ==
  IF kind \notin R!GroupOperations \/ GroupPosition = None THEN "direct"
  ELSE IF mode = "direct" /\ ~Authority.alone THEN "propose"
  ELSE mode

\* The key of fullQ, which names the token, the identities and the action.
FullKey == <<token, fields.recipient, fields.target, ChangeIds(fields.change),
             EffectiveMode = "cosign">>

FullShown == IF full # None /\ full.key = FullKey THEN full.snapshot ELSE None
ShownSnapshot == IF FullShown # None THEN FullShown ELSE base

Pending == IF EffectiveMode = "cosign" /\ FullShown # None THEN FullShown.pending ELSE None

Balance(id) == IF FullShown # None /\ id \in DOMAIN FullShown.holders
               THEN FullShown.holders[id].balance ELSE None

\* What mint, burn, transfer... put together from the fields or the proposal,
\* None when something is missing.
Draft ==
  LET cosigned == Pending
      recipient == IF cosigned # None THEN cosigned.recipient
                   ELSE IF kind = "mint" /\ ~Model.choosing THEN Model.destination
                   ELSE IF kind \in {"mint", "transfer"} THEN fields.recipient ELSE None
      target == IF cosigned # None THEN cosigned.target
                ELSE IF kind \in {"freeze", "unfreeze", "destroyFrozen"}
                THEN fields.target ELSE None
      change == IF cosigned # None THEN cosigned.change
                ELSE IF kind = "configUpdate" THEN fields.change ELSE None
      price == ShownSnapshot.price IN
  IF \/ EffectiveMode = "cosign" /\ (cosigned = None \/ cosigned.kind # kind)
     \/ kind \in {"mint", "transfer"} /\ recipient = None
     \/ kind \in {"freeze", "unfreeze", "destroyFrozen"} /\ target = None
     \/ kind = "destroyFrozen" /\ Balance(target) = None
     \/ kind = "directPurchase" /\ price = None
     \/ kind = "configUpdate" /\ change = None
  THEN None
  ELSE [kind |-> kind, token |-> Model.token, signer |-> Me, decimals |-> Model.decimals,
        mode |-> EffectiveMode, group |-> GroupPosition,
        amount |-> IF kind \in {"mint", "burn", "transfer", "directPurchase"} THEN 1 ELSE None,
        recipient |-> recipient, choose |-> kind = "mint" /\ Model.choosing,
        target |-> target,
        frozenBalance |-> IF kind = "destroyFrozen" THEN Balance(target) ELSE None,
        action |-> IF kind # "emergencyAction" THEN None
                   ELSE IF cosigned # None THEN cosigned.action
                   ELSE IF ShownSnapshot.paused THEN "resume" ELSE "pause",
        price |-> IF kind = "directPurchase" THEN price ELSE None,
        cost |-> IF kind = "directPurchase" THEN price ELSE None,
        distribution |-> IF kind = "claim" THEN "perpetual" ELSE None,
        change |-> change]

Loaded == base # None /\ FullShown # None

\* Options leave the form for the review when nothing speaks against them.
Ready ==
  /\ Loaded /\ Draft # None
  /\ R!TokenOperationProblems(Draft, FullShown) = {}
  /\ ~R!Unavailable(kind, ShownSnapshot, Me)

\* A proposal may repeat one of the signer's own that is pending, or that a full page of
\* pending actions hides.
DuplicateRefused(options) ==
  /\ options.mode = "propose"
  /\ \/ chain[options.token].crowded
     \/ /\ chain[options.token].own # None
        /\ R!SameParameters(chain[options.token].own, options)

\* executeTokenOperation, with the key loaded, up to the write.
ExecutorAccepts(options) ==
  /\ R!TokenOperationProblems(options,
       Snapshot(options.token, HolderIds(options), options.mode = "cosign")) = {}
  /\ ~DuplicateRefused(options)

-----------------------------------------------------------------------------
(* The form. *)

NoFields == [recipient |-> None, target |-> None, change |-> None]

Init ==
  /\ kind \in R!Kinds
  /\ \E models \in Models, holds \in BOOLEAN :
       chain = [t \in Tokens |->
         [model |-> models[t], paused |-> FALSE, supply |-> 2, price |-> 1,
          holders |-> [id \in Ids |-> [exists |-> TRUE, frozen |-> FALSE,
                                       balance |-> IF holds \/ id # Me THEN 1 ELSE 0]],
          pending |-> IF kind \in DOMAIN Proposals THEN Proposals[kind] ELSE None,
          own |-> None, crowded |-> FALSE]]
  /\ version = 0
  /\ token = None /\ base = None /\ full = None
  /\ \E recipient, target \in Ids \cup {None} :  \* of the link followed
       fields = [NoFields EXCEPT !.recipient = recipient, !.target = target]
  /\ linked \in BOOLEAN
  /\ mode = IF linked THEN "cosign" ELSE "direct"

\* Another key shows nothing until it has loaded.
NameToken(t) ==
  /\ t # token
  /\ token' = t /\ base' = None /\ full' = None
  /\ UNCHANGED <<kind, chain, version, fields, mode, linked>>

\* ConfigChangeFields starts from the maximum supply the token has.
InitialChange(snapshot) ==
  IF snapshot.model.maxSupply = None \/ R!Unavailable(kind, snapshot, Me) THEN None
  ELSE [item |-> "value", rule |-> "maxSupply", value |-> snapshot.model.maxSupply,
        takers |-> [type |-> "noOne"]]

\* The model arrives; the recipient of a mint is prefilled unless it has one,
\* and the fields of a configuration change report theirs.
BaseArrives ==
  /\ token # None /\ base = None
  /\ base' = Snapshot(token, {Me}, FALSE)
  /\ fields' =
       CASE kind = "mint" /\ fields.recipient = None ->
              [fields EXCEPT !.recipient =
                 IF base'.model.destination # None THEN base'.model.destination ELSE Me]
         [] kind = "configUpdate" -> [fields EXCEPT !.change = InitialChange(base')]
         [] OTHER -> fields
  /\ UNCHANGED <<kind, chain, version, token, mode, linked, full>>

\* A pending configuration change locks the fields to what it says.
FullArrives ==
  /\ base # None
  /\ LET snapshot == Snapshot(token, ({Me, fields.recipient, fields.target} \ {None})
                                        \cup ChangeIds(fields.change),
                              EffectiveMode = "cosign") IN
     /\ full' = [key |-> FullKey, version |-> version, snapshot |-> snapshot]
     /\ fields' = IF kind = "configUpdate" /\ snapshot.pending # None
                  THEN [fields EXCEPT !.change = snapshot.pending.change] ELSE fields
  /\ UNCHANGED <<kind, chain, version, token, mode, linked, base>>

\* The inputs are on the page once the model is there, and not while co-signing.
Editing == base # None /\ EffectiveMode # "cosign"
           /\ ~R!Unavailable(kind, ShownSnapshot, Me)

EditRecipient(id) ==
  /\ Editing /\ (kind = "transfer" \/ (kind = "mint" /\ Model.choosing))
  /\ fields' = [fields EXCEPT !.recipient = id]
  /\ UNCHANGED <<kind, chain, version, token, mode, linked, base, full>>

EditTarget(id) ==
  /\ Editing /\ kind \in {"freeze", "unfreeze", "destroyFrozen"}
  /\ fields' = [fields EXCEPT !.target = id]
  /\ UNCHANGED <<kind, chain, version, token, mode, linked, base, full>>

EditChange(change) ==
  /\ Editing /\ kind = "configUpdate"
  /\ fields' = [fields EXCEPT !.change = change]
  /\ UNCHANGED <<kind, chain, version, token, mode, linked, base, full>>

ChooseMode(m) ==
  /\ base # None /\ GroupPosition # None /\ kind \in R!GroupOperations
  /\ m = "direct" => Authority.alone
  /\ mode' = m
  /\ UNCHANGED <<kind, chain, version, token, fields, linked, base, full>>

\* What the signer proposes with these inputs.
OwnAction == IF Draft # None /\ EffectiveMode = "propose"
             THEN [field \in R!Parameters |-> Draft[field]] ELSE None

\* Others freeze, pay, pause, price the token, the group action closes, or so many others
\* are proposed that their page is full; or the signer proposes the same in another tab.
OthersAct ==
  /\ version < MaxChanges /\ base # None
  /\ version' = version + 1
  /\ \E id \in Ids, t \in {token} :
       \E next \in {[chain[t] EXCEPT !.holders[id].frozen = ~@],
                    [chain[t] EXCEPT !.holders[id].balance = 1 - @],
                    [chain[t] EXCEPT !.paused = ~@],
                    [chain[t] EXCEPT !.price = IF @ = None THEN 2 ELSE None],
                    [chain[t] EXCEPT !.model.decimals = 1 - @],
                    [chain[t] EXCEPT !.pending = None],
                    [chain[t] EXCEPT !.crowded = TRUE],
                    [chain[t] EXCEPT !.own = OwnAction]} :
         chain' = [chain EXCEPT ![t] = next]
  /\ UNCHANGED <<kind, token, fields, mode, linked, base, full>>

Next ==
  \/ \E t \in Tokens : NameToken(t)
  \/ BaseArrives \/ FullArrives
  \/ \E id \in Ids : EditRecipient(id) \/ EditTarget(id)
  \/ \E change \in Changes : EditChange(change)
  \/ \E m \in {"direct", "propose", "cosign"} : ChooseMode(m)
  \/ OthersAct

Spec == Init /\ [][Next]_vars

-----------------------------------------------------------------------------
\* Form and executor agree, each on a snapshot of the identities it asked for itself.  On
\* data that is still true the executor accepts what the form lets through, but for a
\* proposal that may be a duplicate: that the form does not ask, so its user confirms and
\* unlocks a key only to be refused.  And an operation is only called
\* unavailable when the executor would refuse it with these inputs too: the entry points
\* and the form, which decide before any input, never hide what the signer could do.
FormAgreesWithExecutor ==
  Loaded /\ full.version = version =>
    /\ Ready => ExecutorAccepts(Draft) \/ DuplicateRefused(Draft)
    /\ Draft # None /\ ExecutorAccepts(Draft) => ~R!Unavailable(kind, FullShown, Me)

\* The comment on fullQ: the full snapshot is keyed by every identity the
\* inputs name, so that what it does not hold does not exist.
FullNamesInputs ==
  Loaded /\ Draft # None => HolderIds(Draft) \subseteq DOMAIN FullShown.holders

=============================================================================
