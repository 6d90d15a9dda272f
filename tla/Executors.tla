----------------------------- MODULE Executors -----------------------------
(***************************************************************************)
(* The executors of the single operations (components/broadcast/executors  *)
(* and executors.ts), but the one of token operations, which GroupActions  *)
(* models and which does not keep the promise below.  Each is a            *)
(* script of steps, run in one of two envelopes: withSigningMaterial, with *)
(* the connected signer's reviewed key, and executeFormSigned, with keys   *)
(* from the form.  An envelope turns whatever a step throws into a verdict *)
(* and frees the keys.  A script is kept as the steps left to do.          *)
(*                                                                         *)
(* Before them, capabilities: which key may sign an operation, from what   *)
(* the operation declares and what its inputs narrow that to               *)
(* (components/broadcast/capabilities.ts), and the key that is selected    *)
(* (signer/keys.ts).  A key is [id, purpose, level, disabled, bounds] with *)
(* bounds None or [contract, type]; a security level is its rank.          *)
(***************************************************************************)
EXTENDS Integers, FiniteSets, Sequences

CONSTANTS
  None,        \* no bounds, no document type
  Dpns,        \* DPNS_CONTRACT_ID
  Keys,        \* the public keys of the signer's identity, all enabled
  Inputs,      \* [contract, type, required, toAddress]
  MaxDisabled  \* bound: keys disabled meanwhile

VARIABLES
  op, input,
  onChain,    \* Keys as Platform holds them
  reviewed,   \* id of the key shown at review
  criteria,   \* resolved by this call
  rest,       \* steps left
  material,   \* id of the key the signer prepared
  held,       \* private key material in memory
  guarded,    \* of it, what its loader frees when a step throws
  owned,      \* of it, what the envelope frees at the end
  current,    \* the reviewed session and inputs are current
  submitted,  \* submittedEntities is set
  elsewhere,  \* the transition was pasted, so others may broadcast it
  sent, executed, \* the transition left for Platform; it executed
  verdict

script == <<rest, material, held, guarded, owned, criteria>>
world == <<onChain, current, executed>>
fixed == <<op, reviewed, elsewhere>>
vars == <<fixed, input, script, world, submitted, sent, verdict>>

-----------------------------------------------------------------------------
(* Capabilities. *)

Master == 0
Critical == 1
High == 2
Medium == 3

FormSigned ==
  {"identity.create", "identity.topUp", "addresses.transfer", "addresses.topUpIdentity",
   "addresses.withdraw", "addresses.fundFromAssetLock", "addresses.createIdentity",
   "voting.castVote", "stateTransitions.broadcast"}
DocumentOperations ==
  {"document.create", "document.replace", "document.delete", "document.transfer",
   "document.setPrice", "document.purchase"}
TransferKeyTokens == {"token.transfer", "token.claim"}
AuthenticationTokens ==
  {"token.mint", "token.burn", "token.freeze", "token.unfreeze", "token.destroyFrozen",
   "token.emergencyAction", "token.setPrice", "token.directPurchase", "token.configUpdate"}
TokenOperations == TransferKeyTokens \cup AuthenticationTokens
IdentitySigned ==
  DocumentOperations \cup TokenOperations
  \cup {"contract.register", "contract.update", "dpns.registerName", "identity.updateKeys",
        "identity.creditTransfer", "identity.creditWithdrawal",
        "addresses.transferFromIdentity"}

-----------------------------------------------------------------------------
(* Criteria: [purposes, levels, target, keyId]. *)

Declare(purposes, levels) ==
  [purposes |-> purposes, levels |-> levels, target |-> None, keyId |-> None]

tokenKeyCriteria(id) ==
  Declare(IF id \in TransferKeyTokens THEN {"AUTHENTICATION", "TRANSFER"}
          ELSE {"AUTHENTICATION"}, {Critical})

operationRequirement(id) ==
  CASE id \in TokenOperations -> tokenKeyCriteria(id)
    [] id \in DocumentOperations -> Declare({"AUTHENTICATION"}, Master .. Medium)
    [] id \in {"identity.creditTransfer", "addresses.transferFromIdentity"} ->
         Declare({"TRANSFER"}, {Critical})
    [] id = "identity.creditWithdrawal" -> Declare({"TRANSFER", "OWNER"}, {Critical})
    [] id = "identity.updateKeys" -> Declare({"AUTHENTICATION"}, {Master})
    [] id = "contract.update" -> Declare({"AUTHENTICATION"}, {Critical})
    [] id \in {"contract.register", "dpns.registerName"} ->
         Declare({"AUTHENTICATION"}, {Critical, High})

\* From CRITICAL to what the type requires; MASTER is accepted for no document.
documentSecurityLevels(required) == Critical .. required

\* given: [contract, type, required, toAddress], required being what the document
\* type asks for in the contract that is read; None when the read fails.
Resolvable(id, given) ==
  id \in DocumentOperations => given.required \in Critical .. Medium

resolveSigningCriteria(id, given) ==
  LET base == operationRequirement(id) IN
  CASE id \in DocumentOperations ->
         [base EXCEPT !.levels = documentSecurityLevels(given.required),
                      !.target = [contract |-> given.contract, type |-> given.type]]
    [] id \in TokenOperations ->
         [base EXCEPT !.target = [contract |-> given.contract, type |-> None]]
    [] id = "dpns.registerName" ->
         [base EXCEPT !.target = [contract |-> Dpns, type |-> None]]
    [] id = "identity.creditWithdrawal" ->
         [base EXCEPT !.purposes = {IF given.toAddress THEN "TRANSFER" ELSE "OWNER"}]
    [] OTHER -> base

-----------------------------------------------------------------------------
(* Keys. *)

withinBounds(key, wanted) ==
  \/ key.bounds = None
  \/ /\ wanted.target # None
     /\ wanted.target.contract = key.bounds.contract
     /\ key.bounds.type \in {None, wanted.target.type}

\* A preview ignores bounds: the contract is not known before the form is filled in.
MeetsIgnoringBounds(key, wanted) ==
  /\ ~key.disabled
  /\ wanted.keyId \in {None, key.id}
  /\ key.purpose \in wanted.purposes
  /\ key.level \in wanted.levels

keyMeetsCriteria(key, wanted) ==
  MeetsIgnoringBounds(key, wanted) /\ withinBounds(key, wanted)

Eligible(keys, wanted) == {key \in keys : keyMeetsCriteria(key, wanted)}

\* The strongest, then the lowest id.
Before(k, l) == k.level < l.level \/ (k.level = l.level /\ k.id <= l.id)

\* As a set: empty when selectSigningKey throws.
selectSigningKey(keys, wanted) ==
  {k \in Eligible(keys, wanted) : \A l \in Eligible(keys, wanted) : Before(k, l)}

\* The operation is offered to a signer that has these keys.
Offered(id, keys) ==
  id \in IdentitySigned => \E key \in keys : MeetsIgnoringBounds(key, operationRequirement(id))

-----------------------------------------------------------------------------
(* Steps. *)

Do(what) == [do |-> what]
Check(what) == [do |-> "check", of |-> what]   \* local, may throw
Read(what) == Check(what)                      \* of Platform, may throw
Load(key) == [do |-> "load", of |-> key]       \* frees what it built when it throws
Own(key) == [do |-> "own", of |-> key]         \* onRelease, a finally
Submit == Do("submit")

\* loadPrivateKey, and the finally that frees the key.
WithPrivateKey(key) == <<Load(key), Own(key)>>

\* Keys guarded by a catch until the envelope owns them.
LoadAddressSigner == Load("address")
InputKey == <<LoadAddressSigner, Check("address is the reviewed one"), Own("address")>>
LoadNewKeys == Load("new keys")
NewIdentity ==
  <<LoadNewKeys, Check("hashes are the reviewed ones"), Read("owners of the hashes"),
    Own("new keys")>>
\* The new private keys are added to the signer of the material.
AddedKeys == <<Load("added keys"), Own("added keys")>>

AssetLockTransaction == Read("transaction")   \* in the proof, or from Insight
CreditOutput == Check("credit output")
AssetLockKey ==
  WithPrivateKey("asset lock")
  \o <<AssetLockTransaction, CreditOutput, Check("output pays the key")>>

VoterKey == <<Read("voter identity"), Load("voter"), Own("voter")>>

ExistingIdentity == Read("identity")
NextRevision == <<Read("document"), Check("revision")>>
Spendable == Read("balance")
Balances == Check("balances")

MaterialEnvelope(body) ==
  <<Check("signer"), Do("resolve"), Do("prepare"), Own("identity"),
    Check("material is of the reviewed identity and key"), Read("protocol version")>> \o body
FormEnvelope(body) == <<Read("protocol version")>> \o body

-----------------------------------------------------------------------------
(* Scripts. *)

ContractRegister == MaterialEnvelope(<<Check("schemas"), Submit, Check("published")>>)
ContractUpdate ==
  MaterialEnvelope(<<Read("contract"), Check("owner and version"), Check("schemas"), Submit>>)

DocumentCreate == MaterialEnvelope(<<Check("document"), Submit, Check("created id")>>)
DocumentReplace == MaterialEnvelope(<<Check("document"), Submit>>)
DocumentDelete == MaterialEnvelope(<<Submit>>)
DocumentTransfer == MaterialEnvelope(NextRevision \o <<Check("recipient"), Submit>>)
DocumentSetPrice == MaterialEnvelope(NextRevision \o <<Submit>>)
DocumentPurchase == MaterialEnvelope(NextRevision \o <<Check("buyer"), Submit>>)

CreditTransfer == MaterialEnvelope(<<ExistingIdentity, Submit, Check("balance")>>)
CreditWithdrawal ==
  MaterialEnvelope(<<Check("amount, fee and address"), ExistingIdentity, Submit>>)
UpdateKeys == MaterialEnvelope(<<ExistingIdentity>> \o AddedKeys \o <<Submit>>)
DpnsRegister == MaterialEnvelope(<<ExistingIdentity, Submit, Check("name")>>)

AddressTransfer ==
  FormEnvelope(<<Check("outputs")>> \o InputKey
               \o <<Check("fee"), Spendable, Submit, Balances>>)
AddressTransferFromIdentity ==
  MaterialEnvelope(<<Check("outputs"), ExistingIdentity, Submit, Balances>>)
AddressTopUpIdentity ==
  FormEnvelope(<<Check("amount")>> \o InputKey
               \o <<Spendable, ExistingIdentity, Submit, Balances>>)
AddressWithdraw ==
  FormEnvelope(<<Check("fee, amount and output script")>> \o InputKey
               \o <<Spendable, Submit, Balances>>)
AddressFundFromAssetLock ==
  FormEnvelope(<<Check("address"), Check("proof")>> \o AssetLockKey
               \o <<Submit, Balances>>)
AddressCreateIdentity ==
  FormEnvelope(<<Check("amount")>> \o InputKey \o <<Spendable>> \o NewIdentity
               \o <<Submit, Check("identity")>>)

IdentityCreate ==
  FormEnvelope(<<Check("proof"), Check("identity ID is the reviewed one"),
                 Read("no such identity")>> \o NewIdentity \o AssetLockKey \o <<Submit>>)
IdentityTopUp ==
  FormEnvelope(<<Check("proof"), ExistingIdentity>> \o AssetLockKey \o <<Submit>>)

MasternodeVote ==
  FormEnvelope(<<Check("choice and poll")>> \o WithPrivateKey("voting") \o VoterKey
               \o <<Submit, Check("vote")>>)

\* Nothing is built, so no version is checked.
RawBroadcast == <<Check("transition"), Submit, Do("wait"), Check("result")>>

Script(id) ==
  CASE id = "contract.register" -> ContractRegister
    [] id = "contract.update" -> ContractUpdate
    [] id = "document.create" -> DocumentCreate
    [] id = "document.replace" -> DocumentReplace
    [] id = "document.delete" -> DocumentDelete
    [] id = "document.transfer" -> DocumentTransfer
    [] id = "document.setPrice" -> DocumentSetPrice
    [] id = "document.purchase" -> DocumentPurchase
    [] id = "identity.creditTransfer" -> CreditTransfer
    [] id = "identity.creditWithdrawal" -> CreditWithdrawal
    [] id = "identity.updateKeys" -> UpdateKeys
    [] id = "dpns.registerName" -> DpnsRegister
    [] id = "addresses.transfer" -> AddressTransfer
    [] id = "addresses.transferFromIdentity" -> AddressTransferFromIdentity
    [] id = "addresses.topUpIdentity" -> AddressTopUpIdentity
    [] id = "addresses.withdraw" -> AddressWithdraw
    [] id = "addresses.fundFromAssetLock" -> AddressFundFromAssetLock
    [] id = "addresses.createIdentity" -> AddressCreateIdentity
    [] id = "identity.create" -> IdentityCreate
    [] id = "identity.topUp" -> IdentityTopUp
    [] id = "voting.castVote" -> MasternodeVote
    [] id = "stateTransitions.broadcast" -> RawBroadcast

-----------------------------------------------------------------------------
Running == verdict = "running"
Next0(what) == Running /\ rest # <<>> /\ Head(rest).do = what
Done == rest' = Tail(rest)

\* The operation was offered, its inputs resolved, and the review showed the key
\* that would sign.
Init ==
  /\ op \in (FormSigned \cup IdentitySigned) \ TokenOperations
  /\ input \in Inputs
  /\ onChain = Keys
  /\ Offered(op, onChain)
  /\ IF op \in FormSigned THEN reviewed = None
     ELSE /\ Resolvable(op, input)
          /\ \E key \in selectSigningKey(Keys, resolveSigningCriteria(op, input)) :
               reviewed = key.id
  /\ criteria = None /\ rest = Script(op) /\ material = None
  /\ held = {} /\ guarded = {} /\ owned = {}
  /\ current = TRUE /\ submitted = FALSE /\ sent = FALSE /\ executed = FALSE
  /\ verdict = "running"
  /\ elsewhere = (op = "stateTransitions.broadcast")

End(outcome) ==
  /\ verdict' = outcome
  /\ rest' = <<>> /\ material' = material /\ criteria' = criteria
  /\ held' = held \ (guarded \cup owned)
  /\ guarded' = {} /\ owned' = {}
  /\ UNCHANGED <<fixed, input, world, submitted, sent>>

\* What the envelope makes of an error that is not a verdict already.
BugThrow == End("notSubmitted")
Throw == End(IF submitted THEN "unknown" ELSE "notSubmitted")

Pass ==
  /\ Next0("check") /\ Done
  /\ UNCHANGED <<fixed, input, world, material, held, guarded, owned, criteria, submitted,
                 sent, verdict>>

Refuse == Running /\ rest # <<>> /\ Head(rest).do \in {"check", "load"} /\ Throw

LoadKey ==
  /\ Next0("load") /\ Done
  /\ held' = held \cup {Head(rest).of}
  /\ guarded' = guarded \cup {Head(rest).of}
  /\ UNCHANGED <<fixed, input, world, material, owned, criteria, submitted, sent, verdict>>

OwnKey ==
  /\ Next0("own") /\ Done
  /\ guarded' = guarded \ {Head(rest).of}
  /\ owned' = owned \cup {Head(rest).of}
  /\ UNCHANGED <<fixed, input, world, material, held, criteria, submitted, sent, verdict>>

\* criteria(), which for a document reads the contract again.
Resolve ==
  /\ Next0("resolve") /\ Resolvable(op, input) /\ Done
  /\ criteria' = resolveSigningCriteria(op, input)
  /\ UNCHANGED <<fixed, input, world, material, held, guarded, owned, submitted, sent, verdict>>
ResolveFails == Next0("resolve") /\ Throw

\* prepareSdk reads the identity's keys again, pinned to the reviewed one.
Pinned == [criteria EXCEPT !.keyId = reviewed]
Prepare ==
  /\ Next0("prepare") /\ Done
  /\ \E key \in selectSigningKey(onChain, Pinned) : material' = key.id
  /\ held' = held \cup {"identity"}
  /\ guarded' = guarded \cup {"identity"}
  /\ UNCHANGED <<fixed, input, world, owned, criteria, submitted, sent, verdict>>
PrepareFails == Next0("prepare") /\ Throw

-----------------------------------------------------------------------------
(* The write. *)

\* submit: a stale session throws before anything counts as submitted.
EnterWrite ==
  /\ Next0("submit") /\ ~submitted /\ current
  /\ submitted' = TRUE
  /\ UNCHANGED <<fixed, input, script, world, sent, verdict>>
StaleSession == Next0("submit") /\ ~submitted /\ ~current /\ Throw

InWrite == Next0("submit") /\ submitted

\* An error the SDK raises only before it sends anything.
SdkRefuses == InWrite /\ ~sent /\ End("notSubmitted")

SdkSends ==
  /\ InWrite /\ ~sent
  /\ sent' = TRUE
  /\ UNCHANGED <<fixed, input, script, world, submitted, verdict>>

\* Any other error, before or after the transition left.
SdkFails == InWrite /\ End("unknown")

\* A write call answers with the proved result.  A broadcast answers at once, that it
\* was accepted or (AlreadyExists) already known.
SdkAnswers ==
  /\ InWrite /\ sent
  /\ executed \/ elsewhere
  /\ Done
  /\ UNCHANGED <<fixed, input, world, material, held, guarded, owned, criteria, submitted,
                 sent, verdict>>

\* waitForOutcome: proof of execution, or of the state it affects only.
WaitAnswers ==
  /\ Next0("wait")
  /\ \/ /\ executed /\ Done
        /\ UNCHANGED <<fixed, input, world, material, held, guarded, owned, criteria,
                       submitted, sent, verdict>>
     \/ End("affected")
     \/ End("unknown")

Return == Running /\ rest = <<>> /\ End("done")

-----------------------------------------------------------------------------
(* Meanwhile. *)

Executes ==
  /\ ~executed /\ (sent \/ elsewhere)
  /\ executed' = TRUE
  /\ UNCHANGED <<fixed, input, script, onChain, current, submitted, sent, verdict>>

\* Until the signer has read them the keys matter.
KeysRead == \A i \in DOMAIN rest : rest[i].do # "prepare"

DisableKey ==
  /\ Running /\ ~KeysRead
  /\ Cardinality({key \in onChain : key.disabled}) < MaxDisabled
  /\ \E key \in onChain :
       /\ ~key.disabled
       /\ onChain' = (onChain \ {key}) \cup {[key EXCEPT !.disabled = TRUE]}
  /\ UNCHANGED <<fixed, input, script, current, executed, submitted, sent, verdict>>

\* The contract's owner asks for stronger keys, or weaker ones.
ChangeContract ==
  /\ Running /\ op \in DocumentOperations /\ criteria = None
  /\ \E required \in Master .. Medium : input' = [input EXCEPT !.required = required]
  /\ UNCHANGED <<fixed, script, world, submitted, sent, verdict>>

LeaveSession ==
  /\ Running /\ current
  /\ current' = FALSE
  /\ UNCHANGED <<fixed, input, script, onChain, executed, submitted, sent, verdict>>

Next ==
  \/ Pass \/ Refuse \/ LoadKey \/ OwnKey \/ Resolve \/ ResolveFails \/ Prepare \/ PrepareFails
  \/ EnterWrite \/ StaleSession \/ SdkRefuses \/ SdkSends \/ SdkFails \/ SdkAnswers
  \/ WaitAnswers \/ Return
  \/ Executes \/ DisableKey \/ ChangeContract \/ LeaveSession

Spec == Init /\ [][Next]_vars

-----------------------------------------------------------------------------
Promise == INSTANCE WritePromise WITH keys <- held, signing <- material

\* Whatever step of whatever operation but a token's fails, and whenever Platform executes a write
\* the SDK lost, the executor's verdict is true: "not submitted" is said of nothing that
\* was sent, success only of what executed; it signed with the reviewed key or not at
\* all, though keys were disabled or the document type's requirement changed since the
\* review; and it left no key in memory.
KeepsPromise == Promise!Spec

=============================================================================
