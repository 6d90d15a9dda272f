--------------------------- MODULE ContractUpdates ---------------------------
(***************************************************************************)
(* Updating a data contract: forms/ContractUpdate.tsx and                  *)
(* executeContractUpdate of broadcast/executors.ts.  The form edits schema *)
(* and definition texts; of a text only the contract and the version it    *)
(* was taken from are told apart.  Anyone who owns the contract may update *)
(* it meanwhile.  Platform (external) takes an update only of the owner    *)
(* and only as the version after the one it holds.                         *)
(***************************************************************************)
EXTENDS Integers

CONSTANTS Contracts, MaxVersion  \* bound: the last version of a contract

VARIABLES
  version,  \* version[c]: on Platform
  mine,     \* mine[c]: its owner is the connected identity
  cached,   \* cached[c]: the version contractQuery holds, 0 for no data
  picked,   \* the contract in the form's picker
  text,     \* [of, base]: what the form's texts and baseVersion are from
  reset,    \* the contract "Reset to on-chain" was pressed for, or NoContract
  op,       \* the approved update, until it ends
  outcome   \* the last update, with the version Platform held when it arrived

vars == <<version, mine, cached, picked, text, reset, op, outcome>>

NoContract == "no contract"
Blank == [of |-> NoContract, base |-> 0]
NoOp == [at |-> "none"]

Init ==
  /\ version = [c \in Contracts |-> 1]
  /\ mine \in [Contracts -> BOOLEAN]
  /\ cached = [c \in Contracts |-> 0]
  /\ picked \in Contracts /\ text = Blank /\ reset = NoContract
  /\ op = NoOp /\ outcome = NoOp

-----------------------------------------------------------------------------
(* The form; `loaded` is that its texts are not blank. *)

Loaded == text # Blank

ContractQueryAnswers ==
  /\ cached[picked] # version[picked]
  /\ cached' = [cached EXCEPT ![picked] = version[picked]]
  /\ UNCHANGED <<version, mine, picked, text, reset, op, outcome>>

\* resetToOnChain: texts and baseVersion are taken from one contract.
ResetToOnChain(c, v) == text' = [of |-> c, base |-> v]

LoadEffect ==
  /\ ~Loaded /\ cached[picked] # 0
  /\ ResetToOnChain(picked, cached[picked])
  /\ UNCHANGED <<version, mine, cached, picked, reset, op, outcome>>

\* ContractPicker's onChange: another contract starts from blank texts.
TextAfterPicking(c) == Blank

Pick(c) ==
  /\ c # picked
  /\ picked' = c /\ text' = TextAfterPicking(c)
  /\ UNCHANGED <<version, mine, cached, reset, op, outcome>>

PressReset ==
  /\ Loaded /\ reset = NoContract
  /\ reset' = picked
  /\ UNCHANGED <<version, mine, cached, picked, text, op, outcome>>

\* refetch() resolves with the observer's result: of the contract picked by now.
ResolvedContract == picked

ResetResolves ==
  /\ reset # NoContract
  /\ LET c == ResolvedContract
         v == IF c = reset THEN version[c] ELSE cached[c] IN
     /\ cached' = [cached EXCEPT ![c] = v]
     /\ IF v = 0 THEN UNCHANGED text ELSE ResetToOnChain(c, v)
  /\ reset' = NoContract
  /\ UNCHANGED <<version, mine, picked, op, outcome>>

-----------------------------------------------------------------------------
(* executeContractUpdate. *)

Approve ==
  /\ op = NoOp /\ Loaded
  /\ op' = [at |-> "fetching", contract |-> picked, of |-> text.of, base |-> text.base,
            version |-> 0]
  /\ text' = Blank /\ reset' = NoContract /\ outcome' = NoOp  \* the form unmounts
  /\ UNCHANGED <<version, mine, cached, picked>>

Ends(result) ==
  /\ op' = NoOp
  /\ outcome' = [contract |-> op.contract, of |-> op.of, base |-> op.base,
                 result |-> result, held |-> version[op.contract]]

\* Mistake: the update is made of whatever version the contract has by now.
BugAnyBase(current) == TRUE
BaseUnchanged(current) == current = op.base

\* The contract is fetched: still ours, and still the version that was edited.
FetchContract ==
  /\ op.at = "fetching"
  /\ LET current == version[op.contract] IN
     IF mine[op.contract] /\ BaseUnchanged(current)
     THEN op' = [op EXCEPT !.at = "submitted", !.version = current + 1] /\ UNCHANGED outcome
     ELSE Ends("not submitted")
  /\ UNCHANGED <<version, mine, cached, picked, text, reset>>

\* Platform only accepts an update whose version is exactly current + 1.
PlatformAnswers ==
  /\ op.at = "submitted" /\ version[op.contract] < MaxVersion
  /\ IF mine[op.contract] /\ op.version = version[op.contract] + 1
     THEN version' = [version EXCEPT ![op.contract] = op.version] /\ Ends("accepted")
     ELSE Ends("rejected") /\ UNCHANGED version
  /\ UNCHANGED <<mine, cached, picked, text, reset>>

\* The owner updates the contract elsewhere.
OtherUpdates(c) ==
  /\ version[c] < MaxVersion
  /\ version' = [version EXCEPT ![c] = @ + 1]
  /\ UNCHANGED <<mine, cached, picked, text, reset, op, outcome>>

Next ==
  \/ \E c \in Contracts : Pick(c) \/ OtherUpdates(c)
  \/ ContractQueryAnswers \/ LoadEffect \/ PressReset \/ ResetResolves
  \/ Approve \/ FetchContract \/ PlatformAnswers

Spec == Init /\ [][Next]_vars

-----------------------------------------------------------------------------
\* An update Platform accepts replaces exactly the schemas and definitions that
\* were edited: those of this contract, and of the version it replaces, though
\* the owner updates it elsewhere, and contracts are picked, reset and answered
\* late, before it is published.
ReplacesWhatWasEdited ==
  outcome # NoOp /\ outcome.result = "accepted" =>
    outcome.of = outcome.contract /\ outcome.base = outcome.held

=============================================================================
