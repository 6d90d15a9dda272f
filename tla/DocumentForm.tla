----------------------------- MODULE DocumentForm -----------------------------
(***************************************************************************)
(* The form of a new document: DocumentCreate.tsx and SchemaForm.tsx of      *)
(* src/components/broadcast/forms.  It follows the schema of a document type *)
(* of a picked contract, which the user may edit field by field or as JSON,   *)
(* and hands the shell its options in an effect.  Effects of one commit see   *)
(* the same render; they run before the next event of the user.              *)
(*                                                                         *)
(* A document maps fields to [for, good]: the contract and type it was       *)
(* entered for, and whether the schema accepts it.  Field kinds, nested        *)
(* values and the messages are left out.                                    *)
(***************************************************************************)
EXTENDS Naturals, Sequences, FiniteSets, Functions, SequencesExt

CONSTANTS
    Contracts,  \* valid ids of contracts on the network
    Types,      \* [Contracts -> sequences of document types]
    Schemas,    \* [Contracts -> [types -> [fields, required, seeded |-> SUBSET fields]]]
    Links,      \* <<contract, type>> of the URL's parameters
    None,       \* also an id that is not valid, and no type
    Invalid,    \* JSON text that holds no object
    MaxFetches  \* bound

VARIABLES
    contractId,   \* as typed or picked, or None
    documentType, \* None before one is chosen
    properties,   \* the document
    link,       \* the URL's parameters
    cached,     \* per contract: the number of the fetch whose result is cached, or 0
    fetches,    \* how many have answered
    json,       \* None, or in JSON view [text, typing, error]
    options,    \* what the shell was last given
    committed   \* the dependencies of the effects that ran last

vars == <<contractId, documentType, properties, link, cached, fetches, json, options, committed>>

NoFields == [f \in {} |-> None]

-----------------------------------------------------------------------------
(* Render.                                                                 *)

Resolved == contractId # None /\ cached[contractId] # 0
DocTypeNames == IF Resolved THEN Types[contractId] ELSE <<>>
HasSchema(type) == type \in Range(DocTypeNames)
Schema == Schemas[contractId][documentType]
Here == <<contractId, documentType>>

\* emptyValueFor: what has a default, and what is required and starts as {} or [].
EmptyValue ==
    IF HasSchema(documentType) THEN [f \in Schema.seeded |-> [for |-> Here, good |-> TRUE]]
    ELSE NoFields

\* validateAgainstSchema: what the schema does not name is not looked at.
Errors == (Schema.required \ DOMAIN properties)
          \cup {f \in Schema.fields \cap DOMAIN properties : ~properties[f].good}

Offered ==
    IF contractId = None \/ ~HasSchema(documentType) THEN None
    ELSE IF Errors # {} THEN None
    ELSE [contract |-> contractId, type |-> documentType, properties |-> properties]

Deps == [schema |-> IF HasSchema(documentType) THEN <<cached[contractId], documentType>> ELSE None,
         names |-> IF Resolved THEN cached[contractId] ELSE 0, type |-> documentType, contract |-> contractId, properties |-> properties]
EffectsDue == committed # Deps

-----------------------------------------------------------------------------

Init ==
    /\ link \in Links
    /\ contractId = link[1] /\ documentType = link[2]
    /\ properties = NoFields
    /\ cached = [c \in Contracts |-> 0] /\ fetches = 0 /\ json = None /\ options = None
    /\ committed = None

\* "Pick a sensible default document type once schemas resolve."
DefaultType ==
    IF documentType = None /\ DocTypeNames # <<>>
    THEN IF HasSchema(link[2]) THEN link[2] ELSE Head(DocTypeNames)
    ELSE documentType

\* "Reset properties when the document type changes", and when the contract is read again.
BugResetsOnlyUnknown == ~HasSchema(documentType)
Resets == committed = None \/ committed.type # documentType \/ committed.schema # Deps.schema

\* All of them see the render that was committed: the options of this round hold the
\* properties from before the reset, until the next.  Losing its schema unmounts SchemaForm.
Effects ==
    /\ EffectsDue
    /\ documentType' = DefaultType
    /\ properties' = IF Resets THEN EmptyValue ELSE properties
    /\ options' = Offered
    /\ committed' = Deps
    /\ json' = IF HasSchema(documentType) THEN json ELSE None
    /\ UNCHANGED <<contractId, link, cached, fetches>>

\* The contract query answers, also with a contract read before.  It is one of the picked
\* id: the answer of another is only cached.
Answer ==
    /\ contractId # None /\ fetches < MaxFetches
    /\ fetches' = fetches + 1
    /\ cached' = [cached EXCEPT ![contractId] = fetches + 1]
    /\ UNCHANGED <<contractId, documentType, properties, link, json, options, committed>>

\* Every key holds the session.
SessionChanges ==
    /\ cached' = [c \in Contracts |-> 0]
    /\ UNCHANGED <<contractId, documentType, properties, link, fetches, json, options, committed>>

-----------------------------------------------------------------------------
(* The user.  Leaving the text of the JSON view applies it.                *)

MayAct == ~EffectsDue /\ (json # None => ~json.typing)

PickContract ==
    /\ MayAct
    /\ contractId' \in (Contracts \cup {None}) \ {contractId}
    /\ UNCHANGED <<documentType, properties, link, cached, fetches, json, options, committed>>

\* Choosing what the selection already shows is no change: the type, or the first option
\* where the type is none of them.
Selected == IF HasSchema(documentType) THEN documentType ELSE Head(DocTypeNames)
PickType ==
    /\ MayAct
    /\ \E type \in Range(DocTypeNames) : type # Selected /\ documentType' = type
    /\ UNCHANGED <<contractId, properties, link, cached, fetches, json, options, committed>>

Entry(good) == [for |-> Here, good |-> good]
With(f, entry) ==
    [g \in DOMAIN properties \cup {f} |-> IF g = f THEN entry ELSE properties[g]]
Without(f) == Restrict(properties, DOMAIN properties \ {f})

\* A cleared field leaves the document.
SetField ==
    /\ MayAct /\ HasSchema(documentType) /\ json = None
    /\ \E f \in Schema.fields :
          \/ f \in DOMAIN properties /\ properties' = Without(f)
          \/ \E good \in BOOLEAN : properties' = With(f, Entry(good))
    /\ properties' # properties
    /\ UNCHANGED <<contractId, documentType, link, cached, fetches, json, options, committed>>

ToJson ==
    /\ MayAct /\ HasSchema(documentType) /\ json = None
    /\ json' = [text |-> properties, typing |-> FALSE, error |-> FALSE]
    /\ UNCHANGED <<contractId, documentType, properties, link, cached, fetches, options, committed>>

TypeJson ==
    /\ json # None /\ ~EffectsDue
    /\ \/ json' = [json EXCEPT !.text = Invalid, !.typing = TRUE]
       \/ \E f \in IF HasSchema(documentType) THEN Schema.fields ELSE {} :
             json' = [json EXCEPT !.text = [g \in {f} |-> Entry(TRUE)], !.typing = TRUE]
    /\ UNCHANGED <<contractId, documentType, properties, link, cached, fetches, options, committed>>

\* applyJson: the user means the text for the type the form shows.
Apply ==
    properties' = IF json.text = Invalid THEN properties
                  ELSE [f \in DOMAIN json.text |-> [json.text[f] EXCEPT !.for = Here]]

\* Leaving the text, or the view: a text that is no object stays on the screen.
LeaveText ==
    /\ json # None /\ ~EffectsDue
    /\ Apply
    /\ \/ json' = [json EXCEPT !.typing = FALSE, !.error = json.text = Invalid]
       \/ json.text # Invalid /\ json' = None
    /\ UNCHANGED <<contractId, documentType, link, cached, fetches, options, committed>>

Next ==
    \/ Effects \/ Answer \/ SessionChanges \/ PickContract \/ PickType \/ SetField \/ ToJson \/ TypeJson
    \/ LeaveText

Spec == Init /\ [][Next]_vars

-----------------------------------------------------------------------------
(* Properties.                                                             *)

\* What the user can have reviewed is the form's document, complete and accepted by the
\* schema, with no value entered for another type or contract, however the contract, the
\* type and the schemas change under the user's input.
DocumentIsOfForm ==
    ~EffectsDue /\ options # None =>
        /\ HasSchema(documentType)
        /\ options = [contract |-> contractId, type |-> documentType, properties |-> properties]
        /\ Schema.required \subseteq DOMAIN properties
        /\ \A f \in DOMAIN properties : properties[f].for = Here /\ (f \in Schema.fields => properties[f].good)

\* "Pick a sensible default document type once schemas resolve."
TypeOfContract == ~EffectsDue /\ DocTypeNames # <<>> => HasSchema(documentType)

=============================================================================
