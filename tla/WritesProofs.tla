----------------------------- MODULE WritesProofs -----------------------------
(***************************************************************************)
(* Proofs about the writes that depend on what Platform held when they were *)
(* prepared, for any documents, contracts, tokens, group actions and bounds, *)
(* and about the executors of the operations other than those of tokens.    *)
(***************************************************************************)
EXTENDS MCWrites, Sequences, TLAPS

-----------------------------------------------------------------------------
(* DocumentWrites.                                                         *)

DocKinds == {"replace", "delete", "transfer", "setPrice", "purchase"}

\* The variables of the documents hold values of their types.
DocumentTypes ==
  /\ dDoc \in [Docs -> [exists : BOOLEAN, mine : BOOLEAN, revision : Int, price : Prices \cup {0}]]
  /\ dCached \in [Docs -> Int]
  /\ dTarget \in Docs \cup {D!NoDoc} /\ dReload \in Docs \cup {D!NoDoc}
  /\ dLoaded \in [target : Docs \cup {D!NoDoc}, revision : Int]
  /\ dEditing \in [of : Docs \cup {D!NoDoc}, base : Int]
  /\ dOp = D!NoOp \/ dOp \in [at : {"fetching", "submitted"}, kind : DocKinds, doc : Docs,
                              revision : Int, price : Prices \cup {0},
                              of : Docs \cup {D!NoDoc}, base : Int]

\* The properties edited are those of the document and revision that is loaded.
EditsLoaded ==
  dLoaded.target # D!NoDoc => dEditing = [of |-> dLoaded.target, base |-> dLoaded.revision]

\* A replacement carries the revision after the one it was edited from.
ReplacementOfEdited ==
  dOp # D!NoOp /\ dOp.kind = "replace" => dOp.of = dOp.doc /\ dOp.revision = dOp.base + 1

DocumentInv == DocumentTypes /\ EditsLoaded /\ ReplacementOfEdited /\ D!NoLostUpdate

LEMMA InitDocuments == D!Init => DocumentInv
<1> SUFFICES ASSUME D!Init PROVE DocumentInv
  OBVIOUS
<1>1. dDoc \in [Docs -> [exists : BOOLEAN, mine : BOOLEAN, revision : Int, price : Prices \cup {0}]]
  BY DEF D!Init
<1>2. dCached \in [Docs -> Int]
  BY DEF D!Init
<1>3. DocumentTypes
  BY <1>1, <1>2 DEF D!Init, D!NotLoaded, D!NoProperties, DocumentTypes
<1>4. EditsLoaded /\ ReplacementOfEdited /\ D!NoLostUpdate
  BY DEF D!Init, D!NotLoaded, EditsLoaded, ReplacementOfEdited, D!NoLostUpdate, D!Did
<1> QED BY <1>3, <1>4 DEF DocumentInv

\* Steps of the form: what is loaded is of the document that was named when it was asked
\* for, or it is not taken.
LEMMA FormSteps ==
  ASSUME DocumentInv,
         \/ \E d \in Docs : D!DocQueryAnswers(d) \/ D!NameDocument(d) \/ D!OpenForm(d)
         \/ D!LeaveForm \/ D!LoadEffect \/ D!PressReload \/ D!ReloadResolves
  PROVE  DocumentInv'
<1>1. UNCHANGED <<dDoc, dOp, dOutcome>>
  BY DEF D!DocQueryAnswers, D!NameDocument, D!OpenForm, D!LeaveForm, D!LoadEffect,
         D!PressReload, D!ReloadResolves
<1>2. dCached' \in [Docs -> Int] /\ dTarget' \in Docs \cup {D!NoDoc}
      /\ dReload' \in Docs \cup {D!NoDoc}
  <2>1. CASE D!ReloadResolves
    <3> DEFINE now == IF dTarget = dReload /\ dDoc[dTarget].exists THEN dDoc[dTarget].revision
                      ELSE dCached[dTarget]
    <3>1. dCached' = [dCached EXCEPT ![dTarget] = now] /\ dTarget' = dTarget
          /\ dReload' = D!NoDoc
      BY <2>1 DEF D!ReloadResolves
    <3>2. dTarget \in Docs => now \in Int
      BY DEF DocumentInv, DocumentTypes
    <3> HIDE DEF now
    <3> QED BY <3>1, <3>2 DEF DocumentInv, DocumentTypes
  <2>2. CASE D!LeaveForm
    BY <2>2 DEF D!LeaveForm, D!Unmount, DocumentInv, DocumentTypes
  <2>3. CASE D!LoadEffect \/ D!PressReload
    BY <2>3 DEF D!LoadEffect, D!PressReload, DocumentInv, DocumentTypes
  <2>4. CASE \E d \in Docs : D!DocQueryAnswers(d) \/ D!NameDocument(d) \/ D!OpenForm(d)
    BY <2>4 DEF D!DocQueryAnswers, D!NameDocument, D!OpenForm, DocumentInv, DocumentTypes
  <2> QED BY <2>1, <2>2, <2>3, <2>4
<1>3. /\ dLoaded' \in [target : Docs \cup {D!NoDoc}, revision : Int]
      /\ dEditing' \in [of : Docs \cup {D!NoDoc}, base : Int]
      /\ EditsLoaded'
  <2>1. CASE UNCHANGED <<dLoaded, dEditing>>
    BY <2>1 DEF DocumentInv, DocumentTypes, EditsLoaded
  <2>2. CASE D!LeaveForm \/ D!PressReload
    BY <2>2 DEF D!LeaveForm, D!Unmount, D!PressReload, D!NotLoaded, D!NoProperties,
                DocumentInv, DocumentTypes, EditsLoaded
  <2>3. ASSUME NEW d \in Docs, NEW n \in Int, D!Populate(d, d, n)
        PROVE  /\ dLoaded' \in [target : Docs \cup {D!NoDoc}, revision : Int]
               /\ dEditing' \in [of : Docs \cup {D!NoDoc}, base : Int]
               /\ EditsLoaded'
    BY <2>3 DEF D!Populate, EditsLoaded
  <2>4. CASE D!LoadEffect
    <3>1. dTarget \in Docs /\ dCached[dTarget] \in Int
      BY <2>4 DEF D!LoadEffect, DocumentInv, DocumentTypes
    <3> QED BY <2>3, <2>4, <3>1 DEF D!LoadEffect
  <2>5. CASE D!ReloadResolves
    <3> DEFINE now == IF dTarget = dReload /\ dDoc[dTarget].exists THEN dDoc[dTarget].revision
                      ELSE dCached[dTarget]
    <3>1. \/ UNCHANGED <<dLoaded, dEditing>>
          \/ dTarget = dReload /\ D!Populate(dReload, dTarget, now)
      BY <2>5 DEF D!ReloadResolves, D!Ignored
    <3>2. dReload \in Docs
      BY <2>5 DEF D!ReloadResolves, DocumentInv, DocumentTypes
    <3>3. dTarget = dReload => now \in Int
      BY <3>2 DEF DocumentInv, DocumentTypes
    <3> HIDE DEF now
    <3> QED BY <2>1, <2>3, <3>1, <3>2, <3>3
  <2> QED BY <2>1, <2>2, <2>4, <2>5 DEF D!DocQueryAnswers, D!NameDocument, D!OpenForm
<1>4. DocumentTypes'
  BY <1>1, <1>2, <1>3 DEF DocumentInv, DocumentTypes
<1>5. ReplacementOfEdited' /\ D!NoLostUpdate'
  BY <1>1 DEF DocumentInv, ReplacementOfEdited, D!NoLostUpdate, D!Did
<1> QED BY <1>3, <1>4, <1>5 DEF DocumentInv

\* An approved replacement is of what is loaded.
LEMMA ApproveReplaceStep ==
  ASSUME DocumentInv, D!ApproveReplace
  PROVE  DocumentInv'
<1> DEFINE new == [at |-> "submitted", kind |-> "replace", doc |-> dTarget,
                   revision |-> dLoaded.revision + 1, price |-> 0,
                   of |-> dEditing.of, base |-> dEditing.base]
<1>1. /\ dTarget # D!NoDoc /\ dLoaded.target = dTarget
      /\ dOp' = new /\ dOutcome' = D!NoOp
      /\ dTarget' = D!NoDoc /\ dLoaded' = D!NotLoaded /\ dEditing' = D!NoProperties
      /\ dReload' = D!NoDoc
      /\ UNCHANGED <<dDoc, dCached>>
  BY DEF D!ApproveReplace, D!Unmount
<1>2. dTarget \in Docs /\ dEditing.of = dTarget /\ dEditing.base = dLoaded.revision
      /\ dLoaded.revision \in Int
  BY <1>1 DEF DocumentInv, DocumentTypes, EditsLoaded
<1>3. /\ new \in [at : {"fetching", "submitted"}, kind : DocKinds, doc : Docs,
                  revision : Int, price : Prices \cup {0},
                  of : Docs \cup {D!NoDoc}, base : Int]
      /\ new.of = new.doc /\ new.revision = new.base + 1
  BY <1>2 DEF DocKinds
<1> HIDE DEF new
<1>4. DocumentTypes'
  BY <1>1, <1>3 DEF DocumentInv, DocumentTypes, D!NotLoaded, D!NoProperties
<1>5. EditsLoaded' /\ ReplacementOfEdited' /\ D!NoLostUpdate'
  BY <1>1, <1>3 DEF EditsLoaded, ReplacementOfEdited, D!NoLostUpdate, D!Did, D!NotLoaded
<1> QED BY <1>4, <1>5 DEF DocumentInv

\* The other forms' writes are no replacements.
LEMMA ApproveStep ==
  ASSUME DocumentInv, NEW kind \in DocKinds \ {"replace"}, NEW d \in Docs,
         NEW at \in {"fetching", "submitted"}, NEW price \in Prices \cup {0},
         D!Approve(kind, d, at, price)
  PROVE  DocumentInv'
<1> DEFINE new == [at |-> at, kind |-> kind, doc |-> d, revision |-> 0, price |-> price,
                   of |-> d, base |-> 0]
<1>1. /\ dOp' = new /\ dOutcome' = D!NoOp
      /\ UNCHANGED <<dDoc, dCached, dTarget, dLoaded, dEditing, dReload>>
  BY DEF D!Approve
<1>2. /\ new \in [at : {"fetching", "submitted"}, kind : DocKinds, doc : Docs,
                  revision : Int, price : Prices \cup {0},
                  of : Docs \cup {D!NoDoc}, base : Int]
      /\ new.kind # "replace"
  OBVIOUS
<1> HIDE DEF new
<1>3. DocumentTypes'
  BY <1>1, <1>2 DEF DocumentInv, DocumentTypes
<1>4. EditsLoaded' /\ ReplacementOfEdited' /\ D!NoLostUpdate'
  BY <1>1, <1>2 DEF DocumentInv, EditsLoaded, ReplacementOfEdited, D!NoLostUpdate, D!Did
<1> QED BY <1>3, <1>4 DEF DocumentInv

\* The end of a write that is not an accepted replacement of another revision.
LEMMA DocumentEnds ==
  ASSUME DocumentInv, NEW result, D!Ends(result),
         UNCHANGED <<dCached, dTarget, dLoaded, dEditing, dReload>>,
         dDoc' \in [Docs -> [exists : BOOLEAN, mine : BOOLEAN, revision : Int,
                             price : Prices \cup {0}]],
         result = "accepted" /\ dOp.kind = "replace" =>
             dOp.of = dOp.doc /\ dOp.base = dDoc[dOp.doc].revision
  PROVE  DocumentInv'
<1>1. /\ dOp' = D!NoOp
      /\ dOutcome' = [kind |-> dOp.kind, doc |-> dOp.doc, result |-> result,
                      of |-> dOp.of, base |-> dOp.base, stored |-> dDoc[dOp.doc]]
  BY DEF D!Ends
<1>2. DocumentTypes'
  BY <1>1 DEF DocumentInv, DocumentTypes
<1>3. EditsLoaded' /\ ReplacementOfEdited' /\ D!NoLostUpdate'
  BY <1>1 DEF DocumentInv, EditsLoaded, ReplacementOfEdited, D!NoLostUpdate, D!Did
<1> QED BY <1>2, <1>3 DEF DocumentInv

LEMMA FetchDocumentStep ==
  ASSUME DocumentInv, dOp # D!NoOp, dOp.kind # "replace", D!FetchDocument
  PROVE  DocumentInv'
<1>1. dOp \in [at : {"fetching", "submitted"}, kind : DocKinds, doc : Docs,
               revision : Int, price : Prices \cup {0}, of : Docs \cup {D!NoDoc}, base : Int]
      /\ dDoc[dOp.doc].revision \in Int
  BY DEF DocumentInv, DocumentTypes
<1>2. CASE dDoc[dOp.doc].exists
  <2> DEFINE new == [dOp EXCEPT !.at = "submitted", !.base = dDoc[dOp.doc].revision,
                                !.revision = D!NextRevision(dDoc[dOp.doc].revision)]
  <2>1. dOp' = new /\ UNCHANGED <<dDoc, dCached, dTarget, dLoaded, dEditing, dReload, dOutcome>>
    BY <1>2 DEF D!FetchDocument
  <2>2. /\ new \in [at : {"fetching", "submitted"}, kind : DocKinds, doc : Docs,
                    revision : Int, price : Prices \cup {0},
                    of : Docs \cup {D!NoDoc}, base : Int]
        /\ new.kind # "replace"
    <3>1. D!NextRevision(dDoc[dOp.doc].revision) \in Int
      BY <1>1 DEF D!NextRevision
    <3> QED BY <1>1, <3>1
  <2> HIDE DEF new
  <2>3. DocumentTypes'
    BY <2>1, <2>2 DEF DocumentInv, DocumentTypes
  <2>4. EditsLoaded' /\ ReplacementOfEdited' /\ D!NoLostUpdate'
    BY <2>1, <2>2 DEF DocumentInv, EditsLoaded, ReplacementOfEdited, D!NoLostUpdate, D!Did
  <2> QED BY <2>3, <2>4 DEF DocumentInv
<1>3. CASE ~dDoc[dOp.doc].exists
  <2>1. D!Ends("not submitted") /\ UNCHANGED <<dDoc, dCached, dTarget, dLoaded, dEditing, dReload>>
    BY <1>3 DEF D!FetchDocument
  <2>2. dDoc' \in [Docs -> [exists : BOOLEAN, mine : BOOLEAN, revision : Int,
                            price : Prices \cup {0}]]
    BY <2>1 DEF DocumentInv, DocumentTypes
  <2> QED BY <2>1, <2>2, DocumentEnds
<1> QED BY <1>2, <1>3

\* Platform takes a replacement of the revision it holds only, which is then the one that
\* was edited.
LEMMA PlatformStep ==
  ASSUME DocumentInv, dOp # D!NoOp, D!PlatformAnswers
  PROVE  DocumentInv'
<1>1. dOp \in [at : {"fetching", "submitted"}, kind : DocKinds, doc : Docs,
               revision : Int, price : Prices \cup {0}, of : Docs \cup {D!NoDoc}, base : Int]
      /\ dDoc[dOp.doc] \in [exists : BOOLEAN, mine : BOOLEAN, revision : Int,
                            price : Prices \cup {0}]
  BY DEF DocumentInv, DocumentTypes
<1>2. CASE D!Signable(dDoc[dOp.doc])
  <2>1. /\ dDoc' = [dDoc EXCEPT ![dOp.doc] = D!Written(@)] /\ D!Ends("accepted")
        /\ UNCHANGED <<dCached, dTarget, dLoaded, dEditing, dReload>>
    BY <1>2 DEF D!PlatformAnswers
  <2>2. D!Written(dDoc[dOp.doc]) \in [exists : BOOLEAN, mine : BOOLEAN, revision : Int,
                                      price : Prices \cup {0}]
    <3> DEFINE d == dDoc[dOp.doc]
    <3>1. d.revision + 1 \in Int /\ dOp.price \in Prices \cup {0} /\ dOp.kind \in DocKinds
      BY <1>1
    <3>2. D!Deleted \in [exists : BOOLEAN, mine : BOOLEAN, revision : Int,
                         price : Prices \cup {0}]
      BY WritesAssumption DEF D!Deleted
    <3> HIDE DEF d
    <3>3. d \in [exists : BOOLEAN, mine : BOOLEAN, revision : Int, price : Prices \cup {0}]
      BY <1>1 DEF d
    <3>4. D!Written(d) \in [exists : BOOLEAN, mine : BOOLEAN, revision : Int,
                            price : Prices \cup {0}]
      BY <3>1, <3>2, <3>3 DEF D!Written, DocKinds
    <3> QED BY <3>4 DEF d
  <2>3. dDoc' \in [Docs -> [exists : BOOLEAN, mine : BOOLEAN, revision : Int,
                            price : Prices \cup {0}]]
    BY <2>1, <2>2 DEF DocumentInv, DocumentTypes
  <2>4. dOp.kind = "replace" => dOp.of = dOp.doc /\ dOp.base = dDoc[dOp.doc].revision
    BY <1>1, <1>2 DEF D!Signable, DocumentInv, ReplacementOfEdited
  <2> QED BY <2>1, <2>3, <2>4, DocumentEnds
<1>3. CASE ~D!Signable(dDoc[dOp.doc])
  <2>1. D!Ends("rejected") /\ UNCHANGED <<dDoc, dCached, dTarget, dLoaded, dEditing, dReload>>
    BY <1>3 DEF D!PlatformAnswers
  <2>2. dDoc' \in [Docs -> [exists : BOOLEAN, mine : BOOLEAN, revision : Int,
                            price : Prices \cup {0}]]
    BY <2>1 DEF DocumentInv, DocumentTypes
  <2> QED BY <2>1, <2>2, DocumentEnds
<1> QED BY <1>2, <1>3

LEMMA OtherWritesStep ==
  ASSUME DocumentInv, NEW d \in Docs, D!OtherWrites(d)
  PROVE  DocumentInv'
<1> DEFINE Type == [exists : BOOLEAN, mine : BOOLEAN, revision : Int, price : Prices \cup {0}]
<1>1. dDoc[d] \in Type /\ D!Deleted \in Type
  BY WritesAssumption DEF DocumentInv, DocumentTypes, D!Deleted
<1>2. ASSUME NEW mine \in BOOLEAN, NEW price \in Prices \cup {0}
      PROVE  [dDoc[d] EXCEPT !.revision = @ + 1, !.mine = mine, !.price = price] \in Type
  <2>1. dDoc[d].revision + 1 \in Int
    BY <1>1
  <2> QED BY <1>1, <2>1
<1>3. /\ [dDoc[d] EXCEPT !.revision = @ + 1, !.mine = TRUE, !.price = 0] \in Type
      /\ \A price \in Prices :
           [dDoc[d] EXCEPT !.revision = @ + 1, !.mine = FALSE, !.price = price] \in Type
  BY <1>2
<1> HIDE DEF Type
<1>4. \E next \in Type : dDoc' = [dDoc EXCEPT ![d] = next]
  BY <1>1, <1>3 DEF D!OtherWrites
<1>5. UNCHANGED <<dCached, dTarget, dLoaded, dEditing, dReload, dOp, dOutcome>>
  BY DEF D!OtherWrites
<1>6. DocumentTypes'
  BY <1>4, <1>5 DEF DocumentInv, DocumentTypes, Type
<1>7. EditsLoaded' /\ ReplacementOfEdited' /\ D!NoLostUpdate'
  BY <1>5 DEF DocumentInv, EditsLoaded, ReplacementOfEdited, D!NoLostUpdate, D!Did
<1> QED BY <1>6, <1>7 DEF DocumentInv

LEMMA NextDocuments ==
  ASSUME DocumentInv, D!Next
  PROVE  DocumentInv'
<1>1. CASE \/ \E d \in Docs : D!DocQueryAnswers(d) \/ D!NameDocument(d) \/ D!OpenForm(d)
           \/ D!LeaveForm \/ D!LoadEffect \/ D!PressReload \/ D!ReloadResolves
  BY <1>1, FormSteps
<1>2. ASSUME NEW d \in Docs,
             \/ D!ApproveDelete(d) \/ D!ApproveTransfer(d) \/ D!ApproveSetPrice(d)
             \/ D!ApprovePurchase(d)
      PROVE  DocumentInv'
  BY <1>2, ApproveStep DEF DocKinds, D!ApproveDelete, D!ApproveTransfer, D!ApproveSetPrice,
     D!ApprovePurchase
<1>3. CASE \/ D!ExecuteDocumentReplace \/ D!ExecuteDocumentDelete \/ D!ExecuteDocumentTransfer
           \/ D!ExecuteDocumentSetPrice \/ D!ExecuteDocumentPurchase
  BY <1>3, FetchDocumentStep, PlatformStep
     DEF D!ExecuteDocumentReplace, D!ExecuteDocumentDelete, D!ExecuteDocumentTransfer,
         D!ExecuteDocumentSetPrice, D!ExecuteDocumentPurchase
<1> QED BY <1>1, <1>2, <1>3, OtherWritesStep, ApproveReplaceStep DEF D!Next

-----------------------------------------------------------------------------
(* ContractUpdates.                                                        *)

UpdateOps ==
  [at : {"fetching", "submitted"}, contract : Contracts, of : Contracts \cup {C!NoContract},
   base : Int, version : Int]

\* The variables of the contracts hold values of their types.
ContractTypes ==
  /\ cVersion \in [Contracts -> Int] /\ cCached \in [Contracts -> Int]
  /\ cPicked \in Contracts /\ cReset \in Contracts \cup {C!NoContract}
  /\ cText \in [of : Contracts \cup {C!NoContract}, base : Int]
  /\ cOp = C!NoOp \/ cOp \in UpdateOps

\* The texts of the form are of the contract picked.
TextOfPicked == C!Loaded => cText.of = cPicked

\* An update is of the contract its texts are from, and submitted as the version after
\* the one they are from.
UpdateOfEdited ==
  cOp # C!NoOp =>
    /\ cOp.of = cOp.contract
    /\ cOp.at = "submitted" => cOp.version = cOp.base + 1

ContractInv == ContractTypes /\ TextOfPicked /\ UpdateOfEdited /\ C!ReplacesWhatWasEdited

LEMMA InitContracts == C!Init => ContractInv
<1> SUFFICES ASSUME C!Init PROVE ContractInv
  OBVIOUS
<1>1. cVersion \in [Contracts -> Int] /\ cCached \in [Contracts -> Int]
  BY DEF C!Init
<1>2. ContractTypes
  BY <1>1 DEF C!Init, C!Blank, ContractTypes
<1>3. TextOfPicked /\ UpdateOfEdited /\ C!ReplacesWhatWasEdited
  BY DEF C!Init, C!Loaded, TextOfPicked, UpdateOfEdited, C!ReplacesWhatWasEdited
<1> QED BY <1>2, <1>3 DEF ContractInv

\* Steps of the form: texts are only ever taken from the contract picked by then.
LEMMA EditSteps ==
  ASSUME ContractInv,
         \/ \E c \in Contracts : C!Pick(c) \/ C!OtherUpdates(c)
         \/ C!ContractQueryAnswers \/ C!LoadEffect \/ C!PressReset \/ C!ResetResolves
  PROVE  ContractInv'
<1> USE DEF ContractInv, ContractTypes
<1>1. UNCHANGED <<cOp, cOutcome>>
  BY DEF C!Pick, C!OtherUpdates, C!ContractQueryAnswers, C!LoadEffect, C!PressReset,
         C!ResetResolves
<1>2. /\ cVersion' \in [Contracts -> Int] /\ cCached' \in [Contracts -> Int]
      /\ cPicked' \in Contracts /\ cReset' \in Contracts \cup {C!NoContract}
      /\ cText' \in [of : Contracts \cup {C!NoContract}, base : Int]
      /\ TextOfPicked'
  <2>1. CASE \E c \in Contracts : C!Pick(c) \/ C!OtherUpdates(c)
    BY <2>1 DEF C!Pick, C!TextAfterPicking, C!Blank, C!OtherUpdates, TextOfPicked, C!Loaded
  <2>2. CASE C!ContractQueryAnswers \/ C!PressReset
    BY <2>2 DEF C!ContractQueryAnswers, C!PressReset, TextOfPicked, C!Loaded
  <2>3. CASE C!LoadEffect
    BY <2>3 DEF C!LoadEffect, C!ResetToOnChain, TextOfPicked, C!Loaded
  <2>4. CASE C!ResetResolves
    <3> DEFINE v == IF cPicked = cReset THEN cVersion[cPicked] ELSE cCached[cPicked]
    <3>1. /\ cCached' = [cCached EXCEPT ![cPicked] = v]
          /\ cText' = cText \/ cText' = [of |-> cPicked, base |-> v]
          /\ cReset' = C!NoContract
          /\ UNCHANGED <<cVersion, cPicked>>
      BY <2>4 DEF C!ResetResolves, C!ResolvedContract, C!ResetToOnChain
    <3>2. v \in Int
      OBVIOUS
    <3> HIDE DEF v
    <3> QED BY <3>1, <3>2 DEF TextOfPicked, C!Loaded
  <2> QED BY <2>1, <2>2, <2>3, <2>4
<1>3. ContractTypes'
  BY <1>1, <1>2
<1>4. UpdateOfEdited' /\ C!ReplacesWhatWasEdited'
  BY <1>1 DEF UpdateOfEdited, C!ReplacesWhatWasEdited
<1> QED BY <1>2, <1>3, <1>4

LEMMA ApproveUpdateStep ==
  ASSUME ContractInv, C!Approve
  PROVE  ContractInv'
<1> DEFINE new == [at |-> "fetching", contract |-> cPicked, of |-> cText.of,
                   base |-> cText.base, version |-> 0]
<1>1. /\ cOp' = new /\ cText' = C!Blank /\ cReset' = C!NoContract /\ cOutcome' = C!NoOp
      /\ UNCHANGED <<cVersion, cMine, cCached, cPicked>>
  BY DEF C!Approve
<1>2. new \in UpdateOps /\ new.of = new.contract /\ new.at = "fetching"
  BY DEF C!Approve, ContractInv, ContractTypes, TextOfPicked, UpdateOps
<1> HIDE DEF new
<1>3. ContractTypes'
  BY <1>1, <1>2 DEF ContractInv, ContractTypes, C!Blank
<1>4. TextOfPicked' /\ UpdateOfEdited' /\ C!ReplacesWhatWasEdited'
  BY <1>1, <1>2 DEF TextOfPicked, C!Loaded, UpdateOfEdited, C!ReplacesWhatWasEdited
<1> QED BY <1>3, <1>4 DEF ContractInv

\* The end of an update that is not accepted in place of another version.
LEMMA UpdateEnds ==
  ASSUME ContractInv, NEW result, C!Ends(result),
         UNCHANGED <<cCached, cPicked, cText, cReset>>,
         cVersion' \in [Contracts -> Int],
         result = "accepted" => cOp.of = cOp.contract /\ cOp.base = cVersion[cOp.contract]
  PROVE  ContractInv'
<1>1. /\ cOp' = C!NoOp
      /\ cOutcome' = [contract |-> cOp.contract, of |-> cOp.of, base |-> cOp.base,
                      result |-> result, held |-> cVersion[cOp.contract]]
  BY DEF C!Ends
<1>2. ContractTypes' /\ TextOfPicked'
  BY <1>1 DEF ContractInv, ContractTypes, TextOfPicked, C!Loaded
<1>3. UpdateOfEdited' /\ C!ReplacesWhatWasEdited'
  BY <1>1 DEF UpdateOfEdited, C!ReplacesWhatWasEdited
<1> QED BY <1>2, <1>3 DEF ContractInv

\* The executor goes on only with the version that was edited.
LEMMA FetchContractStep ==
  ASSUME ContractInv, C!FetchContract
  PROVE  ContractInv'
<1>1. cOp \in UpdateOps /\ cVersion[cOp.contract] \in Int
  <2>1. cOp.at = "fetching"
    BY DEF C!FetchContract
  <2>2. cOp \in UpdateOps
    BY <2>1 DEF C!NoOp, ContractInv, ContractTypes
  <2> QED BY <2>2 DEF UpdateOps, ContractInv, ContractTypes
<1>2. UNCHANGED <<cVersion, cCached, cPicked, cText, cReset>>
  BY DEF C!FetchContract
<1>3. CASE cMine[cOp.contract] /\ C!BaseUnchanged(cVersion[cOp.contract])
  <2> DEFINE new == [cOp EXCEPT !.at = "submitted", !.version = cVersion[cOp.contract] + 1]
  <2>1. cOp' = new /\ UNCHANGED cOutcome
    BY <1>3 DEF C!FetchContract
  <2>2. new \in UpdateOps /\ new.of = cOp.of /\ new.contract = cOp.contract
        /\ new.version = new.base + 1
    <3>1. cVersion[cOp.contract] + 1 \in Int /\ cVersion[cOp.contract] = cOp.base
      BY <1>1, <1>3 DEF C!BaseUnchanged
    <3> QED BY <1>1, <3>1 DEF UpdateOps
  <2>3. cOp # C!NoOp
    BY <1>1 DEF UpdateOps, C!NoOp
  <2> HIDE DEF new
  <2>4. ContractTypes' /\ TextOfPicked'
    BY <1>2, <2>1, <2>2 DEF ContractInv, ContractTypes, TextOfPicked, C!Loaded
  <2>5. UpdateOfEdited' /\ C!ReplacesWhatWasEdited'
    BY <2>1, <2>2, <2>3 DEF ContractInv, UpdateOfEdited, C!ReplacesWhatWasEdited
  <2> QED BY <2>4, <2>5 DEF ContractInv
<1>4. CASE ~(cMine[cOp.contract] /\ C!BaseUnchanged(cVersion[cOp.contract]))
  <2>1. C!Ends("not submitted")
    BY <1>4 DEF C!FetchContract
  <2> QED BY <1>2, <2>1, UpdateEnds DEF ContractInv, ContractTypes
<1> QED BY <1>3, <1>4

\* Platform accepts only the version after the one it holds.
LEMMA PlatformUpdateStep ==
  ASSUME ContractInv, C!PlatformAnswers
  PROVE  ContractInv'
<1>1. cOp \in UpdateOps /\ cOp # C!NoOp /\ cVersion[cOp.contract] \in Int
  BY DEF C!PlatformAnswers, C!NoOp, ContractInv, ContractTypes, UpdateOps
<1>2. UNCHANGED <<cCached, cPicked, cText, cReset>>
  BY DEF C!PlatformAnswers
<1>3. CASE cMine[cOp.contract] /\ cOp.version = cVersion[cOp.contract] + 1
  <2>1. cVersion' = [cVersion EXCEPT ![cOp.contract] = cOp.version] /\ C!Ends("accepted")
    BY <1>3 DEF C!PlatformAnswers
  <2>2. cVersion' \in [Contracts -> Int]
    BY <1>1, <2>1 DEF UpdateOps, ContractInv, ContractTypes
  <2>3. cOp.of = cOp.contract /\ cOp.base = cVersion[cOp.contract]
    BY <1>1, <1>3 DEF C!PlatformAnswers, UpdateOps, ContractInv, UpdateOfEdited
  <2> QED BY <1>2, <2>1, <2>2, <2>3, UpdateEnds
<1>4. CASE ~(cMine[cOp.contract] /\ cOp.version = cVersion[cOp.contract] + 1)
  <2>1. C!Ends("rejected") /\ cVersion' = cVersion
    BY <1>4 DEF C!PlatformAnswers
  <2> QED BY <1>2, <2>1, UpdateEnds DEF ContractInv, ContractTypes
<1> QED BY <1>3, <1>4

LEMMA NextContracts ==
  ASSUME ContractInv, C!Next
  PROVE  ContractInv'
BY EditSteps, ApproveUpdateStep, FetchContractStep, PlatformUpdateStep DEF C!Next

-----------------------------------------------------------------------------
(* DocumentForm.                                                           *)

\* What is cached of a contract has the number of a fetch, which no other has.
FetchNumbers ==
  /\ fContract \in Contracts \cup {None}
  /\ fFetches \in 0..MaxFetches /\ fCached \in [Contracts -> 0..MaxFetches]
  /\ \A c \in Contracts : fCached[c] <= fFetches
  /\ \A c, d \in Contracts : fCached[c] = fCached[d] /\ fCached[c] # 0 => c = d

\* The last effects ran with a schema: by the number of its fetch, that of the contract
\* they ran for.
CommittedSchema ==
  /\ fCommitted.contract \in Contracts
  /\ \E i \in DOMAIN Types[fCommitted.contract] :
       fCommitted.type = Types[fCommitted.contract][i]
  /\ \E fetch \in 1..fFetches :
       /\ fCommitted.schema = <<fetch, fCommitted.type>>
       /\ \A c \in Contracts : fCached[c] = fetch => c = fCommitted.contract

\* Properties, and the text of the JSON view, are there only with a schema, and the
\* properties are those entered for it.
EntriesOfCommitted ==
  /\ \A f \in DOMAIN fProperties :
       /\ CommittedSchema
       /\ DOMAIN fProperties[f] = {"for", "good"}
       /\ fProperties[f].for = <<fCommitted.contract, fCommitted.type>>
  /\ fJson # None =>
       /\ CommittedSchema
       /\ DOMAIN fJson = {"text", "typing", "error"}
       /\ fJson.text = None \/ \A f \in DOMAIN fJson.text : DOMAIN fJson.text[f] = {"for", "good"}

\* The shell's options are those of the last effects' render, which found no errors.
OptionsOfCommitted ==
  fOptions # None =>
    /\ CommittedSchema
    /\ fOptions = [contract |-> fCommitted.contract, type |-> fCommitted.type,
                   properties |-> fCommitted.properties]
    /\ LET schema == Schemas[fCommitted.contract][fCommitted.type] IN
       /\ schema.required \subseteq DOMAIN fCommitted.properties
       /\ \A f \in schema.fields \cap DOMAIN fCommitted.properties :
            fCommitted.properties[f].good

FormInv == FetchNumbers /\ EntriesOfCommitted /\ OptionsOfCommitted

LEMMA MaxFetchesType == MaxFetches \in Nat
BY WritesAssumption

LEMMA InitForm == F!Init => FormInv
<1> SUFFICES ASSUME F!Init PROVE FormInv
  OBVIOUS
<1>1. FetchNumbers
  <2>1. fContract \in Contracts \cup {None}
    BY WritesAssumption DEF F!Init
  <2>2. 0 \in 0..MaxFetches
    BY MaxFetchesType
  <2> QED BY <2>1, <2>2 DEF F!Init, FetchNumbers
<1>2. EntriesOfCommitted /\ OptionsOfCommitted
  BY DEF F!Init, F!NoFields, EntriesOfCommitted, OptionsOfCommitted
<1> QED BY <1>1, <1>2 DEF FormInv

\* A form whose effects have run, with a schema.
LEMMA SettledForm ==
  ASSUME FormInv, ~F!EffectsDue
  PROVE  /\ fCommitted.contract = fContract /\ fCommitted.type = fType
         /\ fCommitted.properties = fProperties
         /\ F!HasSchema(fType) <=> CommittedSchema
<1>1. fCommitted = F!Deps
  BY DEF F!EffectsDue
<1>2. /\ fCommitted.contract = fContract /\ fCommitted.type = fType
      /\ fCommitted.properties = fProperties
      /\ fCommitted.schema = IF F!HasSchema(fType) THEN <<fCached[fContract], fType>> ELSE None
  BY <1>1 DEF F!Deps
<1>3. ASSUME F!HasSchema(fType) PROVE CommittedSchema
  <2>1. fContract \in Contracts /\ fCached[fContract] # 0
        /\ \E i \in DOMAIN Types[fContract] : fType = Types[fContract][i]
    BY <1>3 DEF F!HasSchema, F!DocTypeNames, F!Resolved, F!Range, FormInv, FetchNumbers
  <2>2. fCached[fContract] \in 1..fFetches
    BY <2>1 DEF FormInv, FetchNumbers
  <2> QED BY <1>2, <1>3, <2>1, <2>2 DEF CommittedSchema, FormInv, FetchNumbers
<1>4. ASSUME CommittedSchema PROVE F!HasSchema(fType)
  <2>1. 1..fFetches \subseteq 1..MaxFetches
    BY MaxFetchesType DEF FormInv, FetchNumbers
  <2>2. fCommitted.schema # None
    BY <1>4, <2>1, WritesAssumption DEF CommittedSchema
  <2> QED BY <1>2, <2>2
<1> QED BY <1>2, <1>3, <1>4

\* Steps that answer the contract query, or change the session: numbers are not reused.
LEMMA FetchSteps ==
  ASSUME FormInv, F!Answer \/ F!SessionChanges
  PROVE  FormInv'
<1>1. UNCHANGED <<fContract, fType, fProperties, fLink, fJson, fOptions, fCommitted>>
  BY DEF F!Answer, F!SessionChanges
<1>2. /\ FetchNumbers' /\ fFetches' >= fFetches
      /\ \A c \in Contracts : fCached'[c] \in {0, fFetches + 1, fCached[c]}
  <2>1. CASE F!Answer
    <3>1. /\ fContract \in Contracts /\ fFetches < MaxFetches
          /\ fFetches' = fFetches + 1 /\ fCached' = [fCached EXCEPT ![fContract] = fFetches + 1]
      BY <2>1 DEF F!Answer, FormInv, FetchNumbers
    <3>2. fFetches + 1 \in 0..MaxFetches /\ fFetches \in Int
      BY <3>1, MaxFetchesType DEF FormInv, FetchNumbers
    <3>3. /\ fCached' \in [Contracts -> 0..MaxFetches]
          /\ \A c \in Contracts : fCached'[c] = IF c = fContract THEN fFetches + 1 ELSE fCached[c]
      BY <3>1, <3>2 DEF FormInv, FetchNumbers
    <3>4. \A c \in Contracts : fCached[c] \in Int /\ fCached[c] <= fFetches
      BY MaxFetchesType DEF FormInv, FetchNumbers
    <3> QED BY <1>1, <3>1, <3>2, <3>3, <3>4 DEF FormInv, FetchNumbers
  <2>2. CASE F!SessionChanges
    <3>1. fFetches' = fFetches /\ fCached' = [c \in Contracts |-> 0]
      BY <2>2 DEF F!SessionChanges
    <3>2. fFetches \in Int /\ fFetches >= 0 /\ 0 \in 0..MaxFetches
      BY MaxFetchesType DEF FormInv, FetchNumbers
    <3> QED BY <1>1, <3>1, <3>2 DEF FormInv, FetchNumbers
  <2> QED BY <2>1, <2>2
<1>3. CommittedSchema => CommittedSchema'
  <2> SUFFICES ASSUME CommittedSchema PROVE CommittedSchema'
    OBVIOUS
  <2>1. PICK fetch \in 1..fFetches :
          /\ fCommitted.schema = <<fetch, fCommitted.type>>
          /\ \A c \in Contracts : fCached[c] = fetch => c = fCommitted.contract
    BY DEF CommittedSchema
  <2>2. fFetches \in Int /\ fFetches' \in Int
    BY <1>2, MaxFetchesType DEF FormInv, FetchNumbers
  <2>3. fetch \in 1..fFetches' /\ fetch # 0 /\ fetch # fFetches + 1
    BY <1>2, <2>2
  <2>4. \A c \in Contracts : fCached'[c] = fetch => c = fCommitted.contract
    BY <1>2, <2>1, <2>3
  <2> QED BY <1>1, <2>1, <2>3, <2>4 DEF CommittedSchema
<1>4. EntriesOfCommitted' /\ OptionsOfCommitted'
  BY <1>1, <1>3 DEF FormInv, EntriesOfCommitted, OptionsOfCommitted
<1> QED BY <1>2, <1>4 DEF FormInv

\* The effects of a render: what was entered without its schema, or for another, is reset.
LEMMA EffectsStep ==
  ASSUME FormInv, F!Effects
  PROVE  FormInv'
<1>1. /\ fProperties' = IF F!Resets THEN F!EmptyValue ELSE fProperties
      /\ fOptions' = F!Offered
      /\ fJson' = IF F!HasSchema(fType) THEN fJson ELSE None
      /\ fCommitted' = F!Deps
      /\ UNCHANGED <<fContract, fCached, fFetches>>
  BY DEF F!Effects
<1>2. FetchNumbers'
  BY <1>1 DEF FormInv, FetchNumbers
<1>3. /\ fCommitted'.contract = fContract /\ fCommitted'.type = fType
      /\ fCommitted'.properties = fProperties
      /\ fCommitted'.schema = IF F!HasSchema(fType) THEN <<fCached[fContract], fType>> ELSE None
  BY <1>1 DEF F!Deps
<1>4. ASSUME F!HasSchema(fType)
      PROVE  CommittedSchema' /\ fContract \in Contracts /\ fCached[fContract] \in 1..fFetches
  <2>1. fContract \in Contracts /\ fCached[fContract] # 0
        /\ \E i \in DOMAIN Types[fContract] : fType = Types[fContract][i]
    BY <1>4 DEF F!HasSchema, F!DocTypeNames, F!Resolved, F!Range, FormInv, FetchNumbers
  <2>2. fCached[fContract] \in 1..fFetches
    BY <2>1, MaxFetchesType DEF FormInv, FetchNumbers
  <2>3. \A c \in Contracts : fCached[c] = fCached[fContract] => c = fContract
    BY <2>1 DEF FormInv, FetchNumbers
  <2> QED BY <1>1, <1>3, <1>4, <2>1, <2>2, <2>3 DEF CommittedSchema
<1>5. ASSUME CommittedSchema
      PROVE  fCommitted.schema # None
  <2>1. 1..fFetches \subseteq 1..MaxFetches
    BY MaxFetchesType DEF FormInv, FetchNumbers
  <2> QED BY <1>5, <2>1, WritesAssumption DEF CommittedSchema
<1>6. ASSUME ~F!Resets, NEW f \in DOMAIN fProperties
      PROVE  F!HasSchema(fType) /\ fProperties[f].for = <<fContract, fType>>
             /\ DOMAIN fProperties[f] = {"for", "good"}
  <2>1. /\ CommittedSchema /\ DOMAIN fProperties[f] = {"for", "good"}
        /\ fProperties[f].for = <<fCommitted.contract, fCommitted.type>>
    BY <1>6 DEF FormInv, EntriesOfCommitted
  <2>2. fCommitted.type = fType /\ fCommitted.schema = fCommitted'.schema
    BY <1>1, <1>6 DEF F!Resets
  <2>3. F!HasSchema(fType)
    BY <1>3, <1>5, <2>1, <2>2
  <2>4. fCommitted.schema = <<fCached[fContract], fType>> /\ fContract \in Contracts
    BY <1>3, <1>4, <2>2, <2>3
  <2>5. fContract = fCommitted.contract
    BY <2>1, <2>4 DEF CommittedSchema
  <2> QED BY <2>1, <2>2, <2>3, <2>5
<1>7. EntriesOfCommitted'
  <2>1. ASSUME NEW f \in DOMAIN fProperties'
        PROVE  /\ CommittedSchema'
               /\ DOMAIN fProperties'[f] = {"for", "good"}
               /\ fProperties'[f].for = <<fContract, fType>>
    <3>1. CASE ~F!Resets
      BY <1>1, <1>4, <1>6, <3>1
    <3>2. CASE F!Resets
      <4>1. F!HasSchema(fType)
        BY <1>1, <3>2 DEF F!EmptyValue, F!NoFields
      <4>2. fProperties' = [g \in F!Schema.seeded |-> [for |-> <<fContract, fType>>, good |-> TRUE]]
        BY <1>1, <3>2, <4>1 DEF F!EmptyValue, F!Here
      <4> QED BY <1>4, <4>1, <4>2
    <3> QED BY <3>1, <3>2
  <2>2. ASSUME fJson' # None
        PROVE  CommittedSchema' /\ fJson # None /\ fJson' = fJson
    BY <1>1, <1>4, <2>2
  <2> QED BY <1>3, <2>1, <2>2 DEF FormInv, EntriesOfCommitted
<1>8. OptionsOfCommitted'
  <2> SUFFICES ASSUME fOptions' # None
               PROVE  /\ CommittedSchema'
                      /\ fOptions' = [contract |-> fContract, type |-> fType,
                                      properties |-> fProperties]
                      /\ LET schema == Schemas[fContract][fType] IN
                         /\ schema.required \subseteq DOMAIN fProperties
                         /\ \A f \in schema.fields \cap DOMAIN fProperties : fProperties[f].good
    BY <1>3 DEF OptionsOfCommitted
  <2>1. /\ F!HasSchema(fType) /\ F!Errors = {}
        /\ fOptions' = [contract |-> fContract, type |-> fType, properties |-> fProperties]
    BY <1>1 DEF F!Offered
  <2> QED BY <1>4, <2>1 DEF F!Errors, F!Schema
<1> QED BY <1>2, <1>7, <1>8 DEF FormInv

\* The user picks another contract or type: the effects are due again, and nothing that
\* was entered changes.
LEMMA PickStep ==
  ASSUME FormInv, F!PickContract \/ F!PickType
  PROVE  FormInv'
<1>1. /\ fContract' \in Contracts \cup {None}
      /\ UNCHANGED <<fProperties, fLink, fCached, fFetches, fJson, fOptions, fCommitted>>
  BY DEF F!PickContract, F!PickType, FormInv, FetchNumbers
<1>2. FetchNumbers'
  BY <1>1 DEF FormInv, FetchNumbers
<1>3. EntriesOfCommitted' /\ OptionsOfCommitted'
  BY <1>1 DEF FormInv, EntriesOfCommitted, OptionsOfCommitted, CommittedSchema
<1> QED BY <1>2, <1>3 DEF FormInv

\* A step that only changes what is entered, for the type and contract shown.
LEMMA EnterStep ==
  ASSUME FormInv, ~F!EffectsDue,
         UNCHANGED <<fContract, fType, fCached, fFetches, fOptions, fCommitted>>,
         \A f \in DOMAIN fProperties' :
            \/ /\ CommittedSchema
               /\ DOMAIN fProperties'[f] = {"for", "good"}
               /\ fProperties'[f].for = <<fContract, fType>>
            \/ f \in DOMAIN fProperties /\ fProperties'[f] = fProperties[f],
         fJson' # None =>
           /\ CommittedSchema
           /\ DOMAIN fJson' = {"text", "typing", "error"}
           /\ \/ fJson'.text = None
              \/ \A f \in DOMAIN fJson'.text : DOMAIN fJson'.text[f] = {"for", "good"}
  PROVE  FormInv'
<1>1. CommittedSchema' <=> CommittedSchema
  BY DEF CommittedSchema
<1>2. fCommitted.contract = fContract /\ fCommitted.type = fType
  BY SettledForm
<1>3. FetchNumbers'
  BY DEF FormInv, FetchNumbers
<1>4. EntriesOfCommitted'
  BY <1>1, <1>2 DEF FormInv, EntriesOfCommitted
<1>5. OptionsOfCommitted'
  BY <1>1 DEF FormInv, OptionsOfCommitted
<1> QED BY <1>3, <1>4, <1>5 DEF FormInv

LEMMA SetFieldStep ==
  ASSUME FormInv, F!SetField
  PROVE  FormInv'
<1>1. /\ ~F!EffectsDue /\ F!HasSchema(fType) /\ fJson = None
      /\ UNCHANGED <<fContract, fType, fCached, fFetches, fJson, fOptions, fCommitted>>
  BY DEF F!SetField, F!MayAct
<1>2. CommittedSchema
  BY <1>1, SettledForm
<1>3. PICK f \in F!Schema.fields :
        \/ f \in DOMAIN fProperties /\ fProperties' = F!Without(f)
        \/ \E good \in BOOLEAN : fProperties' = F!With(f, F!Entry(good))
  BY DEF F!SetField
<1>4. ASSUME NEW g \in DOMAIN fProperties'
      PROVE  \/ /\ CommittedSchema
                /\ DOMAIN fProperties'[g] = {"for", "good"}
                /\ fProperties'[g].for = <<fContract, fType>>
             \/ g \in DOMAIN fProperties /\ fProperties'[g] = fProperties[g]
  <2>1. CASE f \in DOMAIN fProperties /\ fProperties' = F!Without(f)
    BY <1>4, <2>1 DEF F!Without, F!Restrict
  <2>2. ASSUME NEW good \in BOOLEAN, fProperties' = F!With(f, F!Entry(good))
        PROVE  \/ /\ CommittedSchema
                  /\ DOMAIN fProperties'[g] = {"for", "good"}
                  /\ fProperties'[g].for = <<fContract, fType>>
               \/ g \in DOMAIN fProperties /\ fProperties'[g] = fProperties[g]
    BY <1>2, <1>4, <2>2 DEF F!With, F!Entry, F!Here
  <2> QED BY <1>3, <2>1, <2>2
<1> QED BY <1>1, <1>2, <1>4, EnterStep

LEMMA ToJsonStep ==
  ASSUME FormInv, F!ToJson
  PROVE  FormInv'
<1>1. /\ ~F!EffectsDue /\ F!HasSchema(fType)
      /\ UNCHANGED <<fContract, fType, fProperties, fCached, fFetches, fOptions, fCommitted>>
      /\ fJson' = [text |-> fProperties, typing |-> FALSE, error |-> FALSE]
  BY DEF F!ToJson, F!MayAct
<1>2. CommittedSchema
  BY <1>1, SettledForm
<1>3. /\ DOMAIN fJson' = {"text", "typing", "error"}
      /\ \A f \in DOMAIN fJson'.text : DOMAIN fJson'.text[f] = {"for", "good"}
  BY <1>1 DEF FormInv, EntriesOfCommitted
<1> QED BY <1>1, <1>2, <1>3, EnterStep

LEMMA TypeJsonStep ==
  ASSUME FormInv, F!TypeJson
  PROVE  FormInv'
<1>1. /\ ~F!EffectsDue /\ fJson # None
      /\ UNCHANGED <<fContract, fType, fProperties, fCached, fFetches, fOptions, fCommitted>>
  BY DEF F!TypeJson
<1>2. CommittedSchema /\ DOMAIN fJson = {"text", "typing", "error"}
  BY <1>1 DEF FormInv, EntriesOfCommitted
<1>3. /\ DOMAIN fJson' = {"text", "typing", "error"}
      /\ fJson'.text = None \/ \A f \in DOMAIN fJson'.text : DOMAIN fJson'.text[f] = {"for", "good"}
  <2>1. CASE fJson' = [fJson EXCEPT !.text = None, !.typing = TRUE]
    BY <1>2, <2>1
  <2>2. ASSUME NEW f, fJson' = [fJson EXCEPT !.text = [g \in {f} |-> F!Entry(TRUE)],
                                             !.typing = TRUE]
        PROVE  /\ DOMAIN fJson' = {"text", "typing", "error"}
               /\ \A g \in DOMAIN fJson'.text : DOMAIN fJson'.text[g] = {"for", "good"}
    BY <1>2, <2>2 DEF F!Entry
  <2> QED BY <2>1, <2>2 DEF F!TypeJson
<1> QED BY <1>1, <1>2, <1>3, EnterStep

LEMMA LeaveTextStep ==
  ASSUME FormInv, F!LeaveText
  PROVE  FormInv'
<1>1. /\ ~F!EffectsDue /\ fJson # None /\ F!Apply
      /\ UNCHANGED <<fContract, fType, fCached, fFetches, fOptions, fCommitted>>
  BY DEF F!LeaveText
<1>2. /\ CommittedSchema /\ DOMAIN fJson = {"text", "typing", "error"}
      /\ fJson.text = None \/ \A f \in DOMAIN fJson.text : DOMAIN fJson.text[f] = {"for", "good"}
  BY <1>1 DEF FormInv, EntriesOfCommitted
<1>3. fJson' # None =>
        /\ DOMAIN fJson' = {"text", "typing", "error"}
        /\ fJson'.text = fJson.text
  BY <1>2 DEF F!LeaveText
<1>4. ASSUME NEW f \in DOMAIN fProperties'
      PROVE  \/ /\ CommittedSchema
                /\ DOMAIN fProperties'[f] = {"for", "good"}
                /\ fProperties'[f].for = <<fContract, fType>>
             \/ f \in DOMAIN fProperties /\ fProperties'[f] = fProperties[f]
  <2>1. CASE fJson.text = None
    BY <1>1, <1>4, <2>1 DEF F!Apply
  <2>2. CASE fJson.text # None
    <3>1. /\ f \in DOMAIN fJson.text
          /\ fProperties'[f] = [fJson.text[f] EXCEPT !.for = <<fContract, fType>>]
      BY <1>1, <1>4, <2>2 DEF F!Apply, F!Here
    <3> QED BY <1>2, <2>2, <3>1
  <2> QED BY <2>1, <2>2
<1> QED BY <1>1, <1>2, <1>3, <1>4, EnterStep

LEMMA NextForm ==
  ASSUME FormInv, F!Next \/ UNCHANGED formVars
  PROVE  FormInv'
<1>1. CASE UNCHANGED formVars
  BY <1>1 DEF formVars, FormInv, FetchNumbers, EntriesOfCommitted, OptionsOfCommitted,
     CommittedSchema
<1> QED BY <1>1, FetchSteps, EffectsStep, PickStep, SetFieldStep, ToJsonStep, TypeJsonStep,
           LeaveTextStep DEF F!Next

LEMMA FormIsDocument == FormInv => F!DocumentIsOfForm
<1> SUFFICES ASSUME FormInv, ~F!EffectsDue, fOptions # None PROVE F!DocumentIsOfForm
  BY DEF F!DocumentIsOfForm
<1>1. /\ CommittedSchema /\ F!HasSchema(fType)
      /\ fCommitted.contract = fContract /\ fCommitted.type = fType
      /\ fCommitted.properties = fProperties
  BY SettledForm DEF FormInv, OptionsOfCommitted
<1>2. /\ fOptions = [contract |-> fContract, type |-> fType, properties |-> fProperties]
      /\ Schemas[fContract][fType].required \subseteq DOMAIN fProperties
      /\ \A f \in Schemas[fContract][fType].fields \cap DOMAIN fProperties :
            fProperties[f].good
  BY <1>1 DEF FormInv, OptionsOfCommitted
<1>3. \A f \in DOMAIN fProperties : fProperties[f].for = <<fContract, fType>>
  BY <1>1 DEF FormInv, EntriesOfCommitted
<1> QED BY <1>1, <1>2, <1>3 DEF F!DocumentIsOfForm, F!Schema, F!Here

-----------------------------------------------------------------------------
(* GroupActions.                                                           *)

GroupMembers == {me, you}
GroupActionRecords == [by : GroupMembers, signers : SUBSET GroupMembers, closed : BOOLEAN]
Blocks == [actions : [Actions -> {None} \cup GroupActionRecords], balance : Int, others : Int]

\* A later block: group actions stay, of the same proposer, and only gain signatures, and
\* the balance does not shrink.
Follows(later, block) ==
  /\ block.balance <= later.balance
  /\ \A a \in Actions : block.actions[a] # None =>
       /\ later.actions[a] # None
       /\ later.actions[a].by = block.actions[a].by
       /\ block.actions[a].signers \subseteq later.actions[a].signers

\* An action is closed when its signatures have the power required; its proposer signed it.
WellSigned(block) ==
  \A a \in Actions : block.actions[a] # None =>
    /\ block.actions[a].closed <=> (G!TotalPower(block.actions[a].signers) >= G!Required)
    /\ block.actions[a].by = me => me \in block.actions[a].signers

GroupTypes ==
  /\ gHistory \in Seq(Blocks) /\ Len(gHistory) >= 1
  /\ gPower \in [GroupMembers -> 1..3]
  /\ gMode \in {"direct", "propose", "cosign"} /\ gTarget \in Actions
  /\ gPhase \in {"signing", "checked", "ready", "submitted", "confirming", "balances", "done",
                 "failed", "unknown"}

Blockchain ==
  /\ \A h, k \in 1..Len(gHistory) : h <= k => Follows(gHistory[k], gHistory[h])
  /\ \A h \in 1..Len(gHistory) : WellSigned(gHistory[h])

\* A write is sent once it is ready; until it is taken, the signer has proposed nothing
\* since the first block; once it is, its signature is there.
ProposedByWrite ==
  /\ gPhase \in {"signing", "checked", "ready"} => gWrite \notin {"sent", "applied"}
  /\ gWrite # "applied" =>
       \A h \in 1..Len(gHistory), a \in Actions :
         gHistory[h].actions[a] # None /\ gHistory[h].actions[a].by = me
           => gHistory[1].actions[a] # None
  /\ gWrite = "applied" /\ gMode = "propose" =>
       \E a \in Actions : G!Now.actions[a] # None /\ G!Now.actions[a].by = me
  /\ gWrite = "applied" /\ gMode = "cosign" =>
       G!Now.actions[gTarget] # None /\ me \in G!Now.actions[gTarget].signers

\* What was seen of the target is what a block held, without the signer's signature.
SeenInBlock ==
  gPhase \notin {"signing", "failed"} =>
    /\ gSeen.height \in 1..Len(gHistory)
    /\ gSeen.balance = gHistory[gSeen.height].balance
    /\ gSeen.others = gHistory[gSeen.height].others
    /\ gMode # "cosign" => gSeen.power = 0
    /\ gMode = "cosign" =>
         LET action == gHistory[gSeen.height].actions[gTarget] IN
         /\ action # None /\ me \notin action.signers
         /\ gSeen.power = G!TotalPower(action.signers)

\* Reads before the write that are of one block, with pages that miss nothing, hold
\* everything the signer had proposed before.
BeforeHoldsProposals ==
  /\ gBefore # None /\ gBefore.agreed /\ gBefore.complete =>
       \A a \in Actions :
         gHistory[1].actions[a] # None /\ gHistory[1].actions[a].by = me => a \in gBefore.signed
  /\ gPhase = "confirming" => gBefore # None /\ gBefore.complete

\* A receipt comes with a write confirmed, and its proof is of a block.
ReceiptOfWrite ==
  /\ gReceipt # None => gPhase \in {"balances", "done"}
  /\ gPhase = "balances" \/ gReceipt # None =>
       gReceipt \in [by : {"sdk", "read"}, completes : BOOLEAN, provedAt : 0..Len(gHistory)]

GroupInv ==
  /\ GroupTypes /\ Blockchain /\ ProposedByWrite /\ SeenInBlock /\ BeforeHoldsProposals
  /\ ReceiptOfWrite /\ G!ReceiptTrue

\* No action is the absence of one.
LEMMA ActionIsThere == \A action \in GroupActionRecords : action # None
BY WritesAssumption DEF GroupActionRecords, GroupMembers

LEMMA FollowsItself ==
  ASSUME NEW block \in Blocks
  PROVE  Follows(block, block)
BY DEF Follows, Blocks

LEMMA FollowsFollowing ==
  ASSUME NEW block \in Blocks, NEW later \in Blocks, NEW last \in Blocks,
         Follows(later, block), Follows(last, later)
  PROVE  Follows(last, block)
<1>1. block.balance \in Int /\ later.balance \in Int /\ last.balance \in Int
  BY DEF Blocks
<1> QED BY <1>1 DEF Follows

\* The signer's power on top of what was there.
LEMMA PowerAdds ==
  ASSUME GroupTypes, NEW some \in SUBSET GroupMembers, NEW more \in SUBSET GroupMembers,
         some \subseteq more, me \in more, me \notin some
  PROVE  /\ G!TotalPower(more) >= G!TotalPower(some) + gPower[me]
         /\ G!TotalPower(some) \in Int /\ gPower[me] \in Int
<1>1. gPower[me] \in 1..3 /\ gPower[you] \in 1..3
  BY DEF GroupTypes, GroupMembers
<1> QED BY <1>1 DEF G!TotalPower, G!PowerOf

LEMMA NowIsBlock ==
  ASSUME GroupTypes
  PROVE  /\ Len(gHistory) \in 1..Len(gHistory) /\ Len(gHistory) \in Nat
         /\ \A h \in 1..Len(gHistory) : gHistory[h] \in Blocks
         /\ G!Now = gHistory[Len(gHistory)] /\ G!Now \in Blocks
<1>1. Len(gHistory) \in Nat /\ Len(gHistory) >= 1
      /\ \A h \in 1..Len(gHistory) : gHistory[h] \in Blocks
  BY DEF GroupTypes
<1>2. Len(gHistory) \in 1..Len(gHistory)
  BY <1>1
<1> QED BY <1>1, <1>2 DEF G!Now

LEMMA SignedAction ==
  ASSUME NEW action \in GroupActionRecords, NEW id \in GroupMembers
  PROVE  /\ G!Signed(action, id) \in GroupActionRecords
         /\ G!Signed(action, id).by = action.by
         /\ G!Signed(action, id).signers = action.signers \cup {id}
         /\ G!Signed(action, id).closed <=> (G!TotalPower(action.signers \cup {id}) >= G!Required)
<1>1. (G!TotalPower(action.signers \cup {id}) >= G!Required) \in BOOLEAN
  OBVIOUS
<1> DEFINE closes == G!TotalPower(action.signers \cup {id}) >= G!Required
<1>2. G!Signed(action, id) = [action EXCEPT !.signers = action.signers \cup {id}, !.closed = closes]
  BY DEF G!Signed
<1>3. closes \in BOOLEAN
  BY <1>1
<1> HIDE DEF closes
<1>4. /\ [action EXCEPT !.signers = action.signers \cup {id}, !.closed = closes]
           \in GroupActionRecords
      /\ [action EXCEPT !.signers = action.signers \cup {id}, !.closed = closes].by = action.by
      /\ [action EXCEPT !.signers = action.signers \cup {id}, !.closed = closes].signers
           = action.signers \cup {id}
      /\ [action EXCEPT !.signers = action.signers \cup {id}, !.closed = closes].closed = closes
  BY <1>3 DEF GroupActionRecords, GroupMembers
<1> QED BY <1>2, <1>4 DEF closes

LEMMA ProposedAction ==
  ASSUME NEW id \in GroupMembers
  PROVE  /\ G!Proposal(id) \in GroupActionRecords
         /\ G!Proposal(id).by = id /\ G!Proposal(id).signers = {id}
         /\ G!Proposal(id).closed <=> (G!TotalPower({id}) >= G!Required)
<1> DEFINE unsigned == [by |-> id, signers |-> {}, closed |-> FALSE]
<1>1. unsigned \in GroupActionRecords /\ unsigned.by = id /\ unsigned.signers = {}
  BY DEF GroupActionRecords
<1>2. G!Proposal(id) = G!Signed(unsigned, id)
  BY DEF G!Proposal
<1>3. {} \cup {id} = {id}
  OBVIOUS
<1> HIDE DEF unsigned
<1> QED BY <1>1, <1>2, <1>3, SignedAction

\* The next block, where it holds one action more or with more signatures.
LEMMA BlockWithAction ==
  ASSUME GroupTypes, Blockchain, NEW a \in Actions, NEW action \in GroupActionRecords,
         action.closed <=> (G!TotalPower(action.signers) >= G!Required),
         action.by = me => me \in action.signers,
         \/ G!Now.actions[a] = None
         \/ /\ G!Now.actions[a].by = action.by
            /\ G!Now.actions[a].signers \subseteq action.signers
  PROVE  /\ G!WithAction(a, action) \in Blocks
         /\ Follows(G!WithAction(a, action), G!Now) /\ WellSigned(G!WithAction(a, action))
         /\ G!WithAction(a, action).actions[a] = action
         /\ \A b \in Actions \ {a} : G!WithAction(a, action).actions[b] = G!Now.actions[b]
<1> DEFINE next == G!WithAction(a, action)
<1>1. G!Now \in Blocks /\ WellSigned(G!Now) /\ action # None
  BY NowIsBlock, ActionIsThere DEF Blockchain
<1> DEFINE moved == IF action.closed THEN G!Now.balance + 1 ELSE G!Now.balance
<1>3. moved \in Int /\ G!Now.balance \in Int /\ G!Now.balance <= moved
  BY <1>1 DEF Blocks
<1>2. /\ next \in Blocks /\ next.balance = moved /\ next.actions[a] = action
      /\ \A b \in Actions \ {a} : next.actions[b] = G!Now.actions[b]
  <2>1. next = [G!Now EXCEPT !.actions[a] = action, !.balance = moved]
    BY DEF G!WithAction
  <2> HIDE DEF next, moved
  <2> QED BY <1>1, <1>3, <2>1 DEF Blocks
<1> HIDE DEF next, moved
<1>4. Follows(next, G!Now)
  BY <1>1, <1>2, <1>3 DEF Follows
<1>5. WellSigned(next)
  BY <1>1, <1>2 DEF WellSigned
<1> QED BY <1>2, <1>4, <1>5 DEF next

\* Whose doing a block is changes neither its actions nor its balance.
LEMMA BlockByOthers ==
  ASSUME GroupTypes, NEW block \in Blocks, Follows(block, G!Now), WellSigned(block)
  PROVE  /\ G!ByOthers(block) \in Blocks
         /\ Follows(G!ByOthers(block), G!Now) /\ WellSigned(G!ByOthers(block))
         /\ G!ByOthers(block).actions = block.actions
<1> DEFINE moved == block.others + (block.balance - G!Now.balance)
<1>1. moved \in Int
  BY NowIsBlock DEF Blocks
<1>2. G!ByOthers(block) = [block EXCEPT !.others = moved]
  BY DEF G!ByOthers
<1> HIDE DEF moved
<1>3. /\ G!ByOthers(block) \in Blocks
      /\ G!ByOthers(block).actions = block.actions
      /\ G!ByOthers(block).balance = block.balance
  BY <1>1, <1>2 DEF Blocks
<1> QED BY <1>3 DEF Follows, WellSigned

\* What others' blocks do follows, and proposes nothing for the signer.
LEMMA BlockOfOthers ==
  ASSUME GroupTypes, Blockchain, NEW next \in G!OthersBlocks
  PROVE  /\ next \in Blocks /\ Follows(next, G!Now) /\ WellSigned(next)
         /\ \A a \in Actions : next.actions[a] # None /\ next.actions[a].by = me
              => G!Now.actions[a] # None
<1>1. G!Now \in Blocks /\ WellSigned(G!Now)
  BY NowIsBlock DEF Blockchain
<1>2. ASSUME NEW a \in G!Unused, next = G!ByOthers(G!WithAction(a, G!Proposal(you)))
      PROVE  /\ next \in Blocks /\ Follows(next, G!Now) /\ WellSigned(next)
             /\ \A b \in Actions : next.actions[b] # None /\ next.actions[b].by = me
                  => G!Now.actions[b] # None
  <2>1. a \in Actions /\ G!Now.actions[a] = None
    BY DEF G!Unused
  <2>2. /\ G!Proposal(you) \in GroupActionRecords
        /\ G!Proposal(you).by # me
        /\ G!Proposal(you).closed <=> (G!TotalPower(G!Proposal(you).signers) >= G!Required)
    <3>1. /\ G!Proposal(you) \in GroupActionRecords
          /\ G!Proposal(you).by = you /\ G!Proposal(you).signers = {you}
          /\ G!Proposal(you).closed <=> (G!TotalPower({you}) >= G!Required)
      BY ProposedAction DEF GroupMembers
    <3> QED BY <3>1, WritesAssumption
  <2>3. /\ next \in Blocks /\ Follows(next, G!Now) /\ WellSigned(next)
        /\ next.actions[a] = G!Proposal(you)
        /\ \A b \in Actions \ {a} : next.actions[b] = G!Now.actions[b]
    <3> DEFINE proposed == G!WithAction(a, G!Proposal(you))
    <3>1. /\ proposed \in Blocks /\ Follows(proposed, G!Now) /\ WellSigned(proposed)
          /\ proposed.actions[a] = G!Proposal(you)
          /\ \A b \in Actions \ {a} : proposed.actions[b] = G!Now.actions[b]
      BY <2>1, <2>2, BlockWithAction
    <3>2. next = G!ByOthers(proposed)
      BY <1>2
    <3> HIDE DEF proposed
    <3> QED BY <3>1, <3>2, BlockByOthers
  <2> QED BY <2>2, <2>3
<1>3. ASSUME NEW id \in GroupMembers, NEW a \in G!Open(id),
             next = G!ByOthers(G!WithAction(a, G!Signed(G!Now.actions[a], id)))
      PROVE  /\ next \in Blocks /\ Follows(next, G!Now) /\ WellSigned(next)
             /\ \A b \in Actions : next.actions[b] # None /\ next.actions[b].by = me
                  => G!Now.actions[b] # None
  <2> DEFINE action == G!Now.actions[a]
  <2>1. a \in Actions /\ action # None
    BY DEF G!Open, G!Unused
  <2>2. action \in GroupActionRecords /\ (action.by = me => me \in action.signers)
    BY <1>1, <2>1 DEF Blocks, WellSigned
  <2> HIDE DEF action
  <2>3. /\ G!Signed(action, id) \in GroupActionRecords
        /\ G!Signed(action, id).by = action.by
        /\ G!Signed(action, id).signers = action.signers \cup {id}
        /\ G!Signed(action, id).closed <=> (G!TotalPower(action.signers \cup {id}) >= G!Required)
    BY <2>2, SignedAction
  <2>4. /\ next \in Blocks /\ Follows(next, G!Now) /\ WellSigned(next)
        /\ next.actions[a] = G!Signed(action, id)
        /\ \A b \in Actions \ {a} : next.actions[b] = G!Now.actions[b]
    <3> DEFINE signed == G!Signed(action, id)
    <3>1. /\ signed \in GroupActionRecords /\ (signed.by = me => me \in signed.signers)
          /\ signed.closed <=> (G!TotalPower(signed.signers) >= G!Required)
          /\ G!Now.actions[a].by = signed.by /\ G!Now.actions[a].signers \subseteq signed.signers
          /\ next = G!ByOthers(G!WithAction(a, signed))
      BY <1>3, <2>2, <2>3 DEF action
    <3> HIDE DEF signed
    <3> DEFINE block == G!WithAction(a, signed)
    <3>3. /\ block \in Blocks /\ Follows(block, G!Now) /\ WellSigned(block)
          /\ block.actions[a] = signed
          /\ \A b \in Actions \ {a} : block.actions[b] = G!Now.actions[b]
      BY <2>1, <3>1, BlockWithAction
    <3>4. next = G!ByOthers(block)
      BY <3>1
    <3> HIDE DEF block
    <3>2. /\ next \in Blocks /\ Follows(next, G!Now) /\ WellSigned(next)
          /\ next.actions[a] = signed
          /\ \A b \in Actions \ {a} : next.actions[b] = G!Now.actions[b]
      BY <3>3, <3>4, BlockByOthers
    <3> QED BY <3>2 DEF signed
  <2> QED BY <2>1, <2>4 DEF action
<1>4. ASSUME next = G!ByOthers([G!Now EXCEPT !.balance = @ + 1])
      PROVE  /\ next \in Blocks /\ Follows(next, G!Now) /\ WellSigned(next)
             /\ \A b \in Actions : next.actions[b] # None /\ next.actions[b].by = me
                  => G!Now.actions[b] # None
  <2> DEFINE block == [G!Now EXCEPT !.balance = @ + 1]
  <2>1. G!Now.balance \in Int /\ G!Now.balance + 1 \in Int
    BY <1>1 DEF Blocks
  <2>2. block \in Blocks /\ block.balance = G!Now.balance + 1 /\ block.actions = G!Now.actions
    BY <1>1, <2>1 DEF Blocks
  <2>3. next = G!ByOthers(block)
    BY <1>4
  <2> HIDE DEF block
  <2>4. Follows(block, G!Now) /\ WellSigned(block)
    BY <1>1, <2>1, <2>2 DEF Follows, WellSigned
  <2> QED BY <2>2, <2>3, <2>4, BlockByOthers
<1>5. me \in GroupMembers /\ you \in GroupMembers
  BY DEF GroupMembers
<1> QED BY <1>2, <1>3, <1>4, <1>5 DEF G!OthersBlocks

\* The block that takes the write follows, and holds the signature.
LEMMA BlockOfWrite ==
  ASSUME GroupTypes, Blockchain, NEW next \in G!WriteBlocks
  PROVE  /\ next \in Blocks /\ Follows(next, G!Now) /\ WellSigned(next)
         /\ gMode = "propose" =>
              \E a \in Actions : next.actions[a] # None /\ next.actions[a].by = me
         /\ gMode = "cosign" => next.actions[gTarget] # None /\ me \in next.actions[gTarget].signers
<1>1. G!Now \in Blocks /\ WellSigned(G!Now) /\ me \in GroupMembers
  BY NowIsBlock DEF Blockchain, GroupMembers
<1>2. CASE gMode = "direct"
  <2>1. next = [G!Now EXCEPT !.balance = @ + 1]
    BY <1>2 DEF G!WriteBlocks
  <2>2. G!Now.balance \in Int
    BY <1>1 DEF Blocks
  <2>3. G!Now.balance + 1 \in Int
    BY <2>2
  <2>4. next \in Blocks /\ next.balance = G!Now.balance + 1 /\ next.actions = G!Now.actions
    BY <1>1, <2>1, <2>3 DEF Blocks
  <2> QED BY <1>1, <1>2, <2>2, <2>4 DEF Follows, WellSigned
<1>3. CASE gMode = "propose"
  <2>1. PICK a \in G!Unused : next = G!WithAction(a, G!Proposal(me))
    BY <1>3 DEF G!WriteBlocks
  <2>2. a \in Actions /\ G!Now.actions[a] = None
    BY <2>1 DEF G!Unused
  <2>3. /\ G!Proposal(me) \in GroupActionRecords
        /\ G!Proposal(me).by = me /\ G!Proposal(me).signers = {me}
        /\ G!Proposal(me).closed <=> (G!TotalPower({me}) >= G!Required)
    BY <1>1, ProposedAction
  <2>4. /\ next \in Blocks /\ Follows(next, G!Now) /\ WellSigned(next)
        /\ next.actions[a] = G!Proposal(me)
    BY <2>1, <2>2, <2>3, BlockWithAction
  <2> QED BY <1>3, <2>2, <2>3, <2>4, ActionIsThere
<1>4. CASE gMode = "cosign"
  <2> DEFINE action == G!Now.actions[gTarget]
  <2>1. gTarget \in G!Open(me) /\ next = G!WithAction(gTarget, G!Signed(action, me))
    BY <1>4 DEF G!WriteBlocks
  <2>2. gTarget \in Actions /\ action # None
    BY <2>1 DEF G!Open, G!Unused
  <2>3. action \in GroupActionRecords /\ (action.by = me => me \in action.signers)
    BY <1>1, <2>2 DEF Blocks, WellSigned
  <2> HIDE DEF action
  <2>4. /\ G!Signed(action, me) \in GroupActionRecords
        /\ G!Signed(action, me).by = action.by
        /\ G!Signed(action, me).signers = action.signers \cup {me}
        /\ G!Signed(action, me).closed <=> (G!TotalPower(action.signers \cup {me}) >= G!Required)
    BY <1>1, <2>3, SignedAction
  <2>5. /\ next \in Blocks /\ Follows(next, G!Now) /\ WellSigned(next)
        /\ next.actions[gTarget] = G!Signed(action, me)
    BY <2>1, <2>2, <2>3, <2>4, BlockWithAction DEF action
  <2> QED BY <1>4, <2>4, <2>5, ActionIsThere
<1> QED BY <1>2, <1>3, <1>4 DEF GroupTypes

\* More signatures have no less power.
LEMMA PowerGrows ==
  ASSUME GroupTypes, NEW some \in SUBSET GroupMembers, NEW more \in SUBSET GroupMembers,
         some \subseteq more
  PROVE  /\ G!TotalPower(some) <= G!TotalPower(more)
         /\ G!TotalPower(some) \in Int /\ G!TotalPower(more) \in Int
<1>1. gPower[me] \in 1..3 /\ gPower[you] \in 1..3
  BY DEF GroupTypes, GroupMembers
<1> QED BY <1>1 DEF G!TotalPower, G!PowerOf

LEMMA BlockAppended ==
  ASSUME GroupTypes, Blockchain, NEW next \in Blocks, Follows(next, G!Now), WellSigned(next),
         gHistory' = Append(gHistory, next), gPower' = gPower
  PROVE  /\ gHistory' \in Seq(Blocks) /\ Len(gHistory') = Len(gHistory) + 1
         /\ Len(gHistory) \in Nat /\ Len(gHistory) >= 1
         /\ \A h \in 1..Len(gHistory) : gHistory'[h] = gHistory[h]
         /\ gHistory'[Len(gHistory')] = next /\ G!Now' = next
         /\ Blockchain'
<1>1. /\ gHistory' \in Seq(Blocks) /\ Len(gHistory') = Len(gHistory) + 1
      /\ Len(gHistory) \in Nat /\ Len(gHistory) >= 1
      /\ \A h \in 1..Len(gHistory) : gHistory'[h] = gHistory[h]
      /\ gHistory'[Len(gHistory')] = next
  BY DEF GroupTypes
<1>2. G!Now' = next
  BY <1>1 DEF G!Now
<1>3. \A h \in 1..Len(gHistory') : h \in 1..Len(gHistory) \/ h = Len(gHistory')
  BY <1>1
<1>4. ASSUME NEW h \in 1..Len(gHistory')
      PROVE  WellSigned(gHistory[h])'
  <2>1. WellSigned(gHistory'[h])
    BY <1>1, <1>3 DEF Blockchain
  <2> QED BY <2>1 DEF WellSigned, G!TotalPower, G!PowerOf, G!Required
<1>5. ASSUME NEW h \in 1..Len(gHistory'), NEW k \in 1..Len(gHistory'), h <= k
      PROVE  Follows(gHistory'[k], gHistory'[h])
  <2>1. CASE k \in 1..Len(gHistory)
    <3>1. h \in 1..Len(gHistory)
      BY <1>1, <1>5, <2>1
    <3> QED BY <1>1, <1>5, <2>1, <3>1 DEF Blockchain
  <2>2. CASE k = Len(gHistory') /\ h \in 1..Len(gHistory)
    <3>1. /\ h <= Len(gHistory) /\ Len(gHistory) \in 1..Len(gHistory)
          /\ gHistory[h] \in Blocks /\ G!Now = gHistory[Len(gHistory)] /\ G!Now \in Blocks
      BY <2>2, NowIsBlock
    <3>2. Follows(G!Now, gHistory[h])
      BY <2>2, <3>1 DEF Blockchain
    <3>3. Follows(next, gHistory[h])
      BY <3>1, <3>2, FollowsFollowing
    <3> QED BY <1>1, <2>2, <3>3
  <2>3. CASE k = Len(gHistory') /\ h = Len(gHistory')
    BY <1>1, <2>3, FollowsItself
  <2> QED BY <1>3, <2>1, <2>2, <2>3
<1>6. Blockchain'
  BY <1>4, <1>5 DEF Blockchain, Follows
<1> QED BY <1>1, <1>2, <1>6

\* What an appended block does to what is remembered of earlier ones.
LEMMA KeptByBlock ==
  ASSUME GroupInv, NEW next \in Blocks, Follows(next, G!Now), WellSigned(next),
         gHistory' = Append(gHistory, next),
         UNCHANGED <<gPower, gMode, gTarget, gCrowded, gPhase, gSeen, gBefore, gTries, gReceipt>>,
         gWrite' = gWrite \/ gWrite' = "applied"
  PROVE  /\ GroupTypes' /\ Blockchain' /\ SeenInBlock' /\ BeforeHoldsProposals'
         /\ ReceiptOfWrite' /\ G!ReceiptTrue'
<1>1. /\ gHistory' \in Seq(Blocks) /\ Len(gHistory') = Len(gHistory) + 1
      /\ Len(gHistory) \in Nat /\ Len(gHistory) >= 1
      /\ \A h \in 1..Len(gHistory) : gHistory'[h] = gHistory[h]
      /\ G!Now' = next /\ Blockchain'
  BY BlockAppended DEF GroupInv
<1>2. GroupTypes'
  BY <1>1 DEF GroupInv, GroupTypes
<1>3. 1..Len(gHistory) \subseteq 1..Len(gHistory') /\ 0..Len(gHistory) \subseteq 0..Len(gHistory')
  BY <1>1
<1>4. SeenInBlock'
  BY <1>1, <1>3 DEF GroupInv, SeenInBlock, G!TotalPower, G!PowerOf
<1>5. gHistory'[1] = gHistory[1]
  BY <1>1
<1>6. BeforeHoldsProposals'
  BY <1>5 DEF GroupInv, BeforeHoldsProposals
<1>7. ReceiptOfWrite'
  BY <1>3 DEF GroupInv, ReceiptOfWrite
<1>8. ASSUME gReceipt # None
      PROVE  /\ gReceipt.by = "read" /\ gBefore.agreed /\ gMode = "propose" => gWrite' = "applied"
             /\ gReceipt.completes =>
                  \E a \in Actions : next.actions[a] # None /\ next.actions[a].closed
                                    /\ me \in next.actions[a].signers
             /\ gReceipt.provedAt > 0 =>
                  /\ gReceipt.provedAt > gSeen.height
                  /\ gMode = "direct" => G!Included(gReceipt.provedAt)'
  <2>1. gReceipt.by = "read" /\ gBefore.agreed /\ gMode = "propose" => gWrite' = "applied"
    BY <1>8 DEF GroupInv, G!ReceiptTrue
  <2>2. ASSUME gReceipt.completes
        PROVE  \E a \in Actions : next.actions[a] # None /\ next.actions[a].closed
                                 /\ me \in next.actions[a].signers
    <3>1. PICK a \in Actions : G!Now.actions[a] # None /\ G!Now.actions[a].closed
                              /\ me \in G!Now.actions[a].signers
      BY <1>8, <2>2 DEF GroupInv, G!ReceiptTrue
    <3>2. G!Now \in Blocks /\ WellSigned(G!Now) /\ GroupTypes
      BY NowIsBlock DEF GroupInv, Blockchain
    <3>3. /\ next.actions[a] # None
          /\ G!Now.actions[a].signers \in SUBSET GroupMembers
          /\ next.actions[a].signers \in SUBSET GroupMembers
          /\ G!Now.actions[a].signers \subseteq next.actions[a].signers
      BY <3>1, <3>2 DEF Follows, Blocks, GroupActionRecords
    <3>4. G!TotalPower(G!Now.actions[a].signers) >= G!Required
      BY <3>1, <3>2 DEF WellSigned
    <3>5. G!TotalPower(next.actions[a].signers) >= G!Required
      BY <3>2, <3>3, <3>4, PowerGrows DEF G!Required
    <3>6. next.actions[a].closed
      BY <3>3, <3>5 DEF WellSigned
    <3> QED BY <3>1, <3>3, <3>6
  <2>3. ASSUME gReceipt.provedAt > 0
        PROVE  /\ gReceipt.provedAt > gSeen.height
               /\ gMode = "direct" => G!Included(gReceipt.provedAt)'
    <3>1. gReceipt.provedAt \in 1..Len(gHistory)
      BY <1>1, <1>8, <2>3 DEF GroupInv, ReceiptOfWrite
    <3>2. /\ gReceipt.provedAt > gSeen.height
          /\ gMode = "direct" => G!Included(gReceipt.provedAt)
      BY <1>8, <2>3 DEF GroupInv, G!ReceiptTrue
    <3> QED BY <1>1, <3>1, <3>2 DEF G!Included
  <2> QED BY <2>1, <2>2, <2>3
<1>9. G!ReceiptTrue'
  BY <1>1, <1>8 DEF G!ReceiptTrue
<1> QED BY <1>1, <1>2, <1>4, <1>6, <1>7, <1>9

LEMMA BlockStep ==
  ASSUME GroupInv, G!Block
  PROVE  GroupInv'
<1>1. UNCHANGED <<gPower, gMode, gTarget, gCrowded, gPhase, gSeen, gBefore, gTries, gReceipt>>
  BY DEF G!Block
<1>2. ASSUME NEW next \in G!OthersBlocks, gHistory' = Append(gHistory, next), gWrite' = gWrite
      PROVE  GroupInv'
  <2>1. /\ next \in Blocks /\ Follows(next, G!Now) /\ WellSigned(next)
        /\ \A a \in Actions : next.actions[a] # None /\ next.actions[a].by = me
             => G!Now.actions[a] # None
    BY BlockOfOthers DEF GroupInv
  <2>2. /\ GroupTypes' /\ Blockchain' /\ SeenInBlock' /\ BeforeHoldsProposals'
        /\ ReceiptOfWrite' /\ G!ReceiptTrue'
    BY <1>1, <1>2, <2>1, KeptByBlock
  <2>3. /\ Len(gHistory') = Len(gHistory) + 1 /\ Len(gHistory) \in Nat /\ Len(gHistory) >= 1
        /\ \A h \in 1..Len(gHistory) : gHistory'[h] = gHistory[h]
        /\ gHistory'[Len(gHistory')] = next /\ G!Now' = next
        /\ G!Now = gHistory[Len(gHistory)]
    BY <1>1, <1>2, <2>1, BlockAppended DEF GroupInv, G!Now
  <2>4. ASSUME gWrite # "applied", NEW h \in 1..Len(gHistory'), NEW a \in Actions,
               gHistory'[h].actions[a] # None, gHistory'[h].actions[a].by = me
        PROVE  gHistory'[1].actions[a] # None
    <3>1. CASE h \in 1..Len(gHistory)
      <4>1. gHistory[1].actions[a] # None
        BY <2>3, <2>4, <3>1 DEF GroupInv, ProposedByWrite
      <4> QED BY <2>3, <4>1
    <3>2. CASE h = Len(gHistory')
      <4>1. next.actions[a] # None /\ next.actions[a].by = me
        BY <2>3, <2>4, <3>2
      <4>2. G!Now.actions[a] # None /\ G!Now.actions[a].by = me
        BY <2>1, <4>1 DEF Follows
      <4>3. Len(gHistory) \in 1..Len(gHistory)
        BY <2>3
      <4>4. gHistory[1].actions[a] # None
        BY <2>3, <2>4, <4>2, <4>3 DEF GroupInv, ProposedByWrite
      <4> QED BY <2>3, <4>4
    <3> QED BY <2>3, <3>1, <3>2
  <2>5. gWrite = "applied" /\ gMode = "propose" =>
          \E a \in Actions : next.actions[a] # None /\ next.actions[a].by = me
    BY <2>1 DEF GroupInv, ProposedByWrite, Follows
  <2>6. gWrite = "applied" /\ gMode = "cosign" =>
          next.actions[gTarget] # None /\ me \in next.actions[gTarget].signers
    BY <2>1 DEF GroupInv, GroupTypes, ProposedByWrite, Follows
  <2>7. ProposedByWrite'
    BY <1>1, <1>2, <2>3, <2>4, <2>5, <2>6 DEF GroupInv, ProposedByWrite
  <2> QED BY <2>2, <2>7 DEF GroupInv
<1>3. ASSUME NEW next \in G!WriteBlocks, gHistory' = Append(gHistory, next),
             gWrite = "sent", gWrite' = "applied"
      PROVE  GroupInv'
  <2>1. /\ next \in Blocks /\ Follows(next, G!Now) /\ WellSigned(next)
        /\ gMode = "propose" =>
             \E a \in Actions : next.actions[a] # None /\ next.actions[a].by = me
        /\ gMode = "cosign" => next.actions[gTarget] # None /\ me \in next.actions[gTarget].signers
    BY BlockOfWrite DEF GroupInv
  <2>2. /\ GroupTypes' /\ Blockchain' /\ SeenInBlock' /\ BeforeHoldsProposals'
        /\ ReceiptOfWrite' /\ G!ReceiptTrue'
    BY <1>1, <1>3, <2>1, KeptByBlock
  <2>3. G!Now' = next
    BY <1>1, <1>3, <2>1, BlockAppended DEF GroupInv
  <2>4. ProposedByWrite'
    BY <1>1, <1>3, <2>1, <2>3 DEF GroupInv, ProposedByWrite
  <2> QED BY <2>2, <2>4 DEF GroupInv
<1>4. ASSUME gWrite = "sent", gWrite' = "refused", gHistory' = gHistory
      PROVE  GroupInv'
  <2>1. GroupTypes' /\ SeenInBlock' /\ BeforeHoldsProposals' /\ ReceiptOfWrite'
    BY <1>1, <1>4 DEF GroupInv, GroupTypes, SeenInBlock, BeforeHoldsProposals, ReceiptOfWrite,
       G!TotalPower, G!PowerOf
  <2>2. Blockchain'
    BY <1>1, <1>4 DEF GroupInv, Blockchain, Follows, WellSigned, G!TotalPower, G!PowerOf,
       G!Required
  <2>3. ProposedByWrite'
    BY <1>1, <1>4 DEF GroupInv, ProposedByWrite, G!Now
  <2>4. G!ReceiptTrue'
    BY <1>1, <1>4 DEF GroupInv, G!ReceiptTrue, G!Now, G!Included
  <2> QED BY <2>1, <2>2, <2>3, <2>4 DEF GroupInv
<1> QED BY <1>2, <1>3, <1>4 DEF G!Block

LEMMA InitGroups == G!Init => GroupInv
<1> SUFFICES ASSUME G!Init PROVE GroupInv
  OBVIOUS
<1>1. PICK a \in Actions, action \in {None, G!Proposal(me), G!Proposal(you)} :
        /\ gTarget = a
        /\ gHistory = <<[actions |-> [b \in Actions |-> IF b = a THEN action ELSE None],
                         balance |-> 1, others |-> 0]>>
  BY DEF G!Init
<1> DEFINE block == [actions |-> [b \in Actions |-> IF b = a THEN action ELSE None],
                     balance |-> 1, others |-> 0]
<1>2. /\ gPower \in [GroupMembers -> 1..3] /\ gMode \in {"direct", "propose", "cosign"}
      /\ gPhase = "signing" /\ gSeen = None /\ gBefore = None /\ gWrite = None
      /\ gReceipt = None
  BY DEF G!Init, GroupMembers
<1>3. ASSUME action # None
      PROVE  /\ action \in GroupActionRecords
             /\ action.closed <=> (G!TotalPower(action.signers) >= G!Required)
             /\ action.by = me => me \in action.signers
  <2>1. PICK id \in GroupMembers : action = G!Proposal(id)
    BY <1>3 DEF GroupMembers
  <2> QED BY <2>1, ProposedAction
<1>4. block \in Blocks
  BY <1>3 DEF Blocks
<1>5. WellSigned(block)
  BY <1>3 DEF WellSigned
<1>6. Follows(block, block)
  BY <1>4, FollowsItself
<1> HIDE DEF block
<1>7. gHistory = <<block>> /\ Len(gHistory) = 1 /\ gHistory[1] = block
      /\ \A h \in 1..Len(gHistory) : h = 1
  BY <1>1 DEF block
<1>8. GroupTypes
  BY <1>1, <1>2, <1>4, <1>7 DEF GroupTypes
<1>9. Blockchain
  BY <1>5, <1>6, <1>7 DEF Blockchain
<1>10. ProposedByWrite
  BY <1>2, <1>7, WritesAssumption DEF ProposedByWrite
<1>11. SeenInBlock /\ BeforeHoldsProposals /\ ReceiptOfWrite /\ G!ReceiptTrue
  BY <1>2 DEF SeenInBlock, BeforeHoldsProposals, ReceiptOfWrite, G!ReceiptTrue
<1> QED BY <1>8, <1>9, <1>10, <1>11 DEF GroupInv

\* Steps that leave the blocks alone.
LEMMA SameChain ==
  ASSUME GroupInv, UNCHANGED <<gHistory, gPower, gMode, gTarget>>,
         gPhase' \in {"signing", "checked", "ready", "submitted", "confirming", "balances",
                      "done", "failed", "unknown"}
  PROVE  /\ GroupTypes' /\ Blockchain' /\ G!Now' = G!Now
         /\ gSeen' = gSeen /\ gPhase \notin {"signing", "failed"} => SeenInBlock'
<1>1. GroupTypes' /\ G!Now' = G!Now
  BY DEF GroupInv, GroupTypes, G!Now
<1>2. Blockchain'
  BY DEF GroupInv, Blockchain, Follows, WellSigned, G!TotalPower, G!PowerOf, G!Required
<1>3. gSeen' = gSeen /\ gPhase \notin {"signing", "failed"} => SeenInBlock'
  BY DEF GroupInv, SeenInBlock, G!TotalPower, G!PowerOf
<1> QED BY <1>1, <1>2, <1>3

LEMMA SnapshotStep ==
  ASSUME GroupInv, NEW h \in G!Heights, G!Snapshot(h)
  PROVE  GroupInv'
<1>1. /\ gPhase = "signing" /\ gPhase' \in {"failed", "ready", "checked"}
      /\ UNCHANGED <<gHistory, gPower, gMode, gTarget, gCrowded, gBefore, gWrite, gTries, gReceipt>>
  BY DEF G!Snapshot
<1>2. GroupTypes' /\ Blockchain' /\ G!Now' = G!Now
  BY <1>1, SameChain
<1>3. ProposedByWrite'
  BY <1>1, <1>2 DEF GroupInv, ProposedByWrite
<1>4. SeenInBlock'
  <2> SUFFICES ASSUME gPhase' # "failed" PROVE SeenInBlock'
    BY DEF SeenInBlock
  <2>1. LET action == gHistory[h].actions[gTarget] IN
        /\ gMode = "cosign" => action # None /\ me \notin action.signers
        /\ gSeen' = [height |-> h, balance |-> gHistory[h].balance,
                     power |-> IF gMode = "cosign" THEN G!TotalPower(action.signers) ELSE 0,
                     others |-> gHistory[h].others]
    BY DEF G!Snapshot
  <2>2. h \in 1..Len(gHistory)
    BY DEF G!Heights
  <2> QED BY <1>1, <2>1, <2>2 DEF SeenInBlock, G!TotalPower, G!PowerOf
<1>5. BeforeHoldsProposals' /\ ReceiptOfWrite' /\ G!ReceiptTrue'
  BY <1>1 DEF GroupInv, BeforeHoldsProposals, ReceiptOfWrite, G!ReceiptTrue
<1> QED BY <1>2, <1>3, <1>4, <1>5 DEF GroupInv

\* What a read of both pages holds has the signer's signature, and where it is of one
\* block, and misses nothing, everything the signer had proposed before.
LEMMA MatchingReads ==
  ASSUME GroupInv, NEW read \in G!Reads
  PROVE  /\ \A a \in read.signed :
              a \in Actions /\ G!Now.actions[a] # None /\ me \in G!Now.actions[a].signers
         /\ read.agreed /\ read.complete =>
              \A a \in Actions :
                gHistory[1].actions[a] # None /\ gHistory[1].actions[a].by = me
                  => a \in read.signed
<1>1. PICK h \in G!Heights, k \in G!Heights, s \in G!Heights, hidden \in {{}, Actions} :
        read = G!MatchingRead(h, k, s, hidden)
  BY DEF G!Reads
<1>2. /\ read.agreed = (h = k /\ k = s) /\ read.complete = (gCrowded = {})
      /\ read.signed = (G!Page("ACTIVE", h, s) \ (IF "ACTIVE" \in gCrowded THEN hidden ELSE {}))
           \cup (G!Page("CLOSED", k, s) \ (IF "CLOSED" \in gCrowded THEN hidden ELSE {}))
  BY <1>1 DEF G!MatchingRead
<1>3. /\ s \in 1..Len(gHistory) /\ gHistory[s] \in Blocks /\ 1 \in 1..Len(gHistory)
      /\ Follows(G!Now, gHistory[s]) /\ Follows(gHistory[s], gHistory[1])
      /\ WellSigned(gHistory[s])
  <2>1. s \in 1..Len(gHistory) /\ Len(gHistory) \in 1..Len(gHistory) /\ Len(gHistory) \in Nat
        /\ gHistory[s] \in Blocks /\ G!Now = gHistory[Len(gHistory)]
    BY NowIsBlock DEF GroupInv, G!Heights
  <2>2. 1 \in 1..Len(gHistory) /\ 1 <= s /\ s <= Len(gHistory)
    BY <2>1
  <2> QED BY <2>1, <2>2 DEF GroupInv, Blockchain
<1>4. ASSUME NEW a \in read.signed
      PROVE  a \in Actions /\ G!Now.actions[a] # None /\ me \in G!Now.actions[a].signers
  <2>1. a \in Actions /\ gHistory[s].actions[a] # None /\ me \in gHistory[s].actions[a].signers
    BY <1>2, <1>4 DEF G!Page
  <2> QED BY <1>3, <2>1 DEF Follows
<1>5. ASSUME read.agreed, read.complete, NEW a \in Actions, gHistory[1].actions[a] # None,
             gHistory[1].actions[a].by = me
      PROVE  a \in read.signed
  <2>1. h = k /\ k = s /\ gCrowded = {}
    BY <1>2, <1>5
  <2>2. /\ gHistory[s].actions[a] # None /\ me \in gHistory[s].actions[a].signers
        /\ gHistory[s].actions[a].closed \in BOOLEAN
    BY <1>3, <1>5 DEF Follows, WellSigned, Blocks, GroupActionRecords
  <2>3. a \in G!Page("ACTIVE", s, s) \/ a \in G!Page("CLOSED", s, s)
    BY <2>2 DEF G!Page
  <2> QED BY <1>2, <2>1, <2>3
<1> QED BY <1>4, <1>5

LEMMA ReadBeforeStep ==
  ASSUME GroupInv, NEW read \in G!Reads, G!ReadBefore(read)
  PROVE  GroupInv'
<1>1. /\ gPhase = "checked" /\ gPhase' \in {"failed", "ready"} /\ gBefore' = read
      /\ UNCHANGED <<gHistory, gPower, gMode, gTarget, gCrowded, gSeen, gWrite, gTries, gReceipt>>
  BY DEF G!ReadBefore
<1>2. GroupTypes' /\ Blockchain' /\ G!Now' = G!Now /\ SeenInBlock'
  BY <1>1, SameChain
<1>3. ProposedByWrite'
  BY <1>1, <1>2 DEF GroupInv, ProposedByWrite
<1>4. BeforeHoldsProposals'
  BY <1>1, MatchingReads DEF BeforeHoldsProposals
<1>5. ReceiptOfWrite' /\ G!ReceiptTrue'
  BY <1>1 DEF GroupInv, ReceiptOfWrite, G!ReceiptTrue
<1> QED BY <1>2, <1>3, <1>4, <1>5 DEF GroupInv

LEMMA WaitingSteps ==
  ASSUME GroupInv, G!Submit \/ G!Refused \/ G!LosesTrack
  PROVE  GroupInv'
<1>1. /\ gPhase \in {"ready", "submitted"}
      /\ gPhase' \in {"submitted", "failed", "confirming", "unknown"}
      /\ gPhase' = "confirming" => gBefore # None /\ gBefore.complete
      /\ UNCHANGED <<gHistory, gPower, gMode, gTarget, gCrowded, gSeen, gBefore, gReceipt>>
      /\ gWrite' = gWrite \/ (gPhase = "ready" /\ gWrite' = "sent")
  BY DEF G!Submit, G!Refused, G!LosesTrack, G!UsableBefore
<1>2. GroupTypes' /\ Blockchain' /\ G!Now' = G!Now /\ SeenInBlock'
  BY <1>1, SameChain
<1>3. ProposedByWrite'
  BY <1>1, <1>2 DEF GroupInv, ProposedByWrite
<1>4. BeforeHoldsProposals' /\ ReceiptOfWrite' /\ G!ReceiptTrue'
  BY <1>1 DEF GroupInv, BeforeHoldsProposals, ReceiptOfWrite, G!ReceiptTrue
<1> QED BY <1>2, <1>3, <1>4 DEF GroupInv

\* With the signer's signature there, on top of those seen, the action has executed.
LEMMA Completed ==
  ASSUME GroupInv, gPhase \in {"submitted", "confirming"}, gMode # "direct", G!Completes,
         gMode = "cosign" => G!Now.actions[gTarget] # None /\ me \in G!Now.actions[gTarget].signers,
         gMode = "propose" =>
           \E a \in Actions : G!Now.actions[a] # None /\ G!Now.actions[a].by = me
  PROVE  \E a \in Actions : G!Now.actions[a] # None /\ G!Now.actions[a].closed
                           /\ me \in G!Now.actions[a].signers
<1>1. G!Now \in Blocks /\ WellSigned(G!Now) /\ GroupTypes
  BY NowIsBlock DEF GroupInv, Blockchain
<1>2. CASE gMode = "cosign"
  <2> DEFINE seen == gHistory[gSeen.height].actions[gTarget]
             now == G!Now.actions[gTarget]
  <2>1. /\ gSeen.height \in 1..Len(gHistory) /\ seen # None /\ me \notin seen.signers
        /\ gSeen.power = G!TotalPower(seen.signers)
    BY <1>2 DEF GroupInv, SeenInBlock
  <2>2. /\ Len(gHistory) \in 1..Len(gHistory) /\ gSeen.height <= Len(gHistory)
        /\ gHistory[gSeen.height] \in Blocks /\ G!Now = gHistory[Len(gHistory)]
    BY <1>1, <2>1, NowIsBlock
  <2>3. Follows(G!Now, gHistory[gSeen.height])
    BY <2>1, <2>2 DEF GroupInv, Blockchain
  <2>4. /\ now # None /\ me \in now.signers /\ gTarget \in Actions
        /\ seen.signers \subseteq now.signers
        /\ seen.signers \in SUBSET GroupMembers /\ now.signers \in SUBSET GroupMembers
    BY <1>1, <1>2, <2>1, <2>2, <2>3 DEF Follows, Blocks, GroupActionRecords, GroupTypes
  <2> HIDE DEF seen, now
  <2>5. G!TotalPower(now.signers) >= G!TotalPower(seen.signers) + gPower[me]
        /\ G!TotalPower(seen.signers) \in Int /\ gPower[me] \in Int
    BY <1>1, <2>1, <2>4, PowerAdds
  <2>6. G!TotalPower(now.signers) \in Int
    BY <1>1, <2>4, PowerGrows
  <2>7. G!TotalPower(now.signers) >= G!Required
    BY <2>1, <2>5, <2>6 DEF G!Completes, G!Required
  <2>8. now.closed
    BY <1>1, <2>4, <2>7 DEF WellSigned, now
  <2> QED BY <2>4, <2>8 DEF now
<1>3. CASE gMode = "propose"
  <2>1. PICK a \in Actions : G!Now.actions[a] # None /\ G!Now.actions[a].by = me
    BY <1>3
  <2> DEFINE now == G!Now.actions[a]
  <2>2. now # None /\ me \in now.signers /\ now.signers \in SUBSET GroupMembers
    BY <1>1, <2>1 DEF WellSigned, Blocks, GroupActionRecords
  <2>3. gSeen.power = 0
    BY <1>3 DEF GroupInv, SeenInBlock
  <2> HIDE DEF now
  <2>4. G!TotalPower(now.signers) >= G!TotalPower({}) + gPower[me]
        /\ G!TotalPower({}) \in Int /\ gPower[me] \in Int
    <3>1. {} \in SUBSET GroupMembers /\ {} \subseteq now.signers /\ me \notin {}
      OBVIOUS
    <3> QED BY <1>1, <2>2, <3>1, PowerAdds
  <2>5. G!TotalPower({}) = 0 /\ G!TotalPower(now.signers) \in Int
    BY <1>1, <2>2, PowerGrows DEF G!TotalPower, G!PowerOf
  <2>6. G!TotalPower(now.signers) >= G!Required
    BY <2>3, <2>4, <2>5 DEF G!Completes, G!Required
  <2>7. now.closed
    BY <1>1, <2>2, <2>6 DEF WellSigned, now
  <2> QED BY <2>2, <2>7 DEF now
<1> QED BY <1>1, <1>2, <1>3 DEF GroupTypes

\* The step that reports the write, as confirmed by the SDK or by a read.
LEMMA ReceiptStep ==
  ASSUME GroupInv, NEW by \in {"sdk", "read"}, gPhase \in {"submitted", "confirming"},
         gPhase' = "balances", gReceipt' = G!Receipt(by),
         UNCHANGED <<gHistory, gPower, gMode, gTarget, gCrowded, gSeen, gBefore, gWrite>>,
         by = "read" /\ gBefore.agreed /\ gMode = "propose" => gWrite = "applied",
         gMode = "cosign" => G!Now.actions[gTarget] # None /\ me \in G!Now.actions[gTarget].signers,
         gMode = "propose" =>
           \E a \in Actions : G!Now.actions[a] # None /\ G!Now.actions[a].by = me
  PROVE  GroupInv'
<1>1. GroupTypes' /\ Blockchain' /\ G!Now' = G!Now /\ SeenInBlock'
  BY SameChain
<1>2. ProposedByWrite'
  BY <1>1 DEF GroupInv, ProposedByWrite
<1>3. BeforeHoldsProposals'
  BY DEF GroupInv, BeforeHoldsProposals
<1>4. gReceipt'.by = by /\ gReceipt'.provedAt = 0
      /\ (gReceipt'.completes => gMode # "direct" /\ G!Completes)
      /\ gReceipt' \in [by : {"sdk", "read"}, completes : BOOLEAN, provedAt : {0}]
  BY DEF G!Receipt
<1>5. ReceiptOfWrite'
  <2>1. 0 \in 0..Len(gHistory)
    BY NowIsBlock DEF GroupInv
  <2>2. gReceipt' \in [by : {"sdk", "read"}, completes : BOOLEAN, provedAt : 0..Len(gHistory)]
    BY <1>4, <2>1
  <2> QED BY <2>2 DEF ReceiptOfWrite
<1>6. G!ReceiptTrue'
  BY <1>1, <1>4, Completed DEF G!ReceiptTrue
<1> QED BY <1>1, <1>2, <1>3, <1>5, <1>6 DEF GroupInv

LEMMA AnsweredStep ==
  ASSUME GroupInv, G!Answered
  PROVE  GroupInv'
<1>1. /\ gPhase = "submitted" /\ gWrite = "applied" /\ gPhase' = "balances"
      /\ gReceipt' = G!Receipt("sdk")
      /\ UNCHANGED <<gHistory, gPower, gMode, gTarget, gCrowded, gSeen, gBefore, gWrite>>
  BY DEF G!Answered
<1>2. /\ gMode = "cosign" => G!Now.actions[gTarget] # None /\ me \in G!Now.actions[gTarget].signers
      /\ gMode = "propose" =>
           \E a \in Actions : G!Now.actions[a] # None /\ G!Now.actions[a].by = me
  BY <1>1 DEF GroupInv, ProposedByWrite
<1> QED BY <1>1, <1>2, ReceiptStep

LEMMA ReadAfterStep ==
  ASSUME GroupInv, NEW after \in G!Reads, G!ReadAfter(after)
  PROVE  GroupInv'
<1>1. /\ gPhase = "confirming"
      /\ UNCHANGED <<gHistory, gPower, gMode, gTarget, gCrowded, gSeen, gBefore, gWrite>>
  BY DEF G!ReadAfter
<1>2. CASE gPhase' = "balances" /\ gReceipt' = G!Receipt("read") /\ G!Shows(after)
  <2>1. \A a \in G!Added(after) :
          /\ a \in Actions /\ G!Now.actions[a] # None /\ me \in G!Now.actions[a].signers
          /\ a \notin gBefore.signed
    BY MatchingReads DEF G!Added
  <2>2. gMode = "cosign" =>
          G!Now.actions[gTarget] # None /\ me \in G!Now.actions[gTarget].signers
    BY <1>2, <2>1 DEF G!Shows
  <2>3. gMode = "propose" =>
          \E a \in Actions : /\ G!Now.actions[a] # None /\ G!Now.actions[a].by = me
                             /\ a \notin gBefore.signed
    <3> SUFFICES ASSUME gMode = "propose"
                 PROVE  \E a \in Actions : /\ G!Now.actions[a] # None /\ G!Now.actions[a].by = me
                                           /\ a \notin gBefore.signed
      OBVIOUS
    <3>1. G!ProposedByMe(G!Added(after)) # {}
      BY <1>2 DEF G!Shows
    <3> QED BY <2>1, <3>1 DEF G!ProposedByMe
  <2>4. gBefore.agreed /\ gMode = "propose" => gWrite = "applied"
    <3> SUFFICES ASSUME gBefore.agreed, gMode = "propose", gWrite # "applied" PROVE FALSE
      OBVIOUS
    <3>1. PICK a \in Actions : /\ G!Now.actions[a] # None /\ G!Now.actions[a].by = me
                               /\ a \notin gBefore.signed
      BY <2>3
    <3>2. /\ Len(gHistory) \in 1..Len(gHistory) /\ G!Now = gHistory[Len(gHistory)]
          /\ 1 \in 1..Len(gHistory) /\ 1 <= Len(gHistory)
      <4>1. Len(gHistory) \in 1..Len(gHistory) /\ G!Now = gHistory[Len(gHistory)]
            /\ Len(gHistory) \in Nat
        BY NowIsBlock DEF GroupInv
      <4> QED BY <4>1
    <3>3. gHistory[1].actions[a] # None
      BY <3>1, <3>2 DEF GroupInv, ProposedByWrite
    <3>4. Follows(G!Now, gHistory[1])
      BY <3>2 DEF GroupInv, Blockchain
    <3>5. gHistory[1].actions[a].by = me
      BY <3>1, <3>3, <3>4 DEF Follows
    <3>6. gBefore # None /\ gBefore.complete
      BY <1>1 DEF GroupInv, BeforeHoldsProposals
    <3> QED BY <3>1, <3>3, <3>5, <3>6 DEF GroupInv, BeforeHoldsProposals
  <2> QED BY <1>1, <1>2, <2>2, <2>3, <2>4, ReceiptStep
<1>3. CASE gPhase' \in {"unknown", "confirming"} /\ gReceipt' = gReceipt
  <2>1. GroupTypes' /\ Blockchain' /\ G!Now' = G!Now /\ SeenInBlock'
    BY <1>1, <1>3, SameChain
  <2>2. ProposedByWrite'
    BY <1>1, <1>3, <2>1 DEF GroupInv, ProposedByWrite
  <2>3. BeforeHoldsProposals'
    BY <1>1 DEF GroupInv, BeforeHoldsProposals
  <2>4. ReceiptOfWrite' /\ G!ReceiptTrue'
    BY <1>1, <1>3 DEF GroupInv, ReceiptOfWrite, G!ReceiptTrue
  <2> QED BY <2>1, <2>2, <2>3, <2>4 DEF GroupInv
<1> QED BY <1>1, <1>2, <1>3 DEF G!ReadAfter

\* The proof of a block after the snapshot: in a direct write, with a balance that grew, by
\* what others did or by the write.
LEMMA ReadBalancesStep ==
  ASSUME GroupInv, NEW h \in G!Heights, G!ReadBalances(h)
  PROVE  GroupInv'
<1>1. /\ gPhase = "balances" /\ gPhase' \in {"done", "balances"}
      /\ UNCHANGED <<gHistory, gPower, gMode, gTarget, gCrowded, gSeen, gBefore, gWrite>>
      /\ gReceipt' = gReceipt
         \/ (G!Settled(h) /\ gPhase' = "done" /\ gReceipt' = [gReceipt EXCEPT !.provedAt = h])
  BY DEF G!ReadBalances
<1>2. GroupTypes' /\ Blockchain' /\ G!Now' = G!Now /\ SeenInBlock'
  BY <1>1, SameChain
<1>3. ProposedByWrite'
  BY <1>1, <1>2 DEF GroupInv, ProposedByWrite
<1>4. BeforeHoldsProposals'
  BY <1>1 DEF GroupInv, BeforeHoldsProposals
<1>5. /\ gReceipt \in [by : {"sdk", "read"}, completes : BOOLEAN, provedAt : 0..Len(gHistory)]
      /\ h \in 1..Len(gHistory) /\ h \in 0..Len(gHistory)
  <2>1. h \in 1..Len(gHistory) /\ Len(gHistory) \in Nat
    BY NowIsBlock DEF GroupInv, G!Heights
  <2>2. h \in 0..Len(gHistory)
    BY <2>1
  <2> QED BY <1>1, <2>1, <2>2 DEF GroupInv, ReceiptOfWrite
<1>6. CASE gReceipt' = gReceipt
  <2>1. ReceiptOfWrite'
    BY <1>1, <1>5, <1>6 DEF GroupInv, ReceiptOfWrite
  <2>2. G!ReceiptTrue'
    BY <1>1, <1>2, <1>6 DEF GroupInv, G!ReceiptTrue, G!Included
  <2> QED BY <1>2, <1>3, <1>4, <2>1, <2>2 DEF GroupInv
<1>7. CASE G!Settled(h) /\ gPhase' = "done" /\ gReceipt' = [gReceipt EXCEPT !.provedAt = h]
  <2>1. /\ gReceipt' \in [by : {"sdk", "read"}, completes : BOOLEAN, provedAt : 0..Len(gHistory)]
        /\ gReceipt'.by = gReceipt.by /\ gReceipt'.completes = gReceipt.completes
        /\ gReceipt'.provedAt = h
    BY <1>5, <1>7
  <2>2. ReceiptOfWrite'
    BY <1>1, <1>7, <2>1 DEF ReceiptOfWrite
  <2>8. h > gSeen.height
    BY <1>7 DEF G!Settled
  <2>3. gMode = "direct" => G!Included(h)
    <3> SUFFICES ASSUME gMode = "direct" PROVE G!Included(h)
      OBVIOUS
    <3>1. /\ gSeen.height \in 1..Len(gHistory) /\ gSeen.balance = gHistory[gSeen.height].balance
          /\ gSeen.others = gHistory[gSeen.height].others
          /\ h > gSeen.height /\ gHistory[h].balance # gSeen.balance
      BY <1>1, <1>7 DEF GroupInv, SeenInBlock, G!Settled
    <3>2. gHistory[h] \in Blocks /\ gHistory[gSeen.height] \in Blocks /\ gSeen.height <= h
      BY <1>5, <3>1, NowIsBlock DEF GroupInv
    <3>3. Follows(gHistory[h], gHistory[gSeen.height])
      BY <1>5, <3>1, <3>2 DEF GroupInv, Blockchain
    <3>4. /\ gHistory[h].balance \in Int /\ gHistory[gSeen.height].balance \in Int
          /\ gHistory[h].others \in Int /\ gHistory[gSeen.height].others \in Int
      BY <3>2 DEF Blocks
    <3>5. gHistory[gSeen.height].balance <= gHistory[h].balance
      BY <3>3 DEF Follows
    <3> QED BY <3>1, <3>4, <3>5 DEF G!Included
  <2>4. ASSUME gReceipt # None
        PROVE  /\ gReceipt.by = "read" /\ gBefore.agreed /\ gMode = "propose"
                    => gWrite = "applied"
               /\ gReceipt.completes =>
                    \E a \in Actions : G!Now.actions[a] # None /\ G!Now.actions[a].closed
                                      /\ me \in G!Now.actions[a].signers
    BY <2>4 DEF GroupInv, G!ReceiptTrue
  <2>5. gReceipt # None
    <3>1. 0..Len(gHistory) \subseteq Nat
      BY NowIsBlock DEF GroupInv
    <3>2. gReceipt \in [by : {"sdk", "read"}, completes : BOOLEAN, provedAt : Nat]
      BY <1>5, <3>1
    <3>3. None \notin [by : {"sdk", "read"}, completes : BOOLEAN, provedAt : Nat]
      BY WritesAssumption
    <3> QED BY <3>2, <3>3
  <2>6. G!ReceiptTrue'
    BY <1>1, <1>2, <2>1, <2>3, <2>4, <2>5, <2>8 DEF G!ReceiptTrue, G!Included
  <2> QED BY <1>2, <1>3, <1>4, <2>2, <2>6 DEF GroupInv
<1> QED BY <1>1, <1>6, <1>7

LEMMA NextGroups ==
  ASSUME GroupInv, G!Next
  PROVE  GroupInv'
BY SnapshotStep, ReadBalancesStep, ReadBeforeStep, ReadAfterStep, WaitingSteps, AnsweredStep,
   BlockStep DEF G!Next

-----------------------------------------------------------------------------
(* Executors.                                                              *)

\* The steps an envelope tells apart; the others are local, or read Platform.
Turns == {"resolve", "prepare", "submit", "wait"}

IsScript(s) == \E steps : s \in Seq(steps)

Has(s, what) == \E i \in 1..Len(s) : s[i].do = what

\* No step that does `late` comes before one that does `early`.
InOrder(s, early, late) ==
  \A i, j \in 1..Len(s) : s[i].do = early /\ s[j].do = late => i < j

IsLocal(s) == IsScript(s) /\ \A i \in 1..Len(s) : s[i].do \notin Turns

\* The body of an envelope: it writes, and has no other turn.
IsWrite(s) ==
  /\ IsScript(s) /\ Has(s, "submit")
  /\ \A i \in 1..Len(s) : s[i].do \notin Turns \ {"submit"}

LEMMA ConcatSteps ==
  ASSUME NEW s, NEW t, IsScript(s), IsScript(t)
  PROVE  /\ IsScript(s \o t)
         /\ Len(s) \in Nat /\ Len(t) \in Nat /\ Len(s \o t) = Len(s) + Len(t)
         /\ \A i \in 1..(Len(s) + Len(t)) :
              (s \o t)[i] = IF i <= Len(s) THEN s[i] ELSE t[i - Len(s)]
<1>1. PICK S, R : s \in Seq(S) /\ t \in Seq(R)
  BY DEF IsScript
<1>2. s \in Seq(S \cup R) /\ t \in Seq(S \cup R)
  BY <1>1
<1>3. s \o t \in Seq(S \cup R) /\ Len(s \o t) = Len(s) + Len(t) /\ Len(s) \in Nat /\ Len(t) \in Nat
  BY <1>2
<1>4. \A i \in 1..(Len(s) + Len(t)) : (s \o t)[i] = IF i <= Len(s) THEN s[i] ELSE t[i - Len(s)]
  BY <1>2
<1> QED BY <1>3, <1>4 DEF IsScript

LEMMA LocalConcat == \A s, t : IsLocal(s) /\ IsLocal(t) => IsLocal(s \o t)
<1> SUFFICES ASSUME NEW s, NEW t, IsLocal(s), IsLocal(t) PROVE IsLocal(s \o t)
  OBVIOUS
<1>1. IsScript(s) /\ IsScript(t)
  BY DEF IsLocal
<1>2. ASSUME NEW i \in 1..Len(s \o t) PROVE (s \o t)[i].do \notin Turns
  <2>1. i \in 1..(Len(s) + Len(t)) /\ Len(s) \in Nat /\ Len(t) \in Nat
        /\ (s \o t)[i] = IF i <= Len(s) THEN s[i] ELSE t[i - Len(s)]
    BY <1>1, ConcatSteps
  <2> QED BY <2>1 DEF IsLocal
<1> QED BY <1>1, <1>2, ConcatSteps DEF IsLocal

LEMMA LocalWrite == \A s, t : IsLocal(s) /\ IsWrite(t) => IsWrite(s \o t)
<1> SUFFICES ASSUME NEW s, NEW t, IsLocal(s), IsWrite(t) PROVE IsWrite(s \o t)
  OBVIOUS
<1>1. IsScript(s) /\ IsScript(t)
  BY DEF IsLocal, IsWrite
<1>2. ASSUME NEW i \in 1..Len(s \o t) PROVE (s \o t)[i].do \notin Turns \ {"submit"}
  <2>1. i \in 1..(Len(s) + Len(t)) /\ Len(s) \in Nat /\ Len(t) \in Nat
        /\ (s \o t)[i] = IF i <= Len(s) THEN s[i] ELSE t[i - Len(s)]
    BY <1>1, ConcatSteps
  <2> QED BY <2>1 DEF IsLocal, IsWrite
<1>3. Has(s \o t, "submit")
  <2>1. PICK j \in 1..Len(t) : t[j].do = "submit"
    BY DEF IsWrite, Has
  <2>2. j + Len(s) \in 1..(Len(s) + Len(t)) /\ Len(s \o t) = Len(s) + Len(t)
        /\ (s \o t)[j + Len(s)] = t[j]
    BY <1>1, ConcatSteps
  <2> QED BY <2>1, <2>2 DEF Has
<1> QED BY <1>1, <1>2, <1>3, ConcatSteps DEF IsWrite

LEMMA LocalTuples ==
  /\ \A a : a.do \notin Turns => IsLocal(<<a>>)
  /\ \A a, b : a.do \notin Turns /\ b.do \notin Turns => IsLocal(<<a, b>>)
  /\ \A a, b, c : a.do \notin Turns /\ b.do \notin Turns /\ c.do \notin Turns
       => IsLocal(<<a, b, c>>)
  /\ \A a, b, c, d : {a.do, b.do, c.do, d.do} \cap Turns = {}
       => IsLocal(<<a, b, c, d>>)
<1>1. ASSUME NEW a, a.do \notin Turns PROVE IsLocal(<<a>>)
  <2>1. <<a>> \in Seq({a}) /\ Len(<<a>>) = 1 /\ \A i \in 1..1 : <<a>>[i] = a
    OBVIOUS
  <2> QED BY <1>1, <2>1 DEF IsLocal, IsScript
<1>2. ASSUME NEW a, NEW b, a.do \notin Turns, b.do \notin Turns PROVE IsLocal(<<a, b>>)
  <2>1. <<a, b>> \in Seq({a, b}) /\ Len(<<a, b>>) = 2 /\ \A i \in 1..2 : <<a, b>>[i] \in {a, b}
    OBVIOUS
  <2> QED BY <1>2, <2>1 DEF IsLocal, IsScript
<1>3. ASSUME NEW a, NEW b, NEW c, a.do \notin Turns, b.do \notin Turns, c.do \notin Turns
      PROVE  IsLocal(<<a, b, c>>)
  <2>1. /\ <<a, b, c>> \in Seq({a, b, c}) /\ Len(<<a, b, c>>) = 3
        /\ \A i \in 1..3 : <<a, b, c>>[i] \in {a, b, c}
    OBVIOUS
  <2> QED BY <1>3, <2>1 DEF IsLocal, IsScript
<1>4. ASSUME NEW a, NEW b, NEW c, NEW d,
             a.do \notin Turns, b.do \notin Turns, c.do \notin Turns, d.do \notin Turns
      PROVE  IsLocal(<<a, b, c, d>>)
  <2>1. /\ <<a, b, c, d>> \in Seq({a, b, c, d}) /\ Len(<<a, b, c, d>>) = 4
        /\ \A i \in 1..4 : <<a, b, c, d>>[i] \in {a, b, c, d}
    OBVIOUS
  <2> QED BY <1>4, <2>1 DEF IsLocal, IsScript
<1> QED BY <1>1, <1>2, <1>3, <1>4

LEMMA IsWriteOf ==
  ASSUME NEW steps, NEW s \in Seq(steps), \E n \in 1..Len(s) : s[n] = E!Submit,
         \A i \in 1..Len(s) : s[i] = E!Submit \/ s[i].do \notin Turns
  PROVE  IsWrite(s)
<1>1. E!Submit.do = "submit" /\ E!Submit.do \notin Turns \ {"submit"}
  BY DEF E!Submit, E!Do
<1>2. Has(s, "submit")
  BY <1>1 DEF Has
<1>3. \A i \in 1..Len(s) : s[i].do \notin Turns \ {"submit"}
  BY <1>1
<1> QED BY <1>2, <1>3 DEF IsWrite, IsScript

LEMMA WriteTuples ==
  ASSUME NEW a, a.do \notin Turns, NEW b, b.do \notin Turns, NEW c, c.do \notin Turns
  PROVE  /\ IsWrite(<<E!Submit>>) /\ IsWrite(<<E!Submit, a>>)
         /\ IsWrite(<<a, E!Submit>>) /\ IsWrite(<<a, E!Submit, b>>)
         /\ IsWrite(<<a, b, E!Submit>>) /\ IsWrite(<<a, b, E!Submit, c>>)
         /\ IsWrite(<<a, b, c, E!Submit>>)
<1> DEFINE w == E!Submit
<1>1. IsWrite(<<w>>)
  <2> HIDE DEF w
  <2>1. <<w>> \in Seq({w}) /\ Len(<<w>>) = 1 /\ <<w>>[1] = w
        /\ \A i \in 1..1 : <<w>>[i] \in {w}
    OBVIOUS
  <2>2. \E n \in 1..Len(<<w>>) : <<w>>[n] = w
    BY <2>1
  <2>3. \A i \in 1..Len(<<w>>) : <<w>>[i] = w \/ <<w>>[i].do \notin Turns
    BY <2>1
  <2> QED BY <2>1, <2>2, <2>3, IsWriteOf DEF w
<1>2. IsWrite(<<w, a>>)
  <2> HIDE DEF w
  <2>1. <<w, a>> \in Seq({a, w}) /\ Len(<<w, a>>) = 2 /\ <<w, a>>[1] = w
        /\ \A i \in 1..2 : <<w, a>>[i] \in {a, w}
    OBVIOUS
  <2>2. \E n \in 1..Len(<<w, a>>) : <<w, a>>[n] = w
    BY <2>1
  <2>3. \A i \in 1..Len(<<w, a>>) : <<w, a>>[i] = w \/ <<w, a>>[i].do \notin Turns
    BY <2>1
  <2> QED BY <2>1, <2>2, <2>3, IsWriteOf DEF w
<1>3. IsWrite(<<a, w>>)
  <2> HIDE DEF w
  <2>1. <<a, w>> \in Seq({a, w}) /\ Len(<<a, w>>) = 2 /\ <<a, w>>[2] = w
        /\ \A i \in 1..2 : <<a, w>>[i] \in {a, w}
    OBVIOUS
  <2>2. \E n \in 1..Len(<<a, w>>) : <<a, w>>[n] = w
    BY <2>1
  <2>3. \A i \in 1..Len(<<a, w>>) : <<a, w>>[i] = w \/ <<a, w>>[i].do \notin Turns
    BY <2>1
  <2> QED BY <2>1, <2>2, <2>3, IsWriteOf DEF w
<1>4. IsWrite(<<a, w, b>>)
  <2> HIDE DEF w
  <2>1. <<a, w, b>> \in Seq({a, b, w}) /\ Len(<<a, w, b>>) = 3 /\ <<a, w, b>>[2] = w
        /\ \A i \in 1..3 : <<a, w, b>>[i] \in {a, b, w}
    OBVIOUS
  <2>2. \E n \in 1..Len(<<a, w, b>>) : <<a, w, b>>[n] = w
    BY <2>1
  <2>3. \A i \in 1..Len(<<a, w, b>>) : <<a, w, b>>[i] = w \/ <<a, w, b>>[i].do \notin Turns
    BY <2>1
  <2> QED BY <2>1, <2>2, <2>3, IsWriteOf DEF w
<1>5. IsWrite(<<a, b, w>>)
  <2> HIDE DEF w
  <2>1. <<a, b, w>> \in Seq({a, b, w}) /\ Len(<<a, b, w>>) = 3 /\ <<a, b, w>>[3] = w
        /\ \A i \in 1..3 : <<a, b, w>>[i] \in {a, b, w}
    OBVIOUS
  <2>2. \E n \in 1..Len(<<a, b, w>>) : <<a, b, w>>[n] = w
    BY <2>1
  <2>3. \A i \in 1..Len(<<a, b, w>>) : <<a, b, w>>[i] = w \/ <<a, b, w>>[i].do \notin Turns
    BY <2>1
  <2> QED BY <2>1, <2>2, <2>3, IsWriteOf DEF w
<1>6. IsWrite(<<a, b, w, c>>)
  <2> HIDE DEF w
  <2>1. <<a, b, w, c>> \in Seq({a, b, c, w}) /\ Len(<<a, b, w, c>>) = 4 /\ <<a, b, w, c>>[3] = w
        /\ \A i \in 1..4 : <<a, b, w, c>>[i] \in {a, b, c, w}
    OBVIOUS
  <2>2. \E n \in 1..Len(<<a, b, w, c>>) : <<a, b, w, c>>[n] = w
    BY <2>1
  <2>3. \A i \in 1..Len(<<a, b, w, c>>) : <<a, b, w, c>>[i] = w \/ <<a, b, w, c>>[i].do \notin Turns
    BY <2>1
  <2> QED BY <2>1, <2>2, <2>3, IsWriteOf DEF w
<1>7. IsWrite(<<a, b, c, w>>)
  <2> HIDE DEF w
  <2>1. <<a, b, c, w>> \in Seq({a, b, c, w}) /\ Len(<<a, b, c, w>>) = 4 /\ <<a, b, c, w>>[4] = w
        /\ \A i \in 1..4 : <<a, b, c, w>>[i] \in {a, b, c, w}
    OBVIOUS
  <2>2. \E n \in 1..Len(<<a, b, c, w>>) : <<a, b, c, w>>[n] = w
    BY <2>1
  <2>3. \A i \in 1..Len(<<a, b, c, w>>) : <<a, b, c, w>>[i] = w \/ <<a, b, c, w>>[i].do \notin Turns
    BY <2>1
  <2> QED BY <2>1, <2>2, <2>3, IsWriteOf DEF w
<1> QED BY <1>1, <1>2, <1>3, <1>4, <1>5, <1>6, <1>7

LEMMA LocalSteps == \A of : /\ E!Check(of).do \notin Turns /\ E!Read(of).do \notin Turns
                           /\ E!Load(of).do \notin Turns /\ E!Own(of).do \notin Turns
BY DEF Turns, E!Check, E!Read, E!Load, E!Own

\* Steps that come before the write, by what they get.
LEMMA LocalParts ==
  /\ IsLocal(E!InputKey) /\ IsLocal(E!NewIdentity) /\ IsLocal(E!AddedKeys)
  /\ IsLocal(E!NextRevision) /\ IsLocal(E!AssetLockKey) /\ IsLocal(E!VoterKey)
  /\ \A key : IsLocal(E!WithPrivateKey(key))
<1>1. IsLocal(E!InputKey)
  BY LocalTuples, LocalSteps DEF E!InputKey, E!LoadAddressSigner
<1>2. IsLocal(E!NewIdentity)
  BY LocalTuples, LocalSteps DEF E!NewIdentity, E!LoadNewKeys
<1>3. IsLocal(E!AddedKeys) /\ IsLocal(E!NextRevision)
  BY LocalTuples, LocalSteps DEF E!AddedKeys, E!NextRevision
<1>4. \A key : IsLocal(E!WithPrivateKey(key))
  BY LocalTuples, LocalSteps DEF E!WithPrivateKey
<1>5. IsLocal(E!AssetLockKey)
  BY <1>4, LocalConcat, LocalTuples, LocalSteps
     DEF E!AssetLockKey, E!AssetLockTransaction, E!CreditOutput
<1>6. IsLocal(E!VoterKey)
  BY LocalTuples, LocalSteps DEF E!VoterKey
<1> QED BY <1>1, <1>2, <1>3, <1>4, <1>5, <1>6

\* Of the operations signed with keys of the form, every script but the raw broadcast's.
LEMMA FormScripts ==
  \A id \in E!FormSigned \ {"stateTransitions.broadcast"} : IsWrite(E!Script(id))
<1>1. \A body : IsWrite(body) => IsWrite(E!FormEnvelope(body))
  BY LocalTuples, LocalSteps, LocalWrite DEF E!FormEnvelope
<1>2. IsWrite(E!AddressTransfer)
  BY <1>1, LocalConcat, LocalWrite, LocalParts, LocalTuples, LocalSteps, WriteTuples
     DEF E!AddressTransfer, E!Spendable, E!Balances
<1>3. IsWrite(E!AddressTopUpIdentity)
  BY <1>1, LocalConcat, LocalWrite, LocalParts, LocalTuples, LocalSteps, WriteTuples
     DEF E!AddressTopUpIdentity, E!Spendable, E!Balances, E!ExistingIdentity
<1>4. IsWrite(E!AddressWithdraw)
  BY <1>1, LocalConcat, LocalWrite, LocalParts, LocalTuples, LocalSteps, WriteTuples
     DEF E!AddressWithdraw, E!Spendable, E!Balances
<1>5. IsWrite(E!AddressFundFromAssetLock)
  BY <1>1, LocalConcat, LocalWrite, LocalParts, LocalTuples, LocalSteps, WriteTuples
     DEF E!AddressFundFromAssetLock, E!Balances
<1>6. IsWrite(E!AddressCreateIdentity)
  BY <1>1, LocalConcat, LocalWrite, LocalParts, LocalTuples, LocalSteps, WriteTuples
     DEF E!AddressCreateIdentity, E!Spendable
<1>7. IsWrite(E!IdentityCreate)
  BY <1>1, LocalConcat, LocalWrite, LocalParts, LocalTuples, LocalSteps, WriteTuples
     DEF E!IdentityCreate
<1>8. IsWrite(E!IdentityTopUp)
  BY <1>1, LocalConcat, LocalWrite, LocalParts, LocalTuples, LocalSteps, WriteTuples
     DEF E!IdentityTopUp, E!ExistingIdentity
<1>9. IsWrite(E!MasternodeVote)
  BY <1>1, LocalConcat, LocalWrite, LocalParts, LocalTuples, LocalSteps, WriteTuples
     DEF E!MasternodeVote
<1> QED BY <1>2, <1>3, <1>4, <1>5, <1>6, <1>7, <1>8, <1>9 DEF E!FormSigned, E!Script

\* The scripts of the operations signed with the connected signer's key.
LEMMA MaterialScripts ==
  \A id \in E!IdentitySigned \ E!TokenOperations :
    \E body : IsWrite(body) /\ E!Script(id) = E!MaterialEnvelope(body)
<1> DEFINE Enveloped(s) == \E body : IsWrite(body) /\ s = E!MaterialEnvelope(body)
<1>1. \A body : IsWrite(body) => Enveloped(E!MaterialEnvelope(body))
  OBVIOUS
<1> HIDE DEF Enveloped
<1>2. Enveloped(E!ContractRegister) /\ Enveloped(E!ContractUpdate)
  BY <1>1, LocalSteps, WriteTuples DEF E!ContractRegister, E!ContractUpdate
<1>3. Enveloped(E!DocumentCreate) /\ Enveloped(E!DocumentReplace) /\ Enveloped(E!DocumentDelete)
  BY <1>1, LocalSteps, WriteTuples DEF E!DocumentCreate, E!DocumentReplace, E!DocumentDelete
<1>4. /\ Enveloped(E!DocumentTransfer) /\ Enveloped(E!DocumentSetPrice)
      /\ Enveloped(E!DocumentPurchase)
  BY <1>1, LocalSteps, WriteTuples, LocalParts, LocalWrite
     DEF E!DocumentTransfer, E!DocumentSetPrice, E!DocumentPurchase
<1>5. Enveloped(E!CreditTransfer) /\ Enveloped(E!CreditWithdrawal) /\ Enveloped(E!DpnsRegister)
  BY <1>1, LocalSteps, WriteTuples
     DEF E!CreditTransfer, E!CreditWithdrawal, E!DpnsRegister, E!ExistingIdentity
<1>6. Enveloped(E!UpdateKeys)
  BY <1>1, LocalSteps, LocalTuples, WriteTuples, LocalParts, LocalConcat, LocalWrite
     DEF E!UpdateKeys, E!ExistingIdentity
<1>7. Enveloped(E!AddressTransferFromIdentity)
  BY <1>1, LocalSteps, WriteTuples
     DEF E!AddressTransferFromIdentity, E!ExistingIdentity, E!Balances
<1>8. \A id \in E!IdentitySigned \ E!TokenOperations : Enveloped(E!Script(id))
  BY <1>2, <1>3, <1>4, <1>5, <1>6, <1>7
     DEF E!IdentitySigned, E!TokenOperations, E!DocumentOperations, E!TransferKeyTokens,
         E!AuthenticationTokens, E!Script
<1> QED BY <1>8 DEF Enveloped

\* The criteria of a call can be pinned to the reviewed key.
Pinnable(wanted) == \A key : [wanted EXCEPT !.keyId = key].keyId = key

\* What a call has done, and the steps it has left for the rest: the key is prepared before
\* it is used, the criteria before the key, and the write before its result is awaited.
ScriptInv ==
  /\ IsScript(eRest)
  /\ InOrder(eRest, "resolve", "prepare")
  /\ InOrder(eRest, "prepare", "submit")
  /\ InOrder(eRest, "submit", "wait")
  /\ Has(eRest, "resolve") => eOp \in E!IdentitySigned \ E!TokenOperations
  /\ Has(eRest, "prepare") => eReviewed # None
  /\ Has(eRest, "resolve") \/ ~Has(eRest, "prepare") \/ Pinnable(eCriteria)
  /\ Has(eRest, "prepare") \/ eMaterial = eReviewed
  /\ Has(eRest, "submit") \/ eSent
  /\ Has(eRest, IF eElsewhere THEN "wait" ELSE "submit") \/ eExecuted

ExecutorInv ==
  /\ eElsewhere \in BOOLEAN
  /\ eHeld \subseteq eGuarded \cup eOwned
  /\ eSent => eSubmitted
  /\ eMaterial \in {None, eReviewed}
  /\ eVerdict = "running" => ScriptInv

LEMMA TailSteps ==
  ASSUME NEW s, IsScript(s), s # <<>>
  PROVE  /\ IsScript(Tail(s))
         /\ Has(s, Head(s).do)
         /\ \A what : Has(Tail(s), what) => Has(s, what)
         /\ \A what : Has(s, what) => Head(s).do = what \/ Has(Tail(s), what)
         /\ \A early, late : InOrder(s, early, late) => InOrder(Tail(s), early, late)
         /\ \A early : early # Head(s).do /\ InOrder(s, early, Head(s).do) => ~Has(s, early)
<1>1. PICK steps : s \in Seq(steps)
  BY DEF IsScript
<1>2. /\ Tail(s) \in Seq(steps) /\ Len(s) \in Nat /\ Len(s) >= 1 /\ Len(Tail(s)) = Len(s) - 1
      /\ Head(s) = s[1] /\ \A i \in 1..(Len(s) - 1) : Tail(s)[i] = s[i + 1]
  BY <1>1
<1>3. Has(s, Head(s).do)
  BY <1>2 DEF Has
<1>4. ASSUME NEW what, Has(Tail(s), what) PROVE Has(s, what)
  <2>1. PICK i \in 1..(Len(s) - 1) : Tail(s)[i].do = what
    BY <1>2, <1>4 DEF Has
  <2>2. i + 1 \in 1..Len(s) /\ s[i + 1].do = what
    BY <1>2, <2>1
  <2> QED BY <2>2 DEF Has
<1>5. ASSUME NEW what, Has(s, what), Head(s).do # what PROVE Has(Tail(s), what)
  <2>1. PICK i \in 1..Len(s) : s[i].do = what
    BY <1>5 DEF Has
  <2>2. i # 1
    BY <1>2, <1>5, <2>1
  <2>3. i - 1 \in 1..(Len(s) - 1) /\ (i - 1) + 1 = i
    BY <1>2, <2>1, <2>2
  <2>4. Tail(s)[i - 1].do = what
    BY <1>2, <2>1, <2>3
  <2> QED BY <1>2, <2>3, <2>4 DEF Has
<1>6. ASSUME NEW early, NEW late, InOrder(s, early, late) PROVE InOrder(Tail(s), early, late)
  <2> SUFFICES ASSUME NEW i \in 1..Len(Tail(s)), NEW j \in 1..Len(Tail(s)),
                      Tail(s)[i].do = early, Tail(s)[j].do = late
               PROVE  i < j
    BY DEF InOrder
  <2>1. i \in 1..(Len(s) - 1) /\ j \in 1..(Len(s) - 1)
    BY <1>2
  <2>2. i + 1 \in 1..Len(s) /\ j + 1 \in 1..Len(s) /\ s[i + 1].do = early /\ s[j + 1].do = late
    BY <1>2, <2>1
  <2>3. i + 1 < j + 1
    BY <1>6, <2>2 DEF InOrder
  <2> QED BY <2>1, <2>3
<1>7. ASSUME NEW early, early # Head(s).do, InOrder(s, early, Head(s).do) PROVE ~Has(s, early)
  <2> SUFFICES ASSUME NEW i \in 1..Len(s), s[i].do = early PROVE FALSE
    BY DEF Has
  <2>1. i < 1
    BY <1>2, <1>7 DEF InOrder
  <2> QED BY <2>1, <1>2
<1> QED BY <1>1, <1>2, <1>3, <1>4, <1>5, <1>6, <1>7 DEF IsScript

LEMMA Turning == /\ "resolve" \in Turns /\ "prepare" \in Turns /\ "submit" \in Turns
                 /\ "wait" \in Turns
BY DEF Turns

\* An envelope of a write resolves, prepares and submits, in this order.
LEMMA EnvelopeOfWrite ==
  ASSUME NEW body, IsWrite(body)
  PROVE  /\ IsScript(E!MaterialEnvelope(body))
         /\ InOrder(E!MaterialEnvelope(body), "resolve", "prepare")
         /\ InOrder(E!MaterialEnvelope(body), "prepare", "submit")
         /\ InOrder(E!MaterialEnvelope(body), "submit", "wait")
         /\ Has(E!MaterialEnvelope(body), "resolve") /\ Has(E!MaterialEnvelope(body), "prepare")
         /\ Has(E!MaterialEnvelope(body), "submit")
<1> DEFINE a == E!Check("signer")  r == E!Do("resolve")  p == E!Do("prepare")
           o == E!Own("identity")
           c == E!Check("material is of the reviewed identity and key")
           v == E!Read("protocol version")
           first == <<a, r, p, o, c, v>>
           s == E!MaterialEnvelope(body)
<1>1. /\ a.do \notin Turns /\ o.do \notin Turns /\ c.do \notin Turns /\ v.do \notin Turns
      /\ r.do = "resolve" /\ p.do = "prepare"
  BY LocalSteps DEF E!Do
<1>2. s = first \o body
  BY DEF E!MaterialEnvelope
<1> HIDE DEF a, r, p, o, c, v, s
<1>3. /\ first \in Seq({a, r, p, o, c, v}) /\ Len(first) = 6 /\ first[2] = r /\ first[3] = p
      /\ first[1] = a /\ first[4] = o /\ first[5] = c /\ first[6] = v
  OBVIOUS
<1> HIDE DEF first
<1>4. /\ IsScript(s) /\ Len(body) \in Nat /\ Len(s) = 6 + Len(body)
      /\ \A i \in 1..(6 + Len(body)) : s[i] = IF i <= 6 THEN first[i] ELSE body[i - 6]
  <2>1. IsScript(first) /\ IsScript(body)
    BY <1>3 DEF IsScript, IsWrite
  <2>2. /\ IsScript(first \o body) /\ Len(body) \in Nat
        /\ Len(first \o body) = Len(first) + Len(body)
        /\ \A i \in 1..(Len(first) + Len(body)) :
             (first \o body)[i] = IF i <= Len(first) THEN first[i] ELSE body[i - Len(first)]
    BY <2>1, ConcatSteps
  <2> QED BY <1>2, <1>3, <2>2
<1>5. \A i \in 1..Len(s) :
        /\ s[i].do = "resolve" => i = 2
        /\ s[i].do = "prepare" => i = 3
        /\ s[i].do = "submit" => i > 6
        /\ s[i].do # "wait"
  <2> SUFFICES ASSUME NEW i \in 1..Len(s)
               PROVE  /\ s[i].do = "resolve" => i = 2
                      /\ s[i].do = "prepare" => i = 3
                      /\ s[i].do = "submit" => i > 6
                      /\ s[i].do # "wait"
    OBVIOUS
  <2>1. CASE i > 6
    <3>1. i - 6 \in 1..Len(body) /\ s[i] = body[i - 6]
      BY <1>4, <2>1
    <3>2. s[i].do \notin Turns \ {"submit"}
      BY <3>1 DEF IsWrite
    <3> QED BY <2>1, <3>2, Turning
  <2>2. CASE ~(i > 6)
    <3>1. i \in 1..6 /\ s[i] = first[i]
      BY <1>4, <2>2
    <3> QED BY <1>1, <1>3, <3>1, Turning
  <2> QED BY <2>1, <2>2
<1>6. Has(s, "resolve") /\ Has(s, "prepare")
  <2>1. 2 \in 1..Len(s) /\ 3 \in 1..Len(s) /\ s[2] = r /\ s[3] = p
    BY <1>3, <1>4
  <2> QED BY <1>1, <2>1 DEF Has
<1>7. Has(s, "submit")
  <2>1. PICK j \in 1..Len(body) : body[j].do = "submit"
    BY DEF IsWrite, Has
  <2>2. j + 6 \in 1..Len(s) /\ s[j + 6] = body[j]
    BY <1>4
  <2> QED BY <2>1, <2>2 DEF Has
<1>8. /\ InOrder(s, "resolve", "prepare") /\ InOrder(s, "prepare", "submit")
      /\ InOrder(s, "submit", "wait")
  BY <1>4, <1>5 DEF InOrder
<1> QED BY <1>4, <1>6, <1>7, <1>8 DEF s

LEMMA InitExecutors == E!Init => ExecutorInv
<1> SUFFICES ASSUME E!Init PROVE ExecutorInv
  OBVIOUS
<1>1. /\ eOp \in (E!FormSigned \cup E!IdentitySigned) \ E!TokenOperations
      /\ eRest = E!Script(eOp) /\ eMaterial = None
      /\ eElsewhere = (eOp = "stateTransitions.broadcast")
  BY DEF E!Init
<1>2. eElsewhere \in BOOLEAN /\ eHeld = {} /\ eSent = FALSE
  BY DEF E!Init
<1>3. CASE eOp \in E!FormSigned \ {"stateTransitions.broadcast"}
  <2>1. IsWrite(eRest) /\ eReviewed = None /\ ~eElsewhere
    BY <1>1, <1>3, FormScripts DEF E!Init
  <2>2. /\ IsScript(eRest) /\ Has(eRest, "submit")
        /\ ~Has(eRest, "resolve") /\ ~Has(eRest, "prepare") /\ ~Has(eRest, "wait")
    BY <2>1, Turning DEF IsWrite, Has
  <2>3. /\ InOrder(eRest, "resolve", "prepare") /\ InOrder(eRest, "prepare", "submit")
        /\ InOrder(eRest, "submit", "wait")
    BY <2>2 DEF Has, InOrder
  <2> QED BY <1>1, <1>2, <2>1, <2>2, <2>3 DEF ExecutorInv, ScriptInv
<1>4. CASE eOp = "stateTransitions.broadcast"
  <2> DEFINE c == E!Check("transition")  w == E!Submit  t == E!Do("wait")  r == E!Check("result")
  <2>1. /\ c.do = "check" /\ w.do = "submit" /\ t.do = "wait" /\ r.do = "check"
        /\ eRest = <<c, w, t, r>>
    BY <1>1, <1>4 DEF E!Check, E!Submit, E!Do, E!Script, E!RawBroadcast
  <2> HIDE DEF c, w, t, r
  <2>2. /\ <<c, w, t, r>> \in Seq({c, w, t, r}) /\ Len(eRest) = 4
        /\ eRest[1] = c /\ eRest[2] = w /\ eRest[3] = t /\ eRest[4] = r
    BY <2>1
  <2>3. /\ IsScript(eRest) /\ Has(eRest, "submit") /\ Has(eRest, "wait")
        /\ ~Has(eRest, "resolve") /\ ~Has(eRest, "prepare")
    <3>1. IsScript(eRest)
      BY <2>1, <2>2 DEF IsScript
    <3>2. 2 \in 1..Len(eRest) /\ 3 \in 1..Len(eRest)
      BY <2>2
    <3>3. \A i \in 1..Len(eRest) : eRest[i] \in {c, w, t, r}
      BY <2>1, <2>2
    <3>4. Has(eRest, "submit") /\ Has(eRest, "wait")
      BY <2>1, <2>2, <3>2 DEF Has
    <3>5. ~Has(eRest, "resolve") /\ ~Has(eRest, "prepare")
      BY <2>1, <3>3 DEF Has
    <3> QED BY <3>1, <3>4, <3>5
  <2>4. /\ InOrder(eRest, "resolve", "prepare") /\ InOrder(eRest, "prepare", "submit")
    BY <2>3 DEF Has, InOrder
  <2>5. InOrder(eRest, "submit", "wait")
    BY <2>1, <2>2 DEF InOrder
  <2>6. eReviewed = None
    BY <1>4 DEF E!Init, E!FormSigned
  <2> QED BY <1>1, <1>2, <1>4, <2>3, <2>4, <2>5, <2>6 DEF ExecutorInv, ScriptInv
<1>5. CASE eOp \notin E!FormSigned
  <2>1. PICK body : IsWrite(body) /\ eRest = E!MaterialEnvelope(body)
    BY <1>1, <1>5, MaterialScripts
  <2>2. ~eElsewhere
    BY <1>1, <1>5 DEF E!FormSigned
  <2>3. eReviewed # None
    <3>1. PICK key \in E!selectSigningKey(SignerKeys, E!resolveSigningCriteria(eOp, eInput)) :
            eReviewed = key.id
      BY <1>5 DEF E!Init
    <3>2. key \in SignerKeys
      BY <3>1 DEF E!selectSigningKey, E!Eligible
    <3> QED BY <3>1, <3>2, WritesAssumption
  <2>4. eOp \in E!IdentitySigned \ E!TokenOperations
    BY <1>1, <1>5
  <2> QED BY <1>1, <1>2, <2>1, <2>2, <2>3, <2>4, EnvelopeOfWrite DEF ExecutorInv, ScriptInv
<1> QED BY <1>1, <1>3, <1>4, <1>5

\* A step of an envelope that is over ends it: what is left is only what the promise says.
LEMMA EndStep ==
  ASSUME ExecutorInv, NEW outcome, outcome # "running", E!End(outcome)
  PROVE  ExecutorInv'
BY DEF ExecutorInv, E!End, E!fixed, E!world

\* A step that leaves the script and what it has done, and may only send or execute.
LEMMA SameScript ==
  ASSUME ExecutorInv, UNCHANGED <<eOp, eReviewed, eElsewhere, eRest, eMaterial, eHeld, eGuarded,
                                  eOwned, eCriteria, eVerdict>>,
         eSent' => eSubmitted', eSent => eSent', eExecuted => eExecuted'
  PROVE  ExecutorInv'
<1>1. eVerdict = "running" => ScriptInv'
  BY DEF ExecutorInv, ScriptInv
<1> QED BY <1>1 DEF ExecutorInv

\* A step of the script that is no turn of it.
LEMMA LocalStep ==
  ASSUME ExecutorInv, eVerdict = "running", eRest # <<>>, Head(eRest).do \notin Turns,
         E!Done, eHeld' \subseteq eGuarded' \cup eOwned',
         UNCHANGED <<eOp, eReviewed, eElsewhere, eMaterial, eCriteria, eSubmitted, eSent,
                     eExecuted, eVerdict>>
  PROVE  ExecutorInv'
<1>1. /\ IsScript(eRest') /\ InOrder(eRest', "resolve", "prepare")
      /\ InOrder(eRest', "prepare", "submit") /\ InOrder(eRest', "submit", "wait")
  BY TailSteps DEF ExecutorInv, ScriptInv, E!Done
<1>2. \A what \in Turns : Has(eRest', what) <=> Has(eRest, what)
  BY TailSteps DEF ExecutorInv, ScriptInv, E!Done
<1>3. ScriptInv'
  BY <1>1, <1>2, Turning DEF ExecutorInv, ScriptInv
<1> QED BY <1>3 DEF ExecutorInv

\* What a document or a transfer asks for has a place for the reviewed key.
LEMMA CriteriaPinnable ==
  ASSUME NEW id \in E!IdentitySigned \ E!TokenOperations, NEW given
  PROVE  Pinnable(E!resolveSigningCriteria(id, given))
<1>1. PICK purposes, levels : E!operationRequirement(id) = E!Declare(purposes, levels)
  BY DEF E!operationRequirement, E!IdentitySigned, E!TokenOperations
<1> DEFINE base == E!operationRequirement(id)
<1>2. /\ base = [purposes |-> purposes, levels |-> levels, target |-> None, keyId |-> None]
      /\ id \notin E!TokenOperations
  BY <1>1 DEF E!Declare
<1> HIDE DEF base
<1>3. CASE id \in E!DocumentOperations
  <2>1. E!resolveSigningCriteria(id, given)
          = [base EXCEPT !.levels = E!documentSecurityLevels(given.required),
                         !.target = [contract |-> given.contract, type |-> given.type]]
    BY <1>2, <1>3 DEF E!resolveSigningCriteria, base, E!DocumentOperations
  <2> QED BY <1>2, <2>1 DEF Pinnable
<1>4. CASE id = "dpns.registerName"
  <2>1. E!resolveSigningCriteria(id, given)
          = [base EXCEPT !.target = [contract |-> c2, type |-> None]]
    BY <1>2, <1>4 DEF E!resolveSigningCriteria, base, E!DocumentOperations
  <2> QED BY <1>2, <2>1 DEF Pinnable
<1>5. CASE id = "identity.creditWithdrawal"
  <2>1. E!resolveSigningCriteria(id, given)
          = [base EXCEPT !.purposes = {IF given.toAddress THEN "TRANSFER" ELSE "OWNER"}]
    BY <1>2, <1>5 DEF E!resolveSigningCriteria, base, E!DocumentOperations
  <2> QED BY <1>2, <2>1 DEF Pinnable
<1>6. CASE id \notin E!DocumentOperations \cup {"dpns.registerName", "identity.creditWithdrawal"}
  <2>1. E!resolveSigningCriteria(id, given) = base
    BY <1>2, <1>6 DEF E!resolveSigningCriteria, base
  <2> QED BY <1>2, <2>1 DEF Pinnable
<1> QED BY <1>3, <1>4, <1>5, <1>6

LEMMA ResolveStep ==
  ASSUME ExecutorInv, E!Resolve
  PROVE  ExecutorInv'
<1>1. /\ eVerdict = "running" /\ eRest # <<>> /\ Head(eRest).do = "resolve" /\ E!Done
      /\ eCriteria' = E!resolveSigningCriteria(eOp, eInput)
      /\ UNCHANGED <<eOp, eReviewed, eElsewhere, eMaterial, eHeld, eGuarded, eOwned, eSubmitted,
                     eSent, eExecuted, eVerdict>>
  BY DEF E!Resolve, E!Next0, E!Running, E!fixed, E!world
<1>2. /\ IsScript(eRest') /\ InOrder(eRest', "resolve", "prepare")
      /\ InOrder(eRest', "prepare", "submit") /\ InOrder(eRest', "submit", "wait")
  BY <1>1, TailSteps DEF ExecutorInv, ScriptInv, E!Done
<1>3. /\ Has(eRest, "resolve") /\ (Has(eRest', "resolve") => Has(eRest, "resolve"))
      /\ \A what \in Turns \ {"resolve"} : Has(eRest', what) <=> Has(eRest, what)
  BY <1>1, TailSteps DEF ExecutorInv, ScriptInv, E!Done
<1>4. Pinnable(eCriteria')
  BY <1>1, <1>3, CriteriaPinnable DEF ExecutorInv, ScriptInv
<1>5. ScriptInv'
  BY <1>1, <1>2, <1>3, <1>4, Turning DEF ExecutorInv, ScriptInv
<1> QED BY <1>1, <1>5 DEF ExecutorInv

LEMMA PrepareStep ==
  ASSUME ExecutorInv, E!Prepare
  PROVE  ExecutorInv' /\ eMaterial' = eReviewed
<1>1. /\ eVerdict = "running" /\ eRest # <<>> /\ Head(eRest).do = "prepare" /\ E!Done
      /\ eHeld' = eHeld \cup {"identity"} /\ eGuarded' = eGuarded \cup {"identity"}
      /\ UNCHANGED <<eOp, eReviewed, eElsewhere, eOwned, eCriteria, eSubmitted, eSent,
                     eExecuted, eVerdict>>
  BY DEF E!Prepare, E!Next0, E!Running, E!fixed, E!world
<1>2. /\ IsScript(eRest') /\ InOrder(eRest', "resolve", "prepare")
      /\ InOrder(eRest', "prepare", "submit") /\ InOrder(eRest', "submit", "wait")
  BY <1>1, TailSteps DEF ExecutorInv, ScriptInv, E!Done
<1>3. /\ Has(eRest, "prepare") /\ (Has(eRest', "prepare") => Has(eRest, "prepare"))
      /\ \A what \in Turns \ {"prepare"} : Has(eRest', what) <=> Has(eRest, what)
      /\ ~Has(eRest, "resolve")
  BY <1>1, TailSteps DEF ExecutorInv, ScriptInv, E!Done
<1>4. eReviewed # None /\ E!Pinned.keyId = eReviewed
  BY <1>1, <1>3 DEF ExecutorInv, ScriptInv, E!Pinned, Pinnable
<1>5. eMaterial' = eReviewed
  <2>1. PICK key \in E!selectSigningKey(eOnChain, E!Pinned) : eMaterial' = key.id
    BY DEF E!Prepare
  <2>2. E!MeetsIgnoringBounds(key, E!Pinned)
    BY <2>1 DEF E!selectSigningKey, E!Eligible, E!keyMeetsCriteria
  <2> QED BY <1>4, <2>1, <2>2 DEF E!MeetsIgnoringBounds
<1>6. ScriptInv'
  BY <1>1, <1>2, <1>3, <1>4, <1>5, Turning DEF ExecutorInv, ScriptInv
<1>7. eHeld' \subseteq eGuarded' \cup eOwned'
  BY <1>1 DEF ExecutorInv
<1> QED BY <1>1, <1>5, <1>6, <1>7 DEF ExecutorInv

\* The SDK has answered: it has sent, and for a write call Platform has executed.
LEMMA AnswerStep ==
  ASSUME ExecutorInv, E!SdkAnswers
  PROVE  ExecutorInv'
<1>1. /\ eVerdict = "running" /\ eRest # <<>> /\ Head(eRest).do = "submit" /\ E!Done
      /\ eSent /\ (eExecuted \/ eElsewhere)
      /\ UNCHANGED <<eOp, eReviewed, eElsewhere, eMaterial, eHeld, eGuarded, eOwned, eCriteria,
                     eSubmitted, eSent, eExecuted, eVerdict>>
  BY DEF E!SdkAnswers, E!InWrite, E!Next0, E!Running, E!fixed, E!world
<1>2. /\ IsScript(eRest') /\ InOrder(eRest', "resolve", "prepare")
      /\ InOrder(eRest', "prepare", "submit") /\ InOrder(eRest', "submit", "wait")
  BY <1>1, TailSteps DEF ExecutorInv, ScriptInv, E!Done
<1>3. \A what \in Turns \ {"submit"} : Has(eRest', what) <=> Has(eRest, what)
  BY <1>1, TailSteps DEF ExecutorInv, ScriptInv, E!Done
<1>4. ScriptInv'
  BY <1>1, <1>2, <1>3, Turning DEF ExecutorInv, ScriptInv
<1> QED BY <1>1, <1>4 DEF ExecutorInv

\* The result was awaited and Platform has executed.
LEMMA WaitStep ==
  ASSUME ExecutorInv, E!WaitAnswers
  PROVE  ExecutorInv'
<1>1. CASE /\ eVerdict = "running" /\ eRest # <<>> /\ Head(eRest).do = "wait"
           /\ eExecuted /\ E!Done
           /\ UNCHANGED <<eOp, eReviewed, eElsewhere, eMaterial, eHeld, eGuarded, eOwned,
                          eCriteria, eSubmitted, eSent, eExecuted, eVerdict>>
  <2>1. /\ IsScript(eRest') /\ InOrder(eRest', "resolve", "prepare")
        /\ InOrder(eRest', "prepare", "submit") /\ InOrder(eRest', "submit", "wait")
    BY <1>1, TailSteps DEF ExecutorInv, ScriptInv, E!Done
  <2>2. \A what \in Turns \ {"wait"} : Has(eRest', what) <=> Has(eRest, what)
    BY <1>1, TailSteps DEF ExecutorInv, ScriptInv, E!Done
  <2>3. ScriptInv'
    BY <1>1, <2>1, <2>2, Turning DEF ExecutorInv, ScriptInv
  <2> QED BY <1>1, <2>3 DEF ExecutorInv
<1>2. CASE E!End("affected") \/ E!End("unknown")
  BY <1>2, EndStep
<1> QED BY <1>1, <1>2 DEF E!WaitAnswers, E!Next0, E!Running, E!fixed, E!world

LEMMA NextExecutors ==
  ASSUME ExecutorInv, E!Next
  PROVE  ExecutorInv'
<1>1. CASE E!Pass \/ E!LoadKey \/ E!OwnKey
  <2>1. /\ eVerdict = "running" /\ eRest # <<>> /\ Head(eRest).do \in {"check", "load", "own"}
        /\ E!Done
        /\ UNCHANGED <<eOp, eReviewed, eElsewhere, eMaterial, eCriteria, eSubmitted, eSent,
                       eExecuted, eVerdict>>
    BY <1>1 DEF E!Pass, E!LoadKey, E!OwnKey, E!Next0, E!Running, E!fixed, E!world
  <2>2. eHeld' \subseteq eGuarded' \cup eOwned'
    BY <1>1 DEF E!Pass, E!LoadKey, E!OwnKey, ExecutorInv
  <2>3. Head(eRest).do \notin Turns
    BY <2>1 DEF Turns
  <2> QED BY <2>1, <2>2, <2>3, LocalStep
<1>2. CASE E!Refuse \/ E!ResolveFails \/ E!PrepareFails \/ E!StaleSession
  BY <1>2, EndStep DEF E!Refuse, E!ResolveFails, E!PrepareFails, E!StaleSession, E!Throw
<1>3. CASE E!SdkRefuses \/ E!SdkFails \/ E!Return
  BY <1>3, EndStep DEF E!SdkRefuses, E!SdkFails, E!Return
<1>4. CASE E!EnterWrite \/ E!SdkSends \/ E!Executes \/ E!DisableKey \/ E!ChangeContract
           \/ E!LeaveSession
  BY <1>4, SameScript
     DEF E!EnterWrite, E!SdkSends, E!Executes, E!DisableKey, E!ChangeContract, E!LeaveSession,
         E!InWrite, E!fixed, E!world, E!script, ExecutorInv
<1> QED BY <1>1, <1>2, <1>3, <1>4, ResolveStep, PrepareStep, AnswerStep, WaitStep DEF E!Next

-----------------------------------------------------------------------------
(* Every step of an executor is one that its promise allows, or none of it. *)

promiseVars == <<eReviewed, eElsewhere, eHeld, eMaterial, eSent, eExecuted, eVerdict>>

LEMMA EndReports ==
  ASSUME ExecutorInv, eVerdict = "running", NEW outcome, E!End(outcome), outcome # "running",
         outcome = "notSubmitted" => ~eSent,
         outcome = "affected" => eSent, outcome = "done" => eExecuted
  PROVE  E!Promise!Report
<1>1. eHeld' = {}
  BY DEF ExecutorInv, E!End
<1> QED BY <1>1 DEF E!Promise!Report, E!Promise!Running, E!End, E!fixed, E!world

LEMMA ThrowReports ==
  ASSUME ExecutorInv, eVerdict = "running", E!Throw
  PROVE  E!Promise!Report
<1> DEFINE outcome == IF eSubmitted THEN "unknown" ELSE "notSubmitted"
<1>1. outcome \in {"unknown", "notSubmitted"} /\ (outcome = "notSubmitted" => ~eSent)
  BY DEF ExecutorInv
<1>2. E!End(outcome)
  BY DEF E!Throw
<1> QED BY <1>1, <1>2, EndReports

LEMMA StepKeepsPromise ==
  ASSUME ExecutorInv, E!Next
  PROVE  E!Promise!Next \/ UNCHANGED promiseVars
<1>1. CASE E!Pass \/ E!OwnKey \/ E!Resolve \/ E!EnterWrite \/ E!SdkAnswers
           \/ E!DisableKey \/ E!ChangeContract \/ E!LeaveSession
  BY <1>1 DEF E!Pass, E!OwnKey, E!Resolve, E!EnterWrite, E!SdkAnswers, E!DisableKey,
              E!ChangeContract, E!LeaveSession, E!InWrite, E!fixed, E!world, E!script,
              promiseVars
<1>2. CASE E!LoadKey
  BY <1>2 DEF E!LoadKey, E!Next0, E!Running, E!fixed, E!world, ExecutorInv,
              E!Promise!HandleKeys, E!Promise!Running, E!Promise!Next
<1>3. CASE E!Prepare
  BY <1>3, PrepareStep DEF E!Prepare, E!Next0, E!Running, E!fixed, E!world,
                           E!Promise!HandleKeys, E!Promise!Running, E!Promise!Next
<1>4. CASE E!Refuse \/ E!ResolveFails \/ E!PrepareFails \/ E!StaleSession
  <2>1. eVerdict = "running" /\ E!Throw
    BY <1>4 DEF E!Refuse, E!ResolveFails, E!PrepareFails, E!StaleSession, E!Next0, E!Running
  <2> QED BY <2>1, ThrowReports DEF E!Promise!Next
<1>5. CASE E!SdkRefuses
  <2>1. eVerdict = "running" /\ ~eSent /\ E!End("notSubmitted")
    BY <1>5 DEF E!SdkRefuses, E!InWrite, E!Next0, E!Running
  <2> QED BY <2>1, EndReports DEF E!Promise!Next
<1>6. CASE E!SdkFails
  <2>1. eVerdict = "running" /\ E!End("unknown")
    BY <1>6 DEF E!SdkFails, E!InWrite, E!Next0, E!Running
  <2> QED BY <2>1, EndReports DEF E!Promise!Next
<1>7. CASE E!SdkSends
  <2>1. /\ eVerdict = "running" /\ eRest # <<>> /\ Head(eRest).do = "submit" /\ eSent' = TRUE
        /\ UNCHANGED <<eReviewed, eElsewhere, eHeld, eMaterial, eExecuted, eVerdict>>
    BY <1>7 DEF E!SdkSends, E!InWrite, E!Next0, E!Running, E!fixed, E!world, E!script
  <2>2. ~Has(eRest, "prepare")
    BY <2>1, TailSteps DEF ExecutorInv, ScriptInv
  <2>3. eMaterial = eReviewed
    BY <2>1, <2>2 DEF ExecutorInv, ScriptInv
  <2> QED BY <2>1, <2>3 DEF E!Promise!Send, E!Promise!Running, E!Promise!Next
<1>8. CASE E!WaitAnswers
  <2>1. eVerdict = "running" /\ eRest # <<>> /\ Head(eRest).do = "wait"
    BY <1>8 DEF E!WaitAnswers, E!Next0, E!Running
  <2>2. eSent
    <3>1. ~Has(eRest, "submit")
      BY <2>1, TailSteps DEF ExecutorInv, ScriptInv
    <3> QED BY <2>1, <3>1 DEF ExecutorInv, ScriptInv
  <2>3. UNCHANGED promiseVars \/ E!End("affected") \/ E!End("unknown")
    BY <1>8 DEF E!WaitAnswers, E!fixed, E!world, promiseVars
  <2> QED BY <2>1, <2>2, <2>3, EndReports DEF E!Promise!Next
<1>9. CASE E!Return
  <2>1. eVerdict = "running" /\ eRest = <<>> /\ E!End("done")
    BY <1>9 DEF E!Return, E!Running
  <2>2. eExecuted
    <3>1. \A what : ~Has(eRest, what)
      BY <2>1 DEF Has
    <3> QED BY <2>1, <3>1 DEF ExecutorInv, ScriptInv
  <2> QED BY <2>1, <2>2, EndReports DEF E!Promise!Next
<1>10. CASE E!Executes
  BY <1>10 DEF E!Executes, E!fixed, E!world, E!script, E!Promise!Execute, E!Promise!Next
<1> QED BY <1>1, <1>2, <1>3, <1>4, <1>5, <1>6, <1>7, <1>8, <1>9, <1>10 DEF E!Next

-----------------------------------------------------------------------------
(* TokenForm and TokenRules.                                               *)

\* The problems of an operation depend on a snapshot's holders only for the identities
\* the operation names: the signer, a recipient, a target, the proposer of a burn, and
\* the identity of a configuration change.
LEMMA SameProblems ==
  ASSUME NEW options, NEW s, NEW u,
         s.model = u.model, s.paused = u.paused, s.supply = u.supply, s.price = u.price,
         s.credits = u.credits, s.pending = u.pending,
         T!R!Holder(s, options.signer) = T!R!Holder(u, options.signer),
         options.kind \in {"mint", "transfer"} =>
           T!R!Holder(s, options.recipient) = T!R!Holder(u, options.recipient),
         options.kind \in {"freeze", "unfreeze", "destroyFrozen"} =>
           T!R!Holder(s, options.target) = T!R!Holder(u, options.target),
         options.kind = "burn" /\ options.mode = "cosign" /\ s.pending # None =>
           T!R!Holder(s, s.pending.proposer) = T!R!Holder(u, s.pending.proposer),
         options.kind = "configUpdate" /\ options.change.takers.type = "identity" =>
           T!R!Holder(s, options.change.takers.identity)
             = T!R!Holder(u, options.change.takers.identity)
  PROVE  T!R!TokenOperationProblems(options, s) = T!R!TokenOperationProblems(options, u)
<1>1. T!R!GroupProblems(options, s) = T!R!GroupProblems(options, u)
  BY DEF T!R!GroupProblems
<1>2. T!R!OperationProblems(options, s) = T!R!OperationProblems(options, u)
  <2>1. CASE options.kind = "mint"
    BY <2>1 DEF T!R!OperationProblems, T!R!MintProblems, T!R!SupplyProblem
  <2>2. CASE options.kind = "burn"
    BY <2>2 DEF T!R!OperationProblems, T!R!BurnProblems
  <2>3. CASE options.kind = "transfer"
    BY <2>3 DEF T!R!OperationProblems, T!R!TransferProblems
  <2>4. CASE options.kind \in {"freeze", "unfreeze", "destroyFrozen"}
    BY <2>4 DEF T!R!OperationProblems, T!R!TargetProblems
  <2>5. CASE options.kind = "directPurchase"
    BY <2>5 DEF T!R!OperationProblems, T!R!PurchaseProblems, T!R!SupplyProblem
  <2>6. CASE options.kind = "configUpdate"
    BY <2>6 DEF T!R!OperationProblems, T!R!ConfigChangeProblems, T!R!ProblemIf
  <2>7. CASE options.kind \notin {"mint", "burn", "transfer", "freeze", "unfreeze", "destroyFrozen",
                                  "directPurchase", "configUpdate"}
    BY <2>7 DEF T!R!OperationProblems
  <2> QED BY <2>1, <2>2, <2>3, <2>4, <2>5, <2>6, <2>7
<1> QED BY <1>1, <1>2 DEF T!R!TokenOperationProblems

\* A change is one the fields can build, or of a proposal, or none.
NoneOrChange(change) == change = None \/ IsChange(change)

\* What Platform holds of a token: its model is the token's own.
IsHeld(held, t) ==
  /\ held = [model |-> held.model, paused |-> held.paused, supply |-> held.supply,
             price |-> held.price, holders |-> held.holders, pending |-> held.pending,
             own |-> held.own, crowded |-> held.crowded]
  /\ IsModel(held.model, t)
  /\ held.pending = None \/ NoneOrChange(held.pending.change)

TokenTypes ==
  /\ tKind \in T!R!Kinds /\ tVersion \in Nat
  /\ DOMAIN tChain = Tokens /\ \A t \in Tokens : IsHeld(tChain[t], t)
  /\ tToken \in Tokens \cup {None}
  /\ tFields = [recipient |-> tFields.recipient, target |-> tFields.target,
                change |-> tFields.change]
  /\ NoneOrChange(tFields.change)

\* The model shown is of the token that is named.
BaseOfToken == tBase # None => tToken \in Tokens /\ tBase.model.token = tToken

\* The identities of the key of a full snapshot.
KeyIds(key) == ({me, key[2], key[3]} \ {None}) \cup key[4]

\* While nothing changed, the full snapshot is what Platform holds, for its key.
FullOfChain ==
  tFull # None =>
    /\ tFull.version \in Nat /\ tFull.version <= tVersion
    /\ tFull.version = tVersion =>
         tFull.snapshot = T!Snapshot(tFull.key[1], KeyIds(tFull.key), tFull.key[5])

TokenInv == TokenTypes /\ BaseOfToken /\ FullOfChain

LEMMA InitTokens == T!Init => TokenInv
<1> SUFFICES ASSUME T!Init PROVE TokenInv
  OBVIOUS
<1>1. PICK models \in Models, holds \in BOOLEAN :
        tChain = [t \in Tokens |->
          [model |-> models[t], paused |-> FALSE, supply |-> 2, price |-> 1,
           holders |-> [id \in Ids |-> [exists |-> TRUE, frozen |-> FALSE,
                                        balance |-> IF holds \/ id # me THEN 1 ELSE 0]],
           pending |-> IF tKind \in DOMAIN Proposals THEN Proposals[tKind] ELSE None,
           own |-> None, crowded |-> FALSE]]
  BY Zenon DEF T!Init
<1>2. ASSUME NEW t \in Tokens PROVE IsHeld(tChain[t], t)
  <2> DEFINE holders == [id \in Ids |-> [exists |-> TRUE, frozen |-> FALSE,
                                         balance |-> IF holds \/ id # me THEN 1 ELSE 0]]
             pending == IF tKind \in DOMAIN Proposals THEN Proposals[tKind] ELSE None
  <2>1. tChain[t] = [model |-> models[t], paused |-> FALSE, supply |-> 2, price |-> 1,
                     holders |-> holders, pending |-> pending,
                     own |-> None, crowded |-> FALSE]
    BY <1>1
  <2>2. pending = None \/ NoneOrChange(pending.change)
    BY TokensAssumption DEF NoneOrChange
  <2>3. IsModel(models[t], t)
    BY TokensAssumption
  <2> HIDE DEF holders, pending
  <2> QED BY <2>1, <2>2, <2>3 DEF IsHeld
<1>3. DOMAIN tChain = Tokens
  BY <1>1
<1>4. PICK recipient, target \in Ids \cup {None} :
        tFields = [T!NoFields EXCEPT !.recipient = recipient, !.target = target]
  BY Zenon DEF T!Init
<1>5. tFields = [recipient |-> recipient, target |-> target, change |-> None]
  BY <1>4 DEF T!NoFields
<1>6. tKind \in T!R!Kinds /\ tVersion = 0 /\ tToken = None /\ tBase = None /\ tFull = None
  BY DEF T!Init
<1> QED BY <1>2, <1>3, <1>5, <1>6
        DEF TokenInv, TokenTypes, BaseOfToken, FullOfChain, NoneOrChange

\* A snapshot taken is what Platform holds.
LEMMA SnapshotHolds ==
  ASSUME TokenTypes, NEW t \in Tokens, NEW ids, NEW cosign
  PROVE  /\ T!Snapshot(t, ids, cosign).model.token = t
         /\ \/ T!Snapshot(t, ids, cosign).pending = None
            \/ NoneOrChange(T!Snapshot(t, ids, cosign).pending.change)
<1>1. IsHeld(tChain[t], t)
  BY DEF TokenTypes
<1>2. /\ T!Snapshot(t, ids, cosign).model = tChain[t].model
      /\ T!Snapshot(t, ids, cosign).pending = IF cosign THEN tChain[t].pending ELSE None
  BY DEF T!Snapshot
<1> QED BY <1>1, <1>2 DEF IsHeld, IsModel

\* Steps that leave the chain and the snapshots: those of the inputs.
LEMMA InputSteps ==
  ASSUME TokenInv, UNCHANGED <<tKind, tChain, tVersion, tToken, tBase, tFull>>,
         tFields' = [recipient |-> tFields'.recipient, target |-> tFields'.target,
                     change |-> tFields'.change],
         NoneOrChange(tFields'.change)
  PROVE  TokenInv'
BY DEF TokenInv, TokenTypes, BaseOfToken, FullOfChain, T!Snapshot

LEMMA NameTokenStep ==
  ASSUME TokenInv, NEW t \in Tokens, T!NameToken(t)
  PROVE  TokenInv'
BY DEF T!NameToken, TokenInv, TokenTypes, BaseOfToken, FullOfChain

LEMMA InitialChangeIsChange == \A snapshot : NoneOrChange(T!InitialChange(snapshot))
BY DEF T!InitialChange, NoneOrChange, IsChange, T!R!ValueRules

LEMMA BaseArrivesStep ==
  ASSUME TokenInv, T!BaseArrives
  PROVE  TokenInv'
<1>1. /\ tToken \in Tokens /\ tBase' = T!Snapshot(tToken, {me}, FALSE)
      /\ UNCHANGED <<tKind, tChain, tVersion, tToken, tFull>>
  BY DEF T!BaseArrives, TokenInv, TokenTypes
<1>2. /\ tFields' = [recipient |-> tFields'.recipient, target |-> tFields'.target,
                     change |-> tFields'.change]
      /\ NoneOrChange(tFields'.change)
  <2>1. /\ tFields = [recipient |-> tFields.recipient, target |-> tFields.target,
                      change |-> tFields.change]
        /\ NoneOrChange(tFields.change)
    BY DEF TokenInv, TokenTypes
  <2>2. \/ \E r : tFields' = [tFields EXCEPT !.recipient = r]
        \/ tFields' = [tFields EXCEPT !.change = T!InitialChange(tBase')]
        \/ tFields' = tFields
    BY DEF T!BaseArrives
  <2> QED BY <2>1, <2>2, InitialChangeIsChange
<1>3. BaseOfToken'
  BY <1>1, SnapshotHolds DEF TokenInv, BaseOfToken
<1> QED BY <1>1, <1>2, <1>3 DEF TokenInv, TokenTypes, FullOfChain, T!Snapshot

LEMMA FullArrivesStep ==
  ASSUME TokenInv, T!FullArrives
  PROVE  TokenInv'
<1> DEFINE ids == ({me, tFields.recipient, tFields.target} \ {None})
                  \cup T!ChangeIds(tFields.change)
           cosign == T!EffectiveMode = "cosign"
           snapshot == T!Snapshot(tToken, ids, cosign)
<1>1. /\ tToken \in Tokens /\ UNCHANGED <<tKind, tChain, tVersion, tToken, tBase>>
      /\ tFull' = [key |-> T!FullKey, version |-> tVersion, snapshot |-> snapshot]
      /\ \/ tFields' = tFields
         \/ /\ snapshot.pending # None
            /\ tFields' = [tFields EXCEPT !.change = snapshot.pending.change]
  BY DEF T!FullArrives, TokenInv, BaseOfToken
<1>2. /\ tFields' = [recipient |-> tFields'.recipient, target |-> tFields'.target,
                     change |-> tFields'.change]
      /\ NoneOrChange(tFields'.change)
  <2>1. /\ tFields = [recipient |-> tFields.recipient, target |-> tFields.target,
                      change |-> tFields.change]
        /\ NoneOrChange(tFields.change)
    BY DEF TokenInv, TokenTypes
  <2>2. snapshot.pending = None \/ NoneOrChange(snapshot.pending.change)
    BY <1>1, SnapshotHolds DEF TokenInv
  <2> QED BY <1>1, <2>1, <2>2
<1>3. FullOfChain'
  <2>1. /\ tFull'.key[1] = tToken /\ KeyIds(tFull'.key) = ids /\ tFull'.key[5] = cosign
        /\ tFull'.version = tVersion /\ tFull'.snapshot = snapshot /\ tVersion \in Nat
    BY <1>1 DEF T!FullKey, KeyIds, TokenInv, TokenTypes
  <2> HIDE DEF ids, cosign
  <2>2. T!Snapshot(tFull.key[1], KeyIds(tFull.key), tFull.key[5])' = snapshot
    BY <1>1, <2>1 DEF T!Snapshot
  <2> QED BY <1>1, <2>1, <2>2 DEF FullOfChain
<1>4. TokenTypes' /\ BaseOfToken'
  BY <1>1, <1>2 DEF TokenInv, TokenTypes, BaseOfToken
<1> QED BY <1>3, <1>4 DEF TokenInv

\* Others change what Platform holds; its model stays the token's own.
LEMMA OthersStep ==
  ASSUME TokenInv, T!OthersAct
  PROVE  TokenInv'
<1>1. /\ tVersion' = tVersion + 1 /\ tVersion \in Nat
      /\ UNCHANGED <<tKind, tToken, tFields, tMode, tLinked, tBase, tFull>>
  BY DEF T!OthersAct, TokenInv, TokenTypes
<1>2. PICK id \in Ids, t \in {tToken} :
        \E next \in {[tChain[t] EXCEPT !.holders[id].frozen = ~@],
                     [tChain[t] EXCEPT !.holders[id].balance = 1 - @],
                     [tChain[t] EXCEPT !.paused = ~@],
                     [tChain[t] EXCEPT !.price = IF @ = None THEN 2 ELSE None],
                     [tChain[t] EXCEPT !.model.decimals = 1 - @],
                     [tChain[t] EXCEPT !.pending = None],
                     [tChain[t] EXCEPT !.crowded = TRUE],
                     [tChain[t] EXCEPT !.own = T!OwnAction]} :
          tChain' = [tChain EXCEPT ![t] = next]
  BY Zenon DEF T!OthersAct
<1>3. t \in Tokens /\ IsHeld(tChain[t], t)
  BY DEF T!OthersAct, TokenInv, TokenTypes, BaseOfToken
<1>4. PICK next : /\ tChain' = [tChain EXCEPT ![t] = next]
                  /\ IsHeld(next, t)
  <2> DEFINE held == tChain[t]
  <2>1. ASSUME NEW holders PROVE IsHeld([held EXCEPT !.holders = holders], t)
    BY <1>3 DEF IsHeld
  <2>2. ASSUME NEW paused PROVE IsHeld([held EXCEPT !.paused = paused], t)
    BY <1>3 DEF IsHeld
  <2>3. ASSUME NEW price PROVE IsHeld([held EXCEPT !.price = price], t)
    BY <1>3 DEF IsHeld
  <2>4. IsHeld([held EXCEPT !.pending = None], t)
    BY <1>3 DEF IsHeld
  <2>5. ASSUME NEW decimals
        PROVE  IsHeld([held EXCEPT !.model = [held.model EXCEPT !.decimals = decimals]], t)
    <3>1. IsModel([held.model EXCEPT !.decimals = decimals], t)
      BY <1>3 DEF IsHeld, IsModel
    <3> QED BY <1>3, <3>1 DEF IsHeld
  <2>6. ASSUME NEW crowded PROVE IsHeld([held EXCEPT !.crowded = crowded], t)
    BY <1>3 DEF IsHeld
  <2>7. ASSUME NEW own PROVE IsHeld([held EXCEPT !.own = own], t)
    BY <1>3 DEF IsHeld
  <2> HIDE DEF held
  <2>8. CASE \/ tChain' = [tChain EXCEPT ![t] = [held EXCEPT !.holders[id].frozen = ~@]]
             \/ tChain' = [tChain EXCEPT ![t] = [held EXCEPT !.holders[id].balance = 1 - @]]
    <3>1. /\ IsHeld([held EXCEPT !.holders[id].frozen = ~@], t)
          /\ IsHeld([held EXCEPT !.holders[id].balance = 1 - @], t)
      BY Zenon, <2>1
    <3> QED BY Zenon, <2>8, <3>1
  <2>9. CASE \/ tChain' = [tChain EXCEPT ![t] = [held EXCEPT !.paused = ~@]]
             \/ tChain' = [tChain EXCEPT ![t] = [held EXCEPT !.pending = None]]
    BY <2>2, <2>4, <2>9
  <2>10. CASE tChain' = [tChain EXCEPT ![t] = [held EXCEPT !.price = IF @ = None THEN 2 ELSE None]]
    BY <2>3, <2>10
  <2>11. CASE tChain' = [tChain EXCEPT ![t] = [held EXCEPT !.model.decimals = 1 - @]]
    BY <2>5, <2>11
  <2>12. CASE \/ tChain' = [tChain EXCEPT ![t] = [held EXCEPT !.crowded = TRUE]]
              \/ tChain' = [tChain EXCEPT ![t] = [held EXCEPT !.own = T!OwnAction]]
    BY <2>6, <2>7, <2>12
  <2> QED BY <1>2, <2>8, <2>9, <2>10, <2>11, <2>12 DEF held
<1>5. DOMAIN tChain' = Tokens /\ \A u \in Tokens : IsHeld(tChain'[u], u)
  BY <1>4 DEF TokenInv, TokenTypes
<1>6. tVersion' \in Nat /\ (tFull # None => tFull.version < tVersion')
  BY <1>1 DEF TokenInv, FullOfChain
<1>7. TokenTypes' /\ BaseOfToken'
  BY <1>1, <1>5, <1>6 DEF TokenInv, TokenTypes, BaseOfToken
<1>8. FullOfChain'
  <2> SUFFICES ASSUME tFull # None
               PROVE  /\ tFull.version \in Nat /\ tFull.version <= tVersion'
                      /\ tFull.version # tVersion'
    BY <1>1 DEF FullOfChain
  <2> QED BY <1>1, <1>6 DEF TokenInv, FullOfChain
<1> QED BY <1>7, <1>8 DEF TokenInv

LEMMA NextTokens ==
  ASSUME TokenInv, T!Next
  PROVE  TokenInv'
<1>1. ASSUME NEW id \in Ids, T!EditRecipient(id) \/ T!EditTarget(id) PROVE TokenInv'
  BY <1>1, InputSteps DEF T!EditRecipient, T!EditTarget, TokenInv, TokenTypes
<1>2. ASSUME NEW change \in Changes, T!EditChange(change) PROVE TokenInv'
  <2>1. NoneOrChange(change)
    BY TokensAssumption DEF NoneOrChange
  <2> QED BY <1>2, <2>1, InputSteps DEF T!EditChange, TokenInv, TokenTypes
<1>3. ASSUME NEW m, T!ChooseMode(m) PROVE TokenInv'
  BY <1>3, InputSteps DEF T!ChooseMode, TokenInv, TokenTypes
<1> QED BY <1>1, <1>2, <1>3, NameTokenStep, BaseArrivesStep, FullArrivesStep, OthersStep
        DEF T!Next

LEMMA ProblemsOfParts ==
  ASSUME NEW options, NEW s,
         \/ T!R!GroupProblems(options, s) # {}
         \/ T!R!OperationProblems(options, s) # {}
  PROVE  T!R!TokenOperationProblems(options, s) # {}
BY DEF T!R!TokenOperationProblems

\* Nothing is minted for, or sent to, an identity the snapshot does not hold.
LEMMA UnknownRecipient ==
  ASSUME NEW options, NEW s, options.kind \in {"mint", "transfer"},
         ~T!R!Holder(s, options.recipient).exists
  PROVE  T!R!TokenOperationProblems(options, s) # {}
<1>1. CASE options.kind = "mint"
  <2>1. "no recipient" \in T!R!MintProblems(options, s)
    BY DEF T!R!MintProblems, T!R!ProblemIf
  <2> QED BY <1>1, <2>1, ProblemsOfParts DEF T!R!OperationProblems
<1>2. CASE options.kind = "transfer"
  <2>1. "no recipient" \in T!R!TransferProblems(options, s)
    BY DEF T!R!TransferProblems, T!R!ProblemIf
  <2> QED BY <1>2, <2>1, ProblemsOfParts DEF T!R!OperationProblems
<1> QED BY <1>1, <1>2

\* When no change of configuration is possible, none that can be built is.
LEMMA NoChangePossible ==
  ASSUME NEW change, IsChange(change), NEW model, NEW signer,
         ~T!R!CanUpdateConfig(model, signer)
  PROVE  T!R!ConfigChangeAuthority(change, model, signer) = T!R!Denied
<1>1. \A sample \in T!R!SampleChanges :
        T!R!ConfigChangeAuthority(sample, model, signer) = T!R!Denied
  BY DEF T!R!CanUpdateConfig
<1>2. CASE change.item = "mainControlGroup"
  <2> DEFINE sample == [item |-> "mainControlGroup", rule |-> "freeze",
                        takers |-> [type |-> "noOne"]]
  <2>1. sample \in T!R!SampleChanges
    BY DEF T!R!SampleChanges
  <2>2. T!R!ConfigChangeAuthority(sample, model, signer)
          = T!R!Authorize(model.mainGroupBy, model, signer)
    BY DEF T!R!ConfigChangeAuthority
  <2>3. T!R!ConfigChangeAuthority(change, model, signer)
          = T!R!Authorize(model.mainGroupBy, model, signer)
    BY <1>2 DEF T!R!ConfigChangeAuthority
  <2> QED BY <1>1, <2>1, <2>2, <2>3
<1>3. CASE change.item = "value"
  <2> DEFINE sample == [item |-> "value", takers |-> [type |-> "noOne"], rule |-> change.rule]
  <2>1. sample \in T!R!SampleChanges
    BY <1>3 DEF T!R!SampleChanges, IsChange
  <2>2. T!R!ConfigChangeAuthority(sample, model, signer)
          = T!R!Authorize(model.rules[change.rule].authorized, model, signer)
    BY DEF T!R!ConfigChangeAuthority
  <2>3. T!R!ConfigChangeAuthority(change, model, signer)
          = T!R!Authorize(model.rules[change.rule].authorized, model, signer)
    BY <1>3 DEF T!R!ConfigChangeAuthority
  <2> QED BY <1>1, <2>1, <2>2, <2>3
<1>4. CASE change.item \in {"authorized", "admin"}
  <2> DEFINE sample == [item |-> "authorized", rule |-> change.rule,
                        takers |-> [type |-> "contractOwner"]]
  <2>1. sample \in T!R!SampleChanges
    BY <1>4 DEF T!R!SampleChanges, IsChange
  <2>2. T!R!ConfigChangeAuthority(sample, model, signer)
          = T!R!Authorize(model.rules[change.rule].admin, model, signer)
    BY DEF T!R!ConfigChangeAuthority
  <2>3. T!R!ConfigChangeAuthority(change, model, signer)
          \in {T!R!Denied, T!R!Authorize(model.rules[change.rule].admin, model, signer)}
    BY <1>4 DEF T!R!ConfigChangeAuthority
  <2> QED BY <1>1, <2>1, <2>2, <2>3
<1> QED BY <1>2, <1>3, <1>4 DEF IsChange

\* What is unavailable has a problem, whatever the inputs.
LEMMA UnavailableRefused ==
  ASSUME NEW options, NEW s, T!R!Unavailable(options.kind, s, options.signer),
         options.kind \in {"burn", "transfer"} => options.amount = 1,
         options.kind = "claim" => options.distribution \in DOMAIN s.model.distributions,
         options.kind = "configUpdate" => IsChange(options.change)
  PROVE  T!R!TokenOperationProblems(options, s) # {}
<1> DEFINE authority == IF options.kind \in DOMAIN T!R!OperationRule
                        THEN LET rule == T!R!OperationRule[options.kind] IN
                             T!R!Authorize(s.model.rules[rule].authorized, s.model,
                                           options.signer)
                        ELSE None
           balance == T!R!Holder(s, options.signer).balance
<1>1. \/ authority # None /\ authority.kind = "denied"
      \/ options.kind = "transfer" /\ balance = 0
      \/ options.kind = "burn" /\ authority.kind = "direct" /\ balance = 0
      \/ options.kind = "directPurchase" /\ s.price = None
      \/ options.kind = "claim" /\ \A d \in DOMAIN s.model.distributions :
           T!R!ClaimProblem(d, s.model, options.signer) # {}
      \/ options.kind = "configUpdate" /\ ~T!R!CanUpdateConfig(s.model, options.signer)
  BY DEF T!R!Unavailable, T!R!NothingToBurn
<1>2. options.kind \in DOMAIN T!R!OperationRule => T!R!AuthorityFor(options, s.model) = authority
  BY DEF T!R!AuthorityFor, T!R!OperationRule
<1>3. CASE authority # None /\ authority.kind = "denied"
  <2>1. T!R!GroupProblems(options, s) = {"denied"}
    BY <1>2, <1>3 DEF T!R!GroupProblems
  <2> QED BY <2>1, ProblemsOfParts
<1>4. CASE options.kind = "transfer" /\ balance = 0
  <2>1. "holds less" \in T!R!TransferProblems(options, s)
    BY <1>4 DEF T!R!TransferProblems, T!R!ProblemIf
  <2> QED BY <1>4, <2>1, ProblemsOfParts DEF T!R!OperationProblems
<1>5. CASE options.kind = "burn" /\ authority.kind = "direct" /\ balance = 0
  <2>1. T!R!AuthorityFor(options, s.model) = authority
    BY <1>2, <1>5 DEF T!R!OperationRule
  <2>2. CASE options.mode = "direct"
    <3>1. "holds less" \in T!R!BurnProblems(options, s)
      BY <1>5, <2>2 DEF T!R!BurnProblems, T!R!ProblemIf
    <3> QED BY <1>5, <3>1, ProblemsOfParts DEF T!R!OperationProblems
  <2>3. CASE options.mode # "direct"
    <3>1. T!R!GroupProblems(options, s) # {}
      BY <1>5, <2>1, <2>3 DEF T!R!GroupProblems, T!R!ProblemIf
    <3> QED BY <3>1, ProblemsOfParts
  <2> QED BY <2>2, <2>3
<1>6. CASE options.kind = "directPurchase" /\ s.price = None
  <2>1. T!R!OperationProblems(options, s) = {"not for sale"}
    BY <1>6 DEF T!R!OperationProblems, T!R!PurchaseProblems
  <2> QED BY <2>1, ProblemsOfParts
<1>7. CASE options.kind = "claim" /\ \A d \in DOMAIN s.model.distributions :
             T!R!ClaimProblem(d, s.model, options.signer) # {}
  BY <1>7, ProblemsOfParts DEF T!R!OperationProblems
<1>8. CASE options.kind = "configUpdate" /\ ~T!R!CanUpdateConfig(s.model, options.signer)
  <2>1. T!R!AuthorityFor(options, s.model) = T!R!Denied
    BY <1>8, NoChangePossible DEF T!R!AuthorityFor, T!R!OperationRule
  <2>2. T!R!Denied # None /\ T!R!Denied.kind = "denied"
    BY TokensAssumption DEF T!R!Denied
  <2>3. T!R!GroupProblems(options, s) = {"denied"}
    BY <2>1, <2>2 DEF T!R!GroupProblems
  <2> QED BY <2>3, ProblemsOfParts
<1> QED BY <1>1, <1>3, <1>4, <1>5, <1>6, <1>7, <1>8

\* The identities a pending action names.
Named(pending) ==
  IF pending = None THEN {}
  ELSE ({pending.recipient, pending.target, pending.proposer} \cup T!ChangeIds(pending.change))
       \ {None}

\* Two snapshots of a token differ in whom they hold.
LEMMA SnapshotFields ==
  ASSUME NEW t, NEW ids, NEW cosign
  PROVE  LET s == T!Snapshot(t, ids, cosign) IN
         /\ s.model = tChain[t].model /\ s.paused = tChain[t].paused
         /\ s.supply = tChain[t].supply /\ s.price = tChain[t].price
         /\ s.credits = IF tKind = "directPurchase" THEN 2 ELSE None
         /\ s.pending = IF cosign THEN tChain[t].pending ELSE None
         /\ \A id : T!R!Holder(s, id) =
              IF id \in ids \cup Named(s.pending) THEN tChain[t].holders[id] ELSE T!R!Stranger
<1> DEFINE pending == IF cosign THEN tChain[t].pending ELSE None
           holders == [id \in ids \cup Named(pending) |-> tChain[t].holders[id]]
<1>1. T!Snapshot(t, ids, cosign) =
        [model |-> tChain[t].model, paused |-> tChain[t].paused, supply |-> tChain[t].supply,
         price |-> tChain[t].price, credits |-> IF tKind = "directPurchase" THEN 2 ELSE None,
         holders |-> holders, pending |-> pending]
  BY DEF T!Snapshot, Named
<1>2. \A id : (IF id \in DOMAIN holders THEN holders[id] ELSE T!R!Stranger)
              = IF id \in ids \cup Named(pending) THEN tChain[t].holders[id] ELSE T!R!Stranger
  OBVIOUS
<1> HIDE DEF holders, pending
<1>3. LET s == T!Snapshot(t, ids, cosign) IN
        /\ s.pending = pending
        /\ \A id : T!R!Holder(s, id) =
             IF id \in ids \cup Named(s.pending) THEN tChain[t].holders[id] ELSE T!R!Stranger
  BY <1>1, <1>2 DEF T!R!Holder
<1> QED BY <1>1, <1>3 DEF pending

\* What the draft is put together from, when the full snapshot is shown.
LEMMA DraftSays ==
  ASSUME T!Loaded, T!Draft # None, T!Pending = T!FullShown.pending
  PROVE  LET draft == T!Draft
             pending == T!FullShown.pending IN
         /\ draft.kind = tKind /\ draft.signer = me /\ draft.token = T!Model.token
         /\ draft.mode = T!EffectiveMode
         /\ tKind \in {"burn", "transfer"} => draft.amount = 1
         /\ tKind = "claim" => draft.distribution = "perpetual"
         /\ tKind \in {"mint", "transfer"} => draft.recipient # None
         /\ tKind \in {"freeze", "unfreeze", "destroyFrozen"} =>
              /\ draft.target # None
              /\ draft.target = IF pending # None THEN pending.target ELSE tFields.target
         /\ tKind = "configUpdate" =>
              /\ draft.change # None
              /\ draft.change = IF pending # None THEN pending.change ELSE tFields.change
<1> DEFINE pending == T!FullShown.pending
           recipient == IF pending # None THEN pending.recipient
                        ELSE IF tKind = "mint" /\ ~T!Model.choosing THEN T!Model.destination
                        ELSE IF tKind \in {"mint", "transfer"} THEN tFields.recipient ELSE None
           target == IF pending # None THEN pending.target
                     ELSE IF tKind \in {"freeze", "unfreeze", "destroyFrozen"}
                     THEN tFields.target ELSE None
           change == IF pending # None THEN pending.change
                     ELSE IF tKind = "configUpdate" THEN tFields.change ELSE None
<1>1. /\ ~(tKind \in {"mint", "transfer"} /\ recipient = None)
      /\ ~(tKind \in {"freeze", "unfreeze", "destroyFrozen"} /\ target = None)
      /\ ~(tKind = "configUpdate" /\ change = None)
  BY DEF T!Draft
<1>2. /\ T!Draft.kind = tKind /\ T!Draft.signer = me /\ T!Draft.token = T!Model.token
      /\ T!Draft.mode = T!EffectiveMode
  BY DEF T!Draft
<1>3. /\ tKind \in {"burn", "transfer"} => T!Draft.amount = 1
      /\ tKind = "claim" => T!Draft.distribution = "perpetual"
  BY DEF T!Draft
<1>4. T!Draft.recipient = recipient /\ T!Draft.target = target /\ T!Draft.change = change
  BY DEF T!Draft
<1> QED BY <1>1, <1>2, <1>3, <1>4

LEMMA FormAgrees ==
  ASSUME TokenInv
  PROVE  T!FormAgreesWithExecutor
<1> SUFFICES ASSUME T!Loaded, tFull.version = tVersion, T!Draft # None
             PROVE  /\ T!Ready => T!ExecutorAccepts(T!Draft) \/ T!DuplicateRefused(T!Draft)
                    /\ T!ExecutorAccepts(T!Draft) => ~T!R!Unavailable(tKind, T!FullShown, me)
  BY DEF T!FormAgreesWithExecutor, T!Ready
<1> DEFINE draft == T!Draft
           form == T!FullShown
           cosign == T!EffectiveMode = "cosign"
           formIds == ({me, tFields.recipient, tFields.target} \ {None})
                      \cup T!ChangeIds(tFields.change)
           executorIds == T!HolderIds(draft)
           executor == T!Snapshot(tToken, executorIds, cosign)
           pending == form.pending
<1>1. /\ tToken \in Tokens /\ T!Model.token = tToken
      /\ form = T!Snapshot(tToken, formIds, cosign)
  <2>1. tFull # None /\ tFull.key = T!FullKey /\ form = tFull.snapshot /\ tBase # None
    BY DEF T!Loaded, T!FullShown
  <2>2. tFull.key[1] = tToken /\ KeyIds(tFull.key) = formIds /\ tFull.key[5] = cosign
    BY <2>1 DEF T!FullKey, KeyIds
  <2> QED BY <2>1, <2>2 DEF TokenInv, BaseOfToken, FullOfChain, T!Model
<1>2. T!Pending = pending /\ executor.pending = pending
  <2> HIDE DEF form, cosign, formIds, executorIds
  <2>1. form.pending = IF cosign THEN tChain[tToken].pending ELSE None
    BY <1>1, SnapshotFields
  <2>2. executor.pending = IF cosign THEN tChain[tToken].pending ELSE None
    BY SnapshotFields
  <2> QED BY <2>1, <2>2 DEF T!Pending, T!Loaded, form, cosign
<1>3. /\ draft.kind = tKind /\ draft.signer = me /\ draft.token = tToken
      /\ draft.mode = T!EffectiveMode
      /\ tKind \in {"burn", "transfer"} => draft.amount = 1
      /\ tKind = "claim" => draft.distribution = "perpetual"
      /\ tKind \in {"mint", "transfer"} => draft.recipient # None
      /\ tKind \in {"freeze", "unfreeze", "destroyFrozen"} =>
           /\ draft.target # None
           /\ draft.target = IF pending # None THEN pending.target ELSE tFields.target
      /\ tKind = "configUpdate" =>
           /\ draft.change # None
           /\ draft.change = IF pending # None THEN pending.change ELSE tFields.change
  BY <1>1, <1>2, DraftSays
<1>4. T!ExecutorAccepts(draft) <=> /\ T!R!TokenOperationProblems(draft, executor) = {}
                                  /\ ~T!DuplicateRefused(draft)
  BY <1>3 DEF T!ExecutorAccepts
<1>5. /\ form.model = executor.model /\ form.paused = executor.paused
      /\ form.supply = executor.supply /\ form.price = executor.price
      /\ form.credits = executor.credits /\ form.pending = executor.pending
  BY <1>1, SnapshotFields
<1>6. \A id : /\ T!R!Holder(form, id) = IF id \in formIds \cup Named(pending)
                                       THEN tChain[tToken].holders[id] ELSE T!R!Stranger
              /\ T!R!Holder(executor, id) = IF id \in executorIds \cup Named(pending)
                                           THEN tChain[tToken].holders[id] ELSE T!R!Stranger
  BY <1>1, <1>2, SnapshotFields
<1>7. executorIds = ({me, draft.recipient, draft.target} \cup T!ChangeIds(draft.change)) \ {None}
  BY <1>3 DEF T!HolderIds
<1>8. me \in formIds /\ me \in executorIds
  BY <1>7, TokensAssumption
<1>9. tKind = "configUpdate" => IsChange(draft.change)
  <2>1. NoneOrChange(tFields.change)
    BY DEF TokenInv, TokenTypes
  <2>2. pending = None \/ NoneOrChange(pending.change)
    BY <1>1, SnapshotHolds DEF TokenInv
  <2> QED BY <1>3, <2>1, <2>2 DEF NoneOrChange
<1> HIDE DEF draft, form, cosign, formIds, executorIds, executor, pending
<1>10. ASSUME T!Ready PROVE T!ExecutorAccepts(draft) \/ T!DuplicateRefused(draft)
  <2>1. T!R!TokenOperationProblems(draft, form) = {}
    BY <1>10 DEF T!Ready, draft, form
  <2>2. tKind \in {"mint", "transfer"} =>
          T!R!Holder(form, draft.recipient) = T!R!Holder(executor, draft.recipient)
    <3> SUFFICES ASSUME tKind \in {"mint", "transfer"}
                 PROVE  T!R!Holder(form, draft.recipient) = T!R!Holder(executor, draft.recipient)
      OBVIOUS
    <3>1. draft.recipient \in executorIds
      BY <1>3, <1>7
    <3>2. T!R!Holder(form, draft.recipient) # T!R!Stranger
      BY <1>3, <2>1, UnknownRecipient DEF T!R!Stranger
    <3> QED BY <1>6, <3>1, <3>2
  <2>3. tKind \in {"freeze", "unfreeze", "destroyFrozen"} =>
          T!R!Holder(form, draft.target) = T!R!Holder(executor, draft.target)
    <3> SUFFICES ASSUME tKind \in {"freeze", "unfreeze", "destroyFrozen"}
                 PROVE  draft.target \in executorIds /\ draft.target \in formIds \cup Named(pending)
      BY <1>6
    <3> QED BY <1>3, <1>7 DEF formIds, Named
  <2>4. ASSUME pending # None
        PROVE  T!R!Holder(form, pending.proposer) = T!R!Holder(executor, pending.proposer)
    <3>1. CASE pending.proposer # None
      <4>1. pending.proposer \in Named(pending)
        BY <2>4, <3>1 DEF Named
      <4> QED BY <1>6, <4>1
    <3>2. CASE pending.proposer = None
      <4>1. None \notin formIds
        <5>1. NoneOrChange(tFields.change)
          BY DEF TokenInv, TokenTypes
        <5> QED BY <5>1 DEF formIds, NoneOrChange, IsChange, T!ChangeIds
      <4>2. None \notin executorIds /\ None \notin Named(pending)
        BY <1>7 DEF Named
      <4> QED BY <1>6, <3>2, <4>1, <4>2
    <3> QED BY <3>1, <3>2
  <2>5. ASSUME tKind = "configUpdate", draft.change.takers.type = "identity"
        PROVE  T!R!Holder(form, draft.change.takers.identity)
                 = T!R!Holder(executor, draft.change.takers.identity)
    <3>1. /\ draft.change # None /\ draft.change.takers.identity # None
          /\ draft.change.takers.identity \in T!ChangeIds(draft.change)
      BY <1>3, <1>9, <2>5 DEF IsChange, T!ChangeIds
    <3>2. draft.change.takers.identity \in executorIds
      BY <1>7, <3>1
    <3>3. draft.change.takers.identity \in formIds \cup Named(pending)
      BY <1>3, <2>5, <3>1 DEF formIds, Named
    <3> QED BY <1>6, <3>2, <3>3
  <2>6. T!R!Holder(form, draft.signer) = T!R!Holder(executor, draft.signer)
    BY <1>3, <1>6, <1>8
  <2>7. T!R!TokenOperationProblems(draft, form) = T!R!TokenOperationProblems(draft, executor)
    BY <1>3, <1>5, <2>2, <2>3, <2>4, <2>5, <2>6, SameProblems DEF pending
  <2> QED BY <1>4, <2>1, <2>7
<1>11. ASSUME T!ExecutorAccepts(draft), T!R!Unavailable(tKind, form, me) PROVE FALSE
  <2>1. T!R!Holder(form, me) = T!R!Holder(executor, me)
    BY <1>6, <1>8
  <2>2. T!R!Unavailable(draft.kind, executor, draft.signer)
    BY <1>3, <1>5, <1>11, <2>1 DEF T!R!Unavailable
  <2>3. "perpetual" \in DOMAIN executor.model.distributions
    <3>1. executor.model = tChain[tToken].model
      BY SnapshotFields DEF executor
    <3> QED BY <1>1, <3>1 DEF TokenInv, TokenTypes, IsHeld, IsModel
  <2> QED BY <1>3, <1>4, <1>9, <1>11, <2>2, <2>3, UnavailableRefused
<1> QED BY <1>10, <1>11 DEF draft, form

-----------------------------------------------------------------------------
(* The parts together: a behaviour is of one of them.                      *)

WritesInv ==
  /\ part = "documents" => DocumentInv
  /\ part = "contracts" => ContractInv
  /\ part = "groups" => GroupInv
  /\ part = "form" => FormInv
  /\ part = "executors" => ExecutorInv
  /\ part = "tokens" => TokenInv

LEMMA InitWrites == Init => WritesInv
<1> SUFFICES ASSUME Init PROVE WritesInv
  OBVIOUS
<1>1. part = "documents" => DocumentInv
  BY InitDocuments DEF Init
<1>2. part = "contracts" => ContractInv
  BY InitContracts DEF Init
<1>3. part = "groups" => GroupInv
  BY InitGroups DEF Init
<1>4. part = "form" => FormInv
  BY InitForm DEF Init
<1>5. part = "executors" => ExecutorInv
  BY InitExecutors DEF Init
<1>6. part = "tokens" => TokenInv
  BY InitTokens DEF Init
<1> QED BY <1>1, <1>2, <1>3, <1>4, <1>5, <1>6 DEF WritesInv

LEMMA DocumentsStutter == DocumentInv /\ UNCHANGED documentVars => DocumentInv'
<1> SUFFICES ASSUME DocumentInv, UNCHANGED documentVars PROVE DocumentInv'
  OBVIOUS
<1>1. UNCHANGED <<dDoc, dCached, dTarget, dLoaded, dEditing, dReload, dOp, dOutcome>>
  BY DEF documentVars
<1>2. DocumentTypes'
  BY <1>1 DEF DocumentInv, DocumentTypes
<1>3. EditsLoaded' /\ ReplacementOfEdited'
  BY <1>1 DEF DocumentInv, EditsLoaded, ReplacementOfEdited
<1>4. D!NoLostUpdate'
  BY <1>1 DEF DocumentInv, D!NoLostUpdate, D!Did
<1> QED BY <1>2, <1>3, <1>4 DEF DocumentInv

LEMMA ContractsStutter == ContractInv /\ UNCHANGED contractVars => ContractInv'
BY DEF ContractInv, contractVars, ContractTypes, TextOfPicked, UpdateOfEdited, C!Loaded,
       C!ReplacesWhatWasEdited

LEMMA GroupsStutter == GroupInv /\ UNCHANGED groupVars => GroupInv'
<1> SUFFICES ASSUME GroupInv, UNCHANGED groupVars PROVE GroupInv'
  OBVIOUS
<1>1. UNCHANGED <<gHistory, gPower, gMode, gTarget, gPhase, gSeen, gBefore, gWrite, gReceipt>>
  BY DEF groupVars
<1>2. GroupTypes' /\ Blockchain' /\ G!Now' = G!Now
  BY <1>1, SameChain DEF GroupInv, GroupTypes
<1>3. ProposedByWrite'
  BY <1>1, <1>2 DEF GroupInv, ProposedByWrite
<1>4. SeenInBlock'
  BY <1>1 DEF GroupInv, SeenInBlock, G!TotalPower, G!PowerOf
<1>5. BeforeHoldsProposals' /\ ReceiptOfWrite'
  BY <1>1 DEF GroupInv, BeforeHoldsProposals, ReceiptOfWrite
<1>6. G!ReceiptTrue'
  BY <1>1, <1>2 DEF GroupInv, G!ReceiptTrue, G!Included
<1> QED BY <1>2, <1>3, <1>4, <1>5, <1>6 DEF GroupInv

LEMMA ExecutorsStutter == ExecutorInv /\ UNCHANGED executorVars => ExecutorInv'
BY SameScript DEF executorVars, ExecutorInv

LEMMA TokensStutter == TokenInv /\ UNCHANGED tokenVars => TokenInv'
BY InputSteps DEF tokenVars, TokenInv, TokenTypes

LEMMA NextWrites == WritesInv /\ [Next]_vars => WritesInv'
<1> SUFFICES ASSUME WritesInv, [Next]_vars PROVE WritesInv'
  OBVIOUS
<1>1. part' = part
  BY DEF Next, vars, DocumentNext, ContractNext, TokenNext, GroupNext, ExecutorNext, FormNext
<1>2. ASSUME part = "documents" PROVE DocumentInv'
  <2>1. D!Next \/ UNCHANGED documentVars
    BY <1>2 DEF Next, vars, DocumentNext, ContractNext, TokenNext, GroupNext, ExecutorNext, FormNext
  <2> QED BY <1>2, <2>1, NextDocuments, DocumentsStutter DEF WritesInv
<1>3. ASSUME part = "contracts" PROVE ContractInv'
  <2>1. C!Next \/ UNCHANGED contractVars
    BY <1>3 DEF Next, vars, DocumentNext, ContractNext, TokenNext, GroupNext, ExecutorNext, FormNext
  <2> QED BY <1>3, <2>1, NextContracts, ContractsStutter DEF WritesInv
<1>4. ASSUME part = "groups" PROVE GroupInv'
  <2>1. G!Next \/ UNCHANGED groupVars
    BY <1>4 DEF Next, vars, DocumentNext, ContractNext, TokenNext, GroupNext, ExecutorNext, FormNext
  <2> QED BY <1>4, <2>1, NextGroups, GroupsStutter DEF WritesInv
<1>5. ASSUME part = "form" PROVE FormInv'
  <2>1. F!Next \/ UNCHANGED formVars
    BY <1>5 DEF Next, vars, DocumentNext, ContractNext, TokenNext, GroupNext, ExecutorNext, FormNext
  <2> QED BY <1>5, <2>1, NextForm DEF WritesInv
<1>6. ASSUME part = "executors" PROVE ExecutorInv'
  <2>1. E!Next \/ UNCHANGED executorVars
    BY <1>6 DEF Next, vars, DocumentNext, ContractNext, TokenNext, GroupNext, ExecutorNext, FormNext
  <2> QED BY <1>6, <2>1, NextExecutors, ExecutorsStutter DEF WritesInv
<1>7. ASSUME part = "tokens" PROVE TokenInv'
  <2>1. T!Next \/ UNCHANGED tokenVars
    BY <1>7 DEF Next, vars, DocumentNext, ContractNext, TokenNext, GroupNext, ExecutorNext, FormNext
  <2> QED BY <1>7, <2>1, NextTokens, TokensStutter DEF WritesInv
<1> QED BY <1>1, <1>2, <1>3, <1>4, <1>5, <1>6, <1>7 DEF WritesInv

\* Documents, contracts, token forms, group writes, executors and the document form keep
\* their invariants, whatever the constants are.
THEOREM WritesInvariant == Spec => []WritesInv
BY InitWrites, NextWrites, PTL DEF Spec

\* A replacement Platform accepts was edited from the revision it replaces, whatever the
\* cache held when the form loaded the document, and whatever it was reloaded with.
THEOREM NoUpdateIsLost == Spec => []NoLostUpdate
<1>1. WritesInv => NoLostUpdate
  BY DEF WritesInv, DocumentInv, NoLostUpdate
<1> QED BY <1>1, WritesInvariant, PTL

\* A contract update that is accepted replaces the version its texts were edited from.
THEOREM UpdatesReplaceWhatWasEdited == Spec => []ReplacesWhatWasEdited
<1>1. WritesInv => ReplacesWhatWasEdited
  BY DEF WritesInv, ContractInv, ReplacesWhatWasEdited
<1> QED BY <1>1, WritesInvariant, PTL

\* What the receipt of a group action says is true, for any number of actions and blocks,
\* and any reads of them; of its balances, that they are of a later block than the snapshot.
\* The receipt of a direct write shows none without a warning that do not include the write.
THEOREM ReceiptsAreTrue == Spec => []ReceiptTrue
<1>1. WritesInv => ReceiptTrue
  BY DEF WritesInv, GroupInv, ReceiptTrue
<1> QED BY <1>1, WritesInvariant, PTL

\* The document the shell reviews is that of the form, complete, accepted by the schema,
\* with no value entered for another type or contract, for any schemas.
THEOREM DocumentsAreOfForm == Spec => []DocumentIsOfForm
<1>1. WritesInv => DocumentIsOfForm
  BY FormIsDocument DEF WritesInv, DocumentIsOfForm
<1> QED BY <1>1, WritesInvariant, PTL

\* The executors of all operations but those of tokens, whose executor GroupActions models
\* and ReadConfirmsWrite refutes, implement what they promise: whatever step fails, in any
\* order with Platform, the user and others, the verdict is true, the reviewed key or none
\* signs, and no key is left in memory; for any keys and any inputs.
THEOREM ExecutorsKeepPromise == Spec => KeepsPromise
<1>1. Init => E!Promise!Init
  BY DEF Init, NoExecutors, E!Init, E!Promise!Init, E!Promise!Running
<1>2. WritesInv /\ [Next]_vars => [E!Promise!Next]_(E!Promise!vars)
  <2> SUFFICES ASSUME WritesInv, [Next]_vars
               PROVE  E!Promise!Next \/ UNCHANGED promiseVars
    BY DEF E!Promise!vars, promiseVars
  <2>1. \/ part = "executors" /\ E!Next
        \/ UNCHANGED executorVars
    BY DEF Next, vars, DocumentNext, ContractNext, TokenNext, GroupNext, ExecutorNext, FormNext
  <2>2. CASE UNCHANGED executorVars
    BY <2>2 DEF executorVars, promiseVars
  <2> QED BY <2>1, <2>2, StepKeepsPromise DEF WritesInv
<1> QED BY <1>1, <1>2, WritesInvariant, PTL
       DEF Spec, KeepsPromise, E!KeepsPromise, E!Promise!Spec

\* The form of a token operation and its executor agree, each on a snapshot of its own: what
\* the form lets through the executor accepts while the data is still true, or refuses as a
\* proposal that may be a duplicate and for nothing else; and what is called unavailable the
\* executor refuses.  For any tokens, rules, groups and proposals, any fields typed and links
\* followed, with or without the bound of TokenSamples.
THEOREM FormsAgreeWithExecutor == Spec => []FormAgreesWithExecutor
<1>1. WritesInv => FormAgreesWithExecutor
  BY FormAgrees DEF WritesInv, FormAgreesWithExecutor
<1> QED BY <1>1, WritesInvariant, PTL
=============================================================================
