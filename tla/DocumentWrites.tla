---------------------------- MODULE DocumentWrites ----------------------------
(***************************************************************************)
(* Writing documents: the edit form (forms/DocumentReplace.tsx), the other *)
(* document forms, and their executors (broadcast/executors.ts).           *)
(*                                                                         *)
(* Anyone may write the same documents meanwhile.  Platform's own rules    *)
(* are external: a write is accepted of the owner (a purchase, of another  *)
(* at the listed price) that carries the stored revision + 1; a deletion   *)
(* whatever the revision.  What is told apart of a document's properties   *)
(* is the document and the revision they were read from.                   *)
(***************************************************************************)
EXTENDS Integers

CONSTANTS Docs,         \* documents, each by its contract, type and id
          Prices,       \* prices a listing may have; 0 is none
          MaxRevision   \* bound: the last revision of a document

VARIABLES
  doc,      \* doc[d]: on Platform, [exists, mine, revision, price]
  cached,   \* cached[d]: the revision docQuery holds, 0 for no data
  target,   \* the document the edit form names, NoDoc while it is not open
  loaded,   \* the form's `loaded`: [target, revision]
  editing,  \* the form's `properties`, by what they were read from: [of, base]
  reload,   \* the document named when Reload was pressed, until it resolves
  op,       \* the approved write, from its executor's start to its end
  outcome   \* the last write, with the document Platform held when it arrived

vars == <<doc, cached, target, loaded, editing, reload, op, outcome>>

NoDoc == "no document"
NotLoaded == [target |-> NoDoc, revision |-> 0]
NoProperties == [of |-> NoDoc, base |-> 0]
NoOp == [at |-> "none"]
Deleted == [exists |-> FALSE, mine |-> FALSE, revision |-> MaxRevision, price |-> 0]

Init ==
  /\ doc = [d \in Docs |-> [exists |-> TRUE, mine |-> TRUE, revision |-> 1, price |-> 0]]
  /\ cached = [d \in Docs |-> 0]
  /\ target = NoDoc /\ loaded = NotLoaded /\ editing = NoProperties
  /\ reload = NoDoc /\ op = NoOp /\ outcome = NoOp

-----------------------------------------------------------------------------
(* The edit form. *)

\* docQuery answers, on mount or when stale; its data stay for a day after.
DocQueryAnswers(d) ==
  /\ d = target /\ doc[d].exists /\ cached[d] # doc[d].revision
  /\ cached' = [cached EXCEPT ![d] = doc[d].revision]
  /\ UNCHANGED <<doc, target, loaded, editing, reload, op, outcome>>

\* populate(): of the render that names t, given docQuery's document d.
Populate(t, d, revision) ==
  /\ editing' = [of |-> d, base |-> revision]
  /\ loaded' = [target |-> t, revision |-> revision]

\* The effect that loads the document named, once docQuery has data for it.
LoadEffect ==
  /\ target # NoDoc /\ cached[target] # 0 /\ loaded.target # target
  /\ Populate(target, target, cached[target])
  /\ UNCHANGED <<doc, cached, target, reload, op, outcome>>

\* Another contract, type or id is entered: what is loaded is not of it.
NameDocument(d) ==
  /\ target \notin {NoDoc, d}
  /\ target' = d
  /\ UNCHANGED <<doc, cached, loaded, editing, reload, op, outcome>>

PressReload ==
  /\ target # NoDoc /\ reload = NoDoc
  /\ loaded' = NotLoaded /\ reload' = target
  /\ UNCHANGED <<doc, cached, target, editing, op, outcome>>

\* Mistake: whatever document the refetch resolves with is taken.
BugNoIdCheck(d) == FALSE
\* "Ignore a response for a different document (e.g. a late refetch)."
Ignored(d) == d # reload

\* refetch() resolves with the observer's result, which is of the document
\* named by then; populate is still that of the render Reload was pressed in.
ReloadResolves ==
  /\ reload # NoDoc
  /\ LET now == IF target = reload /\ doc[target].exists THEN doc[target].revision
                ELSE cached[target] IN
     /\ cached' = [cached EXCEPT ![target] = now]
     /\ IF now = 0 \/ Ignored(target) THEN UNCHANGED <<loaded, editing>>
        ELSE Populate(reload, target, now)
  /\ reload' = NoDoc
  /\ UNCHANGED <<doc, target, op, outcome>>

\* The form is opened, by a link or "Start another operation"; and left.
OpenForm(d) ==
  /\ target = NoDoc /\ op = NoOp
  /\ target' = d
  /\ UNCHANGED <<doc, cached, loaded, editing, reload, op, outcome>>

Unmount ==
  /\ target' = NoDoc /\ loaded' = NotLoaded /\ editing' = NoProperties
  /\ reload' = NoDoc

LeaveForm ==
  /\ target # NoDoc
  /\ Unmount
  /\ UNCHANGED <<doc, cached, op, outcome>>

-----------------------------------------------------------------------------
(* The executors. *)

\* The edit form has options only of the document that is loaded; the shell
\* renders no form while it submits and shows the receipt.
ApproveReplace ==
  /\ target # NoDoc /\ loaded.target = target
  /\ op' = [at |-> "submitted", kind |-> "replace", doc |-> target,
            revision |-> loaded.revision + 1, price |-> 0,
            of |-> editing.of, base |-> editing.base]
  /\ outcome' = NoOp
  /\ Unmount
  /\ UNCHANGED <<doc, cached>>

\* The other forms name a document, whatever docQuery knows of it.
Approve(kind, d, at, price) ==
  /\ op = NoOp /\ target = NoDoc
  /\ op' = [at |-> at, kind |-> kind, doc |-> d, revision |-> 0, price |-> price,
            of |-> d, base |-> 0]
  /\ outcome' = NoOp
  /\ UNCHANGED <<doc, cached, target, loaded, editing, reload>>

ApproveDelete(d) == Approve("delete", d, "submitted", 0)
ApproveTransfer(d) == Approve("transfer", d, "fetching", 0)
ApproveSetPrice(d) == \E price \in Prices \cup {0} : Approve("setPrice", d, "fetching", price)
ApprovePurchase(d) == \E price \in Prices : Approve("purchase", d, "fetching", price)

NextRevision(stored) == stored + 1

Ends(result) ==
  /\ op' = NoOp
  /\ outcome' = [kind |-> op.kind, doc |-> op.doc, result |-> result,
                 of |-> op.of, base |-> op.base, stored |-> doc[op.doc]]

\* fetchDocumentForNextRevision
FetchDocument ==
  /\ op.at = "fetching"
  /\ IF doc[op.doc].exists
     THEN /\ op' = [op EXCEPT !.at = "submitted", !.base = doc[op.doc].revision,
                              !.revision = NextRevision(doc[op.doc].revision)]
          /\ UNCHANGED outcome
     ELSE Ends("not submitted")
  /\ UNCHANGED <<doc, cached, target, loaded, editing, reload>>

-----------------------------------------------------------------------------
(* Platform, and everyone else. *)

Signable(d) ==
  /\ d.exists
  /\ op.kind = "delete" \/ (op.revision = d.revision + 1 /\ d.revision < MaxRevision)
  /\ IF op.kind = "purchase" THEN ~d.mine /\ d.price = op.price ELSE d.mine

Written(d) ==
  CASE op.kind = "delete"   -> Deleted
    [] op.kind = "replace"  -> [d EXCEPT !.revision = @ + 1]
    [] op.kind = "setPrice" -> [d EXCEPT !.revision = @ + 1, !.price = op.price]
    [] op.kind = "transfer" -> [d EXCEPT !.revision = @ + 1, !.price = 0, !.mine = FALSE]
    [] op.kind = "purchase" -> [d EXCEPT !.revision = @ + 1, !.price = 0, !.mine = TRUE]

PlatformAnswers ==
  /\ op.at = "submitted"
  /\ op.kind # "delete" => doc[op.doc].revision < MaxRevision
  /\ IF Signable(doc[op.doc])
     THEN doc' = [doc EXCEPT ![op.doc] = Written(@)] /\ Ends("accepted")
     ELSE Ends("rejected") /\ UNCHANGED doc
  /\ UNCHANGED <<cached, target, loaded, editing, reload>>

ExecuteDocumentReplace == op # NoOp /\ op.kind = "replace" /\ PlatformAnswers
ExecuteDocumentDelete == op # NoOp /\ op.kind = "delete" /\ PlatformAnswers
ExecuteDocumentTransfer ==
  op # NoOp /\ op.kind = "transfer" /\ (FetchDocument \/ PlatformAnswers)
ExecuteDocumentSetPrice ==
  op # NoOp /\ op.kind = "setPrice" /\ (FetchDocument \/ PlatformAnswers)
ExecuteDocumentPurchase ==
  op # NoOp /\ op.kind = "purchase" /\ (FetchDocument \/ PlatformAnswers)

\* Another tab, wallet or identity writes the document.
OtherWrites(d) ==
  /\ doc[d].exists /\ doc[d].revision < MaxRevision
  /\ \E next \in {[doc[d] EXCEPT !.revision = @ + 1, !.mine = TRUE, !.price = 0], Deleted}
               \cup {[doc[d] EXCEPT !.revision = @ + 1, !.mine = FALSE, !.price = price] :
                       price \in Prices} :
       doc' = [doc EXCEPT ![d] = next]
  /\ UNCHANGED <<cached, target, loaded, editing, reload, op, outcome>>

Next ==
  \/ \E d \in Docs :
       \/ DocQueryAnswers(d) \/ NameDocument(d) \/ OpenForm(d) \/ OtherWrites(d)
       \/ ApproveDelete(d) \/ ApproveTransfer(d) \/ ApproveSetPrice(d) \/ ApprovePurchase(d)
  \/ LeaveForm \/ LoadEffect \/ PressReload \/ ReloadResolves \/ ApproveReplace
  \/ ExecuteDocumentReplace \/ ExecuteDocumentDelete \/ ExecuteDocumentTransfer
  \/ ExecuteDocumentSetPrice \/ ExecuteDocumentPurchase

Spec == Init /\ [][Next]_vars

-----------------------------------------------------------------------------
(* Properties. *)

Did(kinds, result) ==
  outcome # NoOp /\ outcome.kind \in kinds /\ outcome.result = result

\* No update is lost: a replacement Platform accepts was edited from the very
\* revision it replaces, and of that document, whatever was named, reloaded or
\* answered late while the form was open.
NoLostUpdate ==
  Did({"replace"}, "accepted") =>
    outcome.of = outcome.doc /\ outcome.base = outcome.stored.revision

=============================================================================
