------------------------- MODULE OperationShellProofs -------------------------
(***************************************************************************)
(* Proofs about OperationShell, for any number of sessions, signers, keys, *)
(* reviews and operations, for operations the connected signer signs and   *)
(* for those that sign with keys of their form: a write starts once and    *)
(* only for what the user approved, no outcome is lost, and inputs and     *)
(* keys are dropped when a call ends.                                      *)
(*                                                                         *)
(* What React queued and what it rendered differ; most of the invariant    *)
(* says how far they may drift apart before a click is handled.            *)
(***************************************************************************)
EXTENDS OperationShell, TLAPS, WellFoundedInduction

\* TypeOK, and the types of the providers' variables and of the histories.
Typed ==
    /\ TypeOK
    /\ sdk \in Session0 /\ shownSdk \in Session0
    /\ signer \in Signer0 /\ shownSigner \in Signer0
    /\ boundTo \in [Signers -> Session0]
    /\ deps.binding \in Bindings /\ deps.review \in Reviews \cup {None}
    /\ reached \subseteq ReviewIds /\ unknown \subseteq ReviewIds
    /\ acked \subseteq ReviewIds /\ approved \subseteq ReviewIds \X SigningKeys

\* Children render the provider's SDK, or one whose session was aborted.
ShownSdkKnown == shownSdk # 0 /\ shownSdk \notin aborted => shownSdk = sdk

\* A submission under way, or over, is shown as one; and a settled one holds nothing.
Staged(s) ==
    /\ s.step \in {2, 3} <=> s.submission # 0
    /\ s.submission # 0 /\ ~s.busy => s.options = None /\ s.review = None

\* Between clicks, React may lag behind only in what ends a review or a submission.
Lag ==
    /\ sync = "effects" => effects
    /\ ~mounted => ~effects /\ keyRun = None /\ criteriaRun = None
    /\ sync # "commit" => /\ shell.submission \in {0, seen.submission}
                          /\ shell.review \in {None, seen.review}

\* The effects ran with what is rendered, or are due; a review taken is of the binding
\* they ran with, unless the click came first.
Depends ==
    mounted =>
      /\ ~effects => deps.binding = Binding /\ deps.review = seen.review
      /\ sync # "effects" => seen.review \in {None, deps.review}
      /\ seen.review # None /\ seen.review.binding = Binding => deps.binding = Binding
      /\ shell.review # None => shell.review.binding \in {deps.binding, Binding}

\* Reviews are numbered as they are taken, and nothing is known of those to come.
NumberedIn(s) ==
    /\ s.review # None => s.review.id <= reviews
    /\ s.reviewKey # None => s.reviewKey.review <= reviews

Numbered ==
    /\ NumberedIn(shell) /\ NumberedIn(seen)
    /\ deps.review # None => deps.review.id <= reviews
    /\ call.pc # "none" => call.review.id <= reviews
    /\ criteriaRun # None => deps.review # None /\ criteriaRun.review = deps.review.id
    /\ \A r \in ReviewIds : reviews < r =>
          writes[r] = 0 /\ \A k \in SigningKeys : <<r, k>> \notin approved

\* A review that is not submitted yet was not written, and its acknowledgement is its own.
Unsubmitted(s) ==
    s.review # None =>
      /\ s.submission = 0 => writes[s.review.id] = 0
      /\ s.ack => s.review.id \in acked

\* The shell renders the call, or the click that started it.
CallShown ==
    \/ /\ seen.submission = call.review.id
       /\ seen.busy /\ seen.outcome = "none"
    \/ /\ sync = "commit" /\ seen.submission = 0
       /\ seen.review # None /\ seenCurrent /\ seen.review.binding = Binding

\* The call under way is of the review the shell submitted, with an approved key, and
\* Platform has heard nothing of it.
Called ==
    /\ inFlight <=> call.pc # "none"
    /\ call.pc # "none" =>
         /\ call.review # None
         /\ call.review.id \notin reached
         /\ shell.submission = call.review.id /\ shell.busy /\ shell.outcome = "none"
         /\ call.pc = "write" <=> writes[call.review.id] # 0
         /\ NeedsAck => call.review.id \in acked
         /\ SignsInForm \/ <<call.review.id, call.key>> \in approved
         /\ mounted => CallShown
    /\ ~SignsInForm /\ call.pc \in {"version", "build", "write"} => material = call.key
    /\ material # 0 => call.pc \in {"version", "build", "write"}

\* What the histories say of the shell.
Outcomes ==
    /\ \A r \in reached : writes[r] # 0
    /\ shell.outcome = "notSubmitted" => shell.submission \notin reached
    /\ mounted => \A r \in unknown :
          /\ shell.submission = r /\ shell.outcome = "unknown"
          /\ seen.submission = r /\ seen.outcome \in {"none", "unknown"}

\* Keys are only disabled on Platform, so lists only shrink, or fail to be read.
ListOf(x) == IF x = None THEN {} ELSE x.list
Known == chainKeys \cup ListOf(shell.keys) \cup ListOf(seen.keys) \cup ListOf(criteriaRun)

Shrinking ==
    /\ ListOf(shell.keys) # {} => chainKeys \subseteq ListOf(shell.keys)
    /\ ListOf(seen.keys) # {} =>
          chainKeys \subseteq ListOf(seen.keys) /\ ListOf(shell.keys) \subseteq ListOf(seen.keys)
    /\ ListOf(criteriaRun) # {} => Known \subseteq ListOf(criteriaRun)

\* A review's key is the best of its time: one that another replaced is gone for good.
Replaced(k) == k \notin Known
Best(s) ==
    s.reviewKey # None =>
      /\ \A k \in Known : s.reviewKey.confirmed <= k
      /\ s.reviewKey.key # 0 =>
           /\ \A k \in Known : s.reviewKey.key <= k
           /\ s.reviewKey.confirmed # 0
           /\ s.reviewKey.key # s.reviewKey.confirmed => Replaced(s.reviewKey.confirmed)

\* The key confirmed for the review, if one is.
OfReview(s) == s.reviewKey # None /\ s.reviewKey.review = s.review.id
ConfirmedOf(s) == IF OfReview(s) THEN s.reviewKey.confirmed ELSE 0
Shown(r) == \E k \in SigningKeys : <<r, k>> \in approved

\* Once the user was shown a key, the confirmed key is one the user let pass, or one
\* that will not be offered again.
Approving ==
    /\ shell.review # None /\ Shown(shell.review.id) =>
         /\ ConfirmedOf(shell) # 0
         /\ \/ <<shell.review.id, ConfirmedOf(shell)>> \in approved
            \/ /\ Replaced(ConfirmedOf(shell))
               /\ shell.reviewKey.key # ConfirmedOf(shell)
    /\ seen.review # None /\ OfReview(seen)
         /\ seen.reviewKey.key # 0 /\ seen.reviewKey.key = seen.reviewKey.confirmed =>
         <<seen.review.id, seen.reviewKey.key>> \in approved

\* A key check that overtakes the screen keeps the key that was confirmed.
Overtaking ==
    shell.review # None /\ seen.reviewKey # None
      /\ seen.reviewKey.review = shell.review.id =>
      /\ OfReview(shell)
      /\ sync # "commit" /\ seen.reviewKey.confirmed # 0 =>
           shell.reviewKey.confirmed = seen.reviewKey.confirmed
      /\ sync # "commit" /\ seen.reviewKey.key \notin {0, seen.reviewKey.confirmed} =>
           shell.reviewKey.key # seen.reviewKey.confirmed

ShellInv ==
    /\ Typed /\ ShownSdkKnown /\ Lag /\ Depends /\ Numbered
    /\ Staged(shell) /\ Staged(seen) /\ Unsubmitted(shell) /\ Unsubmitted(seen)
    /\ Called /\ Outcomes
    /\ Shrinking /\ Best(shell) /\ Best(seen) /\ Approving /\ Overtaking

USE DEF envVars, feedVars, signerVars, reactVars, runVars, callVars, historyVars

\* A nonempty list of keys has a best one.
LEMMA BestIsFirst ==
  ASSUME ShellAssumption, NEW list \in SUBSET SigningKeys, list # {}
  PROVE  BestOf(list) \in list /\ \A k \in list : BestOf(list) <= k
<1> DEFINE before == {p \in Nat \X Nat : p[1] < p[2]}
<1>1. list \subseteq Nat
  BY DEF ShellAssumption
<1>2. before = OpToRel(<, Nat)
  BY Zenon DEF OpToRel
<1>3. IsWellFoundedOn(before, Nat)
  BY <1>2, NatLessThanWellFounded, Zenon
<1>4. PICK m \in list : \A k \in list : ~(<<k, m>> \in before)
  BY <1>1, <1>3, WFMin
<1>5. \A k \in list : m \in Nat /\ k \in Nat /\ ~(k < m)
  BY <1>1, <1>4
<1>6. \A k \in list : m <= k
  BY <1>5
<1> QED BY <1>6 DEF BestOf

\* Initially nothing is reviewed.
LEMMA InitInv ==
  ASSUME ShellAssumption, Init
  PROVE  ShellInv
<1> USE DEF ShellAssumption, Init, SignerFeedInit, FeedInit, SignerInit
<1>1. Typed
  <2>1. shell \in ShellStates /\ seen \in ShellStates
    BY DEF ShellStates, EmptyShell
  <2>2. deps.binding \in Bindings /\ deps.review = None
    BY DEF DepsNow, Binding, Bindings, Session0, Signer0, EmptyShell
  <2>3. call \in [pc : {"none", "criteria", "prepare", "version", "build", "write"},
                  review : Reviews \cup {None}, key : Key0]
    BY DEF NoCall, Key0
  <2>4. writes \in [ReviewIds -> Nat] /\ boundTo \in [Signers -> Session0]
    BY DEF Session0
  <2>5. /\ sdk \in Session0 /\ shownSdk \in Session0
        /\ signer \in Signer0 /\ shownSigner \in Signer0 /\ material \in Key0
    BY DEF Session0, Signer0, Key0
  <2>6. /\ op \in 1..MaxOps /\ reviews \in 0..MaxReviews
        /\ sync \in {"none", "commit", "effects"} /\ chainKeys \subseteq SigningKeys
    OBVIOUS
  <2> QED BY <2>1, <2>2, <2>3, <2>4, <2>5, <2>6 DEF Typed, TypeOK
<1>2. ShownSdkKnown
  BY DEF ShownSdkKnown
<1>3. Lag
  BY DEF Lag, EmptyShell
<1>4. Depends
  BY DEF Depends, DepsNow, EmptyShell
<1>5. Numbered
  BY DEF Numbered, NumberedIn, DepsNow, EmptyShell, NoCall
<1>6. Staged(shell) /\ Staged(seen) /\ Unsubmitted(shell) /\ Unsubmitted(seen)
  BY DEF Staged, Unsubmitted, EmptyShell
<1>7. Called /\ Outcomes
  BY DEF Called, Outcomes, NoCall, EmptyShell
<1>8. Shrinking /\ Best(shell) /\ Best(seen) /\ Approving /\ Overtaking
  BY DEF Shrinking, Best, Approving, Overtaking, Known, ListOf, EmptyShell, OfReview
<1> QED BY <1>1, <1>2, <1>3, <1>4, <1>5, <1>6, <1>7, <1>8 DEF ShellInv

\* The form hands over inputs.
LEMMA EditStep ==
  ASSUME ShellAssumption, ShellInv,
         NEW o \in Inputs \cup {None}, NEW click \in BOOLEAN, EditOptions(o, click)
  PROVE  ShellInv'
<1> USE DEF ShellAssumption, ShellInv
<1>1. /\ UNCHANGED <<envVars, reactVars, mounted, reviews, runVars, chainKeys, callVars,
                     historyVars>>
      /\ sync = "none" /\ mounted /\ seen.submission = 0
      /\ shell' = [shell EXCEPT !.options = o]
      /\ sync' \in {"none", "commit"}
  BY DEF EditOptions, CanClick, Free, Flush
<1>2. shell' \in ShellStates
  BY <1>1 DEF Typed, TypeOK, ShellStates
<1>3. /\ shell'.options = o /\ shell'.review = shell.review
      /\ shell'.submission = shell.submission /\ shell'.step = shell.step
      /\ shell'.ack = shell.ack /\ shell'.busy = shell.busy /\ shell'.outcome = shell.outcome
      /\ shell'.keys = shell.keys /\ shell'.reviewKey = shell.reviewKey
      /\ shell'.refresh = shell.refresh
  BY <1>1 DEF Typed, TypeOK, ShellStates
<1>4. Typed'
  BY <1>1, <1>2, <1>3 DEF Typed, TypeOK
<1>5. ShownSdkKnown'
  BY <1>1, <1>2, <1>3 DEF ShownSdkKnown
<1>6. Lag'
  BY <1>1, <1>2, <1>3 DEF Lag
<1>7. Depends'
  BY <1>1, <1>2, <1>3 DEF Depends, Binding, Lag
<1>8. Numbered'
  BY <1>1, <1>2, <1>3 DEF Numbered, NumberedIn
<1>9. Staged(shell)' /\ Staged(seen)'
  BY <1>1, <1>2, <1>3 DEF Staged, Lag
<1>10. Unsubmitted(shell)' /\ Unsubmitted(seen)'
  BY <1>1, <1>2, <1>3 DEF Unsubmitted, Lag
<1>11. Called'
  BY <1>1, <1>2, <1>3 DEF Called, CallShown, Binding, Lag
<1>12. Outcomes'
  BY <1>1, <1>2, <1>3 DEF Outcomes
<1>13. Shrinking' /\ Best(shell)' /\ Best(seen)'
  BY <1>1, <1>2, <1>3 DEF Shrinking, Best, Known, ListOf, Replaced
<1>14. Approving' /\ Overtaking'
  BY <1>1, <1>2, <1>3 DEF Approving, Overtaking, Known, ListOf, OfReview, ConfirmedOf, Replaced, Shown
<1> QED BY <1>4, <1>5, <1>6, <1>7, <1>8, <1>9, <1>10, <1>11, <1>12, <1>13, <1>14

\* A review is taken.
LEMMA ReviewStep ==
  ASSUME ShellAssumption, ShellInv, Review
  PROVE  ShellInv'
<1> USE DEF ShellAssumption, ShellInv
<1>1. /\ UNCHANGED <<envVars, reactVars, mounted, runVars, chainKeys, callVars, historyVars>>
      /\ sync = "none" /\ mounted /\ seen.submission = 0 /\ seen.options # None
      /\ reviews < MaxReviews /\ reviews' = reviews + 1
      /\ shell' = [shell EXCEPT !.ack = FALSE, !.step = 1,
                      !.review = [id |-> reviews + 1, binding |-> Binding, options |-> seen.options]]
      /\ sync' = IF shell' = seen THEN "none" ELSE "commit"
  BY DEF Review, CanClick, Free, Flush, Click, ClearAck
<1>2. shell' \in ShellStates
  <2>1. \A k \in BOOLEAN, r \in Reviews \cup {None}, p \in 0..3 :
           [shell EXCEPT !.ack = k, !.step = p, !.review = r] \in ShellStates
    BY DEF Typed, TypeOK, ShellStates
  <2>2. [id |-> reviews + 1, binding |-> Binding, options |-> seen.options] \in Reviews
    <3>1. reviews + 1 \in ReviewIds
      BY <1>1 DEF ReviewIds, Typed, TypeOK
    <3>2. Binding \in Bindings /\ seen.options \in Inputs
      BY <1>1 DEF Binding, Bindings, Typed, TypeOK, ShellStates
    <3> QED BY <3>1, <3>2 DEF Reviews
  <2>3. 1 \in 0..3 /\ FALSE \in BOOLEAN
    OBVIOUS
  <2> QED BY <1>1, <2>1, <2>2, <2>3, Zenon
<1>3. /\ shell'.ack = FALSE /\ shell'.step = 1
      /\ shell'.review = [id |-> reviews + 1, binding |-> Binding, options |-> seen.options]
      /\ shell'.options = shell.options /\ shell'.submission = shell.submission
      /\ shell'.busy = shell.busy /\ shell'.outcome = shell.outcome
      /\ shell'.keys = shell.keys /\ shell'.reviewKey = shell.reviewKey
      /\ shell'.refresh = shell.refresh
  BY <1>1 DEF Typed, TypeOK, ShellStates, Reviews, ReviewIds, Binding, Bindings
<1>4. Typed'
  <2>1. reviews' \in 0..MaxReviews
    BY <1>1 DEF Typed, TypeOK
  <2> QED BY <1>1, <1>2, <2>1 DEF Typed, TypeOK
<1>5. ShownSdkKnown'
  BY <1>1, <1>2, <1>3 DEF ShownSdkKnown
<1>6. Lag'
  BY <1>1, <1>2, <1>3 DEF Lag
<1>7. Depends'
  BY <1>1, <1>2, <1>3 DEF Depends, Binding, Lag
<1>8. Numbered'
  <2>1. /\ reviews \in Nat /\ \A r \in ReviewIds : r \in Nat
        /\ seen.review # None => seen.review.id \in Nat
        /\ seen.reviewKey # None => seen.reviewKey.review \in Nat
        /\ shell.reviewKey # None => shell.reviewKey.review \in Nat
        /\ deps.review # None => deps.review.id \in Nat
        /\ call.pc # "none" => call.review.id \in Nat
    BY SMTT(20) DEF Typed, TypeOK, ShellStates, Reviews, ReviewIds, Called
  <2>2. shell'.review.id = reviews + 1
    BY <1>3
  <2>3. NumberedIn(shell)' /\ NumberedIn(seen)'
    BY <1>1, <1>3, <2>1, <2>2 DEF Numbered, NumberedIn
  <2> QED BY <1>1, <1>3, <2>1, <2>3 DEF Numbered
<1>9. Staged(shell)' /\ Staged(seen)'
  BY <1>1, <1>2, <1>3 DEF Staged, Lag
<1>10. Unsubmitted(shell)' /\ Unsubmitted(seen)'
  <2>1. reviews + 1 \in ReviewIds /\ reviews < reviews + 1
    BY <1>1 DEF ReviewIds, Typed, TypeOK
  <2>2. writes[reviews + 1] = 0
    BY <2>1 DEF Numbered
  <2>3. shell'.review.id = reviews + 1
    BY <1>3
  <2> QED BY <1>1, <1>3, <2>2, <2>3 DEF Unsubmitted
<1>11. Called'
  BY <1>1, <1>2, <1>3 DEF Called, CallShown, Binding, Lag
<1>12. Outcomes'
  BY <1>1, <1>2, <1>3 DEF Outcomes
<1>13. Shrinking' /\ Best(shell)' /\ Best(seen)'
  BY <1>1, <1>2, <1>3 DEF Shrinking, Best, Known, ListOf, Replaced
<1>14. Approving' /\ Overtaking'
  <2>1. reviews + 1 \in ReviewIds /\ reviews < reviews + 1
    BY <1>1 DEF ReviewIds, Typed, TypeOK
  <2>2. ~Shown(reviews + 1)
    BY <2>1 DEF Numbered, Shown
  <2>3. shell'.review.id = reviews + 1
    BY <1>3
  <2>4. Approving'
    BY <1>1, <1>3, <2>2, <2>3 DEF Approving, Shown, OfReview
  <2>5. seen.reviewKey # None => seen.reviewKey.review # reviews + 1
    BY DEF Numbered, NumberedIn, Typed, TypeOK, ShellStates, ReviewIds
  <2> QED BY <1>1, <1>3, <2>3, <2>4, <2>5 DEF Overtaking
<1> QED BY <1>4, <1>5, <1>6, <1>7, <1>8, <1>9, <1>10, <1>11, <1>12, <1>13, <1>14

\* The user acknowledges the review on screen.
LEMMA AcknowledgeStep ==
  ASSUME ShellAssumption, ShellInv, Acknowledge
  PROVE  ShellInv'
<1> USE DEF ShellAssumption, ShellInv
<1>1. /\ UNCHANGED <<envVars, reactVars, mounted, reviews, runVars, chainKeys, callVars, writes, reached,
                     unknown, approved>>
      /\ sync = "none" /\ seen.review # None
      /\ shell' = [shell EXCEPT !.ack = TRUE]
      /\ acked' = acked \cup {seen.review.id}
      /\ sync' \in {"none", "commit"}
  BY DEF Acknowledge, OnReviewStep, CanClick, Free, Click, Flush
<1>2. shell' \in ShellStates
  BY <1>1 DEF Typed, TypeOK, ShellStates
<1>3. /\ shell'.ack = TRUE /\ shell'.options = shell.options /\ shell'.review = shell.review
      /\ shell'.submission = shell.submission /\ shell'.step = shell.step
      /\ shell'.busy = shell.busy /\ shell'.outcome = shell.outcome
      /\ shell'.keys = shell.keys /\ shell'.reviewKey = shell.reviewKey
      /\ shell'.refresh = shell.refresh
  BY <1>1 DEF Typed, TypeOK, ShellStates
<1>4. Typed'
  BY <1>1, <1>2, <1>3 DEF Typed, TypeOK, ShellStates, Reviews
<1>5. ShownSdkKnown'
  BY <1>1, <1>2, <1>3 DEF ShownSdkKnown
<1>6. Lag'
  BY <1>1, <1>2, <1>3 DEF Lag
<1>7. Depends'
  BY <1>1, <1>2, <1>3 DEF Depends, Binding, Lag
<1>8. Numbered'
  BY <1>1, <1>2, <1>3 DEF Numbered, NumberedIn
<1>9. Staged(shell)' /\ Staged(seen)'
  BY <1>1, <1>2, <1>3 DEF Staged, Lag
<1>10. Unsubmitted(shell)' /\ Unsubmitted(seen)'
  BY <1>1, <1>2, <1>3 DEF Unsubmitted, Lag
<1>11. Called'
  BY <1>1, <1>2, <1>3 DEF Called, CallShown, Binding, Lag
<1>12. Outcomes'
  BY <1>1, <1>2, <1>3 DEF Outcomes
<1>13. Shrinking' /\ Best(shell)' /\ Best(seen)'
  BY <1>1, <1>2, <1>3 DEF Shrinking, Best, Known, ListOf, Replaced
<1>14. Approving' /\ Overtaking'
  BY <1>1, <1>2, <1>3 DEF Approving, Overtaking, Known, ListOf, OfReview, ConfirmedOf, Replaced, Shown
<1> QED BY <1>4, <1>5, <1>6, <1>7, <1>8, <1>9, <1>10, <1>11, <1>12, <1>13, <1>14

\* The user goes back to the form.
LEMMA BackStep ==
  ASSUME ShellAssumption, ShellInv, Back
  PROVE  ShellInv'
<1> USE DEF ShellAssumption, ShellInv
<1>1. /\ UNCHANGED <<envVars, reactVars, mounted, reviews, runVars, chainKeys, callVars, historyVars>>
      /\ sync = "none" /\ seen.step = 1
      /\ shell' = [shell EXCEPT !.ack = FALSE, !.review = None, !.step = 0]
      /\ sync' \in {"none", "commit"}
  BY DEF Back, OnReviewStep, CanClick, Free, Click, Flush, ClearAck
<1>2. shell' \in ShellStates
  <2>1. \A k \in BOOLEAN, r \in Reviews \cup {None}, p \in 0..3 :
           [shell EXCEPT !.ack = k, !.review = r, !.step = p] \in ShellStates
    BY DEF Typed, TypeOK, ShellStates
  <2>2. 0 \in 0..3 /\ None \in Reviews \cup {None} /\ FALSE \in BOOLEAN
    OBVIOUS
  <2> QED BY <1>1, <2>1, <2>2, Zenon
<1>3. /\ shell'.ack = FALSE /\ shell'.review = None /\ shell'.step = 0
      /\ shell'.options = shell.options /\ shell'.submission = shell.submission
      /\ shell'.busy = shell.busy /\ shell'.outcome = shell.outcome
      /\ shell'.keys = shell.keys /\ shell'.reviewKey = shell.reviewKey
      /\ shell'.refresh = shell.refresh
  BY <1>1 DEF Typed, TypeOK, ShellStates
<1>4. Typed'
  BY <1>1, <1>2, <1>3 DEF Typed, TypeOK
<1>5. ShownSdkKnown'
  BY <1>1, <1>2, <1>3 DEF ShownSdkKnown
<1>6. Lag'
  BY <1>1, <1>2, <1>3 DEF Lag
<1>7. Depends'
  BY <1>1, <1>2, <1>3 DEF Depends, Binding, Lag
<1>8. Numbered'
  BY <1>1, <1>2, <1>3 DEF Numbered, NumberedIn
<1>9. Staged(shell)' /\ Staged(seen)'
  BY <1>1, <1>2, <1>3 DEF Staged, Lag
<1>10. Unsubmitted(shell)' /\ Unsubmitted(seen)'
  BY <1>1, <1>2, <1>3 DEF Unsubmitted, Lag
<1>11. Called'
  BY <1>1, <1>2, <1>3 DEF Called, CallShown, Binding, Lag
<1>12. Outcomes'
  BY <1>1, <1>2, <1>3 DEF Outcomes
<1>13. Shrinking' /\ Best(shell)' /\ Best(seen)'
  BY <1>1, <1>2, <1>3 DEF Shrinking, Best, Known, ListOf, Replaced
<1>14. Approving' /\ Overtaking'
  BY <1>1, <1>2, <1>3 DEF Approving, Overtaking, Known, ListOf, OfReview, ConfirmedOf, Replaced, Shown
<1> QED BY <1>4, <1>5, <1>6, <1>7, <1>8, <1>9, <1>10, <1>11, <1>12, <1>13, <1>14

\* The user retries the key check.
LEMMA RetryStep ==
  ASSUME ShellAssumption, ShellInv, RetryKeyCheck
  PROVE  ShellInv'
<1> USE DEF ShellAssumption, ShellInv
<1>1. /\ UNCHANGED <<envVars, reactVars, mounted, reviews, runVars, chainKeys, callVars, historyVars>>
      /\ sync = "none" /\ shell.refresh < MaxRefresh
      /\ shell' = [shell EXCEPT !.keys = None, !.refresh = @ + 1]
      /\ sync' \in {"none", "commit"}
  BY DEF RetryKeyCheck, CanClick, Free, Click, Flush
<1>2. shell' \in ShellStates
  <2>1. \A k \in [binding : Bindings, list : SUBSET SigningKeys] \cup {None}, n \in 0..MaxRefresh :
           [shell EXCEPT !.keys = k, !.refresh = n] \in ShellStates
    BY DEF Typed, TypeOK, ShellStates
  <2>2. shell.refresh + 1 \in 0..MaxRefresh
    BY <1>1 DEF Typed, TypeOK, ShellStates
  <2>3. None \in [binding : Bindings, list : SUBSET SigningKeys] \cup {None}
    OBVIOUS
  <2> QED BY <1>1, <2>1, <2>2, <2>3, Zenon
<1>3. /\ shell'.keys = None /\ shell'.refresh = shell.refresh + 1
      /\ shell'.options = shell.options /\ shell'.review = shell.review
      /\ shell'.submission = shell.submission /\ shell'.step = shell.step
      /\ shell'.ack = shell.ack /\ shell'.busy = shell.busy /\ shell'.outcome = shell.outcome
      /\ shell'.reviewKey = shell.reviewKey
  BY <1>1 DEF Typed, TypeOK, ShellStates
<1>4. Typed'
  BY <1>1, <1>2, <1>3 DEF Typed, TypeOK
<1>5. ShownSdkKnown'
  BY <1>1, <1>2, <1>3 DEF ShownSdkKnown
<1>6. Lag'
  BY <1>1, <1>2, <1>3 DEF Lag
<1>7. Depends'
  BY <1>1, <1>2, <1>3 DEF Depends, Binding, Lag
<1>8. Numbered'
  BY <1>1, <1>2, <1>3 DEF Numbered, NumberedIn
<1>9. Staged(shell)' /\ Staged(seen)'
  BY <1>1, <1>2, <1>3 DEF Staged, Lag
<1>10. Unsubmitted(shell)' /\ Unsubmitted(seen)'
  BY <1>1, <1>2, <1>3 DEF Unsubmitted, Lag
<1>11. Called'
  BY <1>1, <1>2, <1>3 DEF Called, CallShown, Binding, Lag
<1>12. Outcomes'
  BY <1>1, <1>2, <1>3 DEF Outcomes
<1>13. Shrinking' /\ Best(shell)' /\ Best(seen)'
  BY <1>1, <1>2, <1>3 DEF Shrinking, Best, Known, ListOf, Replaced
<1>14. Approving' /\ Overtaking'
  BY <1>1, <1>2, <1>3 DEF Approving, Overtaking, Known, ListOf, OfReview, ConfirmedOf, Replaced, Shown
<1> QED BY <1>4, <1>5, <1>6, <1>7, <1>8, <1>9, <1>10, <1>11, <1>12, <1>13, <1>14

\* The user lets the key on screen pass.
LEMMA ConfirmStep ==
  ASSUME ShellAssumption, ShellInv, ConfirmKey
  PROVE  ShellInv'
<1> USE DEF ShellAssumption, ShellInv
<1>1. /\ UNCHANGED <<envVars, reactVars, mounted, reviews, runVars, chainKeys, callVars, writes, reached,
                     unknown, acked>>
      /\ sync = "none" /\ seen.step = 1 /\ seen.review # None
      /\ seen.reviewKey # None /\ seen.reviewKey.review = seen.review.id
      /\ seen.reviewKey.key \notin {0, seen.reviewKey.confirmed}
      /\ shell' = Confirmed(seen.reviewKey.key)
      /\ approved' = approved \cup {<<seen.review.id, seen.reviewKey.key>>}
      /\ sync' = IF shell' = seen THEN "none" ELSE "commit"
  BY DEF ConfirmKey, OnReviewStep, CanClick, Free, Click, Flush
<1>2. shell' \in ShellStates
  BY <1>1 DEF Typed, TypeOK, ShellStates, Confirmed, Key0
<1>3. /\ shell'.reviewKey = IF shell.reviewKey # None /\ shell.reviewKey.key = seen.reviewKey.key
                            THEN [shell.reviewKey EXCEPT !.confirmed = seen.reviewKey.key]
                            ELSE shell.reviewKey
      /\ shell'.options = shell.options /\ shell'.review = shell.review
      /\ shell'.submission = shell.submission /\ shell'.step = shell.step
      /\ shell'.ack = shell.ack /\ shell'.busy = shell.busy /\ shell'.outcome = shell.outcome
      /\ shell'.keys = shell.keys /\ shell'.refresh = shell.refresh
  BY <1>1 DEF Typed, TypeOK, ShellStates, Confirmed, Key0
<1>4. Typed'
  BY <1>1, <1>2, <1>3 DEF Typed, TypeOK, ShellStates, Reviews, Key0
<1>5. ShownSdkKnown'
  BY <1>1, <1>2, <1>3 DEF ShownSdkKnown
<1>6. Lag'
  BY <1>1, <1>2, <1>3 DEF Lag
<1>7. Depends'
  BY <1>1, <1>2, <1>3 DEF Depends, Binding, Lag
<1>8. Numbered'
  <2>1. seen.review.id \in Nat /\ seen.review.id <= reviews /\ reviews \in Nat
    BY <1>1 DEF Numbered, NumberedIn, Typed, TypeOK, ShellStates, Reviews, ReviewIds
  <2>2. shell'.reviewKey # None => shell.reviewKey # None /\ shell'.reviewKey.review = shell.reviewKey.review
    BY <1>3 DEF Typed, TypeOK, ShellStates
  <2>3. NumberedIn(shell)' /\ NumberedIn(seen)'
    BY <1>1, <1>3, <2>2 DEF Numbered, NumberedIn
  <2>4. \A r \in ReviewIds : reviews < r => r # seen.review.id
    BY <2>1 DEF ReviewIds
  <2> QED BY <1>1, <2>3, <2>4 DEF Numbered
<1>9. Staged(shell)' /\ Staged(seen)'
  BY <1>1, <1>2, <1>3 DEF Staged, Lag
<1>10. Unsubmitted(shell)' /\ Unsubmitted(seen)'
  BY <1>1, <1>2, <1>3 DEF Unsubmitted, Lag
<1>11. Called'
  BY <1>1, <1>2, <1>3 DEF Called, CallShown, Binding, Lag
<1>12. Outcomes'
  BY <1>1, <1>2, <1>3 DEF Outcomes
<1>13. Shrinking' /\ Best(shell)' /\ Best(seen)'
  BY <1>1, <1>2, <1>3 DEF Shrinking, Best, Known, ListOf, Replaced
<1>14. Approving' /\ Overtaking'
  <2> DEFINE shown == seen.reviewKey.key
  <2>1. shell.review # None => shell.review = seen.review
    BY <1>1 DEF Lag
  <2>2. seen.review.id \in ReviewIds /\ shown \in SigningKeys
    BY <1>1 DEF Typed, TypeOK, ShellStates, Reviews, Key0
  <2>3. seen.reviewKey.confirmed # 0 /\ Replaced(seen.reviewKey.confirmed)
    BY <1>1 DEF Best
  <2>4. shell.review # None =>
          /\ OfReview(shell)
          /\ shell.reviewKey.confirmed = seen.reviewKey.confirmed
          /\ shell.reviewKey.key # seen.reviewKey.confirmed
    BY <1>1, <2>1, <2>3 DEF Overtaking
  <2>5. shell.reviewKey # None =>
          /\ shell'.reviewKey # None
          /\ shell'.reviewKey.review = shell.reviewKey.review
          /\ shell'.reviewKey.key = shell.reviewKey.key
          /\ shell'.reviewKey.confirmed = IF shell.reviewKey.key = shown THEN shown
                                         ELSE shell.reviewKey.confirmed
    <3> DEFINE taken == [shell.reviewKey EXCEPT !.confirmed = shown]
    <3>1. ASSUME shell.reviewKey # None
          PROVE  /\ taken # None /\ taken.review = shell.reviewKey.review
                 /\ taken.key = shell.reviewKey.key /\ taken.confirmed = shown
      <4>1. shell.reviewKey \in [review : ReviewIds, key : Key0, confirmed : Key0]
        BY <3>1 DEF Typed, TypeOK, ShellStates
      <4>2. taken \in [review : ReviewIds, key : Key0, confirmed : Key0]
        BY <2>2, <4>1 DEF Key0
      <4>3. ReviewIds \subseteq Nat /\ Key0 \subseteq Nat
        BY DEF ReviewIds, Key0
      <4> QED BY <4>1, <4>2, <4>3
    <3> QED BY <1>3, <3>1
  <2>6. Known' = Known
    BY <1>1, <1>3 DEF Known, ListOf
  <2>7. ASSUME shell'.review # None
        PROVE  /\ ConfirmedOf(shell)' # 0
               /\ \/ <<shell'.review.id, ConfirmedOf(shell)'>> \in approved'
                  \/ /\ Replaced(ConfirmedOf(shell))'
                     /\ shell'.reviewKey.key # ConfirmedOf(shell)'
    <3>1. shell.review = seen.review /\ shell'.review = seen.review
      BY <1>3, <2>1, <2>7
    <3>2. OfReview(shell)' /\ ConfirmedOf(shell)' = shell'.reviewKey.confirmed
      BY <1>3, <2>4, <2>5, <2>7, <3>1 DEF OfReview, ConfirmedOf
    <3>3. CASE shell.reviewKey.key = shown
      BY <1>1, <2>2, <2>4, <2>5, <3>1, <3>2, <3>3 DEF OfReview
    <3>4. CASE shell.reviewKey.key # shown
      BY <1>1, <2>3, <2>4, <2>5, <2>6, <3>1, <3>2, <3>4 DEF OfReview, Replaced
    <3> QED BY <3>3, <3>4
  <2>8. Approving'
    BY <1>1, <2>7 DEF Approving, OfReview
  <2>9. Overtaking'
    <3>1. ASSUME shell'.review # None, seen'.reviewKey # None,
                 seen'.reviewKey.review = shell'.review.id
          PROVE  /\ OfReview(shell)'
                 /\ sync' # "commit" => /\ shell'.reviewKey.confirmed = seen.reviewKey.confirmed
                                        /\ shell'.reviewKey.key # seen.reviewKey.confirmed
      <4>1. OfReview(shell)'
        BY <1>3, <2>4, <2>5, <3>1 DEF OfReview
      <4>2. CASE shell.reviewKey.key = shown
        <5>1. shell'.reviewKey.confirmed = shown /\ shown # seen.reviewKey.confirmed
          BY <1>1, <1>3, <2>4, <2>5, <3>1, <4>2 DEF OfReview
        <5>2. shell' # seen
          BY <5>1
        <5>3. sync' = "commit"
          BY <1>1, <5>2
        <5> QED BY <4>1, <5>3
      <4>3. CASE shell.reviewKey.key # shown
        BY <1>3, <2>4, <2>5, <3>1, <4>1, <4>3 DEF OfReview
      <4> QED BY <4>2, <4>3
    <3> QED BY <1>1, <3>1 DEF Overtaking
  <2> QED BY <2>8, <2>9
<1> QED BY <1>4, <1>5, <1>6, <1>7, <1>8, <1>9, <1>10, <1>11, <1>12, <1>13, <1>14

\* The user submits the review.
LEMMA ExecuteStep ==
  ASSUME ShellAssumption, ShellInv, Execute
  PROVE  ShellInv'
<1> USE DEF ShellAssumption, ShellInv
<1>1. /\ UNCHANGED <<envVars, reactVars, mounted, reviews, runVars, chainKeys, material, historyVars>>
      /\ sync = "none" /\ mounted /\ seen.step = 1 /\ seenCurrent /\ seen.review # None
      /\ seen.review.binding = Binding
      /\ SigningKeyReady /\ (NeedsAck => seen.ack) /\ ~inFlight
      /\ inFlight' = TRUE
      /\ call' = [pc |-> FirstPc, review |-> seen.review,
                  key |-> IF SignsInForm THEN 0 ELSE seen.reviewKey.key]
      /\ shell' = [shell EXCEPT !.submission = seen.review.id, !.step = 2, !.busy = TRUE,
                                !.outcome = "none"]
      /\ sync' = IF shell' = seen THEN "none" ELSE "commit"
  BY DEF Execute, CanProceed, IsCurrent, OnReviewStep, CanClick, Free, Click, Flush
<1>2. shell' \in ShellStates
  <2>1. \A n \in 0..MaxReviews, p \in 0..3, k \in BOOLEAN,
            o \in {"none", "notSubmitted", "unknown", "done"} :
           [shell EXCEPT !.submission = n, !.step = p, !.busy = k, !.outcome = o] \in ShellStates
    BY ZenonT(30) DEF Typed, TypeOK, ShellStates
  <2>2. seen.review.id \in 0..MaxReviews
    BY <1>1 DEF Typed, TypeOK, ShellStates, Reviews, ReviewIds
  <2>3. 2 \in 0..3 /\ TRUE \in BOOLEAN /\ "none" \in {"none", "notSubmitted", "unknown", "done"}
    OBVIOUS
  <2> QED BY <1>1, <2>1, <2>2, <2>3, Zenon
<1>3. /\ shell'.submission = seen.review.id /\ shell'.step = 2 /\ shell'.busy = TRUE
      /\ shell'.outcome = "none" /\ shell'.options = shell.options
      /\ shell'.review = shell.review /\ shell'.ack = shell.ack /\ shell'.keys = shell.keys
      /\ shell'.reviewKey = shell.reviewKey /\ shell'.refresh = shell.refresh
  BY <1>1 DEF Typed, TypeOK, ShellStates, Reviews, ReviewIds
<1>4. Typed'
  BY <1>1, <1>2, <1>3 DEF Typed, TypeOK, FirstPc, SigningKeyReady, Key0, Reviews, ShellStates
<1>5. ShownSdkKnown'
  BY <1>1, <1>2, <1>3 DEF ShownSdkKnown
<1>6. Lag'
  BY <1>1, <1>2, <1>3 DEF Lag
<1>7. Depends'
  BY <1>1, <1>2, <1>3 DEF Depends, Binding, Lag
<1>8. Numbered'
  BY <1>1, <1>2, <1>3 DEF Numbered, NumberedIn
<1>9. Staged(shell)' /\ Staged(seen)'
  BY <1>1, <1>2, <1>3 DEF Staged, Lag, ReviewIds, Reviews, ShellStates, Typed, TypeOK
<1>10. Unsubmitted(shell)' /\ Unsubmitted(seen)'
  <2>1. seen.review.id # 0
    BY <1>1 DEF Typed, TypeOK, ShellStates, Reviews, ReviewIds
  <2> QED BY <1>1, <1>3, <2>1 DEF Unsubmitted
<1>11. Called'
  <2>1. /\ call'.pc = FirstPc /\ call'.review = seen.review
        /\ call'.key = IF SignsInForm THEN 0 ELSE seen.reviewKey.key
        /\ FirstPc \in {"version", "criteria"} /\ (~SignsInForm => FirstPc = "criteria")
    BY <1>1 DEF FirstPc
  <2>2. seen.submission = 0 /\ writes[seen.review.id] = 0
    BY <1>1 DEF Staged, Unsubmitted
  <2>3. seen.review.id \notin reached
    BY <2>2 DEF Outcomes
  <2>4. NeedsAck => seen.review.id \in acked
    BY <1>1 DEF Unsubmitted
  <2>5. SignsInForm \/ <<seen.review.id, seen.reviewKey.key>> \in approved
    BY <1>1 DEF SigningKeyReady, Approving, OfReview
  <2>6. CallShown'
    <3>1. shell'.step = 2 /\ seen.step = 1
      BY <1>1, <1>3
    <3>2. shell' # seen
      BY <3>1
    <3>3. sync' = "commit"
      BY <1>1, <3>2
    <3> QED BY <1>1, <2>2, <3>3 DEF CallShown, Binding
  <2>7. call.pc = "none" /\ material = 0
    BY <1>1 DEF Called
  <2> QED BY <1>1, <1>3, <2>1, <2>2, <2>3, <2>4, <2>5, <2>6, <2>7 DEF Called
<1>12. Outcomes'
  BY <1>1, <1>2, <1>3 DEF Outcomes, Staged, Typed, ReviewIds, Unsubmitted
<1>13. Shrinking' /\ Best(shell)' /\ Best(seen)'
  BY <1>1, <1>2, <1>3 DEF Shrinking, Best, Known, ListOf, Replaced
<1>14. Approving' /\ Overtaking'
  BY <1>1, <1>2, <1>3 DEF Approving, Overtaking, Known, ListOf, OfReview, ConfirmedOf, Replaced, Shown
<1> QED BY <1>4, <1>5, <1>6, <1>7, <1>8, <1>9, <1>10, <1>11, <1>12, <1>13, <1>14

\* The user starts another operation.
LEMMA StartOverStep ==
  ASSUME ShellAssumption, ShellInv, StartOver
  PROVE  ShellInv'
<1> USE DEF ShellAssumption, ShellInv
<1>1. /\ UNCHANGED <<envVars, reactVars, mounted, reviews, runVars, chainKeys, callVars, historyVars>>
      /\ sync = "none" /\ mounted /\ seen.submission # 0 /\ seen.outcome \in {"notSubmitted", "done"}
      /\ shell' = Reset(shell)
      /\ sync' \in {"none", "commit"}
  BY DEF StartOver, StartOverOffered, CanClick, Free, Click, Flush
<1>2. shell' \in ShellStates
  <2>1. \A o \in Inputs \cup {None}, r \in Reviews \cup {None},
            k \in [review : ReviewIds, key : Key0, confirmed : Key0] \cup {None} :
           [shell EXCEPT !.options = o, !.review = r, !.reviewKey = k] \in ShellStates
    BY ZenonT(30) DEF Typed, TypeOK, ShellStates
  <2>2. PurgeSecrets(shell) \in ShellStates
    BY <2>1 DEF PurgeSecrets
  <2>3. ASSUME NEW s \in ShellStates PROVE ClearAck(s) \in ShellStates
    BY DEF ClearAck, ShellStates
  <2>4. ASSUME NEW s \in ShellStates, NEW n \in 0..MaxReviews, NEW p \in 0..3,
               NEW o \in {"none", "notSubmitted", "unknown", "done"}
        PROVE  [s EXCEPT !.submission = n, !.outcome = o, !.step = p] \in ShellStates
    BY DEF ShellStates
  <2>5. 0 \in 0..3 /\ 0 \in 0..MaxReviews /\ "none" \in {"none", "notSubmitted", "unknown", "done"}
    OBVIOUS
  <2> QED BY <1>1, <2>2, <2>3, <2>4, <2>5, Zenon DEF Reset
<1>3. /\ shell'.options = None /\ shell'.review = None /\ shell'.reviewKey = None
      /\ shell'.ack = FALSE /\ shell'.submission = 0 /\ shell'.outcome = "none"
      /\ shell'.step = 0 /\ shell'.busy = shell.busy /\ shell'.keys = shell.keys
      /\ shell'.refresh = shell.refresh
  BY <1>1 DEF Typed, TypeOK, ShellStates, Reset, ClearAck, PurgeSecrets
<1>4. Typed'
  BY <1>1, <1>2, <1>3 DEF Typed, TypeOK
<1>5. ShownSdkKnown'
  BY <1>1, <1>2, <1>3 DEF ShownSdkKnown
<1>6. Lag'
  BY <1>1, <1>2, <1>3 DEF Lag
<1>7. Depends'
  BY <1>1, <1>2, <1>3 DEF Depends, Binding, Lag
<1>8. Numbered'
  BY <1>1, <1>2, <1>3 DEF Numbered, NumberedIn
<1>9. Staged(shell)' /\ Staged(seen)'
  BY <1>1, <1>2, <1>3 DEF Staged, Lag
<1>10. Unsubmitted(shell)' /\ Unsubmitted(seen)'
  BY <1>1, <1>2, <1>3 DEF Unsubmitted, Lag
<1>11. Called'
  BY <1>1, <1>2, <1>3 DEF Called, CallShown, Binding, Lag
<1>12. Outcomes'
  BY <1>1, <1>2, <1>3 DEF Outcomes
<1>13. Shrinking' /\ Best(shell)' /\ Best(seen)'
  BY <1>1, <1>2, <1>3 DEF Shrinking, Best, Known, ListOf, Replaced
<1>14. Approving' /\ Overtaking'
  BY <1>1, <1>2, <1>3 DEF Approving, Overtaking, Known, ListOf, OfReview, ConfirmedOf, Replaced, Shown
<1> QED BY <1>4, <1>5, <1>6, <1>7, <1>8, <1>9, <1>10, <1>11, <1>12, <1>13, <1>14

\* React renders what was queued.
LEMMA RenderStep ==
  ASSUME ShellAssumption, ShellInv, NEW newOp \in 1..MaxOps, RenderAt(newOp),
         sync # "effects", sync' = IF sync = "commit" THEN "effects" ELSE "none"
  PROVE  ShellInv'
<1> USE DEF ShellAssumption, ShellInv
<1>1. /\ shownSdk' = sdk /\ shownSigner' = signer /\ seen' = shell /\ op' = newOp
      /\ effects' = TRUE /\ seenCurrent' \in BOOLEAN /\ mounted /\ ~effects
      /\ approved' = approved \cup FirstShown(shell)
      /\ UNCHANGED <<sdk, aborted, signer, boundTo, destroyed, shell, deps, mounted, reviews, runVars,
                     chainKeys, callVars, writes, reached, unknown, acked>>
  BY DEF RenderAt, Render, RenderSdk
<1>2. Known' \subseteq Known
  BY <1>1 DEF Known, ListOf
<1>3. \A p \in FirstShown(shell) :
         /\ shell.review # None /\ OfReview(shell)
         /\ p = <<shell.review.id, shell.reviewKey.key>>
         /\ shell.reviewKey.key # 0 /\ shell.reviewKey.key = shell.reviewKey.confirmed
  BY DEF FirstShown, OfReview
<1>4. Typed'
  <2>1. FirstShown(shell) \subseteq ReviewIds \X SigningKeys
    BY <1>3 DEF OfReview, Typed, TypeOK, ShellStates, Reviews, Key0
  <2> QED BY <1>1, <2>1 DEF Typed, TypeOK
<1>5. ShownSdkKnown'
  BY <1>1, <1>2, <1>3 DEF ShownSdkKnown
<1>6. Lag'
  BY <1>1, <1>2, <1>3 DEF Lag
<1>7. Depends'
  BY <1>1, <1>2, <1>3 DEF Depends, Binding, Lag
<1>8. Numbered'
  <2>1. \A p \in FirstShown(shell) : p[1] \in Nat /\ p[1] <= reviews
    BY <1>3 DEF Numbered, NumberedIn, Typed, TypeOK, ShellStates, Reviews, ReviewIds
  <2>2. reviews \in Nat /\ ReviewIds \subseteq Nat
    BY DEF Typed, TypeOK, ReviewIds
  <2>3. \A r \in ReviewIds, k \in SigningKeys : reviews < r => <<r, k>> \notin FirstShown(shell)
    BY <2>1, <2>2
  <2> QED BY <1>1, <2>3 DEF Numbered, NumberedIn
<1>9. Staged(shell)' /\ Staged(seen)'
  BY <1>1, <1>2, <1>3 DEF Staged, Lag
<1>10. Unsubmitted(shell)' /\ Unsubmitted(seen)'
  BY <1>1, <1>2, <1>3 DEF Unsubmitted, Lag
<1>11. Called'
  BY <1>1, <1>2, <1>3 DEF Called, CallShown, Binding, Lag
<1>12. Outcomes'
  BY <1>1, <1>2, <1>3 DEF Outcomes
<1>13. Shrinking' /\ Best(shell)' /\ Best(seen)'
  BY <1>1, <1>2, <1>3 DEF Shrinking, Best, Known, ListOf, Replaced
<1>14. Approving' /\ Overtaking'
  <2>1. ASSUME shell.review # None, Shown(shell.review.id)'
        PROVE  /\ ConfirmedOf(shell) # 0
               /\ \/ <<shell.review.id, ConfirmedOf(shell)>> \in approved'
                  \/ Replaced(ConfirmedOf(shell))' /\ shell.reviewKey.key # ConfirmedOf(shell)
    <3>1. CASE Shown(shell.review.id)
      BY <1>1, <1>2, <2>1, <3>1 DEF Approving, Replaced
    <3>2. CASE ~Shown(shell.review.id)
      <4>1. PICK k \in SigningKeys : <<shell.review.id, k>> \in FirstShown(shell)
        BY <1>1, <2>1, <3>2 DEF Shown
      <4> QED BY <1>1, <1>3, <4>1 DEF ConfirmedOf
    <3> QED BY <3>1, <3>2
  <2>2. ASSUME shell.review # None, OfReview(shell),
               shell.reviewKey.key # 0, shell.reviewKey.key = shell.reviewKey.confirmed
        PROVE  <<shell.review.id, shell.reviewKey.key>> \in approved'
    <3>1. CASE Shown(shell.review.id)
      BY <1>1, <2>2, <3>1 DEF Approving, ConfirmedOf
    <3>2. CASE ~Shown(shell.review.id)
      BY <1>1, <2>2, <3>2 DEF FirstShown, OfReview, Shown
    <3> QED BY <3>1, <3>2
  <2>3. OfReview(shell)' = OfReview(shell) /\ ConfirmedOf(shell)' = ConfirmedOf(shell)
    BY <1>1 DEF OfReview, ConfirmedOf
  <2>4. Approving'
    BY <1>1, <2>1, <2>2, <2>3 DEF Approving, OfReview
  <2>5. Overtaking'
    BY <1>1 DEF Overtaking, OfReview
  <2> QED BY <2>4, <2>5
<1> QED BY <1>4, <1>5, <1>6, <1>7, <1>8, <1>9, <1>10, <1>11, <1>12, <1>13, <1>14

\* The effects of the last render run.
LEMMA EffectsStep ==
  ASSUME ShellAssumption, ShellInv, RunEffects
  PROVE  ShellInv'
<1> USE DEF ShellAssumption, ShellInv
<1>1. /\ effects /\ mounted /\ effects' = FALSE
      /\ deps'.binding = Binding /\ deps'.review = seen.review
      /\ keyRun' \in Bindings \cup {None}
      /\ sync' = IF sync = "effects" THEN "none" ELSE sync
      /\ UNCHANGED <<envVars, seen, seenCurrent, op, mounted, reviews, chainKeys, callVars,
                     historyVars>>
  <2>1. keyRun' \in {keyRun, None, Binding}
    BY DEF RunEffects
  <2>2. Binding \in Bindings
    BY DEF Binding, Bindings, Typed, TypeOK
  <2> QED BY <2>1, <2>2 DEF RunEffects, DepsNow, Lag, Typed, TypeOK, Binding
<1>2. \/ criteriaRun' = criteriaRun /\ seen.review = deps.review
      \/ criteriaRun' = None
      \/ /\ seen.review # None /\ seen.keys # None
         /\ criteriaRun' = [review |-> seen.review.id, list |-> seen.keys.list]
  BY DEF RunEffects, CriteriaEffect, DepsNow
<1>3. \/ shell' = shell /\ Binding = deps.binding
      \/ shell' = PurgeSecrets(shell) /\ seen.submission # 0
      \/ /\ shell' = Reset(shell) /\ seen.submission = 0
         /\ Binding # deps.binding \/ (seen.review # None /\ ~seenCurrent)
  BY DEF RunEffects, ContextEffect, DepsNow
<1>4. shell' \in ShellStates
  <2>1. \A o \in Inputs \cup {None}, r \in Reviews \cup {None},
            k \in [review : ReviewIds, key : Key0, confirmed : Key0] \cup {None} :
           [shell EXCEPT !.options = o, !.review = r, !.reviewKey = k] \in ShellStates
    BY ZenonT(30) DEF Typed, TypeOK, ShellStates
  <2>2. PurgeSecrets(shell) \in ShellStates
    BY <2>1 DEF PurgeSecrets
  <2>3. ASSUME NEW s \in ShellStates PROVE ClearAck(s) \in ShellStates
    BY DEF ClearAck, ShellStates
  <2>4. ASSUME NEW s \in ShellStates, NEW n \in 0..MaxReviews, NEW p \in 0..3,
               NEW o \in {"none", "notSubmitted", "unknown", "done"}
        PROVE  [s EXCEPT !.submission = n, !.outcome = o, !.step = p] \in ShellStates
    BY DEF ShellStates
  <2>5. 0 \in 0..3 /\ 0 \in 0..MaxReviews /\ "none" \in {"none", "notSubmitted", "unknown", "done"}
    OBVIOUS
  <2>6. Reset(shell) \in ShellStates
    BY <2>2, <2>3, <2>4, <2>5, Zenon DEF Reset
  <2> QED BY <1>3, <2>2, <2>6 DEF Typed, TypeOK
<1>5. /\ shell'.busy = shell.busy /\ shell'.keys = shell.keys
      /\ \/ shell' = shell /\ Binding = deps.binding
         \/ /\ shell'.options = None /\ shell'.review = None /\ shell'.reviewKey = None
            /\ \/ /\ seen.submission # 0 /\ shell'.ack = shell.ack
                  /\ shell'.submission = shell.submission /\ shell'.step = shell.step
                  /\ shell'.outcome = shell.outcome
               \/ /\ seen.submission = 0
                  /\ Binding # deps.binding \/ (seen.review # None /\ ~seenCurrent)
                  /\ shell'.submission = 0 /\ shell'.step = 0 /\ shell'.outcome = "none"
  <2>1. CASE shell' = shell /\ Binding = deps.binding
    BY <2>1
  <2>2. CASE shell' = PurgeSecrets(shell) /\ seen.submission # 0
    BY <2>2 DEF PurgeSecrets, Typed, TypeOK, ShellStates
  <2>3. CASE shell' = Reset(shell) /\ seen.submission = 0
             /\ (Binding # deps.binding \/ (seen.review # None /\ ~seenCurrent))
    BY <2>3 DEF Reset, ClearAck, PurgeSecrets, Typed, TypeOK, ShellStates
  <2> QED BY <1>3, <2>1, <2>2, <2>3
<1>6. Known' \subseteq Known /\ ListOf(criteriaRun)' \in {ListOf(criteriaRun), {}, ListOf(seen.keys)}
  BY <1>1, <1>2, <1>5 DEF Known, ListOf
<1>7. Typed'
  <2>1. criteriaRun' \in [review : ReviewIds, list : SUBSET SigningKeys] \cup {None}
    BY <1>2 DEF Typed, TypeOK, ShellStates, Reviews
  <2>2. deps'.binding \in Bindings /\ deps'.review \in Reviews \cup {None}
    BY <1>1 DEF Binding, Bindings, Typed, TypeOK, ShellStates
  <2> QED BY <1>1, <1>4, <2>1, <2>2 DEF Typed, TypeOK
<1>8. ShownSdkKnown'
  BY <1>1, <1>2, <1>3, <1>4, <1>5, <1>6 DEF ShownSdkKnown
<1>9. Lag'
  BY <1>1, <1>2, <1>3, <1>4, <1>5, <1>6 DEF Lag
<1>10. Depends'
  BY <1>1, <1>2, <1>3, <1>4, <1>5, <1>6 DEF Depends, Binding, Lag
<1>11. Numbered'
  BY <1>1, <1>2, <1>3, <1>4, <1>5, <1>6 DEF Numbered, NumberedIn
<1>12. Staged(shell)' /\ Staged(seen)'
  BY <1>1, <1>2, <1>3, <1>4, <1>5, <1>6 DEF Staged, Lag
<1>13. Unsubmitted(shell)' /\ Unsubmitted(seen)'
  BY <1>1, <1>2, <1>3, <1>4, <1>5, <1>6 DEF Unsubmitted, Lag
<1>14. Called'
  <2>1. ASSUME call.pc # "none"
        PROVE  /\ CallShown'
               /\ shell'.submission = shell.submission /\ shell'.outcome = shell.outcome
    <3>1. CASE seen.submission = call.review.id /\ seen.busy /\ seen.outcome = "none"
      <4>1. call.review.id # 0
        BY <2>1 DEF Called, Typed, TypeOK, Reviews, ReviewIds
      <4> QED BY <1>1, <1>5, <3>1, <4>1 DEF CallShown
    <3>2. CASE /\ sync = "commit" /\ seen.submission = 0
               /\ seen.review # None /\ seenCurrent /\ seen.review.binding = Binding
      <4>1. Binding = deps.binding
        BY <1>1, <3>2 DEF Depends
      <4>2. shell' = shell
        BY <1>5, <3>2, <4>1
      <4> QED BY <1>1, <3>2, <4>2 DEF CallShown, Binding
    <3> QED BY <1>1, <2>1, <3>1, <3>2 DEF Called, CallShown
  <2> QED BY <1>1, <1>5, <2>1 DEF Called
<1>15. Outcomes'
  <2>1. \A r \in unknown : r # 0
    BY DEF Typed, ReviewIds
  <2>2. seen.submission = 0 => unknown = {}
    BY <1>1, <2>1 DEF Outcomes
  <2>3. shell'.outcome # "none" => shell'.outcome = shell.outcome /\ shell'.submission = shell.submission
    BY <1>5
  <2>4. seen.submission # 0 => shell'.outcome = shell.outcome /\ shell'.submission = shell.submission
    BY <1>5
  <2> QED BY <1>1, <2>2, <2>3, <2>4 DEF Outcomes
<1>16. Shrinking' /\ Best(shell)' /\ Best(seen)'
  BY <1>1, <1>2, <1>3, <1>4, <1>5, <1>6 DEF Shrinking, Best, Known, ListOf, Replaced
<1>17. Approving' /\ Overtaking'
  <2>1. CASE shell' = shell
    <3>1. /\ OfReview(shell)' = OfReview(shell) /\ ConfirmedOf(shell)' = ConfirmedOf(shell)
          /\ OfReview(seen)' = OfReview(seen)
      BY <1>1, <2>1 DEF OfReview, ConfirmedOf
    <3>2. Approving'
      BY <1>1, <1>6, <2>1, <3>1 DEF Approving, Replaced, Shown
    <3>3. Overtaking'
      BY <1>1, <2>1, <3>1 DEF Overtaking
    <3> QED BY <3>2, <3>3
  <2>2. CASE shell'.review = None
    BY <1>1, <2>2 DEF Approving, Overtaking, OfReview
  <2> QED BY <1>5, <2>1, <2>2
<1> QED BY <1>7, <1>8, <1>9, <1>10, <1>11, <1>12, <1>13, <1>14, <1>15, <1>16, <1>17

\* The signer's keys were checked against Platform.
LEMMA KeysStep ==
  ASSUME ShellAssumption, ShellInv, NEW failed \in BOOLEAN, KeysArrive(failed)
  PROVE  ShellInv'
<1> USE DEF ShellAssumption, ShellInv
<1>1. /\ sync = "none" /\ keyRun # None /\ keyRun' = None
      /\ shell' = [shell EXCEPT !.keys =
            [binding |-> keyRun, list |-> IF failed \/ keyRun[2] \in destroyed THEN {} ELSE chainKeys]]
      /\ UNCHANGED <<envVars, reactVars, sync, mounted, reviews, criteriaRun, chainKeys,
                     callVars, historyVars>>
  BY DEF KeysArrive, Free
<1>2. shell' \in ShellStates
  BY <1>1 DEF Typed, TypeOK, ShellStates
<1>3. /\ shell'.keys = [binding |-> keyRun,
                                  list |-> IF failed \/ keyRun[2] \in destroyed THEN {} ELSE chainKeys]
            /\ shell'.options = shell.options /\ shell'.review = shell.review
            /\ shell'.submission = shell.submission /\ shell'.step = shell.step
            /\ shell'.ack = shell.ack /\ shell'.busy = shell.busy /\ shell'.outcome = shell.outcome
            /\ shell'.reviewKey = shell.reviewKey /\ shell'.refresh = shell.refresh
  BY <1>1 DEF Typed, TypeOK, ShellStates
<1>4. Known' \subseteq Known /\ ListOf(shell.keys)' \in {{}, chainKeys}
  BY <1>1, <1>3 DEF Known, ListOf
<1>5. Typed'
  BY <1>1, <1>2, <1>3, <1>4 DEF Typed, TypeOK
<1>6. ShownSdkKnown'
  BY <1>1, <1>2, <1>3, <1>4 DEF ShownSdkKnown
<1>7. Lag'
  BY <1>1, <1>2, <1>3, <1>4 DEF Lag
<1>8. Depends'
  BY <1>1, <1>2, <1>3, <1>4 DEF Depends, Binding, Lag
<1>9. Numbered'
  BY <1>1, <1>2, <1>3, <1>4 DEF Numbered, NumberedIn
<1>10. Staged(shell)' /\ Staged(seen)'
  BY <1>1, <1>2, <1>3, <1>4 DEF Staged, Lag
<1>11. Unsubmitted(shell)' /\ Unsubmitted(seen)'
  BY <1>1, <1>2, <1>3, <1>4 DEF Unsubmitted, Lag
<1>12. Called'
  BY <1>1, <1>2, <1>3, <1>4 DEF Called, CallShown, Binding, Lag
<1>13. Outcomes'
  BY <1>1, <1>2, <1>3, <1>4 DEF Outcomes
<1>14. Shrinking' /\ Best(shell)' /\ Best(seen)'
  BY <1>1, <1>2, <1>3, <1>4 DEF Shrinking, Best, Known, ListOf, Replaced
<1>15. Approving' /\ Overtaking'
  BY <1>1, <1>2, <1>3, <1>4 DEF Approving, Overtaking, Known, ListOf, OfReview, ConfirmedOf, Replaced, Shown
<1> QED BY <1>5, <1>6, <1>7, <1>8, <1>9, <1>10, <1>11, <1>12, <1>13, <1>14, <1>15

\* The signing criteria of the review pick a key.
LEMMA CriteriaStep ==
  ASSUME ShellAssumption, ShellInv, NEW failed \in BOOLEAN, CriteriaArrive(failed)
  PROVE  ShellInv'
<1> USE DEF ShellAssumption, ShellInv
<1>1. /\ sync = "none" /\ criteriaRun # None /\ criteriaRun' = None /\ mounted
      /\ UNCHANGED <<envVars, reactVars, sync, mounted, reviews, keyRun, chainKeys,
                     callVars, historyVars>>
  BY DEF CriteriaArrive, Free, Lag
<1>2. PICK key, previous :
         /\ key = IF failed \/ criteriaRun.list = {} THEN 0 ELSE BestOf(criteriaRun.list)
         /\ previous = IF shell.reviewKey # None /\ shell.reviewKey.review = criteriaRun.review
                       THEN shell.reviewKey.confirmed ELSE 0
         /\ shell' = [shell EXCEPT !.reviewKey =
              [review |-> criteriaRun.review, key |-> key,
               confirmed |-> IF previous = 0 THEN key ELSE previous]]
  BY DEF CriteriaArrive, ConfirmedBefore
<1>3. /\ criteriaRun.list \subseteq SigningKeys /\ criteriaRun.review \in ReviewIds
      /\ key \in Key0 /\ previous \in Key0 /\ Key0 \subseteq Nat
      /\ key # 0 => key \in Known /\ \A k \in Known : key <= k
  <2>1. criteriaRun.list \subseteq SigningKeys /\ criteriaRun.review \in ReviewIds
    BY <1>1 DEF Typed, TypeOK
  <2>2. key # 0 => key \in criteriaRun.list /\ \A k \in criteriaRun.list : key <= k
    BY <1>2, <2>1, BestIsFirst
  <2>3. key # 0 => key \in Known /\ \A k \in Known : key <= k
    BY <1>1, <2>2 DEF Known, ListOf, Shrinking
  <2>4. previous \in Key0 /\ Key0 \subseteq Nat
    BY <1>2 DEF Typed, TypeOK, ShellStates, Key0
  <2> QED BY <2>1, <2>2, <2>3, <2>4 DEF Key0
<1>4. PICK chosen :
         /\ chosen \in [review : ReviewIds, key : Key0, confirmed : Key0] /\ chosen # None
         /\ chosen.review = criteriaRun.review /\ chosen.key = key
         /\ chosen.confirmed = IF previous = 0 THEN key ELSE previous
         /\ shell' = [shell EXCEPT !.reviewKey = chosen]
  <2> DEFINE chosen == [review |-> criteriaRun.review, key |-> key,
                        confirmed |-> IF previous = 0 THEN key ELSE previous]
  <2>1. chosen \in [review : ReviewIds, key : Key0, confirmed : Key0]
    BY <1>3
  <2>2. ReviewIds \subseteq Nat
    BY DEF ReviewIds
  <2>3. chosen # None
    BY <1>3, <2>1, <2>2
  <2> QED BY <1>2, <2>1, <2>3
<1>5. shell' \in ShellStates
  BY <1>4 DEF Typed, TypeOK, ShellStates
<1>6. /\ shell'.reviewKey = chosen /\ shell'.options = shell.options
            /\ shell'.review = shell.review /\ shell'.submission = shell.submission
            /\ shell'.step = shell.step /\ shell'.ack = shell.ack /\ shell'.busy = shell.busy
            /\ shell'.outcome = shell.outcome /\ shell'.keys = shell.keys
            /\ shell'.refresh = shell.refresh
  BY <1>4 DEF Typed, TypeOK, ShellStates
<1>7. /\ Known' \subseteq Known
      /\ shell.review # None => /\ shell.review = seen.review /\ shell.review.id = criteriaRun.review
                                /\ OfReview(shell)' /\ ConfirmedOf(shell)' = chosen.confirmed
  <2>1. Known' \subseteq Known
    BY <1>1, <1>6 DEF Known, ListOf
  <2>2. shell.review # None => shell.review = seen.review /\ shell.review.id = criteriaRun.review
    BY <1>1 DEF Lag, Depends, Numbered
  <2> QED BY <1>4, <1>6, <2>1, <2>2 DEF OfReview, ConfirmedOf
<1>8. Typed'
  BY <1>1, <1>2, <1>3, <1>4, <1>5, <1>6, <1>7 DEF Typed, TypeOK
<1>9. ShownSdkKnown'
  BY <1>1, <1>2, <1>3, <1>4, <1>5, <1>6, <1>7 DEF ShownSdkKnown
<1>10. Lag'
  BY <1>1, <1>2, <1>3, <1>4, <1>5, <1>6, <1>7 DEF Lag
<1>11. Depends'
  BY <1>1, <1>2, <1>3, <1>4, <1>5, <1>6, <1>7 DEF Depends, Binding, Lag
<1>12. Numbered'
  <2>1. chosen.review <= reviews
    BY <1>1, <1>4 DEF Numbered
  <2> QED BY <1>1, <1>4, <1>6, <2>1 DEF Numbered, NumberedIn
<1>13. Staged(shell)' /\ Staged(seen)'
  BY <1>1, <1>2, <1>3, <1>4, <1>5, <1>6, <1>7 DEF Staged, Lag
<1>14. Unsubmitted(shell)' /\ Unsubmitted(seen)'
  BY <1>1, <1>2, <1>3, <1>4, <1>5, <1>6, <1>7 DEF Unsubmitted, Lag
<1>15. Called'
  BY <1>1, <1>2, <1>3, <1>4, <1>5, <1>6, <1>7 DEF Called, CallShown, Binding, Lag
<1>16. Outcomes'
  BY <1>1, <1>2, <1>3, <1>4, <1>5, <1>6, <1>7 DEF Outcomes
<1>17. Shrinking' /\ Best(shell)' /\ Best(seen)'
  <2>1. Shrinking'
    BY <1>1, <1>6, <1>7 DEF Shrinking, Known, ListOf
  <2>2. Best(seen)'
    BY <1>1, <1>7 DEF Best, Replaced
  <2>3. previous # 0 => \A k \in Known : previous <= k
    BY <1>2 DEF Best
  <2>4. previous # 0 /\ key # 0 /\ previous # key => previous \notin Known
    BY <1>3, <2>3
  <2>5. Best(shell)'
    <3>1. Known \subseteq Nat
      BY DEF Known, ListOf, Typed, TypeOK, ShellStates
    <3>2. \A k \in Known : chosen.confirmed <= k
      BY <1>3, <1>4, <2>3, <3>1
    <3>3. key # 0 => chosen.confirmed # 0
      BY <1>3, <1>4
    <3>4. key # 0 /\ key # chosen.confirmed => chosen.confirmed \notin Known
      BY <1>4, <2>4
    <3> QED BY <1>3, <1>4, <1>6, <1>7, <3>2, <3>3, <3>4 DEF Best, Replaced
  <2> QED BY <2>1, <2>2, <2>5
<1>18. Approving' /\ Overtaking'
  <2>1. ASSUME shell.review # None, Shown(shell.review.id)
        PROVE  /\ ConfirmedOf(shell)' # 0
               /\ \/ <<shell.review.id, ConfirmedOf(shell)'>> \in approved
                  \/ /\ Replaced(ConfirmedOf(shell))'
                     /\ shell'.reviewKey.key # ConfirmedOf(shell)'
    <3>1. previous # 0 /\ previous = ConfirmedOf(shell) /\ ConfirmedOf(shell)' = previous
      BY <1>2, <1>4, <1>7, <2>1 DEF Approving, ConfirmedOf, OfReview
    <3>2. CASE <<shell.review.id, previous>> \in approved
      BY <3>1, <3>2
    <3>3. CASE Replaced(previous)
      <4>1. key # previous
        BY <1>3, <3>1, <3>3 DEF Replaced
      <4>2. previous \notin Known'
        BY <1>7, <3>3 DEF Replaced
      <4> QED BY <1>4, <1>6, <3>1, <4>1, <4>2 DEF Replaced
    <3> QED BY <2>1, <3>1, <3>2, <3>3 DEF Approving
  <2>2. Approving'
    BY <1>1, <1>6, <2>1 DEF Approving, Shown, OfReview
  <2>3. ASSUME shell.review # None, seen.reviewKey # None, seen.reviewKey.review = shell.review.id
        PROVE  /\ seen.reviewKey.confirmed # 0 => chosen.confirmed = seen.reviewKey.confirmed
               /\ seen.reviewKey.key \notin {0, seen.reviewKey.confirmed} =>
                    key # seen.reviewKey.confirmed
    <3>1. OfReview(shell) /\ (seen.reviewKey.confirmed # 0 => previous = seen.reviewKey.confirmed)
      BY <1>1, <1>2, <1>7, <2>3 DEF Overtaking, OfReview
    <3>2. seen.reviewKey.key \notin {0, seen.reviewKey.confirmed} =>
            seen.reviewKey.confirmed # 0 /\ seen.reviewKey.confirmed \notin Known
      BY <2>3 DEF Best, Replaced
    <3> QED BY <1>3, <1>4, <3>1, <3>2
  <2>4. Overtaking'
    BY <1>1, <1>4, <1>6, <1>7, <2>3 DEF Overtaking, OfReview
  <2> QED BY <2>2, <2>4
<1> QED BY <1>8, <1>9, <1>10, <1>11, <1>12, <1>13, <1>14, <1>15, <1>16, <1>17, <1>18

\* The user leaves the page.
LEMMA UnmountStep ==
  ASSUME ShellAssumption, ShellInv, Unmount
  PROVE  ShellInv'
<1> USE DEF ShellAssumption, ShellInv
<1>1. /\ sync = "none" /\ mounted' = FALSE
      /\ keyRun' = None /\ criteriaRun' = None /\ effects' = FALSE
      /\ UNCHANGED <<envVars, shell, seen, seenCurrent, op, deps, sync, reviews, chainKeys,
                     callVars, historyVars>>
  BY DEF Unmount, Free
<1>2. Known' \subseteq Known
  BY <1>1 DEF Known, ListOf
<1>3. Typed'
  BY <1>1, <1>2 DEF Typed, TypeOK
<1>4. ShownSdkKnown'
  BY <1>1, <1>2 DEF ShownSdkKnown
<1>5. Lag'
  BY <1>1, <1>2 DEF Lag
<1>6. Depends'
  BY <1>1, <1>2 DEF Depends, Binding, Lag
<1>7. Numbered'
  BY <1>1, <1>2 DEF Numbered, NumberedIn
<1>8. Staged(shell)' /\ Staged(seen)'
  BY <1>1, <1>2 DEF Staged, Lag
<1>9. Unsubmitted(shell)' /\ Unsubmitted(seen)'
  BY <1>1, <1>2 DEF Unsubmitted, Lag
<1>10. Called'
  BY <1>1, <1>2 DEF Called, CallShown, Binding, Lag
<1>11. Outcomes'
  BY <1>1, <1>2 DEF Outcomes
<1>12. Shrinking' /\ Best(shell)' /\ Best(seen)'
  BY <1>1, <1>2 DEF Shrinking, Best, Known, ListOf, Replaced
<1>13. Approving' /\ Overtaking'
  BY ZenonT(30), <1>1, <1>2
     DEF Approving, Overtaking, Known, ListOf, OfReview, ConfirmedOf, Replaced, Shown
<1> QED BY <1>3, <1>4, <1>5, <1>6, <1>7, <1>8, <1>9, <1>10, <1>11, <1>12, <1>13

\* A step of the executor between two awaits: only the call, and the key it loaded, change.
LEMMA ContinueStep ==
  ASSUME ShellAssumption, ShellInv, CallFrame, sync = "none",
         UNCHANGED <<shell, inFlight, chainKeys, historyVars>>,
         NEW pc \in {"prepare", "version", "build"},
         call.pc \in {"criteria", "prepare", "version"},
         call' = [call EXCEPT !.pc = pc],
         pc = "prepare" => call.pc = "criteria" /\ material' = material,
         pc = "version" => material' = call.key /\ call.key # 0,
         pc = "build" => call.pc = "version" /\ material' = material
  PROVE  ShellInv'
<1> USE DEF ShellAssumption, ShellInv
<1>1. UNCHANGED <<envVars, reactVars, sync, mounted, reviews, runVars, shell, inFlight,
                  chainKeys, historyVars>>
  BY DEF CallFrame
<1>2. /\ call' \in [pc : {"none", "criteria", "prepare", "version", "build", "write"},
                    review : Reviews \cup {None}, key : Key0]
      /\ call'.pc = pc /\ call'.review = call.review /\ call'.key = call.key
  BY DEF Typed, TypeOK
<1>3. material' \in Key0
  BY <1>2 DEF Typed, TypeOK
<1>4. Typed'
  BY <1>1, <1>2, <1>3 DEF Typed, TypeOK
<1>5. Called'
  BY <1>1, <1>2 DEF Called, CallShown, Binding
<1>6. Numbered'
  BY <1>1, <1>2 DEF Numbered, NumberedIn
<1>7. Known' = Known
  BY <1>1 DEF Known, ListOf
<1>8. ShownSdkKnown' /\ Lag' /\ Depends' /\ Outcomes'
  BY <1>1 DEF ShownSdkKnown, Lag, Depends, Binding, Outcomes
<1>9. Staged(shell)' /\ Staged(seen)' /\ Unsubmitted(shell)' /\ Unsubmitted(seen)'
  BY <1>1 DEF Staged, Unsubmitted
<1>10. Shrinking' /\ Best(shell)' /\ Best(seen)' /\ Approving' /\ Overtaking'
  BY <1>1, <1>7 DEF Shrinking, Best, Approving, Overtaking, ListOf, Replaced, OfReview,
                    ConfirmedOf, Shown
<1> QED BY <1>4, <1>5, <1>6, <1>8, <1>9, <1>10

\* A submission starts its write.
LEMMA SubmitStep ==
  ASSUME ShellAssumption, ShellInv, CallFrame, sync = "none", call.pc = "build", mounted,
         call' = [call EXCEPT !.pc = "write"],
         writes' = [writes EXCEPT ![call.review.id] = @ + 1],
         UNCHANGED <<shell, inFlight, material, chainKeys, reached, unknown, approved, acked>>
  PROVE  ShellInv'
<1> USE DEF ShellAssumption, ShellInv
<1>1. UNCHANGED <<envVars, reactVars, sync, mounted, reviews, runVars, shell, inFlight,
                  material, chainKeys, reached, unknown, approved, acked>>
  BY DEF CallFrame
<1>2. /\ call' \in [pc : {"none", "criteria", "prepare", "version", "build", "write"},
                    review : Reviews \cup {None}, key : Key0]
      /\ call'.pc = "write" /\ call'.review = call.review /\ call'.key = call.key
  BY DEF Typed, TypeOK
<1>3. /\ call.review.id \in ReviewIds /\ writes \in [ReviewIds -> Nat]
      /\ writes[call.review.id] = 0 /\ writes'[call.review.id] = 1
      /\ \A r \in ReviewIds : r # call.review.id => writes'[r] = writes[r]
  BY DEF Called, Typed, TypeOK, Reviews
<1>4. Typed'
  BY <1>1, <1>2, <1>3 DEF Typed, TypeOK
<1>5. Called'
  BY <1>1, <1>2, <1>3 DEF Called, CallShown, Binding
<1>6. Numbered'
  <2>1. \A r \in ReviewIds : reviews < r => r # call.review.id
    BY <1>3 DEF Numbered, Typed, TypeOK, ReviewIds
  <2> QED BY <1>1, <1>2, <1>3, <2>1 DEF Numbered, NumberedIn
<1>7. Known' = Known
  BY <1>1 DEF Known, ListOf
<1>8. ShownSdkKnown' /\ Lag' /\ Depends'
  BY <1>1 DEF ShownSdkKnown, Lag, Depends, Binding
<1>9. Outcomes'
  <2>1. \A r \in reached : writes'[r] # 0
    BY <1>3 DEF Outcomes, Typed
  <2> QED BY <1>1, <2>1 DEF Outcomes
<1>10. Staged(shell)' /\ Staged(seen)'
  BY <1>1 DEF Staged
<1>11. Unsubmitted(shell)' /\ Unsubmitted(seen)'
  <2>1. shell.submission # 0 /\ seen.submission # 0
    BY <1>3 DEF Called, CallShown, ReviewIds
  <2> QED BY <1>1, <2>1 DEF Unsubmitted
<1>12. Shrinking' /\ Best(shell)' /\ Best(seen)' /\ Approving' /\ Overtaking'
  BY <1>1, <1>7 DEF Shrinking, Best, Approving, Overtaking, ListOf, Replaced, OfReview,
                    ConfirmedOf, Shown
<1> QED BY <1>4, <1>5, <1>6, <1>8, <1>9, <1>10, <1>11, <1>12

\* A call ends, and the shell says so if it is still there.
LEMMA EndStep ==
  ASSUME ShellAssumption, ShellInv, CallFrame, sync = "none", call.pc # "none",
         NEW outcome \in {"notSubmitted", "unknown", "done"}, EndCall(outcome),
         UNCHANGED <<chainKeys, writes, approved, acked>>,
         reached' \in {reached, reached \cup {call.review.id}},
         outcome = "notSubmitted" \/ call.pc # "write" => reached' = reached,
         unknown' = IF outcome = "unknown" THEN unknown \cup {call.review.id} ELSE unknown
  PROVE  ShellInv'
<1> USE DEF ShellAssumption, ShellInv
<1>1. /\ UNCHANGED <<envVars, reactVars, sync, mounted, reviews, runVars, chainKeys, writes,
                     approved, acked>>
      /\ call'.pc = "none" /\ material' = 0 /\ inFlight' = FALSE
  BY DEF CallFrame, EndCall, NoCall
<1>2. /\ call.review \in Reviews /\ call.review.id \in ReviewIds /\ call.review.id # 0
      /\ shell.submission = call.review.id /\ shell.outcome = "none"
      /\ call.review.id \notin reached
  BY DEF Called, Typed, TypeOK, Reviews, ReviewIds
<1>3. shell' = IF mounted THEN Settled(outcome) ELSE shell
  BY DEF EndCall
<1>4. shell' \in ShellStates
  <2>1. \A o \in {"none", "notSubmitted", "unknown", "done"}, b \in BOOLEAN, p \in 0..3 :
           [shell EXCEPT !.outcome = o, !.busy = b, !.step = p] \in ShellStates
    BY DEF Typed, TypeOK, ShellStates
  <2>2. ASSUME NEW s \in ShellStates PROVE PurgeSecrets(s) \in ShellStates
    <3>1. \A o \in Inputs \cup {None}, r \in Reviews \cup {None},
              k \in [review : ReviewIds, key : Key0, confirmed : Key0] \cup {None} :
             [s EXCEPT !.options = o, !.review = r, !.reviewKey = k] \in ShellStates
      BY DEF ShellStates
    <3> QED BY <3>1 DEF PurgeSecrets
  <2>3. (IF outcome = "done" THEN 3 ELSE shell.step) \in 0..3
    BY DEF Typed, TypeOK, ShellStates
  <2>4. FALSE \in BOOLEAN /\ outcome \in {"none", "notSubmitted", "unknown", "done"}
    OBVIOUS
  <2>5. [shell EXCEPT !.outcome = outcome, !.busy = FALSE,
                      !.step = IF outcome = "done" THEN 3 ELSE shell.step] \in ShellStates
    BY <2>1, <2>3, <2>4, Zenon
  <2>6. Settled(outcome) \in ShellStates
    BY <2>2, <2>5 DEF Settled
  <2> QED BY <1>3, <2>6 DEF Typed, TypeOK
<1>5. /\ shell'.submission = shell.submission /\ shell'.keys = shell.keys
      /\ ~mounted => shell' = shell
      /\ mounted => /\ shell'.options = None /\ shell'.review = None /\ shell'.reviewKey = None
                    /\ shell'.outcome = outcome /\ shell'.busy = FALSE
                    /\ shell'.step = IF outcome = "done" THEN 3 ELSE shell.step
  BY <1>3 DEF Settled, PurgeSecrets, Typed, TypeOK, ShellStates
<1>6. Typed'
  <2>1. call' \in [pc : {"none", "criteria", "prepare", "version", "build", "write"},
                   review : Reviews \cup {None}, key : Key0] /\ material' \in Key0
    BY DEF EndCall, NoCall, Key0
  <2>2. reached' \subseteq ReviewIds /\ unknown' \subseteq ReviewIds
    BY <1>2 DEF Typed
  <2> QED BY <1>1, <1>4, <2>1, <2>2 DEF Typed, TypeOK
<1>7. Known' = Known
  BY <1>1, <1>5 DEF Known, ListOf
<1>8. ShownSdkKnown' /\ Lag' /\ Depends'
  BY <1>1, <1>5 DEF ShownSdkKnown, Lag, Depends, Binding
<1>9. Numbered'
  BY <1>1, <1>5 DEF Numbered, NumberedIn
<1>10. Staged(shell)' /\ Staged(seen)'
  BY <1>1, <1>2, <1>5 DEF Staged
<1>11. Unsubmitted(shell)' /\ Unsubmitted(seen)'
  BY <1>1, <1>5 DEF Unsubmitted
<1>12. Called'
  BY <1>1 DEF Called
<1>13. Outcomes'
  <2>1. \A r \in reached' : writes'[r] # 0
    BY <1>1, <1>2 DEF Outcomes, Called
  <2>2. shell'.outcome = "notSubmitted" => shell'.submission \notin reached'
    BY <1>2, <1>5
  <2>3. ASSUME mounted, NEW r \in unknown'
        PROVE  /\ shell'.submission = r /\ shell'.outcome = "unknown"
               /\ seen.submission = r /\ seen.outcome = "none"
    <3>1. unknown = {}
      BY <1>2, <2>3 DEF Outcomes
    <3>2. outcome = "unknown" /\ r = call.review.id
      BY <2>3, <3>1
    <3>3. seen.submission = r /\ seen.outcome = "none"
      BY <2>3, <3>2 DEF Called, CallShown
    <3> QED BY <1>2, <1>5, <2>3, <3>2, <3>3
  <2> QED BY <1>1, <2>1, <2>2, <2>3 DEF Outcomes
<1>14. Shrinking' /\ Best(shell)' /\ Best(seen)'
  BY <1>1, <1>5, <1>7 DEF Shrinking, Best, ListOf, Replaced
<1>15. Approving' /\ Overtaking'
  BY <1>1, <1>5, <1>7 DEF Approving, Overtaking, Replaced, OfReview, ConfirmedOf, Shown
<1> QED BY <1>6, <1>8, <1>9, <1>10, <1>11, <1>12, <1>13, <1>14, <1>15

\* The providers and Platform move on: the shell notices at the next render.
LEMMA OutsideStep ==
  ASSUME ShellAssumption, ShellInv, Provider \/ \E k \in SigningKeys : DisableKey(k)
  PROVE  ShellInv'
<1> USE DEF ShellAssumption, ShellInv
<1>1. /\ UNCHANGED <<shell, reactVars, sync, mounted, reviews, runVars, callVars, historyVars>>
      /\ shownSdk' = shownSdk /\ shownSigner' = shownSigner /\ chainKeys' \subseteq chainKeys
  BY DEF Provider, PublishSdk, RetireSdk, BuildSigner, AcceptSigner, DropSigner, DisableKey
<1>2. /\ sdk' \in Session0 /\ signer' \in Signer0
      /\ boundTo' \in [Signers -> Session0]
  <2>1. CASE Provider
    <3>1. CASE UNCHANGED signerVars
      BY <2>1, <3>1 DEF Provider, PublishSdk, RetireSdk, BuildSigner, AcceptSigner, DropSigner,
                        Typed, Session0, Sessions
    <3>2. CASE \E k \in Signers : BuildSigner(k)
      BY <3>2 DEF BuildSigner, Typed
    <3>3. CASE \E k \in Signers : AcceptSigner(k)
      <4>1. PICK k \in Signers : AcceptSigner(k)
        BY <3>3
      <4>2. signer' = k /\ boundTo' = boundTo /\ sdk' = sdk
        BY <4>1 DEF AcceptSigner
      <4>3. k \in Signer0
        BY DEF Signer0, Signers
      <4> QED BY <4>2, <4>3 DEF Typed
    <3>4. CASE DropSigner
      BY <3>4 DEF DropSigner, Typed, Signer0
    <3> QED BY <2>1, <3>1, <3>2, <3>3, <3>4 DEF Provider
  <2>2. CASE \E k \in SigningKeys : DisableKey(k)
    BY <2>2 DEF DisableKey, Typed
  <2> QED BY <2>1, <2>2
<1>3. ShownSdkKnown'
  BY <1>1 DEF Provider, PublishSdk, RetireSdk, BuildSigner, AcceptSigner, DropSigner, DisableKey,
              ShownSdkKnown
<1>4. Typed'
  BY <1>1, <1>2 DEF Typed, TypeOK
<1>5. Known' \subseteq Known
  BY <1>1 DEF Known, ListOf
<1>6. Lag' /\ Depends' /\ Outcomes'
  BY <1>1 DEF Lag, Depends, Binding, Outcomes
<1>7. Numbered' /\ Called'
  BY <1>1 DEF Numbered, NumberedIn, Called, CallShown, Binding
<1>8. Staged(shell)' /\ Staged(seen)' /\ Unsubmitted(shell)' /\ Unsubmitted(seen)'
  BY <1>1 DEF Staged, Unsubmitted
<1>9. Shrinking' /\ Best(shell)' /\ Best(seen)'
  BY <1>1, <1>5 DEF Shrinking, Best, ListOf, Replaced
<1>10. Approving' /\ Overtaking'
  BY <1>1, <1>5 DEF Approving, Overtaking, Replaced, OfReview, ConfirmedOf, Shown
<1> QED BY <1>3, <1>4, <1>6, <1>7, <1>8, <1>9, <1>10

\* Every step of the shell keeps the invariant.
LEMMA NextInv ==
  ASSUME ShellAssumption, ShellInv, [Next]_vars
  PROVE  ShellInv'
<1>1. CASE User
  <2>1. CASE \E o \in Inputs \cup {None}, click \in BOOLEAN : EditOptions(o, click)
    BY <2>1, EditStep
  <2>2. CASE Review \/ Acknowledge \/ Back \/ RetryKeyCheck
    BY <2>2, ReviewStep, AcknowledgeStep, BackStep, RetryStep
  <2>3. CASE ConfirmKey \/ Execute \/ StartOver \/ Unmount
    BY <2>3, ConfirmStep, ExecuteStep, StartOverStep, UnmountStep
  <2>4. CASE PickOperation
    <3>1. op + 1 \in 1..MaxOps
      BY <2>4 DEF PickOperation, ShellInv, Typed, TypeOK, ShellAssumption
    <3>2. sync = "none" /\ sync' = sync /\ RenderAt(op + 1)
      BY <2>4 DEF PickOperation, Free
    <3> QED BY <3>1, <3>2, RenderStep
  <2> QED BY <1>1, <2>1, <2>2, <2>3, <2>4 DEF User
<1>2. CASE Commit
  <2>1. op \in 1..MaxOps
    BY DEF ShellInv, Typed, TypeOK
  <2>2. /\ RenderAt(op) /\ sync # "effects"
        /\ sync' = IF sync = "commit" THEN "effects" ELSE "none"
    BY <1>2 DEF Commit
  <2> QED BY <2>1, <2>2, RenderStep
<1>3. CASE RunEffects \/ Arrivals
  BY <1>3, EffectsStep, KeysStep, CriteriaStep DEF Arrivals
<1>4. CASE Executor
  <2>1. ASSUME NotSubmitted, CallFrame, sync = "none", call.pc # "none"
        PROVE  ShellInv'
    BY <2>1, EndStep DEF NotSubmitted
  <2>2. CASE CriteriaResolved
    BY <2>1, <2>2, ContinueStep DEF CriteriaResolved, At, Free, Continue
  <2>3. CASE PrepareKey
    <3>1. Loadable \subseteq SigningKeys /\ 0 \notin SigningKeys
      BY DEF Loadable, ShellInv, Typed, TypeOK, ShellAssumption
    <3> QED BY <2>1, <2>3, <3>1, ContinueStep DEF PrepareKey, At, Free, Continue
  <2>4. CASE VersionChecked
    BY <2>1, <2>4, ContinueStep DEF VersionChecked, At, Free, Continue
  <2>5. CASE SubmitOrFail
    BY <2>1, <2>5, SubmitStep DEF SubmitOrFail, At, Free, AssertCurrent, IsCurrent
  <2>6. CASE WriteAccepted
    BY <2>6, EndStep DEF WriteAccepted, At, Free
  <2>7. CASE WriteRefused
    BY <2>1, <2>7 DEF WriteRefused, At, Free
  <2>8. CASE WriteFails
    BY <2>8, EndStep DEF WriteFails, FailedWrite, At, Free
  <2> QED BY <1>4, <2>2, <2>3, <2>4, <2>5, <2>6, <2>7, <2>8 DEF Executor
<1>5. CASE Provider \/ \E k \in SigningKeys : DisableKey(k)
  BY <1>5, OutsideStep
<1>6. CASE UNCHANGED vars
  <2>1. Typed' /\ ShownSdkKnown'
    BY <1>6 DEF vars, ShellInv, Typed, TypeOK, ShownSdkKnown
  <2>2. Lag' /\ Depends' /\ Numbered'
    BY <1>6 DEF vars, ShellInv, Lag, Depends, Binding, Numbered, NumberedIn
  <2>3. Staged(shell)' /\ Staged(seen)' /\ Unsubmitted(shell)' /\ Unsubmitted(seen)'
    BY <1>6 DEF vars, ShellInv, Staged, Unsubmitted
  <2>4. Called' /\ Outcomes'
    BY <1>6 DEF vars, ShellInv, Called, CallShown, Binding, Outcomes
  <2>5. Known' = Known
    BY <1>6 DEF vars, Known, ListOf
  <2>6. Shrinking' /\ Best(shell)' /\ Best(seen)'
    BY <1>6, <2>5 DEF vars, ShellInv, Shrinking, Best, Replaced, ListOf
  <2>7. Approving' /\ Overtaking'
    BY <1>6, <2>5 DEF vars, ShellInv, Approving, Overtaking, OfReview, ConfirmedOf, Shown, Replaced
  <2> QED BY <2>1, <2>2, <2>3, <2>4, <2>6, <2>7 DEF ShellInv
<1> QED BY <1>1, <1>2, <1>3, <1>4, <1>5, <1>6 DEF Next

\* OperationShell.tsx and the executors keep their invariant.
THEOREM ShellInvariant ==
  ASSUME ShellAssumption
  PROVE  Spec => []ShellInv
<1>1. Init => ShellInv
  BY InitInv
<1>2. ShellInv /\ [Next]_vars => ShellInv'
  BY NextInv
<1> QED BY <1>1, <1>2, PTL DEF Spec

\* Every variable of the shell holds a value of its type.
THEOREM ShellTypes ==
  ASSUME ShellAssumption
  PROVE  Spec => []TypeOK
<1>1. ShellInv => TypeOK
  BY DEF ShellInv, Typed
<1>2. Spec => []ShellInv
  BY ShellInvariant
<1> QED BY <1>1, <1>2, PTL

\* What the invariant says of outcomes, of inputs and of keys.
LEMMA InvKeepsOutcomes == ShellInv => OutcomesKept
BY DEF ShellInv, Outcomes, Called, OutcomesKept

LEMMA InvDropsSecrets == ShellInv => SecretsDropped
BY DEF ShellInv, Staged, Called, SecretsDropped

\* No outcome is lost or wrong: what the shell calls not submitted is not on Platform, and
\* the receipt of a write under way or of unknown outcome stays on screen.
THEOREM OutcomesAreKept ==
  ASSUME ShellAssumption
  PROVE  Spec => []OutcomesKept
<1>1. ShellInv => OutcomesKept
  BY InvKeepsOutcomes
<1>2. Spec => []ShellInv
  BY ShellInvariant
<1> QED BY <1>1, <1>2, PTL

\* The inputs are gone once a rendered call is settled, and no key outlives its call.
THEOREM SecretsAreDropped ==
  ASSUME ShellAssumption
  PROVE  Spec => []SecretsDropped
<1>1. ShellInv => SecretsDropped
  BY InvDropsSecrets
<1>2. Spec => []ShellInv
  BY ShellInvariant
<1> QED BY <1>1, <1>2, PTL

\* A step that starts a write starts it for what the user approved.
LEMMA WriteApproved ==
  ASSUME ShellInv, [Next]_vars
  PROVE  ApprovedWrite
<1>1. ASSUME NEW r \in ReviewIds, Writing(r)
      PROVE  /\ writes[r] = 0 /\ mounted
             /\ call.review.binding[1] = sdk /\ call.review.binding[2] = shownSigner
             /\ call.review.options = seen.options
             /\ SignsInForm \/ <<r, material>> \in approved
             /\ NeedsAck => r \in acked
  <2>1. writes' # writes
    BY <1>1 DEF Writing
  <2>2. /\ call.pc = "build" /\ IsCurrent(call.review)
        /\ writes' = [writes EXCEPT ![call.review.id] = @ + 1]
    <3>1. CASE User
      BY <2>1, <3>1 DEF User, EditOptions, Review, Acknowledge, Back, RetryKeyCheck, ConfirmKey,
                        Execute, StartOver, PickOperation, RenderAt, Unmount, Click
    <3>2. CASE Commit \/ RunEffects \/ Arrivals
      BY <2>1, <3>2 DEF Commit, RenderAt, RunEffects, Arrivals, KeysArrive, CriteriaArrive
    <3>3. CASE Provider \/ \E k \in SigningKeys : DisableKey(k)
      BY <2>1, <3>3 DEF Provider, DisableKey
    <3>4. CASE Executor
      BY <2>1, <3>4 DEF Executor, CriteriaResolved, PrepareKey, VersionChecked, SubmitOrFail,
                        WriteAccepted, WriteRefused, WriteFails, NotSubmitted, Continue, FailedWrite,
                        At, AssertCurrent
    <3>5. CASE UNCHANGED vars
      BY <2>1, <3>5 DEF vars
    <3> QED BY <1>1, <3>1, <3>2, <3>3, <3>4, <3>5 DEF Next
  <2>3. r = call.review.id
    BY <1>1, <2>2 DEF Writing, ShellInv, Typed, TypeOK
  <2>4. /\ writes[r] = 0
        /\ SignsInForm \/ <<r, material>> \in approved
        /\ NeedsAck => r \in acked
    BY <1>1, <2>2, <2>3 DEF ShellInv, Called
  <2>5. call.review.binding = Binding /\ Binding[1] = shownSdk /\ Binding[2] = shownSigner
    BY <2>2 DEF IsCurrent, Binding
  <2>6. shownSdk = sdk
    BY <1>1, <2>2, <2>5 DEF IsCurrent, ShellInv, ShownSdkKnown
  <2>7. mounted /\ call.review.options = seen.options
    BY <2>2 DEF IsCurrent
  <2>8. call.review.binding[1] = sdk /\ call.review.binding[2] = shownSigner
    BY <2>5, <2>6
  <2> QED BY <2>4, <2>7, <2>8
<1> QED BY <1>1 DEF ApprovedWrite

\* A write starts at most once for a review, and only for what the user approved.
THEOREM WritesAreApproved ==
  ASSUME ShellAssumption
  PROVE  Spec => [][ApprovedWrite]_vars
<1>1. ShellInv /\ [Next]_vars => [ApprovedWrite]_vars
  BY WriteApproved
<1>2. Spec => []ShellInv
  BY ShellInvariant
<1> QED BY <1>1, <1>2, PTL DEF Spec

=============================================================================
