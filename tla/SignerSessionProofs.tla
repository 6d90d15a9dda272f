-------------------------- MODULE SignerSessionProofs --------------------------
(***************************************************************************)
(* Proofs about SignerSession, for any number of SDK sessions, connection  *)
(* attempts and generations: the connected signer alone holds keys, and    *)
(* the provider implements SignerFeed.                                     *)
(***************************************************************************)
EXTENDS SignerSession, TLAPS

Attempts == [keys : Keys, sdk : Nat, generation : Nat, overtaken : BOOLEAN]

\* The part of TypeOK the arguments below need.
Typed ==
    /\ signer \in Signers \cup {0}
    /\ generation \in Nat /\ shownGeneration \in Nat
    /\ attempt \in [Signers -> Attempts]
    /\ sdk \in Nat /\ shownSdk \in Nat

\* An attempt that may still be accepted was not overtaken: whatever changed the signer
\* since took a generation of its own, or the provider is gone.
OnTime ==
    /\ shownGeneration <= generation
    /\ \A k \in Signers :
          /\ attempt[k].keys = "scanning" => attempt[k].generation <= generation
          /\ attempt[k].keys = "scanning" /\ mounted /\ attempt[k].generation = generation
                => ~attempt[k].overtaken

\* Every attempt has a session, and only the connected signer has keys.
Bound ==
    \A k \in Signers :
        /\ attempt[k].keys = "none" <=> attempt[k].sdk = 0
        /\ attempt[k].keys = "held" <=> k = signer

\* Children render the provider's SDK, or one whose session was aborted.
ShownSdkKnown == shownSdk # 0 /\ shownSdk \notin aborted => shownSdk = sdk

SignerInv ==
    /\ Typed /\ OnTime /\ Bound /\ ShownSdkKnown
    /\ signer # 0 => ~attempt[signer].overtaken

\* Null is no attempt, and no session.
LEMMA NumberedFromOne == 0 \notin Signers /\ \A i \in Sessions : i \in Nat /\ i # 0
  BY SMT DEF Signers, Sessions

\* Taking the signer away wipes its keys, and overtakes every attempt under way.
LEMMA ReplacedByNone ==
  ASSUME SignerInv, attempt' = Replaced(0)
  PROVE  /\ attempt' \in [Signers -> Attempts]
         /\ \A k \in Signers :
               /\ attempt'[k].sdk = attempt[k].sdk
               /\ attempt'[k].generation = attempt[k].generation
               /\ attempt'[k].keys = IF k = signer THEN "wiped" ELSE attempt[k].keys
<1>1. \A k \in Signers : k # 0
  BY NumberedFromOne
<1>2. \A k \in Signers : attempt[k] \in Attempts
  BY DEF SignerInv, Typed
<1>3. \A k \in Signers :
         attempt'[k] = IF k = signer THEN [attempt[k] EXCEPT !.keys = "wiped"]
                       ELSE IF attempt[k].keys = "scanning"
                            THEN [attempt[k] EXCEPT !.overtaken = TRUE]
                            ELSE attempt[k]
  BY <1>1 DEF Replaced
<1>4. \A k \in Signers : attempt'[k] \in Attempts
  BY <1>2, <1>3 DEF Attempts, Keys
<1>5. attempt' \in [Signers -> Attempts]
  BY <1>4 DEF Replaced
<1> QED BY <1>2, <1>3, <1>5 DEF Attempts

\* A disconnect, an idle timeout, a route or a session that is left: the generation moves
\* on, so no attempt under way is on time any more.
LEMMA ClearStep ==
  ASSUME SignerInv, NEW keep \in BOOLEAN, ClearSigner(keep),
         UNCHANGED <<shownGeneration, mounted, feedVars>>
  PROVE  SignerInv'
<1>1. /\ signer' = 0 /\ generation' = generation + 1 /\ attempt' = Replaced(0)
      /\ shownGeneration' = shownGeneration /\ mounted' = mounted
      /\ sdk' = sdk /\ shownSdk' = shownSdk /\ aborted' = aborted
  BY DEF ClearSigner, feedVars
<1>2. /\ attempt' \in [Signers -> Attempts]
      /\ \A k \in Signers :
            /\ attempt'[k].sdk = attempt[k].sdk
            /\ attempt'[k].generation = attempt[k].generation
            /\ attempt'[k].keys = IF k = signer THEN "wiped" ELSE attempt[k].keys
  BY <1>1, ReplacedByNone
<1>3. Typed'
  BY <1>1, <1>2 DEF SignerInv, Typed
<1>4. OnTime'
  <2>1. \A k \in Signers : attempt[k].generation \in Nat
    BY DEF SignerInv, Typed, Attempts
  <2>2. \A k \in Signers : attempt'[k].keys = "scanning" => attempt'[k].generation <= generation
    BY <1>2 DEF SignerInv, OnTime
  <2> QED BY <1>1, <1>2, <2>1, <2>2 DEF SignerInv, Typed, OnTime
<1>5. Bound'
  BY <1>1, <1>2, NumberedFromOne DEF SignerInv, Bound
<1>6. ShownSdkKnown'
  BY <1>1 DEF SignerInv, ShownSdkKnown
<1> QED BY <1>1, <1>3, <1>4, <1>5, <1>6 DEF SignerInv

\* The provider unmounts: it accepts nothing any more, so no generation is needed.
LEMMA UnmountStep ==
  ASSUME SignerInv, Unmount
  PROVE  SignerInv'
<1>1. /\ signer' = 0 /\ attempt' = Replaced(0) /\ mounted' = FALSE
      /\ generation' = generation /\ shownGeneration' = shownGeneration
      /\ sdk' = sdk /\ shownSdk' = shownSdk /\ aborted' = aborted
  BY DEF Unmount, feedVars
<1>2. /\ attempt' \in [Signers -> Attempts]
      /\ \A k \in Signers :
            /\ attempt'[k].sdk = attempt[k].sdk
            /\ attempt'[k].generation = attempt[k].generation
            /\ attempt'[k].keys = IF k = signer THEN "wiped" ELSE attempt[k].keys
  BY <1>1, ReplacedByNone
<1>3. Typed'
  BY <1>1, <1>2 DEF SignerInv, Typed
<1>4. OnTime'
  BY <1>1, <1>2 DEF SignerInv, OnTime
<1>5. Bound'
  BY <1>1, <1>2, NumberedFromOne DEF SignerInv, Bound
<1>6. ShownSdkKnown'
  BY <1>1 DEF SignerInv, ShownSdkKnown
<1> QED BY <1>1, <1>3, <1>4, <1>5, <1>6 DEF SignerInv

\* A pane starts an attempt: on time only if it rendered the latest generation.
LEMMA StartStep ==
  ASSUME SignerInv, NEW k \in Signers, StartConnect(k)
  PROVE  SignerInv'
<1> DEFINE started == [keys |-> "scanning", sdk |-> shownSdk, generation |-> shownGeneration,
                       overtaken |-> generation # shownGeneration]
<1>1. /\ attempt[k].keys = "none" /\ shownSdk # 0
      /\ attempt' = [attempt EXCEPT ![k] = started]
      /\ signer' = signer /\ generation' = generation
      /\ shownGeneration' = shownGeneration /\ mounted' = mounted
      /\ sdk' = sdk /\ shownSdk' = shownSdk /\ aborted' = aborted
  BY DEF StartConnect, refVars, reactVars, feedVars
<1>2. started \in Attempts
  BY DEF Attempts, Keys, SignerInv, Typed
<1>3. attempt' \in [Signers -> Attempts] /\ attempt'[k] = started
      /\ \A j \in Signers : j # k => attempt'[j] = attempt[j]
  BY <1>1, <1>2 DEF SignerInv, Typed
<1>4. Typed'
  BY <1>1, <1>3 DEF SignerInv, Typed
<1>5. OnTime'
  BY <1>1, <1>3 DEF SignerInv, OnTime
<1>6. k # signer
  BY <1>1 DEF SignerInv, Bound
<1>7. Bound'
  BY <1>1, <1>3, <1>6 DEF SignerInv, Bound
<1>8. ShownSdkKnown'
  BY <1>1 DEF SignerInv, ShownSdkKnown
<1>9. signer' # 0 => ~attempt'[signer'].overtaken
  BY <1>1, <1>3, <1>6 DEF SignerInv, Typed
<1> QED BY <1>4, <1>5, <1>7, <1>8, <1>9 DEF SignerInv

\* An attempt that fails or is rejected wipes its keys and nothing else.
LEMMA WipeStep ==
  ASSUME SignerInv, NEW k \in Signers, attempt[k].keys = "scanning",
         attempt' = [attempt EXCEPT ![k].keys = "wiped"],
         UNCHANGED <<refVars, shownGeneration, mounted, feedVars>>
  PROVE  SignerInv'
<1>1. /\ signer' = signer /\ generation' = generation
      /\ shownGeneration' = shownGeneration /\ mounted' = mounted
      /\ sdk' = sdk /\ shownSdk' = shownSdk /\ aborted' = aborted
  BY DEF refVars, feedVars
<1>2. /\ attempt' \in [Signers -> Attempts]
      /\ attempt'[k] = [attempt[k] EXCEPT !.keys = "wiped"]
      /\ \A j \in Signers : j # k => attempt'[j] = attempt[j]
  <2>1. attempt[k] \in Attempts
    BY DEF SignerInv, Typed
  <2>2. [attempt[k] EXCEPT !.keys = "wiped"] \in Attempts
    BY <2>1 DEF Attempts, Keys
  <2> QED BY <2>2 DEF SignerInv, Typed
<1>3. attempt'[k].keys = "wiped" /\ attempt'[k].sdk = attempt[k].sdk
  <2>1. attempt[k] \in Attempts
    BY DEF SignerInv, Typed
  <2> QED BY <2>1, <1>2 DEF Attempts
<1>4. Typed'
  BY <1>1, <1>2 DEF SignerInv, Typed
<1>5. OnTime'
  BY <1>1, <1>2, <1>3 DEF SignerInv, OnTime
<1>6. k # signer
  BY DEF SignerInv, Bound
<1>7. Bound'
  BY <1>1, <1>2, <1>3, <1>6 DEF SignerInv, Bound
<1>8. ShownSdkKnown'
  BY <1>1 DEF SignerInv, ShownSdkKnown
<1>9. signer' # 0 => ~attempt'[signer'].overtaken
  BY <1>1, <1>2, <1>6 DEF SignerInv, Typed
<1> QED BY <1>4, <1>5, <1>7, <1>8, <1>9 DEF SignerInv

\* connect() takes the signer it built for the session and the generation of now.
LEMMA AcceptStep ==
  ASSUME SignerInv, NEW k \in Signers, attempt[k].keys = "scanning", SessionUnchanged(k),
         Accept(k), UNCHANGED <<shownGeneration, mounted, feedVars>>
  PROVE  /\ SignerInv'
         /\ \A j \in Signers :
               /\ attempt'[j].sdk = attempt[j].sdk
               /\ attempt'[j].keys = IF j = k THEN "held" ELSE
                                     IF j = signer THEN "wiped" ELSE attempt[j].keys
<1>1. /\ signer' = k /\ generation' = generation + 1 /\ attempt' = Replaced(k)
      /\ shownGeneration' = shownGeneration /\ mounted' = mounted
      /\ sdk' = sdk /\ shownSdk' = shownSdk /\ aborted' = aborted
  BY DEF Accept, feedVars
<1>2. \A j \in Signers : attempt[j] \in Attempts
  BY DEF SignerInv, Typed
<1>3. \A j \in Signers :
         attempt'[j] = IF j = k THEN [attempt[j] EXCEPT !.keys = "held"]
                       ELSE IF j = signer THEN [attempt[j] EXCEPT !.keys = "wiped"]
                       ELSE IF attempt[j].keys = "scanning"
                            THEN [attempt[j] EXCEPT !.overtaken = TRUE]
                            ELSE attempt[j]
  BY <1>1 DEF Replaced
<1>4. \A j \in Signers : attempt'[j] \in Attempts
  <2>1. \A r \in Attempts : /\ [r EXCEPT !.keys = "held"] \in Attempts
                           /\ [r EXCEPT !.keys = "wiped"] \in Attempts
                           /\ [r EXCEPT !.overtaken = TRUE] \in Attempts
    BY DEF Attempts, Keys
  <2> QED BY <1>2, <1>3, <2>1
<1>5. attempt' \in [Signers -> Attempts]
  BY <1>1, <1>4 DEF Replaced
<1>6. \A j \in Signers :
         /\ attempt'[j].sdk = attempt[j].sdk
         /\ attempt'[j].generation = attempt[j].generation
         /\ attempt'[j].keys = IF j = k THEN "held" ELSE
                               IF j = signer THEN "wiped" ELSE attempt[j].keys
  BY <1>2, <1>3 DEF Attempts
<1>7. ~attempt'[k].overtaken
  <2>1. ~attempt[k].overtaken
    BY DEF SignerInv, OnTime, SessionUnchanged
  <2> QED BY <2>1, <1>2, <1>3 DEF Attempts
<1>8. Typed'
  BY <1>1, <1>5 DEF SignerInv, Typed
<1>9. OnTime'
  <2>1. \A j \in Signers : attempt[j].generation \in Nat
    BY <1>2 DEF Attempts
  <2>2. \A j \in Signers : attempt'[j].keys = "scanning" => attempt'[j].generation <= generation
    BY <1>6 DEF SignerInv, OnTime
  <2> QED BY <1>1, <1>6, <2>1, <2>2 DEF SignerInv, Typed, OnTime
<1>10. Bound'
  BY <1>1, <1>6 DEF SignerInv, Bound
<1>11. ShownSdkKnown'
  BY <1>1 DEF SignerInv, ShownSdkKnown
<1> QED BY <1>1, <1>6, <1>7, <1>8, <1>9, <1>10, <1>11 DEF SignerInv

\* The steps that leave the signer and every attempt alone.
LEMMA QuietSteps ==
  ASSUME SignerInv, SdkStep \/ DismissHint \/ Commit \/ (\E p \in Paths : Navigate(p))
  PROVE  SignerInv'
<1>1. CASE SdkStep
  <2>1. /\ UNCHANGED <<signer, generation, shownGeneration, attempt, mounted, shownSdk>>
        /\ sdk' \in Nat
        /\ shownSdk # 0 /\ shownSdk \notin aborted' => shownSdk = sdk'
    <3>1. CASE \E i \in Sessions : PublishSdk(i)
      BY <1>1, <3>1, NumberedFromOne
         DEF SdkStep, PublishSdk, refVars, reactVars, SignerInv, ShownSdkKnown
    <3>2. CASE sdk # 0 /\ RetireSdk({})
      BY <1>1, <3>2 DEF SdkStep, RetireSdk, refVars, reactVars, SignerInv, ShownSdkKnown
    <3> QED BY <1>1, <3>1, <3>2 DEF SdkStep
  <2> QED BY <2>1 DEF SignerInv, Typed, OnTime, Bound, ShownSdkKnown
<1>2. CASE DismissHint
  BY <1>2 DEF DismissHint, feedVars, reactVars, SignerInv, Typed, OnTime, Bound, ShownSdkKnown
<1>3. ASSUME NEW p, RenderAt(p)
      PROVE  SignerInv'
  BY <1>3 DEF RenderAt, RenderSdk, refVars, SignerInv, Typed, OnTime, Bound, ShownSdkKnown
<1>4. CASE Commit
  BY <1>3, <1>4 DEF Commit
<1>5. CASE \E p \in Paths : Navigate(p)
  BY <1>3, <1>5 DEF Navigate
<1> QED BY <1>1, <1>2, <1>4, <1>5

\* The invariant holds of the first state.
LEMMA InitInv == Init => SignerInv
<1> SUFFICES ASSUME Init PROVE SignerInv
  OBVIOUS
<1>1. NoAttempt \in Attempts /\ NoAttempt.keys = "none" /\ NoAttempt.sdk = 0
  BY DEF NoAttempt, Attempts, Keys
<1>2. /\ attempt \in [Signers -> Attempts]
      /\ \A k \in Signers : attempt[k].keys = "none" /\ attempt[k].sdk = 0
  BY <1>1 DEF Init
<1>3. Typed
  BY <1>2 DEF Init, FeedInit, Typed
<1>4. OnTime
  BY <1>2 DEF Init, OnTime
<1>5. Bound
  BY <1>2, NumberedFromOne DEF Init, Bound
<1> QED BY <1>3, <1>4, <1>5 DEF Init, FeedInit, ShownSdkKnown, SignerInv

\* Every step keeps it.
LEMMA NextInv == SignerInv /\ [Next]_vars => SignerInv'
<1> SUFFICES ASSUME SignerInv, [Next]_vars PROVE SignerInv'
  OBVIOUS
<1>1. CASE SdkStep \/ DismissHint \/ Commit \/ (\E p \in Paths : Navigate(p))
  BY <1>1, QuietSteps
<1>2. CASE Disconnect \/ IdleOut
  <2>1. /\ \E keep \in BOOLEAN : ClearSigner(keep)
        /\ UNCHANGED <<shownGeneration, mounted, feedVars>>
    BY <1>2 DEF Disconnect, IdleOut, reactVars
  <2> QED BY <2>1, ClearStep
<1>3. CASE Unmount
  BY <1>3, UnmountStep
<1>4. CASE \E k \in Signers : StartConnect(k)
  BY <1>4, StartStep
<1>5. CASE RunEffects
  <2>1. UNCHANGED <<shownGeneration, mounted, feedVars>>
    BY <1>5 DEF RunEffects
  <2>2. CASE \E keep \in BOOLEAN : ClearSigner(keep)
    BY <2>1, <2>2, ClearStep
  <2>3. CASE UNCHANGED <<refVars, attempt>>
    BY <2>1, <2>3 DEF refVars, feedVars, SignerInv, Typed, OnTime, Bound, ShownSdkKnown
  <2> QED BY <1>5, <2>2, <2>3 DEF RunEffects
<1>6. ASSUME NEW k \in Signers, SignerFails(k)
      PROVE  SignerInv'
  BY <1>6, WipeStep DEF SignerFails, reactVars
<1>7. ASSUME NEW k \in Signers, SignerBuilt(k)
      PROVE  SignerInv'
  <2>1. attempt[k].keys = "scanning" /\ UNCHANGED <<shownGeneration, mounted, feedVars>>
    BY <1>7 DEF SignerBuilt, reactVars
  <2>2. CASE SessionUnchanged(k)
    BY <1>7, <2>1, <2>2, AcceptStep DEF SignerBuilt
  <2>3. CASE ~SessionUnchanged(k)
    BY <1>7, <2>1, <2>3, WipeStep DEF SignerBuilt, Reject
  <2> QED BY <2>2, <2>3
<1>8. CASE UNCHANGED vars
  BY <1>8 DEF vars, refVars, reactVars, feedVars, SignerInv, Typed, OnTime, Bound, ShownSdkKnown
<1> QED BY <1>1, <1>2, <1>3, <1>4, <1>5, <1>6, <1>7, <1>8 DEF Next, UserInput, Continue

\* The strengthened invariant: generations tell which attempts are on time.
THEOREM SignerInvariant == Spec => []SignerInv
  BY InitInv, NextInv, PTL DEF Spec

\* Keys outlive an attempt only in the connected signer, and a disconnect, an idle
\* timeout or another pane's signer wins over every attempt under way.
THEOREM KeysHeldByConnected == Spec => []KeysOfConnected
<1>1. SignerInv => KeysOfConnected
  BY DEF SignerInv, Bound, KeysOfConnected
<1> QED BY <1>1, SignerInvariant, PTL

-----------------------------------------------------------------------------
(* SignerSession implements SignerFeed: each step is one of the feed's, or  *)
(* changes nothing the feed has.                                           *)

BoundTo == [k \in Signers |-> attempt[k].sdk]
Destroyed == {k \in Signers : attempt[k].keys = "wiped"}

\* Clearing the signer, for whatever reason, drops it.
LEMMA ClearDrops ==
  ASSUME SignerInv, signer' = 0, attempt' = Replaced(0), UNCHANGED <<shownSigner, feedVars>>
  PROVE  Promise!DropSigner
<1>1. \A k \in Signers :
         /\ attempt'[k].sdk = attempt[k].sdk
         /\ attempt'[k].keys = IF k = signer THEN "wiped" ELSE attempt[k].keys
  BY ReplacedByNone
<1>2. BoundTo' = BoundTo
  BY <1>1 DEF BoundTo
<1>3. Destroyed' = Destroyed \cup ({signer} \ {0})
  BY <1>1, NumberedFromOne DEF Destroyed, SignerInv, Typed
<1> QED BY <1>2, <1>3 DEF Promise!DropSigner, Promise!feedVars, feedVars, BoundTo, Destroyed

\* An attempt that comes to nothing is discarded.
LEMMA WipeDiscards ==
  ASSUME SignerInv, NEW k \in Signers, attempt[k].keys = "scanning",
         attempt' = [attempt EXCEPT ![k].keys = "wiped"],
         UNCHANGED <<signer, shownSigner, feedVars>>
  PROVE  Promise!DiscardSigner(k)
<1>1. \A j \in Signers :
         /\ attempt'[j].sdk = attempt[j].sdk
         /\ attempt'[j].keys = IF j = k THEN "wiped" ELSE attempt[j].keys
  BY DEF SignerInv, Typed, Attempts
<1>2. BoundTo' = BoundTo /\ BoundTo[k] # 0
  BY <1>1 DEF BoundTo, SignerInv, Bound
<1>3. Destroyed' = Destroyed \cup {k} /\ k # signer
  BY <1>1 DEF Destroyed, SignerInv, Bound
<1> QED BY <1>2, <1>3 DEF Promise!DiscardSigner, Promise!feedVars, feedVars, BoundTo, Destroyed

\* A signer connect() takes is bound to the SDK that is published and rendered.
LEMMA AcceptAccepts ==
  ASSUME SignerInv, NEW k \in Signers, attempt[k].keys = "scanning", SessionUnchanged(k),
         Accept(k), UNCHANGED <<shownSigner, shownGeneration, mounted, feedVars>>
  PROVE  Promise!AcceptSigner(k)
<1>1. \A j \in Signers :
         /\ attempt'[j].sdk = attempt[j].sdk
         /\ attempt'[j].keys = IF j = k THEN "held" ELSE
                               IF j = signer THEN "wiped" ELSE attempt[j].keys
  BY AcceptStep
<1>2. BoundTo' = BoundTo /\ BoundTo[k] = shownSdk /\ BoundTo[k] # 0 /\ shownSdk = sdk
  BY <1>1 DEF BoundTo, SignerInv, Bound, ShownSdkKnown, SessionUnchanged
<1>3. k # signer /\ k \notin Destroyed
  BY DEF Destroyed, SignerInv, Bound
<1>4. Destroyed' = Destroyed \cup ({signer} \ {0})
  BY <1>1, <1>3, NumberedFromOne DEF Destroyed, SignerInv, Typed
<1> QED BY <1>2, <1>3, <1>4
        DEF Accept, Promise!AcceptSigner, Promise!feedVars, feedVars, BoundTo, Destroyed

\* The steps of the user, of React and of the attempts.
LEMMA StepsAreTheFeeds ==
  SignerInv /\ [Next]_vars
    => [Promise!SignerFeedNext]_<<feedVars, signer, shownSigner, BoundTo, Destroyed>>
<1> DEFINE feed == <<feedVars, signer, shownSigner, BoundTo, Destroyed>>
<1> SUFFICES ASSUME SignerInv, [Next]_vars
             PROVE  Promise!SignerFeedNext \/ UNCHANGED feed
  OBVIOUS
<1>1. CASE SdkStep
  <2>1. UNCHANGED <<signer, shownSigner, BoundTo, Destroyed>>
    BY <1>1 DEF SdkStep, refVars, reactVars, BoundTo, Destroyed
  <2>2. CASE \E i \in Sessions : PublishSdk(i)
    BY <2>1, <2>2 DEF Promise!SignerFeedNext, Promise!SdkStep, Promise!PublishSdk, PublishSdk,
       Promise!Sessions, Sessions, Promise!signerVars, BoundTo, Destroyed
  <2>3. CASE RetireSdk({})
    <3>1. Promise!RetireSdk({}) /\ {} \in SUBSET Promise!Sessions
      BY <2>3 DEF RetireSdk, Promise!RetireSdk
    <3> QED BY <2>1, <3>1 DEF Promise!SignerFeedNext, Promise!SdkStep, Promise!signerVars,
               BoundTo, Destroyed
  <2> QED BY <1>1, <2>2, <2>3 DEF SdkStep
<1>2. CASE Disconnect \/ IdleOut \/ Unmount
  <2>1. signer' = 0 /\ attempt' = Replaced(0) /\ UNCHANGED <<shownSigner, feedVars>>
    BY <1>2 DEF Disconnect, IdleOut, Unmount, ClearSigner, reactVars
  <2> QED BY <2>1, ClearDrops DEF Promise!SignerFeedNext
<1>3. CASE DismissHint
  BY <1>3 DEF DismissHint, reactVars, BoundTo, Destroyed
<1>4. ASSUME NEW k \in Signers, StartConnect(k)
      PROVE  Promise!BuildSigner(k)
  <2>1. \A j \in Signers :
           /\ attempt'[j].sdk = IF j = k THEN shownSdk ELSE attempt[j].sdk
           /\ attempt'[j].keys = IF j = k THEN "scanning" ELSE attempt[j].keys
    BY <1>4 DEF StartConnect, SignerInv, Typed
  <2>2. BoundTo' = [BoundTo EXCEPT ![k] = shownSdk] /\ BoundTo[k] = 0
    BY <1>4, <2>1 DEF StartConnect, BoundTo, SignerInv, Bound
  <2>3. Destroyed' = Destroyed /\ k \notin Destroyed
    BY <1>4, <2>1 DEF StartConnect, Destroyed
  <2> QED BY <1>4, <2>2, <2>3
          DEF StartConnect, refVars, reactVars, feedVars, Promise!BuildSigner, Promise!feedVars,
              BoundTo, Destroyed
<1>5. ASSUME NEW p, RenderAt(p)
      PROVE  Promise!Render
  BY <1>5 DEF RenderAt, RenderSdk, refVars, Promise!Render, Promise!RenderSdk
<1>6. CASE RunEffects
  <2>1. UNCHANGED <<shownSigner, feedVars>>
    BY <1>6 DEF RunEffects
  <2>2. CASE \E keep \in BOOLEAN : ClearSigner(keep)
    BY <2>1, <2>2, ClearDrops DEF ClearSigner, Promise!SignerFeedNext
  <2>3. CASE UNCHANGED <<refVars, attempt>>
    BY <2>1, <2>3 DEF refVars, BoundTo, Destroyed
  <2> QED BY <1>6, <2>2, <2>3 DEF RunEffects
<1>7. ASSUME NEW k \in Signers, SignerFails(k)
      PROVE  Promise!DiscardSigner(k)
  BY <1>7, WipeDiscards DEF SignerFails, refVars, reactVars
<1>8. ASSUME NEW k \in Signers, SignerBuilt(k)
      PROVE  Promise!AcceptSigner(k) \/ Promise!DiscardSigner(k)
  <2>1. /\ attempt[k].keys = "scanning"
        /\ UNCHANGED <<shownSigner, shownGeneration, mounted, feedVars>>
    BY <1>8 DEF SignerBuilt, reactVars
  <2>2. CASE SessionUnchanged(k)
    BY <1>8, <2>1, <2>2, AcceptAccepts DEF SignerBuilt
  <2>3. CASE ~SessionUnchanged(k)
    BY <1>8, <2>1, <2>3, WipeDiscards DEF SignerBuilt, Reject, refVars
  <2> QED BY <2>2, <2>3
<1>9. CASE UNCHANGED vars
  BY <1>9 DEF vars, refVars, reactVars, BoundTo, Destroyed
<1>10. \A k \in Signers : k \in Promise!Signers
  BY DEF Signers, Promise!Signers
<1>11. CASE Commit \/ \E p \in Paths : Navigate(p)
  BY <1>5, <1>11 DEF Commit, Navigate, Promise!SignerFeedNext
<1> QED BY <1>1, <1>2, <1>3, <1>4, <1>6, <1>7, <1>8, <1>9, <1>10, <1>11
        DEF Next, UserInput, Continue, Promise!SignerFeedNext

\* What the broadcast console relies on holds of the signer provider: a signer appears
\* once, bound to the SDK that is current and rendered, and losing it wipes its keys.
THEOREM ImplementsSignerFeed == Spec => FeedsSigners
<1>1. Init => Promise!SignerFeedInit
  BY NumberedFromOne DEF Init, FeedInit, NoAttempt, Promise!SignerFeedInit, Promise!FeedInit,
     Promise!SignerInit, Promise!Signers, Signers
<1>2. SignerInv /\ [Next]_vars
        => [Promise!SignerFeedNext]_<<Promise!feedVars, Promise!signerVars>>
  BY StepsAreTheFeeds DEF feedVars, Promise!feedVars, Promise!signerVars, BoundTo, Destroyed
<1> QED BY <1>1, <1>2, SignerInvariant, PTL DEF Spec, FeedsSigners, Promise!SignerFeedSpec

=============================================================================
