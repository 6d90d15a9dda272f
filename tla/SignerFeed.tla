------------------------------ MODULE SignerFeed ------------------------------
(***************************************************************************)
(* What useSigner() promises the broadcast console, next to SessionFeed: a  *)
(* signer appears once, bound to the SDK children rendered, while that SDK  *)
(* is the current one; taking it away destroys its keys at once, while      *)
(* children go on rendering it until the next commit.                       *)
(*                                                                         *)
(* SignerSession implements this module (Promise in that module).           *)
(***************************************************************************)
EXTENDS SessionFeed

CONSTANT MaxSigners  \* signers are numbered from 1; 0 stands for null

VARIABLES
    signer,      \* the connected signer, as queued
    shownSigner, \* the one children rendered last
    boundTo,     \* boundTo[k]: the SDK signer k was built with
    destroyed    \* signers whose keys are wiped

signerVars == <<signer, shownSigner, boundTo, destroyed>>

Signers == 1..MaxSigners
Signer0 == 0..MaxSigners

SignerInit ==
    /\ signer = 0 /\ shownSigner = 0
    /\ boundTo = [k \in Signers |-> 0]
    /\ destroyed = {}

\* A connection attempt builds signer k on the SDK its pane rendered.
BuildSigner(k) ==
    /\ boundTo[k] = 0 /\ k \notin destroyed
    /\ shownSdk # 0
    /\ boundTo' = [boundTo EXCEPT ![k] = shownSdk]
    /\ UNCHANGED <<signer, shownSigner, destroyed, feedVars>>

DiscardSigner(k) ==
    /\ k # signer /\ boundTo[k] # 0
    /\ destroyed' = destroyed \cup {k}
    /\ UNCHANGED <<signer, shownSigner, boundTo, feedVars>>

AcceptSigner(k) ==
    /\ k \notin destroyed /\ k # signer
    /\ boundTo[k] # 0 /\ boundTo[k] = sdk /\ boundTo[k] = shownSdk
    /\ signer' = k
    /\ destroyed' = destroyed \cup ({signer} \ {0})
    /\ UNCHANGED <<shownSigner, boundTo, feedVars>>

DropSigner ==
    /\ signer' = 0
    /\ destroyed' = destroyed \cup ({signer} \ {0})
    /\ UNCHANGED <<shownSigner, boundTo, feedVars>>

\* React renders both contexts together.
Render ==
    /\ RenderSdk
    /\ shownSigner' = signer
    /\ UNCHANGED <<signer, boundTo, destroyed>>

SignerFeedInit == FeedInit /\ SignerInit

SdkStep ==
    /\ \/ \E i \in Sessions : PublishSdk(i)
       \/ \E others \in SUBSET Sessions : RetireSdk(others)
    /\ UNCHANGED signerVars

SignerFeedNext ==
    \/ SdkStep
    \/ \E k \in Signers : BuildSigner(k) \/ DiscardSigner(k) \/ AcceptSigner(k)
    \/ DropSigner
    \/ Render

SignerFeedSpec == SignerFeedInit /\ [][SignerFeedNext]_<<feedVars, signerVars>>

=============================================================================
