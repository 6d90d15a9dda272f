----------------------------- MODULE SessionFeed -----------------------------
(***************************************************************************)
(* What useSdk() promises the components below the provider, and all that   *)
(* the signer and the broadcast console may rely on: an SDK is published    *)
(* once, for a session whose abort signal has not fired; whatever takes it  *)
(* away fires the signal at once, while children go on rendering the old    *)
(* value until the next commit.                                             *)
(*                                                                         *)
(* SdkSession implements this module (Feed in that module).                 *)
(***************************************************************************)
EXTENDS Naturals

CONSTANT MaxSessions  \* sessions are numbered from 1; 0 stands for null

VARIABLES
    sdk,      \* the SDK instance the provider has queued, by session
    shownSdk, \* the one children rendered last
    aborted   \* sessions whose abort signal fired

feedVars == <<sdk, shownSdk, aborted>>

Sessions == 1..MaxSessions
Session0 == 0..MaxSessions

FeedInit == sdk = 0 /\ shownSdk = 0 /\ aborted = {}

\* The only way for an SDK to appear.
PublishSdk(i) ==
    /\ sdk = 0 /\ i \notin aborted
    /\ sdk' = i
    /\ UNCHANGED <<shownSdk, aborted>>

\* A retirement, a new attempt, a blocked name: `others` are attempts aborted
\* before they published anything.
RetireSdk(others) ==
    /\ sdk' = 0
    /\ aborted' = aborted \cup ({sdk} \ {0}) \cup others
    /\ UNCHANGED shownSdk

RenderSdk ==
    /\ shownSdk' = sdk
    /\ UNCHANGED <<sdk, aborted>>

\* The provider unmounts and a new one mounts.
ReplaceProvider(others) ==
    /\ sdk' = 0
    /\ shownSdk' = 0
    /\ aborted' = aborted \cup ({sdk} \ {0}) \cup others

FeedNext ==
    \/ \E i \in Sessions : PublishSdk(i)
    \/ \E others \in SUBSET Sessions : RetireSdk(others) \/ ReplaceProvider(others)
    \/ RenderSdk

FeedSpec == FeedInit /\ [][FeedNext]_feedVars

=============================================================================
