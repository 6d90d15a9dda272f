------------------------------ MODULE MCSigning ------------------------------
(***************************************************************************)
(* What stands between a user and a write, instantiated for TLC.  A          *)
(* behaviour is of one part: the shell with an operation the connected       *)
(* signer signs ("signed"), the shell with operations that sign with keys of *)
(* their form and outlive an SDK session ("form"), or the signer provider    *)
(* ("signer").  Each part is instantiated with its proofs, so that what they *)
(* prove of a part is proved here of the parts together.                    *)
(*                                                                         *)
(* No part is EXTENDed: TLC evaluates Sessions, which all of them take from  *)
(* SessionFeed, with the constants of the module it is run on when that      *)
(* module EXTENDs SessionFeed too.                                          *)
(***************************************************************************)
EXTENDS Naturals, FiniteSets, TLAPS

CONSTANTS a, None, Inputs, NeedsAck,
  MaxSessions, MaxSigners, SigningKeys, MaxReviews, MaxRefresh, MaxOps,  \* of "signed"
  FormSessions, FormKeys, FormReviews, FormOps,                          \* of "form"
  FeedSessions, FeedSigners, MaxGeneration                               \* of "signer"

ASSUME SigningAssumption ==
  /\ MaxSessions \in Nat /\ MaxSigners \in Nat /\ MaxReviews \in Nat
  /\ MaxRefresh \in Nat /\ MaxOps \in Nat \ {0}
  /\ FormSessions \in Nat /\ FormReviews \in Nat /\ FormOps \in Nat \ {0}
  /\ \A keys \in {SigningKeys, FormKeys} : keys \subseteq Nat \ {0} /\ IsFiniteSet(keys)
  /\ NeedsAck \in BOOLEAN
  /\ None \notin Inputs /\ None \notin [review : Nat, key : Nat, confirmed : Nat]

VARIABLES part,
  sdk, shownSdk, aborted, signer, shownSigner, boundTo, destroyed,  \* OperationShell
  shell, seen, seenCurrent, op, inFlight, mounted, reviews, effects, sync, deps,
  keyRun, criteriaRun, chainKeys, call, material,
  writes, reached, unknown, approved, acked,
  gSdk, gShownSdk, gAborted, gSigner, gShownSigner, gGeneration,    \* SignerSession
  gShownGeneration, gAttempt, gHint, gPath, gEffects, gDeps, gHasReady, gMounted

OneInput == {a}
OneKey == {1}
TwoKeys == {1, 2}

Signed == INSTANCE OperationShellProofs WITH SignsInForm <- FALSE
Form == INSTANCE OperationShellProofs WITH
          MaxSessions <- FormSessions, MaxSigners <- 0, SigningKeys <- FormKeys,
          SignsInForm <- TRUE, MaxReviews <- FormReviews, MaxRefresh <- 0,
          MaxOps <- FormOps
G == INSTANCE SignerSessionProofs WITH
       MaxSessions <- FeedSessions, MaxSigners <- FeedSigners,
       sdk <- gSdk, shownSdk <- gShownSdk, aborted <- gAborted, signer <- gSigner,
       shownSigner <- gShownSigner, generation <- gGeneration,
       shownGeneration <- gShownGeneration, attempt <- gAttempt, hint <- gHint,
       path <- gPath, effects <- gEffects, deps <- gDeps, hasReady <- gHasReady,
       mounted <- gMounted

shellVars == <<sdk, shownSdk, aborted, signer, shownSigner, boundTo, destroyed,
  shell, seen, seenCurrent, op, inFlight, mounted, reviews, effects, sync, deps,
  keyRun, criteriaRun, chainKeys, call, material,
  writes, reached, unknown, approved, acked>>
signerVars == <<gSdk, gShownSdk, gAborted, gSigner, gShownSigner, gGeneration,
  gShownGeneration, gAttempt, gHint, gPath, gEffects, gDeps, gHasReady, gMounted>>

Init ==
  /\ part \in {"signed", "form", "signer"}
  /\ IF part = "form" THEN Form!Init ELSE Signed!Init
  /\ G!Init
  /\ part # "signer" => gHint = None /\ gPath = "write"

SignedNext == part = "signed" /\ Signed!Next /\ UNCHANGED <<part, signerVars>>
FormNext == part = "form" /\ Form!Next /\ UNCHANGED <<part, signerVars>>
SignerNext == part = "signer" /\ G!Next /\ UNCHANGED <<part, shellVars>>
Next == SignedNext \/ FormNext \/ SignerNext

Spec == Init /\ [][Next]_<<part, shellVars, signerVars>>

\* OperationShell: no outcome is lost or wrong.
OutcomesKept == IF part = "form" THEN Form!OutcomesKept ELSE Signed!OutcomesKept

\* OperationShell: inputs and keys are dropped when a call ends.
SecretsDropped == IF part = "form" THEN Form!SecretsDropped ELSE Signed!SecretsDropped

\* OperationShell: a write starts once, and only for what the user approved.
WritesApproved ==
  [][IF part = "form" THEN Form!ApprovedWrite ELSE Signed!ApprovedWrite]_<<part, shellVars>>

\* SignerSession: keys outlive an attempt only in the connected signer, which no
\* disconnect overtook.
KeysOfConnected == G!KeysOfConnected

\* SignerSession implements SignerFeed, what the shell relies on.
FeedsSigners == G!FeedsSigners

-----------------------------------------------------------------------------
(* What is proved of each part holds of the behaviours of all of them.      *)

LEMMA SameVars ==
  /\ UNCHANGED shellVars => UNCHANGED Signed!vars /\ UNCHANGED Form!vars
  /\ UNCHANGED signerVars => UNCHANGED G!vars
BY DEF shellVars, signerVars,
       Signed!vars, Signed!envVars, Signed!feedVars, Signed!signerVars, Signed!reactVars,
       Signed!runVars, Signed!callVars, Signed!historyVars,
       Form!vars, Form!envVars, Form!feedVars, Form!signerVars, Form!reactVars,
       Form!runVars, Form!callVars, Form!historyVars,
       G!vars, G!feedVars, G!refVars, G!reactVars

\* The constants of each part are what its proofs assume.
LEMMA PartsAssumed == Signed!ShellAssumption /\ Form!ShellAssumption
<1>1. 0 \in Nat /\ TRUE \in BOOLEAN /\ FALSE \in BOOLEAN
  OBVIOUS
<1> QED BY <1>1, SigningAssumption
        DEF SigningAssumption, Signed!ShellAssumption, Form!ShellAssumption,
            IsFiniteSet, Signed!IsFiniteSet, Form!IsFiniteSet

\* The shell's invariant, in the part the behaviour is of.
ShellInv == IF part = "form" THEN Form!ShellInv ELSE Signed!ShellInv

LEMMA InitShell == Init => ShellInv
<1> SUFFICES ASSUME Init PROVE ShellInv
  OBVIOUS
<1>1. part = "form" => Form!ShellInv
  BY PartsAssumed, Form!InitInv DEF Init
<1>2. part # "form" => Signed!ShellInv
  BY PartsAssumed, Signed!InitInv DEF Init
<1> QED BY <1>1, <1>2 DEF ShellInv

LEMMA NextShell == ShellInv /\ [Next]_<<part, shellVars, signerVars>> => ShellInv'
<1> SUFFICES ASSUME ShellInv, [Next]_<<part, shellVars, signerVars>> PROVE ShellInv'
  OBVIOUS
<1>1. CASE SignedNext
  <2>1. Signed!ShellInv'
    BY <1>1, PartsAssumed, Signed!NextInv DEF SignedNext, ShellInv
  <2> QED BY <1>1, <2>1 DEF SignedNext, ShellInv
<1>2. CASE FormNext
  <2>1. Form!ShellInv'
    BY <1>2, PartsAssumed, Form!NextInv DEF FormNext, ShellInv
  <2> QED BY <1>2, <2>1 DEF FormNext, ShellInv
<1>3. CASE SignerNext \/ UNCHANGED <<part, shellVars, signerVars>>
  <2>1. part' = part /\ UNCHANGED Signed!vars /\ UNCHANGED Form!vars
    BY <1>3, SameVars DEF SignerNext
  <2>2. /\ Signed!ShellInv => Signed!ShellInv'
        /\ Form!ShellInv => Form!ShellInv'
    BY <2>1, PartsAssumed, Signed!NextInv, Form!NextInv
  <2> QED BY <2>1, <2>2 DEF ShellInv
<1> QED BY <1>1, <1>2, <1>3 DEF Next

\* The shell keeps its invariant in both parts it is in.
THEOREM ShellInvariant == Spec => []ShellInv
BY InitShell, NextShell, PTL DEF Spec

\* OperationShell: what is called not submitted is not on Platform, and the receipt of a
\* write under way or of unknown outcome stays.
THEOREM OutcomesAreKept == Spec => []OutcomesKept
<1>1. ShellInv => OutcomesKept
  BY Signed!InvKeepsOutcomes, Form!InvKeepsOutcomes DEF ShellInv, OutcomesKept
<1> QED BY <1>1, ShellInvariant, PTL

\* OperationShell: the inputs are gone once a rendered call is settled, and no key outlives
\* its call.
THEOREM SecretsAreDropped == Spec => []SecretsDropped
<1>1. ShellInv => SecretsDropped
  BY Signed!InvDropsSecrets, Form!InvDropsSecrets DEF ShellInv, SecretsDropped
<1> QED BY <1>1, ShellInvariant, PTL

\* OperationShell: a write starts at most once for a review, and only for what the user
\* approved, whichever keys sign it.
THEOREM WritesAreApproved == Spec => WritesApproved
<1> DEFINE Approved == IF part = "form" THEN Form!ApprovedWrite ELSE Signed!ApprovedWrite
<1>1. ShellInv /\ [Next]_<<part, shellVars, signerVars>> => [Approved]_<<part, shellVars>>
  <2> SUFFICES ASSUME ShellInv, Next, <<part, shellVars>>' # <<part, shellVars>>
               PROVE  Approved
    OBVIOUS
  <2>1. CASE SignedNext
    <3>1. Signed!ApprovedWrite
      BY <2>1, Signed!WriteApproved DEF SignedNext, ShellInv
    <3> QED BY <2>1, <3>1 DEF SignedNext
  <2>2. CASE FormNext
    <3>1. Form!ApprovedWrite
      BY <2>2, Form!WriteApproved DEF FormNext, ShellInv
    <3> QED BY <2>2, <3>1 DEF FormNext
  <2>3. ~SignerNext
    BY DEF SignerNext
  <2> QED BY <2>1, <2>2, <2>3 DEF Next
<1> HIDE DEF Approved
<1>2. Spec => [][Approved]_<<part, shellVars>>
  BY <1>1, ShellInvariant, PTL DEF Spec
<1> QED BY <1>2 DEF WritesApproved, Approved

\* The signer provider's steps are those of its specification.
LEMMA SignerPart == Spec => G!Spec
<1>1. Init => G!Init
  BY DEF Init
<1>2. [Next]_<<part, shellVars, signerVars>> => [G!Next]_(G!vars)
  BY SameVars DEF Next, SignedNext, FormNext, SignerNext
<1> QED BY <1>1, <1>2, PTL DEF Spec, G!Spec

\* SignerSession: keys are held by the connected signer and by attempts under way only, and
\* no signer a disconnect overtook is connected.
THEOREM KeysHeldByConnected == Spec => []KeysOfConnected
BY SignerPart, G!KeysHeldByConnected, PTL DEF KeysOfConnected

\* SignerSession implements SignerFeed, which is what the shell is modelled over.
THEOREM ImplementsSignerFeed == Spec => FeedsSigners
BY SignerPart, G!ImplementsSignerFeed, PTL DEF FeedsSigners

=============================================================================
