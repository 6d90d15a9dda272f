---------------------------- MODULE GroupActions ----------------------------
(***************************************************************************)
(* Executing a token operation (executors/tokens.ts): a direct write, a    *)
(* proposal to a group, or the co-signature of a group action.  The SDK    *)
(* may lose track of a write that Platform took or did not take; for a     *)
(* group action the executor then looks for the signer's new signature in  *)
(* later reads.  Every read is answered by some node, and nodes lag: a     *)
(* read sees the state of any block up to now, a different one each time.  *)
(* All actions carry the parameters of the reviewed options; the group may *)
(* have so many others that a page of them is full.                        *)
(***************************************************************************)
EXTENDS Integers, Sequences, FiniteSets

CONSTANTS
  Actions,     \* identifiers of group actions with these parameters
  Me, You,     \* the members: the signer and another
  None,
  MaxHeight,   \* bound: blocks
  Attempts     \* POST_WRITE_READ.attempts

VARIABLES
  history,   \* one state per block: group actions, the balance, and how much of it
             \* is not of the write; powers are fixed
  power,     \* [{Me, You} -> power in the group]
  mode,      \* "direct", "propose" or "cosign"
  target,    \* the action to co-sign
  crowded,   \* statuses whose page is full of other actions
  phase,     \* how far the executor has come
  seen,      \* snapshot height, and what it held of the target and balance
  before,    \* signedBefore
  write,     \* None, "sent", "applied", "refused"
  tries,     \* reads left to a confirmation or to the balances
  receipt    \* what the executor reports

vars == <<history, power, mode, target, crowded, phase, seen, before, write, tries, receipt>>

Required == 3
Statuses == {"ACTIVE", "CLOSED"}
Heights == 1 .. Len(history)
Now == history[Len(history)]

-----------------------------------------------------------------------------
(* Platform. *)

PowerOf(ids, id) == IF id \in ids THEN power[id] ELSE 0
TotalPower(ids) == PowerOf(ids, Me) + PowerOf(ids, You)

Signed(action, id) == [action EXCEPT !.signers = @ \cup {id},
                                     !.closed = TotalPower(action.signers \cup {id}) >= Required]
Proposal(id) == Signed([by |-> id, signers |-> {}, closed |-> FALSE], id)

Unused == {a \in Actions : Now.actions[a] = None}
Open(id) == {a \in Actions \ Unused : ~Now.actions[a].closed /\ id \notin Now.actions[a].signers}

\* The action that reaches the power required executes in the same block.
WithAction(a, action) ==
  [Now EXCEPT !.actions[a] = action, !.balance = IF action.closed THEN @ + 1 ELSE @]

\* What the next block may do besides the write: the other member proposes or
\* signs, this identity signs in another tab, someone moves the balance.
ByOthers(block) == [block EXCEPT !.others = @ + (block.balance - Now.balance)]
OthersBlocks ==
  {ByOthers(WithAction(a, Proposal(You))) : a \in Unused}
  \cup {ByOthers(WithAction(a, Signed(Now.actions[a], You))) : a \in Open(You)}
  \cup {ByOthers(WithAction(a, Signed(Now.actions[a], Me))) : a \in Open(Me)}
  \cup {ByOthers([Now EXCEPT !.balance = @ + 1])}

\* The blocks that take the write: none when the action is gone or signed.
WriteBlocks ==
  CASE mode = "direct" -> {[Now EXCEPT !.balance = @ + 1]}
    [] mode = "propose" -> {WithAction(a, Proposal(Me)) : a \in Unused}
    [] mode = "cosign" -> {WithAction(target, Signed(Now.actions[target], Me)) :
                             a \in {target} \cap Open(Me)}

-----------------------------------------------------------------------------
(* Reads. *)

\* Our actions in one status that the signer has signed, where the page was
\* answered at height h and the signers at height s.
Page(status, h, s) ==
  {a \in Actions :
     \A height \in {h, s} :
       LET action == history[height].actions[a] IN
       action # None /\ action.closed = (status = "CLOSED")
       /\ (height = s => Me \in action.signers)}

\* signedMatchingActions: both statuses, whose full pages may miss some.
MatchingRead(h, k, s, hidden) ==
  LET active == Page("ACTIVE", h, s) \ (IF "ACTIVE" \in crowded THEN hidden ELSE {})
      closed == Page("CLOSED", k, s) \ (IF "CLOSED" \in crowded THEN hidden ELSE {}) IN
  [signed |-> active \cup closed,
   ownPending |-> {a \in active : history[h].actions[a].by = Me},
   height |-> IF h < k THEN h ELSE k,
   activeComplete |-> "ACTIVE" \notin crowded,
   complete |-> crowded = {},
   agreed |-> h = k /\ k = s]

\* Actions the signer proposed: the proposer is part of the action read.
ProposedByMe(ids) == {a \in ids : Now.actions[a] # None /\ Now.actions[a].by = Me}

\* Signatures that were not there before the write.
Added(after) == after.signed \ before.signed

-----------------------------------------------------------------------------
(* The executor. *)

Init ==
  /\ power \in [{Me, You} -> 1 .. 3] /\ power[You] = 1
  /\ mode \in {"direct", "propose", "cosign"}
  /\ \E a \in Actions, action \in {None, Proposal(Me), Proposal(You)} :
       /\ target = a
       /\ history = <<[actions |-> [b \in Actions |-> IF b = a THEN action ELSE None],
                       balance |-> 1, others |-> 0]>>
  /\ crowded \in {{}, {"ACTIVE"}, {"CLOSED"}}
  /\ phase = "signing" /\ seen = None /\ before = None /\ write = None
  /\ tries = 0 /\ receipt = None

\* loadTokenSnapshot and the checks of a co-signature (groupProblems).
Snapshot(h) ==
  /\ phase = "signing"
  /\ LET action == history[h].actions[target] IN
     IF mode = "cosign"
        /\ (action = None \/ action.closed \/ Me \in action.signers)
     THEN /\ phase' = "failed" /\ UNCHANGED seen
     ELSE /\ phase' = IF mode = "direct" THEN "ready" ELSE "checked"
          /\ seen' = [height |-> h, balance |-> history[h].balance,
                      power |-> IF mode = "cosign" THEN TotalPower(action.signers) ELSE 0,
                      others |-> history[h].others]
  /\ UNCHANGED <<history, power, mode, target, crowded, before, write, tries, receipt>>

\* The signatures so far; a proposal is refused when the page of pending actions
\* may miss some, and when an identical one is pending.
ReadBefore(read) ==
  /\ phase = "checked"
  /\ before' = read
  /\ phase' = IF mode = "propose" /\ (~read.activeComplete \/ read.ownPending # {})
              THEN "failed" ELSE "ready"
  /\ UNCHANGED <<history, power, mode, target, crowded, seen, write, tries, receipt>>

Submit ==
  /\ phase = "ready"
  /\ phase' = "submitted" /\ write' = "sent"
  /\ UNCHANGED <<history, power, mode, target, crowded, seen, before, tries, receipt>>

\* Power the receipt counts: the proposal's own, or that of the pending action
\* read before the write and the signer's.
Completes == seen.power + power[Me] >= Required

Receipt(confirmedBy) ==
  [by |-> confirmedBy, completes |-> mode # "direct" /\ Completes, provedAt |-> 0]

\* The write ends: confirmed, refused, or with an unknown outcome, which only a
\* group action whose reads are recent enough goes on to look for.
Answered ==
  /\ phase = "submitted" /\ write = "applied"
  /\ phase' = "balances" /\ tries' = Attempts /\ receipt' = Receipt("sdk")
  /\ UNCHANGED <<history, power, mode, target, crowded, seen, before, write>>

Refused ==
  /\ phase = "submitted" /\ write = "refused"
  /\ phase' = "failed"
  /\ UNCHANGED <<history, power, mode, target, crowded, seen, before, write, tries, receipt>>

UsableBefore == before # None /\ before.height >= seen.height /\ before.complete

LosesTrack ==
  /\ phase = "submitted"
  /\ IF UsableBefore
     THEN phase' = "confirming" /\ tries' = Attempts
     ELSE phase' = "unknown" /\ UNCHANGED tries
  /\ UNCHANGED <<history, power, mode, target, crowded, seen, before, write, receipt>>

\* Mistake: in a proposal, any new signature will do.
BugAnyProposer(after) ==
  IF mode = "cosign" THEN target \in Added(after) ELSE \E a \in Actions : Added(after) = {a}
\* The reviewed action when co-signing, or exactly one new action of the signer.
Shows(after) ==
  IF mode = "cosign" THEN target \in Added(after)
  ELSE \E a \in Actions : ProposedByMe(Added(after)) = {a}

\* confirmGroupSignature: one of its reads.
ReadAfter(after) ==
  /\ phase = "confirming"
  /\ IF after.complete /\ after.height > before.height /\ Shows(after)
     THEN phase' = "balances" /\ receipt' = Receipt("read") /\ tries' = Attempts
     ELSE /\ tries' = tries - 1
          /\ phase' = IF tries = 1 \/ Cardinality(ProposedByMe(Added(after))) > 1
                      THEN "unknown" ELSE phase
          /\ UNCHANGED receipt
  /\ UNCHANGED <<history, power, mode, target, crowded, seen, before, write>>

\* Newer than the snapshot and, for a direct write, moved.
Settled(h) == h > seen.height /\ (mode = "direct" => history[h].balance # seen.balance)

\* balanceChanges: one of its reads.  After the last the receipt warns that the
\* balances may predate the write (provedAt stays 0).
ReadBalances(h) ==
  /\ phase = "balances"
  /\ IF Settled(h)
     THEN phase' = "done" /\ receipt' = [receipt EXCEPT !.provedAt = h] /\ UNCHANGED tries
     ELSE /\ tries' = tries - 1
          /\ phase' = IF tries = 1 THEN "done" ELSE phase
          /\ UNCHANGED receipt
  /\ UNCHANGED <<history, power, mode, target, crowded, seen, before, write>>

\* A block: of others, or with the write, which is refused when it cannot apply.
Block ==
  /\ Len(history) < MaxHeight
  /\ phase \notin {"failed", "unknown", "done"}
  /\ \/ \E next \in OthersBlocks : history' = Append(history, next) /\ UNCHANGED write
     \/ /\ write = "sent"
        /\ \E next \in WriteBlocks : history' = Append(history, next)
        /\ write' = "applied"
     \/ /\ write = "sent" /\ WriteBlocks = {}
        /\ write' = "refused" /\ UNCHANGED history
  /\ UNCHANGED <<power, mode, target, crowded, phase, seen, before, tries, receipt>>

Reads == {MatchingRead(h, k, s, hidden) :
            h \in Heights, k \in Heights, s \in Heights, hidden \in {{}, Actions}}

Next ==
  \/ \E h \in Heights : Snapshot(h) \/ ReadBalances(h)
  \/ \E read \in Reads : ReadBefore(read) \/ ReadAfter(read)
  \/ Submit \/ Answered \/ Refused \/ LosesTrack \/ Block

Spec == Init /\ [][Next]_vars

-----------------------------------------------------------------------------
\* The comment above confirmGroupSignature's use, with reads of any blocks:
\* a read showing the signer's new signature confirms the write.
ReadConfirmsWrite ==
  receipt # None /\ receipt.by = "read" /\ mode = "propose" => write = "applied"

\* The block includes what the write moved, or somebody else has moved the balance since
\* the snapshot, which the executor cannot tell from the write.
Included(h) ==
  \/ history[h].others > seen.others
  \/ history[h].balance - history[h].others > seen.balance - seen.others

\* The comment on balanceChanges: it waits, for writes that must move a balance, for the
\* balance to move.  So balances shown without the warning that they may predate the write
\* include it, whether it is direct or the signature with which an action executes.
BalancesFollowWrite ==
  receipt # None /\ receipt.provedAt > 0 /\ (mode = "direct" \/ receipt.completes)
    => Included(receipt.provedAt)

\* What the receipt says is true.  A write whose outcome the SDK lost is only reported as
\* confirmed if Platform took it, provided the pages and signatures read before it were of
\* one block; an action whose signatures reached the required power, as read before the
\* write, has executed; and balances shown without a warning are of a later block than the
\* snapshot and, but for group actions (see BalancesFollowWrite), include the write.
ReceiptTrue ==
  receipt # None =>
    /\ receipt.by = "read" /\ before.agreed /\ mode = "propose" => write = "applied"
    /\ receipt.completes =>
         \E a \in Actions : Now.actions[a] # None /\ Now.actions[a].closed
                           /\ Me \in Now.actions[a].signers
    /\ receipt.provedAt > 0 =>
         /\ receipt.provedAt > seen.height
         /\ mode = "direct" => Included(receipt.provedAt)

=============================================================================
