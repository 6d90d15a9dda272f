------------------------------ MODULE CurrentEpoch ------------------------------
(***************************************************************************)
(* fetchCurrentEpoch in src/sdk/current-epoch.ts.                           *)
(*                                                                         *)
(* No proved query names the current epoch, so it is derived: from the block *)
(* time a quorum signed and the time of the first block, then confirmed      *)
(* against the time signed in the answer that holds the epoch's record.      *)
(* Nodes may lag, and answer from any block; blocks are known by their times. *)
(***************************************************************************)
EXTENDS Naturals, FiniteSets, FiniteSetsExt

CONSTANTS
    Duration, \* epochDurationMs of the network
    MaxTime   \* bound: the last block time

VARIABLES
    blocks,   \* the times of the blocks; the first, of epoch zero, is 0
    phase,    \* "genesis", "reading", "done", "failed"
    index,    \* the epoch asked for
    previous, \* the time signed in the answer before
    attempt,  \* attempts made
    first,    \* history: the epoch of the genesis answer
    epoch,    \* the epoch published
    error     \* why the query failed: "", "backwards", "mismatch", "changed"

vars == <<blocks, phase, index, previous, attempt, first, epoch, error>>

Init ==
    /\ blocks = {0}
    /\ phase = "genesis" /\ index = 0 /\ previous = 0 /\ attempt = 0
    /\ first = 0 /\ epoch = 0 /\ error = ""

\* Blocks come at any later time: an epoch without one has no record.
Block ==
    /\ \E t \in 1..MaxTime : t > Max(blocks) /\ blocks' = blocks \cup {t}
    /\ UNCHANGED <<phase, index, previous, attempt, first, epoch, error>>

IndexAt(t) == t \div Duration

\* The records a node at block t has; of one asked for, the answer is its first block's
\* time.  (The answer names no epoch when the record is missing.)
Recorded(t) == {b \div Duration : b \in {c \in blocks : c <= t}}
FirstBlock(i) == Min({b \in blocks : b \div Duration = i})

\* read(0): epoch zero is proved together with a signed time.
ReadGenesis ==
    /\ phase = "genesis"
    /\ \E t \in blocks :
          /\ index' = IndexAt(t) /\ first' = IndexAt(t)
          /\ previous' = t
    /\ phase' = "reading"
    /\ UNCHANGED <<blocks, attempt, epoch, error>>

Fails(why) ==
    /\ phase' = "failed" /\ error' = why
    /\ UNCHANGED <<index, previous, attempt, epoch>>

\* Of the loop: the epoch turned over since the index was derived.
BugNoRecheck(t) == FALSE
RolledOver(t) == IndexAt(t) # index

LastAttempt == attempt + 1 >= 3

Read ==
    /\ phase = "reading"
    /\ \E t \in blocks :
          IF t < previous THEN Fails("backwards")
          ELSE IF RolledOver(t)
          THEN IF LastAttempt THEN Fails("changed")
               ELSE /\ index' = IndexAt(t) /\ previous' = t /\ attempt' = attempt + 1
                    /\ UNCHANGED <<phase, epoch, error>>
          ELSE IF index \notin Recorded(t) \/ FirstBlock(index) > t THEN Fails("mismatch")
          ELSE /\ phase' = "done" /\ epoch' = index /\ previous' = t
               /\ UNCHANGED <<index, attempt, error>>
    /\ UNCHANGED <<blocks, first>>

Next == Block \/ ReadGenesis \/ Read

Spec == Init /\ [][Next]_vars

-----------------------------------------------------------------------------
(* Properties.                                                             *)

\* "a rollover cannot publish the previous epoch": what is published is the epoch of the
\* latest block time any answer of this read was signed with.
PublishedIsOfLatestTime == phase = "done" => epoch = previous \div Duration

\* Blocks of an honest chain never make the answer contradict itself, however far the
\* nodes that answer lag behind each other.
NeverContradicted == error # "mismatch"

\* Nor does the query give up while the epoch stands still: only after three rollovers
\* between its answers.
GivesUpAfterRollovers ==
    error = "changed" =>
        Cardinality({b \div Duration : b \in {c \in blocks : c \div Duration >= first}}) > 3

=============================================================================
