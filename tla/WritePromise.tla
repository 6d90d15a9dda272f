---------------------------- MODULE WritePromise ----------------------------
(***************************************************************************)
(* What an executor promises the shell and the user: its verdict on the    *)
(* write is true and stays true, the connected signer signs with the key   *)
(* that was reviewed, and no key material outlives the call.               *)
(***************************************************************************)
CONSTANT None

VARIABLES
  reviewed,   \* the key shown at review; None when the form has the keys
  elsewhere,  \* others may have broadcast this transition
  keys,       \* key material in memory
  signing,    \* the connected signer's key the call signs with
  sent,       \* the transition left for Platform
  executed,   \* it executed
  verdict     \* "running", "notSubmitted", "unknown", "affected" or "done"

vars == <<reviewed, elsewhere, keys, signing, sent, executed, verdict>>

Running == verdict = "running"

Init ==
  /\ keys = {} /\ signing = None
  /\ ~sent /\ ~executed /\ Running

HandleKeys ==
  /\ Running
  /\ signing' \in {None, reviewed}
  /\ UNCHANGED <<reviewed, elsewhere, sent, executed, verdict>>

Send ==
  /\ Running /\ signing = reviewed
  /\ sent' = TRUE
  /\ UNCHANGED <<reviewed, elsewhere, keys, signing, executed, verdict>>

\* At any time, also after the verdict, but for "not submitted" only elsewhere.
Execute ==
  /\ sent \/ elsewhere
  /\ executed' = TRUE
  /\ UNCHANGED <<reviewed, elsewhere, keys, signing, sent, verdict>>

Report ==
  /\ Running
  /\ verdict' # "running" /\ keys' = {}
  /\ verdict' = "notSubmitted" => ~sent
  /\ verdict' = "affected" => sent
  /\ verdict' = "done" => executed
  /\ UNCHANGED <<reviewed, elsewhere, signing, sent, executed>>

Next == HandleKeys \/ Send \/ Execute \/ Report

Spec == Init /\ [][Next]_vars
=============================================================================
