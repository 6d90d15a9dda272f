--------------------------- MODULE ProtocolVersion ---------------------------
(***************************************************************************)
(* The protocol version of a session and of the network                    *)
(* (sdk/protocol-version.ts, sdk/version.ts).  evo-sdk starts a session at *)
(* a floor or at the version it has stored, only ever raises it, after a   *)
(* proved answer, and stores what it raised it to; a write follows the     *)
(* session's rules, so it is built only when they are the network's.       *)
(***************************************************************************)
EXTENDS Integers

CONSTANTS Tabs,         \* tabs of this origin, sharing localStorage
          Floor,        \* the version a session starts at on this network
          Latest,       \* EvoSDK.getLatestVersionNumber()
          MaxProtocol   \* bound: versions the network runs

VARIABLES
  network,   \* the version the network runs
  stored,    \* localStorage: the version kept there, 0 for none
  session,   \* session[t]: sdk.version() of t's session, 0 while it has none
  write,     \* write[t]: a write of t, [at, seen, rules]
  ran,       \* history: versions the network ran since write[t] was checked
  clean      \* history: tabs, or "storage", cleared since the last reset

vars == <<network, stored, session, write, ran, clean>>

NoWrite == [at |-> "none", seen |-> 0, rules |-> 0]

\* protocolVersionMismatch: what the banner says of the two versions.
ProtocolVersionMismatch(used, running) ==
  IF running > Latest THEN "network-newer"
  ELSE IF running < used THEN "network-older" ELSE "none"

Init ==
  /\ network \in Floor..MaxProtocol
  /\ stored = 0 /\ session = [t \in Tabs |-> 0]
  /\ write = [t \in Tabs |-> NoWrite]
  /\ ran = [t \in Tabs |-> {}] /\ clean = {"storage"}

\* The network upgrades, or is reset to an older protocol.
ChangeNetwork(v) ==
  /\ v # network
  /\ network' = v
  /\ ran' = [t \in Tabs |-> IF ran[t] = {} THEN {} ELSE ran[t] \cup {v}]
  /\ clean' = IF v < network THEN {} ELSE clean
  /\ UNCHANGED <<stored, session, write>>

-----------------------------------------------------------------------------
(* The SDK. *)

Higher(a, b) == IF a > b THEN a ELSE b

Connect(t) ==
  /\ session[t] = 0
  /\ session' = [session EXCEPT ![t] = Higher(Floor, stored)]
  /\ clean' = IF "storage" \in clean THEN clean \cup {t} ELSE clean \ {t}
  /\ UNCHANGED <<network, stored, write, ran>>

\* A proved answer raises the session to a version the SDK supports.
Raised(t) == IF network <= Latest THEN Higher(session[t], network)
             ELSE session[t]

ProvedAnswer(t) ==
  /\ session[t] # 0
  /\ session' = [session EXCEPT ![t] = Raised(t)]
  /\ stored' = IF Raised(t) = session[t] THEN stored
               ELSE Higher(stored, Raised(t))

OtherAnswer(t) == ProvedAnswer(t) /\ UNCHANGED <<network, write, ran, clean>>

-----------------------------------------------------------------------------
(* assertWritableProtocolVersion, first thing in every executor. *)

CheckWrite(t) ==
  /\ session[t] # 0 /\ write[t].at \in {"none", "refused", "built"}
  /\ write' = [write EXCEPT ![t] = [at |-> "reading", seen |-> 0, rules |-> 0]]
  /\ ran' = [ran EXCEPT ![t] = {network}]
  /\ UNCHANGED <<network, stored, session, clean>>

\* totalCreditsInPlatformWithProof: the version its metadata proves.
AnswerCheck(t) ==
  /\ write[t].at = "reading"
  /\ ProvedAnswer(t)
  /\ write' = [write EXCEPT ![t].at = "answered", ![t].seen = network]
  /\ UNCHANGED <<network, ran, clean>>

\* The read fails: the operation is not built.
CheckFails(t) ==
  /\ write[t].at = "reading"
  /\ write' = [write EXCEPT ![t] = NoWrite] /\ ran' = [ran EXCEPT ![t] = {}]
  /\ UNCHANGED <<network, stored, session, clean>>

\* Mistake: a session above the network may write.
BugAllowsNewer(used, running) == used >= running

Writable(used, running) == used = running

\* sdk.version() is read after the proved answer.
Decide(t) ==
  /\ write[t].at = "answered"
  /\ write' = [write EXCEPT ![t].rules = session[t],
                 ![t].at = IF Writable(session[t], write[t].seen)
                           THEN "allowed" ELSE "refused"]
  /\ UNCHANGED <<network, stored, session, ran, clean>>

\* The executor's SDK call follows the rules of the session as it is then.
Build(t) ==
  /\ write[t].at = "allowed"
  /\ write' = [write EXCEPT ![t].at = "built", ![t].rules = session[t]]
  /\ UNCHANGED <<network, stored, session, ran, clean>>

-----------------------------------------------------------------------------
(* Settings. *)

ClearedStore == 0

\* "Clear SDK cache" reconnects, and with it drops what the tab was doing.
ClearPersistedSdkCache(t) ==
  /\ session[t] # 0
  /\ stored' = ClearedStore
  /\ session' = [session EXCEPT ![t] = 0]
  /\ write' = [write EXCEPT ![t] = NoWrite] /\ ran' = [ran EXCEPT ![t] = {}]
  /\ clean' = (clean \ {t}) \cup {"storage"}
  /\ UNCHANGED network

Next ==
  \/ \E v \in Floor..MaxProtocol : ChangeNetwork(v)
  \/ \E t \in Tabs :
       \/ Connect(t) \/ OtherAnswer(t) \/ ClearPersistedSdkCache(t)
       \/ CheckWrite(t) \/ AnswerCheck(t) \/ CheckFails(t)
       \/ Decide(t) \/ Build(t)

Spec == Init /\ [][Next]_vars

-----------------------------------------------------------------------------
(* Properties. *)

\* A write is built with the rules of a protocol version the network has run
\* since the write was checked, whatever the session, the stored version or
\* another tab's answers did in between.
BuiltByNetworkRules ==
  \A t \in Tabs : write[t].at = "built" => write[t].rules \in ran[t]

\* Every refusal over the versions is one the version banner explains: for the
\* versions the refused write saw it does not say that they agree.
RefusalExplained ==
  \A t \in Tabs : write[t].at = "refused" =>
    ProtocolVersionMismatch(write[t].rules, write[t].seen) # "none"

\* Clearing the SDK cache after a network reset is enough: a session started
\* after it is not above the network, whatever other tabs' sessions store, so
\* its first proved read lets it write again.
ClearingFollowsReset ==
  \A t \in Tabs : t \in clean /\ session[t] # 0 => session[t] <= network

=============================================================================
