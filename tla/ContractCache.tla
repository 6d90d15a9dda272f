---------------------------- MODULE ContractCache ----------------------------
(***************************************************************************)
(* sdk/contract-cache.ts around the data contracts evo-sdk keeps, in a     *)
(* session's memory and, through localStorage, for the next session of     *)
(* every tab.  The caches are the SDK's own.  A contract is its version,   *)
(* and version v of it has the document types 1..v.                        *)
(***************************************************************************)
EXTENDS Integers

CONSTANTS Tabs,         \* tabs of this origin, sharing localStorage
          MaxContract   \* bound: versions of the contract

VARIABLES
  contract,  \* the contract's version on chain
  stored,    \* localStorage: the version kept there, 0 for none
  memory,    \* memory[t]: the version t's session holds, 0 for none
  read       \* read[t]: a document read of t, [at, type, known, outage]

vars == <<contract, stored, memory, read>>

NoRead == [at |-> "none", type |-> 0, known |-> 0, outage |-> FALSE]

Init ==
  /\ contract = 1 /\ stored = 0
  /\ memory = [t \in Tabs |-> 0] /\ read = [t \in Tabs |-> NoRead]

UpdateContract ==
  /\ contract < MaxContract
  /\ contract' = contract + 1
  /\ UNCHANGED <<stored, memory, read>>

\* The version a document query of t is built from.
Cached(t) == IF memory[t] # 0 THEN memory[t]
             ELSE IF stored # 0 THEN stored ELSE contract

\* A cached or persisted version is only ever replaced by a newer one.
Caches(t, version) ==
  /\ memory' = [memory EXCEPT ![t] = version]
  /\ stored' = IF version > stored THEN version ELSE stored

\* withContractRefresh
Read(t, type) ==
  /\ read[t].at \in {"none", "found", "failed"}
  /\ read' = [read EXCEPT ![t] = [at |-> "first", type |-> type,
                                  known |-> contract, outage |-> FALSE]]
  /\ UNCHANGED <<contract, stored, memory>>

\* Mistake: the refresh is not followed by a second read.
BugNoReread(t) == "failed"

\* isStaleContractError of the first read refreshes; of the second it is final.
AfterStale(t) == IF read[t].at = "first" THEN "refresh" ELSE "failed"

AnswerRead(t) ==
  /\ read[t].at \in {"first", "second"}
  /\ \/ /\ read[t].type <= Cached(t)
        /\ read' = [read EXCEPT ![t].at = "found"]
        \* A document stamped with a newer version refreshes the contract.
        /\ \E version \in {Cached(t), contract} : Caches(t, version)
     \/ /\ read[t].type > Cached(t)
        /\ read' = [read EXCEPT ![t].at = AfterStale(t)]
        /\ Caches(t, Cached(t))
  /\ UNCHANGED contract

\* contracts.fetch answers, and the read is run once more.
Refresh(t) ==
  /\ read[t].at = "refresh"
  /\ Caches(t, contract)
  /\ read' = [read EXCEPT ![t].at = "second", ![t].known = contract]
  /\ UNCHANGED contract

\* contracts.fetch fails or finds nothing: the error of the first read, which says
\* "document type not found", is thrown after all.
RefreshFails(t) ==
  /\ read[t].at = "refresh"
  /\ read' = [read EXCEPT ![t].at = "failed", ![t].outage = TRUE]
  /\ UNCHANGED <<contract, stored, memory>>

\* The read fails another way.
ReadFails(t) ==
  /\ read[t].at \in {"first", "second"}
  /\ read' = [read EXCEPT ![t] = NoRead]
  /\ UNCHANGED <<contract, stored, memory>>

\* The session ends: a reconnect, or a reload of the tab.
NewSession(t) ==
  /\ memory' = [memory EXCEPT ![t] = 0]
  /\ read' = [read EXCEPT ![t] = NoRead]
  /\ UNCHANGED <<contract, stored>>

\* "Clear SDK cache" in Settings, which reconnects the tab it is pressed in.
ClearPersistedSdkCache(t) ==
  /\ stored' = 0
  /\ memory' = [memory EXCEPT ![t] = 0]
  /\ read' = [read EXCEPT ![t] = NoRead]
  /\ UNCHANGED contract

Next ==
  \/ UpdateContract
  \/ \E t \in Tabs :
       \/ \E type \in 1..MaxContract : Read(t, type)
       \/ AnswerRead(t) \/ Refresh(t) \/ RefreshFails(t) \/ ReadFails(t)
       \/ NewSession(t) \/ ClearPersistedSdkCache(t)

Spec == Init /\ [][Next]_vars

-----------------------------------------------------------------------------
\* A document read says "document type not found" for good only of a type the
\* contract did not have when the read began or, later, when it refreshed it, or
\* when the contract could not be fetched: what was added while this tab's cache,
\* or the one another tab has stored, was stale is found by one refresh.
StaleEndsWithRefresh ==
  \A t \in Tabs :
    read[t].at = "failed" => read[t].type > read[t].known \/ read[t].outage

=============================================================================
