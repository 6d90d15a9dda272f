------------------------------ MODULE LocalLists ------------------------------
(***************************************************************************)
(* The three lists the user keeps in the browser: saved entities            *)
(* (util/exploration.ts, hooks/useSavedEntities.ts), the saved queries of a  *)
(* contract (util/query-workspace.ts, components/query/SavedQueries.tsx) and *)
(* the local well-known registry (util/well-known-registry.ts,              *)
(* hooks/useWellKnownRegistry.ts).  They share no state: a behaviour is of    *)
(* one, `list`.  Tabs share what is stored and hear of each other's writes    *)
(* later; storage may refuse any call, and is not transactional: another tab   *)
(* may write between one's getItem and its setItem.  An item is <<scope, id>>,  *)
(* the scope a network or contract; order, and what an item says of its id,    *)
(* are left out.                                                               *)
(***************************************************************************)
EXTENDS Naturals, FiniteSets

CONSTANTS
    Tabs, Ids, Scopes,
    Everywhere,  \* in Scopes: a registry entry without a network
    Remote,      \* entries of the remote registry
    Savable,     \* bound: per list, the items that a user saves
    MaxItems,    \* of each list: MAX_SAVED_ENTITIES, MAX_SAVED_QUERIES, MAX_LOCAL_ENTRIES
    MaxRefusals  \* bound

VARIABLES
    list,
    stored,   \* what the browser's storage holds
    shown,    \* per tab: its page's items, or the registry's snapshot
    scope,    \* per tab: the network and contract of its SavedQueries
    loaded,   \* per tab: the loadedScope of SavedQueries
    remote,   \* per tab: the status of the remote registry
    events,   \* <<tab, key>>: storage events on their way
    change,   \* per tab: its call between getItem and setItem
    blind,    \* per tab: its last use of the stored registry was refused
    kept,     \* items somebody saved and nobody removed
    lost,     \* those a tab wrote over that could not know of them
    refusals

listState == <<list, scope, loaded, remote>>
vars == <<listState, stored, shown, events, change, blind, kept, lost, refusals>>

Items == Savable[list]
NoChange == [pending |-> FALSE, items |-> {}, before |-> {}, saved |-> {}, gone |-> {}]

Init ==
    /\ list \in {"entities", "queries", "registry"}
    /\ stored = {} /\ events = {} /\ kept = {} /\ lost = {} /\ refusals = 0
    /\ change = [t \in Tabs |-> NoChange] /\ blind = [t \in Tabs |-> FALSE]
    /\ shown = [t \in Tabs |-> {}]
    /\ scope = [t \in Tabs |-> CHOOSE s \in Scopes : s # Everywhere]
    /\ loaded = [t \in Tabs |-> IF list = "registry" THEN scope[t] ELSE Everywhere]
    /\ remote = [t \in Tabs |-> "loading"]

Refused(ok) ==
    /\ ok \/ refusals < MaxRefusals
    /\ refusals' = IF ok THEN refusals ELSE refusals + 1

\* The storage key of saved queries holds their contract, the others are of every scope.
Of(s, items) == IF list = "queries" THEN {x \in items : x[1] = s} ELSE items

Key(s) == IF list = "queries" THEN s ELSE Everywhere

\* One tab's write of the list of scope s, which the other tabs hear of when it changes it.
Write(t, s, items) ==
    /\ stored' = (stored \ Of(s, stored)) \cup items
    /\ events' = IF items = Of(s, stored) THEN events ELSE events \cup ((Tabs \ {t}) \X {Key(s)})

\* A tab runs one call at a time.
Idle(t) == ~change[t].pending

-----------------------------------------------------------------------------
(* Saved entities and queries: each change reads the list, then writes it. *)

\* What the pages show of an unreadable list: nothing.
Getter(s, ok) == IF ok THEN Of(s, stored) ELSE {}

\* "Mutations must fail on unreadable storage rather than overwrite an existing collection
\* with the rendering getter's empty fallback."
BugWritesFallback(readable) == TRUE
MayWrite(readable) == readable

\* Full: refused rather than cut.
Full(items, x) == Cardinality(items \ {x}) >= MaxItems[list]

Current(t) == IF list = "queries" /\ loaded[t] # scope[t] THEN {} ELSE shown[t]

\* A change has read the list and decided what to write.
Begins(t, readable, items, saved, gone) ==
    /\ Idle(t) /\ Refused(readable)
    /\ change' = IF MayWrite(readable)
                 THEN [change EXCEPT ![t] = [pending |-> TRUE, items |-> items,
                                             before |-> stored, saved |-> saved, gone |-> gone]]
                 ELSE change
    /\ UNCHANGED <<listState, stored, events, blind, kept, lost>>

MaySave(t, x) ==
    /\ x[1] # Everywhere
    /\ IF list = "queries" THEN x[1] = scope[t] /\ ~Full(Current(t), x)
       ELSE list = "entities" /\ loaded[t] # Everywhere /\ x \notin Current(t)

Save ==
    \E t \in Tabs, x \in Items, readable \in BOOLEAN :
        LET read == Getter(scope[t], readable) IN
        /\ MaySave(t, x)
        /\ ~Full(read, x) /\ (list = "entities" => x \notin read)
        /\ Begins(t, readable, read \cup {x}, {x}, {})
        /\ UNCHANGED shown

\* Another tab has filled the list, which SavedQueries then shows, or saved the entity.
SaveEndsEarly ==
    \E t \in Tabs, x \in Items :
        LET read == Of(scope[t], stored) IN
        /\ MaySave(t, x) /\ Idle(t)
        /\ Full(read, x) \/ (list = "entities" /\ x \in read)
        /\ shown' = IF list = "queries" THEN [shown EXCEPT ![t] = read] ELSE shown
        /\ kept' = IF x \in read THEN kept \cup {x} ELSE kept
        /\ UNCHANGED <<listState, stored, events, change, blind, lost, refusals>>

Remove ==
    \E t \in Tabs, readable \in BOOLEAN :
        \E x \in Current(t) :
            /\ list # "registry"
            /\ Begins(t, readable, Getter(scope[t], readable) \ {x}, {}, {x})
            /\ UNCHANGED shown

\* Entities are cleared without being read.
Clear ==
    \E t \in Tabs, readable \in BOOLEAN :
        /\ list # "registry" /\ Current(t) # {}
        /\ list = "entities" => readable
        /\ Begins(t, readable, {}, {}, Of(scope[t], Scopes \X Ids))
        /\ UNCHANGED shown

\* The list is written, and shown: entities are read again for that.
EndChange ==
    \E t \in Tabs, written, readable \in BOOLEAN :
        LET c == change[t] IN
        /\ c.pending /\ (~readable => written /\ list = "entities")
        /\ Refused(written /\ readable)
        /\ change' = [change EXCEPT ![t] = NoChange]
        /\ IF written
           THEN /\ Write(t, scope[t], c.items)
                /\ shown' = [shown EXCEPT ![t] = IF readable THEN c.items ELSE {}]
                /\ kept' = (kept \ c.gone) \cup c.saved
                /\ lost' = (lost \cup (kept \ c.before)) \ stored'
           ELSE UNCHANGED <<stored, events, shown, kept, lost>>
        /\ UNCHANGED <<listState, blind>>

\* SavedQueries for another contract or network: first rendered, then loaded.
ChangeScope ==
    \E t \in Tabs, s \in Scopes \ {Everywhere} :
        /\ list = "queries" /\ loaded[t] = scope[t] /\ Idle(t)
        /\ scope' = [scope EXCEPT ![t] = s]
        /\ UNCHANGED <<list, stored, shown, loaded, remote, events, change, blind, kept, lost,
                       refusals>>

\* Its effect; for the other lists, a page that opens.
Load ==
    \E t \in Tabs, readable \in BOOLEAN :
        /\ Idle(t) /\ Refused(readable)
        /\ shown' = [shown EXCEPT ![t] = Getter(scope[t], readable)]
        /\ loaded' = [loaded EXCEPT ![t] = scope[t]]
        /\ remote' = [remote EXCEPT ![t] = "loading"]
        /\ blind' = [blind EXCEPT ![t] = ~readable]
        /\ UNCHANGED <<list, stored, scope, events, change, kept, lost>>

-----------------------------------------------------------------------------
(* The registry: each tab keeps the list it has read at its start.         *)

Shared(t) == IF remote[t] = "ready" THEN Remote ELSE {}
OneNetwork(x, y) == x[1] = y[1] \/ x[1] = Everywhere \/ y[1] = Everywhere

Clash(t, x) == {y \in Shared(t) \cup shown[t] : y[2] = x[2] /\ OneNetwork(x, y)}

\* What a write of the registry as t knows it loses, unless t knows all that is stored.
Unknown(t) ==
    IF blind[t] \/ <<t, Everywhere>> \in events THEN kept \ shown[t] ELSE {}

AddLocal ==
    \E t \in Tabs, x \in Items :
        /\ list = "registry"
        /\ Clash(t, x) = {} /\ Cardinality(shown[t]) < MaxItems[list]
        /\ Write(t, Everywhere, shown[t] \cup {x})
        /\ shown' = [shown EXCEPT ![t] = @ \cup {x}]
        /\ blind' = [blind EXCEPT ![t] = FALSE]
        /\ kept' = kept \cup {x}
        /\ lost' = (lost \cup Unknown(t)) \ stored'
        /\ UNCHANGED <<listState, change, refusals>>

\* "keep the in-memory removal" when storage refuses.
RemoveLocal ==
    \E t \in Tabs, ok \in BOOLEAN :
        \E x \in shown[t] :
            /\ list = "registry" /\ Refused(ok)
            /\ IF ok
               THEN /\ Write(t, Everywhere, shown[t] \ {x})
                    /\ lost' = (lost \cup Unknown(t)) \ stored'
               ELSE UNCHANGED <<stored, events, lost>>
            /\ shown' = [shown EXCEPT ![t] = @ \ {x}]
            /\ blind' = [blind EXCEPT ![t] = ~ok]
            /\ kept' = kept \ {x}
            /\ UNCHANGED <<listState, change>>

\* An error of the fetch leaves the bundled and local entries.
RemoteAnswers ==
    \E t \in Tabs, result \in {"ready", "error"} :
        /\ list = "registry" /\ remote[t] = "loading"
        /\ remote' = [remote EXCEPT ![t] = result]
        /\ UNCHANGED <<list, stored, shown, scope, loaded, events, change, blind, kept, lost,
                       refusals>>

\* Another tab has written.  SavedQueries listens to the key of its loaded scope.
Event ==
    \E e \in events, readable \in BOOLEAN :
        LET t == e[1]
            heard == list # "queries" \/ e[2] = loaded[t]
        IN
        /\ Idle(t)
        /\ events' = events \ {e}
        /\ Refused(readable \/ ~heard)
        /\ shown' = IF heard /\ (readable \/ list # "queries")
                    THEN [shown EXCEPT ![t] = Getter(e[2], readable)] ELSE shown
        /\ blind' = [blind EXCEPT ![t] = heard /\ ~readable]
        /\ UNCHANGED <<listState, stored, change, kept, lost>>

Next ==
    \/ Save \/ SaveEndsEarly \/ Remove \/ Clear \/ EndChange \/ ChangeScope \/ Load
    \/ AddLocal \/ RemoveLocal \/ RemoteAnswers \/ Event

Spec == Init /\ [][Next]_vars

-----------------------------------------------------------------------------
(* Properties.                                                             *)

\* What a user saves stays until a user removes it, whatever the tabs do with the same
\* list and whatever storage refuses, but for two losses: a change of entities or queries
\* writes over what another tab saved since it read the list, and the registry, which is
\* written as the tab knows it, over what the tab's storage event has yet to tell, or what
\* a refused call has kept from it.  No key exceeds its limit, saved queries appear with
\* no contract but their own, and of two local registry entries none hides the other.
EntriesKept ==
    /\ kept \ lost \subseteq stored
    /\ \A s \in Scopes : Cardinality(Of(s, stored)) <= MaxItems[list]
    /\ list = "queries" => \A t \in Tabs : Current(t) \subseteq {scope[t]} \X Ids
    /\ list = "registry" => \A t \in Tabs : \A x, y \in shown[t] :
           x # y /\ x[2] = y[2] => ~OneNetwork(x, y)

=============================================================================
