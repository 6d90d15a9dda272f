--------------------------- MODULE ViewedIdentities ---------------------------
(***************************************************************************)
(* The opt-in history of viewed identities: src/util/session.ts, and the     *)
(* pages of src/hooks/useViewedIdentities.ts that show it.                  *)
(*                                                                         *)
(* The tabs of a browser share its storage, which may refuse any removal or  *)
(* write.  What a refusal leaves behind a tab hides in its own memory.  Other *)
(* tabs hear of a change by an event that comes later.  Entries carry the     *)
(* number of the consent they were recorded under, which the code does not   *)
(* store; their order, and the limit of fifty, are left out.                 *)
(***************************************************************************)
EXTENDS Naturals, FiniteSets

CONSTANTS
    Tabs, Ids,
    MaxGrants, MaxRefusals \* bounds

VARIABLES
    consent,  \* the stored consent
    history,  \* the stored entries <<identity, grant>>
    revoked,  \* tabs with revokedStorage: a withdrawal was refused
    cleared,  \* tabs with clearedStorage: an erasure was refused
    events,   \* <<tab, key>>: storage events on their way
    shown,    \* per tab: the [consent, entries] its pages show
    grants,   \* how often consent was given
    refusals,
    withdrawn, \* tabs whose user withdrew consent, and has heard of none given since
    erased    \* per tab: the entries its user erased, until it hears of others stored

vars == <<consent, history, revoked, cleared, events, shown, grants, refusals, withdrawn, erased>>

Hidden == [consent |-> FALSE, entries |-> {}]

Init ==
    /\ consent = FALSE /\ history = {} /\ revoked = {} /\ cleared = {} /\ events = {}
    /\ shown = [t \in Tabs |-> Hidden]
    /\ grants = 0 /\ refusals = 0
    /\ withdrawn = {} /\ erased = [t \in Tabs |-> {}]

-----------------------------------------------------------------------------

HasConsent(t) == t \notin revoked /\ consent

\* After a step: what getViewedIdentities returns to a page of the tab.
Visible(t) ==
    IF HasConsent(t)' THEN [consent |-> TRUE, entries |-> IF t \in cleared' THEN {} ELSE history']
    ELSE Hidden

\* notifyChange: the pages of the tab refresh.
Refresh(t) == shown' = [shown EXCEPT ![t] = Visible(t)]

Others(t) == Tabs \ {t}
Tells(t, changed) == events' = events \cup (Others(t) \X changed)
Set(tabs, t, in) == IF in THEN tabs \cup {t} ELSE tabs \ {t}

\* Storage takes a change or refuses it.
Refused(ok) ==
    /\ \/ ok \/ refusals < MaxRefusals
    /\ refusals' = IF ok THEN refusals ELSE refusals + 1

\* setConsent(true): "Old history without consent must not return when the user opts in."
BugKeepsOldHistory(t) == FALSE
ErasesFirst(t) == ~HasConsent(t)

EraseRefused(t) ==
    /\ ErasesFirst(t) /\ Refused(FALSE)
    /\ cleared' = cleared \cup {t}
    /\ UNCHANGED <<consent, history, revoked, events, grants, withdrawn, erased>>

Granted(t, saved) ==
    /\ Refused(saved)
    /\ history' = IF ErasesFirst(t) THEN {} ELSE history
    /\ cleared' = IF ErasesFirst(t) THEN cleared \ {t} ELSE cleared
    /\ consent' = (consent \/ saved)
    /\ revoked' = IF saved THEN revoked \ {t} ELSE revoked
    /\ grants' = IF saved /\ ~HasConsent(t) THEN grants + 1 ELSE grants
    /\ withdrawn' = IF saved THEN {} ELSE withdrawn
    /\ Tells(t, {k \in {"consent", "history"} :
                    IF k = "consent" THEN consent' # consent ELSE history' # history})
    /\ UNCHANGED erased

GiveConsent ==
    \E t \in Tabs :
        /\ grants < MaxGrants
        /\ EraseRefused(t) \/ \E saved \in BOOLEAN : Granted(t, saved)
        /\ Refresh(t)

\* setConsent(false): either removal may be refused without the other.
WithdrawConsent ==
    \E t \in Tabs, consentRemoved, historyRemoved \in BOOLEAN :
        /\ (consentRemoved /\ historyRemoved) \/ refusals < MaxRefusals
        /\ refusals' = IF consentRemoved /\ historyRemoved THEN refusals ELSE refusals + 1
        /\ consent' = (consent /\ ~consentRemoved)
        /\ history' = IF historyRemoved THEN {} ELSE history
        /\ revoked' = Set(revoked, t, ~consentRemoved)
        /\ cleared' = Set(cleared, t, ~historyRemoved)
        /\ Tells(t, {k \in {"consent", "history"} :
                        IF k = "consent" THEN consent' # consent ELSE history' # history})
        /\ Refresh(t)
        /\ withdrawn' = withdrawn \cup {t}
        /\ erased' = [erased EXCEPT ![t] = @ \cup history]
        /\ UNCHANGED grants

\* recordViewedIdentity, from the effect of an identity page that shows consent.  The
\* consent is read again, since another tab may have withdrawn it.
Record ==
    \E t \in Tabs, id \in Ids, ok \in BOOLEAN :
        /\ shown[t].consent /\ HasConsent(t)
        /\ Refused(ok)
        /\ UNCHANGED <<consent, revoked, grants, withdrawn>>
        /\ IF ok
           THEN /\ history' = {<<id, grants>>} \cup
                      {e \in IF t \in cleared THEN {} ELSE history : e[1] # id}
                /\ cleared' = cleared \ {t}
                /\ Tells(t, IF history' # history THEN {"history"} ELSE {})
                /\ Refresh(t)
                /\ erased' = [u \in Tabs |-> IF u = t THEN erased[t] \ history' ELSE {}]
           ELSE UNCHANGED <<history, cleared, events, shown, erased>>

Clear ==
    \E t \in Tabs, ok \in BOOLEAN :
        /\ shown[t].entries # {}
        /\ Refused(ok)
        /\ UNCHANGED <<consent, revoked, grants, withdrawn>>
        /\ history' = IF ok THEN {} ELSE history
        /\ cleared' = Set(cleared, t, ~ok)
        /\ Tells(t, IF history' # history THEN {"history"} ELSE {})
        /\ Refresh(t)
        /\ erased' = [erased EXCEPT ![t] = @ \cup history]

\* "... until a successful write or an update from another tab replaces that value."
Event ==
    \E e \in events :
        /\ UNCHANGED <<consent, history, grants, refusals>>
        /\ events' = events \ {e}
        /\ IF e[2] = "consent"
           THEN /\ revoked' = revoked \ {e[1]} /\ withdrawn' = withdrawn \ {e[1]}
                /\ UNCHANGED <<cleared, erased>>
           ELSE /\ cleared' = cleared \ {e[1]} /\ erased' = [erased EXCEPT ![e[1]] = {}]
                /\ UNCHANGED <<revoked, withdrawn>>
        /\ Refresh(e[1])

\* A new page forgets what the old one hid, as the error it showed had told.
Reload ==
    \E t \in Tabs :
        /\ UNCHANGED <<consent, history, grants, refusals>>
        /\ events' = {e \in events : e[1] # t}
        /\ revoked' = revoked \ {t} /\ cleared' = cleared \ {t}
        /\ Refresh(t)
        /\ withdrawn' = withdrawn \ {t}
        /\ erased' = [erased EXCEPT ![t] = {}]

Next == GiveConsent \/ WithdrawConsent \/ Record \/ Clear \/ Event \/ Reload

Spec == Init /\ [][Next]_vars

-----------------------------------------------------------------------------
(* Properties.                                                             *)

\* Consent covers what was viewed under it and nothing else: entries of an earlier
\* consent never return with a new one; a tab whose user withdrew consent, or erased the
\* history, shows none of it even where storage refused to, until somebody consents again
\* or the tab hears of another's update.
HistoryNeedsConsent ==
    /\ consent => \A e \in history : e[2] = grants
    /\ \A t \in withdrawn : shown[t] = Hidden
    /\ \A t \in Tabs : shown[t].entries \cap erased[t] = {}

=============================================================================
