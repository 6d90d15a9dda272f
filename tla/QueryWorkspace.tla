---------------------------- MODULE QueryWorkspace ----------------------------
(***************************************************************************)
(* Running statements in the query workspace: QueryPage.tsx,                *)
(* StatementResult.tsx and QueryResults.tsx of src/components/query.         *)
(*                                                                         *)
(* A run is a text with the contract and the session it was started in; its  *)
(* statements take turns, two at a time.  A request asks for one page of one  *)
(* statement and cannot be recalled: only its answer can be ignored.          *)
(* React's effects run before the next event of the user, not before the     *)
(* next answer.                                                             *)
(***************************************************************************)
EXTENDS Naturals, Sequences, FiniteSets, FiniteSetsExt

CONSTANTS
    Texts,       \* what may be in the editor
    Statements,  \* [Texts -> sequences of "documents", "aggregate", "unresolved"]: what
                 \* parseSqlMulti makes of it, the empty sequence standing for an error
    Contracts,   \* what may be picked
    None,
    MaxRuns, MaxSessions, MaxPages \* bounds

VARIABLES
    sqlText,  \* the editor
    picker,   \* pickerContractId
    session,  \* the SDK session of the page, numbered; even ones are not ready
    pending,  \* initialQueryPending: the text of a shared link has yet to be run
    run,      \* None, or the run
    runs,     \* how many there were
    view,     \* per statement of the run: what its StatementResult holds
    requests  \* the requests under way, those of earlier runs included

vars == <<sqlText, picker, session, pending, run, runs, view, requests>>

Ready == session % 2 = 1

Init ==
    /\ sqlText \in Texts /\ picker \in Contracts
    /\ session = 0 /\ pending \in BOOLEAN
    /\ run = None /\ runs = 0 /\ view = <<>> /\ requests = {}

-----------------------------------------------------------------------------

\* currentRun: checked in render, so that old results are never visible for one frame.
Current ==
    run # None /\ run.text = sqlText /\ run.contract = picker /\ run.session = session

InState(s) == {i \in DOMAIN view : view[i].state = s}

\* activeStatements: those running, and as many of the queue as two allow.
BugQueueIgnoresRunning == InState("running") \cup {i \in InState("queued") :
    Cardinality({j \in InState("queued") : j < i}) < 2}
Active ==
    IF ~Current THEN {}
    ELSE InState("running")
         \cup {i \in InState("queued") :
                 Cardinality({j \in InState("queued") : j < i})
                   + Cardinality(InState("running")) < 2}

IsRunning == Current /\ InState("done") # DOMAIN view

Kind(i) == Statements[run.text][i]
Request(i) ==
    [run |-> run.id, at |-> i, text |-> run.text, contract |-> run.contract,
     session |-> run.session, page |-> view[i].page]

\* The statements whose effect is due: it runs when they become active or change page.
Due == {i \in Active : view[i].asked # view[i].page}
EffectsDue == (run # None /\ ~Current) \/ Due # {} \/ (pending /\ Ready)

-----------------------------------------------------------------------------

Fresh == [state |-> "queued", page |-> 1, asked |-> 0, result |-> None, next |-> "no"]

\* startRun: the run before is gone whatever becomes of the new one.
StartRun(text, contract) ==
    /\ runs < MaxRuns
    /\ pending' = FALSE
    /\ IF Statements[text] = <<>> \/ ~Ready
       THEN run' = None /\ view' = <<>> /\ UNCHANGED runs
       ELSE /\ run' = [id |-> runs + 1, text |-> text, contract |-> contract,
                       session |-> session]
            /\ view' = [i \in DOMAIN Statements[text] |-> Fresh]
            /\ runs' = runs + 1
    /\ UNCHANGED <<session, requests>>

NoRun == run' = None /\ view' = <<>>

Run ==
    /\ ~EffectsDue /\ Ready /\ ~IsRunning
    /\ StartRun(sqlText, picker)
    /\ UNCHANGED <<sqlText, picker>>

\* A preset is run at once, while other statements are running too.
Preset ==
    /\ ~EffectsDue
    /\ \E text \in Texts, contract \in Contracts :
          /\ sqlText' = text /\ picker' = contract
          /\ StartRun(text, contract)

Edit ==
    /\ ~EffectsDue
    /\ pending' = FALSE
    /\ \/ sqlText' \in Texts \ {sqlText} /\ UNCHANGED picker
       \/ picker' \in Contracts \ {picker} /\ UNCHANGED sqlText
    /\ UNCHANGED <<session, run, runs, view, requests>>

Cancel ==
    /\ ~EffectsDue /\ IsRunning
    /\ NoRun
    /\ UNCHANGED <<sqlText, picker, session, pending, runs, requests>>

\* The session is retired, or the next one becomes ready.
SessionStep ==
    /\ session < MaxSessions
    /\ session' = session + 1
    /\ UNCHANGED <<sqlText, picker, pending, run, runs, view, requests>>

\* changePage and retry of a statement that shows a result.
Requeue(i, page) ==
    /\ view' = [view EXCEPT ![i].state = "queued", ![i].page = page, ![i].asked = 0,
                            ![i].result = None, ![i].next = "no"]
    /\ UNCHANGED <<sqlText, picker, session, pending, run, runs, requests>>

Browse ==
    /\ ~EffectsDue /\ Current
    /\ \E i \in InState("done") :
          /\ view[i].result # None
          /\ \/ view[i].next = "yes" /\ view[i].page < MaxPages /\ Requeue(i, view[i].page + 1)
             \/ view[i].page > 1 /\ ~view[i].result.failed /\ Requeue(i, view[i].page - 1)
             \/ view[i].result.failed /\ Requeue(i, view[i].page)

-----------------------------------------------------------------------------
(* Effects.                                                                *)

\* Shared queries run only after the selected session is ready.
SharedLink ==
    /\ pending /\ Ready
    /\ StartRun(sqlText, picker)
    /\ UNCHANGED <<sqlText, picker>>

CloseRun ==
    /\ run # None /\ ~Current
    /\ NoRun
    /\ UNCHANGED <<sqlText, picker, session, pending, runs, requests>>

\* A statement without a contract to ask ends at once.
Execute ==
    /\ \E i \in Due :
          IF Kind(i) = "unresolved"
          THEN /\ view' = [view EXCEPT ![i].state = "done", ![i].asked = view[i].page]
               /\ UNCHANGED requests
          ELSE /\ view' = [view EXCEPT ![i].state = "running", ![i].asked = view[i].page]
               /\ requests' = requests \cup {Request(i)}
    /\ UNCHANGED <<sqlText, picker, session, pending, run, runs>>

-----------------------------------------------------------------------------

\* The effect that asked is the last of its statement, and was not cleaned up.
BugNeverCancelled(r) == run # None /\ r.at \in DOMAIN view
Awaited(r) ==
    /\ Current /\ r.run = run.id
    /\ view[r.at].state = "running" /\ view[r.at].asked = r.page

\* A page that is full may have a next one: the follow-up request tells.
Answer ==
    /\ \E r \in requests, failed, full \in BOOLEAN :
          /\ requests' = requests \ {r}
          /\ failed => ~full
          /\ IF Awaited(r)
             THEN view' = [view EXCEPT
                    ![r.at].state = "done",
                    ![r.at].result = [failed |-> failed, of |-> r],
                    ![r.at].next = IF full /\ Kind(r.at) = "documents" THEN "checking" ELSE "no"]
             ELSE ~failed /\ ~full /\ UNCHANGED view
    /\ UNCHANGED <<sqlText, picker, session, pending, run, runs>>

\* If the follow-up fails, Next is offered all the same.
NextPageChecked ==
    /\ Current
    /\ \E i \in DOMAIN view, next \in {"yes", "no"} :
          /\ view[i].next = "checking"
          /\ view' = [view EXCEPT ![i].next = next]
    /\ UNCHANGED <<sqlText, picker, session, pending, run, runs, requests>>

-----------------------------------------------------------------------------

\* What the results table or the totals of a statement show.
Screen(i) ==
    IF i \in Active \/ view[i].state = "queued" THEN "loading"
    ELSE IF view[i].result = None THEN "no documents"
    ELSE IF view[i].result.failed THEN "error" ELSE "documents"

Next == Run \/ Preset \/ Edit \/ Cancel \/ SessionStep \/ Browse \/ SharedLink \/ CloseRun
        \/ Execute \/ Answer \/ NextPageChecked

Spec == Init /\ [][Next]_vars

-----------------------------------------------------------------------------
(* Properties.                                                             *)

\* "Old results are never visible for one frame after an editor, network, or SDK session
\* change": a result on screen answers the statement, contract, session and page that the
\* screen names, whichever requests of earlier runs and pages are answered meanwhile; and
\* no empty table stands for an answer that has not come.
ResultsOfContext ==
    Current => \A i \in DOMAIN view :
        IF view[i].result = None
        THEN Kind(i) # "unresolved" => Screen(i) = "loading"
        ELSE /\ Screen(i) # "loading"
             /\ view[i].result.of =
                  [run |-> run.id, at |-> i, text |-> sqlText, contract |-> picker,
                   session |-> session, page |-> view[i].page]

\* No statement is left behind: one that runs has its request under way, one that waits
\* waits for two that run or will, and never do three run at once.
StatementsTakeTurns ==
    Current =>
        /\ Cardinality(Active) <= 2
        /\ \A i \in InState("running") : Request(i) \in requests
        /\ InState("queued") \ Active # {} => Cardinality(Active) = 2

=============================================================================
