---------------------------- MODULE SessionRecord ----------------------------
(***************************************************************************)
(* What upsertSubmission promises the requests of one session, with no      *)
(* statements, races or retries in it: each call takes effect in one step,  *)
(* as if it were alone.  A save is written unless the session is already    *)
(* completed; of the completes exactly one is told it was the first, and    *)
(* the others at most refresh what it completed.  A visit once stored       *)
(* stays.                                                                   *)
(*                                                                          *)
(* The write that creates the record is made before its caller hears of     *)
(* it.  It counts; a caller that never hears makes its call again, and is   *)
(* then answered as if somebody else had been first.                        *)
(***************************************************************************)
CONSTANTS
    Callers,
    Nobody

VARIABLES
    state,      \* none, open or completed
    answers,    \* whose answers the record holds
    visit,      \* whose visit
    first,      \* the one caller that completed it, if any did
    call        \* each caller: what it asks for, or what came of it

recordVars == <<state, answers, visit, first, call>>

RecordInit ==
    /\ state = "none" /\ answers = Nobody /\ visit = Nobody /\ first = {}
    /\ call = [c \in Callers |-> "unsent"]

Ask(c) ==
    /\ call[c] = "unsent"
    /\ \E kind \in {"partial", "complete"} : call' = [call EXCEPT ![c] = kind]
    /\ UNCHANGED <<state, answers, visit, first>>

Writes(c, newState) ==
    /\ state' = newState
    /\ answers' = c
    /\ visit' \in {c, visit}

\* The call is over with the given outcome, or is still to hear of it.
Ends(c, outcome) ==
    \/ call' = [call EXCEPT ![c] = outcome]
    \/ state = "none" /\ call' = call

Save(c) ==
    /\ call[c] = "partial"
    /\ state # "completed"
    /\ Writes(c, "open")
    /\ Ends(c, "over")
    /\ UNCHANGED first

Finish(c) ==
    /\ call[c] = "complete"
    /\ state # "completed"
    /\ Writes(c, "completed")
    /\ first' = {c}
    /\ Ends(c, "first")

\* The caller that completed the record hears of it.
Hear(c) ==
    /\ call[c] = "complete"
    /\ c \in first
    /\ call' = [call EXCEPT ![c] = "first"]
    /\ UNCHANGED <<state, answers, visit, first>>

Refresh(c) ==
    /\ call[c] = "complete"
    /\ state = "completed"
    /\ Writes(c, "completed")
    /\ call' = [call EXCEPT ![c] = "again"]
    /\ UNCHANGED first

\* A complete that came second, or takes itself for one, and leaves the record to the first one.
Yield(c) ==
    /\ call[c] = "complete"
    /\ state = "completed"
    /\ call' = [call EXCEPT ![c] = "again"]
    /\ UNCHANGED <<state, answers, visit, first>>

\* A save that is over, written or too late, or a caller that is gone.
GiveUp(c) ==
    /\ call[c] \in {"partial", "complete"}
    /\ call' = [call EXCEPT ![c] = "over"]
    /\ UNCHANGED <<state, answers, visit, first>>

RecordNext ==
    \E c \in Callers : Ask(c) \/ Save(c) \/ Finish(c) \/ Hear(c) \/ Refresh(c) \/ Yield(c) \/ GiveUp(c)

RecordSpec == RecordInit /\ [][RecordNext]_recordVars
=============================================================================
