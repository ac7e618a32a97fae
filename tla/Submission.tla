----------------------------- MODULE Submission -----------------------------
(***************************************************************************)
(* The submission row of ONE session of one form, and the requests that     *)
(* write it: upsertSubmission of packages/db/src/forms.ts.  Nothing         *)
(* serializes the requests of a session (a fire-and-forget partial, the     *)
(* complete, transport retries of either, a second tab), so each runs its   *)
(* SELECT, INSERT or UPDATE, and re-read as separate statements interleaved *)
(* with everybody else's.                                                   *)
(*                                                                          *)
(* Answers and visit are abstracted to the request that wrote them.         *)
(*                                                                          *)
(* An INSERT that commits may go unheard: its answer is lost, or the        *)
(* re-read behind it, in the same try block, rejects.  The catch takes      *)
(* either for a lost race and finds its own row.                            *)
(***************************************************************************)
EXTENDS Naturals, FiniteSets

CONSTANTS
    Requests,    \* the submits the session may send, retries included
    NoRequest,   \* nothing stored yet
    MaxFaults    \* bound: requests that die and INSERTs that go unheard

ASSUME SubmissionAssumption ==
    /\ NoRequest \notin Requests
    /\ MaxFaults \in Nat

VARIABLES
    row,      \* the session's row in the submission table
    req,      \* what each request holds between two statements
    owner,    \* history: the completes that are to be told
              \* wasCompletedBefore = false, each of which owes the effects
    unheard,  \* history: the completes whose INSERT committed unheard
    spent     \* faults spent so far

subVars == <<row, req, owner, unheard, spent>>

Phases == {"none", "open", "completed"}
Steps == {"unsent", "select", "insert", "inserted", "raced", "update", "reread", "stored",
          "threw", "dead"}

SubmissionRow == [state : Phases, data : Requests \cup {NoRequest},
                  visit : Requests \cup {NoRequest}]

\* seen: what the SELECT read; was: wasCompletedBefore; got: the visit on
\* the row returned to the caller.
Request == [pc : Steps, partial : BOOLEAN, hasVisit : BOOLEAN, seen : Phases,
            was : BOOLEAN, got : Requests \cup {NoRequest}]

NewRequest(pc, partial, hasVisit) ==
    [pc |-> pc, partial |-> partial, hasVisit |-> hasVisit, seen |-> "none",
     was |-> FALSE, got |-> NoRequest]

SubmissionInit ==
    /\ row = [state |-> "none", data |-> NoRequest, visit |-> NoRequest]
    /\ req = [q \in Requests |-> NewRequest("unsent", FALSE, FALSE)]
    /\ owner = {}
    /\ unheard = {}
    /\ spent = 0

\* COALESCE(new, stored): a write without a visit keeps the stored one.
MergedVisit(q) == IF req[q].hasVisit THEN q ELSE row.visit

\* The row after request q's answers, score and visit are written to it.
Written(q, state) == [state |-> state, data |-> q, visit |-> MergedVisit(q)]

Goto(q, pc) == req' = [req EXCEPT ![q].pc = pc]

\* The write is over, with wasCompletedBefore = was; the re-read is next.
Wrote(q, was) == req' = [req EXCEPT ![q] = [req[q] EXCEPT !.pc = "reread", !.was = was]]

\* The request reaches upsertSubmission.
Arrive(q, partial, hasVisit) ==
    /\ req[q].pc = "unsent"
    /\ req' = [req EXCEPT ![q] = NewRequest("select", partial, hasVisit)]
    /\ UNCHANGED <<row, owner, unheard, spent>>

\* The row was read, as it is.
Saw(q, pc) == req' = [req EXCEPT ![q] = [req[q] EXCEPT !.seen = row.state, !.pc = pc]]

\* Mutant: a lost INSERT is tried again instead of becoming an UPDATE.
SelectExistingThenInsert(q) ==
    /\ req[q].pc \in {"select", "raced"}
    /\ Saw(q, IF req[q].pc = "select" /\ row.state # "none" THEN "update" ELSE "insert")
    /\ UNCHANGED <<row, owner, unheard, spent>>

\* selectExisting, before the first write and again after a lost INSERT.
\* After a failed INSERT with still no row the original error is rethrown.
SelectExisting(q) ==
    /\ req[q].pc \in {"select", "raced"}
    /\ Saw(q, IF row.state # "none" THEN "update"
              ELSE IF req[q].pc = "select" THEN "insert" ELSE "threw")
    /\ UNCHANGED <<row, owner, unheard, spent>>

\* A complete that inserts the row is to be told that it is the first one,
\* by the re-read behind the INSERT, and owes the effects.
OwnsIfComplete(q) == owner' = IF req[q].partial THEN owner ELSE owner \cup {q}

\* Mutants: wasCompletedBefore taken from the row as inserted; the unique
\* violation not caught.
InsertReportsCompleted(q) ==
    /\ req[q].pc = "insert"
    /\ IF row.state = "none"
       THEN /\ row' = Written(q, IF req[q].partial THEN "open" ELSE "completed")
            /\ Wrote(q, ~req[q].partial)
       ELSE /\ Goto(q, "raced")
            /\ UNCHANGED row
    /\ UNCHANGED <<owner, unheard, spent>>

InsertUncaught(q) ==
    /\ req[q].pc = "insert"
    /\ IF row.state = "none"
       THEN /\ row' = Written(q, IF req[q].partial THEN "open" ELSE "completed")
            /\ OwnsIfComplete(q)
            /\ Goto(q, "inserted")
       ELSE /\ Goto(q, "threw")
            /\ UNCHANGED <<row, owner>>
    /\ UNCHANGED <<unheard, spent>>

\* INSERT, its re-read still to come; the unique index (form, session)
\* rejects the second of two.
Insert(q) ==
    /\ req[q].pc = "insert"
    /\ IF row.state = "none"
       THEN /\ row' = Written(q, IF req[q].partial THEN "open" ELSE "completed")
            /\ OwnsIfComplete(q)
            /\ Goto(q, "inserted")
       ELSE /\ Goto(q, "raced")
            /\ UNCHANGED <<row, owner>>
    /\ UNCHANGED <<unheard, spent>>

\* The reorder guard: a partial that read a completed row writes nothing.
KeepCompleted(q) ==
    /\ req[q].pc = "update"
    /\ req[q].partial
    /\ req[q].seen = "completed"
    /\ Wrote(q, TRUE)
    /\ UNCHANGED <<row, owner, unheard, spent>>

\* The completion UPDATE hit and returned the row.
Completed(q, visit) ==
    req' = [req EXCEPT ![q] = [req[q] EXCEPT !.pc = "stored", !.was = FALSE, !.got = visit]]

\* Mutant: the completion UPDATE without its WHERE completed_at IS NULL.
CompleteOpenUnguarded(q) ==
    /\ req[q].pc = "update"
    /\ ~req[q].partial
    /\ req[q].seen = "open"
    /\ row' = Written(q, "completed")
    /\ owner' = owner \cup {q}
    /\ Completed(q, MergedVisit(q))
    /\ UNCHANGED <<unheard, spent>>

\* A complete that read an open row: UPDATE ... WHERE completed_at IS NULL
\* RETURNING *.  The hit returns the merged row itself; the miss re-reads.
CompleteOpen(q) ==
    /\ req[q].pc = "update"
    /\ ~req[q].partial
    /\ req[q].seen = "open"
    /\ IF row.state = "open"
       THEN /\ row' = Written(q, "completed")
            /\ owner' = owner \cup {q}
            /\ Completed(q, MergedVisit(q))
       ELSE /\ Wrote(q, TRUE)
            /\ UNCHANGED <<row, owner>>
    /\ UNCHANGED <<unheard, spent>>

\* Mutant: the partial's UPDATE as it was before it carried the WHERE.
SavePartialUnguarded(q) ==
    /\ req[q].pc = "update"
    /\ req[q].partial
    /\ req[q].seen = "open"
    /\ row' = Written(q, row.state)
    /\ Wrote(q, FALSE)
    /\ UNCHANGED <<owner, unheard, spent>>

\* A partial that read an open row: guarded the same way, and told
\* wasCompletedBefore = false whether or not its write found the row open.
SavePartial(q) ==
    /\ req[q].pc = "update"
    /\ req[q].partial
    /\ req[q].seen = "open"
    /\ row' = IF row.state = "open" THEN Written(q, "open") ELSE row
    /\ Wrote(q, FALSE)
    /\ UNCHANGED <<owner, unheard, spent>>

\* Mutant: the visit replaced instead of merged.
RefreshCompletedDroppingVisit(q) ==
    /\ req[q].pc = "update"
    /\ ~req[q].partial
    /\ req[q].seen = "completed"
    /\ row' = [state |-> row.state, data |-> q,
               visit |-> IF req[q].hasVisit THEN q ELSE NoRequest]
    /\ Wrote(q, TRUE)
    /\ UNCHANGED <<owner, unheard, spent>>

\* A complete that read a completed row refreshes it without any guard.
RefreshCompleted(q) ==
    /\ req[q].pc = "update"
    /\ ~req[q].partial
    /\ req[q].seen = "completed"
    /\ row' = Written(q, row.state)
    /\ Wrote(q, TRUE)
    /\ UNCHANGED <<owner, unheard, spent>>

\* getSubmissionById: the row as it is by then, not as this request wrote it.
Reread(q) ==
    /\ req[q].pc \in {"inserted", "reread"}
    /\ req' = [req EXCEPT ![q] = [req[q] EXCEPT !.pc = "stored", !.got = row.visit]]
    /\ UNCHANGED <<row, owner, unheard, spent>>

InUpsert == {"select", "insert", "inserted", "raced", "update", "reread"}

SpendFault ==
    /\ spent < MaxFaults
    /\ spent' = spent + 1

\* The request ends here: its API process dies, or a statement rejects that
\* no catch retries (all but the INSERT and the re-read behind it).
Die(q) ==
    /\ req[q].pc \in InUpsert
    /\ SpendFault
    /\ Goto(q, "dead")
    /\ UNCHANGED <<row, owner, unheard>>

GoesUnheard(q) == unheard' = IF req[q].partial THEN unheard ELSE unheard \cup {q}

\* The INSERT commits but its answer is lost.  The catch does not tell this
\* from a lost race: it selects again and finds its own row.
InsertAnswerLost(q) ==
    /\ req[q].pc = "insert"
    /\ row.state = "none"
    /\ SpendFault
    /\ row' = Written(q, IF req[q].partial THEN "open" ELSE "completed")
    /\ Goto(q, "raced")
    /\ GoesUnheard(q)
    /\ UNCHANGED owner

\* The INSERT is answered and the re-read behind it rejects, in the same try:
\* again the catch selects and finds its own row.
RereadRejects(q) ==
    /\ req[q].pc = "inserted"
    /\ SpendFault
    /\ Goto(q, "raced")
    /\ owner' = owner \ {q}
    /\ GoesUnheard(q)
    /\ UNCHANGED row

InsertUnheard(q) == InsertAnswerLost(q) \/ RereadRejects(q)

Upsert(q) ==
    \/ SelectExisting(q)
    \/ Insert(q)
    \/ KeepCompleted(q)
    \/ CompleteOpen(q)
    \/ SavePartial(q)
    \/ RefreshCompleted(q)
    \/ Reread(q)

SubmissionNext ==
    \E q \in Requests :
        \/ \E partial, hasVisit \in BOOLEAN : Arrive(q, partial, hasVisit)
        \/ Upsert(q)
        \/ Die(q)
        \/ InsertUnheard(q)

SubmissionSpec == SubmissionInit /\ [][SubmissionNext]_subVars

\* The API runs the statements of every request it accepted.
FairSubmissionSpec == SubmissionSpec /\ \A q \in Requests : WF_subVars(Upsert(q))

(***************************************************************************)
(* Correctness.                                                             *)
(***************************************************************************)

SubmissionTypeOK ==
    /\ row \in SubmissionRow
    /\ req \in [Requests -> Request]
    /\ owner \in SUBSET Requests
    /\ unheard \in SUBSET Requests
    /\ spent \in 0..MaxFaults

\* At most one request of a session, ever, is told that its complete is the
\* first one, however completes, retries and partials interleave: the
\* effects of a completion are owed once.
OneOwner == \A p, q \in owner : p = q

\* A completed row holds the answers of a complete, never those of a partial
\* that read the row while it was open and wrote, or re-read, after it.
CompletedHoldsComplete ==
    row.state = "completed" => row.data \in Requests /\ ~req[row.data].partial

\* Of every completion one request is to learn that it was first and owes
\* the effects (it may still die before it pays), unless the INSERT that
\* completed the row went unheard: no interleaving of SELECTs, UPDATEs and
\* lost races makes all completes think another one was first.
CompletionIsOwned == row.state = "completed" => owner \cup unheard # {}

\* The loser of two first INSERTs resolves as an update: no request of a
\* session fails because another one was faster.
NobodyThrows == \A q \in Requests : req[q].pc # "threw"

\* A visit once stored is never lost, and a completed row never reopens.
NothingRegresses ==
    [][/\ row.visit # NoRequest => row'.visit # NoRequest
       /\ row.state = "completed" => row'.state = "completed"]_subVars

\* Every request the API accepted is answered.
EveryRequestEnds ==
    \A q \in Requests : req[q].pc \in InUpsert ~> req[q].pc \in {"stored", "dead"}

(***************************************************************************)
(* The inductive invariant behind the properties above.                     *)
(***************************************************************************)

\* What a request read is still true in the one direction the row can move.
ReadsAge(q) ==
    /\ req[q].seen # "none" => row.state # "none"
    /\ req[q].seen = "completed" => row.state = "completed"
    /\ req[q].pc = "update" => req[q].seen # "none"
    /\ req[q].pc \in {"inserted", "raced"} => row.state # "none"
    /\ req[q].pc # "threw"
    /\ req[q].was => row.state = "completed"

\* The owners are the completes that are to be told, or were told,
\* wasCompletedBefore = false.
OwnersKnowIt(q) ==
    /\ q \in owner =>
          ~req[q].partial /\ req[q].pc \in {"inserted", "reread", "stored", "dead"}
    /\ q \in owner \/ req[q].pc \in {"select", "insert", "inserted", "raced", "update"} =>
          ~req[q].was
    /\ ~req[q].partial /\ ~req[q].was /\ req[q].pc \in {"inserted", "reread", "stored"} =>
          q \in owner
    /\ q \in unheard => req[q].pc # "unsent"

\* One complete completed the row, and its INSERT went unheard or it owns it.
OneCompleted ==
    /\ \A p, q \in owner \cup unheard : p = q
    /\ owner \cup unheard # {} => row.state = "completed"
    /\ unheard # {} => spent > 0

SubmissionInv ==
    /\ SubmissionTypeOK
    /\ OneCompleted
    /\ \A q \in Requests : ReadsAge(q) /\ OwnersKnowIt(q)
    /\ CompletedHoldsComplete
    /\ row.state = "completed" => req[row.data].pc # "unsent"
    /\ CompletionIsOwned
=============================================================================
