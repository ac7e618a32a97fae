-------------------------- MODULE SubmissionProofs --------------------------
(***************************************************************************)
(* SubmissionInv is inductive for every set of requests, so the properties  *)
(* of one session's submission row hold however many requests race for it.  *)
(***************************************************************************)
EXTENDS SubmissionRefinement, TLAPS

(***************************************************************************)
(* What the helpers that change a request leave in it.                      *)
(***************************************************************************)

LEMMA SawFields ==
    ASSUME SubmissionTypeOK, NEW q \in Requests, NEW pc \in Steps, Saw(q, pc)
    PROVE  /\ req' \in [Requests -> Request]
           /\ req'[q].pc = pc /\ req'[q].seen = row.state
           /\ req'[q].partial = req[q].partial /\ req'[q].was = req[q].was
           /\ \A p \in Requests \ {q} : req'[p] = req[p]
<1>1. req[q] \in Request /\ row.state \in Phases
  BY DEF SubmissionTypeOK, SubmissionRow
<1>2. [req[q] EXCEPT !.seen = row.state, !.pc = pc] \in Request
  BY <1>1 DEF Request
<1>3. LET n == [req[q] EXCEPT !.seen = row.state, !.pc = pc]
      IN  n.pc = pc /\ n.seen = row.state /\ n.partial = req[q].partial /\ n.was = req[q].was
  BY <1>1 DEF Request
<1> QED
  BY <1>2, <1>3 DEF Saw, SubmissionTypeOK

LEMMA WroteFields ==
    ASSUME SubmissionTypeOK, NEW q \in Requests, NEW was \in BOOLEAN, Wrote(q, was)
    PROVE  /\ req' \in [Requests -> Request]
           /\ req'[q].pc = "reread" /\ req'[q].was = was
           /\ req'[q].partial = req[q].partial /\ req'[q].seen = req[q].seen
           /\ \A p \in Requests \ {q} : req'[p] = req[p]
<1>1. req[q] \in Request
  BY DEF SubmissionTypeOK
<1>2. "reread" \in Steps
  BY DEF Steps
<1>3. [req[q] EXCEPT !.pc = "reread", !.was = was] \in Request
  BY <1>1, <1>2 DEF Request
<1>4. LET n == [req[q] EXCEPT !.pc = "reread", !.was = was]
      IN  n.pc = "reread" /\ n.was = was /\ n.partial = req[q].partial /\ n.seen = req[q].seen
  BY <1>1 DEF Request
<1> QED
  BY <1>3, <1>4 DEF Wrote, SubmissionTypeOK

LEMMA CompletedFields ==
    ASSUME SubmissionTypeOK, NEW q \in Requests, NEW visit \in Requests \cup {NoRequest},
           Completed(q, visit)
    PROVE  /\ req' \in [Requests -> Request]
           /\ req'[q].pc = "stored" /\ req'[q].was = FALSE
           /\ req'[q].partial = req[q].partial /\ req'[q].seen = req[q].seen
           /\ \A p \in Requests \ {q} : req'[p] = req[p]
<1>1. req[q] \in Request
  BY DEF SubmissionTypeOK
<1>2. "stored" \in Steps /\ FALSE \in BOOLEAN
  BY DEF Steps
<1>3. [req[q] EXCEPT !.pc = "stored", !.was = FALSE, !.got = visit] \in Request
  BY <1>1, <1>2 DEF Request
<1>4. LET n == [req[q] EXCEPT !.pc = "stored", !.was = FALSE, !.got = visit]
      IN  n.pc = "stored" /\ n.was = FALSE /\ n.partial = req[q].partial /\ n.seen = req[q].seen
  BY <1>1 DEF Request
<1> QED
  BY <1>3, <1>4 DEF Completed, SubmissionTypeOK

LEMMA RereadFields ==
    ASSUME SubmissionTypeOK, NEW q \in Requests, Reread(q)
    PROVE  /\ req' \in [Requests -> Request]
           /\ req'[q].pc = "stored" /\ req'[q].was = req[q].was
           /\ req'[q].partial = req[q].partial /\ req'[q].seen = req[q].seen
           /\ \A p \in Requests \ {q} : req'[p] = req[p]
<1>1. req[q] \in Request /\ row.visit \in Requests \cup {NoRequest}
  BY DEF SubmissionTypeOK, SubmissionRow
<1>2. "stored" \in Steps
  BY DEF Steps
<1>3. [req[q] EXCEPT !.pc = "stored", !.got = row.visit] \in Request
  BY <1>1, <1>2 DEF Request
<1>4. LET n == [req[q] EXCEPT !.pc = "stored", !.got = row.visit]
      IN  n.pc = "stored" /\ n.was = req[q].was /\ n.partial = req[q].partial
          /\ n.seen = req[q].seen
  BY <1>1 DEF Request
<1> QED
  BY <1>3, <1>4 DEF Reread, SubmissionTypeOK

LEMMA GotoFields ==
    ASSUME SubmissionTypeOK, NEW q \in Requests, NEW pc \in Steps, Goto(q, pc)
    PROVE  /\ req' \in [Requests -> Request]
           /\ req'[q].pc = pc /\ req'[q].was = req[q].was
           /\ req'[q].partial = req[q].partial /\ req'[q].seen = req[q].seen
           /\ \A p \in Requests \ {q} : req'[p] = req[p]
  BY DEF Goto, SubmissionTypeOK, Request

LEMMA WrittenType ==
    ASSUME SubmissionTypeOK, NEW q \in Requests, NEW state \in Phases
    PROVE  /\ Written(q, state) \in SubmissionRow
           /\ Written(q, state).state = state /\ Written(q, state).data = q
           /\ MergedVisit(q) \in Requests \cup {NoRequest}
  BY DEF SubmissionTypeOK, SubmissionRow, Written, MergedVisit

(***************************************************************************)
(* SubmissionInv is inductive: one lemma per kind of step.                  *)
(***************************************************************************)

LEMMA InitSubmissionInv == SubmissionInit => SubmissionInv
  BY SubmissionAssumption
     DEF SubmissionInit, SubmissionInv, SubmissionTypeOK, SubmissionRow, Request, NewRequest,
         Phases, Steps, OneCompleted, ReadsAge, OwnersKnowIt, CompletedHoldsComplete, CompletionIsOwned

\* What a step of request q may do to the histories of the others.
OthersKeep(q) ==
    \A p \in Requests \ {q} :
        req'[p] = req[p] /\ (p \in owner' <=> p \in owner) /\ (p \in unheard' <=> p \in unheard)

\* A step that reads, waits or dies: the row stays, and so does the request
\* that completed it, heard or not.
LEMMA ReadStep ==
    ASSUME SubmissionInv, NEW q \in Requests, row' = row, OthersKeep(q),
           owner' \in SUBSET Requests, unheard' \in SUBSET Requests,
           owner' \cup unheard' = owner \cup unheard, unheard' # {} => spent' > 0,
           spent' \in 0..MaxFaults, req' \in [Requests -> Request],
           req'[q].pc # "unsent",
           req[q].pc = "unsent" \/ req'[q].partial = req[q].partial,
           ReadsAge(q)', OwnersKnowIt(q)'
    PROVE  SubmissionInv'
<1>1. \A p \in Requests \ {q} : ReadsAge(p)' /\ OwnersKnowIt(p)'
  BY DEF SubmissionInv, ReadsAge, OwnersKnowIt, OthersKeep
<1>2. row.state = "completed" =>
        /\ row.data \in Requests /\ ~req[row.data].partial /\ req[row.data].pc # "unsent"
  BY DEF SubmissionInv, CompletedHoldsComplete
<1>3. (row.state = "completed" => row.data \in Requests /\ ~req[row.data].partial)'
      /\ (row.state = "completed" => req[row.data].pc # "unsent")'
  BY <1>2 DEF OthersKeep
<1>4. SubmissionTypeOK' /\ CompletionIsOwned'
  BY DEF SubmissionInv, SubmissionTypeOK, CompletionIsOwned
<1>5. OneCompleted'
  BY DEF SubmissionInv, OneCompleted
<1> QED
  BY <1>1, <1>3, <1>4, <1>5 DEF SubmissionInv, CompletedHoldsComplete

\* A step that writes the row: it never reopens it, only a complete completes
\* it, and the request that does is its owner or goes unheard.
LEMMA WriteStep ==
    ASSUME SubmissionInv, NEW q \in Requests, NEW state \in {"open", "completed"},
           row' = Written(q, state), OthersKeep(q),
           row.state = "completed" => state = "completed",
           state = "completed" => ~req[q].partial,
           owner' \in SUBSET Requests, unheard' \in SUBSET Requests,
           \/ UNCHANGED <<owner, unheard>> /\ (state = "completed" => owner \cup unheard # {})
           \/ owner' \cup unheard' = {q} /\ state = "completed",
           unheard' # {} => spent' > 0,
           spent' \in 0..MaxFaults, req' \in [Requests -> Request],
           req'[q].pc # "unsent", req'[q].partial = req[q].partial,
           ReadsAge(q)', OwnersKnowIt(q)'
    PROVE  SubmissionInv'
<1>1. row' \in SubmissionRow /\ row'.state = state /\ row'.data = q
  BY WrittenType DEF SubmissionInv, Phases
<1>2. \A p \in Requests \ {q} : ReadsAge(p)' /\ OwnersKnowIt(p)'
  BY <1>1 DEF SubmissionInv, ReadsAge, OwnersKnowIt, OthersKeep
<1>3. SubmissionTypeOK'
  BY <1>1 DEF SubmissionTypeOK
<1>4. OneCompleted' /\ CompletionIsOwned'
  <2>1. CASE UNCHANGED <<owner, unheard>> /\ (state = "completed" => owner \cup unheard # {})
    BY <1>1, <2>1 DEF SubmissionInv, OneCompleted, CompletionIsOwned
  <2>2. CASE owner' \cup unheard' = {q} /\ state = "completed"
    BY <1>1, <2>2 DEF OneCompleted, CompletionIsOwned
  <2> QED
    BY <2>1, <2>2
<1>5. CompletedHoldsComplete' /\ (row.state = "completed" => req[row.data].pc # "unsent")'
  BY <1>1 DEF CompletedHoldsComplete
<1> QED
  BY <1>2, <1>3, <1>4, <1>5 DEF SubmissionInv

LEMMA HistoriesType ==
    ASSUME SubmissionInv
    PROVE  /\ owner \in SUBSET Requests /\ unheard \in SUBSET Requests
           /\ spent \in 0..MaxFaults /\ (unheard # {} => spent > 0)
  BY DEF SubmissionInv, SubmissionTypeOK, OneCompleted

LEMMA ArriveInv ==
    ASSUME SubmissionInv, NEW q \in Requests, NEW partial \in BOOLEAN, NEW hasVisit \in BOOLEAN,
           Arrive(q, partial, hasVisit)
    PROVE  SubmissionInv'
<1>1. /\ NewRequest("select", partial, hasVisit) \in Request
      /\ req'[q] = NewRequest("select", partial, hasVisit)
      /\ \A p \in Requests \ {q} : req'[p] = req[p]
  BY DEF Arrive, NewRequest, Request, Steps, Phases, SubmissionInv, SubmissionTypeOK
<1>2. /\ req' \in [Requests -> Request] /\ spent' \in 0..MaxFaults
      /\ UNCHANGED <<row, owner, unheard, spent>> /\ req[q].pc = "unsent"
  BY <1>1 DEF Arrive, SubmissionInv, SubmissionTypeOK
<1>3. req'[q].pc = "select" /\ req'[q].seen = "none" /\ req'[q].was = FALSE
  BY <1>1 DEF NewRequest
<1>4. q \notin owner /\ q \notin unheard
  BY <1>2 DEF SubmissionInv, OwnersKnowIt
<1>5. ReadsAge(q)' /\ OwnersKnowIt(q)'
  BY <1>2, <1>3, <1>4 DEF ReadsAge, OwnersKnowIt
<1> QED
  BY <1>1, <1>2, <1>3, <1>5, ReadStep, HistoriesType DEF OthersKeep

\* A request that is still to be answered is nobody's owner yet.
LEMMA NotYetOwner ==
    ASSUME SubmissionInv, NEW q \in Requests,
           req[q].pc \in {"unsent", "select", "insert", "raced", "update"}
    PROVE  q \notin owner /\ (req[q].pc # "unsent" => ~req[q].was)
  BY DEF SubmissionInv, OwnersKnowIt

LEMMA SelectInv == ASSUME SubmissionInv, NEW q \in Requests, SelectExisting(q) PROVE SubmissionInv'
<1> DEFINE pc == IF row.state # "none" THEN "update"
                 ELSE IF req[q].pc = "select" THEN "insert" ELSE "threw"
<1>0. /\ SubmissionTypeOK /\ pc \in Steps /\ Saw(q, pc) /\ UNCHANGED <<row, owner, unheard, spent>>
      /\ req[q].pc \in {"select", "raced"}
  BY DEF SelectExisting, Steps, SubmissionInv
<1>1. /\ req' \in [Requests -> Request]
      /\ req'[q].pc = pc /\ req'[q].seen = row.state
      /\ req'[q].partial = req[q].partial /\ req'[q].was = req[q].was
      /\ \A p \in Requests \ {q} : req'[p] = req[p]
  BY <1>0, SawFields DEF Saw
<1>2. q \notin owner /\ ~req[q].was
  BY <1>0, NotYetOwner
<1>3. ReadsAge(q)' /\ OwnersKnowIt(q)'
  BY <1>0, <1>1, <1>2 DEF SubmissionInv, ReadsAge, OwnersKnowIt
<1>4. OthersKeep(q) /\ req'[q].pc # "unsent"
  BY <1>0, <1>1 DEF OthersKeep
<1> QED
  BY <1>0, <1>1, <1>3, <1>4, ReadStep, HistoriesType

LEMMA RereadInv == ASSUME SubmissionInv, NEW q \in Requests, Reread(q) PROVE SubmissionInv'
<1>0. /\ SubmissionTypeOK /\ UNCHANGED <<row, owner, unheard, spent>>
      /\ req[q].pc \in {"inserted", "reread"}
  BY DEF Reread, SubmissionInv
<1>1. /\ req' \in [Requests -> Request]
      /\ req'[q].pc = "stored" /\ req'[q].was = req[q].was
      /\ req'[q].partial = req[q].partial /\ req'[q].seen = req[q].seen
      /\ \A p \in Requests \ {q} : req'[p] = req[p]
  BY <1>0, RereadFields
<1>2. ReadsAge(q)' /\ OwnersKnowIt(q)'
  BY <1>0, <1>1 DEF SubmissionInv, ReadsAge, OwnersKnowIt
<1>3. OthersKeep(q)
  BY <1>0, <1>1 DEF OthersKeep
<1> QED
  BY <1>0, <1>1, <1>2, <1>3, ReadStep, HistoriesType

\* The writes that find the row already completed, or may not touch it.
LEMMA LeaveRowInv ==
    ASSUME SubmissionInv, NEW q \in Requests, NEW was \in BOOLEAN, Wrote(q, was),
           UNCHANGED <<row, owner, unheard, spent>>, req[q].pc = "update", req[q].partial \/ was,
           was => row.state = "completed"
    PROVE  SubmissionInv'
<1>0. SubmissionTypeOK
  BY DEF SubmissionInv
<1>1. /\ req' \in [Requests -> Request]
      /\ req'[q].pc = "reread" /\ req'[q].was = was
      /\ req'[q].partial = req[q].partial /\ req'[q].seen = req[q].seen
      /\ \A p \in Requests \ {q} : req'[p] = req[p]
  BY <1>0, WroteFields DEF Wrote
<1>2. q \notin owner
  BY NotYetOwner
<1>3. ReadsAge(q)' /\ OwnersKnowIt(q)'
  BY <1>1, <1>2 DEF SubmissionInv, ReadsAge, OwnersKnowIt
<1>4. OthersKeep(q)
  BY <1>1 DEF OthersKeep
<1> QED
  BY <1>0, <1>1, <1>3, <1>4, ReadStep, HistoriesType

LEMMA SpentType ==
    ASSUME SubmissionInv, SpendFault \/ spent' = spent
    PROVE  /\ spent' \in 0..MaxFaults /\ (unheard # {} => spent' > 0)
           /\ SpendFault => spent' > 0
  BY SubmissionAssumption DEF SubmissionInv, SubmissionTypeOK, OneCompleted, SpendFault

\* Death and the lost race, which only move the request.
LEMMA MoveInv ==
    ASSUME SubmissionInv, NEW q \in Requests, NEW pc \in {"raced", "dead"}, Goto(q, pc),
           req[q].pc \in InUpsert, pc = "raced" => req[q].pc = "insert" /\ row.state # "none",
           UNCHANGED <<row, owner, unheard>>, SpendFault \/ spent' = spent
    PROVE  SubmissionInv'
<1>0. SubmissionTypeOK /\ pc \in Steps
  BY DEF SubmissionInv, Steps
<1>1. /\ req' \in [Requests -> Request]
      /\ req'[q].pc = pc /\ req'[q].was = req[q].was
      /\ req'[q].partial = req[q].partial /\ req'[q].seen = req[q].seen
      /\ \A p \in Requests \ {q} : req'[p] = req[p]
  BY <1>0, GotoFields DEF Goto
<1>2. pc = "raced" => q \notin owner
  BY NotYetOwner
<1>3. ReadsAge(q)' /\ OwnersKnowIt(q)'
  BY <1>0, <1>1, <1>2 DEF SubmissionInv, ReadsAge, OwnersKnowIt
<1>4. OthersKeep(q) /\ spent' \in 0..MaxFaults /\ (unheard' # {} => spent' > 0)
  BY <1>1, SpentType DEF OthersKeep
<1> QED
  BY <1>0, <1>1, <1>3, <1>4, ReadStep, HistoriesType

\* The INSERT itself: the row is there, its request goes on to the re-read or,
\* unheard, to the catch.
LEMMA InsertsInv ==
    ASSUME SubmissionInv, NEW q \in Requests, NEW pc \in {"inserted", "raced"}, Goto(q, pc),
           req[q].pc = "insert", row.state = "none",
           row' = Written(q, IF req[q].partial THEN "open" ELSE "completed"),
           IF pc = "inserted" THEN OwnsIfComplete(q) /\ UNCHANGED <<unheard, spent>>
                              ELSE GoesUnheard(q) /\ owner' = owner /\ SpendFault
    PROVE  SubmissionInv'
<1> DEFINE state == IF req[q].partial THEN "open" ELSE "completed"
<1>0. /\ SubmissionTypeOK /\ owner = {} /\ unheard = {} /\ ~req[q].was /\ pc \in Steps
      /\ spent' \in 0..MaxFaults /\ (SpendFault => spent' > 0)
  <2>1. ~req[q].was
    BY NotYetOwner
  <2>2. owner = {} /\ unheard = {}
    BY DEF SubmissionInv, OneCompleted
  <2>3. SpendFault \/ spent' = spent
    BY DEF OwnsIfComplete
  <2> QED
    BY <2>1, <2>2, <2>3, SpentType DEF SubmissionInv, Steps
<1>1. /\ req' \in [Requests -> Request]
      /\ req'[q].pc = pc /\ req'[q].was = req[q].was
      /\ req'[q].partial = req[q].partial /\ req'[q].seen = req[q].seen
      /\ \A p \in Requests \ {q} : req'[p] = req[p]
  BY <1>0, GotoFields DEF Goto
<1>2. row'.state = state
  BY <1>0, WrittenType DEF Phases
<1>3. /\ owner' = (IF pc = "inserted" /\ ~req[q].partial THEN {q} ELSE {})
      /\ unheard' = (IF pc = "raced" /\ ~req[q].partial THEN {q} ELSE {})
      /\ unheard' # {} => spent' > 0
  BY <1>0 DEF OwnsIfComplete, GoesUnheard
<1>4. ReadsAge(q)'
  BY <1>0, <1>1, <1>2 DEF SubmissionInv, ReadsAge
<1>5. OwnersKnowIt(q)'
  BY <1>0, <1>1, <1>3 DEF OwnersKnowIt
<1>6. OthersKeep(q)
  BY <1>0, <1>1, <1>3 DEF OthersKeep
<1>7. owner' \in SUBSET Requests /\ unheard' \in SUBSET Requests
  BY <1>3
<1>8. \/ UNCHANGED <<owner, unheard>> /\ (state = "completed" => owner \cup unheard # {})
      \/ owner' \cup unheard' = {q} /\ state = "completed"
  BY <1>0, <1>3
<1>9. /\ state \in {"open", "completed"} /\ row.state # "completed"
      /\ (state = "completed" => ~req[q].partial) /\ req'[q].pc # "unsent"
  BY <1>1
<1> HIDE DEF state
<1> QED
  BY <1>0, <1>1, <1>3, <1>4, <1>5, <1>6, <1>7, <1>8, <1>9, WriteStep DEF state

LEMMA InsertInv ==
    ASSUME SubmissionInv, NEW q \in Requests, Insert(q) \/ InsertAnswerLost(q)
    PROVE  SubmissionInv'
<1>1. CASE Insert(q) /\ row.state = "none"
  BY <1>1, InsertsInv DEF Insert, Goto
<1>2. CASE Insert(q) /\ row.state # "none"
  <2>1. /\ Goto(q, "raced") /\ UNCHANGED <<row, owner, unheard, spent>>
        /\ req[q].pc = "insert"
    BY <1>2 DEF Insert
  <2> QED
    BY <1>2, <2>1, MoveInv DEF InUpsert, Goto
<1>3. CASE InsertAnswerLost(q)
  BY <1>3, InsertsInv DEF InsertAnswerLost, Goto
<1> QED
  BY <1>1, <1>2, <1>3

\* The re-read behind the INSERT rejects: the completion it made goes from
\* owned to unheard.
LEMMA RereadRejectsInv ==
    ASSUME SubmissionInv, NEW q \in Requests, RereadRejects(q) PROVE SubmissionInv'
<1>0. /\ SubmissionTypeOK /\ Goto(q, "raced") /\ row' = row /\ req[q].pc = "inserted"
      /\ owner' = owner \ {q} /\ spent' \in 0..MaxFaults /\ spent' > 0
      /\ unheard' = IF req[q].partial THEN unheard ELSE unheard \cup {q}
  BY SpentType DEF RereadRejects, GoesUnheard, SubmissionInv
<1>1. /\ req' \in [Requests -> Request]
      /\ req'[q].pc = "raced" /\ req'[q].was = req[q].was
      /\ req'[q].partial = req[q].partial /\ req'[q].seen = req[q].seen
      /\ \A p \in Requests \ {q} : req'[p] = req[p]
  BY <1>0, GotoFields DEF Goto, Steps
<1>2. ~req[q].was /\ (q \in owner <=> ~req[q].partial)
  BY <1>0 DEF SubmissionInv, OwnersKnowIt
<1>3. owner' \cup unheard' = owner \cup unheard
  BY <1>0, <1>2
<1>4. OthersKeep(q) /\ owner' \in SUBSET Requests /\ unheard' \in SUBSET Requests
  BY <1>0, <1>1, HistoriesType DEF OthersKeep
<1>5. row.state # "none" /\ ReadsAge(q)
  BY <1>0 DEF SubmissionInv, ReadsAge
<1>6. ReadsAge(q)'
  BY <1>0, <1>1, <1>5 DEF ReadsAge
<1>7. OwnersKnowIt(q)'
  BY <1>0, <1>1, <1>2 DEF OwnersKnowIt
<1>8. req'[q].pc # "unsent"
  BY <1>1
<1> QED
  BY <1>0, <1>1, <1>3, <1>4, <1>6, <1>7, <1>8, ReadStep

LEMMA UpdateInv ==
    ASSUME SubmissionInv, NEW q \in Requests,
           KeepCompleted(q) \/ CompleteOpen(q) \/ SavePartial(q) \/ RefreshCompleted(q)
    PROVE  SubmissionInv'
<1>0. /\ SubmissionTypeOK /\ req[q].pc = "update" /\ q \notin owner /\ ~req[q].was
      /\ UNCHANGED <<unheard, spent>> /\ spent \in 0..MaxFaults /\ (unheard # {} => spent > 0)
      /\ owner \in SUBSET Requests /\ unheard \in SUBSET Requests
  BY NotYetOwner, HistoriesType
     DEF SubmissionInv, KeepCompleted, CompleteOpen, SavePartial, RefreshCompleted
<1>1. ReadsAge(q)
  BY DEF SubmissionInv
<1>2. CASE KeepCompleted(q)
  BY <1>0, <1>1, <1>2, LeaveRowInv DEF KeepCompleted, ReadsAge, Wrote
<1>3. CASE CompleteOpen(q)
  <2>1. CASE row.state = "open"
    <3>1. /\ row' = Written(q, "completed") /\ Completed(q, MergedVisit(q))
          /\ owner = {} /\ unheard = {} /\ owner' = {q} /\ ~req[q].partial
      BY <1>3, <2>1 DEF CompleteOpen, SubmissionInv, OneCompleted
    <3>2. /\ req' \in [Requests -> Request]
          /\ req'[q].pc = "stored" /\ req'[q].was = FALSE
          /\ req'[q].partial = req[q].partial /\ req'[q].seen = req[q].seen
          /\ \A p \in Requests \ {q} : req'[p] = req[p]
      BY <1>0, <3>1, CompletedFields, WrittenType DEF Completed, Phases
    <3>3. row'.state = "completed"
      BY <1>0, <3>1, WrittenType DEF Phases
    <3>4. ReadsAge(q)' /\ OwnersKnowIt(q)'
      BY <1>0, <1>1, <3>1, <3>2, <3>3 DEF ReadsAge, OwnersKnowIt
    <3>5. OthersKeep(q) /\ owner' \cup unheard' = {q}
      BY <1>0, <3>1, <3>2 DEF OthersKeep
    <3> QED
      BY <1>0, <3>1, <3>2, <3>4, <3>5, WriteStep
  <2>2. CASE row.state # "open"
    <3>1. Wrote(q, TRUE) /\ UNCHANGED <<row, owner, unheard, spent>> /\ req[q].seen = "open"
      BY <1>3, <2>2 DEF CompleteOpen
    <3>2. row.state = "completed"
      BY <1>0, <1>1, <2>2, <3>1 DEF ReadsAge, SubmissionTypeOK, SubmissionRow, Phases
    <3> QED
      BY <1>0, <3>1, <3>2, LeaveRowInv DEF Wrote
  <2> QED
    BY <2>1, <2>2
<1>4. CASE SavePartial(q)
  <2>0. Wrote(q, FALSE) /\ req[q].partial /\ owner' = owner
    BY <1>4 DEF SavePartial
  <2>1. CASE row.state = "open"
    <3>1. row' = Written(q, "open")
      BY <1>4, <2>1 DEF SavePartial
    <3>2. /\ req' \in [Requests -> Request]
          /\ req'[q].pc = "reread" /\ req'[q].was = FALSE
          /\ req'[q].partial = req[q].partial /\ req'[q].seen = req[q].seen
          /\ \A p \in Requests \ {q} : req'[p] = req[p]
      BY <1>0, <2>0, WroteFields DEF Wrote
    <3>3. row'.state = "open"
      BY <1>0, <3>1, WrittenType DEF Phases
    <3>4. ReadsAge(q)' /\ OwnersKnowIt(q)'
      BY <1>0, <1>1, <2>0, <2>1, <3>2, <3>3 DEF ReadsAge, OwnersKnowIt
    <3>5. OthersKeep(q)
      BY <1>0, <2>0, <3>2 DEF OthersKeep
    <3> QED
      BY <1>0, <2>0, <2>1, <3>1, <3>2, <3>4, <3>5, WriteStep
  <2>2. CASE row.state # "open"
    <3>1. UNCHANGED <<row, owner, unheard, spent>>
      BY <1>0, <1>4, <2>2 DEF SavePartial
    <3> QED
      BY <1>0, <2>0, <3>1, LeaveRowInv DEF Wrote
  <2> QED
    BY <2>1, <2>2
<1>5. CASE RefreshCompleted(q)
  <2>1. /\ row' = Written(q, "completed") /\ Wrote(q, TRUE) /\ row.state = "completed"
        /\ ~req[q].partial /\ owner' = owner
    BY <1>1, <1>5 DEF RefreshCompleted, ReadsAge
  <2>2. /\ req' \in [Requests -> Request]
        /\ req'[q].pc = "reread" /\ req'[q].was = TRUE
        /\ req'[q].partial = req[q].partial /\ req'[q].seen = req[q].seen
        /\ \A p \in Requests \ {q} : req'[p] = req[p]
    BY <1>0, <2>1, WroteFields DEF Wrote
  <2>3. row'.state = "completed"
    BY <1>0, <2>1, WrittenType DEF Phases
  <2>4. ReadsAge(q)' /\ OwnersKnowIt(q)'
    BY <1>0, <2>1, <2>2, <2>3 DEF ReadsAge, OwnersKnowIt
  <2>5. owner \cup unheard # {} /\ OthersKeep(q)
    BY <1>0, <2>1, <2>2 DEF SubmissionInv, CompletionIsOwned, OthersKeep
  <2> QED
    BY <1>0, <2>1, <2>2, <2>4, <2>5, WriteStep
<1> QED
  BY <1>2, <1>3, <1>4, <1>5

LEMMA UpsertInv ==
    ASSUME SubmissionInv, NEW q \in Requests, Upsert(q) \/ InsertUnheard(q)
    PROVE  SubmissionInv'
  BY SelectInv, InsertInv, UpdateInv, RereadInv, RereadRejectsInv DEF Upsert, InsertUnheard

\* What a step of the upsert leaves alone.
LEMMA UpsertFrame ==
    ASSUME SubmissionInv, NEW q \in Requests, Upsert(q) \/ InsertUnheard(q)
    PROVE  /\ req[q].pc \in InUpsert /\ req'[q].pc # "unsent"
           /\ req'[q].partial = req[q].partial
           /\ \A p \in Requests \ {q} : req'[p] = req[p]
           /\ \A p \in Requests \ {q} : p \in owner' <=> p \in owner
<1>0. SubmissionTypeOK
  BY DEF SubmissionInv
<1>1. req[q].pc \in InUpsert
  BY DEF Upsert, SelectExisting, Insert, KeepCompleted, CompleteOpen, SavePartial,
         RefreshCompleted, Reread, InsertUnheard, InsertAnswerLost, RereadRejects, InUpsert
<1>2. \A p \in Requests \ {q} : p \in owner' <=> p \in owner
  BY DEF Upsert, SelectExisting, Insert, KeepCompleted, CompleteOpen, SavePartial,
         RefreshCompleted, Reread, InsertUnheard, InsertAnswerLost, RereadRejects, OwnsIfComplete
<1>3. \/ \E pc \in Steps \ {"unsent"} : Saw(q, pc) \/ Goto(q, pc)
      \/ \E was \in BOOLEAN : Wrote(q, was)
      \/ Completed(q, MergedVisit(q))
      \/ Reread(q)
  BY DEF Upsert, SelectExisting, Insert, KeepCompleted, CompleteOpen, SavePartial,
         RefreshCompleted, InsertUnheard, InsertAnswerLost, RereadRejects, Steps
<1> DEFINE Frame ==
      /\ req'[q].pc # "unsent" /\ req'[q].partial = req[q].partial
      /\ \A p \in Requests \ {q} : req'[p] = req[p]
<1>4. ASSUME NEW pc \in Steps \ {"unsent"}, Saw(q, pc) PROVE Frame
  BY <1>0, <1>4, SawFields DEF Saw
<1>5. ASSUME NEW pc \in Steps \ {"unsent"}, Goto(q, pc) PROVE Frame
  BY <1>0, <1>5, GotoFields DEF Goto
<1>6. ASSUME NEW was \in BOOLEAN, Wrote(q, was) PROVE Frame
  BY <1>0, <1>6, WroteFields DEF Wrote
<1>7. ASSUME Completed(q, MergedVisit(q)) PROVE Frame
  <2>1. MergedVisit(q) \in Requests \cup {NoRequest}
    BY <1>0, WrittenType DEF Phases
  <2> QED
    BY <1>0, <1>7, <2>1, CompletedFields DEF Completed
<1>8. ASSUME Reread(q) PROVE Frame
  <2>1. /\ req'[q].pc = "stored" /\ req'[q].partial = req[q].partial
        /\ \A p \in Requests \ {q} : req'[p] = req[p]
    BY <1>0, <1>8, RereadFields
  <2> QED
    BY <2>1
<1> QED
  BY <1>1, <1>2, <1>3, <1>4, <1>5, <1>6, <1>7, <1>8

LEMMA NextSubmissionInv == SubmissionInv /\ [SubmissionNext]_subVars => SubmissionInv'
<1> SUFFICES ASSUME SubmissionInv, [SubmissionNext]_subVars PROVE SubmissionInv'
  OBVIOUS
<1>1. CASE UNCHANGED subVars
  BY <1>1 DEF subVars, SubmissionInv, SubmissionTypeOK, OneCompleted, ReadsAge, OwnersKnowIt,
              CompletedHoldsComplete, CompletionIsOwned
<1>2. ASSUME NEW q \in Requests, NEW partial \in BOOLEAN, NEW hasVisit \in BOOLEAN,
             Arrive(q, partial, hasVisit)
      PROVE  SubmissionInv'
  BY <1>2, ArriveInv
<1>3. ASSUME NEW q \in Requests, Upsert(q) \/ InsertUnheard(q) PROVE SubmissionInv'
  BY <1>3, UpsertInv
<1>4. ASSUME NEW q \in Requests, Die(q) PROVE SubmissionInv'
  <2>1. /\ Goto(q, "dead") /\ UNCHANGED <<row, owner, unheard>> /\ req[q].pc \in InUpsert
        /\ SpendFault
    BY <1>4 DEF Die
  <2> QED
    BY <2>1, MoveInv DEF Goto
<1> QED
  BY <1>1, <1>2, <1>3, <1>4 DEF SubmissionNext

\* The invariant the session's properties rest on.
THEOREM SubmissionInductive == SubmissionSpec => []SubmissionInv
  BY InitSubmissionInv, NextSubmissionInv, PTL DEF SubmissionSpec

(***************************************************************************)
(* The safety properties of the runs.                                       *)
(***************************************************************************)

\* However many completes of one session race or are retried, at most one of
\* them is told it is the first: the effects of a completion are owed once.
THEOREM SubmissionOneOwner == SubmissionSpec => []OneOwner
<1>1. SubmissionInv => OneOwner
  BY DEF SubmissionInv, OneCompleted, OneOwner
<1> QED
  BY <1>1, SubmissionInductive, PTL

\* A completed row never holds the answers of a partial save.
THEOREM SubmissionCompletedHoldsComplete == SubmissionSpec => []CompletedHoldsComplete
<1>1. SubmissionInv => CompletedHoldsComplete
  BY DEF SubmissionInv
<1> QED
  BY <1>1, SubmissionInductive, PTL

\* Every completion has an owner, unless the INSERT that made it went unheard:
\* its answer was lost, or the re-read behind it rejected.
THEOREM SubmissionCompletionIsOwned == SubmissionSpec => []CompletionIsOwned
<1>1. SubmissionInv => CompletionIsOwned
  BY DEF SubmissionInv
<1> QED
  BY <1>1, SubmissionInductive, PTL

\* The loser of two first INSERTs finds the winner's row: no request fails
\* because another one of its session was faster.
THEOREM SubmissionNobodyThrows == SubmissionSpec => []NobodyThrows
<1>1. SubmissionInv => NobodyThrows
  BY DEF SubmissionInv, ReadsAge, NobodyThrows
<1> QED
  BY <1>1, SubmissionInductive, PTL

\* A write keeps the stored visit unless it brings its own.
LEMMA MergedVisitKept ==
    ASSUME SubmissionTypeOK, NEW q \in Requests, NEW state, row.visit # NoRequest
    PROVE  Written(q, state).visit # NoRequest /\ Written(q, state).state = state
  BY SubmissionAssumption DEF SubmissionTypeOK, SubmissionRow, Written, MergedVisit

\* A stored visit is never lost and a completed row never reopens, whichever
\* request writes next.
THEOREM SubmissionNothingRegresses == SubmissionSpec => NothingRegresses
<1> DEFINE Kept ==
      /\ row.visit # NoRequest => row'.visit # NoRequest
      /\ row.state = "completed" => row'.state = "completed"
<1>1. ASSUME SubmissionInv, SubmissionNext PROVE Kept
  <2>1. \/ row' = row
        \/ \E q \in Requests, state \in {"open", "completed"} :
              /\ row' = Written(q, state)
              /\ row.state = "completed" => state = "completed"
    <3>1. ASSUME NEW q \in Requests, RefreshCompleted(q)
          PROVE  row' = Written(q, "completed")
      BY <1>1, <3>1 DEF RefreshCompleted, SubmissionInv, ReadsAge
    <3> QED
      BY <1>1, <3>1
         DEF SubmissionNext, Arrive, Upsert, SelectExisting, Insert, KeepCompleted, CompleteOpen,
             SavePartial, Reread, Die, InsertUnheard, InsertAnswerLost, RereadRejects
  <2>2. ASSUME NEW q \in Requests, NEW state, row' = Written(q, state),
               row.state = "completed" => state = "completed"
        PROVE  Kept
    BY <1>1, <2>2, MergedVisitKept DEF SubmissionInv, Written
  <2> QED
    BY <2>1, <2>2
<1>2. SubmissionInv /\ [SubmissionNext]_subVars => [Kept]_subVars
  BY <1>1
<1> QED
  BY <1>2, SubmissionInductive, PTL DEF SubmissionSpec, NothingRegresses

(***************************************************************************)
(* The simulation of SessionRecord, action by action.                       *)
(***************************************************************************)

\* A step of request q moves its own call only.
LEMMA OneCallMoves ==
    ASSUME NEW q \in Requests, NEW out, CallOf(q)' = out,
           \A p \in Requests \ {q} : req'[p] = req[p] /\ (p \in owner' <=> p \in owner)
    PROVE  Calls' = [Calls EXCEPT ![q] = out]
<1>1. \A p \in Requests \ {q} : CallOf(p)' = CallOf(p)
  BY DEF CallOf
<1>2. Calls' = [p \in Requests |-> CallOf(p)']
  BY DEF Calls
<1> QED
  BY <1>1, <1>2 DEF Calls

LEMMA CallStays ==
    ASSUME NEW q \in Requests, CallOf(q)' = CallOf(q),
           \A p \in Requests \ {q} : req'[p] = req[p] /\ (p \in owner' <=> p \in owner)
    PROVE  Calls' = Calls
<1>1. Calls' = [Calls EXCEPT ![q] = CallOf(q)]
  BY OneCallMoves
<1> QED
  BY <1>1 DEF Calls

\* What a call is while its request is still in the upsert, and after it.
LEMMA CallInUpsert ==
    ASSUME NEW q \in Requests, req[q].pc \in {"select", "insert", "inserted", "raced", "update"}
    PROVE  CallOf(q) = IF req[q].partial THEN "partial" ELSE "complete"
  BY DEF CallOf

LEMMA CallAfter ==
    ASSUME NEW q \in Requests, req[q].pc \in {"reread", "stored", "dead"}
    PROVE  CallOf(q) = IF q \in owner THEN "first"
                       ELSE IF ~req[q].partial /\ req[q].was THEN "again" ELSE "over"
  BY DEF CallOf

\* A write of the row is a write of the record.
LEMMA WritesRecord ==
    ASSUME SubmissionTypeOK, NEW q \in Requests, NEW state \in Phases, row' = Written(q, state)
    PROVE  Record!Writes(q, state)
<1>1. row'.state = state /\ row'.data = q /\ row'.visit = MergedVisit(q)
  BY DEF Written
<1> QED
  BY <1>1 DEF Record!Writes, MergedVisit

LEMMA ArriveAsks ==
    ASSUME SubmissionInv, NEW q \in Requests, NEW partial \in BOOLEAN, NEW hasVisit \in BOOLEAN,
           Arrive(q, partial, hasVisit)
    PROVE  Record!Ask(q)
<1>1. /\ req[q].pc = "unsent" /\ req'[q] = NewRequest("select", partial, hasVisit)
      /\ \A p \in Requests \ {q} : req'[p] = req[p]
      /\ UNCHANGED <<row, owner, unheard>>
  BY DEF Arrive, SubmissionInv, SubmissionTypeOK
<1>2. req'[q].pc = "select" /\ req'[q].partial = partial
  BY <1>1 DEF NewRequest
<1>3. CallOf(q)' = IF partial THEN "partial" ELSE "complete"
  BY <1>2 DEF CallOf
<1>4. Calls' = [Calls EXCEPT ![q] = IF partial THEN "partial" ELSE "complete"]
  BY <1>1, <1>3, OneCallMoves
<1>5. Calls[q] = "unsent"
  BY <1>1 DEF Calls, CallOf
<1> QED
  BY <1>1, <1>4, <1>5 DEF Record!Ask

RecordStays == UNCHANGED <<row.state, row.data, row.visit, owner \cup unheard, Calls>>

\* The SELECTs.
LEMMA SelectStutters ==
    ASSUME SubmissionInv, NEW q \in Requests, SelectExisting(q)
    PROVE  RecordStays
<1> DEFINE pc == IF row.state # "none" THEN "update"
                 ELSE IF req[q].pc = "select" THEN "insert" ELSE "threw"
<1>0. /\ SubmissionTypeOK /\ pc \in Steps /\ Saw(q, pc) /\ UNCHANGED <<row, owner, unheard>>
      /\ req[q].pc \in {"select", "raced"}
  BY DEF SelectExisting, Steps, SubmissionInv
<1>1. pc \in {"insert", "update"}
  BY <1>0 DEF SubmissionInv, ReadsAge
<1>2. /\ req'[q].pc = pc /\ req'[q].partial = req[q].partial
      /\ \A p \in Requests \ {q} : req'[p] = req[p]
  BY <1>0, SawFields DEF Saw
<1>3. CallOf(q)' = CallOf(q)
  BY <1>0, <1>1, <1>2 DEF CallOf
<1> QED
  BY <1>0, <1>2, <1>3, CallStays DEF RecordStays

\* The re-read ends a call whose outcome was settled, or is the hearing of it.
LEMMA RereadHears ==
    ASSUME SubmissionInv, NEW q \in Requests, Reread(q)
    PROVE  RecordStays \/ Record!Hear(q) \/ Record!GiveUp(q)
<1>0. SubmissionTypeOK /\ UNCHANGED <<row, owner, unheard>> /\ req[q].pc \in {"inserted", "reread"}
  BY DEF Reread, SubmissionInv
<1>1. /\ req'[q].pc = "stored" /\ req'[q].was = req[q].was
      /\ req'[q].partial = req[q].partial
      /\ \A p \in Requests \ {q} : req'[p] = req[p]
  BY <1>0, RereadFields
<1>2. CASE req[q].pc = "reread"
  <2>1. CallOf(q)' = CallOf(q)
    BY <1>0, <1>1, <1>2 DEF CallOf
  <2> QED
    BY <1>0, <1>1, <2>1, CallStays DEF RecordStays
<1>3. CASE req[q].pc = "inserted"
  <2>1. Calls[q] = IF req[q].partial THEN "partial" ELSE "complete"
    BY <1>3, CallInUpsert DEF Calls
  <2>2. q \in owner <=> ~req[q].partial
    BY <1>3 DEF SubmissionInv, OwnersKnowIt
  <2>3. CallOf(q)' = IF req[q].partial THEN "over" ELSE "first"
    BY <1>0, <1>1, <2>2 DEF CallOf
  <2>4. Calls' = [Calls EXCEPT ![q] = IF req[q].partial THEN "over" ELSE "first"]
    BY <1>0, <1>1, <2>3, OneCallMoves
  <2> QED
    BY <1>0, <2>1, <2>2, <2>4 DEF Record!Hear, Record!GiveUp
<1> QED
  BY <1>0, <1>2, <1>3

\* The first write saves or finishes, to be heard or not; the loser of two
\* goes on.
LEMMA InsertWrites ==
    ASSUME SubmissionInv, NEW q \in Requests, Insert(q) \/ InsertAnswerLost(q)
    PROVE  Record!Save(q) \/ Record!Finish(q) \/ RecordStays
<1> DEFINE state == IF req[q].partial THEN "open" ELSE "completed"
<1>0. SubmissionTypeOK /\ req[q].pc = "insert" /\ q \notin owner
  <2>1. req[q].pc = "insert"
    BY DEF Insert, InsertAnswerLost
  <2> QED
    BY <2>1, NotYetOwner DEF SubmissionInv
<1>1. PICK pc \in {"inserted", "raced"} : Goto(q, pc)
  BY DEF Insert, InsertAnswerLost
<1>2. /\ req'[q].pc = pc /\ req'[q].partial = req[q].partial
      /\ \A p \in Requests \ {q} : req'[p] = req[p] /\ (p \in owner' <=> p \in owner)
  <2>1. \A p \in Requests \ {q} : p \in owner' <=> p \in owner
    BY DEF Insert, InsertAnswerLost, OwnsIfComplete
  <2> QED
    BY <1>0, <1>1, <2>1, GotoFields DEF Steps, Goto
<1>3. CallOf(q) = (IF req[q].partial THEN "partial" ELSE "complete") /\ Calls[q] = CallOf(q)
  BY <1>0, CallInUpsert DEF Calls
<1>4. CallOf(q)' = CallOf(q)
  BY <1>2, <1>3 DEF CallOf
<1>5. Calls' = Calls
  BY <1>2, <1>4, CallStays
<1>6. CASE row.state # "none"
  <2>1. UNCHANGED <<row, owner, unheard>>
    BY <1>6 DEF Insert, InsertAnswerLost
  <2> QED
    BY <1>5, <2>1 DEF RecordStays
<1>7. CASE row.state = "none"
  <2>1. row' = Written(q, state) /\ owner = {} /\ unheard = {}
    BY <1>7 DEF Insert, InsertAnswerLost, SubmissionInv, OneCompleted
  <2>2. owner' \cup unheard' = IF req[q].partial THEN {} ELSE {q}
    BY <1>7, <2>1 DEF Insert, InsertAnswerLost, OwnsIfComplete, GoesUnheard
  <2>3. Record!Writes(q, state)
    BY <1>0, <2>1, WritesRecord DEF Phases
  <2> QED
    BY <1>3, <1>5, <1>7, <2>1, <2>2, <2>3 DEF Record!Save, Record!Finish, Record!Ends
<1> QED
  BY <1>6, <1>7

\* An owner that goes unheard is still the one that completed the record.
LEMMA RereadRejectsStutters ==
    ASSUME SubmissionInv, NEW q \in Requests, RereadRejects(q)
    PROVE  RecordStays
<1>0. /\ SubmissionTypeOK /\ Goto(q, "raced") /\ row' = row /\ req[q].pc = "inserted"
      /\ owner' = owner \ {q}
      /\ unheard' = IF req[q].partial THEN unheard ELSE unheard \cup {q}
  BY DEF RereadRejects, GoesUnheard, SubmissionInv
<1>1. /\ req'[q].pc = "raced" /\ req'[q].partial = req[q].partial
      /\ \A p \in Requests \ {q} : req'[p] = req[p]
  BY <1>0, GotoFields DEF Goto, Steps
<1>2. q \in owner <=> ~req[q].partial
  BY <1>0 DEF SubmissionInv, OwnersKnowIt
<1>3. owner' \cup unheard' = owner \cup unheard
  BY <1>0, <1>2
<1>4. CallOf(q)' = CallOf(q)
  BY <1>0, <1>1 DEF CallOf
<1>5. Calls' = Calls
  BY <1>0, <1>1, <1>4, CallStays
<1> QED
  BY <1>0, <1>3, <1>5 DEF RecordStays

\* A request that leaves the row alone: the outcome of its call.
LEMMA WroteMoves ==
    ASSUME SubmissionTypeOK, NEW q \in Requests, NEW was \in BOOLEAN, Wrote(q, was),
           q \notin owner, UNCHANGED owner
    PROVE  Calls' = [Calls EXCEPT ![q] = IF ~req[q].partial /\ was THEN "again" ELSE "over"]
<1>1. /\ req'[q].pc = "reread" /\ req'[q].was = was /\ req'[q].partial = req[q].partial
      /\ \A p \in Requests \ {q} : req'[p] = req[p]
  BY WroteFields DEF Wrote
<1>2. CallOf(q)' = IF ~req[q].partial /\ was THEN "again" ELSE "over"
  BY <1>1 DEF CallOf
<1> QED
  BY <1>1, <1>2, OneCallMoves

\* The four statements of applyUpdate.
LEMMA UpdateWrites ==
    ASSUME SubmissionInv, NEW q \in Requests,
           KeepCompleted(q) \/ CompleteOpen(q) \/ SavePartial(q) \/ RefreshCompleted(q)
    PROVE  \/ Record!Save(q) \/ Record!Finish(q) \/ Record!Refresh(q)
           \/ Record!Yield(q) \/ Record!GiveUp(q)
<1>0. SubmissionTypeOK /\ req[q].pc = "update" /\ q \notin owner /\ unheard' = unheard
  BY NotYetOwner DEF SubmissionInv, KeepCompleted, CompleteOpen, SavePartial, RefreshCompleted
<1>1. ReadsAge(q) /\ row.state \in Phases
  BY DEF SubmissionInv, SubmissionTypeOK, SubmissionRow
<1>2. Calls[q] = IF req[q].partial THEN "partial" ELSE "complete"
  BY <1>0, CallInUpsert DEF Calls
<1>3. CASE KeepCompleted(q)
  <2>1. Wrote(q, TRUE) /\ req[q].partial /\ UNCHANGED <<row, owner>>
    BY <1>3 DEF KeepCompleted
  <2>2. Calls' = [Calls EXCEPT ![q] = "over"]
    BY <1>0, <2>1, WroteMoves DEF Wrote
  <2> QED
    BY <1>0, <1>2, <2>1, <2>2 DEF Record!GiveUp
<1>4. CASE CompleteOpen(q) /\ row.state = "open"
  <2>1. /\ row' = Written(q, "completed") /\ Completed(q, MergedVisit(q))
        /\ owner' = owner \cup {q} /\ ~req[q].partial /\ owner \cup unheard = {}
    BY <1>4 DEF CompleteOpen, SubmissionInv, OneCompleted
  <2>2. /\ req'[q].pc = "stored" /\ req'[q].partial = req[q].partial
        /\ \A p \in Requests \ {q} : req'[p] = req[p]
    BY <1>0, <2>1, CompletedFields, WrittenType DEF Completed, Phases
  <2>3. CallOf(q)' = "first"
    BY <2>1, <2>2 DEF CallOf
  <2>4. Calls' = [Calls EXCEPT ![q] = "first"]
    BY <2>1, <2>2, <2>3, OneCallMoves
  <2>5. Record!Writes(q, "completed")
    BY <1>0, <2>1, WritesRecord DEF Phases
  <2> QED
    BY <1>0, <1>2, <1>4, <2>1, <2>4, <2>5 DEF Record!Finish, Record!Ends
<1>5. CASE CompleteOpen(q) /\ row.state # "open"
  <2>1. Wrote(q, TRUE) /\ UNCHANGED <<row, owner>> /\ ~req[q].partial /\ req[q].seen = "open"
    BY <1>5 DEF CompleteOpen
  <2>2. row.state = "completed"
    BY <1>1, <1>5, <2>1 DEF ReadsAge, Phases
  <2>3. Calls' = [Calls EXCEPT ![q] = "again"]
    BY <1>0, <2>1, WroteMoves DEF Wrote
  <2> QED
    BY <1>0, <1>2, <2>1, <2>2, <2>3 DEF Record!Yield
<1>6. CASE SavePartial(q)
  <2>1. Wrote(q, FALSE) /\ UNCHANGED owner /\ req[q].partial
    BY <1>6 DEF SavePartial
  <2>2. Calls' = [Calls EXCEPT ![q] = "over"]
    BY <1>0, <2>1, WroteMoves DEF Wrote
  <2>3. CASE row.state = "open"
    <3>1. row' = Written(q, "open")
      BY <1>6, <2>3 DEF SavePartial
    <3>2. Record!Writes(q, "open")
      BY <1>0, <3>1, WritesRecord DEF Phases
    <3> QED
      BY <1>0, <1>2, <2>1, <2>2, <2>3, <3>2 DEF Record!Save, Record!Ends
  <2>4. CASE row.state # "open"
    <3>1. row' = row
      BY <1>6, <2>4 DEF SavePartial
    <3> QED
      BY <1>0, <1>2, <2>1, <2>2, <3>1 DEF Record!GiveUp
  <2> QED
    BY <2>3, <2>4
<1>7. CASE RefreshCompleted(q)
  <2>1. /\ row' = Written(q, "completed") /\ Wrote(q, TRUE) /\ row.state = "completed"
        /\ ~req[q].partial /\ UNCHANGED owner
    BY <1>1, <1>7 DEF RefreshCompleted, ReadsAge
  <2>2. Calls' = [Calls EXCEPT ![q] = "again"]
    BY <1>0, <2>1, WroteMoves DEF Wrote
  <2>3. Record!Writes(q, "completed")
    BY <1>0, <2>1, WritesRecord DEF Phases
  <2> QED
    BY <1>0, <1>2, <2>1, <2>2, <2>3 DEF Record!Refresh
<1> QED
  BY <1>3, <1>4, <1>5, <1>6, <1>7

\* A request that dies after its write keeps what came of its call.
LEMMA DieGivesUp ==
    ASSUME SubmissionInv, NEW q \in Requests, Die(q)
    PROVE  Record!Hear(q) \/ Record!GiveUp(q) \/ RecordStays
<1>0. /\ SubmissionTypeOK /\ Goto(q, "dead") /\ UNCHANGED <<row, owner, unheard>>
      /\ req[q].pc \in InUpsert
  BY DEF Die, SubmissionInv
<1>1. /\ req'[q].pc = "dead" /\ req'[q].was = req[q].was /\ req'[q].partial = req[q].partial
      /\ \A p \in Requests \ {q} : req'[p] = req[p]
  BY <1>0, GotoFields DEF Goto, Steps
<1>2. CASE req[q].pc = "reread"
  <2>1. CallOf(q)' = CallOf(q)
    BY <1>0, <1>1, <1>2 DEF CallOf
  <2> QED
    BY <1>0, <1>1, <2>1, CallStays DEF RecordStays
<1>3. CASE req[q].pc # "reread"
  <2>0. req[q].pc \in {"select", "insert", "inserted", "raced", "update"}
    BY <1>0, <1>3 DEF InUpsert
  <2>1. ~req[q].was /\ (q \in owner => ~req[q].partial)
    BY <2>0 DEF SubmissionInv, OwnersKnowIt
  <2>2. CallOf(q)' = IF q \in owner THEN "first" ELSE "over"
    BY <1>0, <1>1, <2>1 DEF CallOf
  <2>3. Calls' = [Calls EXCEPT ![q] = IF q \in owner THEN "first" ELSE "over"]
    BY <1>0, <1>1, <2>2, OneCallMoves
  <2>4. Calls[q] = IF req[q].partial THEN "partial" ELSE "complete"
    BY <2>0, CallInUpsert DEF Calls
  <2> QED
    BY <1>0, <2>1, <2>3, <2>4 DEF Record!Hear, Record!GiveUp
<1> QED
  BY <1>2, <1>3

\* Every step of a request, or one that leaves the session alone.
LEMMA RecordStep ==
    ASSUME SubmissionInv, SubmissionNext \/ UNCHANGED <<row, req, owner, unheard>>
    PROVE  Record!RecordNext \/ RecordStays
<1>1. CASE UNCHANGED <<row, req, owner, unheard>>
  <2>1. Calls' = Calls
    BY <1>1 DEF Calls, CallOf
  <2> QED
    BY <1>1, <2>1 DEF RecordStays
<1>2. ASSUME NEW q \in Requests, NEW partial \in BOOLEAN, NEW hasVisit \in BOOLEAN,
             Arrive(q, partial, hasVisit)
      PROVE  Record!RecordNext
  BY <1>2, ArriveAsks DEF Record!RecordNext
<1>3. ASSUME NEW q \in Requests, Upsert(q) \/ InsertUnheard(q)
      PROVE  Record!RecordNext \/ RecordStays
  BY <1>3, SelectStutters, RereadHears, InsertWrites, UpdateWrites, RereadRejectsStutters
     DEF Upsert, InsertUnheard, Record!RecordNext
<1>4. ASSUME NEW q \in Requests, Die(q) PROVE Record!RecordNext \/ RecordStays
  BY <1>4, DieGivesUp DEF Record!RecordNext
<1> QED
  BY <1>1, <1>2, <1>3, <1>4 DEF SubmissionNext

LEMMA RecordBegins == SubmissionInit => Record!RecordInit
<1> SUFFICES ASSUME SubmissionInit PROVE Record!RecordInit
  OBVIOUS
<1>1. \A q \in Requests : CallOf(q) = "unsent"
  BY DEF SubmissionInit, NewRequest, CallOf
<1> QED
  BY <1>1 DEF SubmissionInit, Record!RecordInit, Calls

\* The statements of concurrent upserts of one session add up to a record that
\* takes one call at a time: one complete is told it was first, nothing is saved
\* over it, no visit is lost.
THEOREM SubmissionImplementsRecord == SubmissionSpec => ImplementsRecord
<1>1. SubmissionInv /\ [SubmissionNext]_subVars => [Record!RecordNext]_Record!recordVars
  <2> SUFFICES ASSUME SubmissionInv, [SubmissionNext]_subVars
               PROVE  Record!RecordNext \/ RecordStays
    BY DEF Record!recordVars, RecordStays
  <2> QED
    BY RecordStep DEF subVars
<1> QED
  BY <1>1, RecordBegins, SubmissionInductive, PTL
     DEF SubmissionSpec, ImplementsRecord, Record!RecordSpec
=============================================================================
