------------------------ MODULE SubmissionRefinement ------------------------
(***************************************************************************)
(* The statements of upsertSubmission implement SessionRecord.              *)
(***************************************************************************)
EXTENDS Submission

\* What came of the call of request q so far.
CallOf(q) ==
    CASE req[q].pc = "unsent" -> "unsent"
      [] req[q].pc \in {"select", "insert", "inserted", "raced", "update"} ->
            IF req[q].partial THEN "partial" ELSE "complete"
      [] OTHER -> IF q \in owner THEN "first"
                  ELSE IF ~req[q].partial /\ req[q].was THEN "again"
                  ELSE "over"

Calls == [q \in Requests |-> CallOf(q)]

Record == INSTANCE SessionRecord WITH
    Callers <- Requests,
    Nobody  <- NoRequest,
    state   <- row.state,
    answers <- row.data,
    visit   <- row.visit,
    first   <- owner \cup unheard,
    call    <- Calls

\* However the SELECTs, INSERTs and UPDATEs of a session's requests interleave,
\* each request takes effect in one of them as if it had run alone: one complete
\* is told it was first, no save follows it, no visit is lost.
ImplementsRecord == Record!RecordSpec
=============================================================================
