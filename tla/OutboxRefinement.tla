-------------------------- MODULE OutboxRefinement --------------------------
(***************************************************************************)
(* The queue and its workers implement DeliveryPromise.                     *)
(***************************************************************************)
EXTENDS Outbox

FateOf(status) ==
    CASE status = "none"    -> "none"
      [] status = "pending" -> "owed"
      [] status = "done"    -> "delivered"
      [] status = "failed"  -> "abandoned"
      [] status = "skipped" -> "declined"
      [] status = "deleted" -> "cancelled"

Promise == INSTANCE DeliveryPromise WITH
    Works    <- Rows,
    MaxTries <- MaxAttempts,
    fate     <- [r \in Rows |-> FateOf(queue[r].status)],
    tries    <- [r \in Rows |-> Cardinality(started[r])],
    copies   <- [r \in Rows |-> Cardinality(landed[r])]

\* Claims, leases, take-overs, retries and crashes of the queue add up to no
\* more than DeliveryPromise: bounded tries, at most one copy a try, a fate
\* that is final, "delivered" only after a copy landed, "declined" only after
\* a handler was asked.
ImplementsPromise == Promise!PromiseSpec

(***************************************************************************)
(* What the simulation needs of the histories, on top of OutboxInv.         *)
(***************************************************************************)

\* Only a begun effect lands, and begun ones carry tokens already issued.
RowHistory(r) ==
    /\ landed[r] \subseteq started[r]
    /\ started[r] \subseteq 0..issued[r]

\* A holder has not begun before it executes and not landed while it does,
\* and a handler that declines was asked.
JobHistory(w) ==
    LET j == job[w] IN
    /\ j.pc = "claimed" => j.token \notin started[j.row]
    /\ j.pc = "executing" => j.token \in started[j.row] \ landed[j.row]
    /\ j.pc = "markSkipped" => j.token \in started[j.row]

PromiseInv ==
    /\ OutboxInv
    /\ \A r \in Rows : RowHistory(r)
    /\ \A w \in Workers : JobHistory(w)
=============================================================================
