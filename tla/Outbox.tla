------------------------------- MODULE Outbox -------------------------------
(***************************************************************************)
(* The durable outbox: the queue of packages/db/src/outbox.ts and the       *)
(* workers of apps/api/src/outbox.worker.ts that drain it, one worker per   *)
(* API replica.                                                             *)
(*                                                                          *)
(* Every queue operation is ONE SQL statement and is one action here.       *)
(* Between two statements a worker holds only its own snapshot of the row   *)
(* it claimed (job[w]); the row itself may be reclaimed, settled or deleted *)
(* meanwhile.  A claim token (a fresh UUID in the code) is the ordinal of   *)
(* the claim of that row: issued[r] counts the claims ever made of r, so a  *)
(* new token is always new.                                                 *)
(*                                                                          *)
(* Time is relative: `wait` is next_attempt_at - now, `age` is              *)
(* now - claimed_at, both moved by Tick and clipped where the code can no   *)
(* longer tell two values apart.  A claim statement uses a clock the worker *)
(* read up to MaxLag ticks before the statement ran.                        *)
(***************************************************************************)
EXTENDS Integers, FiniteSets

CONSTANTS
    Rows,          \* the outbox rows that may ever be inserted
    Workers,       \* API replicas, each with one OutboxWorker
    NoRow,         \* the row of a worker that holds none
    MaxAttempts,   \* max_attempts of an enqueued row
    Stale,         \* DEFAULT_STALE_CLAIM_MS, in ticks
    BackoffCap,    \* the cap of backoffMs, in ticks (its base is one tick)
    Delays,        \* nextAttemptAt - now of an enqueue: 0, or a schedule
    MaxLag,        \* bound: age of the clock reading a claim statement uses
    MaxFaults      \* bound: crashes, failed statements and stalls

ASSUME OutboxAssumption ==
    /\ NoRow \notin Rows
    /\ MaxAttempts \in Nat \ {0}
    /\ Stale \in Nat \ {0}
    /\ BackoffCap \in Nat \ {0}
    /\ Delays \subseteq Nat
    /\ MaxLag \in Nat
    /\ MaxFaults \in Nat

VARIABLES
    queue,    \* the outbox table: one record per row
    job,      \* what each worker holds between two statements
    issued,   \* claim tokens issued per row
    started,  \* history: the tokens whose holder began the side effect
    landed,   \* history: the tokens whose side effect reached its receiver
    faults    \* faults spent so far

vars == <<queue, job, issued, started, landed, faults>>

NoToken == 0
Settled == {"done", "failed", "skipped"}
Statuses == Settled \cup {"none", "pending", "deleted"}
Marks == {"markDone", "markSkipped", "markRetry", "markFailed"}
Steps == Marks \cup {"idle", "claimed", "executing"}

Row == [status : Statuses, attempts : Nat, wait : Int, claimedBy : Nat, age : Nat]
Job == [pc : Steps, row : Rows \cup {NoRow}, token : Nat, attempts : Nat, age : Nat]

Least(a, b) == IF a <= b THEN a ELSE b
Greatest(a, b) == IF a >= b THEN a ELSE b

\* A row no worker has claimed.
NewRow(status, attempts, wait) ==
    [status |-> status, attempts |-> attempts, wait |-> wait, claimedBy |-> NoToken, age |-> 0]
Idle == [pc |-> "idle", row |-> NoRow, token |-> NoToken, attempts |-> 0, age |-> 0]

Init ==
    /\ queue = [r \in Rows |-> NewRow("none", 0, 0)]
    /\ job = [w \in Workers |-> Idle]
    /\ issued = [r \in Rows |-> 0]
    /\ started = [r \in Rows |-> {}]
    /\ landed = [r \in Rows |-> {}]
    /\ faults = 0

(***************************************************************************)
(* The queue's producers.                                                   *)
(***************************************************************************)

\* enqueueOutbox: a pending row, due now or at a scheduled time.
EnqueueOutbox(r, delay) ==
    /\ queue[r].status = "none"
    /\ queue' = [queue EXCEPT ![r] = NewRow("pending", 0, delay)]
    /\ UNCHANGED <<job, issued, started, landed, faults>>

\* recordSettledDelivery: a delivery that already happened outside the queue,
\* inserted terminal.  Its one attempt carries no claim token.
RecordSettledDelivery(r, status) ==
    /\ queue[r].status = "none"
    /\ queue' = [queue EXCEPT ![r] = NewRow(status, IF status = "skipped" THEN 0 ELSE 1, 0)]
    /\ started' = [started EXCEPT ![r] = IF status = "skipped" THEN {} ELSE {NoToken}]
    /\ landed' = [landed EXCEPT ![r] = IF status = "done" THEN {NoToken} ELSE {}]
    /\ UNCHANGED <<job, issued, faults>>

\* deletePendingOutbox looks at the status only: a claimed row, whose effect
\* may be under way, is still 'pending' and is deleted like any other.
DeletePendingOutbox(r) ==
    /\ queue[r].status = "pending"
    /\ queue' = [queue EXCEPT ![r] = NewRow("deleted", 0, 0)]
    /\ UNCHANGED <<job, issued, started, landed, faults>>

(***************************************************************************)
(* Claiming.                                                                *)
(***************************************************************************)

\* Mutants: the lease ignored; a crashed worker's rows never taken back.
ClaimableIgnoringLease(r, lag) ==
    /\ queue[r].status = "pending"
    /\ queue[r].wait + lag <= 0

ClaimableUnclaimedOnly(r, lag) ==
    /\ queue[r].status = "pending"
    /\ queue[r].wait + lag <= 0
    /\ queue[r].claimedBy = NoToken
\* The claimable predicate, at the clock reading now - lag.
Claimable(r, lag) ==
    /\ queue[r].status = "pending"
    /\ queue[r].wait + lag <= 0
    /\ \/ queue[r].claimedBy = NoToken
       \/ queue[r].age - lag >= Stale

\* Mutant: the lapsed generation is not counted.
ClaimedAttemptsUncounted(r) == queue[r].attempts

\* attempts as the claim statement leaves it: taking over a stale claim
\* counts the lapsed generation as an attempt.
ClaimedAttempts(r) ==
    IF queue[r].claimedBy = NoToken THEN queue[r].attempts ELSE queue[r].attempts + 1

\* claimDueOutbox with limit 1.  Which due row comes first is left open: SKIP
\* LOCKED already lets a later row be claimed before an earlier one.
ClaimDueOutbox(w, r, lag) ==
    /\ job[w].pc = "idle"
    /\ Claimable(r, lag)
    /\ issued' = [issued EXCEPT ![r] = @ + 1]
    /\ queue' = [queue EXCEPT ![r] = [queue[r] EXCEPT !.attempts = ClaimedAttempts(r),
                                                      !.claimedBy = issued[r] + 1,
                                                      !.age = lag]]
    /\ job' = [job EXCEPT ![w] = [pc |-> "claimed", row |-> r, token |-> issued[r] + 1,
                                  attempts |-> ClaimedAttempts(r), age |-> lag]]
    /\ UNCHANGED <<started, landed, faults>>

(***************************************************************************)
(* process(row): the checks before the effect, the effect, its outcomes.    *)
(***************************************************************************)

\* The claim came back too late to act on: the row stays claimed.
AbandonLapsedClaim(w) ==
    /\ job[w].pc = "claimed"
    /\ job[w].age >= Stale
    /\ job' = [job EXCEPT ![w] = Idle]
    /\ UNCHANGED <<queue, issued, started, landed, faults>>

\* Lapsed generations used up the attempts: fail the row without executing.
OutOfAttempts(w) ==
    /\ job[w].pc = "claimed"
    /\ job[w].age < Stale
    /\ job[w].attempts >= MaxAttempts
    /\ job' = [job EXCEPT ![w].pc = "markFailed"]
    /\ UNCHANGED <<queue, issued, started, landed, faults>>

\* Mutant: the attempts check before the effect is dropped.
StartEffectUnchecked(w) ==
    /\ job[w].pc = "claimed"
    /\ job[w].age < Stale
    /\ job' = [job EXCEPT ![w].pc = "executing"]
    /\ started' = [started EXCEPT ![job[w].row] = @ \cup {job[w].token}]
    /\ UNCHANGED <<queue, issued, landed, faults>>

StartEffect(w) ==
    /\ job[w].pc = "claimed"
    /\ job[w].age < Stale
    /\ job[w].attempts < MaxAttempts
    /\ job' = [job EXCEPT ![w].pc = "executing"]
    /\ started' = [started EXCEPT ![job[w].row] = @ \cup {job[w].token}]
    /\ UNCHANGED <<queue, issued, landed, faults>>

\* Mutant: gives up one attempt early.
AfterFailureEarly(j) ==
    [j EXCEPT !.attempts = j.attempts + 1,
              !.pc = IF j.attempts + 2 >= MaxAttempts THEN "markFailed" ELSE "markRetry"]

\* The catch branch of process: one more attempt, and the last one gives up.
AfterFailure(j) ==
    [j EXCEPT !.attempts = j.attempts + 1,
              !.pc = IF j.attempts + 1 >= MaxAttempts THEN "markFailed" ELSE "markRetry"]

EffectSucceeds(w) ==
    /\ job[w].pc = "executing"
    /\ landed' = [landed EXCEPT ![job[w].row] = @ \cup {job[w].token}]
    /\ job' = [job EXCEPT ![w].pc = "markDone"]
    /\ UNCHANGED <<queue, issued, started, faults>>

EffectSkips(w) ==
    /\ job[w].pc = "executing"
    /\ job' = [job EXCEPT ![w].pc = "markSkipped"]
    /\ UNCHANGED <<queue, issued, started, landed, faults>>

\* A thrown effect: refused, or accepted with the answer lost (a timeout).
EffectThrows(w) ==
    /\ job[w].pc = "executing"
    /\ job' = [job EXCEPT ![w] = AfterFailure(@)]
    /\ \/ landed' = landed
       \/ landed' = [landed EXCEPT ![job[w].row] = @ \cup {job[w].token}]
    /\ UNCHANGED <<queue, issued, started, faults>>

(***************************************************************************)
(* Settlement.                                                              *)
(***************************************************************************)

\* Mutants: the fence without its token, and without its status.
FenceWithoutToken(j) == queue[j.row].status = "pending"
FenceWithoutStatus(j) == queue[j.row].claimedBy = j.token

\* claimedPendingWhere: the fence of every settlement statement.
ClaimedPendingWhere(j) ==
    /\ queue[j.row].status = "pending"
    /\ queue[j.row].claimedBy = j.token

\* backoffMs(attempts), in ticks.
Backoff(attempts) == Least(BackoffCap, 2 ^ Greatest(0, attempts - 1))

\* The row as the settlement statement of job j leaves it.  Only a retry
\* clears the claim; a terminal row keeps the token that settled it.
SettledRow(j) ==
    LET q == queue[j.row] IN
    CASE j.pc = "markDone"    -> [q EXCEPT !.status = "done"]
      [] j.pc = "markSkipped" -> [q EXCEPT !.status = "skipped"]
      [] j.pc = "markFailed"  -> [q EXCEPT !.status = "failed", !.attempts = j.attempts]
      [] OTHER -> [q EXCEPT !.attempts = j.attempts, !.wait = Backoff(j.attempts),
                            !.claimedBy = NoToken, !.age = 0]

\* markOutboxDone / Skipped / Failed / Retry: no effect on a lost lease.
SettleStatement(j) ==
    queue' = IF ClaimedPendingWhere(j) THEN [queue EXCEPT ![j.row] = SettledRow(j)] ELSE queue

Settle(w) ==
    /\ job[w].pc \in Marks
    /\ SettleStatement(job[w])
    /\ job' = [job EXCEPT ![w] = Idle]
    /\ UNCHANGED <<issued, started, landed, faults>>

(***************************************************************************)
(* Faults and time.                                                         *)
(***************************************************************************)

SpendFault ==
    /\ faults < MaxFaults
    /\ faults' = faults + 1

\* A settlement statement rejects, with or without having committed.  Done
\* sits inside the try block, so its error is handled as a failed effect; any
\* other error leaves process and drainOnce and ends the tick.
SettleThrows(w) ==
    /\ job[w].pc \in Marks
    /\ SpendFault
    /\ \/ SettleStatement(job[w])
       \/ queue' = queue
    /\ job' = [job EXCEPT ![w] = IF job[w].pc = "markDone" THEN AfterFailure(job[w]) ELSE Idle]
    /\ UNCHANGED <<issued, started, landed>>

\* The replica dies and restarts: only the database survives.  Right after a
\* claim this is also a claim statement that committed without being answered.
Crash(w) ==
    /\ job[w].pc # "idle"
    /\ SpendFault
    /\ job' = [job EXCEPT ![w] = Idle]
    /\ UNCHANGED <<queue, issued, started, landed>>

\* A worker waiting for the database, not for the effect.
AtDatabase(w) == job[w].pc \in Marks \cup {"claimed"}

Older(age) == Least(age + 1, Stale + MaxLag)

OlderRow(q) ==
    IF q.status # "pending" THEN q
    ELSE [q EXCEPT !.wait = Greatest(q.wait - 1, -MaxLag),
                   !.age = IF q.claimedBy = NoToken THEN q.age ELSE Older(q.age)]

OlderJob(j) == IF j.pc = "idle" THEN j ELSE [j EXCEPT !.age = Older(j.age)]

\* One tick.  Statements take a small fraction of a tick: a tick that passes
\* while one is outstanding is a stall, and a fault.  An effect may take any
\* number of ticks.
Tick ==
    /\ IF \E w \in Workers : AtDatabase(w) THEN SpendFault ELSE UNCHANGED faults
    /\ queue' = [r \in Rows |-> OlderRow(queue[r])]
    /\ job' = [w \in Workers |-> OlderJob(job[w])]
    /\ UNCHANGED <<issued, started, landed>>

Produce(r) ==
    \/ \E delay \in Delays : EnqueueOutbox(r, delay)
    \/ \E status \in Settled : RecordSettledDelivery(r, status)
    \/ DeletePendingOutbox(r)

Claim(w) == \E r \in Rows, lag \in 0..MaxLag : ClaimDueOutbox(w, r, lag)

Process(w) ==
    \/ AbandonLapsedClaim(w)
    \/ OutOfAttempts(w)
    \/ StartEffect(w)
    \/ EffectSucceeds(w)
    \/ EffectSkips(w)
    \/ EffectThrows(w)
    \/ Settle(w)

Next ==
    \/ \E r \in Rows : Produce(r)
    \/ \E w \in Workers : Claim(w) \/ Process(w) \/ SettleThrows(w) \/ Crash(w)
    \/ Tick

Spec == Init /\ [][Next]_vars

\* The poll timer keeps firing, an effect ends (every adapter's request does,
\* at the latest by the HTTP client's own limit), time passes.  Nothing makes
\* a producer act and nothing makes a fault happen.
Fairness ==
    /\ \A w \in Workers : WF_vars(Claim(w)) /\ WF_vars(Process(w))
    /\ WF_vars(Tick)

FairSpec == Spec /\ Fairness

(***************************************************************************)
(* Correctness.                                                             *)
(***************************************************************************)

TypeOK ==
    /\ queue \in [Rows -> Row]
    /\ job \in [Workers -> Job]
    /\ \A w \in Workers : job[w].pc # "idle" => job[w].row \in Rows
    /\ issued \in [Rows -> Nat]
    /\ started \in [Rows -> SUBSET Nat]
    /\ landed \in [Rows -> SUBSET Nat]
    /\ faults \in 0..MaxFaults

\* A row marked done carries the claim token of a generation whose own side
\* effect reached the receiver: no worker can report a delivery for a
\* generation that has not made it.
DoneMeansLanded ==
    \A r \in Rows : queue[r].status = "done" => queue[r].claimedBy \in landed[r]

\* However often a row is claimed, lapses, is taken over or retried, by
\* however many replicas, its side effect is begun at most MaxAttempts times.
AtMostMaxAttempts ==
    \A r \in Rows : started[r] \subseteq 0..MaxAttempts /\ Cardinality(started[r]) <= MaxAttempts

\* Two workers hold the same row only when the older claim has outlived its
\* lease on its holder's own clock: nobody takes a row from a live lease.
\* (Clocks may be read late here, but no replica's runs ahead of another's.)
OneLiveLease ==
    \A v, w \in Workers :
        /\ job[v].pc # "idle"
        /\ job[w].pc # "idle"
        /\ v # w
        /\ job[v].row = job[w].row
        => /\ job[v].token # job[w].token
           /\ job[v].token < job[w].token => job[v].age >= Stale

\* The queue gives a row up only after counting MaxAttempts attempts, failed
\* or lapsed, never because one worker's stale count says so.
FailedMeansExhausted ==
    \A r \in Rows :
        queue[r].status = "failed" /\ issued[r] > 0 => queue[r].attempts >= MaxAttempts

\* A settled or deleted row is never touched again, whatever late settlement,
\* retried statement or reclaim is still on its way.
TerminalIsFinal ==
    [][\A r \in Rows : queue[r].status \in Settled \cup {"deleted"} => queue'[r] = queue[r]]_vars

\* The attempts count of a live row never goes back: a worker that lost its
\* lease cannot write its older count over the newer one.
AttemptsNeverDrop ==
    [][\A r \in Rows :
        queue'[r].status # "deleted" => queue'[r].attempts >= queue[r].attempts]_vars

\* No silent loss: once enqueued, a row ends done, failed or skipped, or is
\* deliberately deleted, in spite of crashes, lost statements and lapses.
EveryRowSettles ==
    \A r \in Rows : queue[r].status = "pending" ~> queue[r].status # "pending"

(***************************************************************************)
(* The inductive invariant behind the properties above.                     *)
(***************************************************************************)

\* A row: every claim but the current one has been counted as an attempt.
RowInv(r) ==
    /\ queue[r].status = "none" =>
          issued[r] = 0 /\ started[r] = {} /\ queue[r].attempts = 0
    /\ queue[r].status = "pending" =>
          issued[r] <= queue[r].attempts + (IF queue[r].claimedBy = NoToken THEN 0 ELSE 1)
    /\ queue[r].status = "done" => queue[r].claimedBy \in landed[r]
    /\ queue[r].status = "failed" /\ issued[r] > 0 => queue[r].attempts >= MaxAttempts
    /\ \/ started[r] \subseteq 1..MaxAttempts
       \/ started[r] \subseteq {NoToken} /\ issued[r] = 0 /\ queue[r].status \in Settled

\* The attempts of a job whose claim still holds, against those of its row.
CountAgrees(j, q) ==
    /\ j.pc \in {"claimed", "executing", "markDone", "markSkipped"} => j.attempts = q.attempts
    /\ j.pc = "markRetry" => j.attempts = q.attempts + 1
    /\ j.pc = "markFailed" => j.attempts >= q.attempts

\* A busy worker: its token is one of the row's; if it is the latest one and
\* the row is live, the claim is still its own and ages with the row; if it
\* is not, its lease is over.
JobInv(w) ==
    LET j == job[w]
        q == queue[j.row]
    IN  j.pc # "idle" =>
        /\ j.token \in 1..issued[j.row]
        /\ j.token <= j.attempts + 1
        /\ q.status = "pending" /\ j.token = issued[j.row] => q.claimedBy = j.token /\ q.age = j.age
        /\ q.status = "pending" /\ q.claimedBy = j.token => CountAgrees(j, q)
        /\ j.token < issued[j.row] => j.age >= Stale
        /\ j.pc = "markDone" => j.token \in landed[j.row]
        /\ j.pc = "markFailed" => j.attempts >= MaxAttempts

TokensDiffer ==
    \A v, w \in Workers :
        v # w /\ job[v].pc # "idle" /\ job[w].pc # "idle" /\ job[v].row = job[w].row
        => job[v].token # job[w].token

OutboxInv ==
    /\ TypeOK
    /\ \A r \in Rows : RowInv(r)
    /\ \A w \in Workers : JobInv(w)
    /\ TokensDiffer
=============================================================================
