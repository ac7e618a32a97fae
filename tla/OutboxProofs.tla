---------------------------- MODULE OutboxProofs ----------------------------
(***************************************************************************)
(* The outbox is type correct and keeps OutboxInv for every set of rows and *)
(* workers and every value of the other constants.  From OutboxInv follow   *)
(* its safety properties, which TLC checks on small instances.              *)
(***************************************************************************)
EXTENDS OutboxRefinement, FiniteSetTheorems, TLAPS

(***************************************************************************)
(* Arithmetic of the time abstraction.                                      *)
(***************************************************************************)

\* A power of two is a natural number: it counts the subsets of 1..k.
LEMMA PowerOfTwoType == ASSUME NEW k \in Nat PROVE 2 ^ k \in Nat
<1>1. IsFiniteSet(1..k) /\ Cardinality(1..k) = k
  BY FS_Interval
<1>2. IsFiniteSet(SUBSET (1..k)) /\ Cardinality(SUBSET (1..k)) = 2 ^ k
  BY <1>1, FS_SUBSET
<1> QED
  BY <1>2, FS_CardinalityType

\* backoffMs yields a number of ticks.
LEMMA BackoffType == ASSUME NEW n \in Nat PROVE Backoff(n) \in Nat
<1>1. Greatest(0, n - 1) \in Nat
  BY DEF Greatest
<1>2. 2 ^ Greatest(0, n - 1) \in Nat
  BY <1>1, PowerOfTwoType
<1> QED
  BY <1>2, OutboxAssumption DEF Backoff, Least

\* Ageing keeps an age a natural number, and an outlived lease outlived.
LEMMA OlderFacts ==
    ASSUME NEW a \in Nat
    PROVE  Older(a) \in Nat /\ (a >= Stale => Older(a) >= Stale)
  BY OutboxAssumption DEF Older, Least

(***************************************************************************)
(* Type correctness, one lemma per group of actions.                        *)
(***************************************************************************)

LEMMA InitTypeOK == Init => TypeOK
  BY OutboxAssumption
     DEF Init, TypeOK, Row, Job, NewRow, Idle, Statuses, Settled, Steps, Marks, NoToken

LEMMA ProduceTypeOK == ASSUME TypeOK, NEW r \in Rows, Produce(r) PROVE TypeOK'
<1> USE OutboxAssumption
       DEF TypeOK, Row, Job, NewRow, Statuses, Settled, NoToken
<1>1. ASSUME NEW delay \in Delays, EnqueueOutbox(r, delay) PROVE TypeOK'
  BY <1>1 DEF EnqueueOutbox
<1>2. ASSUME NEW status \in Settled, RecordSettledDelivery(r, status) PROVE TypeOK'
  BY <1>2 DEF RecordSettledDelivery
<1>3. CASE DeletePendingOutbox(r)
  BY <1>3 DEF DeletePendingOutbox
<1> QED
  BY <1>1, <1>2, <1>3 DEF Produce

LEMMA ClaimTypeOK ==
    ASSUME TypeOK, NEW w \in Workers, NEW r \in Rows, NEW lag \in 0..MaxLag,
           ClaimDueOutbox(w, r, lag)
    PROVE  TypeOK'
<1>1. ClaimedAttempts(r) \in Nat /\ issued[r] + 1 \in Nat /\ lag \in Nat
  BY OutboxAssumption DEF ClaimedAttempts, TypeOK, Row
<1>2. queue[r] \in Row
  BY DEF TypeOK
<1>3. [queue[r] EXCEPT !.attempts = ClaimedAttempts(r),
                       !.claimedBy = issued[r] + 1,
                       !.age = lag] \in Row
  BY <1>1, <1>2 DEF Row
<1> QED
  BY <1>1, <1>3 DEF ClaimDueOutbox, TypeOK, Job, Steps

\* What a settlement statement writes is a row again.
LEMMA SettledRowType ==
    ASSUME TypeOK, NEW w \in Workers, job[w].pc \in Marks
    PROVE  SettledRow(job[w]) \in Row
<1>1. job[w] \in Job /\ job[w].attempts \in Nat /\ job[w].row \in Rows
  BY DEF TypeOK, Job, Marks
<1>2. queue[job[w].row] \in Row /\ Backoff(job[w].attempts) \in Int
  BY <1>1, BackoffType DEF TypeOK
<1> QED
  BY <1>1, <1>2 DEF SettledRow, Row, Statuses, Settled, NoToken, Marks

LEMMA SettleStatementTypeOK ==
    ASSUME TypeOK, NEW w \in Workers, job[w].pc \in Marks, SettleStatement(job[w])
    PROVE  queue' \in [Rows -> Row]
  BY SettledRowType DEF SettleStatement, TypeOK

LEMMA AfterFailureType ==
    ASSUME NEW j \in Job PROVE AfterFailure(j) \in Job /\ AfterFailure(j).row = j.row
<1>1. (IF j.attempts + 1 >= MaxAttempts THEN "markFailed" ELSE "markRetry") \in Steps
  BY DEF Steps, Marks
<1>2. j.attempts + 1 \in Nat
  BY DEF Job
<1> QED
  BY <1>1, <1>2 DEF AfterFailure, Job

LEMMA ProcessTypeOK == ASSUME TypeOK, NEW w \in Workers, Process(w) PROVE TypeOK'
<1>0. job[w] \in Job /\ Idle \in Job /\ (job[w].pc # "idle" => job[w].row \in Rows)
  BY OutboxAssumption DEF TypeOK, Idle, Job, Steps, NoToken
<1> USE <1>0 DEF TypeOK
<1>1. CASE AbandonLapsedClaim(w)
  BY <1>1 DEF AbandonLapsedClaim, Idle
<1>2. CASE OutOfAttempts(w)
  BY <1>2 DEF OutOfAttempts, Job, Steps, Marks
<1>3. CASE StartEffect(w)
  BY <1>3 DEF StartEffect, Job, Steps
<1>4. CASE EffectSucceeds(w)
  BY <1>4 DEF EffectSucceeds, Job, Steps, Marks
<1>5. CASE EffectSkips(w)
  BY <1>5 DEF EffectSkips, Job, Steps, Marks
<1>6. CASE EffectThrows(w)
  <2>1. AfterFailure(job[w]) \in Job /\ AfterFailure(job[w]).row \in Rows
    BY <1>6, AfterFailureType DEF EffectThrows
  <2>2. landed' \in [Rows -> SUBSET Nat]
    BY <1>6 DEF EffectThrows, Job
  <2> QED
    BY <1>6, <2>1, <2>2 DEF EffectThrows
<1>7. CASE Settle(w)
  BY <1>7, SettleStatementTypeOK DEF Settle, Idle
<1> QED
  BY <1>1, <1>2, <1>3, <1>4, <1>5, <1>6, <1>7 DEF Process

LEMMA FaultTypeOK ==
    ASSUME TypeOK, NEW w \in Workers, SettleThrows(w) \/ Crash(w) PROVE TypeOK'
<1>0. job[w] \in Job /\ Idle \in Job /\ (job[w].pc # "idle" => job[w].row \in Rows)
  BY OutboxAssumption DEF TypeOK, Idle, Job, Steps, NoToken
<1>1. SpendFault => faults' \in 0..MaxFaults
  BY OutboxAssumption DEF SpendFault, TypeOK
<1>2. CASE SettleThrows(w)
  <2>1. AfterFailure(job[w]) \in Job /\ AfterFailure(job[w]).row \in Rows
    BY <1>0, <1>2, AfterFailureType DEF SettleThrows, Marks
  <2>2. queue' \in [Rows -> Row]
    BY <1>2, SettleStatementTypeOK DEF SettleThrows, TypeOK
  <2> QED
    BY <1>0, <1>1, <1>2, <2>1, <2>2 DEF SettleThrows, TypeOK, Idle
<1>3. CASE Crash(w)
  BY <1>0, <1>1, <1>3 DEF Crash, TypeOK, Idle
<1> QED
  BY <1>2, <1>3

LEMMA TickTypeOK == ASSUME TypeOK, Tick PROVE TypeOK'
<1>1. \A r \in Rows : OlderRow(queue[r]) \in Row
  <2> TAKE r \in Rows
  <2>1. queue[r] \in Row
    BY DEF TypeOK
  <2>2. /\ Greatest(queue[r].wait - 1, -MaxLag) \in Int
        /\ (IF queue[r].claimedBy = NoToken THEN queue[r].age ELSE Older(queue[r].age)) \in Nat
    BY <2>1, OlderFacts, OutboxAssumption DEF Row, Greatest
  <2> QED
    BY <2>1, <2>2 DEF OlderRow, Row
<1>2. \A w \in Workers : OlderJob(job[w]) \in Job /\ OlderJob(job[w]).row = job[w].row
                         /\ OlderJob(job[w]).pc = job[w].pc
  BY OlderFacts DEF TypeOK, OlderJob, Job
<1>3. faults' \in 0..MaxFaults
  BY OutboxAssumption DEF Tick, SpendFault, TypeOK
<1> QED
  BY <1>1, <1>2, <1>3 DEF Tick, TypeOK

LEMMA NextTypeOK == TypeOK /\ [Next]_vars => TypeOK'
<1> SUFFICES ASSUME TypeOK, [Next]_vars PROVE TypeOK'
  OBVIOUS
<1>1. CASE UNCHANGED vars
  BY <1>1 DEF vars, TypeOK
<1>2. ASSUME NEW w \in Workers, Claim(w) PROVE TypeOK'
  BY <1>2, ClaimTypeOK DEF Claim
<1> QED
  BY <1>1, <1>2, ProduceTypeOK, ProcessTypeOK, FaultTypeOK, TickTypeOK DEF Next

\* The tables and the workers always hold what the code lets them hold: rows
\* of the outbox schema, jobs of a row that exists.
THEOREM OutboxTypeCorrect == Spec => []TypeOK
  BY InitTypeOK, NextTypeOK, PTL DEF Spec

(***************************************************************************)
(* What the statements that write several columns leave in the row.         *)
(***************************************************************************)

LEMMA ClaimedRowFields ==
    ASSUME NEW q \in Row, NEW a \in Nat, NEW t \in Nat, NEW g \in Nat
    PROVE  LET c == [q EXCEPT !.attempts = a, !.claimedBy = t, !.age = g]
           IN  c.status = q.status /\ c.attempts = a /\ c.claimedBy = t /\ c.age = g
  BY DEF Row

LEMMA SettledRowFields ==
    ASSUME NEW j \in Job, j.row \in Rows, j.pc \in Marks, queue[j.row] \in Row,
           NEW s, s = SettledRow(j)
    PROVE  /\ j.pc = "markDone" => s.status = "done" /\ s.claimedBy = queue[j.row].claimedBy
           /\ j.pc = "markSkipped" => s.status = "skipped"
           /\ j.pc = "markFailed" => s.status = "failed" /\ s.attempts = j.attempts
           /\ j.pc = "markRetry" =>
                 /\ s.status = queue[j.row].status
                 /\ s.attempts = j.attempts
                 /\ s.claimedBy = NoToken
<1>1. Backoff(j.attempts) \in Nat
  BY BackoffType DEF Job
<1>2. CASE j.pc = "markDone"
  BY <1>2 DEF SettledRow, Row
<1>3. CASE j.pc = "markSkipped"
  BY <1>3 DEF SettledRow, Row
<1>4. CASE j.pc = "markFailed"
  BY <1>4 DEF SettledRow, Row
<1>5. CASE j.pc = "markRetry"
  <2>1. s = [queue[j.row] EXCEPT !.attempts = j.attempts, !.wait = Backoff(j.attempts),
                                 !.claimedBy = NoToken, !.age = 0]
    BY <1>5 DEF SettledRow
  <2> QED
    BY <1>5, <2>1 DEF Row
<1> QED
  BY <1>2, <1>3, <1>4, <1>5 DEF Marks

LEMMA AfterFailureFields ==
    ASSUME NEW j \in Job
    PROVE  LET f == AfterFailure(j) IN
           /\ f.row = j.row /\ f.token = j.token /\ f.age = j.age
           /\ f.attempts = j.attempts + 1
           /\ f.pc = IF j.attempts + 1 >= MaxAttempts THEN "markFailed" ELSE "markRetry"
<1>1. j.attempts + 1 \in Nat
  BY DEF Job
<1> QED
  BY <1>1 DEF AfterFailure, Job

LEMMA OlderRowFields ==
    ASSUME NEW q \in Row
    PROVE  LET o == OlderRow(q) IN
           /\ o.status = q.status /\ o.attempts = q.attempts /\ o.claimedBy = q.claimedBy
           /\ q.status = "pending" /\ q.claimedBy # NoToken => o.age = Older(q.age)
  BY DEF OlderRow, Row

(***************************************************************************)
(* OutboxInv is inductive, one lemma per group of actions.                  *)
(***************************************************************************)

LEMMA InitOutboxInv == Init => OutboxInv
<1> SUFFICES ASSUME Init PROVE OutboxInv
  OBVIOUS
<1>1. TypeOK
  BY InitTypeOK
<1> QED
  BY <1>1 DEF Init, OutboxInv, RowInv, JobInv, TokensDiffer, NewRow, Idle, NoToken

LEMMA ProduceInv == ASSUME OutboxInv, NEW r \in Rows, Produce(r) PROVE OutboxInv'
<1> USE DEF NewRow, NoToken
<1>0. TypeOK /\ TypeOK'
  BY ProduceTypeOK DEF OutboxInv
<1>1. UNCHANGED <<job, issued>>
      /\ \A s \in Rows \ {r} : UNCHANGED <<queue[s], started[s], landed[s]>>
  BY <1>0 DEF Produce, EnqueueOutbox, RecordSettledDelivery, DeletePendingOutbox, TypeOK
<1>2. queue[r].status = "none" => \A w \in Workers : job[w].pc = "idle" \/ job[w].row # r
  BY <1>0 DEF OutboxInv, RowInv, JobInv, TypeOK, Job
<1>3. RowInv(r)'
  <2>1. ASSUME NEW delay \in Delays, EnqueueOutbox(r, delay) PROVE RowInv(r)'
    BY <1>0, <2>1, OutboxAssumption
       DEF EnqueueOutbox, OutboxInv, RowInv, TypeOK, Settled
  <2>2. ASSUME NEW status \in Settled, RecordSettledDelivery(r, status) PROVE RowInv(r)'
    BY <1>0, <2>2 DEF RecordSettledDelivery, OutboxInv, RowInv, TypeOK, Settled
  <2>3. CASE DeletePendingOutbox(r)
    BY <1>0, <2>3 DEF DeletePendingOutbox, OutboxInv, RowInv, TypeOK, Settled
  <2> QED
    BY <2>1, <2>2, <2>3 DEF Produce
<1>4. \A s \in Rows \ {r} : RowInv(s)'
  BY <1>1 DEF OutboxInv, RowInv
<1>5. ASSUME NEW w \in Workers PROVE JobInv(w)'
  <2>1. CASE job[w].pc = "idle" \/ job[w].row # r
    BY <1>0, <1>1, <2>1 DEF OutboxInv, JobInv, CountAgrees, TypeOK
  <2>2. CASE job[w].pc # "idle" /\ job[w].row = r
    <3>1. DeletePendingOutbox(r)
      BY <1>2, <2>2 DEF Produce, EnqueueOutbox, RecordSettledDelivery
    <3>2. queue'[r].status = "deleted" /\ landed' = landed
      BY <1>0, <3>1 DEF DeletePendingOutbox, TypeOK
    <3> QED
      BY <1>1, <2>2, <3>2 DEF OutboxInv, JobInv
  <2> QED
    BY <2>1, <2>2
<1>6. TokensDiffer'
  BY <1>1 DEF OutboxInv, TokensDiffer
<1> QED
  BY <1>0, <1>3, <1>4, <1>5, <1>6 DEF OutboxInv

LEMMA ClaimInv ==
    ASSUME OutboxInv, NEW w \in Workers, NEW r \in Rows, NEW lag \in 0..MaxLag,
           ClaimDueOutbox(w, r, lag)
    PROVE  OutboxInv'
<1>0. TypeOK /\ TypeOK' /\ lag \in Nat
  BY ClaimTypeOK, OutboxAssumption DEF OutboxInv
<1>1. queue[r] \in Row /\ queue[r].attempts \in Nat /\ queue[r].claimedBy \in Nat
      /\ queue[r].age \in Nat /\ issued[r] \in Nat /\ ClaimedAttempts(r) \in Nat
  BY <1>0 DEF TypeOK, Row, ClaimedAttempts
<1>2. /\ queue'[r].status = "pending"
      /\ queue'[r].attempts = ClaimedAttempts(r)
      /\ queue'[r].claimedBy = issued[r] + 1
      /\ queue'[r].age = lag
      /\ issued'[r] = issued[r] + 1
      /\ \A s \in Rows \ {r} : UNCHANGED <<queue[s], issued[s]>>
  <2>1. queue'[r] = [queue[r] EXCEPT !.attempts = ClaimedAttempts(r),
                                     !.claimedBy = issued[r] + 1,
                                     !.age = lag]
    BY <1>0 DEF ClaimDueOutbox, TypeOK
  <2>2. issued[r] + 1 \in Nat
    BY <1>1
  <2>3. queue[r].status = "pending"
    BY DEF ClaimDueOutbox, Claimable
  <2>4. /\ issued'[r] = issued[r] + 1
        /\ \A s \in Rows \ {r} : UNCHANGED <<queue[s], issued[s]>>
    BY <1>0 DEF ClaimDueOutbox, TypeOK
  <2> QED
    BY <1>0, <1>1, <2>1, <2>2, <2>3, <2>4, ClaimedRowFields
<1>3. /\ job'[w] = [pc |-> "claimed", row |-> r, token |-> issued[r] + 1,
                    attempts |-> ClaimedAttempts(r), age |-> lag]
      /\ \A v \in Workers \ {w} : job'[v] = job[v]
      /\ UNCHANGED <<started, landed>>
  BY <1>0 DEF ClaimDueOutbox, TypeOK
<1>4. queue[r].status = "pending" /\ issued[r] <= ClaimedAttempts(r)
  BY <1>1 DEF ClaimDueOutbox, Claimable, ClaimedAttempts, OutboxInv, RowInv
<1>5. RowInv(r)'
  BY <1>1, <1>2, <1>3, <1>4 DEF OutboxInv, RowInv, Settled, NoToken
<1>6. \A s \in Rows \ {r} : RowInv(s)'
  BY <1>2, <1>3 DEF OutboxInv, RowInv
<1>7. JobInv(w)'
  BY <1>1, <1>2, <1>3, <1>4 DEF JobInv, CountAgrees
<1>8. ASSUME NEW v \in Workers \ {w}, job[v].pc # "idle", job[v].row = r
      PROVE  job[v].token \in 1..issued[r] /\ job[v].age >= Stale
  <2>1. job[v] \in Job /\ JobInv(v)
    BY <1>0 DEF TypeOK, OutboxInv
  <2>2. job[v].token \in 1..issued[r] /\ (job[v].token < issued[r] => job[v].age >= Stale)
    BY <1>8, <2>1 DEF JobInv
  <2>3. job[v].token = issued[r] => job[v].age >= Stale
    BY <1>0, <1>1, <1>4, <1>8, <2>1, <2>2, OutboxAssumption
       DEF JobInv, ClaimDueOutbox, Claimable, NoToken
  <2> QED
    BY <1>1, <2>2, <2>3
<1>9. ASSUME NEW v \in Workers \ {w} PROVE JobInv(v)'
  <2>1. CASE job[v].pc = "idle" \/ job[v].row # r
    BY <1>0, <1>2, <1>3, <2>1 DEF OutboxInv, JobInv, CountAgrees, TypeOK
  <2>2. CASE job[v].pc # "idle" /\ job[v].row = r
    BY <1>1, <1>2, <1>3, <1>8, <2>2 DEF OutboxInv, JobInv
  <2> QED
    BY <2>1, <2>2
<1>10. TokensDiffer'
  BY <1>1, <1>3, <1>8 DEF OutboxInv, TokensDiffer
<1> QED
  BY <1>0, <1>5, <1>6, <1>7, <1>9, <1>10 DEF OutboxInv

\* Steps that only let a worker go: its claim stays with the row.
LEMMA ReleaseInv ==
    ASSUME OutboxInv, TypeOK', NEW w \in Workers, job' = [job EXCEPT ![w] = Idle],
           UNCHANGED <<queue, issued, started, landed>>
    PROVE  OutboxInv'
<1>0. TypeOK
  BY DEF OutboxInv
<1>1. job'[w].pc = "idle" /\ \A v \in Workers \ {w} : job'[v] = job[v]
  BY <1>0 DEF TypeOK, Idle
<1>2. \A r \in Rows : RowInv(r)'
  BY DEF OutboxInv, RowInv
<1>3. \A v \in Workers : JobInv(v)'
  BY <1>1 DEF OutboxInv, JobInv, CountAgrees
<1>4. TokensDiffer'
  BY <1>1 DEF OutboxInv, TokensDiffer
<1> QED
  BY <1>2, <1>3, <1>4 DEF OutboxInv

\* Steps inside process() that keep the claim and leave the tables alone.
LEMMA ProcessInv ==
    ASSUME OutboxInv, TypeOK', NEW w \in Workers,
           OutOfAttempts(w) \/ StartEffect(w) \/ EffectSucceeds(w) \/ EffectSkips(w) \/ EffectThrows(w)
    PROVE  OutboxInv'
<1> DEFINE j == job[w]
           k == job'[w]
           row == job[w].row
<1>0. TypeOK /\ j \in Job /\ JobInv(w) /\ row \in Rows /\ RowInv(row) /\ j.pc # "idle"
  BY DEF OutboxInv, TypeOK, OutOfAttempts, StartEffect, EffectSucceeds, EffectSkips, EffectThrows
<1>1. UNCHANGED <<queue, issued>> /\ \A v \in Workers \ {w} : job'[v] = job[v]
  BY <1>0 DEF OutOfAttempts, StartEffect, EffectSucceeds, EffectSkips, EffectThrows, TypeOK
<1>2. j.attempts \in Nat /\ j.token \in Nat /\ MaxAttempts \in Nat \ {0}
      /\ issued[row] \in Nat /\ queue[row].attempts \in Nat
  BY <1>0, OutboxAssumption DEF Job, TypeOK, Row
<1>3. k.row = row /\ k.token = j.token /\ k.age = j.age
  <2>1. CASE EffectThrows(w)
    BY <1>0, <2>1, AfterFailureFields DEF EffectThrows, TypeOK
  <2>2. CASE OutOfAttempts(w) \/ StartEffect(w) \/ EffectSucceeds(w) \/ EffectSkips(w)
    BY <1>0, <2>2 DEF OutOfAttempts, StartEffect, EffectSucceeds, EffectSkips, TypeOK, Job
  <2> QED
    BY <2>1, <2>2
<1>4. \/ /\ k.pc = "markFailed" /\ k.attempts >= MaxAttempts
         /\ k.attempts \in {j.attempts, j.attempts + 1}
      \/ k.pc \in {"executing", "markSkipped"} /\ k.attempts = j.attempts
      \/ k.pc = "markDone" /\ k.attempts = j.attempts /\ j.token \in landed'[row]
      \/ k.pc = "markRetry" /\ k.attempts = j.attempts + 1
  <2>1. CASE EffectThrows(w)
    <3>1. k = AfterFailure(j)
      BY <1>0, <2>1 DEF EffectThrows, TypeOK
    <3>2. k.attempts = j.attempts + 1
          /\ k.pc = IF j.attempts + 1 >= MaxAttempts THEN "markFailed" ELSE "markRetry"
      BY <1>0, <3>1, AfterFailureFields
    <3> QED
      BY <1>2, <3>2
  <2>2. CASE OutOfAttempts(w)
    BY <1>0, <2>2 DEF OutOfAttempts, TypeOK, Job
  <2>3. CASE StartEffect(w)
    BY <1>0, <2>3 DEF StartEffect, TypeOK, Job
  <2>4. CASE EffectSucceeds(w)
    BY <1>0, <2>4 DEF EffectSucceeds, TypeOK, Job
  <2>5. CASE EffectSkips(w)
    BY <1>0, <2>5 DEF EffectSkips, TypeOK, Job
  <2> QED
    BY <2>1, <2>2, <2>3, <2>4, <2>5
<1>5. j.pc \in {"claimed", "executing"}
  BY DEF OutOfAttempts, StartEffect, EffectSucceeds, EffectSkips, EffectThrows
<1>6. \A r \in Rows : landed[r] \subseteq landed'[r]
  BY <1>0 DEF OutOfAttempts, StartEffect, EffectSucceeds, EffectSkips, EffectThrows, TypeOK
<1>7. \A r \in Rows : RowInv(r)'
  <2> TAKE r \in Rows
  <2>1. CASE started'[r] = started[r]
    BY <1>1, <1>6, <2>1 DEF OutboxInv, RowInv
  <2>2. CASE started'[r] # started[r]
    <3>1. r = row /\ started'[row] = started[row] \cup {j.token} /\ j.attempts < MaxAttempts
      BY <1>0, <2>2
         DEF OutOfAttempts, StartEffect, EffectSucceeds, EffectSkips, EffectThrows, TypeOK
    <3>2. issued[row] # 0 /\ j.token \in 1..MaxAttempts
      BY <1>0, <1>2, <3>1 DEF JobInv
    <3> QED
      BY <1>0, <1>1, <1>6, <3>1, <3>2 DEF RowInv
  <2> QED
    BY <2>1, <2>2
<1>8. JobInv(w)'
  BY <1>0, <1>1, <1>2, <1>3, <1>4, <1>5 DEF JobInv, CountAgrees
<1>9. ASSUME NEW v \in Workers \ {w} PROVE JobInv(v)'
  BY <1>0, <1>1, <1>6 DEF OutboxInv, JobInv, CountAgrees, TypeOK
<1>10. TokensDiffer'
  BY <1>0, <1>1, <1>3 DEF OutboxInv, TokensDiffer
<1> QED
  BY <1>7, <1>8, <1>9, <1>10 DEF OutboxInv

\* A settlement statement, whatever becomes of the worker that sent it: idle,
\* or handling the statement's error as a failed effect.
LEMMA SettlementInv ==
    ASSUME OutboxInv, TypeOK', NEW w \in Workers, Settle(w) \/ SettleThrows(w)
    PROVE  OutboxInv'
<1> DEFINE j == job[w]
           k == job'[w]
           row == job[w].row
<1>a. /\ j.pc \in Marks
      /\ SettleStatement(j) \/ queue' = queue
      /\ \/ job' = [job EXCEPT ![w] = Idle]
         \/ j.pc = "markDone" /\ job' = [job EXCEPT ![w] = AfterFailure(j)]
      /\ UNCHANGED <<issued, started, landed>>
  BY DEF Settle, SettleThrows
<1>0. TypeOK /\ j \in Job /\ JobInv(w) /\ row \in Rows /\ RowInv(row) /\ j.pc # "idle"
  BY <1>a DEF OutboxInv, TypeOK, Marks
<1>1. \A v \in Workers \ {w} : job'[v] = job[v]
  BY <1>0, <1>a DEF TypeOK
<1>2. j.attempts \in Nat /\ j.token \in Nat /\ MaxAttempts \in Nat \ {0}
      /\ issued[row] \in Nat /\ queue[row].attempts \in Nat /\ queue[row] \in Row
  BY <1>0, OutboxAssumption DEF Job, TypeOK, Row
<1>3. \/ queue' = queue
      \/ /\ queue[row].status = "pending" /\ queue[row].claimedBy = j.token
         /\ queue'[row] = SettledRow(j)
         /\ \A r \in Rows \ {row} : queue'[r] = queue[r]
  BY <1>0, <1>a DEF SettleStatement, ClaimedPendingWhere, TypeOK
<1>4. queue' # queue =>
        /\ j.pc = "markDone" =>
              queue'[row].status = "done" /\ queue'[row].claimedBy = j.token
        /\ j.pc = "markSkipped" => queue'[row].status = "skipped"
        /\ j.pc = "markFailed" =>
              queue'[row].status = "failed" /\ queue'[row].attempts = j.attempts
        /\ j.pc = "markRetry" =>
              /\ queue'[row].status = "pending"
              /\ queue'[row].attempts = j.attempts
              /\ queue'[row].claimedBy = NoToken
  BY <1>0, <1>2, <1>3, <1>a, SettledRowFields
<1>5. queue' # queue => CountAgrees(j, queue[row]) /\ issued[row] <= queue[row].attempts + 1
                        /\ j.token # NoToken
  BY <1>0, <1>2, <1>3, <1>a DEF JobInv, RowInv, NoToken
<1>6. \A r \in Rows : RowInv(r)'
  <2> TAKE r \in Rows
  <2>1. CASE queue'[r] = queue[r]
    BY <1>a, <2>1 DEF OutboxInv, RowInv
  <2>2. CASE r = row /\ queue' # queue
    <3>1. started[row] \subseteq 1..MaxAttempts
      BY <1>0, <1>3, <2>2 DEF RowInv, Settled
    <3>2. j.pc = "markDone" => j.token \in landed[row]
      BY <1>0 DEF JobInv
    <3>3. j.pc = "markFailed" => j.attempts >= MaxAttempts
      BY <1>0 DEF JobInv
    <3>4. j.pc = "markRetry" => issued[row] <= j.attempts
      BY <1>2, <1>5, <2>2 DEF CountAgrees
    <3> QED
      BY <1>2, <1>4, <1>a, <2>2, <3>1, <3>2, <3>3, <3>4 DEF RowInv, Marks
  <2> QED
    BY <1>3, <2>1, <2>2
<1>7. JobInv(w)'
  <2>1. CASE job' = [job EXCEPT ![w] = Idle]
    BY <1>0, <2>1 DEF JobInv, TypeOK, Idle
  <2>2. CASE j.pc = "markDone" /\ k = AfterFailure(j)
    <3>1. /\ k.row = row /\ k.token = j.token /\ k.age = j.age
          /\ k.attempts = j.attempts + 1
          /\ k.pc = IF j.attempts + 1 >= MaxAttempts THEN "markFailed" ELSE "markRetry"
      BY <1>0, <2>2, AfterFailureFields
    <3>2. CASE queue' = queue
      BY <1>0, <1>2, <1>a, <2>2, <3>1, <3>2 DEF JobInv, CountAgrees
    <3>3. CASE queue' # queue
      BY <1>0, <1>2, <1>4, <1>a, <2>2, <3>1, <3>3 DEF JobInv
    <3> QED
      BY <3>2, <3>3
  <2> QED
    BY <1>0, <1>a, <2>1, <2>2 DEF TypeOK
<1>8. ASSUME NEW v \in Workers \ {w} PROVE JobInv(v)'
  <2>0. JobInv(v) /\ job[v] \in Job /\ (job[v].pc # "idle" => job[v].row \in Rows)
    BY <1>0 DEF OutboxInv, TypeOK
  <2>1. CASE queue' = queue
    BY <1>1, <1>a, <2>0, <2>1 DEF JobInv, CountAgrees
  <2>2. CASE queue' # queue /\ job[v].row # row
    BY <1>1, <1>3, <1>a, <2>0, <2>2 DEF JobInv, CountAgrees
  <2>3. CASE queue' # queue /\ job[v].row = row /\ job[v].pc # "idle"
    <3>1. job[v].token # j.token
      BY <1>0, <2>3 DEF OutboxInv, TokensDiffer
    <3>2. job[v].token # issued[row] /\ job[v].token # NoToken /\ job[v].token \in Nat
      BY <1>2, <1>3, <2>0, <2>3, <3>1 DEF JobInv, NoToken
    <3>3. queue'[row].status # "pending" \/ queue'[row].claimedBy = NoToken
      BY <1>4, <1>a, <2>3 DEF Marks
    <3> QED
      BY <1>1, <1>a, <2>0, <2>3, <3>2, <3>3 DEF JobInv
  <2>4. CASE job[v].pc = "idle"
    BY <1>1, <2>4 DEF JobInv
  <2> QED
    BY <2>1, <2>2, <2>3, <2>4
<1>9. TokensDiffer'
  <2>1. k.pc = "idle" \/ (k.row = row /\ k.token = j.token)
    <3>1. job'[w] = Idle \/ job'[w] = AfterFailure(j)
      BY <1>0, <1>a DEF TypeOK
    <3>2. AfterFailure(j).row = row /\ AfterFailure(j).token = j.token
      BY <1>0, AfterFailureFields
    <3>3. CASE job'[w] = Idle
      BY <3>3 DEF Idle
    <3>4. CASE job'[w] = AfterFailure(j)
      BY <3>2, <3>4
    <3> QED
      BY <3>1, <3>3, <3>4
  <2> QED
    BY <1>0, <1>1, <2>1 DEF OutboxInv, TokensDiffer
<1> QED
  BY <1>6, <1>7, <1>8, <1>9 DEF OutboxInv

LEMMA TickInv == ASSUME OutboxInv, Tick PROVE OutboxInv'
<1>0. TypeOK /\ TypeOK'
  BY TickTypeOK DEF OutboxInv
<1>1. \A r \in Rows : queue'[r] = OlderRow(queue[r])
  BY DEF Tick
<1>2. \A r \in Rows :
        /\ queue'[r].status = queue[r].status
        /\ queue'[r].attempts = queue[r].attempts
        /\ queue'[r].claimedBy = queue[r].claimedBy
        /\ queue[r].status = "pending" /\ queue[r].claimedBy # NoToken =>
              queue'[r].age = Older(queue[r].age)
  BY <1>0, <1>1, OlderRowFields DEF TypeOK
<1>3. \A w \in Workers :
        /\ job'[w].pc = job[w].pc /\ job'[w].row = job[w].row
        /\ job'[w].token = job[w].token /\ job'[w].attempts = job[w].attempts
        /\ job[w].pc # "idle" => job'[w].age = Older(job[w].age)
  BY <1>0 DEF Tick, OlderJob, TypeOK, Job
<1>4. UNCHANGED <<issued, started, landed>>
  BY DEF Tick
<1>5. \A r \in Rows : RowInv(r)'
  BY <1>2, <1>4 DEF OutboxInv, RowInv
<1>6. ASSUME NEW w \in Workers PROVE JobInv(w)'
  <2>1. CASE job[w].pc = "idle"
    BY <1>3, <2>1 DEF JobInv
  <2>2. CASE job[w].pc # "idle"
    <3>1. JobInv(w) /\ job[w].row \in Rows /\ job[w].age \in Nat
      BY <1>0, <2>2 DEF OutboxInv, TypeOK, Job
    <3>2. job[w].age >= Stale => job'[w].age >= Stale
      BY <1>3, <2>2, <3>1, OlderFacts
    <3>3. job[w].token # NoToken
      BY <1>0, <2>2, <3>1 DEF JobInv, NoToken, TypeOK, Job
    <3> QED
      BY <1>2, <1>3, <1>4, <2>2, <3>1, <3>2, <3>3 DEF JobInv, CountAgrees
  <2> QED
    BY <2>1, <2>2
<1>7. TokensDiffer'
  BY <1>3 DEF OutboxInv, TokensDiffer
<1> QED
  BY <1>0, <1>5, <1>6, <1>7 DEF OutboxInv

LEMMA NextOutboxInv == OutboxInv /\ [Next]_vars => OutboxInv'
<1> SUFFICES ASSUME OutboxInv, [Next]_vars PROVE OutboxInv'
  OBVIOUS
<1>0. TypeOK'
  BY NextTypeOK DEF OutboxInv
<1>1. CASE UNCHANGED vars
  BY <1>0, <1>1 DEF vars, OutboxInv, RowInv, JobInv, CountAgrees, TokensDiffer
<1>2. ASSUME NEW r \in Rows, Produce(r) PROVE OutboxInv'
  BY <1>2, ProduceInv
<1>3. ASSUME NEW w \in Workers, Claim(w) PROVE OutboxInv'
  BY <1>3, ClaimInv DEF Claim
<1>4. ASSUME NEW w \in Workers, Process(w) PROVE OutboxInv'
  <2>1. CASE AbandonLapsedClaim(w)
    BY <1>0, <2>1, ReleaseInv DEF AbandonLapsedClaim
  <2>2. CASE Settle(w)
    BY <1>0, <2>2, SettlementInv
  <2> QED
    BY <1>0, <1>4, <2>1, <2>2, ProcessInv DEF Process
<1>5. ASSUME NEW w \in Workers, SettleThrows(w) PROVE OutboxInv'
  BY <1>0, <1>5, SettlementInv
<1>6. ASSUME NEW w \in Workers, Crash(w) PROVE OutboxInv'
  BY <1>0, <1>6, ReleaseInv DEF Crash
<1>7. CASE Tick
  BY <1>7, TickInv
<1> QED
  BY <1>1, <1>2, <1>3, <1>4, <1>5, <1>6, <1>7 DEF Next

\* The invariant everything else rests on: the claims of a row are counted,
\* the tokens of its holders differ, and only the newest lease is live.
THEOREM OutboxInductive == Spec => []OutboxInv
  BY InitOutboxInv, NextOutboxInv, PTL DEF Spec

(***************************************************************************)
(* The safety properties of the runs.                                       *)
(***************************************************************************)

\* A done row carries the token of a generation whose effect reached its
\* receiver: a late or superseded worker cannot report a delivery as made.
THEOREM OutboxDoneMeansLanded == Spec => []DoneMeansLanded
<1>1. OutboxInv => DoneMeansLanded
  BY DEF OutboxInv, RowInv, DoneMeansLanded
<1> QED
  BY <1>1, OutboxInductive, PTL

\* The attempt budget bounds how often an effect is begun, however many
\* replicas claim, lapse on and take over the row.
THEOREM OutboxAtMostMaxAttempts == Spec => []AtMostMaxAttempts
<1>1. ASSUME OutboxInv, NEW r \in Rows
      PROVE  started[r] \subseteq 0..MaxAttempts /\ Cardinality(started[r]) <= MaxAttempts
  <2>1. MaxAttempts \in Nat /\ MaxAttempts >= 1
    BY OutboxAssumption
  <2>2. IsFiniteSet(1..MaxAttempts) /\ Cardinality(1..MaxAttempts) = MaxAttempts
    BY <2>1, FS_Interval
  <2>3. IsFiniteSet({NoToken}) /\ Cardinality({NoToken}) = 1
    BY FS_Singleton
  <2>4. CASE started[r] \subseteq 1..MaxAttempts
    BY <2>1, <2>2, <2>4, FS_Subset
  <2>5. CASE started[r] \subseteq {NoToken}
    <3>1. IsFiniteSet(started[r]) /\ Cardinality(started[r]) <= 1
      BY <2>3, <2>5, FS_Subset
    <3>2. Cardinality(started[r]) \in Nat
      BY <3>1, FS_CardinalityType
    <3> QED
      BY <2>1, <2>5, <3>1, <3>2 DEF NoToken
  <2> QED
    BY <1>1, <2>4, <2>5 DEF OutboxInv, RowInv
<1>2. OutboxInv => AtMostMaxAttempts
  BY <1>1 DEF AtMostMaxAttempts
<1> QED
  BY <1>2, OutboxInductive, PTL

\* Two workers on one row never share a claim, and the older of the two
\* claims has outlived its lease.
THEOREM OutboxOneLiveLease == Spec => []OneLiveLease
<1>1. ASSUME OutboxInv, NEW v \in Workers, NEW w \in Workers,
             job[v].pc # "idle", job[w].pc # "idle", v # w, job[v].row = job[w].row
      PROVE  /\ job[v].token # job[w].token
             /\ job[v].token < job[w].token => job[v].age >= Stale
  <2>1. JobInv(v) /\ JobInv(w) /\ TokensDiffer /\ TypeOK
    BY <1>1 DEF OutboxInv
  <2>2. /\ job[v].row \in Rows /\ issued[job[v].row] \in Nat
        /\ job[v].token \in Nat /\ job[w].token \in Nat
    BY <1>1, <2>1 DEF TypeOK, Job
  <2>3. job[w].token <= issued[job[v].row]
    BY <1>1, <2>1, <2>2 DEF JobInv
  <2> QED
    BY <1>1, <2>1, <2>2, <2>3 DEF JobInv, TokensDiffer
<1>2. OutboxInv => OneLiveLease
  BY <1>1 DEF OneLiveLease
<1> QED
  BY <1>2, OutboxInductive, PTL

\* A claimed row is given up only when its attempts are used up.
THEOREM OutboxFailedMeansExhausted == Spec => []FailedMeansExhausted
<1>1. OutboxInv => FailedMeansExhausted
  BY DEF OutboxInv, RowInv, FailedMeansExhausted
<1> QED
  BY <1>1, OutboxInductive, PTL

\* What the step of an action may do to one row: insert it, leave it, or
\* rewrite a live one without losing an attempt it has counted.
RowStep(r) ==
    \/ queue'[r] = queue[r]
    \/ queue[r].status = "none" /\ queue'[r].attempts >= queue[r].attempts
    \/ /\ queue[r].status = "pending"
       /\ queue'[r].status # "deleted" => queue'[r].attempts >= queue[r].attempts

LEMMA SettlementRowStep ==
    ASSUME OutboxInv, NEW w \in Workers, job[w].pc \in Marks, SettleStatement(job[w]),
           NEW r \in Rows
    PROVE  RowStep(r)
<1> DEFINE j == job[w]
<1>1. TypeOK /\ JobInv(w) /\ j \in Job /\ j.row \in Rows /\ j.pc # "idle"
  BY DEF OutboxInv, TypeOK, Marks
<1>2. queue[j.row] \in Row /\ queue[j.row].attempts \in Nat /\ j.attempts \in Nat
  BY <1>1 DEF TypeOK, Row, Job
<1>3. CASE queue'[r] = queue[r]
  BY <1>3 DEF RowStep
<1>4. CASE queue'[r] # queue[r]
  <2>1. r = j.row /\ queue[r].status = "pending" /\ queue[r].claimedBy = j.token
        /\ queue'[r] = SettledRow(j)
    BY <1>1, <1>4 DEF SettleStatement, ClaimedPendingWhere, TypeOK
  <2>2. CountAgrees(j, queue[r])
    BY <1>1, <2>1 DEF JobInv
  <2>3. CASE j.pc \in {"markDone", "markSkipped"}
    <3>1. SettledRow(j).attempts = queue[r].attempts
      BY <1>2, <2>1, <2>3 DEF SettledRow, Row
    <3> QED
      BY <1>2, <2>1, <3>1 DEF RowStep
  <2>4. CASE j.pc \in {"markRetry", "markFailed"}
    <3>1. SettledRow(j).attempts = j.attempts
      BY <1>1, <1>2, <2>4, SettledRowFields
    <3> QED
      BY <1>2, <2>1, <2>2, <2>4, <3>1 DEF RowStep, CountAgrees
  <2> QED
    BY <2>3, <2>4 DEF Marks
<1> QED
  BY <1>3, <1>4

\* Every step of the system is a RowStep for every row.
LEMMA NextRowStep == ASSUME OutboxInv, Next, NEW r \in Rows PROVE RowStep(r)
<1>0. TypeOK /\ queue[r] \in Row /\ queue[r].attempts \in Nat
  BY DEF OutboxInv, TypeOK, Row
<1>1. ASSUME NEW s \in Rows, Produce(s) PROVE RowStep(r)
  <2>1. CASE \E delay \in Delays : EnqueueOutbox(s, delay)
    <3>0. PICK delay \in Delays : EnqueueOutbox(s, delay)
      BY <2>1
    <3>1. queue'[r] = queue[r] \/ (queue[r].status = "none" /\ queue'[r].attempts = 0)
      BY <1>0, <3>0 DEF EnqueueOutbox, NewRow, TypeOK
    <3>2. queue[r].status = "none" => queue[r].attempts = 0
      BY DEF OutboxInv, RowInv
    <3> QED
      BY <3>1, <3>2 DEF RowStep
  <2>2. CASE \E status \in Settled : RecordSettledDelivery(s, status)
    <3>0. PICK status \in Settled : RecordSettledDelivery(s, status)
      BY <2>2
    <3>1. queue'[r] = queue[r] \/ (queue[r].status = "none" /\ queue'[r].attempts \in {0, 1})
      BY <1>0, <3>0 DEF RecordSettledDelivery, NewRow, TypeOK
    <3>2. queue[r].status = "none" => queue[r].attempts = 0
      BY DEF OutboxInv, RowInv
    <3> QED
      BY <3>1, <3>2 DEF RowStep
  <2>3. CASE DeletePendingOutbox(s)
    BY <1>0, <2>3 DEF DeletePendingOutbox, NewRow, TypeOK, RowStep
  <2> QED
    BY <1>1, <2>1, <2>2, <2>3 DEF Produce
<1>2. ASSUME NEW w \in Workers, NEW s \in Rows, NEW lag \in 0..MaxLag, ClaimDueOutbox(w, s, lag)
      PROVE  RowStep(r)
  <2>1. ClaimedAttempts(s) \in Nat /\ ClaimedAttempts(s) >= queue[s].attempts
        /\ issued[s] + 1 \in Nat /\ lag \in Nat /\ queue[s] \in Row
    BY <1>0, OutboxAssumption DEF ClaimedAttempts, TypeOK, Row
  <2>2. /\ r # s => queue'[r] = queue[r]
        /\ queue'[s] = [queue[s] EXCEPT !.attempts = ClaimedAttempts(s),
                                        !.claimedBy = issued[s] + 1,
                                        !.age = lag]
        /\ queue[s].status = "pending"
    BY <1>0, <1>2 DEF ClaimDueOutbox, Claimable, TypeOK
  <2>3. queue'[s].attempts = ClaimedAttempts(s)
    BY <2>1, <2>2, ClaimedRowFields
  <2> QED
    BY <2>1, <2>2, <2>3 DEF RowStep
<1>3. ASSUME NEW w \in Workers, Process(w) \/ SettleThrows(w) \/ Crash(w)
      PROVE  RowStep(r)
  <2>1. CASE Settle(w) \/ SettleThrows(w)
    <3>1. queue' = queue \/ (job[w].pc \in Marks /\ SettleStatement(job[w]))
      BY <2>1 DEF Settle, SettleThrows
    <3> QED
      BY <3>1, SettlementRowStep DEF RowStep
  <2>2. CASE ~(Settle(w) \/ SettleThrows(w))
    <3>1. UNCHANGED queue
      BY <1>3, <2>2 DEF Process, AbandonLapsedClaim, OutOfAttempts, StartEffect,
                        EffectSucceeds, EffectSkips, EffectThrows, Crash
    <3> QED
      BY <3>1 DEF RowStep
  <2> QED
    BY <2>1, <2>2
<1>4. CASE Tick
  <2>1. queue'[r] = OlderRow(queue[r])
    BY <1>4 DEF Tick
  <2>2. queue[r].status # "pending" => queue'[r] = queue[r]
    BY <2>1 DEF OlderRow
  <2>3. queue'[r].attempts = queue[r].attempts
    BY <1>0, <2>1, OlderRowFields
  <2> QED
    BY <1>0, <2>2, <2>3 DEF RowStep, TypeOK, Row, Statuses
<1> QED
  BY <1>1, <1>2, <1>3, <1>4 DEF Next, Claim

\* Nothing rewrites a settled or deleted row: not a late settlement, not a
\* second one after a lost answer, not a reclaim.
THEOREM OutboxTerminalIsFinal == Spec => TerminalIsFinal
<1>1. ASSUME OutboxInv, Next, NEW r \in Rows, queue[r].status \in Settled \cup {"deleted"}
      PROVE  queue'[r] = queue[r]
  BY <1>1, NextRowStep DEF RowStep, Settled
<1>2. OutboxInv /\ [Next]_vars =>
        [\A r \in Rows : queue[r].status \in Settled \cup {"deleted"} => queue'[r] = queue[r]]_vars
  BY <1>1
<1> QED
  BY <1>2, OutboxInductive, PTL DEF Spec, TerminalIsFinal

\* The attempts of a live row never go back: an outdated worker cannot write
\* its older count.
THEOREM OutboxAttemptsNeverDrop == Spec => AttemptsNeverDrop
<1>1. ASSUME OutboxInv, Next, NEW r \in Rows, queue'[r].status # "deleted"
      PROVE  queue'[r].attempts >= queue[r].attempts
  <2>1. queue[r].attempts \in Nat
    BY <1>1 DEF OutboxInv, TypeOK, Row
  <2> QED
    BY <1>1, <2>1, NextRowStep DEF RowStep
<1>2. OutboxInv /\ [Next]_vars =>
        [\A r \in Rows :
            queue'[r].status # "deleted" => queue'[r].attempts >= queue[r].attempts]_vars
  BY <1>1
<1> QED
  BY <1>2, OutboxInductive, PTL DEF Spec, AttemptsNeverDrop
(***************************************************************************)
(* PromiseInv, the histories' part of the invariant.                        *)
(***************************************************************************)

LEMMA InitPromiseInv == Init => PromiseInv
<1> SUFFICES ASSUME Init PROVE PromiseInv
  OBVIOUS
<1>1. OutboxInv
  BY InitOutboxInv
<1> QED
  BY <1>1 DEF Init, PromiseInv, RowHistory, JobHistory, Idle

\* A busy worker's row has been claimed, so it is no longer "none".
LEMMA BusyMeansClaimed ==
    ASSUME OutboxInv, NEW w \in Workers, job[w].pc # "idle"
    PROVE  LET r == job[w].row IN
           /\ r \in Rows /\ issued[r] \in Nat
           /\ job[w].token \in 1..issued[r]
           /\ queue[r].status # "none"
<1>1. TypeOK /\ JobInv(w)
  BY DEF OutboxInv
<1>2. job[w].row \in Rows /\ issued[job[w].row] \in Nat /\ job[w].token \in 1..issued[job[w].row]
  BY <1>1 DEF TypeOK, JobInv
<1>3. RowInv(job[w].row)
  BY <1>2 DEF OutboxInv
<1> QED
  BY <1>2, <1>3 DEF RowInv

\* Inserting a row, settled or not, or deleting one.
LEMMA ProducePromiseInv ==
    ASSUME PromiseInv, OutboxInv', NEW r \in Rows, Produce(r) PROVE PromiseInv'
<1>0. OutboxInv /\ TypeOK
  BY DEF PromiseInv, OutboxInv
<1>1. UNCHANGED <<job, issued>>
  BY DEF Produce, EnqueueOutbox, RecordSettledDelivery, DeletePendingOutbox
<1>2. CASE UNCHANGED <<started, landed>>
  BY <1>1, <1>2 DEF PromiseInv, RowHistory, JobHistory
<1>3. ASSUME NEW status \in Settled, RecordSettledDelivery(r, status) PROVE PromiseInv'
  <2>1. /\ started'[r] = IF status = "skipped" THEN {} ELSE {NoToken}
        /\ landed'[r] = IF status = "done" THEN {NoToken} ELSE {}
        /\ \A s \in Rows \ {r} : started'[s] = started[s] /\ landed'[s] = landed[s]
        /\ queue[r].status = "none"
    BY <1>0, <1>3 DEF RecordSettledDelivery, TypeOK
  <2>2. \A s \in Rows : RowHistory(s)'
    <3>1. RowHistory(r)'
      BY <1>0, <1>1, <2>1 DEF RowHistory, NoToken, TypeOK, Settled
    <3> QED
      BY <1>1, <2>1, <3>1 DEF PromiseInv, RowHistory
  <2>3. ASSUME NEW w \in Workers PROVE JobHistory(w)'
    <3>1. job[w].pc # "idle" => job[w].row \in Rows \ {r}
      BY <1>0, <2>1, BusyMeansClaimed
    <3> QED
      BY <1>1, <2>1, <3>1 DEF PromiseInv, JobHistory
  <2> QED
    BY <2>2, <2>3 DEF PromiseInv
<1> QED
  BY <1>2, <1>3 DEF Produce, EnqueueOutbox, DeletePendingOutbox

\* A fresh token was never begun.
LEMMA ClaimPromiseInv ==
    ASSUME PromiseInv, OutboxInv', NEW w \in Workers, NEW r \in Rows, NEW lag \in 0..MaxLag,
           ClaimDueOutbox(w, r, lag)
    PROVE  PromiseInv'
<1>0. TypeOK /\ issued[r] \in Nat
  BY DEF PromiseInv, OutboxInv, TypeOK
<1>1. /\ job'[w].pc = "claimed" /\ job'[w].row = r /\ job'[w].token = issued[r] + 1
      /\ \A v \in Workers \ {w} : job'[v] = job[v]
      /\ UNCHANGED <<started, landed>>
      /\ issued'[r] = issued[r] + 1
      /\ \A s \in Rows \ {r} : issued'[s] = issued[s]
  BY <1>0 DEF ClaimDueOutbox, TypeOK
<1>2. \A s \in Rows : RowHistory(s)'
  BY <1>0, <1>1 DEF PromiseInv, RowHistory
<1>3. JobHistory(w)'
  BY <1>0, <1>1 DEF PromiseInv, RowHistory, JobHistory
<1>4. \A v \in Workers \ {w} : JobHistory(v)'
  BY <1>1 DEF PromiseInv, JobHistory
<1> QED
  BY <1>2, <1>3, <1>4 DEF PromiseInv

\* Steps of a busy worker: it may begin the effect of its own claim or land
\* it, which is no other worker's claim.
LEMMA HistoryStep ==
    ASSUME PromiseInv, OutboxInv', NEW w \in Workers, job[w].pc # "idle",
           \A v \in Workers \ {w} : job'[v] = job[v],
           issued' = issued,
           \A r \in Rows \ {job[w].row} : started'[r] = started[r] /\ landed'[r] = landed[r],
           started'[job[w].row] \in {started[job[w].row], started[job[w].row] \cup {job[w].token}},
           landed'[job[w].row] \in {landed[job[w].row], landed[job[w].row] \cup {job[w].token}},
           landed'[job[w].row] \subseteq started'[job[w].row],
           JobHistory(w)'
    PROVE  PromiseInv'
<1>0. OutboxInv /\ TypeOK
  BY DEF PromiseInv, OutboxInv
<1>1. /\ job[w].row \in Rows /\ issued[job[w].row] \in Nat
      /\ job[w].token \in 1..issued[job[w].row]
  BY <1>0, BusyMeansClaimed
<1>2. \A r \in Rows : RowHistory(r)'
  <2> SUFFICES ASSUME NEW r \in Rows PROVE RowHistory(r)'
    OBVIOUS
  <2>1. RowHistory(r)
    BY DEF PromiseInv
  <2>2. CASE r = job[w].row
    BY <1>1, <2>1, <2>2 DEF RowHistory
  <2>3. CASE r # job[w].row
    BY <2>1, <2>3 DEF RowHistory
  <2> QED
    BY <2>2, <2>3
<1>3. ASSUME NEW v \in Workers \ {w} PROVE JobHistory(v)'
  <2>1. CASE job[v].pc = "idle"
    BY <2>1 DEF JobHistory
  <2>2. CASE job[v].pc # "idle" /\ job[v].row # job[w].row
    <3>1. job[v].row \in Rows \ {job[w].row}
      BY <1>0, <2>2, BusyMeansClaimed
    <3> QED
      BY <3>1 DEF PromiseInv, JobHistory
  <2>3. CASE job[v].pc # "idle" /\ job[v].row = job[w].row
    <3>1. job[v].token # job[w].token
      BY <1>0, <2>3 DEF OutboxInv, TokensDiffer
    <3>2. JobHistory(v) /\ job'[v] = job[v]
      BY DEF PromiseInv
    <3> QED
      BY <2>3, <3>1, <3>2 DEF JobHistory
  <2> QED
    BY <2>1, <2>2, <2>3
<1> QED
  BY <1>2, <1>3 DEF PromiseInv

LEMMA ProcessPromiseInv ==
    ASSUME PromiseInv, OutboxInv', NEW w \in Workers, Process(w) \/ SettleThrows(w) \/ Crash(w)
    PROVE  PromiseInv'
<1> DEFINE j == job[w]
           row == job[w].row
<1>0. /\ TypeOK /\ JobHistory(w) /\ j.pc # "idle" /\ j \in Job /\ row \in Rows
      /\ issued' = issued
      /\ \A v \in Workers \ {w} : job'[v] = job[v]
  BY DEF PromiseInv, OutboxInv, TypeOK, Process, AbandonLapsedClaim, OutOfAttempts, StartEffect,
         EffectSucceeds, EffectSkips, EffectThrows, Settle, SettleThrows, Crash, Marks
<1>1. landed[row] \subseteq started[row]
  BY <1>0 DEF PromiseInv, RowHistory
<1>2. CASE AbandonLapsedClaim(w) \/ OutOfAttempts(w) \/ Settle(w) \/ SettleThrows(w) \/ Crash(w)
  <2>1. UNCHANGED <<started, landed>>
    BY <1>2 DEF AbandonLapsedClaim, OutOfAttempts, Settle, SettleThrows, Crash
  <2>2. job'[w].pc \notin {"claimed", "executing", "markSkipped"}
    <3>1. CASE job' = [job EXCEPT ![w] = Idle]
      BY <1>0, <3>1 DEF TypeOK, Idle
    <3>2. CASE OutOfAttempts(w)
      BY <1>0, <3>2 DEF TypeOK, OutOfAttempts, Job
    <3>3. CASE job' = [job EXCEPT ![w] = AfterFailure(j)]
      BY <1>0, <3>3, AfterFailureFields DEF TypeOK
    <3> QED
      BY <1>2, <3>1, <3>2, <3>3 DEF AbandonLapsedClaim, Settle, SettleThrows, Crash
  <2> QED
    BY <1>0, <1>1, <2>1, <2>2, HistoryStep DEF JobHistory
<1>3. CASE StartEffect(w)
  <2>1. /\ started'[row] = started[row] \cup {j.token} /\ landed' = landed
        /\ \A r \in Rows \ {row} : started'[r] = started[r]
        /\ j.pc = "claimed"
    BY <1>0, <1>3 DEF StartEffect, TypeOK
  <2>2. job'[w].pc = "executing" /\ job'[w].row = row /\ job'[w].token = j.token
    BY <1>0, <1>3 DEF StartEffect, TypeOK, Job
  <2>3. j.token \notin landed[row]
    BY <1>0, <1>1, <2>1 DEF JobHistory
  <2> QED
    BY <1>0, <1>1, <2>1, <2>2, <2>3, HistoryStep DEF JobHistory
<1>4. CASE EffectSucceeds(w) \/ EffectSkips(w) \/ EffectThrows(w)
  <2>1. /\ started' = started
        /\ landed' = landed \/ landed' = [landed EXCEPT ![row] = @ \cup {j.token}]
        /\ j.pc = "executing"
    BY <1>4 DEF EffectSucceeds, EffectSkips, EffectThrows
  <2>2. /\ landed'[row] \in {landed[row], landed[row] \cup {j.token}}
        /\ \A r \in Rows \ {row} : landed'[r] = landed[r]
    BY <1>0, <2>1 DEF TypeOK
  <2>3. j.token \in started[row]
    BY <1>0, <2>1 DEF JobHistory
  <2>4. job'[w].pc \notin {"claimed", "executing"} /\ job'[w].row = row /\ job'[w].token = j.token
    <3>1. CASE EffectThrows(w)
      BY <1>0, <3>1, AfterFailureFields DEF EffectThrows, TypeOK
    <3>2. CASE EffectSucceeds(w) \/ EffectSkips(w)
      BY <1>0, <3>2 DEF EffectSucceeds, EffectSkips, TypeOK, Job
    <3> QED
      BY <1>4, <3>1, <3>2
  <2> QED
    BY <1>0, <1>1, <2>1, <2>2, <2>3, <2>4, HistoryStep DEF JobHistory
<1> QED
  BY <1>2, <1>3, <1>4 DEF Process

LEMMA NextPromiseInv == PromiseInv /\ [Next]_vars => PromiseInv'
<1> SUFFICES ASSUME PromiseInv, [Next]_vars PROVE PromiseInv'
  OBVIOUS
<1>0. OutboxInv'
  BY NextOutboxInv DEF PromiseInv
<1>1. CASE UNCHANGED vars
  BY <1>0, <1>1 DEF vars, PromiseInv, RowHistory, JobHistory
<1>2. CASE Tick
  <2>1. UNCHANGED <<issued, started, landed>>
    BY <1>2 DEF Tick
  <2>2. \A w \in Workers :
           job'[w].pc = job[w].pc /\ job'[w].row = job[w].row /\ job'[w].token = job[w].token
    BY <1>2 DEF Tick, OlderJob, PromiseInv, OutboxInv, TypeOK, Job
  <2> QED
    BY <1>0, <2>1, <2>2 DEF PromiseInv, RowHistory, JobHistory
<1> QED
  BY <1>0, <1>1, <1>2, ProducePromiseInv, ClaimPromiseInv, ProcessPromiseInv DEF Next, Claim

\* Only begun effects land, under tokens that were issued, and a claim whose
\* holder has not begun was never begun by anybody.
THEOREM OutboxHistories == Spec => []PromiseInv
  BY InitPromiseInv, NextPromiseInv, PTL DEF Spec

(***************************************************************************)
(* The simulation of DeliveryPromise, action by action.                     *)
(***************************************************************************)

fateOf == [r \in Rows |-> FateOf(queue[r].status)]
triesOf == [r \in Rows |-> Cardinality(started[r])]
copiesOf == [r \in Rows |-> Cardinality(landed[r])]

\* Both histories of a row are finite, and no more lands than was begun.
LEMMA FiniteHistories ==
    ASSUME PromiseInv, NEW r \in Rows
    PROVE  /\ IsFiniteSet(started[r]) /\ Cardinality(started[r]) \in Nat
           /\ IsFiniteSet(landed[r]) /\ Cardinality(landed[r]) \in Nat
           /\ Cardinality(landed[r]) <= Cardinality(started[r])
           /\ Cardinality(landed[r]) = Cardinality(started[r]) => landed[r] = started[r]
<1>1. /\ started[r] \subseteq 0..issued[r] /\ landed[r] \subseteq started[r]
      /\ issued[r] \in Nat
  BY DEF PromiseInv, RowHistory, OutboxInv, TypeOK
<1>2. IsFiniteSet(0..issued[r])
  BY <1>1, FS_Interval
<1>3. IsFiniteSet(started[r])
  BY <1>1, <1>2, FS_Subset
<1> QED
  BY <1>1, <1>3, FS_Subset, FS_CardinalityType

\* Steps that change neither a status nor a history.
LEMMA PromiseStutter ==
    ASSUME \A r \in Rows : queue'[r].status = queue[r].status,
           UNCHANGED <<started, landed>>
    PROVE  UNCHANGED <<fateOf, triesOf, copiesOf>>
<1>0. fateOf' = [r \in Rows |-> FateOf(queue'[r].status)]
  BY DEF fateOf, FateOf
<1>1. fateOf' = fateOf
  BY <1>0 DEF fateOf
<1>2. triesOf' = triesOf /\ copiesOf' = copiesOf
  BY DEF triesOf, copiesOf
<1> QED
  BY <1>1, <1>2

\* Steps that change one row's status only.
LEMMA FateChanges ==
    ASSUME NEW r \in Rows, NEW q, queue' = [queue EXCEPT ![r] = q],
           queue \in [Rows -> Row], UNCHANGED <<started, landed>>
    PROVE  /\ fateOf' = [fateOf EXCEPT ![r] = FateOf(q.status)]
           /\ UNCHANGED <<triesOf, copiesOf>>
<1>1. \A s \in Rows : queue'[s] = IF s = r THEN q ELSE queue[s]
  OBVIOUS
<1>0. fateOf' = [s \in Rows |-> FateOf(queue'[s].status)]
  BY DEF fateOf, FateOf
<1>2. fateOf' = [fateOf EXCEPT ![r] = FateOf(q.status)]
  BY <1>0, <1>1 DEF fateOf
<1>3. triesOf' = triesOf /\ copiesOf' = copiesOf
  BY DEF triesOf, copiesOf
<1> QED
  BY <1>2, <1>3

\* enqueueOutbox owes the work; deletePendingOutbox cancels it.
LEMMA EnqueueOwes ==
    ASSUME PromiseInv, NEW r \in Rows, NEW delay \in Delays, EnqueueOutbox(r, delay)
    PROVE  Promise!Owe(r)
<1>1. queue \in [Rows -> Row] /\ queue[r].status = "none"
      /\ queue' = [queue EXCEPT ![r] = NewRow("pending", 0, delay)]
      /\ UNCHANGED <<started, landed>>
  BY DEF EnqueueOutbox, PromiseInv, OutboxInv, TypeOK
<1>2. fateOf' = [fateOf EXCEPT ![r] = FateOf(NewRow("pending", 0, delay).status)]
      /\ UNCHANGED <<triesOf, copiesOf>>
  BY <1>1, FateChanges
<1>3. FateOf(NewRow("pending", 0, delay).status) = "owed" /\ fateOf[r] = "none"
  BY <1>1 DEF FateOf, NewRow, fateOf
<1> QED
  BY <1>2, <1>3 DEF Promise!Owe, fateOf, triesOf, copiesOf

LEMMA DeleteCancels ==
    ASSUME PromiseInv, NEW r \in Rows, DeletePendingOutbox(r)
    PROVE  Promise!Conclude(r)
<1>1. queue \in [Rows -> Row] /\ queue[r].status = "pending"
      /\ queue' = [queue EXCEPT ![r] = NewRow("deleted", 0, 0)]
      /\ UNCHANGED <<started, landed>>
  BY DEF DeletePendingOutbox, PromiseInv, OutboxInv, TypeOK
<1>2. fateOf' = [fateOf EXCEPT ![r] = FateOf(NewRow("deleted", 0, 0).status)]
      /\ UNCHANGED <<triesOf, copiesOf>>
  BY <1>1, FateChanges
<1>3. FateOf(NewRow("deleted", 0, 0).status) = "cancelled" /\ fateOf[r] = "owed"
  BY <1>1 DEF FateOf, NewRow, fateOf
<1> QED
  BY <1>2, <1>3 DEF Promise!Conclude, fateOf, triesOf, copiesOf

\* recordSettledDelivery records a try and a copy, a try, or neither.
LEMMA RecordRecords ==
    ASSUME PromiseInv, NEW r \in Rows, NEW status \in Settled, RecordSettledDelivery(r, status)
    PROVE  Promise!Record(r)
<1> DEFINE q == NewRow(status, IF status = "skipped" THEN 0 ELSE 1, 0)
<1>1. /\ TypeOK /\ queue[r].status = "none" /\ started[r] = {} /\ landed[r] = {}
      /\ queue' = [queue EXCEPT ![r] = q] /\ q.status = status
      /\ started' = [started EXCEPT ![r] = IF status = "skipped" THEN {} ELSE {NoToken}]
      /\ landed' = [landed EXCEPT ![r] = IF status = "done" THEN {NoToken} ELSE {}]
  BY DEF RecordSettledDelivery, PromiseInv, OutboxInv, RowInv, RowHistory, NewRow
<1>2. Cardinality({}) = 0 /\ Cardinality({NoToken}) = 1
  BY FS_EmptySet, FS_Singleton
<1>3. \A s \in Rows :
         /\ queue'[s].status = IF s = r THEN status ELSE queue[s].status
         /\ started'[s] = IF s = r THEN IF status = "skipped" THEN {} ELSE {NoToken}
                                   ELSE started[s]
         /\ landed'[s] = IF s = r THEN IF status = "done" THEN {NoToken} ELSE {} ELSE landed[s]
  BY <1>1 DEF TypeOK
<1>4. fateOf[r] = "none" /\ fateOf' = [fateOf EXCEPT ![r] = FateOf(status)]
  <2>1. fateOf' = [s \in Rows |-> FateOf(queue'[s].status)]
    BY DEF fateOf, FateOf
  <2>2. fateOf[r] = "none"
    BY <1>1 DEF fateOf, FateOf
  <2> QED
    BY <1>3, <2>1, <2>2 DEF fateOf
<1>5. triesOf' = [triesOf EXCEPT ![r] = IF status = "skipped" THEN 0 ELSE 1]
  BY <1>2, <1>3 DEF triesOf
<1>6. copiesOf' = [copiesOf EXCEPT ![r] = IF status = "done" THEN 1 ELSE 0]
  BY <1>2, <1>3 DEF copiesOf
<1>7. triesOf[r] = 0 /\ copiesOf[r] = 0
  BY <1>1, <1>2 DEF triesOf, copiesOf
<1>8. status # "done" => copiesOf' = copiesOf
  BY <1>6, <1>7 DEF copiesOf
<1>9. status = "skipped" => triesOf' = triesOf
  BY <1>5, <1>7 DEF triesOf
<1>10. CASE status = "done"
  <2>1. FateOf(status) = "delivered"
    BY <1>10 DEF FateOf
  <2> QED
    BY <1>4, <1>5, <1>6, <1>10, <2>1 DEF Promise!Record, fateOf, triesOf, copiesOf
<1>11. CASE status = "failed"
  <2>1. FateOf(status) = "abandoned"
    BY <1>11 DEF FateOf
  <2> QED
    BY <1>4, <1>5, <1>8, <1>11, <2>1 DEF Promise!Record, fateOf, triesOf, copiesOf
<1>12. CASE status = "skipped"
  <2>1. FateOf(status) = "declined"
    BY <1>12 DEF FateOf
  <2> QED
    BY <1>4, <1>8, <1>9, <1>12, <2>1 DEF Promise!Record, fateOf, triesOf, copiesOf
<1> QED
  BY <1>10, <1>11, <1>12 DEF Settled

\* Beginning an effect is one more try, of which the attempts leave one.
LEMMA StartTries ==
    ASSUME PromiseInv, OutboxInv', NEW w \in Workers, StartEffect(w)
    PROVE  Promise!Try(job[w].row)
<1> DEFINE r == job[w].row
           t == job[w].token
<1>1. /\ TypeOK /\ JobHistory(w) /\ job[w].pc = "claimed"
      /\ started' = [started EXCEPT ![r] = @ \cup {t}]
      /\ UNCHANGED <<queue, issued, landed>>
  BY DEF StartEffect, PromiseInv, OutboxInv
<1>2. r \in Rows /\ issued[r] \in Nat /\ t \in 1..issued[r] /\ queue[r].status # "none"
  BY <1>1, BusyMeansClaimed DEF PromiseInv
<1>3. t \notin started[r] /\ \A s \in Rows : started'[s] = IF s = r THEN started[r] \cup {t}
                                                                   ELSE started[s]
  BY <1>1 DEF JobHistory, TypeOK
<1>4. Cardinality(started[r] \cup {t}) = Cardinality(started[r]) + 1
      /\ IsFiniteSet(started[r] \cup {t})
  BY <1>2, <1>3, FiniteHistories, FS_AddElement
<1>5. triesOf' = [triesOf EXCEPT ![r] = @ + 1]
  BY <1>2, <1>3, <1>4 DEF triesOf
<1>6. started[r] \cup {t} \subseteq 1..MaxAttempts
  <2>1. \A s \in Rows : RowInv(s)'
    BY DEF OutboxInv
  <2> QED
    BY <1>1, <1>2, <1>3, <2>1 DEF RowInv
<1>7. Cardinality(started[r] \cup {t}) <= MaxAttempts
  <2>1. MaxAttempts \in Nat /\ MaxAttempts >= 1
    BY OutboxAssumption
  <2>2. IsFiniteSet(1..MaxAttempts) /\ Cardinality(1..MaxAttempts) = MaxAttempts
    BY <2>1, FS_Interval
  <2> QED
    BY <1>6, <2>2, FS_Subset
<1>8. triesOf[r] < MaxAttempts
  <2>1. Cardinality(started[r]) \in Nat
    BY <1>2, FiniteHistories
  <2>2. MaxAttempts \in Nat
    BY OutboxAssumption
  <2> QED
    BY <1>2, <1>4, <1>7, <2>1, <2>2 DEF triesOf
<1>9. fateOf[r] # "none"
  BY <1>1, <1>2 DEF fateOf, FateOf, TypeOK, Row, Statuses, Settled
<1>10. UNCHANGED <<fateOf, copiesOf>>
  BY <1>1 DEF fateOf, FateOf, copiesOf
<1> QED
  BY <1>5, <1>8, <1>9, <1>10 DEF Promise!Try, fateOf, triesOf, copiesOf

\* A landing effect, its answer lost or not, is one copy of a try that had none.
LEMMA EffectLands ==
    ASSUME PromiseInv, NEW w \in Workers, job[w].pc = "executing",
           landed' = [landed EXCEPT ![job[w].row] = @ \cup {job[w].token}],
           UNCHANGED <<queue, started>>
    PROVE  Promise!Land(job[w].row)
<1> DEFINE r == job[w].row
           t == job[w].token
<1>1. TypeOK /\ JobHistory(w)
  BY DEF PromiseInv, OutboxInv
<1>2. r \in Rows
  BY BusyMeansClaimed DEF PromiseInv
<1>3. t \in started[r] /\ t \notin landed[r]
  BY <1>1 DEF JobHistory
<1>4. \A s \in Rows : landed'[s] = IF s = r THEN landed[r] \cup {t} ELSE landed[s]
  BY <1>1 DEF TypeOK
<1>5. Cardinality(landed[r] \cup {t}) = Cardinality(landed[r]) + 1
  BY <1>2, <1>3, FiniteHistories, FS_AddElement
<1>6. copiesOf' = [copiesOf EXCEPT ![r] = @ + 1]
  BY <1>2, <1>4, <1>5 DEF copiesOf
<1>7. copiesOf[r] < triesOf[r]
  BY <1>2, <1>3, FiniteHistories DEF copiesOf, triesOf
<1>8. UNCHANGED <<fateOf, triesOf>>
  BY DEF fateOf, FateOf, triesOf
<1> QED
  BY <1>6, <1>7, <1>8 DEF Promise!Land, fateOf, triesOf, copiesOf

\* A settlement statement that finds its claim concludes the work: delivered
\* after its own copy landed, declined after its own try, or abandoned.  One
\* that does not, and one that schedules a retry, leaves the fate alone.
LEMMA SettlementConcludes ==
    ASSUME PromiseInv, NEW w \in Workers, job[w].pc \in Marks, SettleStatement(job[w]),
           UNCHANGED <<started, landed>>
    PROVE  Promise!Conclude(job[w].row) \/ UNCHANGED <<fateOf, triesOf, copiesOf>>
<1> DEFINE j == job[w]
           r == job[w].row
<1>1. /\ TypeOK /\ OutboxInv /\ JobInv(w) /\ JobHistory(w)
      /\ j \in Job /\ r \in Rows /\ j.pc # "idle" /\ queue[r] \in Row
  BY DEF PromiseInv, OutboxInv, TypeOK, Marks
<1>2. CASE queue' = queue
  BY <1>2, PromiseStutter
<1>3. CASE queue' # queue
  <2>1. queue' = [queue EXCEPT ![r] = SettledRow(j)] /\ queue[r].status = "pending"
    BY <1>3 DEF SettleStatement, ClaimedPendingWhere
  <2>2. fateOf' = [fateOf EXCEPT ![r] = FateOf(SettledRow(j).status)]
        /\ UNCHANGED <<triesOf, copiesOf>>
    BY <1>1, <2>1, FateChanges DEF TypeOK
  <2>3. fateOf[r] = "owed"
    BY <1>1, <2>1 DEF fateOf, FateOf
  <2>4. /\ Cardinality(started[r]) \in Nat /\ Cardinality(landed[r]) \in Nat
        /\ started[r] # {} => Cardinality(started[r]) > 0
        /\ landed[r] # {} => Cardinality(landed[r]) > 0
    BY <1>1, FiniteHistories, FS_EmptySet
  <2>5. CASE j.pc = "markDone"
    <3>1. FateOf(SettledRow(j).status) = "delivered"
      BY <1>1, <2>5, SettledRowFields DEF FateOf
    <3>2. copiesOf[r] > 0
      BY <1>1, <2>4, <2>5 DEF JobInv, copiesOf
    <3> QED
      BY <2>2, <2>3, <3>1, <3>2 DEF Promise!Conclude, fateOf, triesOf, copiesOf
  <2>6. CASE j.pc = "markSkipped"
    <3>1. FateOf(SettledRow(j).status) = "declined"
      BY <1>1, <2>6, SettledRowFields DEF FateOf
    <3>2. triesOf[r] > 0
      BY <1>1, <2>4, <2>6 DEF JobHistory, triesOf
    <3> QED
      BY <2>2, <2>3, <3>1, <3>2 DEF Promise!Conclude, fateOf, triesOf, copiesOf
  <2>7. CASE j.pc = "markFailed"
    <3>1. FateOf(SettledRow(j).status) = "abandoned"
      BY <1>1, <2>7, SettledRowFields DEF FateOf
    <3> QED
      BY <2>2, <2>3, <3>1 DEF Promise!Conclude, fateOf, triesOf, copiesOf
  <2>8. CASE j.pc = "markRetry"
    <3>1. SettledRow(j).status = "pending"
      BY <1>1, <2>1, <2>8, SettledRowFields
    <3>2. \A s \in Rows : queue'[s].status = queue[s].status
      BY <1>1, <2>1, <3>1 DEF TypeOK
    <3> QED
      BY <3>2, PromiseStutter
  <2> QED
    BY <2>5, <2>6, <2>7, <2>8 DEF Marks
<1> QED
  BY <1>2, <1>3

\* What a worker does between a claim and its end.
LEMMA ProcessSimulates ==
    ASSUME PromiseInv, OutboxInv', NEW w \in Workers, Process(w) \/ SettleThrows(w) \/ Crash(w)
    PROVE  Promise!PromiseNext \/ UNCHANGED <<fateOf, triesOf, copiesOf>>
<1>0. job[w].row \in Rows
  <2>1. job[w].pc # "idle"
    BY DEF Process, AbandonLapsedClaim, OutOfAttempts, StartEffect, EffectSucceeds, EffectSkips,
           EffectThrows, Settle, SettleThrows, Crash, Marks
  <2> QED
    BY <2>1, BusyMeansClaimed DEF PromiseInv
<1>1. CASE UNCHANGED <<queue, started, landed>>
  BY <1>1, PromiseStutter
<1>2. CASE StartEffect(w)
  BY <1>0, <1>2, StartTries DEF Promise!PromiseNext
<1>3. CASE EffectSucceeds(w) \/ EffectThrows(w)
  <2>1. \/ UNCHANGED <<queue, started, landed>>
        \/ /\ job[w].pc = "executing"
           /\ landed' = [landed EXCEPT ![job[w].row] = @ \cup {job[w].token}]
           /\ UNCHANGED <<queue, started>>
    BY <1>3 DEF EffectSucceeds, EffectThrows
  <2> QED
    BY <1>0, <1>1, <2>1, EffectLands DEF Promise!PromiseNext
<1>4. CASE Settle(w) \/ SettleThrows(w)
  <2>1. /\ job[w].pc \in Marks
        /\ SettleStatement(job[w]) \/ queue' = queue
        /\ UNCHANGED <<started, landed>>
    BY <1>4 DEF Settle, SettleThrows
  <2> QED
    BY <1>0, <1>1, <2>1, SettlementConcludes DEF Promise!PromiseNext
<1> QED
  BY <1>1, <1>2, <1>3, <1>4
     DEF Process, AbandonLapsedClaim, OutOfAttempts, EffectSkips, Crash

\* Every step of the queue and its workers is a step of the promise, or none.
LEMMA NextSimulates ==
    ASSUME PromiseInv, OutboxInv', [Next]_vars
    PROVE  Promise!PromiseNext \/ UNCHANGED <<fateOf, triesOf, copiesOf>>
<1>0. TypeOK
  BY DEF PromiseInv, OutboxInv
<1>1. CASE UNCHANGED vars
  BY <1>1, PromiseStutter DEF vars
<1>2. ASSUME NEW r \in Rows, Produce(r) PROVE Promise!PromiseNext
  <2>1. Promise!Owe(r) \/ Promise!Record(r) \/ Promise!Conclude(r)
    BY <1>2, EnqueueOwes, RecordRecords, DeleteCancels DEF Produce
  <2> QED
    BY <2>1 DEF Promise!PromiseNext
<1>3. ASSUME NEW w \in Workers, NEW r \in Rows, NEW lag \in 0..MaxLag, ClaimDueOutbox(w, r, lag)
      PROVE  UNCHANGED <<fateOf, triesOf, copiesOf>>
  <2>1. ClaimedAttempts(r) \in Nat /\ issued[r] + 1 \in Nat /\ lag \in Nat /\ queue[r] \in Row
    BY <1>0, OutboxAssumption DEF ClaimedAttempts, TypeOK, Row
  <2>2. /\ \A s \in Rows \ {r} : queue'[s] = queue[s]
        /\ queue'[r] = [queue[r] EXCEPT !.attempts = ClaimedAttempts(r),
                                        !.claimedBy = issued[r] + 1,
                                        !.age = lag]
        /\ UNCHANGED <<started, landed>>
    BY <1>0, <1>3 DEF ClaimDueOutbox, TypeOK
  <2>3. queue'[r].status = queue[r].status
    BY <2>1, <2>2, ClaimedRowFields
  <2>4. \A s \in Rows : queue'[s].status = queue[s].status
    BY <2>2, <2>3
  <2> QED
    BY <2>2, <2>4, PromiseStutter
<1>4. CASE Tick
  <2>1. \A r \in Rows : queue'[r] = OlderRow(queue[r]) /\ queue[r] \in Row
    BY <1>0, <1>4 DEF Tick, TypeOK
  <2>2. \A r \in Rows : queue'[r].status = queue[r].status
    BY <2>1, OlderRowFields
  <2> QED
    BY <1>4, <2>2, PromiseStutter DEF Tick
<1> QED
  BY <1>1, <1>2, <1>3, <1>4, ProcessSimulates DEF Next, Claim

\* The outbox implements the promise, for any number of rows and replicas:
\* bounded tries, at most one copy a try, and a fate that is final and true.
THEOREM OutboxImplementsPromise == Spec => ImplementsPromise
<1>1. Init => Promise!PromiseInit
  <2> SUFFICES ASSUME Init PROVE Promise!PromiseInit
    OBVIOUS
  <2>1. Cardinality({}) = 0
    BY FS_EmptySet
  <2>2. \A r \in Rows : FateOf(queue[r].status) = "none" /\ started[r] = {} /\ landed[r] = {}
    BY DEF Init, NewRow, FateOf
  <2> QED
    BY <2>1, <2>2 DEF Promise!PromiseInit
<1>2. PromiseInv /\ PromiseInv' /\ [Next]_vars => [Promise!PromiseNext]_Promise!promiseVars
  <2> SUFFICES ASSUME PromiseInv, PromiseInv', [Next]_vars
               PROVE  Promise!PromiseNext \/ UNCHANGED Promise!promiseVars
    OBVIOUS
  <2>1. Promise!PromiseNext \/ UNCHANGED <<fateOf, triesOf, copiesOf>>
    BY NextSimulates DEF PromiseInv
  <2> QED
    BY <2>1 DEF Promise!promiseVars, fateOf, triesOf, copiesOf
<1> QED
  BY <1>1, <1>2, OutboxHistories, PTL DEF Spec, ImplementsPromise, Promise!PromiseSpec

=============================================================================
