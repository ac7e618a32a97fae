--------------------------- MODULE DeliveryPromise ---------------------------
(***************************************************************************)
(* What the outbox promises for one unit of work, with no queue, worker,    *)
(* lease or clock in it: the work is owed from the moment it is recorded,   *)
(* it is tried a bounded number of times, a try delivers at most one copy,  *)
(* and the fate recorded for it is final and, for "delivered", true.        *)
(* Delivery is at least once: copies may exceed one, and a copy may still   *)
(* arrive after the fate was recorded.                                      *)
(***************************************************************************)
EXTENDS Naturals

CONSTANTS Works, MaxTries

VARIABLES fate, tries, copies

promiseVars == <<fate, tries, copies>>

Fates == {"none", "owed", "delivered", "abandoned", "declined", "cancelled"}

PromiseInit ==
    /\ fate = [k \in Works |-> "none"]
    /\ tries = [k \in Works |-> 0]
    /\ copies = [k \in Works |-> 0]

Owe(k) ==
    /\ fate[k] = "none"
    /\ fate' = [fate EXCEPT ![k] = "owed"]
    /\ UNCHANGED <<tries, copies>>

\* A delivery made outside the queue and recorded with its outcome.
Record(k) ==
    /\ fate[k] = "none"
    /\ \/ /\ fate' = [fate EXCEPT ![k] = "delivered"]
          /\ tries' = [tries EXCEPT ![k] = 1]
          /\ copies' = [copies EXCEPT ![k] = 1]
       \/ /\ fate' = [fate EXCEPT ![k] = "abandoned"]
          /\ tries' = [tries EXCEPT ![k] = 1]
          /\ UNCHANGED copies
       \/ /\ fate' = [fate EXCEPT ![k] = "declined"]
          /\ UNCHANGED <<tries, copies>>

\* A try may begin after the fate is known: a worker that held a claim keeps
\* acting on its copy of the row.
Try(k) ==
    /\ fate[k] # "none"
    /\ tries[k] < MaxTries
    /\ tries' = [tries EXCEPT ![k] = @ + 1]
    /\ UNCHANGED <<fate, copies>>

Land(k) ==
    /\ copies[k] < tries[k]
    /\ copies' = [copies EXCEPT ![k] = @ + 1]
    /\ UNCHANGED <<fate, tries>>

Conclude(k) ==
    /\ fate[k] = "owed"
    /\ \/ copies[k] > 0 /\ fate' = [fate EXCEPT ![k] = "delivered"]
       \/ fate' = [fate EXCEPT ![k] = "abandoned"]
       \/ tries[k] > 0 /\ fate' = [fate EXCEPT ![k] = "declined"]
       \/ fate' = [fate EXCEPT ![k] = "cancelled"]
    /\ UNCHANGED <<tries, copies>>

PromiseNext == \E k \in Works : Owe(k) \/ Record(k) \/ Try(k) \/ Land(k) \/ Conclude(k)

PromiseSpec == PromiseInit /\ [][PromiseNext]_promiseVars
=============================================================================
