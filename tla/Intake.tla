------------------------------- MODULE Intake -------------------------------
(***************************************************************************)
(* SubmissionService.submit and what it enqueues: one session's requests    *)
(* from the spam check through upsertSubmission (module Submission) to the  *)
(* emails, the destination deliveries and the activation claim, with the    *)
(* outbox rows they leave for the worker.                                   *)
(*                                                                          *)
(* None of this is one transaction.  The emails are not even awaited:       *)
(* mails[q] holds the email tasks request q left running behind it.         *)
(* Here an outbox row is pending until it is settled or deleted, and        *)
(* inFlight says a worker has begun to deliver it; module Outbox has the    *)
(* claims, leases and retries in between.                                   *)
(***************************************************************************)
EXTENDS Submission

CONSTANTS
    Dests,      \* indices of the enabled entries of config.destinations
    Kind,       \* destination -> its type, which is its outbox kind
    Events,     \* destination -> the phases it fires for
    MailKinds,  \* submission_received, and submission_confirmed if addressed
    Protected   \* whether spam protection is active on the form

ASSUME IntakeAssumption ==
    /\ Dests \subseteq Nat
    /\ IsFiniteSet(Dests)
    /\ Events \in [Dests -> SUBSET {"partial", "complete"}]
    /\ Protected \in BOOLEAN

VARIABLES
    stage,      \* where each request is in submit()
    verdict,    \* what the challenge said of each request that met it
    toCancel,   \* kinds whose pending rows the request has still to delete
    toEnqueue,  \* destinations it has still to enqueue
    mails,      \* its email tasks still running
    mailed,     \* history: <<request, email>> rows enqueued
    rows,       \* the destination rows: <<request, destination>> -> status
    inFlight,   \* rows a worker is delivering
    activated   \* the request that won the account's activation claim

effects == <<verdict, toCancel, toEnqueue, mails, mailed, rows, inFlight, activated>>
vars == <<subVars, stage, effects>>

Stages == {"unsent", "gate", "upsert", "deliver", "activate", "answer",
           "accepted", "unavailable", "refused", "dead"}
AtRest == {"unsent", "accepted", "unavailable", "refused", "dead"}
Deliveries == Requests \X Dests

PhaseOf(q) == IF req[q].partial THEN "partial" ELSE "complete"
FiringFor(phase) == {d \in Dests : phase \in Events[d]}

IntakeInit ==
    /\ SubmissionInit
    /\ stage = [q \in Requests |-> "unsent"]
    /\ verdict = [q \in Requests |-> "none"]
    /\ toCancel = [q \in Requests |-> {}]
    /\ toEnqueue = [q \in Requests |-> {}]
    /\ mails = [q \in Requests |-> {}]
    /\ mailed = {}
    /\ rows = [k \in Deliveries |-> "none"]
    /\ inFlight = {}
    /\ activated = {}

(***************************************************************************)
(* submit(), up to the row.                                                 *)
(***************************************************************************)

\* A submit that is refused before the challenge: no such form, an answer too
\* long, a complete the form could not have produced.  Nothing is written.
Refuse(q) ==
    /\ stage[q] = "unsent"
    /\ stage' = [stage EXCEPT ![q] = "refused"]
    /\ UNCHANGED <<subVars, effects>>

\* A partial, or a complete of an unprotected form, goes straight to the row.
\* (verifyAnswers, in between, only refuses or rewrites the file answers.)
Submit(q, partial, hasVisit) ==
    /\ stage[q] = "unsent"
    /\ partial \/ ~Protected
    /\ Arrive(q, partial, hasVisit)
    /\ stage' = [stage EXCEPT ![q] = "upsert"]
    /\ UNCHANGED effects

\* A complete of a protected form meets the challenge first.
SubmitToGate(q) ==
    /\ stage[q] = "unsent"
    /\ Protected
    /\ stage' = [stage EXCEPT ![q] = "gate"]
    /\ UNCHANGED <<subVars, effects>>

\* challengeGate: pass, no verdict to be had, or a refusal.  Without a
\* verdict the answers go on as a partial.
Gate(q, hasVisit) ==
    /\ stage[q] = "gate"
    /\ \/ /\ Arrive(q, FALSE, hasVisit)
          /\ verdict' = [verdict EXCEPT ![q] = "passed"]
          /\ stage' = [stage EXCEPT ![q] = "upsert"]
       \/ /\ Arrive(q, TRUE, hasVisit)
          /\ verdict' = [verdict EXCEPT ![q] = "unavailable"]
          /\ stage' = [stage EXCEPT ![q] = "upsert"]
       \/ /\ stage' = [stage EXCEPT ![q] = "refused"]
          /\ UNCHANGED <<subVars, verdict>>
    /\ UNCHANGED <<toCancel, toEnqueue, mails, mailed, rows, inFlight, activated>>

UpsertStep(q) ==
    /\ stage[q] = "upsert"
    /\ Upsert(q) \/ InsertUnheard(q)
    /\ UNCHANGED <<stage, effects>>

(***************************************************************************)
(* submit(), from the row on.                                               *)
(***************************************************************************)

\* Mutant: every landing takes itself for the first one.
ReCompletedIgnored(q) == FALSE

\* reCompleted: a complete whose row was completed before it.
ReCompleted(q) == ~req[q].partial /\ req[q].was

\* Mutant: protection forgotten when a partial is delivered.
DeliversUnverified(q) == ~ReCompleted(q)

\* A partial of a protected form is saved and never delivered.
Delivers(q) == ~ReCompleted(q) /\ ~(Protected /\ req[q].partial)

\* Between the upsert's answer and the next await: the email tasks are
\* started and left alone, and the deliveries are worked out.
Dispatch(q) ==
    LET firing == IF Delivers(q) THEN FiringFor(PhaseOf(q)) ELSE {} IN
    /\ stage[q] = "upsert"
    /\ req[q].pc = "stored"
    /\ mails' = [mails EXCEPT ![q] = IF req[q].partial \/ ReCompleted(q) THEN {} ELSE MailKinds]
    /\ toCancel' = [toCancel EXCEPT ![q] = {Kind[d] : d \in firing}]
    /\ toEnqueue' = [toEnqueue EXCEPT ![q] = firing]
    /\ stage' = [stage EXCEPT ![q] = "deliver"]
    /\ UNCHANGED <<subVars, verdict, mailed, rows, inFlight, activated>>

\* deletePendingOutbox: one statement per kind deletes every pending row of
\* this submission, kind and phase, in flight or not.
Cancelled(q, kind) ==
    [k \in Deliveries |->
        IF rows[k] = "pending" /\ Kind[k[2]] = kind /\ PhaseOf(k[1]) = PhaseOf(q)
        THEN "deleted" ELSE rows[k]]

CancelPending(q) ==
    /\ stage[q] = "deliver"
    /\ \E kind \in toCancel[q] :
          /\ rows' = Cancelled(q, kind)
          /\ toCancel' = [toCancel EXCEPT ![q] = @ \ {kind}]
    /\ UNCHANGED <<subVars, stage, verdict, toEnqueue, mails, mailed, inFlight, activated>>

\* Mutant: the cancel inside the loop, which takes the sibling just enqueued.
EnqueueDeliveryCancelling(q) ==
    /\ stage[q] = "deliver"
    /\ toCancel[q] = {}
    /\ \E d \in toEnqueue[q] :
          /\ \A e \in toEnqueue[q] : d <= e
          /\ rows' = [Cancelled(q, Kind[d]) EXCEPT ![<<q, d>>] = "pending"]
          /\ toEnqueue' = [toEnqueue EXCEPT ![q] = @ \ {d}]
    /\ UNCHANGED <<subVars, stage, verdict, toCancel, mails, mailed, inFlight, activated>>

\* enqueueOutbox, destination by destination in config order.
EnqueueDelivery(q) ==
    /\ stage[q] = "deliver"
    /\ toCancel[q] = {}
    /\ \E d \in toEnqueue[q] :
          /\ \A e \in toEnqueue[q] : d <= e
          /\ rows' = [rows EXCEPT ![<<q, d>>] = "pending"]
          /\ toEnqueue' = [toEnqueue EXCEPT ![q] = @ \ {d}]
    /\ UNCHANGED <<subVars, stage, verdict, toCancel, mails, mailed, inFlight, activated>>

\* A statement of enqueueSubmissionDeliveries rejects: its catch logs, and
\* what was left to cancel and to enqueue is dropped.
EnqueueFails(q) ==
    /\ stage[q] = "deliver"
    /\ toEnqueue[q] # {}
    /\ SpendFault
    /\ toCancel' = [toCancel EXCEPT ![q] = {}]
    /\ toEnqueue' = [toEnqueue EXCEPT ![q] = {}]
    /\ UNCHANGED <<row, req, owner, unheard, stage, verdict, mails, mailed, rows,
                   inFlight, activated>>

DeliveriesQueued(q) ==
    /\ stage[q] = "deliver"
    /\ toCancel[q] = {}
    /\ toEnqueue[q] = {}
    /\ stage' = [stage EXCEPT ![q] = IF req[q].partial THEN "answer" ELSE "activate"]
    /\ UNCHANGED <<subVars, effects>>

\* Mutant: the read-then-act the claim replaced, as seen by a request that
\* asked before anybody else's claim was visible.
ClaimActivationUnguarded(q) ==
    /\ stage[q] = "activate"
    /\ activated' = activated \cup {q}
    /\ stage' = [stage EXCEPT ![q] = "answer"]
    /\ UNCHANGED <<subVars, verdict, toCancel, toEnqueue, mails, mailed, rows, inFlight>>

\* claimAccountActivation: UPDATE ... WHERE activated_at IS NULL RETURNING,
\* on every complete, re-landed ones included.
ClaimActivation(q) ==
    /\ stage[q] = "activate"
    /\ activated' = IF activated = {} THEN {q} ELSE activated
    /\ stage' = [stage EXCEPT ![q] = "answer"]
    /\ UNCHANGED <<subVars, verdict, toCancel, toEnqueue, mails, mailed, rows, inFlight>>

\* The claim rejects, committed or not: its catch logs and the submit goes on.
ClaimFails(q) ==
    /\ stage[q] = "activate"
    /\ SpendFault
    /\ activated' \in {activated, IF activated = {} THEN {q} ELSE activated}
    /\ stage' = [stage EXCEPT ![q] = "answer"]
    /\ UNCHANGED <<row, req, owner, unheard, verdict, toCancel, toEnqueue, mails, mailed, rows,
                   inFlight>>

\* A complete the check had to store as a partial is answered 503.
Answer(q) ==
    /\ stage[q] = "answer"
    /\ stage' = [stage EXCEPT ![q] = IF verdict[q] = "unavailable"
                                     THEN "unavailable" ELSE "accepted"]
    /\ UNCHANGED <<subVars, effects>>

\* An email task: it enqueues its row, or fails and only logs.
EnqueueMail(q) ==
    /\ \E m \in mails[q] :
          /\ mailed' = mailed \cup {<<q, m>>}
          /\ mails' = [mails EXCEPT ![q] = @ \ {m}]
    /\ UNCHANGED <<subVars, stage, verdict, toCancel, toEnqueue, rows, inFlight, activated>>

MailFails(q) ==
    /\ SpendFault
    /\ \E m \in mails[q] : mails' = [mails EXCEPT ![q] = @ \ {m}]
    /\ UNCHANGED <<row, req, owner, unheard, stage, verdict, toCancel, toEnqueue, mailed, rows,
                   inFlight, activated>>

\* The process serving the request dies, its email tasks with it.
Crash(q) ==
    /\ stage[q] \notin AtRest \/ mails[q] # {}
    /\ SpendFault
    /\ stage' = [stage EXCEPT ![q] = IF @ \in AtRest THEN @ ELSE "dead"]
    /\ mails' = [mails EXCEPT ![q] = {}]
    /\ toCancel' = [toCancel EXCEPT ![q] = {}]
    /\ toEnqueue' = [toEnqueue EXCEPT ![q] = {}]
    /\ UNCHANGED <<row, req, owner, unheard, verdict, mailed, rows, inFlight, activated>>

(***************************************************************************)
(* The worker, as the destination rows see it.                              *)
(***************************************************************************)

BeginDelivery(k) ==
    /\ rows[k] = "pending"
    /\ k \notin inFlight
    /\ inFlight' = inFlight \cup {k}
    /\ UNCHANGED <<subVars, stage, verdict, toCancel, toEnqueue, mails, mailed, rows, activated>>

\* It lands, or is given up.  A row deleted meanwhile stays deleted: the
\* settlement finds nothing.
EndDelivery(k) ==
    /\ k \in inFlight
    /\ inFlight' = inFlight \ {k}
    /\ \E outcome \in {"done", "failed"} :
          rows' = [rows EXCEPT ![k] = IF @ = "pending" THEN outcome ELSE @]
    /\ UNCHANGED <<subVars, stage, verdict, toCancel, toEnqueue, mails, mailed, activated>>

Serve(q) ==
    \/ \E hasVisit \in BOOLEAN : Gate(q, hasVisit)
    \/ UpsertStep(q)
    \/ Dispatch(q)
    \/ CancelPending(q)
    \/ EnqueueDelivery(q)
    \/ DeliveriesQueued(q)
    \/ ClaimActivation(q)
    \/ Answer(q)

Deliver(k) == BeginDelivery(k) \/ EndDelivery(k)

IntakeNext ==
    \/ \E q \in Requests :
          \/ Refuse(q)
          \/ \E partial, hasVisit \in BOOLEAN : Submit(q, partial, hasVisit)
          \/ SubmitToGate(q)
          \/ Serve(q)
          \/ EnqueueMail(q)
          \/ EnqueueFails(q) \/ ClaimFails(q) \/ MailFails(q) \/ Crash(q)
    \/ \E k \in Deliveries : Deliver(k)

IntakeSpec == IntakeInit /\ [][IntakeNext]_vars

FairIntakeSpec ==
    /\ IntakeSpec
    /\ \A q \in Requests : WF_vars(Serve(q)) /\ WF_vars(EnqueueMail(q))
    /\ \A k \in Deliveries : WF_vars(Deliver(k))

(***************************************************************************)
(* Correctness.                                                             *)
(***************************************************************************)

IntakeTypeOK ==
    /\ SubmissionTypeOK
    /\ stage \in [Requests -> Stages]
    /\ verdict \in [Requests -> {"none", "passed", "unavailable"}]
    /\ toCancel \in [Requests -> SUBSET {Kind[d] : d \in Dests}]
    /\ toEnqueue \in [Requests -> SUBSET Dests]
    /\ mails \in [Requests -> SUBSET MailKinds]
    /\ mailed \in SUBSET (Requests \X MailKinds)
    /\ rows \in [Deliveries -> {"none", "pending", "done", "failed", "deleted"}]
    /\ inFlight \in SUBSET Deliveries
    /\ activated \in SUBSET Requests

\* However completes, retries and second tabs race, each destination is given
\* the completion at most once and each email is enqueued at most once: all
\* of it by one request.
CompletionEffectsOnce ==
    \A p, q \in Requests :
        /\ p # q
        /\ ~req[p].partial
        /\ ~req[q].partial
        => /\ \A d \in Dests : rows[<<p, d>>] = "none" \/ rows[<<q, d>>] = "none"
           /\ \A m \in MailKinds : <<p, m>> \notin mailed \/ <<q, m>> \notin mailed

\* With spam protection on, nothing is delivered, emailed or activated on the
\* strength of answers that did not pass the challenge, also when the check
\* was unavailable and a retry of it completes the same row.
OnlyVerifiedLeaves ==
    LET verified == {q \in Requests : verdict[q] = "passed"} IN
    Protected =>
        /\ \A k \in Deliveries : rows[k] # "none" => k[1] \in verified
        /\ \A m \in mailed : m[1] \in verified
        /\ activated \subseteq verified

\* One account activation, won by a request whose session really completed.
ActivatedOnce ==
    /\ \A p, q \in activated : p = q
    /\ activated # {} => row.state = "completed"

Quiet == \A q \in Requests : stage[q] \in AtRest /\ mails[q] = {}

\* A row was created for every destination that fires on completion and for
\* every email, and no later save of the session cancelled one.
EffectsQueued ==
    \E q \in Requests :
        /\ ~req[q].partial
        /\ \A d \in FiringFor("complete") : rows[<<q, d>>] \notin {"none", "deleted"}
        /\ \A m \in MailKinds : <<q, m>> \in mailed

\* Without a fault, a completed row has all its effects queued by the time
\* nothing is running: no interleaving of partials, completes and their
\* cancels loses one, sibling destinations of one kind included; and somebody
\* has won the account's activation.
FaultlessCompletionQueued ==
    spent = 0 /\ Quiet /\ row.state = "completed" => EffectsQueued /\ activated # {}

\* "The first landing already owes every effect, so a re-landed complete
\* enqueues nothing": when a re-landed complete was accepted and nothing is
\* running any more, the effects are queued.  False when the first landing
\* dies, or its enqueue fails, after its row was written (an INSERT that goes
\* unheard, which alone loses the effects, is left out here).
ReLandedCompletionQueued ==
    /\ Quiet
    /\ unheard = {}
    /\ \E q \in Requests : stage[q] = "accepted" /\ ReCompleted(q)
    => EffectsQueued

\* Without a fault, every destination that fires on completion eventually has
\* the completion settled, delivered or given up.
CompletionIsDelivered ==
    \A d \in FiringFor("complete") :
        (row.state = "completed" /\ spent = 0) ~>
            (spent > 0 \/ \E q \in Requests : ~req[q].partial /\ rows[<<q, d>>] \in {"done", "failed"})

(***************************************************************************)
(* The invariant behind CompletionEffectsOnce, OnlyVerifiedLeaves and       *)
(* ActivatedOnce.                                                           *)
(***************************************************************************)

HasDeliveries(q) == toEnqueue[q] # {} \/ \E d \in Dests : rows[<<q, d>>] # "none"
HasMail(q) == mails[q] # {} \/ \E m \in MailKinds : <<q, m>> \in mailed

\* Effects exist only after the row, for the completes that own them, and,
\* on a protected form, for the completes that passed.
EffectsEarned(q) ==
    /\ stage[q] \in {"unsent", "gate", "upsert"} =>
          ~HasDeliveries(q) /\ ~HasMail(q) /\ q \notin activated
    /\ stage[q] \in {"unsent", "gate"} => req[q].pc = "unsent"
    /\ stage[q] \in {"deliver", "activate", "answer"} => req[q].pc = "stored"
    /\ stage[q] = "activate" => ~req[q].partial
    /\ HasMail(q) => q \in owner
    /\ HasDeliveries(q) => q \in owner \/ (req[q].partial /\ ~Protected)
    /\ q \in activated => ~req[q].partial /\ req[q].pc = "stored"
    /\ Protected /\ ~req[q].partial /\ req[q].pc # "unsent" => verdict[q] = "passed"

IntakeInv ==
    /\ IntakeTypeOK
    /\ SubmissionInv
    /\ \A q \in Requests : EffectsEarned(q)
    /\ \A p, q \in activated : p = q

(***************************************************************************)
(* The invariant behind FaultlessCompletionQueued, on top of IntakeInv.     *)
(***************************************************************************)

\* A request cancels before it enqueues, and a complete cancels only if it
\* owns the completion: nobody else's cancels reach the completion's rows.
CancelsFirst(q) ==
    toCancel[q] # {} =>
        /\ stage[q] = "deliver"
        /\ req[q].partial \/ q \in owner
        /\ \A d \in Dests : rows[<<q, d>>] = "none"

\* From the moment the owner of the completion is past the row, each of its
\* effects is still to be queued by it, or queued and not cancelled.
OwnerQueues(q) ==
    /\ stage[q] \in {"upsert", "deliver", "activate", "answer", "accepted", "unavailable"}
    /\ stage[q] # "upsert" =>
          /\ \A d \in FiringFor("complete") :
                d \in toEnqueue[q] \/ rows[<<q, d>>] \notin {"none", "deleted"}
          /\ \A m \in MailKinds : m \in mails[q] \/ <<q, m>> \in mailed
    /\ stage[q] \notin {"upsert", "deliver"} => toEnqueue[q] = {}
    /\ stage[q] \in {"answer", "accepted", "unavailable"} => activated # {}

QueuedInv ==
    /\ IntakeInv
    /\ \A q \in Requests : CancelsFirst(q)
    /\ spent = 0 => \A q \in owner : OwnerQueues(q)
=============================================================================
