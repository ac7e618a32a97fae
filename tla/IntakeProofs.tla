---------------------------- MODULE IntakeProofs ----------------------------
(***************************************************************************)
(* IntakeInv is inductive for every set of requests, destinations and       *)
(* emails; from it, the completion's effects are had once, by the complete  *)
(* that owns them, and only on verified answers.                            *)
(***************************************************************************)
EXTENDS Intake, SubmissionProofs

\* The variables of submit() and of the worker, request by request.
LEMMA InitIntakeInv == IntakeInit => IntakeInv
<1> SUFFICES ASSUME IntakeInit PROVE IntakeInv
  OBVIOUS
<1>1. SubmissionInv /\ \A q \in Requests : req[q].pc = "unsent"
  BY InitSubmissionInv DEF IntakeInit, SubmissionInit, NewRequest
<1>2. IntakeTypeOK
  BY <1>1, IntakeAssumption DEF IntakeInit, IntakeTypeOK, SubmissionInv, Stages, Deliveries
<1>3. \A q \in Requests : EffectsEarned(q)
  BY <1>1 DEF IntakeInit, EffectsEarned, HasDeliveries, HasMail, Deliveries
<1> QED
  BY <1>1, <1>2, <1>3 DEF IntakeInv, IntakeInit

\* The submission's own part survives a step that leaves it alone.
LEMMA SubmissionUntouched ==
    ASSUME SubmissionInv, UNCHANGED <<row, req, owner, unheard>>, SpendFault \/ spent' = spent
    PROVE  SubmissionInv'
  BY SpentType
     DEF SubmissionInv, SubmissionTypeOK, OneCompleted, ReadsAge, OwnersKnowIt,
         CompletedHoldsComplete, CompletionIsOwned

\* A request is accepted, or refused, by the checks.
LEMMA AdmitInv ==
    ASSUME IntakeInv, NEW q \in Requests,
           \/ Refuse(q) \/ SubmitToGate(q)
           \/ \E partial, hasVisit \in BOOLEAN : Submit(q, partial, hasVisit)
           \/ \E hasVisit \in BOOLEAN : Gate(q, hasVisit)
    PROVE  IntakeInv'
<1> DEFINE unchanged == <<toCancel, toEnqueue, mails, mailed, rows, inFlight, activated>>
<1>0. UNCHANGED unchanged /\ stage[q] \in {"unsent", "gate"}
  BY DEF Refuse, SubmitToGate, Submit, Gate, effects
<1>1. /\ stage' \in [Requests -> Stages]
      /\ verdict' \in [Requests -> {"none", "passed", "unavailable"}]
      /\ \A p \in Requests \ {q} : stage'[p] = stage[p] /\ verdict'[p] = verdict[p]
      /\ stage'[q] \in {"gate", "upsert", "refused"}
  BY DEF IntakeInv, IntakeTypeOK, Stages, Refuse, SubmitToGate, Submit, Gate, effects
<1>2. CASE UNCHANGED subVars
  <2>1. SubmissionInv'
    BY <1>2, SubmissionUntouched DEF subVars, IntakeInv
  <2>2. stage'[q] # "upsert" /\ verdict'[q] = verdict[q]
    BY <1>2 DEF Refuse, SubmitToGate, Submit, Gate, Arrive, effects, subVars, IntakeInv,
                IntakeTypeOK, NewRequest, SubmissionTypeOK
  <2>3. \A p \in Requests : EffectsEarned(p)'
    BY <1>0, <1>1, <1>2, <2>2 DEF IntakeInv, EffectsEarned, HasDeliveries, HasMail, subVars
  <2> QED
    BY <1>0, <1>1, <2>1, <2>3 DEF IntakeInv, IntakeTypeOK, SubmissionInv
<1>3. ASSUME NEW partial \in BOOLEAN, NEW hasVisit \in BOOLEAN, Arrive(q, partial, hasVisit),
             stage'[q] = "upsert",
             Protected => partial \/ verdict'[q] = "passed"
      PROVE  IntakeInv'
  <2>1. SubmissionInv'
    BY <1>3, ArriveInv DEF IntakeInv
  <2>2. /\ \A p \in Requests \ {q} : req'[p] = req[p]
        /\ req'[q].partial = partial /\ req'[q].pc = "select"
        /\ owner' = owner
    BY <1>3 DEF Arrive, NewRequest, IntakeInv, SubmissionInv, SubmissionTypeOK
  <2>3. \A p \in Requests : EffectsEarned(p)'
    <3>1. EffectsEarned(q)'
      BY <1>0, <1>1, <1>3, <2>2 DEF IntakeInv, EffectsEarned, HasDeliveries, HasMail
    <3>2. ASSUME NEW p \in Requests \ {q} PROVE EffectsEarned(p)'
      <4>1. EffectsEarned(p) /\ stage'[p] = stage[p] /\ verdict'[p] = verdict[p]
            /\ req'[p] = req[p] /\ owner' = owner
        BY <1>1, <2>2 DEF IntakeInv
      <4> QED
        BY <1>0, <4>1 DEF EffectsEarned, HasDeliveries, HasMail
    <3> QED
      BY <3>1, <3>2
  <2> QED
    BY <1>0, <1>1, <2>1, <2>3 DEF IntakeInv, IntakeTypeOK, SubmissionInv
<1>4. \/ UNCHANGED subVars
      \/ \E partial, hasVisit \in BOOLEAN :
            /\ Arrive(q, partial, hasVisit)
            /\ stage'[q] = "upsert"
            /\ Protected => partial \/ verdict'[q] = "passed"
  BY DEF Refuse, SubmitToGate, Submit, Gate, IntakeInv, IntakeTypeOK
<1> QED
  BY <1>2, <1>3, <1>4

LEMMA UpsertStepInv ==
    ASSUME IntakeInv, NEW q \in Requests, UpsertStep(q) PROVE IntakeInv'
<1>0. SubmissionInv /\ (Upsert(q) \/ InsertUnheard(q)) /\ stage[q] = "upsert"
      /\ UNCHANGED <<stage, effects>>
  BY DEF UpsertStep, IntakeInv
<1>1. SubmissionInv'
  BY <1>0, UpsertInv
<1>2. /\ req[q].pc \in InUpsert /\ req'[q].pc # "unsent"
      /\ req'[q].partial = req[q].partial
      /\ \A p \in Requests \ {q} : req'[p] = req[p]
      /\ \A p \in Requests \ {q} : p \in owner' <=> p \in owner
  BY <1>0, UpsertFrame
<1>3. \A p \in Requests : EffectsEarned(p)'
  BY <1>0, <1>2 DEF effects, IntakeInv, EffectsEarned, HasDeliveries, HasMail, InUpsert
<1> QED
  BY <1>0, <1>1, <1>3 DEF effects, IntakeInv, IntakeTypeOK, SubmissionInv

\* A request keeps what it has earned, or loses some of it, at rest or where
\* it stands.
LEMMA KeepsEarned ==
    ASSUME IntakeInv, NEW p \in Requests,
           UNCHANGED <<req, owner, verdict>>,
           stage'[p] \in {stage[p], "dead", "accepted", "unavailable"},
           toEnqueue'[p] \subseteq toEnqueue[p],
           \A d \in Dests : rows'[<<p, d>>] # "none" =>
               toEnqueue[p] # {} \/ rows[<<p, d>>] # "none",
           mails'[p] \subseteq mails[p],
           \A m \in MailKinds : <<p, m>> \in mailed' => mails[p] # {} \/ <<p, m>> \in mailed,
           p \in activated' => p \in activated
    PROVE  EffectsEarned(p)'
<1>1. EffectsEarned(p)
  BY DEF IntakeInv
<1>2. (toEnqueue'[p] # {} \/ \E d \in Dests : rows'[<<p, d>>] # "none") => HasDeliveries(p)
  BY DEF HasDeliveries
<1>3. (mails'[p] # {} \/ \E m \in MailKinds : <<p, m>> \in mailed') => HasMail(p)
  BY DEF HasMail
<1>4. (stage'[p] \in {"unsent", "gate", "upsert", "deliver", "activate", "answer"}) =>
         stage'[p] = stage[p]
  BY DEF IntakeInv, IntakeTypeOK
<1>5. HasDeliveries(p)' => HasDeliveries(p)
  BY <1>2 DEF HasDeliveries
<1>6. HasMail(p)' => HasMail(p)
  BY <1>3 DEF HasMail
<1> QED
  BY <1>1, <1>4, <1>5, <1>6 DEF EffectsEarned

LEMMA DispatchInv == ASSUME IntakeInv, NEW q \in Requests, Dispatch(q) PROVE IntakeInv'
<1> DEFINE firing == IF Delivers(q) THEN FiringFor(PhaseOf(q)) ELSE {}
<1>0. /\ UNCHANGED <<subVars, verdict, mailed, rows, inFlight, activated>>
      /\ stage[q] = "upsert" /\ req[q].pc = "stored"
      /\ stage' = [stage EXCEPT ![q] = "deliver"]
      /\ mails' = [mails EXCEPT ![q] = IF req[q].partial \/ ReCompleted(q) THEN {} ELSE MailKinds]
      /\ toEnqueue' = [toEnqueue EXCEPT ![q] = firing]
      /\ toCancel' = [toCancel EXCEPT ![q] = {Kind[d] : d \in firing}]
  BY DEF Dispatch
<1>1. SubmissionInv'
  BY <1>0, SubmissionUntouched DEF subVars, IntakeInv
<1>2. firing \subseteq Dests
  BY DEF FiringFor
<1>3. IntakeTypeOK'
  <2>1. {Kind[d] : d \in firing} \subseteq {Kind[d] : d \in Dests}
    BY <1>2
  <2>2. toCancel' \in [Requests -> SUBSET {Kind[d] : d \in Dests}]
    BY <1>0, <2>1 DEF IntakeInv, IntakeTypeOK
  <2> QED
    BY <1>0, <1>1, <1>2, <2>2 DEF IntakeInv, IntakeTypeOK, SubmissionInv, Stages
<1>4. EffectsEarned(q)'
  <2>1. ~req[q].partial /\ ~ReCompleted(q) => q \in owner
    BY <1>0 DEF IntakeInv, SubmissionInv, OwnersKnowIt, ReCompleted
  <2>2. firing # {} => q \in owner \/ (req[q].partial /\ ~Protected)
    BY <2>1 DEF Delivers
  <2>3. ~HasDeliveries(q) /\ ~HasMail(q) /\ q \notin activated /\ EffectsEarned(q)
    BY <1>0 DEF IntakeInv, EffectsEarned
  <2>4. toEnqueue'[q] = firing /\ (mails'[q] # {} => ~req[q].partial /\ ~ReCompleted(q))
        /\ stage'[q] = "deliver"
    BY <1>0 DEF IntakeInv, IntakeTypeOK
  <2> QED
    BY <1>0, <2>1, <2>2, <2>3, <2>4
       DEF EffectsEarned, HasDeliveries, HasMail, subVars
<1>5. ASSUME NEW p \in Requests \ {q} PROVE EffectsEarned(p)'
  <2>1. stage'[p] = stage[p] /\ toEnqueue'[p] = toEnqueue[p] /\ mails'[p] = mails[p]
    BY <1>0 DEF IntakeInv, IntakeTypeOK
  <2> QED
    BY <1>0, <2>1, KeepsEarned DEF subVars
<1> QED
  BY <1>0, <1>1, <1>3, <1>4, <1>5 DEF IntakeInv

\* Enqueueing, cancelling, mailing, failing and dying.
LEMMA QueueInv ==
    ASSUME IntakeInv, NEW q \in Requests,
           \/ CancelPending(q) \/ EnqueueDelivery(q) \/ EnqueueFails(q)
           \/ EnqueueMail(q) \/ MailFails(q) \/ Crash(q) \/ Answer(q)
    PROVE  IntakeInv'
<1>0. UNCHANGED <<row, req, owner, unheard, verdict, inFlight, activated>>
      /\ (SpendFault \/ spent' = spent)
  BY DEF CancelPending, EnqueueDelivery, EnqueueFails, EnqueueMail, MailFails, Crash, Answer,
         subVars, effects
<1>1. SubmissionInv'
  BY <1>0, SubmissionUntouched DEF IntakeInv
<1>2. /\ stage' \in [Requests -> Stages]
      /\ \A p \in Requests : stage'[p] \in {stage[p], "dead", "accepted", "unavailable"}
  BY DEF CancelPending, EnqueueDelivery, EnqueueFails, EnqueueMail, MailFails, Crash, Answer,
         subVars, effects, IntakeInv, IntakeTypeOK, Stages
<1>3. /\ toEnqueue' \in [Requests -> SUBSET Dests]
      /\ \A p \in Requests : toEnqueue'[p] \subseteq toEnqueue[p]
  <2>1. CASE EnqueueDelivery(q)
    BY <2>1 DEF EnqueueDelivery, IntakeInv, IntakeTypeOK
  <2>2. CASE EnqueueFails(q) \/ Crash(q)
    BY <2>2 DEF EnqueueFails, Crash, IntakeInv, IntakeTypeOK
  <2>3. CASE CancelPending(q) \/ EnqueueMail(q) \/ MailFails(q) \/ Answer(q)
    <3>1. toEnqueue' = toEnqueue
      BY <2>3 DEF CancelPending, EnqueueMail, MailFails, Answer, effects
    <3> QED
      BY <3>1 DEF IntakeInv, IntakeTypeOK
  <2> QED
    BY <2>1, <2>2, <2>3
<1>4. toCancel' \in [Requests -> SUBSET {Kind[d] : d \in Dests}]
  BY DEF CancelPending, EnqueueDelivery, EnqueueFails, EnqueueMail, MailFails, Crash, Answer,
         subVars, effects, IntakeInv, IntakeTypeOK
<1>5. /\ mails' \in [Requests -> SUBSET MailKinds]
      /\ mailed' \in SUBSET (Requests \X MailKinds)
      /\ \A p \in Requests : mails'[p] \subseteq mails[p]
      /\ \A p \in Requests, m \in MailKinds :
            <<p, m>> \in mailed' => mails[p] # {} \/ <<p, m>> \in mailed
  <2>1. CASE EnqueueMail(q)
    BY <2>1 DEF EnqueueMail, IntakeInv, IntakeTypeOK
  <2>2. CASE ~EnqueueMail(q)
    <3>1. mailed' = mailed
      BY <2>2 DEF CancelPending, EnqueueDelivery, EnqueueFails, MailFails, Crash, Answer, effects
    <3>2. mails' \in [Requests -> SUBSET MailKinds]
          /\ \A p \in Requests : mails'[p] \subseteq mails[p]
      BY <2>2 DEF CancelPending, EnqueueDelivery, EnqueueFails, MailFails, Crash, Answer,
                  effects, IntakeInv, IntakeTypeOK
    <3> QED
      BY <3>1, <3>2 DEF IntakeInv, IntakeTypeOK
  <2> QED
    BY <2>1, <2>2
<1>6. /\ rows' \in [Deliveries -> {"none", "pending", "done", "failed", "deleted"}]
      /\ \A p \in Requests, d \in Dests :
            rows'[<<p, d>>] # "none" => toEnqueue[p] # {} \/ rows[<<p, d>>] # "none"
  <2>1. CASE CancelPending(q)
    BY <2>1 DEF CancelPending, Cancelled, IntakeInv, IntakeTypeOK, Deliveries
  <2>2. CASE EnqueueDelivery(q)
    BY <2>2 DEF EnqueueDelivery, IntakeInv, IntakeTypeOK, Deliveries
  <2>3. CASE ~CancelPending(q) /\ ~EnqueueDelivery(q)
    <3>1. rows' = rows
      BY <2>3 DEF EnqueueFails, EnqueueMail, MailFails, Crash, Answer, effects
    <3> QED
      BY <3>1 DEF IntakeInv, IntakeTypeOK
  <2> QED
    BY <2>1, <2>2, <2>3
<1>7. \A p \in Requests : EffectsEarned(p)'
  BY <1>0, <1>2, <1>3, <1>5, <1>6, KeepsEarned
<1>8. IntakeTypeOK'
  BY <1>0, <1>1, <1>2, <1>3, <1>4, <1>5, <1>6 DEF IntakeInv, IntakeTypeOK, SubmissionInv
<1> QED
  BY <1>0, <1>1, <1>7, <1>8 DEF IntakeInv

LEMMA DeliveriesQueuedInv ==
    ASSUME IntakeInv, NEW q \in Requests, DeliveriesQueued(q) PROVE IntakeInv'
<1>0. /\ UNCHANGED <<subVars, effects>> /\ stage[q] = "deliver"
      /\ stage' = [stage EXCEPT ![q] = IF req[q].partial THEN "answer" ELSE "activate"]
  BY DEF DeliveriesQueued
<1>1. SubmissionInv'
  BY <1>0, SubmissionUntouched DEF subVars, IntakeInv
<1>2. IntakeTypeOK'
  BY <1>0, <1>1 DEF IntakeInv, IntakeTypeOK, SubmissionInv, Stages, effects
<1>3. EffectsEarned(q)'
  <2>1. /\ EffectsEarned(q)
        /\ stage'[q] \in {"answer", "activate"} /\ (stage'[q] = "activate" => ~req[q].partial)
    BY <1>0 DEF IntakeInv, IntakeTypeOK
  <2> QED
    BY <1>0, <2>1 DEF EffectsEarned, HasDeliveries, HasMail, effects, subVars
<1>4. ASSUME NEW p \in Requests \ {q} PROVE EffectsEarned(p)'
  <2>1. stage'[p] = stage[p]
    BY <1>0 DEF IntakeInv, IntakeTypeOK
  <2> QED
    BY <1>0, <2>1, KeepsEarned DEF effects, subVars
<1> QED
  BY <1>0, <1>1, <1>2, <1>3, <1>4 DEF IntakeInv, effects

LEMMA ClaimActivationInv ==
    ASSUME IntakeInv, NEW q \in Requests, ClaimActivation(q) \/ ClaimFails(q) PROVE IntakeInv'
<1>0. /\ UNCHANGED <<row, req, owner, unheard, verdict, toCancel, toEnqueue, mails, mailed, rows,
                     inFlight>>
      /\ SpendFault \/ spent' = spent
      /\ stage[q] = "activate"
      /\ stage' = [stage EXCEPT ![q] = "answer"]
      /\ activated' \in {activated, IF activated = {} THEN {q} ELSE activated}
  BY DEF ClaimActivation, ClaimFails, subVars
<1>1. SubmissionInv'
  BY <1>0, SubmissionUntouched DEF IntakeInv
<1>2. IntakeTypeOK' /\ \A p, r \in activated' : p = r
  BY <1>0, <1>1 DEF IntakeInv, IntakeTypeOK, SubmissionInv, Stages
<1>3. EffectsEarned(q)'
  <2>1. EffectsEarned(q) /\ stage'[q] = "answer"
    BY <1>0 DEF IntakeInv, IntakeTypeOK
  <2> QED
    BY <1>0, <2>1 DEF EffectsEarned, HasDeliveries, HasMail
<1>4. ASSUME NEW p \in Requests \ {q} PROVE EffectsEarned(p)'
  <2>1. stage'[p] = stage[p] /\ (p \in activated' => p \in activated)
    BY <1>0 DEF IntakeInv, IntakeTypeOK
  <2> QED
    BY <1>0, <2>1, KeepsEarned
<1> QED
  BY <1>1, <1>2, <1>3, <1>4 DEF IntakeInv

LEMMA DeliverInv == ASSUME IntakeInv, NEW k \in Deliveries, Deliver(k) PROVE IntakeInv'
<1>0. UNCHANGED <<subVars, stage, verdict, toCancel, toEnqueue, mails, mailed, activated>>
  BY DEF Deliver, BeginDelivery, EndDelivery
<1>1. SubmissionInv'
  BY <1>0, SubmissionUntouched DEF subVars, IntakeInv
<1>2. /\ rows' \in [Deliveries -> {"none", "pending", "done", "failed", "deleted"}]
      /\ \A n \in Deliveries : rows'[n] # "none" => rows[n] # "none"
      /\ inFlight' \in SUBSET Deliveries
  BY DEF Deliver, BeginDelivery, EndDelivery, IntakeInv, IntakeTypeOK
<1>3. IntakeTypeOK'
  BY <1>0, <1>1, <1>2 DEF IntakeInv, IntakeTypeOK, SubmissionInv
<1>4. \A p \in Requests : EffectsEarned(p)'
  BY <1>0, <1>2, KeepsEarned DEF subVars, Deliveries
<1> QED
  BY <1>0, <1>1, <1>3, <1>4 DEF IntakeInv

LEMMA NextIntakeInv == IntakeInv /\ [IntakeNext]_vars => IntakeInv'
<1> SUFFICES ASSUME IntakeInv, [IntakeNext]_vars PROVE IntakeInv'
  OBVIOUS
<1>1. CASE UNCHANGED vars
  <2>1. SubmissionInv'
    BY <1>1, SubmissionUntouched DEF vars, subVars, IntakeInv
  <2>2. \A p \in Requests : EffectsEarned(p)'
    BY <1>1, KeepsEarned DEF vars, effects, subVars
  <2> QED
    BY <1>1, <2>1, <2>2 DEF vars, effects, IntakeInv, IntakeTypeOK, SubmissionInv
<1>2. ASSUME NEW q \in Requests, Serve(q) PROVE IntakeInv'
  BY <1>2, AdmitInv, UpsertStepInv, DispatchInv, QueueInv, DeliveriesQueuedInv,
     ClaimActivationInv DEF Serve
<1> QED
  BY <1>1, <1>2, AdmitInv, QueueInv, ClaimActivationInv, DeliverInv DEF IntakeNext

\* Effects are earned: they follow a stored row, and a completion's belong to
\* the one request that owns the completion.
THEOREM IntakeInductive == IntakeSpec => []IntakeInv
  BY InitIntakeInv, NextIntakeInv, PTL DEF IntakeSpec

(***************************************************************************)
(* The safety properties of the runs.                                       *)
(***************************************************************************)

\* However completes, retries and second tabs race, the emails and deliveries
\* of a completion come from one request only.
THEOREM IntakeCompletionEffectsOnce == IntakeSpec => []CompletionEffectsOnce
<1>1. ASSUME IntakeInv, NEW p \in Requests, NEW q \in Requests, p # q,
             ~req[p].partial, ~req[q].partial
      PROVE  /\ \A d \in Dests : rows[<<p, d>>] = "none" \/ rows[<<q, d>>] = "none"
             /\ \A m \in MailKinds : <<p, m>> \notin mailed \/ <<q, m>> \notin mailed
  <2>1. p \notin owner \/ q \notin owner
    BY <1>1 DEF IntakeInv, SubmissionInv, OneCompleted
  <2>2. \A r \in {p, q} : r \notin owner => ~HasDeliveries(r) /\ ~HasMail(r)
    BY <1>1 DEF IntakeInv, EffectsEarned
  <2> QED
    BY <2>1, <2>2 DEF HasDeliveries, HasMail
<1>2. IntakeInv => CompletionEffectsOnce
  BY <1>1 DEF CompletionEffectsOnce
<1> QED
  BY <1>2, IntakeInductive, PTL

\* On a protected form nothing leaves on the strength of answers that did not
\* pass the challenge.
THEOREM IntakeOnlyVerifiedLeaves == IntakeSpec => []OnlyVerifiedLeaves
<1>1. ASSUME IntakeInv, Protected, NEW q \in Requests,
             HasDeliveries(q) \/ HasMail(q) \/ q \in activated
      PROVE  verdict[q] = "passed"
  <2>1. EffectsEarned(q)
    BY <1>1 DEF IntakeInv
  <2>2. ~req[q].partial /\ req[q].pc # "unsent"
    BY <1>1, <2>1 DEF EffectsEarned, IntakeInv, SubmissionInv, OwnersKnowIt
  <2> QED
    BY <1>1, <2>1, <2>2 DEF EffectsEarned
<1>2. ASSUME IntakeInv, Protected
      PROVE  LET verified == {q \in Requests : verdict[q] = "passed"} IN
             /\ \A k \in Deliveries : rows[k] # "none" => k[1] \in verified
             /\ \A m \in mailed : m[1] \in verified
             /\ activated \subseteq verified
  <2>1. \A k \in Deliveries : rows[k] # "none" => k[1] \in Requests /\ HasDeliveries(k[1])
    BY DEF Deliveries, HasDeliveries
  <2>2. \A m \in mailed : m[1] \in Requests /\ HasMail(m[1])
    BY <1>2 DEF HasMail, IntakeInv, IntakeTypeOK
  <2>3. activated \subseteq Requests
    BY <1>2 DEF IntakeInv, IntakeTypeOK
  <2> QED
    BY <1>1, <1>2, <2>1, <2>2, <2>3
<1>3. IntakeInv => OnlyVerifiedLeaves
  BY <1>2 DEF OnlyVerifiedLeaves
<1> QED
  BY <1>3, IntakeInductive, PTL

\* One request at most wins the account's activation, and only after the
\* session's row was completed.
THEOREM IntakeActivatedOnce == IntakeSpec => []ActivatedOnce
<1>1. ASSUME IntakeInv, NEW q \in activated PROVE row.state = "completed"
  <2>1. q \in Requests /\ ~req[q].partial /\ req[q].pc = "stored"
    BY <1>1 DEF IntakeInv, IntakeTypeOK, EffectsEarned
  <2>2. CASE req[q].was
    BY <1>1, <2>1, <2>2 DEF IntakeInv, SubmissionInv, ReadsAge
  <2>3. CASE ~req[q].was
    BY <1>1, <2>1, <2>3 DEF IntakeInv, SubmissionInv, OwnersKnowIt, OneCompleted
  <2> QED
    BY <2>2, <2>3
<1>2. IntakeInv => ActivatedOnce
  BY <1>1 DEF IntakeInv, ActivatedOnce
<1> QED
  BY <1>2, IntakeInductive, PTL

(***************************************************************************)
(* QueuedInv: nothing of a faultless completion is lost.                    *)
(***************************************************************************)

LEMMA InitQueuedInv == IntakeInit => QueuedInv
<1> SUFFICES ASSUME IntakeInit PROVE QueuedInv
  OBVIOUS
<1>1. IntakeInv
  BY InitIntakeInv
<1>2. \A q \in Requests : CancelsFirst(q)
  BY DEF IntakeInit, CancelsFirst
<1>3. owner = {}
  BY DEF IntakeInit, SubmissionInit
<1> QED
  BY <1>1, <1>2, <1>3 DEF QueuedInv

\* A request that keeps its place, or has nothing left to cancel.
LEMMA KeepsCancels ==
    ASSUME NEW p \in Requests, CancelsFirst(p),
           toCancel'[p] \subseteq toCancel[p],
           toCancel'[p] # {} =>
              /\ stage'[p] = stage[p]
              /\ p \in owner => p \in owner'
              /\ req'[p].partial = req[p].partial
              /\ \A d \in Dests : rows[<<p, d>>] = "none" => rows'[<<p, d>>] = "none"
    PROVE  CancelsFirst(p)'
  BY DEF CancelsFirst

LEMMA CancelsStep ==
    ASSUME IntakeInv, \A p \in Requests : CancelsFirst(p), IntakeNext
    PROVE  \A p \in Requests : CancelsFirst(p)'
<1> SUFFICES ASSUME NEW p \in Requests PROVE CancelsFirst(p)'
  OBVIOUS
<1>0. IntakeTypeOK /\ SubmissionTypeOK /\ CancelsFirst(p)
  BY DEF IntakeInv, SubmissionInv
<1>1. ASSUME NEW q \in Requests,
             \/ Refuse(q) \/ SubmitToGate(q)
             \/ \E partial, hasVisit \in BOOLEAN : Submit(q, partial, hasVisit)
             \/ \E hasVisit \in BOOLEAN : Gate(q, hasVisit)
      PROVE  CancelsFirst(p)'
  <2>1. UNCHANGED <<toCancel, rows, owner>> /\ stage[q] \in {"unsent", "gate"}
    BY <1>1 DEF Refuse, SubmitToGate, Submit, Gate, Arrive, effects, subVars
  <2>2. toCancel[q] = {}
    BY <2>1 DEF CancelsFirst
  <2>3. p # q => stage'[p] = stage[p] /\ req'[p] = req[p]
    BY <1>0, <1>1 DEF Refuse, SubmitToGate, Submit, Gate, Arrive, effects, subVars, IntakeTypeOK,
                      SubmissionTypeOK
  <2> QED
    BY <1>0, <2>1, <2>2, <2>3, KeepsCancels
<1>2. ASSUME NEW q \in Requests, UpsertStep(q) PROVE CancelsFirst(p)'
  <2>1. /\ UNCHANGED <<toCancel, stage, rows>> /\ stage[q] = "upsert"
        /\ req'[p].partial = req[p].partial
        /\ p # q => (p \in owner' <=> p \in owner)
    BY <1>2, UpsertFrame DEF UpsertStep, IntakeInv, effects
  <2>2. toCancel[q] = {}
    BY <2>1 DEF CancelsFirst
  <2> QED
    BY <1>0, <2>1, <2>2, KeepsCancels
<1>3. ASSUME NEW q \in Requests, Dispatch(q) PROVE CancelsFirst(p)'
  <2> DEFINE firing == IF Delivers(q) THEN FiringFor(PhaseOf(q)) ELSE {}
  <2>1. /\ UNCHANGED <<subVars, rows>> /\ stage[q] = "upsert" /\ req[q].pc = "stored"
        /\ stage' = [stage EXCEPT ![q] = "deliver"]
        /\ toCancel' = [toCancel EXCEPT ![q] = {Kind[d] : d \in firing}]
    BY <1>3 DEF Dispatch
  <2>2. CASE p # q
    <3>1. toCancel'[p] = toCancel[p] /\ stage'[p] = stage[p]
      BY <1>0, <2>1, <2>2 DEF IntakeTypeOK
    <3> QED
      BY <1>0, <2>1, <3>1, KeepsCancels DEF subVars
  <2>3. CASE p = q
    <3>1. toCancel'[q] # {} => Delivers(q)
      BY <1>0, <2>1 DEF IntakeTypeOK
    <3>2. Delivers(q) => req[q].partial \/ q \in owner
      BY <2>1 DEF Delivers, ReCompleted, IntakeInv, SubmissionInv, OwnersKnowIt
    <3>3. \A d \in Dests : rows[<<q, d>>] = "none"
      BY <2>1 DEF IntakeInv, EffectsEarned, HasDeliveries
    <3>4. stage'[q] = "deliver"
      BY <1>0, <2>1 DEF IntakeTypeOK
    <3> QED
      BY <2>1, <2>3, <3>1, <3>2, <3>3, <3>4 DEF CancelsFirst, subVars
  <2> QED
    BY <2>2, <2>3
<1>4. ASSUME NEW q \in Requests, CancelPending(q) PROVE CancelsFirst(p)'
  <2>1. UNCHANGED <<subVars, stage>>
        /\ \E kind \in toCancel[q] :
              rows' = Cancelled(q, kind) /\ toCancel' = [toCancel EXCEPT ![q] = @ \ {kind}]
    BY <1>4 DEF CancelPending
  <2>2. toCancel'[p] \subseteq toCancel[p]
    BY <1>0, <2>1 DEF IntakeTypeOK
  <2>3. \A d \in Dests : rows[<<p, d>>] = "none" => rows'[<<p, d>>] = "none"
    BY <2>1 DEF Cancelled, Deliveries
  <2> QED
    BY <1>0, <2>1, <2>2, <2>3, KeepsCancels DEF subVars
<1>5. ASSUME NEW q \in Requests, EnqueueDelivery(q) PROVE CancelsFirst(p)'
  <2>1. /\ UNCHANGED <<subVars, stage, toCancel>> /\ toCancel[q] = {}
        /\ \E d \in toEnqueue[q] : rows' = [rows EXCEPT ![<<q, d>>] = "pending"]
    BY <1>5 DEF EnqueueDelivery
  <2>2. p # q => \A d \in Dests : rows'[<<p, d>>] = rows[<<p, d>>]
    BY <1>0, <2>1 DEF IntakeTypeOK, Deliveries
  <2> QED
    BY <1>0, <2>1, <2>2, KeepsCancels DEF subVars
<1>6. ASSUME NEW q \in Requests,
             \/ EnqueueFails(q) \/ EnqueueMail(q) \/ MailFails(q) \/ Crash(q)
             \/ DeliveriesQueued(q) \/ ClaimActivation(q) \/ ClaimFails(q) \/ Answer(q)
      PROVE  CancelsFirst(p)'
  <2>1. UNCHANGED <<req, owner, rows>>
    BY <1>6 DEF EnqueueFails, EnqueueMail, MailFails, Crash, DeliveriesQueued, ClaimActivation,
                ClaimFails, Answer, subVars, effects
  <2>2. toCancel'[p] \in {toCancel[p], {}}
    BY <1>0, <1>6 DEF EnqueueFails, EnqueueMail, MailFails, Crash, DeliveriesQueued,
                      ClaimActivation, ClaimFails, Answer, effects, IntakeTypeOK
  <2>3. toCancel'[p] # {} => stage'[p] = stage[p]
    BY <1>0, <1>6
       DEF EnqueueFails, EnqueueMail, MailFails, Crash, DeliveriesQueued, ClaimActivation,
           ClaimFails, Answer, effects, IntakeTypeOK, CancelsFirst
  <2> QED
    BY <1>0, <2>1, <2>2, <2>3, KeepsCancels
<1>7. ASSUME NEW k \in Deliveries, Deliver(k) PROVE CancelsFirst(p)'
  <2>1. UNCHANGED <<subVars, stage, toCancel>>
    BY <1>7 DEF Deliver, BeginDelivery, EndDelivery
  <2>2. \A d \in Dests : rows[<<p, d>>] = "none" => rows'[<<p, d>>] = "none"
    BY <1>0, <1>7 DEF Deliver, BeginDelivery, EndDelivery, Deliveries, IntakeTypeOK
  <2> QED
    BY <1>0, <2>1, <2>2, KeepsCancels DEF subVars
<1> QED
  BY <1>1, <1>2, <1>3, <1>4, <1>5, <1>6, <1>7 DEF IntakeNext, Serve

Fails(q) == EnqueueFails(q) \/ ClaimFails(q) \/ MailFails(q) \/ Crash(q)

\* A fault spent stays spent.
LEMMA StillFaultless ==
    ASSUME IntakeInv, IntakeNext, spent' = 0
    PROVE  /\ spent = 0
           /\ \A q \in Requests : ~Fails(q)
<1>1. spent \in Nat
  BY DEF IntakeInv, SubmissionInv, SubmissionTypeOK
<1>2. ~SpendFault
  BY <1>1 DEF SpendFault
<1>3. \A q \in Requests : ~Fails(q) /\ ~InsertUnheard(q)
  BY <1>2
     DEF Fails, EnqueueFails, ClaimFails, MailFails, Crash, InsertUnheard, InsertAnswerLost,
         RereadRejects
<1>4. ASSUME NEW q \in Requests, UpsertStep(q) PROVE spent' = spent
  BY <1>3, <1>4 DEF UpsertStep, Upsert, SelectExisting, Insert, KeepCompleted, CompleteOpen,
                    SavePartial, RefreshCompleted, Reread
<1>5. spent' = spent
  BY <1>3, <1>4
     DEF Fails, IntakeNext, Serve, Deliver, Refuse, Submit, SubmitToGate, Gate, Arrive,
         Dispatch, CancelPending, EnqueueDelivery, DeliveriesQueued, ClaimActivation, Answer, EnqueueMail,
         BeginDelivery, EndDelivery, subVars
<1> QED
  BY <1>3, <1>5

\* An owner that keeps its place and loses nothing it has queued or has still
\* to queue.
LEMMA KeepsQueued ==
    ASSUME NEW p \in Requests, OwnerQueues(p),
           stage'[p] = stage[p], toEnqueue'[p] = toEnqueue[p], mails'[p] = mails[p],
           \A d \in Dests :
              rows[<<p, d>>] \notin {"none", "deleted"} => rows'[<<p, d>>] \notin {"none", "deleted"},
           \A m \in MailKinds : <<p, m>> \in mailed => <<p, m>> \in mailed',
           activated # {} => activated' # {}
    PROVE  OwnerQueues(p)'
<1>1. FiringFor("complete") \subseteq Dests
  BY DEF FiringFor
<1>2. FiringFor("complete")' = FiringFor("complete")
  BY DEF FiringFor
<1> QED
  BY <1>1, <1>2 DEF OwnerQueues

LEMMA OwnerStep ==
    ASSUME QueuedInv, IntakeNext, spent = 0,
           \A q \in Requests : ~Fails(q),
           NEW p \in owner'
    PROVE  OwnerQueues(p)'
<1>0. /\ IntakeTypeOK /\ SubmissionTypeOK /\ SubmissionInv
      /\ \A q \in owner : OwnerQueues(q) /\ q \in Requests
      /\ FiringFor("complete") \subseteq Dests
  BY DEF QueuedInv, IntakeInv, SubmissionInv, SubmissionTypeOK, FiringFor
<1>1. ASSUME NEW q \in Requests, UpsertStep(q) PROVE OwnerQueues(p)'
  <2>1. UNCHANGED <<stage, toEnqueue, mails, mailed, rows, activated>> /\ stage[q] = "upsert"
    BY <1>1 DEF UpsertStep, effects
  <2>2. p \in owner \cup {q}
    BY <1>1 DEF UpsertStep, Upsert, SelectExisting, Insert, KeepCompleted, CompleteOpen, SavePartial,
                RefreshCompleted, Reread, InsertUnheard, InsertAnswerLost, RereadRejects, OwnsIfComplete
  <2>3. CASE p \in owner
    BY <1>0, <2>1, <2>3, KeepsQueued
  <2>4. CASE p = q
    BY <2>1, <2>4 DEF OwnerQueues
  <2> QED
    BY <2>2, <2>3, <2>4
<1>2. ASSUME \A q \in Requests : ~UpsertStep(q) PROVE owner' = owner
  BY <1>2 DEF IntakeNext, Serve, Deliver, Refuse, Submit, SubmitToGate, Gate, Arrive, Dispatch,
         CancelPending, EnqueueDelivery, DeliveriesQueued, ClaimActivation, Answer, EnqueueMail,
         EnqueueFails, ClaimFails, MailFails, Crash, BeginDelivery, EndDelivery, subVars
<1> SUFFICES ASSUME p \in owner, \A q \in Requests : ~UpsertStep(q) PROVE OwnerQueues(p)'
  BY <1>1, <1>2
<1>3. /\ p \in Requests /\ OwnerQueues(p) /\ ~req[p].partial /\ ~req[p].was
      /\ \A q \in owner : q = p
      /\ req[p].pc # "unsent"
  BY <1>0 DEF SubmissionInv, OwnersKnowIt, OneCompleted
<1>4. ASSUME NEW q \in Requests,
             \/ Refuse(q) \/ SubmitToGate(q)
             \/ \E partial, hasVisit \in BOOLEAN : Submit(q, partial, hasVisit)
             \/ \E hasVisit \in BOOLEAN : Gate(q, hasVisit)
      PROVE  OwnerQueues(p)'
  <2>1. UNCHANGED <<toEnqueue, mails, mailed, rows, activated>> /\ stage[q] \in {"unsent", "gate"}
    BY <1>4 DEF Refuse, SubmitToGate, Submit, Gate, effects
  <2>2. p # q
    BY <1>3, <2>1 DEF OwnerQueues
  <2>3. stage'[p] = stage[p]
    BY <1>0, <1>3, <1>4, <2>2 DEF Refuse, SubmitToGate, Submit, Gate, IntakeTypeOK
  <2> QED
    BY <1>3, <2>1, <2>3, KeepsQueued
<1>5. ASSUME NEW q \in Requests, Dispatch(q) PROVE OwnerQueues(p)'
  <2> DEFINE firing == IF Delivers(q) THEN FiringFor(PhaseOf(q)) ELSE {}
  <2>1. /\ UNCHANGED <<mailed, rows, activated>>
        /\ stage' = [stage EXCEPT ![q] = "deliver"]
        /\ toEnqueue' = [toEnqueue EXCEPT ![q] = firing]
        /\ mails' = [mails EXCEPT ![q] = IF req[q].partial \/ ReCompleted(q) THEN {} ELSE MailKinds]
    BY <1>5 DEF Dispatch
  <2>2. CASE p # q
    <3>1. stage'[p] = stage[p] /\ toEnqueue'[p] = toEnqueue[p] /\ mails'[p] = mails[p]
      BY <1>0, <1>3, <2>1, <2>2 DEF IntakeTypeOK
    <3> QED
      BY <1>3, <2>1, <3>1, KeepsQueued
  <2>3. CASE p = q
    <3>1. firing = FiringFor("complete") /\ ~(req[q].partial \/ ReCompleted(q))
      BY <1>3, <2>3 DEF Delivers, ReCompleted, PhaseOf
    <3>2. toEnqueue'[p] = FiringFor("complete") /\ mails'[p] = MailKinds /\ stage'[p] = "deliver"
      BY <1>0, <1>3, <2>1, <2>3, <3>1 DEF IntakeTypeOK
    <3>3. FiringFor("complete")' = FiringFor("complete")
      BY DEF FiringFor
    <3> QED
      BY <3>2, <3>3 DEF OwnerQueues
  <2> QED
    BY <2>2, <2>3
<1>6. ASSUME NEW q \in Requests, CancelPending(q) PROVE OwnerQueues(p)'
  <2>1. UNCHANGED <<stage, toEnqueue, mails, mailed, activated>>
        /\ \E kind \in toCancel[q] : rows' = Cancelled(q, kind)
    BY <1>6 DEF CancelPending
  <2>2. req[q].partial \/ q = p
    BY <1>3, <2>1 DEF QueuedInv, CancelsFirst
  <2>3. CASE req[q].partial
    <3>1. PhaseOf(p) # PhaseOf(q)
      BY <1>3, <2>3 DEF PhaseOf
    <3>2. \A d \in Dests : rows'[<<p, d>>] = rows[<<p, d>>]
      BY <1>3, <2>1, <3>1 DEF Cancelled, Deliveries
    <3> QED
      BY <1>3, <2>1, <3>2, KeepsQueued
  <2>4. CASE q = p
    <3>1. \A d \in Dests : rows[<<p, d>>] = "none"
      BY <2>1, <2>4 DEF QueuedInv, CancelsFirst
    <3> QED
      BY <1>3, <2>1, <3>1, KeepsQueued
  <2> QED
    BY <2>2, <2>3, <2>4
<1>7. ASSUME NEW q \in Requests, EnqueueDelivery(q) PROVE OwnerQueues(p)'
  <2>0. PICK d \in toEnqueue[q] :
           /\ rows' = [rows EXCEPT ![<<q, d>>] = "pending"]
           /\ toEnqueue' = [toEnqueue EXCEPT ![q] = @ \ {d}]
    BY <1>7 DEF EnqueueDelivery
  <2>1. UNCHANGED <<stage, mails, mailed, activated>> /\ stage[q] = "deliver" /\ d \in Dests
    BY <1>0, <1>7 DEF EnqueueDelivery, IntakeTypeOK
  <2>2. CASE p # q
    <3>1. toEnqueue'[p] = toEnqueue[p] /\ \A e \in Dests : rows'[<<p, e>>] = rows[<<p, e>>]
      BY <1>0, <1>3, <2>0, <2>1, <2>2 DEF IntakeTypeOK, Deliveries
    <3> QED
      BY <1>3, <2>1, <3>1, KeepsQueued
  <2>3. CASE p = q
    <3>1. /\ toEnqueue'[p] = toEnqueue[p] \ {d} /\ rows'[<<p, d>>] = "pending"
          /\ \A e \in Dests \ {d} : rows'[<<p, e>>] = rows[<<p, e>>]
      BY <1>0, <1>3, <2>0, <2>1, <2>3 DEF IntakeTypeOK, Deliveries
    <3>2. FiringFor("complete")' = FiringFor("complete")
      BY DEF FiringFor
    <3> QED
      BY <1>0, <1>3, <2>1, <2>3, <3>1, <3>2 DEF OwnerQueues
  <2> QED
    BY <2>2, <2>3
<1>8. ASSUME NEW q \in Requests, DeliveriesQueued(q) \/ ClaimActivation(q) \/ Answer(q)
      PROVE  OwnerQueues(p)'
  <2>1. UNCHANGED <<toEnqueue, mails, mailed, rows>> /\ (activated # {} => activated' # {})
    BY <1>8 DEF DeliveriesQueued, ClaimActivation, Answer, effects
  <2>2. CASE p # q
    <3>1. stage'[p] = stage[p]
      BY <1>0, <1>3, <1>8, <2>2 DEF DeliveriesQueued, ClaimActivation, Answer, IntakeTypeOK
    <3> QED
      BY <1>3, <2>1, <3>1, KeepsQueued
  <2>3. CASE p = q
    <3>1. /\ stage[p] \in {"deliver", "activate", "answer"}
          /\ stage'[p] \in {"activate", "answer", "accepted", "unavailable"}
          /\ stage[p] = "deliver" => toEnqueue[p] = {}
          /\ stage'[p] = "activate" \/ activated' # {}
      BY <1>0, <1>3, <1>8, <2>1, <2>3
         DEF DeliveriesQueued, ClaimActivation, Answer, IntakeTypeOK, OwnerQueues
    <3>2. FiringFor("complete")' = FiringFor("complete")
      BY DEF FiringFor
    <3> QED
      BY <1>3, <2>1, <3>1, <3>2 DEF OwnerQueues
  <2> QED
    BY <2>2, <2>3
<1>9. ASSUME NEW q \in Requests, EnqueueMail(q) PROVE OwnerQueues(p)'
  <2>0. PICK m \in mails[q] : mailed' = mailed \cup {<<q, m>>} /\ mails' = [mails EXCEPT ![q] = @ \ {m}]
    BY <1>9 DEF EnqueueMail
  <2>1. UNCHANGED <<stage, toEnqueue, rows, activated>>
    BY <1>9 DEF EnqueueMail
  <2>2. mails'[p] = IF p = q THEN mails[p] \ {m} ELSE mails[p]
    BY <1>0, <1>3, <2>0 DEF IntakeTypeOK
  <2>3. FiringFor("complete")' = FiringFor("complete")
    BY DEF FiringFor
  <2> QED
    BY <1>3, <2>0, <2>1, <2>2, <2>3 DEF OwnerQueues
<1>10. ASSUME NEW k \in Deliveries, Deliver(k) PROVE OwnerQueues(p)'
  <2>1. UNCHANGED <<stage, toEnqueue, mails, mailed, activated>>
    BY <1>10 DEF Deliver, BeginDelivery, EndDelivery
  <2>2. \A n \in Deliveries :
           rows[n] \notin {"none", "deleted"} => rows'[n] \notin {"none", "deleted"}
    BY <1>0, <1>10 DEF Deliver, BeginDelivery, EndDelivery, IntakeTypeOK
  <2> QED
    BY <1>3, <2>1, <2>2, KeepsQueued DEF Deliveries
<1> QED
  BY <1>4, <1>5, <1>6, <1>7, <1>8, <1>9, <1>10 DEF IntakeNext, Serve, Fails

LEMMA NextQueuedInv == QueuedInv /\ [IntakeNext]_vars => QueuedInv'
<1> SUFFICES ASSUME QueuedInv, [IntakeNext]_vars PROVE QueuedInv'
  OBVIOUS
<1>0. IntakeInv /\ IntakeInv'
  BY NextIntakeInv DEF QueuedInv
<1>1. CASE UNCHANGED vars
  <2>1. /\ UNCHANGED <<row, req, owner, spent, stage, toCancel, toEnqueue, mails, mailed, rows,
                      activated>>
        /\ FiringFor("complete")' = FiringFor("complete")
    BY <1>1 DEF vars, subVars, effects, FiringFor
  <2> QED
    BY <1>0, <2>1 DEF QueuedInv, CancelsFirst, OwnerQueues
<1>2. CASE IntakeNext
  <2>1. \A q \in Requests : CancelsFirst(q)'
    BY <1>0, <1>2, CancelsStep DEF QueuedInv
  <2>2. ASSUME spent' = 0 PROVE \A q \in owner' : OwnerQueues(q)'
    <3>1. spent = 0 /\ \A q \in Requests : ~Fails(q)
      BY <1>0, <1>2, <2>2, StillFaultless
    <3> QED
      BY <1>2, <3>1, OwnerStep
  <2> QED
    BY <1>0, <2>1, <2>2 DEF QueuedInv
<1> QED
  BY <1>1, <1>2

\* Cancels come before enqueues, and only from partials and from the owner of
\* the completion, which queues each of its effects unless a fault stops it.
THEOREM IntakeQueuedInductive == IntakeSpec => []QueuedInv
  BY InitQueuedInv, NextQueuedInv, PTL DEF IntakeSpec

\* Without a fault no interleaving of partials, completes and their cancels
\* loses an effect of the completion, or leaves the account unactivated, for
\* any destinations and emails.
THEOREM IntakeFaultlessCompletionQueued == IntakeSpec => []FaultlessCompletionQueued
<1>1. ASSUME QueuedInv, spent = 0, Quiet, row.state = "completed"
      PROVE  EffectsQueued /\ activated # {}
  <2>0. unheard = {} /\ owner # {}
    BY <1>1 DEF QueuedInv, IntakeInv, SubmissionInv, OneCompleted, CompletionIsOwned
  <2>1. PICK q \in owner : OwnerQueues(q)
    BY <1>1, <2>0 DEF QueuedInv
  <2>2. q \in Requests /\ ~req[q].partial
    BY <1>1 DEF QueuedInv, IntakeInv, SubmissionInv, SubmissionTypeOK, OwnersKnowIt
  <2>3. stage[q] \in {"accepted", "unavailable"} /\ mails[q] = {}
    BY <1>1, <2>1, <2>2 DEF Quiet, AtRest, OwnerQueues
  <2>4. toEnqueue[q] = {}
    BY <2>1, <2>3 DEF OwnerQueues
  <2> QED
    BY <2>1, <2>2, <2>3, <2>4 DEF OwnerQueues, EffectsQueued
<1>2. QueuedInv => FaultlessCompletionQueued
  BY <1>1 DEF FaultlessCompletionQueued
<1> QED
  BY <1>2, IntakeQueuedInductive, PTL

\* Inside submit() the upsert keeps its promise: no step of the challenge, the
\* effects, the worker or a crash of theirs moves the session's record.
THEOREM IntakeImplementsRecord == IntakeSpec => ImplementsRecord
<1>1. IntakeInit => Record!RecordInit
  BY RecordBegins DEF IntakeInit
<1>2. IntakeInv /\ [IntakeNext]_vars => [Record!RecordNext]_Record!recordVars
  <2> SUFFICES ASSUME IntakeInv, [IntakeNext]_vars PROVE Record!RecordNext \/ RecordStays
    BY DEF Record!recordVars, RecordStays
  <2>1. SubmissionInv
    BY DEF IntakeInv
  <2>2. ASSUME NEW q \in Requests, NEW partial \in BOOLEAN, NEW hasVisit \in BOOLEAN,
               Arrive(q, partial, hasVisit)
        PROVE  SubmissionNext
    BY <2>2 DEF SubmissionNext
  <2>3. ASSUME NEW q \in Requests, Upsert(q) \/ InsertUnheard(q) PROVE SubmissionNext
    BY <2>3 DEF SubmissionNext
  <2>4. UNCHANGED vars => UNCHANGED <<row, req, owner, unheard>>
    BY DEF vars, subVars
  <2>5. ASSUME NEW q \in Requests, NEW hasVisit \in BOOLEAN, Gate(q, hasVisit)
        PROVE  SubmissionNext \/ UNCHANGED <<row, req, owner, unheard>>
    <3>1. Arrive(q, FALSE, hasVisit) \/ Arrive(q, TRUE, hasVisit) \/ UNCHANGED subVars
      BY <2>5 DEF Gate
    <3> QED
      BY <2>2, <3>1 DEF subVars
  <2>6. ASSUME NEW q \in Requests, Serve(q)
        PROVE  SubmissionNext \/ UNCHANGED <<row, req, owner, unheard>>
    <3>1. \/ \E hasVisit \in BOOLEAN : Gate(q, hasVisit)
          \/ UpsertStep(q) \/ UNCHANGED subVars
      BY <2>6 DEF Serve, Dispatch, CancelPending, EnqueueDelivery, DeliveriesQueued,
                  ClaimActivation, Answer
    <3> QED
      BY <2>3, <2>5, <3>1 DEF UpsertStep, subVars
  <2>7. ASSUME NEW q \in Requests,
               \/ Refuse(q) \/ SubmitToGate(q) \/ EnqueueMail(q)
               \/ EnqueueFails(q) \/ ClaimFails(q) \/ MailFails(q) \/ Crash(q)
        PROVE  UNCHANGED <<row, req, owner, unheard>>
    BY <2>7 DEF Refuse, SubmitToGate, EnqueueMail, EnqueueFails, ClaimFails, MailFails, Crash,
                subVars
  <2>8. ASSUME NEW q \in Requests, NEW partial \in BOOLEAN, NEW hasVisit \in BOOLEAN,
               Submit(q, partial, hasVisit)
        PROVE  SubmissionNext
    <3>1. Arrive(q, partial, hasVisit)
      BY <2>8 DEF Submit
    <3> QED
      BY <2>2, <3>1
  <2>9. ASSUME NEW k \in Deliveries, Deliver(k) PROVE UNCHANGED <<row, req, owner, unheard>>
    BY <2>9 DEF Deliver, BeginDelivery, EndDelivery, subVars
  <2>10. SubmissionNext \/ UNCHANGED <<row, req, owner, unheard>>
    BY <2>4, <2>6, <2>7, <2>8, <2>9 DEF IntakeNext
  <2> QED
    BY <2>1, <2>10, RecordStep
<1> QED
  BY <1>1, <1>2, IntakeInductive, PTL DEF IntakeSpec, ImplementsRecord, Record!RecordSpec
=============================================================================
