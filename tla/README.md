# Verification of dapta-forms

TLA+ models of the parts of dapta-forms where order and failure matter, TLC
configurations that check them on small instances, and TLAPS proofs of the main
results for every instance. `PROJECT.json` has the map from each definition to
the lines it models, the runs, the hazards and the theorems.

    tlc -workers 2 -config MCOutbox.cfg MCOutbox     # a run
    tlapm OutboxProofs.tla                           # a proof

## The system

A NestJS API (`apps/api`) over Postgres or SQLite (`packages/db`), a Next.js app
(`apps/web`) with the public form renderer and the admin editor, and packages
for the form engine, the destinations, the notifications and the types. Several
API replicas may run on one database. Almost no operation is a transaction:
correctness rests on single guarded SQL statements, unique indexes and a durable
outbox.

| Component | State | Operations | What is hard | What makes it correct |
|---|---|---|---|---|
| **Outbox** `packages/db/src/outbox.ts`, `apps/api/src/outbox.worker.ts` | table `outbox`; one in-process timer a replica | enqueue, cancel, record settled, claim, settle ×4; poll, drain, process | replicas, crashes, leases that lapse, late settlements, lost answers | fenced settlement, bounded attempts, nothing left pending |
| **Submission upsert** `upsertSubmission` in `packages/db/src/forms.ts` | table `submission`, one row per (form, session) | select, insert, complete, partial, refresh | unserialized partials, completes and retries of one session | one first completion, no partial over a complete |
| **Submission intake** `apps/api/src/submission.service.ts` | none of its own | challenge, upsert, emails, deliveries, activation | no transaction over row and effects, retries, un-awaited email tasks | effects once, nothing lost, nothing unverified leaves |
| **Destination and email effects** `destination-effects.ts`, `email-effects.ts` | outbox rows | cancel by kind and phase, enqueue; deliver | cancel and enqueue of two saves interleave | no queued completion is cancelled |
| **Milestones** `packages/db/src/milestones.ts` | columns of `account` | claim once | two first answers together, a claim that fails | at most one, and one without a fault |
| **Form lifecycle** `forms.ts`, `form-revert.ts`, `admin-crud.controller.ts` | table `form`: live config, destinations, draft, previous version, stamp | save, publish, discard, destinations, revert, Keep mine | read-modify-write under an optimistic lock in milliseconds; who learns which stamp | no save drops what its caller never saw; publish carries destinations |
| **Form slugs** `forms.ts` | `form.slug`, table `form_alias` | create, rename, alias, delete, resolve | check-then-act over two tables, crash between statements | every published link keeps leading to its form |
| **Rate limiter** `apps/api/src/rate-limit.ts` | a map of token buckets | take, prune | clock steps, full map | bounded grants, honest retry hint, bounded memory |
| **Editor autosave** `autosave-controller.ts`, `use-autosave.ts`, `draft-backup.ts`, `form-editor.tsx` | timers, one request in flight, the stamp, the crash backup | edit, flush, retry, leave, unload, recover | answers racing edits, beacons, requests given up that land later | the last edit is saved or its author told; nothing goes backwards |
| **Form logic** `packages/engine/src/form-logic.ts` | none: pure functions | visibility, score, screens, jumps, paths, static checks, validation | the page, the editor and the API must agree on one form | what the page submits the API accepts; warnings are true |
| **Public renderer** `form-renderer.tsx`, `vertical-form-renderer.tsx` | answers, place, phase, stored draft | answer, advance, back, book, submit, reload | answers change the path under the reader's feet; bookings are recorded while one goes back | screens whole, nothing skipped, no submission by itself |
| **Uploads** `upload.service.ts`, `storage.ts` | objects in a bucket | presign, verify, copy | expiry and copy between verify and save | an answer names an object that exists |
| **Booking sync, analytics, Dapta sync** | outbox rows | enqueue, deliver | as the outbox | as the outbox |
| **Workspaces and identity** `workspace*.ts`, `iam-workspaces.ts`, `auth*.ts` | member and account rows | project, invite, transfer | an external service's state, copied | projections converge |
| **Spam check** `captcha.ts` | none | verify | outage | a verdict is passed, failed or unavailable |
| link pages, branding, notification settings, analytics reads, exports, MCP, web shell | | CRUD, queries, pure functions | little | |

How they interact: the renderer sends partials without waiting for them and one
complete that it retries; `submit` runs the challenge, the upsert and then
enqueues emails, deliveries and the activation; all of them leave rows in the
outbox; the worker of any replica delivers those. The editor's autosave writes
the form's draft with the stamp it last received; publish copies the draft into
the live config, which the renderer walks with the same engine that the API
validates with. Shared state is only the database.

## The models

### Outbox (`Outbox.tla`)

`queue[r]` is the row of table `outbox`, `job[w]` what the worker of replica `w`
keeps in local variables between two statements. Each SQL statement is one
action, because each is atomic in the database; everything else may happen
between two of them.

* Producers: `EnqueueOutbox`, `RecordSettledDelivery`, `DeletePendingOutbox`.
* `ClaimDueOutbox` is the claim UPDATE with limit 1, as the worker calls it; the
  choice among due rows is left open. A take-over of a stale claim counts an
  attempt. The claim's fresh UUID is the ordinal of the claim of its row.
* `process`: `AbandonLapsedClaim`, `OutOfAttempts`, `StartEffect`, then the
  effect: `EffectSucceeds`, `EffectSkips`, `EffectThrows` (refused, or accepted
  with the answer lost), then `Settle` (one of the four settlement statements,
  all fenced by `ClaimedPendingWhere`).
* Faults: `SettleThrows` (a settlement rejects, committed or not; when it is
  *done*, the error becomes a failed effect, because it is inside the try
  block), `Crash`, and a stall at the database.
* Time: `Tick` moves `wait` (next_attempt_at − now) and `age` (now −
  claimed_at) of rows and jobs. All replicas read one clock, and a claim may use
  a reading up to `MaxLag` ticks old; none runs ahead. The code compares one
  replica's `Date.now()` with another's stored `claimed_at`: a replica whose
  clock runs ahead can take a lease that its holder still counts as live, and
  `OneLiveLease` says nothing of that. Effects take any number of ticks;
  statements take none unless a fault is spent.

`DeliveryPromise.tla` says what the queue promises with no queue in it: work is
owed from its enqueue, tried a bounded number of times, at most one copy a try,
and its recorded fate is final and true. `OutboxRefinement.tla` maps the queue
onto it (`ImplementsPromise`) and says what a simulation of it needs to know of
the histories beside `OutboxInv` (`PromiseInv`).

### Submission (`Submission.tla`)

One session of one form: `row` is its row and `req[q]` the locals of one call of
`upsertSubmission`. The SELECT, the INSERT, its own re-read, each of the three
UPDATEs and the final re-read are actions. Answers and visit are abstracted to the request that
wrote them, which is enough to say whose answers a row holds. `owner` is history:
the completes that were told `wasCompletedBefore = false` and therefore owe the
effects. The INSERT and the re-read behind it share one try block: when the
INSERT commits and its answer is lost (`InsertAnswerLost`), or is answered and the
re-read rejects (`RereadRejects`), the catch finds the request's own row and takes
it for a lost race. `unheard` is history too: the completes this happened to. They
are told that somebody was first, and nobody owes their effects. `Die` is a process
that ends, or a statement that rejects outside the try.

`SessionRecord.tla` says what the upsert promises a session with no statements in
it: a record that takes one call at a time, where a save is written unless the
session is completed, one complete is told it was first, and a visit stays.
`SubmissionRefinement.tla` maps rows and requests onto it (`ImplementsRecord`). A
call takes effect in its one statement that writes, or, when it leaves the row
alone, in the one that finds out; the SELECTs and the re-reads of an UPDATE are no
steps of the record. The caller of an INSERT hears of it a statement later
(`Hear`), or never: then it asks again, and the record keeps it as the one that was
`first` although nobody was told. The record lets any call end unwritten
(`GiveUp`), since any process may die: that accepted calls do end is
`EveryRequestEnds`.

### Intake (`Intake.tla`)

Extends `Submission` with `submit()`: the challenge before the row, then the
un-awaited email tasks, the cancel per kind, the enqueue per destination, the
activation claim and the answer, each its own step. A rejecting statement is one
too: the enqueue's and the email's catch drop what was left, the claim's catch
(`ClaimFails`) goes on without it, as its comment concedes. A destination row is named
by the request and destination that created it. The worker is reduced to
`BeginDelivery` and `EndDelivery`: claims and retries are `Outbox`'s subject.
Form configuration (destinations, events, protection) is constant during a
session. Validation refusals are one action, `Refuse`.

### Form slugs (`FormSlug.tla`)

The slugs of one account: `live[f]` is `form.slug`, `retired[s]` the row of
`form_alias` for slug `s`, `call[c]` the locals of one call in progress.
`createForm`, `setFormSlug` and `deleteForm` are followed statement by
statement: the two SELECTs of `formSlugInUse` (`CheckLive`, `CheckRetired`), the
INSERT with its three attempts, `addFormAlias` (`Retire`), the DELETE of the
form's own alias (`Reclaim`), the UPDATE (`Move`), and the two DELETEs of a
delete (`Unalias`, `Drop`). The candidates of `uniqueFormSlug` are left open.
`Answers` is the lookup of `getPublishedForm`: the live slug first, then the
ledger. `Die` ends a call between any two statements; `RetireFails` is an INSERT
whose error the empty catch of `addFormAlias` swallows.

`links` is history: the slugs each form was published under and still owes an
answer. The code does not keep that promise everywhere, and `slips` records
where a behaviour left it, so that `LinksKept` can say exactly what holds:

| Slip | What happened |
|---|---|
| `sameForm` | two renames, or a rename and a delete, of one form overlap |
| `reclaim` | a rename took its own retired slug out of the ledger and did not finish |
| `staleCheck` | a slug was retired after another call had been told it is free |
| `retireLost` | the INSERT of the retired slug failed for another reason than its key |

### Form lifecycle (`FormLifecycle.tla`)

`row` is the form's row: live config, destinations, draft, previous version and
stamp. A config is the set of edits it holds, so that a write that drops an edit
is visible. `view[c]` is what a client keeps: its screen, the copy it last
received, the stamp of that copy, what its person agreed to overwrite. `call[c]`
holds the locals of one request between two statements: every SELECT, every
guarded UPDATE and the SELECT after it are actions. `updateForm` (`Request`,
`RereadName`, `SaveDraft`, `Resolve`), `publishForm`, `discardDraft`, `revertForm`
with its attempts, and `updateFormDestinations` are followed from the controller
down; `Decide` is the person at the conflict banner, `Touch` a slug rename.

The lock assumes that a stamp says which content a client has. `slips` records
where that fails; the properties hold until the first slip:

| Slip | What happened |
|---|---|
| `reused` | two writes carry the same millisecond |
| `unstamped` | a write without a stamp lands on a row that had moved |
| `reread` | another write lands between a write and the SELECT that tells its caller the new stamp |
| `adopted` | a revert hands its client the stamp of a draft its screen does not show |
| `destRace` | the live config is replaced while `updateFormDestinations` holds a copy |

### Autosave (`Autosave.tla`)

An edit is a generation and so is the content that holds it. `ctl` has the
controller's fields, `ref` the editor's refs, `calls` the tab's server actions,
which Next runs one after the other, `answer` what came back for the head,
`late` what travels with nobody waiting: beacons, and requests `callAction` gave
up after its limit. `Run` is `run()` up to the await, `Answered` and `Fail` what
follows it, including `guardedSave` with its second attempt. `Leave` is the
effect's cleanup with `dispose`, `Unload` the beforeunload handler, `Reopen` the
recovery of the backup.

`PUT /v1/forms/:id` with a name and a config, as the editor sends it, is three
statements and the SELECT that its answer carries. `SaveName` is guarded by the
stamp that was sent; `RereadName` takes the stamp of the row as it is by then;
`SaveDraft` is guarded by that one. `Land` runs the next statement of the queue's
head, `LandLate` of any request in `late`, so beacons and requests given up
interleave with the head, with each other and with `Elsewhere` at every statement.
The SELECT of the answer belongs to `Answered`. Only `NoneGoesBack` names what the
split costs: a request that finds another's stamp between its name and its SELECT
(`Overtaken`) goes by that stamp, and may put an older draft over a newer one.

### Form logic and the walk (`FormConditions.tla`, `FormLogic.tla`, `FormWalk.tla`)

`FormConditions` has the conditions and the editor's static checks
(`ConditionNeverHolds`, `ConditionsContradict`, `ConditionsNarrow`) over
integers. `FormLogic` has the pure functions of the engine: visibility with the
running score, screens, jumps (`RuntimeSteps`), the answered path, and
`ValidateSubmission`. `FormWalk` is a respondent in either layout: a state is a
form, the answers and the place, an action what the person presses and every
effect that follows it: clamping, auto-advance, interstitials, the booking
recorded behind the page, submission, refusal, reload from the stored draft.

The slides check each screen as it is left, the API all answers at the end, and
the two agree only while the answers given on a screen change nothing above it.
`Settled` says when that is: no rule reads an answer below it (`Forward`), no rule
about the screen a jump leads to reads the score or an answer below the jump
(`JumpsSettled`), and no late booking moved the page (`strayed`). `ServerAccepts`
asks for it on slides only; the one-page layout asks everything again at the end,
and needs nothing. Finding 11 below is what happens without it.

## The runs

| Run | Instance | Shows |
|---|---|---|
| `outbox` | 1 row, 2 replicas, 3 attempts, lease 2 ticks, lag 1, 2 faults; fair | all safety of the queue, `ImplementsPromise`, `EveryRowSettles` |
| `submission` | 3 requests, 1 fault; fair | all of the upsert, an owner for every completion whose INSERT was heard of, `ImplementsRecord` |
| `intake` | 2 requests, 2 webhooks, 1 email, 1 fault; fair | effects once, at most one activation, nothing lost and the activation won without a fault, everything delivered |
| `intake_protected` | 3 requests, protected form, 1 fault | only verified answers leave; a completion is owned unless its INSERT went unheard |
| `intake_lost` | 2 requests, 1 fault | violation: a re-landed complete whose effects do not exist |
| `formslug` | 2 forms, 3 slugs, 2 calls, 1 fault | links are kept without a slip, the ledger is own, deletes free slugs |
| `formslug_reclaim` | 2 forms, 3 slugs, 2 calls, no faults | violation: a link is lost while its form takes it back |
| `lifecycle` | 2 clients, 1 edit, 4 stamps, 2 destinations, until a slip | no edit lost, destinations kept, publish makes live only what was seen |
| `lifecycle_adopted` | the same, `adopted` allowed | violation: a stamped save overwrites a draft nobody was shown |
| `autosave` | 2 edits of name or config, 2 of: a failed call, a statement of another writer, an unload, each at most once; fair | never stuck, nothing backwards but for an overtaken draft, leaving saves, every edit settles, every flush answers |
| `autosave_lostwork` | 2 edits, 1 unload, nothing fails | violation: the backup of lost work is not offered |
| `formwalk` | 492 forms of 3 steps, 2 tokens, both layouts | the API accepts what pages submit, screens are whole, static checks are true |

Why these bounds. A lost lease needs one row and two workers: a crash or stall
of the first and the claim of the second; two faults let the second lose it as
well, or the first's late settlement fail. Three attempts separate the first,
a middle and the last one. Lease and backoff of two ticks leave a tick inside
and a tick at the limit; one tick of lag is the smallest clock error. Rows
interact only through the worker that is busy with one of them. Races of the
upsert are between pairs of requests, and a third lets a race be lost twice or a
late partial meet both. Two destinations of one kind, one firing on both phases,
are what the cancel by kind and phase can confuse.

Two forms and two calls are one rename and one rival; three slugs let a rename
leave one slug, take another and find a third retired, and histories are as long
as the state space, so slugs go back and forth any number of times.

A lost update needs two clients and one edit that one of them has not seen. Four
stamps are three writes after the load: a save by each and a publish, revert or
change of destinations between. `lifecycle` stops at the first slip
(`CONSTRAINT NoSlip`), because nothing is claimed after it. Two edits let one be in
flight while the next waits behind it or leaves with the terminal save; the queue
never holds more than two. Each kind of trouble once and two in all give every pair
of them, a request given up and a beacon that both travel while a save is under
way included; the exception of `NeverBackwards` takes one unload. The run has 928,631 states.
The proofs cover these two modules for all bounds.

Three steps are a question, what it jumps over or decides, and what follows; a
screen of two and a step outside; an interstitial between questions. Two tokens
are a rule's match and its miss. The forms vary, one family each, kinds, jumps
with screens and terminal steps, visibility and score rules, and interstitials;
scoring is on in part of them. Prefilled answers are taken at any one step or at
none (`SeededAt`), so that every kind of field is met both empty and filled. Two
forms carry what a proof attempt turned up: a jump onto a step that a rule decides,
and a rule about a step that is no longer there. The run has 79,448 states.

Symmetry over forms, slugs and calls (`formslug`), over clients, edits, stamps and
destinations (`lifecycle`) and over requests is used where no liveness is checked:
they differ only in choices the model makes for them. Deadlock is checked for the
outbox, where time never stops, and not for a session, which ends when all its
requests have been answered, nor for `FormSlug`, which ends when all forms were
deleted, a form whose stamps are used up, an editor that was left, or a walk that
is done.

### Fairness

`FairSpec` of the outbox: weak fairness of claiming and of processing per
worker, and of time. The poll timer fires every `OUTBOX_POLL_MS`; `process` is
straight-line code whose awaits end when the database answers and the adapter's
request does. The HubSpot adapter sets no timeout of its own, so for it this
rests on the HTTP client's limit. No fairness is assumed of producers and of
faults, and faults are bounded: infinitely many crashes would defeat any queue.
`FairSubmissionSpec` and `FairIntakeSpec`: an accepted request goes on to its
end unless its process dies; the worker keeps delivering. That a client sends
anything, and that a statement fails, is never assumed.
`Fairness` of the autosave: its two timers fire, the server processes the head of
the queue, and the tab handles the answer; `callAction` gives every call up after
15 seconds, which is `Fail`, so no call stays open. That a person edits, leaves or
decides is never assumed.

## What is proved

TLAPS checks the following for every value of the constants, from the named
assumptions in the modules (types of the constants, positive `MaxAttempts`,
`Stale` and `BackoffCap`, null values outside their sets).

* `OutboxProofs.tla`: `OutboxInductive` (`Spec => []OutboxInv`), and from it
  `DoneMeansLanded`, `AtMostMaxAttempts`, `OneLiveLease`, `FailedMeansExhausted`
  and the action properties `TerminalIsFinal` and `AttemptsNeverDrop`. The
  safety properties are not inductive: whether a late worker can settle depends
  on its token against the row's. `OutboxInv` adds (`RowInv`) that every claim
  but the current one has been counted as an attempt, (`JobInv`) that a worker's
  token was issued, that the latest token of a live row is still the row's, ages
  with it and agrees with its count, that any older token's lease is over, and
  (`TokensDiffer`) that no two workers share a token. `AtMostMaxAttempts` then
  follows since a token that starts an effect is at most its attempts plus one.
  `OutboxImplementsPromise` proves the refinement: every action of the queue is a
  step of `DeliveryPromise` or a stutter under the mapping. That is not so in
  every state `OutboxInv` allows: a claim that begins an effect must not have
  begun it before, nor one that is executing have landed. `PromiseInv`
  (`OutboxHistories`) adds that to it.
* `SubmissionProofs.tla`: `SubmissionInductive`, and `OneOwner`,
  `CompletedHoldsComplete`, `NobodyThrows`, `NothingRegresses`, and
  `CompletionIsOwned`: a completion has an owner unless its INSERT went unheard.
  (`OneCompleted`) at most one request completes the row, heard of or not, and
  while nothing was spent none goes unheard. The strengthening (`ReadsAge`) is
  that what a request read can only have become more final, since a row moves
  from none to open to completed and never back; (`OwnersKnowIt`) ties the
  history `owner` to what the requests were told. `SubmissionImplementsRecord`
  proves the refinement, a lemma a statement; `SubmissionInv` is all it needs.
* `IntakeProofs.tla`: `IntakeInductive`, and `CompletionEffectsOnce`,
  `OnlyVerifiedLeaves`, `ActivatedOnce`. An intake step is a `Submission` step or
  leaves its variables alone, so `SubmissionInv` carries over; `EffectsEarned`
  says effects exist only for owners that have their row and passed.
  `FaultlessCompletionQueued` needs to know whose cancels can meet whose rows:
  `QueuedInv` (`IntakeQueuedInductive`) adds that a request cancels before it
  enqueues and, unless it is a partial, only as the owner (`CancelsFirst`), and
  that without a fault the owner still has to queue an effect or has queued it
  and nobody cancelled it, and that an owner past its claim leaves the account
  activated (`OwnerQueues`). That there is an owner is `CompletionIsOwned`, since
  without a fault nothing goes unheard. `IntakeImplementsRecord` carries the upsert's
  promise through the whole of `submit()`: whatever dies or fails around it, the
  session's record only moves by a call of it.
* `FormSlugProofs.tla`: `SlugInductive`, and `LinksKept`, `DeletedFreesSlugs` and
  the action property `LedgerIsOwn`. `LinksKept` alone is not inductive: a later
  statement could break a link that is still answered. `SlugInv` adds
  (`RetiredFirst`) that the slug a rename is leaving is in the ledger before the
  UPDATE, (`RetiredIsReserved`) that nobody else is live on a retired slug or
  has been told it is free, (`CallInStep`) that what a call read of its form
  still holds, and (`UniqueLive`, `OneCallAForm`) what the unique index and the
  absence of overlap give. Each statement is a lemma; those that write no table
  share one, `OneCallChanges`.

* `FormLifecycleProofs.tla`: `LifecycleInvariant`, and `NothingIsLost`,
  `DestinationsAreKept` and the action property `PublishesSeen`. `NothingLost` says
  nothing of who knows what; `ClientKnows` adds that a client whose stamp is the
  row's has seen, or waived, everything the row holds, and carries that through
  each program counter of a call: what was sent covers what was saved, and a row
  that was read is still the row while its stamp is. The client steps that write
  nothing share `OneClientStep`, the writes `WriteStep`.
* `AutosaveProofs.tla`: `AutosaveInvariant`, `NothingGoesBack` and
  `LeavingSavesWork`. `NeverStuck`, `SavedMeansHeld` and `OneInFlight` need what a
  request that may still land can do: `StampsPast` says that all stamps in use are
  the row's or older, and that a request past its name has moved the row. `WorkAges`
  is `NeverBackwards` one step ahead: a request that has not written its name, while
  the row has the stamp it sent, carries work no older than the row's content, and
  one that has, while the row has the stamp its name left, a draft no older than the
  row's (`OlderNowhere`). Of a request whose SELECT found any other stamp it says
  nothing, and that is the one exception of `NoneGoesBack`: a draft that lands by
  such a stamp. `CalmKeepsUp` says what an editor without faults or rivals knows, and that
  its terminal save has landed or is queued. One lemma an action; `RunKeeps`,
  `WriteKeeps` and `HeadLeaves` have what several share.
* `FormConditionsProofs.tla`: `ContradictionHides`, `BrokenRuleNeverHolds`,
  `SoundRuleCanHold` and `WindowIsExact`: what the editor says of a rule, or of a
  show and a hide rule, is true of every answer and every score.
* `FormWalkProofs.tla`, for every form whose steps are steps, of any length:
  `WalkInductive` (`Spec => []WalkInv`), and `WalkServerAccepts`,
  `WalkWholeScreens`, `WalkNeverResubmitsAlone`, `WalkStaticChecksTrue`. It has two
  halves. The first is about the engine alone. Visibility, the path and the clamp
  are recursive functions and folds over the steps, so their facts are proved by
  the least step at which they could fail (`EveryNumber` upwards, `EveryNumberBack`
  downwards): a path takes each screen whole or not at all (`FromIsWhole`), and
  two sets of answers that agree above a screen lead to the same path up to it,
  when the form is settled (`SamePath`, `SamePlace`). The second is about the page:
  `StandInv` (`WalkStands`) says the path is that of the answers and the page
  stands at the start of a screen of it, through every jump, clamp and reload. On
  slides `PassedAreValid` adds that what lies above the page holds valid answers,
  for the stored draft too, which is why `SamePath` is needed: an answer on the
  screen may change the path below and must not change it above. `CompletedIsValid`
  is the submission one step ahead, through the closing reveal and the retry.
  `WaitsForThePerson` is inductive by itself and gives `NeverResubmitsAlone`.

So every safety property of the passing runs, and both refinements, are theorems.
Only model-checked is liveness, which the prover does not reach: `EveryRowSettles`,
`EveryRequestEnds`, `CompletionIsDelivered`, `EditsSettle`, `FlushAnswers`.

## Where the code and its comments disagree

Shown by a run:

1. A re-landed complete trusts effects that were never enqueued (`intake_lost`).
2. A rename back to the form's own retired slug leaves that slug to nobody
   between two statements (`formslug_reclaim`); the header of `setFormSlug`
   describes the order of statements the body rejects.
3. A revert hands out the stamp of a pending draft that its client may not show,
   and the client's next save overwrites it (`lifecycle_adopted`).
4. A tab closed with a save in flight and newer work may lose that work although
   it was backed up: the name the save writes dates the row after the backup
   (`autosave_lostwork`, in which no call fails and nobody else writes).

Met while modelling, part of the models, without a run of their own:

5. `deletePendingOutbox` deletes rows whose effect is under way (`outbox.ts:168`
   against the comment at 177), and two saves of one phase may both leave a
   pending delivery (`destination-effects.ts:108`).
6. The catch of the first INSERT of `upsertSubmission` takes every error for a
   lost race once the session has a row (`forms.ts:1209`, 1218), also one of its own
   re-read (1217) after an INSERT that was answered. The completion then has no
   owner and its effects never exist (`unheard`).
7. `updateForm` writes the draft by the stamp it re-reads after the name, not by
   the one that write produced (`admin-crud.controller.ts:675`); the name may be
   saved while the draft is refused; a lost answer makes a client's own save look
   like somebody else's. And a late request may put an older draft over a newer one,
   with no failure at all: a save is in flight when the tab is about to be closed, a
   beacon with a later edit of the config goes out, and its author stays. The beacon's name lands,
   the save is refused, finds that only the stamp moved and is sent again; its name
   lands, the beacon's SELECT takes the stamp that left and its draft lands; then
   the SELECT of the save takes the beacon's stamp, and the older draft lands over
   the newer. `NeverBackwards` admits this case and no other.
8. A publish without a stamp may clear a draft, or undo destinations, written
   after its read.
9. The backup of an invalid snapshot is written but never offered; a cancelled
   close sends a beacon whose save then looks like a conflict; a slug rename just
   before leaving makes the terminal save stale.
10. `form-renderer.tsx:1428` says that a required scheduler blocks Continue until
    booked, yet one that goes back to it after booking has no button left; a
    booking recorded after its step was left can let the page skip an invalid
    question, which the API then refuses (`ServerAccepts` exempts it as
    `strayed`).
11. Slides can skip a required step the API asks for, against
    `form-logic.ts:2678`. Rules that read an answer below them do it (`Forward`),
    and so does a jump onto a step that is not visible yet (`JumpsSettled`): the
    first step jumps to the third, which shows only after an answer to the second;
    the jump is ignored, the person answers the second, now the jump holds, the
    second step is off the path and the third never asked, since
    `form-renderer.tsx:756` takes the place for the last one. The proof of
    `PassedAreValid` failed on it.

## Plan

Each module with an inductive invariant and no RECURSIVE operator.

1. Done: `Outbox`, `DeliveryPromise`, `Submission`, `SessionRecord`, `Intake`,
   `FormSlug`, `FormLifecycle`, `Autosave`, `FormConditions`, `FormLogic` and
   `FormWalk`, their runs, and a proof of every safety property the passing runs
   check.
2. Left to prove: abstract specifications of the form row and of the autosave, as
   `SessionRecord` is one of the upsert.
3. Left to model: the ledger of account codes (`setVanitySlug`), which says it
   orders itself as `setFormSlug` does; the integrations editor, whose autosave
   has no stamp; the staging and copy of uploads; the workspace projection.

## Not modelled

Outcomes, text tokens, variants and the migration of old configs in the form
engine; templates and payloads; the adapters' protocols (an effect lands, skips
or throws); the admin reads; migrations. Of the renderer: the inline spam check,
the partial save at the threshold, bookings of an outcome or recorded after the
submission, a slider's default on mount, analytics. Of the walk's surroundings: a
republish in the middle of a session; prefilled answers are taken as the page
takes them, unvalidated. Of the editor: requests of one client that overlap in
`FormLifecycle` (the tab's queue is `Autosave`'s subject), templates and
duplication. Uploads keep their state in an object store and need a model of its
consistency. Identity and workspace projection mirror an external service.
Deleting a form or an account while one of its submissions is in progress is left
out.

Most of the repository's lines are interface text in several languages, layout,
types, queries and tests; what is left there has little order to get wrong.
