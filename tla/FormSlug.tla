------------------------------ MODULE FormSlug ------------------------------
(***************************************************************************)
(* The public slugs of one account's forms: form.slug and the ledger of     *)
(* retired slugs, form_alias (packages/db/src/forms.ts).  A form answers to *)
(* its live slug and to every slug it was ever renamed from.                *)
(*                                                                          *)
(* No index spans the two tables and no call is a transaction: each call    *)
(* reads and writes them statement by statement, interleaved with others.   *)
(* `links` is history: the slugs under which a form has been published and  *)
(* which it is still to answer to.  `slips` names the hazards a behaviour   *)
(* has met; they are the ones the ordering of the statements does not cover.*)
(***************************************************************************)
EXTENDS Naturals, FiniteSets

CONSTANTS
    Forms,      \* ids of forms that exist or may be created
    Slugs,      \* valid slugs
    Calls,      \* calls in progress at one time
    NoForm,     \* a slug the ledger does not hold; a call on no form
    NoSlug,     \* a form that was not created yet
    Deleted,    \* a form whose row was deleted
    MaxFaults   \* bound: calls that die and INSERTs that fail

ASSUME SlugAssumption ==
    /\ NoForm \notin Forms
    /\ NoSlug \notin Slugs
    /\ Deleted \notin Slugs
    /\ NoSlug # Deleted
    /\ MaxFaults \in Nat

VARIABLES
    live,     \* form.slug
    retired,  \* form_alias: slug -> the form that used to answer to it
    call,     \* the locals of each call
    links,    \* history: per form, the links it has to keep alive
    slips,    \* history: hazards met
    faults    \* faults spent so far

vars == <<live, retired, call, links, slips, faults>>

\* FORM_SLUG_INSERT_ATTEMPTS
InsertAttempts == 3

Hazards == {"sameForm", "reclaim", "staleCheck", "retireLost"}
Checking == {"checkLive", "checkRetired"}
Checked == {"retire", "reclaim", "move", "insert"}
Steps == {"idle", "unalias", "drop"} \cup Checking \cup Checked

Call == [pc : Steps, form : Forms \cup {NoForm}, old : Slugs \cup {NoSlug},
         new : Slugs \cup {NoSlug}, reclaimed : BOOLEAN, tries : 0..InsertAttempts]

Idle == [pc |-> "idle", form |-> NoForm, old |-> NoSlug, new |-> NoSlug,
         reclaimed |-> FALSE, tries |-> 0]

Exists(f) == live[f] \in Slugs
Busy(f) == \E c \in Calls : call[c].pc # "idle" /\ call[c].form = f

Init ==
    /\ live = [f \in Forms |-> NoSlug]
    /\ retired = [s \in Slugs |-> NoForm]
    /\ call = [c \in Calls |-> Idle]
    /\ links = [f \in Forms |-> {}]
    /\ slips = {}
    /\ faults = 0

Goto(c, pc) == call' = [call EXCEPT ![c].pc = pc]
Return(c) == call' = [call EXCEPT ![c] = Idle]

Slip(hazard, met) == slips' = IF met THEN slips \cup {hazard} ELSE slips

(***************************************************************************)
(* The calls begin.                                                         *)
(***************************************************************************)

\* createForm, with its first candidate.  Its id is a fresh UUID.
CreateForm(c, f, s) ==
    /\ call[c].pc = "idle"
    /\ live[f] = NoSlug
    /\ ~Busy(f)
    /\ call' = [call EXCEPT ![c] = [Idle EXCEPT !.pc = "checkLive", !.form = f, !.new = s]]
    /\ UNCHANGED <<live, retired, links, slips, faults>>

\* setFormSlug reads the form.  A rename to the slug it has is answered as is.
SetFormSlug(c, f, s) ==
    /\ call[c].pc = "idle"
    /\ Exists(f)
    /\ live[f] # s
    /\ call' = [call EXCEPT ![c] = [Idle EXCEPT !.pc = "checkLive", !.form = f,
                                                !.old = live[f], !.new = s]]
    /\ Slip("sameForm", Busy(f))
    /\ UNCHANGED <<live, retired, links, faults>>

\* deleteForm: from here on the form's links are given up.
DeleteForm(c, f) ==
    /\ call[c].pc = "idle"
    /\ Exists(f)
    /\ call' = [call EXCEPT ![c] = [Idle EXCEPT !.pc = "unalias", !.form = f]]
    /\ links' = [links EXCEPT ![f] = {}]
    /\ Slip("sameForm", Busy(f))
    /\ UNCHANGED <<live, retired, faults>>

(***************************************************************************)
(* formSlugInUse: the live slugs, then the ledger.                          *)
(***************************************************************************)

\* A taken slug: a rename is answered SLUG_TAKEN, a create goes on to the
\* next candidate of uniqueFormSlug, whichever that is.
Taken(c) ==
    IF call[c].old # NoSlug THEN Return(c)
    ELSE \E s \in Slugs : call' = [call EXCEPT ![c] = [call[c] EXCEPT !.pc = "checkLive", !.new = s]]

\* Mutant: the rename does not retire the slug it leaves.
FreeUnretired(c) == Goto(c, IF call[c].old # NoSlug THEN "reclaim" ELSE "insert")

Free(c) == Goto(c, IF call[c].old # NoSlug THEN "retire" ELSE "insert")

CheckLive(c) ==
    /\ call[c].pc = "checkLive"
    /\ \/ \E f \in Forms : live[f] = call[c].new /\ f # call[c].form /\ Taken(c)
       \/ live[call[c].form] = call[c].new /\ Free(c)
       \/ (\A f \in Forms : live[f] # call[c].new) /\ Goto(c, "checkRetired")
    /\ UNCHANGED <<live, retired, links, slips, faults>>

\* Mutant: the ledger is not asked.
CheckRetiredIgnored(c) ==
    /\ call[c].pc = "checkRetired"
    /\ Free(c)
    /\ UNCHANGED <<live, retired, links, slips, faults>>

CheckRetired(c) ==
    /\ call[c].pc = "checkRetired"
    /\ IF retired[call[c].new] \in {NoForm, call[c].form} THEN Free(c) ELSE Taken(c)
    /\ UNCHANGED <<live, retired, links, slips, faults>>

(***************************************************************************)
(* createForm's INSERT and setFormSlug's three statements.                  *)
(***************************************************************************)

\* form_account_slug_uq: nobody else is live on the slug.
FreeInIndex(c) == \A f \in Forms : live[f] = call[c].new => f = call[c].form

BecomeLive(c) ==
    /\ live' = [live EXCEPT ![call[c].form] = call[c].new]
    /\ links' = [links EXCEPT ![call[c].form] = @ \cup {call[c].new}]

\* The INSERT; on a conflict the candidates are tried again, three times.
Insert(c) ==
    /\ call[c].pc = "insert"
    /\ IF FreeInIndex(c)
       THEN BecomeLive(c) /\ Return(c)
       ELSE /\ IF call[c].tries + 1 < InsertAttempts
               THEN \E s \in Slugs :
                       call' = [call EXCEPT ![c] = [call[c] EXCEPT !.pc = "checkLive", !.new = s,
                                                                   !.tries = call[c].tries + 1]]
               ELSE Return(c)
            /\ UNCHANGED <<live, links>>
    /\ UNCHANGED <<retired, slips, faults>>

\* addFormAlias.  It slips when another call has already been told that the
\* slug now retired is free.
Retire(c) ==
    /\ call[c].pc = "retire"
    /\ retired' = [retired EXCEPT ![call[c].old] = IF @ = NoForm THEN call[c].form ELSE @]
    /\ Goto(c, "reclaim")
    /\ Slip("staleCheck", \E d \in Calls : /\ call[d].pc \in Checked
                                           /\ call[d].form # call[c].form
                                           /\ call[d].new = call[c].old)
    /\ UNCHANGED <<live, links, faults>>

SpendFault ==
    /\ faults < MaxFaults
    /\ faults' = faults + 1

\* Its INSERT fails for another reason than the primary key: its catch does
\* not look at the error, and the rename goes on.
RetireFails(c) ==
    /\ call[c].pc = "retire"
    /\ SpendFault
    /\ Goto(c, "reclaim")
    /\ Slip("retireLost", TRUE)
    /\ UNCHANGED <<live, retired, links>>

\* Mutant: the DELETE without its form_id.
ReclaimAnybodys(c) ==
    /\ call[c].pc = "reclaim"
    /\ retired' = [retired EXCEPT ![call[c].new] = NoForm]
    /\ call' = [call EXCEPT ![c] = [call[c] EXCEPT !.pc = "move",
                                                   !.reclaimed = retired[call[c].new] = call[c].form]]
    /\ UNCHANGED <<live, links, slips, faults>>

\* The DELETE of the form's own alias for the slug it is about to take.
Reclaim(c) ==
    /\ call[c].pc = "reclaim"
    /\ retired' = [retired EXCEPT ![call[c].new] = IF @ = call[c].form THEN NoForm ELSE @]
    /\ call' = [call EXCEPT ![c] = [call[c] EXCEPT !.pc = "move",
                                                   !.reclaimed = retired[call[c].new] = call[c].form]]
    /\ UNCHANGED <<live, links, slips, faults>>

\* The UPDATE: it moves the form, loses the race for the slug (and the
\* reclaimed slug with it), or finds no row.  The selections of member
\* profiles that follow the slug are another table, rewritten best effort.
Move(c) ==
    /\ call[c].pc = "move"
    /\ IF Exists(call[c].form) /\ FreeInIndex(c)
       THEN BecomeLive(c) /\ UNCHANGED slips
       ELSE Slip("reclaim", call[c].reclaimed) /\ UNCHANGED <<live, links>>
    /\ Return(c)
    /\ UNCHANGED <<retired, faults>>

(***************************************************************************)
(* deleteForm's last two statements.                                        *)
(***************************************************************************)

\* Mutant: the ledger forgotten.
UnaliasNothing(c) ==
    /\ call[c].pc = "unalias"
    /\ Goto(c, "drop")
    /\ UNCHANGED <<live, retired, links, slips, faults>>

Unalias(c) ==
    /\ call[c].pc = "unalias"
    /\ retired' = [s \in Slugs |-> IF retired[s] = call[c].form THEN NoForm ELSE retired[s]]
    /\ Goto(c, "drop")
    /\ UNCHANGED <<live, links, slips, faults>>

Drop(c) ==
    /\ call[c].pc = "drop"
    /\ live' = [live EXCEPT ![call[c].form] = Deleted]
    /\ links' = [links EXCEPT ![call[c].form] = {}]
    /\ Return(c)
    /\ UNCHANGED <<retired, slips, faults>>

\* The process serving the call dies.
Die(c) ==
    /\ call[c].pc # "idle"
    /\ SpendFault
    /\ Return(c)
    /\ Slip("reclaim", call[c].reclaimed)
    /\ UNCHANGED <<live, retired, links>>

Begin(c) ==
    \E f \in Forms :
        \/ \E s \in Slugs : CreateForm(c, f, s) \/ SetFormSlug(c, f, s)
        \/ DeleteForm(c, f)

Step(c) ==
    \/ CheckLive(c)
    \/ CheckRetired(c)
    \/ Insert(c)
    \/ Retire(c)
    \/ RetireFails(c)
    \/ Reclaim(c)
    \/ Move(c)
    \/ Unalias(c)
    \/ Drop(c)
    \/ Die(c)

Next == \E c \in Calls : Begin(c) \/ Step(c)

Spec == Init /\ [][Next]_vars

(***************************************************************************)
(* Correctness.                                                             *)
(***************************************************************************)

TypeOK ==
    /\ live \in [Forms -> Slugs \cup {NoSlug, Deleted}]
    /\ retired \in [Slugs -> Forms \cup {NoForm}]
    /\ call \in [Calls -> Call]
    /\ \A c \in Calls : call[c].pc # "idle" => call[c].form \in Forms
    /\ \A c \in Calls : call[c].pc \in Checking \cup Checked => call[c].new \in Slugs
    /\ \A c \in Calls : call[c].pc \in {"retire", "reclaim", "move"} => call[c].old \in Slugs
    /\ \A c \in Calls : call[c].pc = "insert" => call[c].old = NoSlug
    /\ links \in [Forms -> SUBSET Slugs]
    /\ slips \in SUBSET Hazards
    /\ faults \in 0..MaxFaults

\* The form's link s is answered by the form itself: getPublishedForm takes
\* the live slug first, then the ledger.
Answers(f, s) == live[f] = s \/ (retired[s] = f /\ \A g \in Forms : live[g] # s)

\* A link that a rename back to it has taken out of the ledger and not yet
\* made live.
Reclaiming(f, s) == \E c \in Calls : call[c].form = f /\ call[c].new = s /\ call[c].reclaimed

LinksAnswered ==
    \A f \in Forms : \A s \in links[f] : Answers(f, s) \/ Reclaiming(f, s)

\* Every link a form was ever published under keeps leading to that form,
\* through any interleaving of creates, renames and deletes of all forms and
\* deaths of calls, as long as no hazard was met: two calls on one form at a
\* time, a reclaimed slug whose rename did not finish, a slug retired after
\* another call was told it is free, a retirement whose INSERT failed.
LinksKept == slips = {} => LinksAnswered

\* The same with the reclaim hazard allowed: setFormSlug's comments say that
\* it keeps every link alive and that every intermediate state its ordering
\* can leave behind is inert.  False: see Reclaim.
LinksKeptThroughReclaim == slips \subseteq {"reclaim"} => LinksAnswered

\* A retired slug leaves the ledger only by a call on the form it belongs to,
\* however that call interleaves with others, and never changes hands.
LedgerIsOwn ==
    [][\A s \in Slugs :
          retired[s] # NoForm /\ retired'[s] # retired[s] =>
              /\ retired'[s] = NoForm
              /\ \E c \in Calls : call[c].form = retired[s] /\ call[c].pc \in {"reclaim", "unalias"}]_vars

\* A deleted form keeps no slug reserved, unless it was renamed meanwhile.
DeletedFreesSlugs ==
    "sameForm" \notin slips =>
        \A s \in Slugs : retired[s] # NoForm => Exists(retired[s])

(***************************************************************************)
(* The inductive invariant.                                                 *)
(***************************************************************************)

\* What form_account_slug_uq enforces.
UniqueLive == \A f, g \in Forms : Exists(f) /\ live[f] = live[g] => f = g

OneCallAForm ==
    "sameForm" \notin slips =>
        \A c, d \in Calls :
            call[c].pc # "idle" /\ call[d].pc # "idle" /\ call[c].form = call[d].form => c = d

\* What a call read of its form still holds, unless calls on it overlap.
CallInStep(c) ==
    LET q == call[c] IN
    /\ q.reclaimed => q.pc = "move"
    /\ q.pc \in Checking \cup Checked => q.old # q.new
    /\ "sameForm" \notin slips =>
          /\ q.pc \in Checking \cup Checked => live[q.form] = q.old
          /\ q.pc \in {"unalias", "drop"} => Exists(q.form) /\ links[q.form] = {}
          /\ q.pc = "drop" => \A s \in Slugs : retired[s] # q.form

\* The slug a rename is leaving is in the ledger before it leaves it.
RetiredFirst ==
    slips = {} =>
        \A c \in Calls : call[c].pc \in {"reclaim", "move"} => retired[call[c].old] = call[c].form

\* Nobody else is live on a retired slug, or has been told that it is free.
RetiredIsReserved ==
    slips = {} =>
        \A s \in Slugs : retired[s] # NoForm =>
            /\ \A f \in Forms : live[f] = s => f = retired[s]
            /\ \A c \in Calls : call[c].pc \in Checked /\ call[c].new = s => call[c].form = retired[s]

\* What keeps a published link leading to its form after every statement of
\* createForm, setFormSlug and deleteForm: a rename retires its old slug
\* before it leaves it, and a slug that is live or retired is told free to
\* nobody else.
SlugInv ==
    /\ TypeOK
    /\ UniqueLive
    /\ OneCallAForm
    /\ \A c \in Calls : CallInStep(c)
    /\ RetiredFirst
    /\ RetiredIsReserved
    /\ LinksKept
    /\ DeletedFreesSlugs
=============================================================================
