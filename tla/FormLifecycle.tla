---------------------------- MODULE FormLifecycle ----------------------------
(***************************************************************************)
(* One form and the clients that write it: editors, agents and API keys.   *)
(*                                                                          *)
(* row is the row of table `form`: the live config without its             *)
(* destinations, the destinations, the pending draft, the version kept for  *)
(* a revert, and updated_at, the optimistic lock.  A config is the set of   *)
(* edits it holds.  view[c] is what client c keeps: what is on its screen,  *)
(* the server's copy it last received (lastSavedRef), the stamp that came   *)
(* with it (stampRef), and what the person agreed to overwrite.  call[c]    *)
(* holds the locals of the client's request between two SQL statements.     *)
(*                                                                          *)
(* A stamp is Date.now(): it may repeat when two writes share a             *)
(* millisecond or when clocks of two replicas differ.  issued, lost,        *)
(* destLost and slips are history: the stamps ever written, the edits that  *)
(* a write dropped although its caller had neither seen them nor agreed,    *)
(* whether a publish or a revert undid a change of destinations, and the    *)
(* ways in which a behaviour left what the lock assumes:                    *)
(*   "reused"    a write was stamped with a value used before;              *)
(*   "unstamped" a write without a stamp landed on a row that had moved;    *)
(*   "reread"    another write landed between a write and the SELECT that   *)
(*               tells its caller the new stamp;                            *)
(*   "adopted"   a revert handed its client the stamp of a draft that its   *)
(*               screen does not show;                                      *)
(*   "destRace"  the live config was replaced while updateFormDestinations  *)
(*               held a copy of it.                                         *)
(***************************************************************************)
EXTENDS Naturals

CONSTANTS
    Clients, Edits, Stamps, Dests,
    NoStamp,    \* a request without expectedUpdatedAt
    NoDraft,    \* draft_config IS NULL
    NoVersion,  \* previous_config IS NULL
    NoForm,     \* a call that has read no row
    RevertAttempts  \* REVERT_ATTEMPTS

ASSUME LifecycleAssumption ==
    /\ NoStamp \notin Stamps
    /\ \A config \in SUBSET Edits : config # NoDraft /\ config # NoVersion
    /\ NoForm \notin [live: SUBSET Edits, dest: Dests, draft: {NoDraft} \cup SUBSET Edits,
                      previous: {NoVersion} \cup SUBSET Edits, stamp: Stamps]
    /\ RevertAttempts \in Nat \ {0}

VARIABLES row, view, call, issued, lost, destLost, slips

vars == <<row, view, call, issued, lost, destLost, slips>>

Slips == {"reused", "unstamped", "reread", "adopted", "destRace"}

Form == [live: SUBSET Edits, dest: Dests, draft: {NoDraft} \cup SUBSET Edits,
         previous: {NoVersion} \cup SUBSET Edits, stamp: Stamps]

View == [screen: SUBSET Edits, saved: SUBSET Edits, stamp: Stamps,
         waived: SUBSET Edits]

\* The statement a call is about to run.
Steps == {"idle", "saveAgain", "publishAgain", "renamed", "draft", "publish",
          "discard", "revert", "revertAgain", "destinations", "saved",
          "published", "unchanged", "discarded", "reverted",
          "saveRefused", "publishRefused", "conflict"}

\* The stamp sent, the stamp the call goes by (its own last write's, or its
\* read's), the config sent, the row read and the attempt.
Call == [pc: Steps, stamp: {NoStamp} \cup Stamps, at: {NoStamp} \cup Stamps,
         sent: SUBSET Edits, seen: {NoForm} \cup Form, tries: Nat]

NoCall == [pc |-> "idle", stamp |-> NoStamp, at |-> NoStamp, sent |-> {},
           seen |-> NoForm, tries |-> 0]

\* What a call has read by each of its steps.
CallShape(k) ==
    /\ k.pc \in {"publish", "unchanged", "discard", "revert", "destinations",
                 "conflict"} => k.seen \in Form
    /\ k.pc = "unchanged" => k.stamp # NoStamp
    /\ k.pc = "publish" => k.seen.draft # NoDraft
    /\ k.pc = "revert" => k.seen.previous # NoVersion

TypeOK ==
    /\ row \in Form
    /\ view \in [Clients -> View]
    /\ call \in [Clients -> Call]
    /\ \A c \in Clients : CallShape(call[c])
    /\ issued \subseteq Stamps
    /\ lost \subseteq Edits
    /\ destLost \in BOOLEAN
    /\ slips \subseteq Slips

\* What the editor opens: the pending draft, else the live config.
Content(form) == IF form.draft = NoDraft THEN form.live ELSE form.draft

-----------------------------------------------------------------------------

\* A form that was published, perhaps over an earlier version, and every
\* client with the editor just opened on it.
Init ==
    \E t \in Stamps, d \in Dests, p \in {{}, NoVersion} :
        LET form == [live |-> {}, dest |-> d, draft |-> NoDraft,
                     previous |-> p, stamp |-> t]
        IN /\ row = form
           /\ view = [c \in Clients |->
                        [screen |-> {}, saved |-> {}, stamp |-> t, waived |-> {}]]
           /\ call = [c \in Clients |-> NoCall]
           /\ issued = {t}
    /\ lost = {}
    /\ destLost = FALSE
    /\ slips = {}

\* Mutant: any stamp the form ever had passes.
GuardPassesStale(s) == s = NoStamp \/ s \in issued

\* staleGuard: a request without a stamp always passes.
GuardPasses(s) == s = NoStamp \/ row.stamp = s

\* What goes wrong when a statement sent with stamp s by a call that goes by
\* stamp at lands and stamps the row t.
SlipsOfWrite(s, at, t) ==
    (IF t \in issued THEN {"reused"} ELSE {})
    \cup (IF s = NoStamp /\ row.stamp # at THEN {"unstamped"} ELSE {})

\* A write of call c: the row becomes form, stamped t.
Write(c, form, s, at, t) ==
    /\ row' = [form EXCEPT !.stamp = t]
    /\ issued' = issued \cup {t}
    /\ slips' = slips \cup SlipsOfWrite(s, at, t)

Idle(c) == call[c].pc = "idle"
Goto(c, next) == call' = [call EXCEPT ![c] = next]
Show(c, next) == view' = [view EXCEPT ![c] = next]

\* What a call still needs when all but the answer is done: the stamp of its
\* write; and when it was refused: the body and the attempt.  A client that
\* sent no stamp keeps none of the answer.
Answering(c, pc, at) ==
    IF call[c].stamp = NoStamp THEN NoCall
    ELSE [NoCall EXCEPT !.pc = pc, !.at = at]
Refused(pc, sent, tries) == [NoCall EXCEPT !.pc = pc, !.sent = sent, !.tries = tries]

\* What client c has seen or has agreed to overwrite.
Known(c) == view[c].screen \cup view[c].waived

\* The person works on, also while a request is under way.
Type(c) ==
    /\ \E e \in Edits \ view[c].screen :
          Show(c, [view[c] EXCEPT !.screen = view[c].screen \cup {e}])
    /\ UNCHANGED <<row, call, issued, lost, destLost, slips>>

\* The editor is opened, or reloaded from the conflict banner.
Load(c) ==
    /\ Idle(c)
    /\ Show(c, [screen |-> Content(row), saved |-> Content(row),
                stamp |-> row.stamp, waived |-> {}])
    /\ UNCHANGED <<row, call, issued, lost, destLost, slips>>

\* A slug rename: the stamp moves and both configs stay.
Touch(t) ==
    /\ row' = [row EXCEPT !.stamp = t]
    /\ issued' = issued \cup {t}
    /\ slips' = slips \cup (IF t \in issued THEN {"reused"} ELSE {})
    /\ UNCHANGED <<view, call, lost, destLost>>

-----------------------------------------------------------------------------
(* PUT /v1/forms/:id: updateForm writes the name, reads the row back, and   *)
(* saveDraftConfig writes the draft guarded by the stamp of that read.      *)

\* A save sends the screen; the second attempt sends the same body again.
Body(c) == IF call[c].pc = "saveAgain" THEN call[c].sent ELSE view[c].screen

SaveRequest(c, s, at, pc) ==
    [NoCall EXCEPT !.pc = pc, !.stamp = s, !.at = at, !.sent = Body(c),
                   !.tries = call[c].tries]

SaveName(c, s, t) ==
    /\ call[c].pc \in {"idle", "saveAgain"}
    /\ call[c].pc = "saveAgain" => s = view[c].stamp
    /\ IF GuardPasses(s)
       THEN /\ Write(c, row, s, view[c].stamp, t)
            /\ Goto(c, SaveRequest(c, s, t, "renamed"))
       ELSE /\ Goto(c, Refused("saveRefused", Body(c), call[c].tries))
            /\ UNCHANGED <<row, issued, slips>>
    /\ UNCHANGED <<view, lost, destLost>>

RereadName(c) ==
    /\ call[c].pc = "renamed"
    /\ Goto(c, [call[c] EXCEPT !.pc = "draft",
                               !.stamp = IF call[c].stamp = NoStamp
                                         THEN NoStamp ELSE row.stamp])
    /\ slips' = slips \cup (IF row.stamp # call[c].at THEN {"reread"} ELSE {})
    /\ UNCHANGED <<row, view, issued, lost, destLost>>

\* A request without a name starts at the draft.
SaveConfigOnly(c, s) ==
    /\ Idle(c)
    /\ Goto(c, SaveRequest(c, s, view[c].stamp, "draft"))
    /\ UNCHANGED <<row, view, issued, lost, destLost, slips>>

SaveDraft(c, t) ==
    /\ call[c].pc = "draft"
    /\ IF GuardPasses(call[c].stamp)
       THEN /\ Write(c, [row EXCEPT !.draft = call[c].sent],
                     call[c].stamp, call[c].at, t)
            /\ Goto(c, Answering(c, "saved", t))
            /\ lost' = lost \cup (Content(row) \ (call[c].sent \cup view[c].waived))
       ELSE /\ Goto(c, Refused("saveRefused", call[c].sent, call[c].tries))
            /\ UNCHANGED <<row, lost, issued, slips>>
    /\ UNCHANGED <<view, destLost>>

-----------------------------------------------------------------------------
(* publishForm and discardDraft: a SELECT, the stamp and the draft checked  *)
(* in memory, then one UPDATE WHERE draft_config IS NOT NULL.               *)

ReadRow(c, seen, s, pc) ==
    [NoCall EXCEPT !.pc = pc, !.stamp = s, !.seen = seen, !.at = row.stamp,
                   !.tries = call[c].tries]

\* A form with no draft is answered as it was read.
Unchanged(c, s) == IF s = NoStamp THEN NoCall ELSE ReadRow(c, row, s, "unchanged")

\* Mutant: the no-draft shortcut before the stamp.
PublishReadShortcutFirst(c, s) ==
    IF row.draft = NoDraft THEN Unchanged(c, s)
    ELSE IF GuardPasses(s) THEN ReadRow(c, row, s, "publish")
    ELSE Refused("publishRefused", {}, call[c].tries)

PublishRead(c, s) ==
    IF ~GuardPasses(s) THEN Refused("publishRefused", {}, call[c].tries)
    ELSE IF row.draft = NoDraft THEN Unchanged(c, s)
    ELSE ReadRow(c, row, s, "publish")

\* The button flushes the autosave first: after "Keep mine" that is a save.
ReadForPublish(c, s) ==
    /\ call[c].pc \in {"idle", "publishAgain"}
    /\ view[c].waived = {}
    /\ call[c].pc = "publishAgain" => s = view[c].stamp
    /\ Goto(c, PublishRead(c, s))
    /\ UNCHANGED <<row, view, issued, lost, destLost, slips>>

\* The draft as read goes live with the destinations as read; the draft that
\* the row holds by then is cleared, and the live config it holds is kept.
WritePublish(c, t) ==
    /\ call[c].pc = "publish"
    /\ LET seen == call[c].seen IN
       IF row.draft # NoDraft /\ GuardPasses(call[c].stamp)
       THEN /\ Write(c, [row EXCEPT !.live = seen.draft, !.dest = seen.dest,
                                    !.draft = NoDraft, !.previous = row.live],
                     call[c].stamp, call[c].at, t)
            /\ Goto(c, Answering(c, "published", t))
            /\ lost' = lost \cup (row.draft \ seen.draft)
            /\ destLost' = (destLost \/ seen.dest # row.dest)
       ELSE /\ Goto(c, IF call[c].stamp = NoStamp THEN NoCall
                       ELSE Refused("publishRefused", {}, call[c].tries))
            /\ UNCHANGED <<row, issued, slips, lost, destLost>>
    /\ UNCHANGED view

\* Refused and needless discards answer at once and change nothing.
ReadForDiscard(c, s) ==
    /\ Idle(c)
    /\ GuardPasses(s)
    /\ row.draft # NoDraft
    /\ Goto(c, ReadRow(c, row, s, "discard"))
    /\ UNCHANGED <<row, view, issued, lost, destLost, slips>>

WriteDiscard(c, t) ==
    /\ call[c].pc = "discard"
    /\ IF row.draft # NoDraft /\ GuardPasses(call[c].stamp)
       THEN /\ Write(c, [row EXCEPT !.draft = NoDraft],
                     call[c].stamp, call[c].at, t)
            /\ Goto(c, Answering(c, "discarded", t))
            /\ lost' = lost \cup (row.draft \ (call[c].seen.draft \cup Known(c)))
       ELSE /\ Goto(c, NoCall)
            /\ UNCHANGED <<row, issued, slips, lost>>
    /\ UNCHANGED <<view, destLost>>

-----------------------------------------------------------------------------
(* revertForm takes no stamp: it guards its UPDATE by the one it read.      *)

ReadForRevert(c) ==
    /\ call[c].pc \in {"idle", "revertAgain"}
    /\ Goto(c, IF row.previous = NoVersion THEN NoCall
               ELSE ReadRow(c, row, row.stamp, "revert"))
    /\ UNCHANGED <<row, view, issued, lost, destLost, slips>>

\* Mutant: the swap without the stamp of its read.
RevertFiresUnguarded(c) == row.previous # NoVersion

RevertFires(c) == row.previous # NoVersion /\ GuardPasses(call[c].stamp)

\* The two versions swap; a write since the read sends it round again.
WriteRevert(c, t) ==
    /\ call[c].pc = "revert"
    /\ LET seen == call[c].seen IN
       IF RevertFires(c)
       THEN /\ Write(c, [row EXCEPT !.live = seen.previous, !.dest = seen.dest,
                                    !.previous = row.live],
                     call[c].stamp, call[c].at, t)
            /\ Goto(c, Answering(c, "reverted", t))
            /\ destLost' = (destLost \/ seen.dest # row.dest)
       ELSE /\ Goto(c, IF call[c].tries + 1 < RevertAttempts
                       THEN Refused("revertAgain", {}, call[c].tries + 1)
                       ELSE NoCall)
            /\ UNCHANGED <<row, issued, slips, destLost>>
    /\ UNCHANGED <<view, lost>>

-----------------------------------------------------------------------------
(* updateFormDestinations: the live config is read, and written back with   *)
(* the new destinations whatever happened to it since.                      *)

ReadForDestinations(c, d) ==
    /\ Idle(c)
    /\ Goto(c, ReadRow(c, [row EXCEPT !.dest = d], NoStamp, "destinations"))
    /\ UNCHANGED <<row, view, issued, lost, destLost, slips>>

WriteDestinations(c, t) ==
    /\ call[c].pc = "destinations"
    /\ LET seen == call[c].seen IN
       /\ row' = [row EXCEPT !.live = seen.live, !.dest = seen.dest, !.stamp = t]
       /\ issued' = issued \cup {t}
       /\ slips' = slips \cup (IF t \in issued THEN {"reused"} ELSE {})
                         \cup (IF seen.live # row.live THEN {"destRace"} ELSE {})
    /\ Goto(c, NoCall)
    /\ UNCHANGED <<view, lost, destLost>>

-----------------------------------------------------------------------------
(* The answers.  Each carries the row as read again after the write, and    *)
(* the client keeps its stamp; lost answers leave the client as it was.     *)

\* The stamp and the content of form are adopted; the screen stays.
Adopt(c, form, waived) ==
    Show(c, [view[c] EXCEPT !.saved = Content(form), !.stamp = form.stamp,
                            !.waived = waived])

\* The row read for the answer is not the one the call wrote.
Moved(c) == slips' = slips \cup (IF row.stamp # call[c].at THEN {"reread"} ELSE {})

SaveAnswered(c) ==
    /\ call[c].pc = "saved"
    /\ Adopt(c, row, {})
    /\ Moved(c)
    /\ Goto(c, NoCall)
    /\ UNCHANGED <<row, issued, lost, destLost>>

\* onPublished; a publish with nothing to publish answers with what it read.
PublishAnswered(c) ==
    /\ \/ call[c].pc = "published" /\ Adopt(c, row, view[c].waived) /\ Moved(c)
       \/ call[c].pc = "unchanged" /\ Adopt(c, call[c].seen, view[c].waived)
                                   /\ UNCHANGED slips
    /\ Goto(c, NoCall)
    /\ UNCHANGED <<row, issued, lost, destLost>>

\* onReverted: with a draft pending the editor "shows that draft" and its
\* screen stays; without one, the version that went live replaces the screen.
RevertAnswered(c) ==
    /\ call[c].pc = "reverted"
    /\ IF row.draft # NoDraft
       THEN /\ Adopt(c, row, view[c].waived)
            /\ slips' = slips \cup (IF Content(row) \subseteq Known(c)
                                    THEN {} ELSE {"adopted"})
       ELSE /\ Show(c, [screen |-> row.live, saved |-> row.live,
                        stamp |-> row.stamp, waived |-> {}])
            /\ UNCHANGED slips
    /\ Goto(c, NoCall)
    /\ UNCHANGED <<row, issued, lost, destLost>>

DiscardAnswered(c) ==
    /\ call[c].pc = "discarded"
    /\ Show(c, [screen |-> Content(row), saved |-> Content(row),
                stamp |-> row.stamp, waived |-> {}])
    /\ Goto(c, NoCall)
    /\ UNCHANGED <<row, issued, lost, destLost, slips>>

AnswerLost(c) ==
    /\ call[c].pc \in {"saved", "published", "unchanged", "discarded", "reverted",
                       "saveRefused", "publishRefused"}
    /\ Goto(c, NoCall)
    /\ UNCHANGED <<row, view, issued, lost, destLost, slips>>

\* Mutant: the new stamp is taken without a look at the content.
OnlyStampMovedUnread(c) == call[c].tries = 0

OnlyStampMoved(c) == Content(row) = view[c].saved /\ call[c].tries = 0

\* A refusal (409) carries the row as it is now.  Its content is the one the
\* client was last given: only the stamp moved, so it is adopted and the call
\* sent again, once.  Otherwise the person decides.
Resolve(c) ==
    /\ call[c].pc \in {"saveRefused", "publishRefused"}
    /\ LET save == call[c].pc = "saveRefused" IN
       IF OnlyStampMoved(c)
       THEN /\ Show(c, [view[c] EXCEPT !.stamp = row.stamp])
            /\ Goto(c, Refused(IF save THEN "saveAgain" ELSE "publishAgain",
                               call[c].sent, 1))
       ELSE /\ Goto(c, [NoCall EXCEPT !.pc = "conflict", !.seen = row])
            /\ UNCHANGED view
    /\ UNCHANGED <<row, issued, lost, destLost, slips>>

\* "Keep mine" takes the stamp of the row the banner is about; leaving the
\* banner alone keeps the old one.
Decide(c) ==
    /\ call[c].pc = "conflict"
    /\ \/ Show(c, [view[c] EXCEPT
                     !.stamp = call[c].seen.stamp,
                     !.waived = view[c].waived \cup Content(call[c].seen)])
       \/ UNCHANGED view
    /\ Goto(c, NoCall)
    /\ UNCHANGED <<row, issued, lost, destLost, slips>>

-----------------------------------------------------------------------------

Request(c) ==
    \/ ReadForRevert(c)
    \/ \E d \in Dests : ReadForDestinations(c, d)
    \/ \E s \in {view[c].stamp, NoStamp} :
          \/ SaveConfigOnly(c, s)
          \/ ReadForPublish(c, s)
          \/ ReadForDiscard(c, s)
          \/ \E t \in Stamps : SaveName(c, s, t)

Continue(c) ==
    \/ RereadName(c)
    \/ \E t \in Stamps : \/ SaveDraft(c, t)
                         \/ WritePublish(c, t)
                         \/ WriteDiscard(c, t)
                         \/ WriteRevert(c, t)
                         \/ WriteDestinations(c, t)

Answer(c) ==
    \/ SaveAnswered(c)
    \/ PublishAnswered(c)
    \/ RevertAnswered(c)
    \/ DiscardAnswered(c)
    \/ AnswerLost(c)
    \/ Resolve(c)
    \/ Decide(c)

Next ==
    \/ \E c \in Clients : Type(c) \/ Load(c) \/ Request(c) \/ Continue(c) \/ Answer(c)
    \/ \E t \in Stamps : Touch(t)

Spec == Init /\ [][Next]_vars

-----------------------------------------------------------------------------

\* Every stamp in use was written once: a new one is none of them.
StampsIssued(stamps, v, k) ==
    /\ v.stamp \in stamps
    /\ k.stamp \in stamps \cup {NoStamp}
    /\ k.at \in stamps \cup {NoStamp}
    /\ k.seen # NoForm => k.seen.stamp \in stamps

\* What row r, the view v of a client and its call k have to do with each
\* other while nothing has slipped: who holds the row's stamp knows the row.
ClientKnows(r, v, k) ==
    /\ v.stamp = r.stamp => Content(r) \subseteq v.screen \cup v.waived
    /\ v.saved \subseteq v.screen \cup v.waived
    /\ k.sent \subseteq v.screen
    /\ k.pc = "idle" => k = NoCall
    /\ k.pc \in {"saveRefused", "saveAgain", "renamed", "draft"} =>
          v.saved \subseteq k.sent \cup v.waived
    /\ k.pc = "saveAgain" /\ v.stamp = r.stamp =>
          Content(r) \subseteq k.sent \cup v.waived
    /\ k.pc \in {"renamed", "draft"} /\ k.at = r.stamp =>
          Content(r) \subseteq k.sent \cup v.waived
    /\ k.pc \in {"draft", "publish", "unchanged", "discard", "revert"} =>
          k.stamp \in {NoStamp, k.at}
    /\ k.pc \in {"publish", "unchanged", "discard", "revert"} =>
          /\ k.seen.stamp = k.at
          /\ k.at = r.stamp => k.seen = r
    /\ k.pc = "conflict" /\ k.seen.stamp = r.stamp =>
          Content(r) = Content(k.seen)
    /\ k.pc \in {"publish", "unchanged", "published"} => v.waived = {}
    /\ k.pc \in {"publish", "unchanged"} /\ k.stamp # NoStamp =>
          Content(k.seen) \subseteq v.screen
    /\ k.pc \in {"saved", "published"} /\ k.at = r.stamp =>
          Content(r) \subseteq v.screen

\* The inductive invariant.
LifecycleInv ==
    /\ TypeOK
    /\ row.stamp \in issued
    /\ \A c \in Clients : StampsIssued(issued, view[c], call[c])
    /\ slips = {} => /\ \A c \in Clients : ClientKnows(row, view[c], call[c])
                     /\ lost = {}
                     /\ ~destLost

\* staleGuard, publishForm, discardDraft, guardedSave: while nothing has
\* slipped, no save, publish or discard drops an edit that its caller had
\* neither seen nor agreed to overwrite.
NothingLost == slips = {} => lost = {}

\* publishForm and revertForm carry the live destinations over: neither undoes
\* a change of destinations that landed between its read and its write.  (A
\* publish sent without a stamp that raced another write is a slip.)
DestinationsKept == slips = {} => ~destLost

\* publishForm: a publish sent with a stamp makes nothing live that its
\* publisher does not have on the screen.
PublishesWhatWasSeen ==
    [][\A c \in Clients, t \in Stamps :
          WritePublish(c, t) /\ call[c].stamp # NoStamp /\ row' # row /\ slips' = {}
            => row'.live \subseteq view[c].screen]_vars

\* What staleGuard promises a client that sends its stamp: its save throws
\* nobody's edits away.  The answer to a revert is no excuse.
StampedSavesKeepEdits == slips \subseteq {"adopted"} => lost = {}

=============================================================================
