------------------------------ MODULE Autosave ------------------------------
(***************************************************************************)
(* The form editor's autosave: AutosaveController, its browser wiring       *)
(* (useAutosave), the guarded save it calls (guardedSave), the crash backup *)
(* in localStorage, and the form's row as far as these see it.              *)
(*                                                                          *)
(* A form is its name and its config (here, what the editor opens: the      *)
(* pending draft).  Each is the generation of the edit that made it: 0 is   *)
(* the form as loaded, Theirs what another editor wrote.  screen is what    *)
(* the editor shows, ctl the fields of the controller, ref the editor's     *)
(* refs (stampRef, lastSavedRef and the banner), calls the server actions   *)
(* of this tab, which run one after the other: the head is at the server.   *)
(* late is what still runs with nobody waiting: beacons, and requests given *)
(* up by callAction.                                                        *)
(*                                                                          *)
(* PUT /v1/forms/:id is several statements, interleaved with those of any   *)
(* other request: the name is written WHERE updated_at is the stamp sent,   *)
(* the row is read back, the draft is written WHERE updated_at is the stamp *)
(* of that read, and the row is read again for the answer.  The editor has  *)
(* the answer in the step that reads it: what it does with it concerns the  *)
(* row no more than what others do meanwhile concerns the editor.           *)
(*                                                                          *)
(* landed, failures, elsewhere and unloads are history: the generations     *)
(* whose draft was written, the failures, the statements of others, and the *)
(* attempts to close the tab.  MaxOfAKind bounds each of the last three, and *)
(* MaxTroubles their sum.                                                   *)
(***************************************************************************)
EXTENDS Naturals, Sequences

CONSTANTS
    MaxEdits, MaxTroubles, MaxOfAKind,
    Theirs,     \* content of another editor
    None        \* no banner, no backup, no offer

ASSUME AutosaveAssumption ==
    /\ MaxEdits \in Nat /\ MaxTroubles \in Nat /\ MaxOfAKind \in Nat
    /\ Theirs \notin Nat
    /\ None \notin Nat

VARIABLES page, valid, screen, ctl, ref, calls, late, row, backup, offer,
          landed, failures, elsewhere, unloads

tab == <<page, valid, screen, ctl, ref, calls, backup, offer>>
history == <<failures, elsewhere, unloads>>
vars == <<tab, late, row, landed, history>>

Generations == 0..MaxEdits
Work == [name: Generations, config: Generations]
Contents == [name: Generations \cup {Theirs}, config: Generations \cup {Theirs}]
Status == {"saved", "saving", "retrying", "error", "conflict"}

Controller == [gen: Generations, saved: Generations, inFlight: BOOLEAN,
               debounce: BOOLEAN, retry: BOOLEAN, waiting: BOOLEAN, status: Status]

\* The statement a request runs next; saved and refused ones run none.
Running == {"sent", "named", "draft"}
Steps == Running \cup {"saved", "refused"}

\* A request: the terminal save of a page that was left, or one of run(), with
\* the stamp it sent and the one its own SELECT found after the name.
Request == [terminal: BOOLEAN, gen: Generations, work: Work, stamp: Nat,
            attempt: 1..2, pc: Steps, at: Nat]

Drafts == [gen: Generations, work: Work, newer: BOOLEAN]

TypeOK ==
    /\ page \in {"open", "left", "closed", "reopened"}
    /\ valid \in BOOLEAN
    /\ screen \in Work
    /\ ctl \in Controller
    /\ ref \in [stamp: Nat, content: Contents, banner: {None} \cup Nat]
    /\ calls \in Seq(Request)
    /\ late \subseteq Request
    /\ row \in [stamp: Nat, content: Contents]
    /\ backup = None \/ backup \in Drafts
    /\ offer = None \/ offer \in Generations
    /\ landed \subseteq Generations
    /\ failures \in 0..MaxOfAKind
    /\ elsewhere \in 0..MaxOfAKind
    /\ unloads \in 0..MaxOfAKind

Init ==
    /\ page = "open"
    /\ valid = TRUE
    /\ screen = [name |-> 0, config |-> 0]
    /\ ctl = [gen |-> 0, saved |-> 0, inFlight |-> FALSE, debounce |-> FALSE,
              retry |-> FALSE, waiting |-> FALSE, status |-> "saved"]
    /\ ref = [stamp |-> 0, content |-> screen, banner |-> None]
    /\ calls = << >>
    /\ late = {}
    /\ row = [stamp |-> 0, content |-> screen]
    /\ backup = None
    /\ offer = None
    /\ landed = {0}
    /\ failures = 0
    /\ elsewhere = 0
    /\ unloads = 0

Trouble(kind) == kind < MaxOfAKind /\ failures + elsewhere + unloads < MaxTroubles

Open == page = "open"
Dirty(c) == c.gen # c.saved

-----------------------------------------------------------------------------
(* The controller.                                                          *)

\* writeDraftBackup: dated now, so newer than the row until its next write.
Backup == [gen |-> ctl.gen, work |-> screen, newer |-> TRUE]

\* A save carries what is on the screen.
SaveRequest(terminal, stamp) ==
    [terminal |-> terminal, gen |-> ctl.gen, work |-> screen, stamp |-> stamp,
     attempt |-> 1, pc |-> "sent", at |-> 0]

\* run(), on the controller as c, the calls as q and the backup as b: nothing
\* while a save is in flight; an invalid snapshot is an error until the next
\* edit; else a save, backed up first.
Run(c, q, stamp, b) ==
    \/ /\ c.inFlight \/ ~Dirty(c)
       /\ ctl' = c
       /\ calls' = q
       /\ backup' = b
    \/ /\ ~c.inFlight /\ Dirty(c) /\ ~valid
       /\ ctl' = [c EXCEPT !.status = "error", !.waiting = FALSE]
       /\ calls' = q
       /\ backup' = b
    \/ /\ ~c.inFlight /\ Dirty(c) /\ valid
       /\ ctl' = [c EXCEPT !.inFlight = TRUE, !.status = "saving"]
       /\ calls' = Append(q, SaveRequest(FALSE, stamp))
       /\ backup' = Backup

\* markDirty: the debounce takes over from any scheduled retry.
Edited(c) == [c EXCEPT !.gen = c.gen + 1, !.retry = FALSE, !.debounce = TRUE,
                       !.status = "saving"]

\* rename() and mutate(): only the config is validated.
Edit ==
    /\ Open
    /\ ctl.gen < MaxEdits
    /\ ctl' = Edited(ctl)
    /\ \/ screen' = [screen EXCEPT !.name = ctl.gen + 1] /\ UNCHANGED valid
       \/ screen' = [screen EXCEPT !.config = ctl.gen + 1] /\ valid' \in BOOLEAN
    /\ UNCHANGED <<page, ref, calls, backup, offer, late, row, landed, history>>

\* "Keep mine": the stamp of the banner, and a save of what is on the screen.
KeepMine ==
    /\ Open
    /\ ref.banner # None
    /\ ctl.gen < MaxEdits
    /\ ref' = [ref EXCEPT !.stamp = ref.banner, !.banner = None]
    /\ ctl' = Edited(ctl)
    /\ UNCHANGED <<page, valid, screen, calls, backup, offer, late, row, landed, history>>

Debounced ==
    /\ Open
    /\ ctl.debounce
    /\ Run([ctl EXCEPT !.debounce = FALSE], calls, ref.stamp, backup)
    /\ UNCHANGED <<page, valid, screen, ref, offer, late, row, landed, history>>

Retry ==
    /\ Open
    /\ ctl.retry
    /\ Run([ctl EXCEPT !.retry = FALSE], calls, ref.stamp, backup)
    /\ UNCHANGED <<page, valid, screen, ref, offer, late, row, landed, history>>

\* flush(): Publish waits for it; a hidden tab backs its work up before.
Flush(hidden) ==
    /\ Open
    /\ Dirty(ctl)
    /\ Run([ctl EXCEPT !.debounce = FALSE, !.retry = FALSE, !.waiting = TRUE],
           calls, ref.stamp, IF hidden THEN Backup ELSE backup)
    /\ UNCHANGED <<page, valid, screen, ref, offer, late, row, landed, history>>

\* dispose's terminal save goes out whatever is in flight.
\* Mutant: a terminal save that waits its turn, as flush() does.
TerminalSaveWhenIdle == Dirty(ctl) /\ valid /\ ~ctl.inFlight

TerminalSave == Dirty(ctl) /\ valid

\* The effect's cleanup and dispose(): the work is backed up, the timers stop,
\* the waiters are told, and the terminal save goes out.
Leave ==
    /\ Open
    /\ page' = "left"
    /\ ctl' = [ctl EXCEPT !.debounce = FALSE, !.retry = FALSE, !.waiting = FALSE]
    /\ backup' = IF Dirty(ctl) THEN Backup ELSE backup
    /\ calls' = IF TerminalSave
                THEN Append(calls, SaveRequest(TRUE, ref.stamp)) ELSE calls
    /\ UNCHANGED <<valid, screen, ref, offer, late, row, landed, history>>

\* The request at the server runs on, heard or not.
AtServer == IF calls # << >> /\ calls[1].pc \in Running THEN {calls[1]} ELSE {}

\* beforeunload with unsaved work: the backup, then a beacon that outlives the
\* tab.  The person may stay; then all goes on.
Unload(stay) ==
    /\ Open
    /\ Trouble(unloads)
    /\ unloads' = unloads + 1
    /\ Dirty(ctl) \/ ~stay
    /\ backup' = IF Dirty(ctl) THEN Backup ELSE backup
    /\ LET beacon == IF Dirty(ctl) /\ valid
                     THEN {SaveRequest(TRUE, ref.stamp)} ELSE {}
       IN IF stay
          THEN /\ late' = late \cup beacon
               /\ UNCHANGED <<page, ctl, calls>>
          ELSE /\ late' = late \cup beacon \cup AtServer
               /\ page' = "closed"
               /\ ctl' = [ctl EXCEPT !.debounce = FALSE, !.retry = FALSE,
                                     !.waiting = FALSE, !.inFlight = FALSE]
               /\ calls' = << >>
    /\ UNCHANGED <<valid, screen, ref, offer, row, landed, failures, elsewhere>>

\* The editor opens again: a backup is offered when it is newer than the row,
\* differs from it and parses, and dropped otherwise.
Reopen ==
    /\ page \in {"left", "closed"}
    /\ page' = "reopened"
    /\ offer' = IF backup # None /\ backup.newer /\ backup.work # row.content /\ valid
                THEN backup.gen ELSE None
    /\ backup' = IF offer' = None THEN None ELSE backup
    /\ UNCHANGED <<valid, screen, ctl, ref, calls, late, row, landed, history>>

-----------------------------------------------------------------------------
(* The server, the network and the others.                                  *)

\* Any write of the row dates it after the backup.
Outdate == backup' = IF backup = None THEN None ELSE [backup EXCEPT !.newer = FALSE]

Write(content) ==
    /\ row' = [stamp |-> row.stamp + 1, content |-> content]
    /\ Outdate

\* Mutant: the API writes whatever stamp it is sent.
AcceptedUnguarded(r) == r.stamp <= row.stamp

Accepted(r) == r.stamp = row.stamp

\* updateForm: the name, guarded by the stamp the client sent.
SaveName(r) ==
    /\ r.pc = "sent"
    /\ IF Accepted(r) THEN Write([row.content EXCEPT !.name = r.work.name])
       ELSE UNCHANGED <<row, backup>>
    /\ UNCHANGED landed

\* getFormById, for the stamp the draft goes by: nobody compares it with the
\* one that the name was written with.
RereadName(r) == r.pc = "named" /\ UNCHANGED <<row, landed, backup>>

\* saveDraftConfig: the config, guarded by that stamp.
SaveDraft(r) ==
    /\ r.pc = "draft"
    /\ IF r.at = row.stamp
       THEN /\ Write([row.content EXCEPT !.config = r.work.config])
            /\ landed' = landed \cup {r.gen}
       ELSE UNCHANGED <<row, landed, backup>>

Statement(r) == SaveName(r) \/ RereadName(r) \/ SaveDraft(r)

\* A request after its statement.
After(r) ==
    CASE r.pc = "sent"  -> [r EXCEPT !.pc = IF Accepted(r) THEN "named" ELSE "refused"]
      [] r.pc = "named" -> [r EXCEPT !.pc = "draft", !.at = row.stamp]
      [] OTHER          -> [r EXCEPT !.pc = IF r.at = row.stamp THEN "saved" ELSE "refused"]

Land ==
    /\ calls # << >>
    /\ Statement(calls[1])
    /\ calls' = [calls EXCEPT ![1] = After(calls[1])]
    /\ UNCHANGED <<page, valid, screen, ctl, ref, offer, late, history>>

\* A request nobody waits for runs on.
LandLate ==
    /\ \E r \in late :
          /\ Statement(r)
          /\ late' = {q \in (late \ {r}) \cup {After(r)} : q.pc \in Running}
    /\ UNCHANGED <<page, valid, screen, ctl, ref, calls, offer, history>>

\* It never arrives; or, a failure, its API process dies between statements.
LoseLate ==
    /\ \E r \in late :
          /\ late' = late \ {r}
          /\ \/ r.pc = "sent" /\ UNCHANGED failures
             \/ r.pc # "sent" /\ Trouble(failures) /\ failures' = failures + 1
    /\ UNCHANGED <<page, valid, screen, ctl, ref, calls, backup, offer, row, landed,
                   elsewhere, unloads>>

\* One statement of another editor: a name, a draft, or only the stamp moves
\* (a slug rename).
Elsewhere ==
    /\ Trouble(elsewhere)
    /\ elsewhere' = elsewhere + 1
    /\ \/ Write([row.content EXCEPT !.name = Theirs])
       \/ Write([row.content EXCEPT !.config = Theirs])
       \/ Write(row.content)
    /\ UNCHANGED <<page, valid, screen, ctl, ref, calls, offer, late, landed,
                   failures, unloads>>

\* Only the stamp moved since this editor's last save: adopt it, go again.
OnlyStampMoved(r) == r.attempt = 1 /\ row.content = ref.content

\* guardedSave has the answer, 200 or 409, of request r with the row as it is by
\* then: saved; sent again behind whatever is queued; or a conflict for the
\* banner.
Saved == ref' = [stamp |-> row.stamp, content |-> row.content, banner |-> None]

Resent(r) ==
    /\ ref' = [ref EXCEPT !.stamp = row.stamp]
    /\ calls' = Append(Tail(calls), [r EXCEPT !.stamp = row.stamp, !.attempt = 2,
                                               !.pc = "sent", !.at = 0])
    /\ UNCHANGED <<ctl, backup>>

Refused == ref' = [ref EXCEPT !.banner = row.stamp]

\* A save catches up with the edits it carried, not with those made meanwhile.
\* Mutant: it marks everything as saved.
CaughtUpWithAll(c, r) == [c EXCEPT !.saved = c.gen]

CaughtUp(c, r) == [c EXCEPT !.saved = r.gen]

\* Mutant: an edit made meanwhile waits for its own debounce.
AfterSaveDebounced(c) ==
    \/ /\ Dirty(c)
       /\ ctl' = [c EXCEPT !.status = "saving"]
       /\ calls' = Tail(calls)
       /\ UNCHANGED backup
    \/ /\ ~Dirty(c)
       /\ ctl' = [c EXCEPT !.status = "saved", !.waiting = FALSE]
       /\ calls' = Tail(calls)
       /\ backup' = None

\* A save that leaves nothing dirty clears the backup and tells the waiters; an
\* edit made meanwhile is saved at once.
AfterSave(c) ==
    \/ /\ Dirty(c)
       /\ Run([c EXCEPT !.status = "saving"], Tail(calls), row.stamp, backup)
    \/ /\ ~Dirty(c)
       /\ ctl' = [c EXCEPT !.status = "saved", !.waiting = FALSE]
       /\ calls' = Tail(calls)
       /\ backup' = None

\* Mutant: a conflict does not tell the waiters.
ConflictedSilently(c) == [c EXCEPT !.status = "conflict"]

Conflicted(c) == [c EXCEPT !.status = "conflict", !.waiting = FALSE]

Answered ==
    /\ calls # << >>
    /\ calls[1].pc \notin Running
    /\ LET r == calls[1]
           idle == [ctl EXCEPT !.inFlight = FALSE]
           heard == ~r.terminal /\ Open
           over == IF r.terminal THEN ctl ELSE idle
       IN \/ /\ r.pc = "saved"
             /\ Saved
             /\ IF heard THEN AfterSave(CaughtUp(idle, r))
                ELSE ctl' = over /\ calls' = Tail(calls) /\ UNCHANGED backup
          \/ r.pc = "refused" /\ OnlyStampMoved(r) /\ Resent(r)
          \/ /\ r.pc = "refused"
             /\ ~OnlyStampMoved(r)
             /\ Refused
             /\ ctl' = IF heard THEN Conflicted(idle) ELSE over
             /\ calls' = Tail(calls)
             /\ UNCHANGED backup
    /\ UNCHANGED <<page, valid, screen, offer, late, row, landed, history>>

\* The call fails: it never arrived, its answer was lost, or callAction gave it
\* up and it lands later.  A 500 ends the same way, in a louder status.
Fail ==
    /\ calls # << >>
    /\ Trouble(failures)
    /\ failures' = failures + 1
    /\ LET r == Head(calls) IN
       /\ late' \in {late, late \cup AtServer}
       /\ ctl' \in IF r.terminal THEN {ctl}
                   ELSE IF ~Open THEN {[ctl EXCEPT !.inFlight = FALSE]}
                   ELSE {[ctl EXCEPT !.inFlight = FALSE, !.waiting = FALSE,
                                     !.retry = TRUE, !.status = s] :
                            s \in {"retrying", "error"}}
    /\ calls' = Tail(calls)
    /\ UNCHANGED <<page, valid, screen, ref, backup, offer, row, landed, elsewhere, unloads>>

-----------------------------------------------------------------------------

Next ==
    \/ Edit \/ KeepMine \/ Debounced \/ Retry
    \/ (\E hidden \in BOOLEAN : Flush(hidden))
    \/ Leave \/ (\E stay \in BOOLEAN : Unload(stay)) \/ Reopen
    \/ Land \/ LandLate \/ LoseLate \/ Elsewhere \/ Answered \/ Fail

\* Timers fire, and callAction answers every call, if only by giving it up.
Fairness == /\ WF_vars(Debounced) /\ WF_vars(Retry)
            /\ WF_vars(Land) /\ WF_vars(Answered)

Spec == Init /\ [][Next]_vars /\ Fairness

-----------------------------------------------------------------------------

\* run, markDirty, flush: "saving" and "retrying" mean that a timer or a call is
\* under way, and edits without either wait for a person, who was told.
NeverStuck ==
    Open => /\ ctl.status \in {"saving", "retrying"} =>
                  ctl.inFlight \/ ctl.debounce \/ ctl.retry
            /\ Dirty(ctl) => \/ ctl.inFlight \/ ctl.debounce \/ ctl.retry
                             \/ ctl.status \in {"error", "conflict"}
            /\ ctl.waiting => ctl.inFlight

\* "Saved", and a flush that resolves ok, mean that the server received the
\* latest edits, whatever calls were lost, late or overtaken.
SavedMeansHeld ==
    /\ ctl.saved \in landed
    /\ Open => (ctl.status = "saved" <=> ~Dirty(ctl))

\* The queue holds the save in flight and the terminal save, once each; while
\* the editor is open, what is in flight is there and still has work to save.
OneInFlight ==
    /\ Len(calls) <= 2
    /\ Len(calls) = 2 => calls[1].terminal # calls[2].terminal
    /\ Open => /\ Len(calls) = IF ctl.inFlight THEN 1 ELSE 0
               /\ calls # << >> => ~calls[1].terminal
               /\ ctl.inFlight => Dirty(ctl)

\* The requests that may still land.
Pending == {calls[i] : i \in DOMAIN calls} \cup late

\* The stamps of a request are the row's or older ones; a name that landed has
\* moved it.
InThePast(r) ==
    /\ r.stamp <= row.stamp
    /\ r.at <= row.stamp
    /\ r.pc \in {"named", "draft"} => r.stamp < row.stamp

\* So are those of the editor; the queue is served from its head.
StampsPast ==
    /\ ref.stamp <= row.stamp
    /\ ref.banner # None => ref.banner <= row.stamp
    /\ \A r \in Pending : InThePast(r)
    /\ \A r \in late : r.pc \in Running
    /\ \A i \in DOMAIN calls : i # 1 => calls[i].pc = "sent"
    /\ calls # << >> /\ calls[1].pc = "saved" => calls[1].gen \in landed

Before(part, gen) == part \in Generations => part <= gen

NoNewer(content, work) ==
    Before(content.name, work.name) /\ Before(content.config, work.config)

\* A request whose own SELECT found the stamp of a later write.
Overtaken(r) == r.pc = "draft" /\ r.at # r.stamp + 1

\* While the row has the stamp that a request sent, or the one that its name
\* left, the request would replace nothing newer than it carries.
OlderNowhere(r) ==
    /\ r.gen <= ctl.gen
    /\ NoNewer(r.work, screen)
    /\ r.pc = "sent" /\ r.stamp = row.stamp => NoNewer(row.content, r.work)
    /\ r.pc \in {"named", "draft"} /\ r.stamp + 1 = row.stamp
          => Before(row.content.config, r.work.config)

WorkAges ==
    /\ ctl.saved <= ctl.gen
    /\ screen.name <= ctl.gen /\ screen.config <= ctl.gen
    /\ NoNewer(row.content, screen)
    /\ NoNewer(ref.content, screen)
    /\ \A r \in Pending : OlderNowhere(r)
    /\ \A i \in DOMAIN calls : calls[i].attempt = 1 => NoNewer(ref.content, calls[i].work)
    /\ Len(calls) = 2 /\ calls[2].attempt = 1 => ~Open /\ calls[2].work = screen

Calm == failures = 0 /\ elsewhere = 0 /\ unloads = 0

\* When no call fails and nobody else writes, the editor is at most one answer
\* behind the row, and the terminal save has landed or will.
CalmKeepsUp ==
    Calm =>
    /\ page # "closed"
    /\ late = {}
    /\ ref.banner = None
    /\ calls = << >> \/ calls[1].pc \in {"sent", "refused"} =>
          ref.stamp = row.stamp /\ ref.content = row.content
    /\ calls # << >> =>
          /\ calls[1].pc = "sent" =>
                calls[1].stamp = row.stamp \/ (calls[1].terminal /\ calls[1].attempt = 1)
          /\ calls[1].pc = "draft" => calls[1].at = row.stamp
          /\ calls[1].pc = "refused" => calls[1].terminal /\ calls[1].attempt = 1
    /\ Len(calls) = 2 => calls[2].terminal /\ calls[2].attempt = 1
    /\ page = "left" /\ valid =>
          \/ ctl.gen \in landed
          \/ \E i \in DOMAIN calls : calls[i].terminal /\ calls[i].gen = ctl.gen

\* The inductive invariant.
AutosaveInv ==
    /\ TypeOK
    /\ NeverStuck
    /\ SavedMeansHeld
    /\ OneInFlight
    /\ StampsPast
    /\ WorkAges
    /\ CalmKeepsUp

Forward(old, new) == new \in Generations => Before(old, new)

\* A write takes neither part of the row back.  The one exception is the draft
\* of a request in which another write came between the name and the SELECT
\* after it: it goes by the other's stamp.
NoneGoesBack ==
    /\ Forward(row.content.name, row'.content.name)
    /\ \/ Forward(row.content.config, row'.content.config)
       \/ \E r \in Pending : /\ Overtaken(r) /\ r.at = row.stamp
                             /\ row'.content.config = r.work.config

\* But for that exception, no request of this tab puts older work of it over
\* newer: not a late one, not a beacon, not a save overtaken by the terminal save.
NeverBackwards == [][NoneGoesBack]_vars

\* dispose: leaving by navigation saves the last edits when no call fails,
\* nobody else writes and no beacon went out before.
LeavingSaves ==
    page = "left" /\ calls = << >> /\ valid /\ Calm => ctl.gen \in landed

\* draft-backup.ts and the recovery effect: work that a closed tab could not
\* save is offered when the editor opens again.  Once no request travels, the
\* last valid edit is on the server or in the offer, if no call failed and nobody
\* else wrote.
RecoveryOffersLostWork ==
    page = "reopened" /\ valid /\ elsewhere = 0 /\ failures = 0 /\ calls = << >> /\ late = {}
      => ctl.gen \in landed \/ offer = ctl.gen

\* Every edit settles: it is saved, or its failure is on the screen.
EditsSettle ==
    (Open /\ Dirty(ctl)) ~> (~Open \/ ~Dirty(ctl) \/ ctl.status \in {"error", "conflict"})

\* flush: Publish is never left waiting.
FlushAnswers == ctl.waiting ~> ~ctl.waiting

=============================================================================
