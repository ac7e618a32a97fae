--------------------------- MODULE AutosaveProofs ---------------------------
(***************************************************************************)
(* AutosaveInv is inductive, one lemma an action.  The timers and a flush    *)
(* share RunKeeps, the two edits EditKeeps, the statements of a request that *)
(* is waited for and of a late one StatementKeeps, and the ends of a call    *)
(* HeadLeaves.                                                              *)
(***************************************************************************)
EXTENDS Autosave, TLAPS

\* A request leaves the queue.
LEMMA QueueTail ==
    ASSUME NEW S, NEW q \in Seq(S), q # << >>
    PROVE  /\ Head(q) = q[1] /\ q[1] \in S /\ 1 \in DOMAIN q
           /\ Tail(q) \in Seq(S)
           /\ Len(q) \in Nat \ {0} /\ Len(Tail(q)) = Len(q) - 1
           /\ \A i \in DOMAIN Tail(q) : i \in Nat /\ i + 1 \in DOMAIN q /\ Tail(q)[i] = q[i + 1]
           /\ \A i \in DOMAIN q : i # 1 => i \in Nat /\ i - 1 \in DOMAIN Tail(q)
<1>1. Len(q) \in Nat \ {0} /\ DOMAIN q = 1..Len(q)
  OBVIOUS
<1>2. Head(q) = q[1] /\ q[1] \in S /\ 1 \in DOMAIN q
  BY <1>1
<1>3. Tail(q) \in Seq(S) /\ Len(Tail(q)) = Len(q) - 1
  OBVIOUS
<1>4. DOMAIN Tail(q) = 1..Len(q) - 1
  BY <1>1, <1>3
<1>5. \A i \in 1..Len(q) - 1 : Tail(q)[i] = q[i + 1]
  BY <1>1
<1>6. QED
  BY <1>1, <1>2, <1>3, <1>4, <1>5

\* A request joins the queue.
LEMMA QueueAppend ==
    ASSUME NEW S, NEW q \in Seq(S), NEW e \in S
    PROVE  /\ Append(q, e) \in Seq(S) /\ Append(q, e) # << >>
           /\ Len(q) \in Nat /\ Len(Append(q, e)) = Len(q) + 1
           /\ Append(q, e)[Len(q) + 1] = e
           /\ Len(q) + 1 \in DOMAIN Append(q, e)
           /\ \A i \in DOMAIN q : i \in DOMAIN Append(q, e) /\ Append(q, e)[i] = q[i]
           /\ \A i \in DOMAIN Append(q, e) : i \in DOMAIN q \/ i = Len(q) + 1
<1>1. Len(q) \in Nat /\ DOMAIN q = 1..Len(q)
  OBVIOUS
<1>2. Append(q, e) \in Seq(S) /\ Len(Append(q, e)) = Len(q) + 1
  OBVIOUS
<1>3. DOMAIN Append(q, e) = 1..Len(q) + 1
  BY <1>1, <1>2
<1>4. Append(q, e)[Len(q) + 1] = e /\ \A i \in 1..Len(q) : Append(q, e)[i] = q[i]
  BY <1>1
<1>5. QED
  BY <1>1, <1>2, <1>3, <1>4

\* A short queue.
LEMMA QueueShort ==
    ASSUME NEW S, NEW q \in Seq(S)
    PROVE  /\ Len(q) \in Nat /\ DOMAIN q = 1..Len(q)
           /\ q = << >> <=> Len(q) = 0
           /\ \A i \in DOMAIN q : q[i] \in S
  OBVIOUS

\* A request leaves a queue of at most two.
LEMMA QueueOfTwo ==
    ASSUME NEW S, NEW q \in Seq(S), q # << >>, Len(q) <= 2
    PROVE  /\ Len(q) = 1 \/ Len(q) = 2
           /\ Len(q) = 1 => Len(Tail(q)) = 0
           /\ Len(q) = 2 => Len(Tail(q)) = 1
           /\ Tail(q) = << >> <=> Len(q) = 1
           /\ Len(Tail(q)) <= 2 /\ Len(Tail(q)) # 2
           /\ Len(Tail(q)) = 1 => Tail(q)[1] = q[2]
           /\ DOMAIN q = 1..Len(q) /\ DOMAIN Tail(q) = 1..Len(Tail(q))
<1> DEFINE t == Tail(q)
<1>1. t \in Seq(S) /\ Len(q) \in Nat \ {0} /\ Len(t) = Len(q) - 1
      /\ \A i \in DOMAIN t : t[i] = q[i + 1]
  BY QueueTail
<1> HIDE DEF t
<1>2. Len(q) = 1 \/ Len(q) = 2
  BY <1>1
<1>3. DOMAIN q = 1..Len(q) /\ DOMAIN t = 1..Len(t) /\ (t = << >> <=> Len(t) = 0)
  BY <1>1, QueueShort
<1>4. Len(q) = 1 => Len(t) = 0 /\ Len(t) <= 2 /\ Len(t) # 2 /\ Len(t) # 1
  BY <1>1
<1>5. Len(q) = 2 => Len(t) = 1 /\ Len(t) <= 2 /\ Len(t) # 2 /\ Len(t) # 0 /\ Len(q) # 1
  BY <1>1
<1>6. Len(q) = 2 => t[1] = q[2]
  <2>1. Len(q) = 2 => 1 \in DOMAIN t
    BY <1>3, <1>5
  <2>2. 1 + 1 = 2
    OBVIOUS
  <2>3. 1 \in DOMAIN t => t[1] = q[1 + 1]
    BY <1>1
  <2>4. QED
    BY <2>1, <2>2, <2>3
<1>7. /\ Len(q) = 1 => Len(t) = 0
      /\ Len(q) = 2 => Len(t) = 1
      /\ t = << >> <=> Len(q) = 1
      /\ Len(t) <= 2 /\ Len(t) # 2
      /\ Len(t) = 1 => t[1] = q[2]
  BY <1>2, <1>3, <1>4, <1>5, <1>6, Zenon
<1>8. QED
  BY <1>2, <1>3, <1>7, Zenon DEF t

-----------------------------------------------------------------------------

\* The head of the queue moves on, in its place.
LEMMA QueueHead ==
    ASSUME NEW S, NEW q \in Seq(S), q # << >>, NEW e \in S
    PROVE  /\ [q EXCEPT ![1] = e] \in Seq(S) /\ [q EXCEPT ![1] = e] # << >>
           /\ Len([q EXCEPT ![1] = e]) = Len(q)
           /\ DOMAIN [q EXCEPT ![1] = e] = DOMAIN q
           /\ [q EXCEPT ![1] = e][1] = e
           /\ \A i \in DOMAIN q : i # 1 => [q EXCEPT ![1] = e][i] = q[i]
<1> DEFINE p == [q EXCEPT ![1] = e]
<1>1. Len(q) \in Nat \ {0} /\ DOMAIN q = 1..Len(q) /\ \A i \in DOMAIN q : q[i] \in S
  BY QueueShort
<1>2. /\ p \in [1..Len(q) -> S] /\ DOMAIN p = DOMAIN q /\ p[1] = e
      /\ \A i \in DOMAIN q : i # 1 => p[i] = q[i]
  BY <1>1
<1> HIDE DEF p
<1>3. p \in Seq(S) /\ Len(p) = Len(q)
  BY <1>1, <1>2
<1>4. p # << >>
  BY <1>1, <1>3, QueueShort
<1>5. QED
  BY <1>2, <1>3, <1>4 DEF p

-----------------------------------------------------------------------------

\* What the fields of requests, contents and the row are.
LEMMA Typed ==
    ASSUME TypeOK
    PROVE  /\ calls \in Seq(Request) /\ \A i \in DOMAIN calls : calls[i] \in Request
           /\ \A r \in Pending : r \in Request
           /\ \A r \in Request : /\ r.gen \in Generations /\ r.gen \in Nat
                                 /\ r.stamp \in Nat /\ r.at \in Nat /\ r.attempt \in 1..2
                                 /\ r.terminal \in BOOLEAN /\ r.work \in Work /\ r.pc \in Steps
           /\ ctl.gen \in Generations /\ ctl.gen \in Nat
           /\ ctl.saved \in Generations /\ ctl.saved \in Nat
           /\ row.stamp \in Nat /\ ref.stamp \in Nat
           /\ row.content \in Contents /\ ref.content \in Contents /\ screen \in Work
           /\ \A x \in Generations : x \in Nat
<1>1. calls \in Seq(Request) /\ \A i \in DOMAIN calls : calls[i] \in Request
  BY QueueShort DEF TypeOK
<1>2. \A r \in Pending : r \in Request
  BY <1>1 DEF TypeOK, Pending
<1>3. \A x \in Generations : x \in Nat
  BY DEF Generations
<1>4. \A r \in Request : /\ r.gen \in Generations /\ r.stamp \in Nat /\ r.at \in Nat
                         /\ r.attempt \in 1..2 /\ r.terminal \in BOOLEAN
                         /\ r.work \in Work /\ r.pc \in Steps
  BY DEF Request
<1>5. ctl.gen \in Generations /\ ctl.saved \in Generations
  BY DEF TypeOK, Controller
<1>6. /\ row.stamp \in Nat /\ ref.stamp \in Nat
      /\ row.content \in Contents /\ ref.content \in Contents /\ screen \in Work
  BY DEF TypeOK
<1>7. QED
  BY <1>1, <1>2, <1>3, <1>4, <1>5, <1>6

\* The parts of what an editor shows, or a request carries.
LEMMA WorkParts ==
    ASSUME NEW w \in Work
    PROVE  /\ w.name \in Generations /\ w.config \in Generations
           /\ w.name \in Nat /\ w.config \in Nat /\ w \in Contents
  BY DEF Work, Contents, Generations

\* What is on the screen only gets newer.
LEMMA NewerScreen ==
    ASSUME NEW c, NEW v \in Work, NEW w \in Work, NoNewer(c, v),
           v.name <= w.name, v.config <= w.config
    PROVE  NoNewer(c, w)
<1>1. \A x \in Generations : x \in Nat
  BY DEF Generations
<1>2. QED
  BY <1>1, WorkParts DEF NoNewer, Before

Refs == [stamp: Nat, content: Contents, banner: {None} \cup Nat]

Backups == {None} \cup Drafts

\* What a save carries.
LEMMA SaveTyped ==
    ASSUME TypeOK, NEW terminal \in BOOLEAN, NEW stamp \in Nat
    PROVE  /\ SaveRequest(terminal, stamp) \in Request
           /\ SaveRequest(terminal, stamp).terminal = terminal
           /\ SaveRequest(terminal, stamp).gen = ctl.gen
           /\ SaveRequest(terminal, stamp).work = screen
           /\ SaveRequest(terminal, stamp).stamp = stamp
           /\ SaveRequest(terminal, stamp).attempt = 1
           /\ SaveRequest(terminal, stamp).pc = "sent"
           /\ SaveRequest(terminal, stamp).at = 0
<1>1. ctl.gen \in Generations /\ screen \in Work
  BY Typed
<1>2. QED
  BY <1>1 DEF SaveRequest, Request, Steps, Running

\* The backup is one, or none.
LEMMA BackupTyped == TypeOK => backup \in Backups /\ Backup \in Backups
<1> SUFFICES ASSUME TypeOK PROVE backup \in Backups /\ Backup \in Backups
  OBVIOUS
<1>1. ctl.gen \in Generations /\ screen \in Work
  BY Typed
<1>2. Backup \in Drafts
  BY <1>1 DEF Backup, Drafts
<1>3. QED
  BY <1>2 DEF TypeOK, Backups

\* What a save of this screen is to the row: it is past, and none older.
LEMMA SaveKeeps ==
    ASSUME AutosaveInv, NEW r \in Request, r.gen = ctl.gen, r.work = screen,
           r.stamp \in Nat, r.stamp <= row.stamp, r.pc = "sent", r.at = 0,
           UNCHANGED <<row, screen>>, ctl'.gen = ctl.gen
    PROVE  InThePast(r)' /\ OlderNowhere(r)'
<1>1. TypeOK /\ WorkAges
  BY DEF AutosaveInv
<1>2. row.stamp \in Nat /\ ctl.gen \in Nat /\ screen \in Work
  BY <1>1, Typed
<1>3. NoNewer(row.content, screen) /\ NoNewer(screen, screen)
  BY <1>1, <1>2, WorkParts DEF WorkAges, NoNewer, Before
<1>4. InThePast(r)'
  BY <1>2 DEF InThePast
<1>5. OlderNowhere(r)'
  BY <1>2, <1>3 DEF OlderNowhere, NoNewer, Before
<1>6. QED
  BY <1>4, <1>5

\* An edit: one more generation, a debounce, and no request yet.
LEMMA EditKeeps ==
    ASSUME AutosaveInv, Open, ctl.gen < MaxEdits, ctl' = Edited(ctl), valid' \in BOOLEAN,
           screen' \in Work, screen.name <= screen'.name, screen.config <= screen'.config,
           screen'.name <= ctl.gen + 1, screen'.config <= ctl.gen + 1,
           ref' \in Refs, ref'.content = ref.content,
           ref'.stamp <= row.stamp, ref'.banner # None => ref'.banner <= row.stamp,
           Calm => ref' = ref,
           UNCHANGED <<page, calls, backup, offer, late, row, landed, history>>
    PROVE  AutosaveInv'
<1> USE AutosaveAssumption
<1>1. /\ ctl \in Controller /\ ctl.gen + 1 \in Generations
      /\ ctl'.gen = ctl.gen + 1 /\ ctl'.saved = ctl.saved
      /\ ctl'.inFlight = ctl.inFlight /\ ctl'.waiting = ctl.waiting
      /\ ctl'.debounce /\ ctl'.status = "saving" /\ ctl' \in Controller
  <2>1. ctl \in Controller
    BY DEF AutosaveInv, TypeOK
  <2>2. ctl.gen \in Generations
    BY <2>1 DEF Controller
  <2>3. ctl.gen + 1 \in Generations
    BY <2>2 DEF Generations, AutosaveAssumption
  <2>4. QED
    BY <2>1, <2>3 DEF Edited, Controller, Status
<1>2. ctl.gen \in Nat /\ ctl.saved \in Nat /\ ctl.saved <= ctl.gen
  BY <1>1 DEF AutosaveInv, WorkAges, Controller, Generations
<1>3. TypeOK'
  BY <1>1 DEF AutosaveInv, TypeOK, Refs, history
<1>4. NeverStuck' /\ SavedMeansHeld' /\ OneInFlight'
  BY <1>1, <1>2 DEF AutosaveInv, NeverStuck, SavedMeansHeld, OneInFlight, Open, Dirty
<1>5. Pending' = Pending
  BY DEF Pending
<1>6. StampsPast'
  BY <1>5 DEF AutosaveInv, StampsPast, InThePast
<1>7. WorkAges'
  <2>0. TypeOK /\ WorkAges /\ screen \in Work /\ screen' \in Work /\ Len(calls) # 2
    BY Typed DEF AutosaveInv, OneInFlight
  <2>1. \A c : NoNewer(c, screen) => NoNewer(c, screen')
    BY <2>0, NewerScreen
  <2>2. NoNewer(row.content, screen') /\ NoNewer(ref.content, screen')
    BY <2>0, <2>1 DEF WorkAges
  <2>3. ASSUME NEW r \in Pending PROVE OlderNowhere(r)'
    <3>1. OlderNowhere(r) /\ r.gen \in Nat
      BY <2>0, Typed DEF WorkAges
    <3>2. NoNewer(r.work, screen')
      BY <2>1, <3>1 DEF OlderNowhere
    <3>3. QED
      BY <1>1, <1>2, <3>1, <3>2 DEF OlderNowhere, NoNewer, Before
  <2>4. \A i \in DOMAIN calls : calls[i].attempt = 1 => NoNewer(ref.content, calls[i].work)
    BY <2>0 DEF WorkAges
  <2>5. QED
    BY <1>1, <1>2, <1>5, <2>0, <2>2, <2>3, <2>4 DEF WorkAges, NoNewer, Before
<1>8. CalmKeepsUp'
  BY DEF AutosaveInv, CalmKeepsUp, Calm, Open, history
<1>9. QED
  BY <1>3, <1>4, <1>6, <1>7, <1>8 DEF AutosaveInv

LEMMA EditStep == AutosaveInv /\ Edit => AutosaveInv'
<1> SUFFICES ASSUME AutosaveInv, Edit PROVE AutosaveInv'
  OBVIOUS
<1>1. ref \in Refs /\ ref.stamp <= row.stamp
      /\ (ref.banner # None => ref.banner <= row.stamp)
  BY DEF AutosaveInv, TypeOK, StampsPast, Refs
<1>2. /\ screen \in Work /\ ctl.gen + 1 \in Generations /\ ctl.gen \in Nat
      /\ screen.name \in Nat /\ screen.config \in Nat
      /\ screen.name <= ctl.gen /\ screen.config <= ctl.gen
  <2>1. TypeOK /\ WorkAges
    BY DEF AutosaveInv
  <2>2. ctl.gen \in Generations /\ screen \in Work
    BY <2>1, Typed
  <2>3. QED
    BY <2>1, <2>2, WorkParts, AutosaveAssumption DEF WorkAges, Edit, Generations
<1>3. /\ screen' \in Work /\ screen.name <= screen'.name /\ screen.config <= screen'.config
      /\ screen'.name <= ctl.gen + 1 /\ screen'.config <= ctl.gen + 1
  <2>1. CASE screen' = [screen EXCEPT !.name = ctl.gen + 1]
    BY <1>2, <2>1 DEF Work
  <2>2. CASE screen' = [screen EXCEPT !.config = ctl.gen + 1]
    BY <1>2, <2>2 DEF Work
  <2>3. QED
    BY <2>1, <2>2 DEF Edit
<1>4. valid' \in BOOLEAN
  BY DEF Edit, AutosaveInv, TypeOK
<1>5. QED
  BY <1>1, <1>3, <1>4, EditKeeps DEF Edit

LEMMA KeepMineStep == AutosaveInv /\ KeepMine => AutosaveInv'
<1> SUFFICES ASSUME AutosaveInv, KeepMine PROVE AutosaveInv'
  OBVIOUS
<1>1. ref \in Refs /\ ref.banner \in Nat /\ ref.banner <= row.stamp
  BY DEF AutosaveInv, TypeOK, StampsPast, Refs, KeepMine
<1>2. ref' \in Refs /\ ref'.content = ref.content /\ ref'.stamp = ref.banner
      /\ ref'.banner = None
  BY <1>1 DEF KeepMine, Refs
<1>3. ~Calm
  BY DEF AutosaveInv, CalmKeepsUp, KeepMine
<1>4. valid' \in BOOLEAN
  BY DEF AutosaveInv, TypeOK, KeepMine
<1>5. /\ screen' \in Work /\ screen.name <= screen'.name /\ screen.config <= screen'.config
      /\ screen'.name <= ctl.gen + 1 /\ screen'.config <= ctl.gen + 1
  <2>1. TypeOK /\ WorkAges
    BY DEF AutosaveInv
  <2>2. ctl.gen \in Nat /\ screen \in Work /\ screen' = screen
    BY <2>1, Typed DEF KeepMine
  <2>3. QED
    BY <2>1, <2>2, WorkParts DEF WorkAges
<1>6. QED
  BY <1>1, <1>2, <1>3, <1>4, <1>5, EditKeeps DEF KeepMine

-----------------------------------------------------------------------------

\* run(), from a timer or a flush.
LEMMA RunKeeps ==
    ASSUME AutosaveInv, Open, NEW c \in Controller, NEW b \in Backups,
           c.gen = ctl.gen, c.saved = ctl.saved, c.inFlight = ctl.inFlight,
           c.status = ctl.status, c.waiting => ctl.waiting \/ Dirty(ctl),
           Run(c, calls, ref.stamp, b),
           UNCHANGED <<page, valid, screen, ref, offer, late, row, landed, history>>
    PROVE  AutosaveInv'
<1> USE AutosaveAssumption
<1> DEFINE d == [c EXCEPT !.inFlight = TRUE, !.status = "saving"]
           e == [c EXCEPT !.status = "error", !.waiting = FALSE]
<1>1. TypeOK /\ NeverStuck /\ SavedMeansHeld /\ OneInFlight /\ StampsPast /\ WorkAges
      /\ CalmKeepsUp
  BY DEF AutosaveInv
<1>2. ASSUME ctl' \in Controller, ctl'.gen = ctl.gen, ctl'.saved = ctl.saved,
             UNCHANGED calls, backup' \in Backups
      PROVE  TypeOK' /\ StampsPast' /\ WorkAges' /\ CalmKeepsUp'
  <2>1. TypeOK'
    BY <1>1, <1>2 DEF TypeOK, Backups, history
  <2>2. Pending' = Pending
    BY <1>2 DEF Pending
  <2>3. StampsPast'
    BY <1>1, <1>2, <2>2 DEF StampsPast, InThePast
  <2>4. WorkAges'
    BY <1>1, <1>2, <2>2 DEF WorkAges, OlderNowhere, NoNewer, Before, Open
  <2>5. CalmKeepsUp'
    BY <1>1, <1>2 DEF CalmKeepsUp, Calm, history
  <2>6. QED
    BY <2>1, <2>3, <2>4, <2>5
<1>3. CASE (c.inFlight \/ ~Dirty(c)) /\ ctl' = c /\ calls' = calls /\ backup' = b
  <2>1. NeverStuck' /\ SavedMeansHeld' /\ OneInFlight'
    BY <1>1, <1>3 DEF NeverStuck, SavedMeansHeld, OneInFlight, Open, Dirty
  <2>2. QED
    BY <1>2, <1>3, <2>1 DEF AutosaveInv
<1>4. CASE ~c.inFlight /\ Dirty(c) /\ ctl' = e /\ calls' = calls /\ backup' = b
  <2>1. /\ e \in Controller /\ e.gen = c.gen /\ e.saved = c.saved
        /\ e.inFlight = c.inFlight /\ e.status = "error" /\ ~e.waiting
    BY DEF Controller, Status
  <2> HIDE DEF e
  <2>2. NeverStuck' /\ SavedMeansHeld' /\ OneInFlight'
    BY <1>1, <1>4, <2>1 DEF NeverStuck, SavedMeansHeld, OneInFlight, Open, Dirty
  <2>3. QED
    BY <1>2, <1>4, <2>1, <2>2 DEF AutosaveInv
<1>5. CASE ~c.inFlight /\ Dirty(c) /\ ctl' = d
           /\ calls' = Append(calls, SaveRequest(FALSE, ref.stamp)) /\ backup' = Backup
  <2>1. /\ d \in Controller /\ d.gen = c.gen /\ d.saved = c.saved
        /\ d.inFlight /\ d.status = "saving" /\ d.waiting = c.waiting
    BY DEF Controller, Status
  <2>1a. /\ ctl' \in Controller /\ ctl'.gen = ctl.gen /\ ctl'.saved = ctl.saved
        /\ ctl'.inFlight /\ ctl'.status = "saving" /\ ctl'.waiting = c.waiting
        /\ ctl.gen # ctl.saved /\ ~ctl.inFlight /\ backup' = Backup
    BY <1>5, <2>1 DEF Dirty
  <2>0. PICK r \in Request : r = SaveRequest(FALSE, ref.stamp)
    BY <1>1, Typed, SaveTyped
  <2>2. /\ r \in Request /\ r.gen = ctl.gen /\ r.work = screen /\ r.stamp = ref.stamp
        /\ ~r.terminal /\ r.attempt = 1 /\ r.pc = "sent" /\ r.at = 0 /\ ref.stamp \in Nat
    BY <1>1, <2>0, Typed, SaveTyped
  <2>3. calls = << >>
    BY <1>1, <1>5, QueueShort DEF TypeOK, OneInFlight
  <2>4. calls' = <<r>>
    BY <1>5, <2>0, <2>3
  <2> HIDE DEF d, e
  <2>5. /\ calls' \in Seq(Request) /\ Len(calls') = 1 /\ calls' # << >>
        /\ DOMAIN calls' = {1} /\ calls'[1] = r
    BY <2>2, <2>4
  <2>6. Pending' = {r} \cup late /\ late \subseteq Pending
    BY <2>5 DEF Pending
  <2>7. TypeOK'
    BY <1>1, <2>1a, <2>5, BackupTyped DEF TypeOK, Backups, history
  <2>8. NeverStuck' /\ SavedMeansHeld' /\ OneInFlight'
    <3>1. NeverStuck' /\ SavedMeansHeld'
      BY <1>1, <2>1a DEF NeverStuck, SavedMeansHeld, Open, Dirty
    <3>2. OneInFlight'
      BY <2>1a, <2>2, <2>5 DEF OneInFlight, Open, Dirty
    <3>3. QED
      BY <3>1, <3>2
  <2>9. InThePast(r)' /\ OlderNowhere(r)'
    BY <1>1, <2>1a, <2>2, SaveKeeps DEF StampsPast
  <2>10. StampsPast'
    BY <1>1, <2>2, <2>5, <2>6, <2>9 DEF StampsPast, InThePast
  <2>11. WorkAges'
    <3>0. ctl'.gen = ctl.gen /\ UNCHANGED <<row, screen>>
      BY <2>1a
    <3>1. \A x \in Pending' : OlderNowhere(x)'
      <4>1. \A x \in late : OlderNowhere(x)'
        BY <1>1, <2>6, <3>0 DEF WorkAges, OlderNowhere
      <4>2. QED
        BY <2>6, <2>9, <4>1
    <3>2. NoNewer(ref.content, r.work)
      BY <1>1, <2>2 DEF WorkAges
    <3>3. QED
      BY <1>1, <2>1a, <2>5, <3>1, <3>2 DEF WorkAges
  <2>12. CalmKeepsUp'
    BY <1>1, <2>2, <2>3, <2>5 DEF CalmKeepsUp, Calm, history, Open
  <2>13. QED
    BY <2>7, <2>8, <2>10, <2>11, <2>12 DEF AutosaveInv
<1>6. QED
  BY <1>3, <1>4, <1>5 DEF Run

LEMMA DebouncedStep == AutosaveInv /\ Debounced => AutosaveInv'
<1> SUFFICES ASSUME AutosaveInv, Debounced PROVE AutosaveInv'
  OBVIOUS
<1> DEFINE c == [ctl EXCEPT !.debounce = FALSE]
<1>1. /\ c \in Controller /\ c.gen = ctl.gen /\ c.saved = ctl.saved
      /\ c.inFlight = ctl.inFlight /\ c.status = ctl.status /\ c.waiting = ctl.waiting
  BY DEF AutosaveInv, TypeOK, Controller
<1>2. Run(c, calls, ref.stamp, backup)
  BY DEF Debounced
<1>3. backup \in Backups
  BY BackupTyped DEF AutosaveInv
<1> HIDE DEF c
<1>4. QED
  BY <1>1, <1>2, <1>3, RunKeeps DEF Debounced

LEMMA RetryStep == AutosaveInv /\ Retry => AutosaveInv'
<1> SUFFICES ASSUME AutosaveInv, Retry PROVE AutosaveInv'
  OBVIOUS
<1> DEFINE c == [ctl EXCEPT !.retry = FALSE]
<1>1. /\ c \in Controller /\ c.gen = ctl.gen /\ c.saved = ctl.saved
      /\ c.inFlight = ctl.inFlight /\ c.status = ctl.status /\ c.waiting = ctl.waiting
  BY DEF AutosaveInv, TypeOK, Controller
<1>2. Run(c, calls, ref.stamp, backup)
  BY DEF Retry
<1>3. backup \in Backups
  BY BackupTyped DEF AutosaveInv
<1> HIDE DEF c
<1>4. QED
  BY <1>1, <1>2, <1>3, RunKeeps DEF Retry

LEMMA FlushStep == \A hidden \in BOOLEAN : AutosaveInv /\ Flush(hidden) => AutosaveInv'
<1> SUFFICES ASSUME NEW hidden \in BOOLEAN, AutosaveInv, Flush(hidden) PROVE AutosaveInv'
  OBVIOUS
<1> DEFINE c == [ctl EXCEPT !.debounce = FALSE, !.retry = FALSE, !.waiting = TRUE]
           b == IF hidden THEN Backup ELSE backup
<1>1. /\ c \in Controller /\ c.gen = ctl.gen /\ c.saved = ctl.saved
      /\ c.inFlight = ctl.inFlight /\ c.status = ctl.status
  BY DEF AutosaveInv, TypeOK, Controller
<1>2. Run(c, calls, ref.stamp, b) /\ Dirty(ctl)
  BY DEF Flush
<1>3. b \in Backups
  BY BackupTyped DEF AutosaveInv
<1>4. PICK q \in Backups : q = b
  BY <1>3
<1>5. Run(c, calls, ref.stamp, q)
  BY <1>2, <1>4
<1> HIDE DEF c, b
<1>6. QED
  BY <1>1, <1>2, <1>5, RunKeeps DEF Flush

-----------------------------------------------------------------------------

\* The terminal save joins the queue.
LEMMA LeaveStep == AutosaveInv /\ Leave => AutosaveInv'
<1> SUFFICES ASSUME AutosaveInv, Leave PROVE AutosaveInv'
  OBVIOUS
<1> USE AutosaveAssumption
<1>1. /\ TypeOK /\ SavedMeansHeld /\ OneInFlight /\ StampsPast /\ WorkAges
      /\ CalmKeepsUp /\ Open
  BY DEF AutosaveInv, Leave
<1>2. /\ ctl' \in Controller /\ ctl'.gen = ctl.gen /\ ctl'.saved = ctl.saved
      /\ page' = "left" /\ ~Open'
  BY <1>1 DEF Leave, TypeOK, Controller, Open
<1>3. backup' \in Backups
  BY <1>1, BackupTyped DEF Leave
<1>0. /\ UNCHANGED <<valid, screen, ref, offer, late, row, landed>>
      /\ UNCHANGED <<failures, elsewhere, unloads>>
  BY DEF Leave, history
<1>4. CASE ~TerminalSave
  <2>1. calls' = calls /\ Pending' = Pending
    BY <1>0, <1>4 DEF Leave, Pending
  <2>2. TypeOK' /\ SavedMeansHeld' /\ OneInFlight'
    BY <1>0, <1>1, <1>2, <1>3, <2>1
       DEF TypeOK, SavedMeansHeld, OneInFlight, Backups, Open
  <2>3. NeverStuck' /\ StampsPast' /\ WorkAges'
    BY <1>0, <1>1, <1>2, <2>1
       DEF NeverStuck, StampsPast, InThePast, WorkAges, OlderNowhere
  <2>4. valid => ctl.gen \in landed
    BY <1>1, <1>4 DEF SavedMeansHeld, TerminalSave, Dirty
  <2>5. CalmKeepsUp'
    BY <1>0, <1>1, <1>2, <2>1, <2>4 DEF CalmKeepsUp, Calm
  <2>6. QED
    BY <2>2, <2>3, <2>5 DEF AutosaveInv
<1>5. CASE TerminalSave
  <2>0. PICK r \in Request : r = SaveRequest(TRUE, ref.stamp)
    BY <1>1, Typed, SaveTyped
  <2>1. calls' = Append(calls, r)
    BY <1>5, <2>0 DEF Leave
  <2>2. /\ r \in Request /\ r.gen = ctl.gen /\ r.work = screen /\ r.stamp = ref.stamp
        /\ r.terminal /\ r.attempt = 1 /\ r.pc = "sent" /\ r.at = 0 /\ ref.stamp \in Nat
    BY <1>1, <2>0, Typed, SaveTyped
  <2>3. /\ calls' \in Seq(Request) /\ calls' # << >> /\ Len(calls') = Len(calls) + 1
        /\ Len(calls) \in {0, 1} /\ DOMAIN calls = 1..Len(calls)
        /\ calls'[Len(calls) + 1] = r /\ Len(calls) + 1 \in DOMAIN calls'
        /\ \A i \in DOMAIN calls : i \in DOMAIN calls' /\ calls'[i] = calls[i]
        /\ \A i \in DOMAIN calls' : i \in DOMAIN calls \/ i = Len(calls) + 1
    <3>1. calls \in Seq(Request) /\ Len(calls) \in {0, 1}
      BY <1>1 DEF TypeOK, OneInFlight
    <3>2. QED
      BY <2>1, <2>2, <3>1, QueueAppend, QueueShort
  <2>4. Len(calls) = 0 => calls = << >> /\ calls'[1] = r
    BY <1>1, <2>3, QueueShort DEF TypeOK
  <2>5. Len(calls) = 1 => calls # << >> /\ calls'[1] = calls[1] /\ calls'[2] = r
                          /\ ~calls[1].terminal /\ 1 \in DOMAIN calls
    <3>1. calls # << >> => ~calls[1].terminal
      BY <1>1 DEF OneInFlight
    <3>2. Len(calls) = 1 => calls # << >> /\ 1 \in DOMAIN calls
      <4>1. DOMAIN calls = 1..Len(calls)
        BY <2>3
      <4>2. QED
        BY <4>1
    <3>3. Len(calls) = 1 => calls'[2] = r
      BY <2>3
    <3>4. QED
      BY <2>3, <3>1, <3>2, <3>3
  <2>6. Pending' = Pending \cup {r}
    BY <1>0, <2>3 DEF Pending
  <2>7. TypeOK' /\ NeverStuck' /\ SavedMeansHeld'
    <3>1. TypeOK'
      BY <1>0, <1>1, <1>2, <1>3, <2>3 DEF TypeOK, Backups
    <3>2. NeverStuck' /\ SavedMeansHeld'
      BY <1>0, <1>1, <1>2 DEF NeverStuck, SavedMeansHeld
    <3>3. QED
      BY <3>1, <3>2
  <2>8. OneInFlight'
    BY <1>2, <2>2, <2>3, <2>4, <2>5 DEF OneInFlight
  <2>9. InThePast(r)' /\ OlderNowhere(r)'
    BY <1>0, <1>1, <1>2, <2>2, SaveKeeps DEF StampsPast
  <2>10. StampsPast'
    <3>1. \A x \in Pending' : InThePast(x)'
      BY <1>0, <1>1, <2>6, <2>9 DEF StampsPast, InThePast
    <3>2. \A i \in DOMAIN calls' : i # 1 => calls'[i].pc = "sent"
      BY <1>1, <2>2, <2>3 DEF StampsPast
    <3>3. calls'[1].pc = "saved" => calls'[1].gen \in landed
      BY <1>1, <2>2, <2>3, <2>4, <2>5 DEF StampsPast
    <3>4. QED
      BY <1>0, <1>1, <3>1, <3>2, <3>3 DEF StampsPast
  <2>11. WorkAges'
    <3>1. \A x \in Pending' : OlderNowhere(x)'
      <4>1. \A x \in Pending : OlderNowhere(x)'
        BY <1>0, <1>1, <1>2 DEF WorkAges, OlderNowhere
      <4>2. QED
        BY <2>6, <2>9, <4>1
    <3>2. \A i \in DOMAIN calls' : calls'[i].attempt = 1 => NoNewer(ref.content, calls'[i].work)
      BY <1>1, <2>2, <2>3 DEF WorkAges
    <3>3. Len(calls') = 2 => calls'[2].work = screen
      <4>1. Len(calls') = Len(calls) + 1 /\ (Len(calls) = 0 \/ Len(calls) = 1)
        BY <2>3
      <4>2. Len(calls') = 2 => Len(calls) = 1
        BY <4>1
      <4>3. QED
        BY <2>2, <2>5, <4>2
    <3>4. QED
      BY <1>0, <1>1, <1>2, <3>1, <3>2, <3>3 DEF WorkAges
  <2>12. CalmKeepsUp'
    <3> SUFFICES ASSUME Calm PROVE CalmKeepsUp'
      BY <1>0 DEF CalmKeepsUp, Calm
    <3>1. /\ late = {} /\ ref.banner = None
          /\ calls = << >> \/ calls[1].pc \in {"sent", "refused"} =>
                ref.stamp = row.stamp /\ ref.content = row.content
          /\ calls # << >> =>
                /\ calls[1].pc = "sent" =>
                      calls[1].stamp = row.stamp \/ (calls[1].terminal /\ calls[1].attempt = 1)
                /\ calls[1].pc = "draft" => calls[1].at = row.stamp
                /\ calls[1].pc = "refused" => calls[1].terminal /\ calls[1].attempt = 1
      BY <1>1 DEF CalmKeepsUp
    <3>2. \E i \in DOMAIN calls' : calls'[i].terminal /\ calls'[i].gen = ctl.gen
      BY <2>2, <2>3
    <3>3. Len(calls') = 2 => calls'[2].terminal /\ calls'[2].attempt = 1
      BY <2>2, <2>3, <2>5
    <3>4. CASE Len(calls) = 0
      BY <1>0, <1>2, <2>2, <2>3, <2>4, <3>1, <3>2, <3>3, <3>4 DEF CalmKeepsUp
    <3>5. CASE Len(calls) = 1
      BY <1>0, <1>2, <2>3, <2>5, <3>1, <3>2, <3>3, <3>5 DEF CalmKeepsUp
    <3>6. QED
      BY <2>3, <3>4, <3>5
  <2>13. QED
    BY <2>7, <2>8, <2>10, <2>11, <2>12 DEF AutosaveInv
<1>6. QED
  BY <1>4, <1>5

\* The request at the server is under way.
LEMMA AtServerPending == TypeOK => AtServer \subseteq Pending /\ \A x \in AtServer : x.pc \in Running
<1> SUFFICES ASSUME TypeOK PROVE AtServer \subseteq Pending /\ \A x \in AtServer : x.pc \in Running
  OBVIOUS
<1>1. calls # << >> => 1 \in DOMAIN calls
  BY QueueTail DEF TypeOK
<1>2. QED
  BY <1>1 DEF AtServer, Pending

\* beforeunload: the backup, and a beacon with the stamp of the page.
LEMMA UnloadStep == \A stay \in BOOLEAN : AutosaveInv /\ Unload(stay) => AutosaveInv'
<1> SUFFICES ASSUME NEW stay \in BOOLEAN, AutosaveInv, Unload(stay) PROVE AutosaveInv'
  OBVIOUS
<1> USE AutosaveAssumption
<1>0. /\ UNCHANGED <<valid, screen, ref, offer, row, landed, failures, elsewhere>>
      /\ unloads' = unloads + 1 /\ unloads < MaxOfAKind /\ Open
  BY DEF Unload, Trouble
<1>1. /\ TypeOK /\ NeverStuck /\ SavedMeansHeld /\ OneInFlight /\ StampsPast /\ WorkAges
  BY DEF AutosaveInv
<1>2. PICK r \in Request : r = SaveRequest(TRUE, ref.stamp)
  BY <1>1, Typed, SaveTyped
<1>3. /\ r.gen = ctl.gen /\ r.work = screen /\ r.stamp = ref.stamp /\ r.pc = "sent"
      /\ r.at = 0 /\ ref.stamp \in Nat
  BY <1>1, <1>2, Typed, SaveTyped
<1>4. backup' \in Backups
  BY <1>1, BackupTyped DEF Unload
<1>5. ~Calm' /\ unloads' \in 0..MaxOfAKind
  BY <1>0, <1>1 DEF TypeOK, Calm, AutosaveAssumption
<1>6. CalmKeepsUp'
  BY <1>5 DEF CalmKeepsUp
<1>7. PICK beacon \in SUBSET {r} :
         IF stay
         THEN /\ late' = late \cup beacon
              /\ UNCHANGED <<page, ctl, calls>>
         ELSE /\ late' = late \cup beacon \cup AtServer
              /\ page' = "closed"
              /\ ctl' = [ctl EXCEPT !.debounce = FALSE, !.retry = FALSE,
                                    !.waiting = FALSE, !.inFlight = FALSE]
              /\ calls' = << >>
  <2>1. (IF Dirty(ctl) /\ valid THEN {SaveRequest(TRUE, ref.stamp)} ELSE {}) \subseteq {r}
    BY <1>2
  <2>2. QED
    BY <2>1 DEF Unload
<1>8. /\ late' \subseteq Pending \cup {r} /\ late' \subseteq Request
      /\ \A x \in late' : x.pc \in Running
  <2>1. late \subseteq Pending /\ \A x \in late : x.pc \in Running
    BY <1>1 DEF Pending, StampsPast
  <2>2. AtServer \subseteq Pending /\ \A x \in AtServer : x.pc \in Running
    BY <1>1, AtServerPending
  <2>3. \A x \in beacon : x = r
    OBVIOUS
  <2>4. "sent" \in Running
    BY DEF Running
  <2>5. late' \subseteq late \cup beacon \cup AtServer
    BY <1>7
  <2>6. Pending \subseteq Request
    BY <1>1, Typed
  <2>7. QED
    BY <1>3, <2>1, <2>2, <2>3, <2>4, <2>5, <2>6
<1>9. ctl' \in Controller /\ ctl'.gen = ctl.gen /\ ctl'.saved = ctl.saved
  BY <1>1, <1>7 DEF TypeOK, Controller
<1>10. InThePast(r)' /\ OlderNowhere(r)'
  BY <1>0, <1>1, <1>3, <1>9, SaveKeeps DEF StampsPast
<1>11. /\ Pending' \subseteq Pending \cup {r} /\ calls' \in Seq(Request)
       /\ \/ calls' = calls /\ page' = page /\ ctl' = ctl
          \/ calls' = << >> /\ page' = "closed"
  <2>1. CASE stay
    <3>1. calls \in Seq(Request) /\ calls' = calls /\ page' = page /\ ctl' = ctl
      BY <1>1, <1>7, <2>1 DEF TypeOK
    <3>2. QED
      BY <1>8, <3>1 DEF Pending
  <2>2. CASE ~stay
    <3>1. calls' = << >> /\ page' = "closed"
      BY <1>7, <2>2
    <3>2. calls' \in Seq(Request) /\ DOMAIN calls' = {}
      BY <3>1
    <3>3. QED
      BY <1>8, <3>1, <3>2 DEF Pending
  <2>3. QED
    BY <2>1, <2>2
<1>12. TypeOK'
  BY <1>0, <1>1, <1>4, <1>5, <1>8, <1>9, <1>11 DEF TypeOK, Backups
<1>13. NeverStuck' /\ SavedMeansHeld' /\ OneInFlight'
  BY <1>0, <1>1, <1>9, <1>11 DEF NeverStuck, SavedMeansHeld, OneInFlight, Open
<1>14. \A x \in Pending' : InThePast(x)' /\ OlderNowhere(x)'
  <2>1. \A x \in Pending : InThePast(x)' /\ OlderNowhere(x)'
    BY <1>0, <1>1, <1>9 DEF StampsPast, WorkAges, InThePast, OlderNowhere
  <2>2. QED
    BY <1>10, <1>11, <2>1
<1>15. StampsPast'
  BY <1>0, <1>1, <1>8, <1>11, <1>14 DEF StampsPast
<1>16. WorkAges'
  BY <1>0, <1>1, <1>9, <1>11, <1>14 DEF WorkAges, Open
<1>17. QED
  BY <1>6, <1>12, <1>13, <1>15, <1>16 DEF AutosaveInv

LEMMA ReopenStep == AutosaveInv /\ Reopen => AutosaveInv'
<1> SUFFICES ASSUME AutosaveInv, Reopen PROVE AutosaveInv'
  OBVIOUS
<1>1. /\ UNCHANGED <<valid, screen, ctl, ref, calls, late, row, landed>>
      /\ UNCHANGED <<failures, elsewhere, unloads>> /\ page' = "reopened"
  BY DEF Reopen, history
<1>2. /\ TypeOK /\ SavedMeansHeld /\ OneInFlight /\ StampsPast /\ WorkAges /\ CalmKeepsUp
      /\ Pending' = Pending
  BY <1>1 DEF AutosaveInv, Pending
<1>3. (backup' = None \/ backup' = backup) /\ (offer' = None \/ offer' \in Generations)
  <2>1. backup # None => backup.gen \in Generations
    BY <1>2 DEF TypeOK, Drafts
  <2>2. QED
    BY <2>1 DEF Reopen
<1>4. TypeOK' /\ NeverStuck' /\ SavedMeansHeld' /\ OneInFlight'
  BY <1>1, <1>2, <1>3 DEF TypeOK, NeverStuck, SavedMeansHeld, OneInFlight, Open
<1>5. StampsPast' /\ WorkAges' /\ CalmKeepsUp'
  BY <1>1, <1>2
     DEF StampsPast, InThePast, WorkAges, OlderNowhere, CalmKeepsUp, Calm, Open
<1>6. QED
  BY <1>4, <1>5 DEF AutosaveInv

-----------------------------------------------------------------------------
(* The row is written, always under a new stamp, or it is only read.        *)

\* What a write owes the requests under way: nothing, their stamps are past.
LEMMA WriteKeeps ==
    ASSUME AutosaveInv, NEW content \in Contents, Write(content), UNCHANGED <<ctl, screen>>
    PROVE  /\ row' \in [stamp: Nat, content: Contents] /\ backup' \in Backups
           /\ row'.stamp = row.stamp + 1 /\ row'.content = content
           /\ \A x \in Pending : InThePast(x)' /\ OlderNowhere(x)'
<1>1. TypeOK /\ StampsPast /\ WorkAges
  BY DEF AutosaveInv
<1>2. row.stamp \in Nat /\ row' = [stamp |-> row.stamp + 1, content |-> content]
  BY <1>1, Typed DEF Write
<1>3. row'.stamp = row.stamp + 1 /\ row'.content = content
  BY <1>2
<1>4. backup' \in Backups
  BY <1>1 DEF Write, Outdate, TypeOK, Backups, Drafts
<1>5. ASSUME NEW x \in Pending PROVE InThePast(x)' /\ OlderNowhere(x)'
  <2>1. InThePast(x) /\ OlderNowhere(x) /\ x.stamp \in Nat /\ x.at \in Nat
    BY <1>1, Typed DEF StampsPast, WorkAges
  <2>2. InThePast(x)'
    BY <1>2, <1>3, <2>1 DEF InThePast
  <2>3. x.stamp # row'.stamp /\ (x.pc \in {"named", "draft"} => x.stamp + 1 # row'.stamp)
    BY <1>2, <1>3, <2>1 DEF InThePast
  <2>4. OlderNowhere(x)'
    BY <2>1, <2>3 DEF OlderNowhere
  <2>5. QED
    BY <2>2, <2>4
<1>6. QED
  BY <1>2, <1>3, <1>4, <1>5

LEMMA ElsewhereStep == AutosaveInv /\ Elsewhere => AutosaveInv'
<1> SUFFICES ASSUME AutosaveInv, Elsewhere PROVE AutosaveInv'
  OBVIOUS
<1> USE AutosaveAssumption
<1>0. /\ UNCHANGED <<page, valid, screen, ctl, ref, calls, offer, late, landed, failures, unloads>>
      /\ elsewhere' = elsewhere + 1 /\ elsewhere < MaxOfAKind
  BY DEF Elsewhere, Trouble
<1>1. TypeOK /\ NeverStuck /\ SavedMeansHeld /\ OneInFlight /\ StampsPast /\ WorkAges
  BY DEF AutosaveInv
<1>2. PICK content \in Contents : Write(content) /\ NoNewer(content, screen)
  <2>1. row.content \in Contents /\ NoNewer(row.content, screen)
    BY <1>1, Typed DEF WorkAges
  <2>2. Theirs \notin Generations
    BY DEF Generations, AutosaveAssumption
  <2>3. /\ [row.content EXCEPT !.name = Theirs] \in Contents
        /\ NoNewer([row.content EXCEPT !.name = Theirs], screen)
    BY <2>1, <2>2 DEF Contents, NoNewer, Before
  <2>4. /\ [row.content EXCEPT !.config = Theirs] \in Contents
        /\ NoNewer([row.content EXCEPT !.config = Theirs], screen)
    BY <2>1, <2>2 DEF Contents, NoNewer, Before
  <2>5. \/ Write([row.content EXCEPT !.name = Theirs])
        \/ Write([row.content EXCEPT !.config = Theirs])
        \/ Write(row.content)
    BY DEF Elsewhere
  <2>6. QED
    BY <2>1, <2>3, <2>4, <2>5
<1>3. elsewhere' \in 0..MaxOfAKind /\ ~Calm'
  BY <1>0, <1>1 DEF TypeOK, Calm, AutosaveAssumption
<1>4. /\ row' \in [stamp: Nat, content: Contents] /\ backup' \in Backups
      /\ row'.stamp = row.stamp + 1 /\ row'.content = content
      /\ \A x \in Pending : InThePast(x)' /\ OlderNowhere(x)'
  BY <1>0, <1>2, WriteKeeps
<1>5. Pending' = Pending
  BY <1>0 DEF Pending
<1>6. TypeOK' /\ NeverStuck' /\ SavedMeansHeld' /\ OneInFlight'
  BY <1>0, <1>1, <1>3, <1>4
     DEF TypeOK, Backups, NeverStuck, SavedMeansHeld, OneInFlight, Open
<1>7. StampsPast'
  <2>1. row.stamp \in Nat /\ ref.stamp \in Nat /\ (ref.banner # None => ref.banner \in Nat)
    BY <1>1, Typed DEF TypeOK
  <2>2. ref.stamp <= row'.stamp /\ (ref.banner # None => ref.banner <= row'.stamp)
    BY <1>1, <1>4, <2>1 DEF StampsPast
  <2>3. QED
    BY <1>0, <1>1, <1>4, <1>5, <2>2 DEF StampsPast
<1>8. WorkAges'
  BY <1>0, <1>1, <1>2, <1>4, <1>5 DEF WorkAges, Open
<1>9. CalmKeepsUp'
  BY <1>3 DEF CalmKeepsUp
<1>10. QED
  BY <1>6, <1>7, <1>8, <1>9 DEF AutosaveInv

\* A request after its statement.
LEMMA AfterFields ==
    ASSUME TypeOK, NEW r \in Request, r.pc \in Running
    PROVE  /\ After(r) \in Request
           /\ After(r).gen = r.gen /\ After(r).work = r.work /\ After(r).stamp = r.stamp
           /\ After(r).terminal = r.terminal /\ After(r).attempt = r.attempt
           /\ r.pc = "sent" => /\ After(r).pc = IF Accepted(r) THEN "named" ELSE "refused"
                               /\ After(r).at = r.at
           /\ r.pc = "named" => After(r).pc = "draft" /\ After(r).at = row.stamp
           /\ r.pc = "draft" => /\ After(r).pc = IF r.at = row.stamp THEN "saved" ELSE "refused"
                                /\ After(r).at = r.at
<1>1. row.stamp \in Nat
  BY Typed
<1>2. CASE r.pc = "sent"
  <2>1. After(r) = [r EXCEPT !.pc = IF Accepted(r) THEN "named" ELSE "refused"]
    BY <1>2 DEF After
  <2>2. QED
    BY <1>2, <2>1 DEF Request, Steps, Running
<1>3. CASE r.pc = "named"
  <2>1. After(r) = [r EXCEPT !.pc = "draft", !.at = row.stamp]
    BY <1>3 DEF After
  <2>2. QED
    BY <1>1, <1>3, <2>1 DEF Request, Steps, Running
<1>4. CASE r.pc = "draft"
  <2>1. After(r) = [r EXCEPT !.pc = IF r.at = row.stamp THEN "saved" ELSE "refused"]
    BY <1>4 DEF After
  <2>2. QED
    BY <1>4, <2>1 DEF Request, Steps, Running
<1>5. QED
  BY <1>2, <1>3, <1>4 DEF Running

\* A statement of a request, whoever waits for it: the row gets nothing newer
\* than the screen, and what still runs carries nothing older than its stamps.
LEMMA StatementKeeps ==
    ASSUME AutosaveInv, NEW r \in Pending, Statement(r), NEW a, a = After(r),
           UNCHANGED <<ctl, screen>>
    PROVE  /\ row' \in [stamp: Nat, content: Contents] /\ backup' \in Backups
           /\ row.stamp <= row'.stamp /\ NoNewer(row'.content, screen)
           /\ landed \subseteq landed' /\ landed' \subseteq Generations
           /\ \A x \in Pending : InThePast(x)' /\ OlderNowhere(x)'
           /\ InThePast(a)' /\ OlderNowhere(a)'
           /\ r.pc \in Running /\ a \in Request /\ a.gen = r.gen
           /\ a.pc = "saved" => a.gen \in landed'
<1>1. TypeOK /\ StampsPast /\ WorkAges /\ InThePast(r) /\ OlderNowhere(r)
  BY DEF AutosaveInv, StampsPast, WorkAges
<1>2. /\ r \in Request /\ r.stamp \in Nat /\ r.at \in Nat /\ r.gen \in Generations
      /\ r.work \in Work /\ row.stamp \in Nat /\ row.content \in Contents
      /\ landed \subseteq Generations
  BY <1>1, Typed DEF TypeOK
<1>3. r.work.name \in Generations /\ r.work.config \in Generations
  BY <1>2, WorkParts
<1>4. r.pc \in Running
  BY DEF Statement, SaveName, RereadName, SaveDraft, Running
<1>5. /\ a \in Request /\ a.gen = r.gen /\ a.work = r.work /\ a.stamp = r.stamp
      /\ r.pc = "sent" => a.pc = (IF Accepted(r) THEN "named" ELSE "refused") /\ a.at = r.at
      /\ r.pc = "named" => a.pc = "draft" /\ a.at = row.stamp
      /\ r.pc = "draft" => a.pc = (IF r.at = row.stamp THEN "saved" ELSE "refused") /\ a.at = r.at
  BY <1>1, <1>2, <1>4, AfterFields
<1>6. ASSUME UNCHANGED <<row, backup, landed>>
      PROVE  /\ row' \in [stamp: Nat, content: Contents] /\ backup' \in Backups
             /\ row.stamp <= row'.stamp /\ NoNewer(row'.content, screen)
             /\ landed \subseteq landed' /\ landed' \subseteq Generations
             /\ \A x \in Pending : InThePast(x)' /\ OlderNowhere(x)'
  <2>1. row' \in [stamp: Nat, content: Contents] /\ backup' \in Backups
    BY <1>1, <1>6, BackupTyped DEF TypeOK
  <2>2. \A x \in Pending : InThePast(x)' /\ OlderNowhere(x)'
    BY <1>1, <1>6 DEF StampsPast, WorkAges, InThePast, OlderNowhere
  <2>3. QED
    BY <1>1, <1>2, <1>6, <2>1, <2>2 DEF WorkAges
<1>7. CASE r.pc = "sent" /\ Accepted(r)
  <2> DEFINE content == [row.content EXCEPT !.name = r.work.name]
  <2>1. Write(content) /\ landed' = landed
    BY <1>7 DEF Statement, SaveName, RereadName, SaveDraft
  <2>2. /\ content \in Contents /\ content.name = r.work.name
        /\ content.config = row.content.config
    BY <1>2, <1>3 DEF Contents
  <2>3. NoNewer(content, screen)
    BY <1>1, <1>3, <2>2 DEF WorkAges, OlderNowhere, NoNewer, Before
  <2>4. PICK b \in Contents : b = content
    BY <2>2
  <2> HIDE DEF content
  <2>5. /\ row' \in [stamp: Nat, content: Contents] /\ backup' \in Backups
        /\ row'.stamp = row.stamp + 1 /\ row'.content = b
        /\ \A x \in Pending : InThePast(x)' /\ OlderNowhere(x)'
    BY <2>1, <2>4, WriteKeeps
  <2>6. a.pc = "named" /\ a.at = r.at /\ a.stamp = row.stamp
    BY <1>5, <1>7 DEF Accepted
  <2>7. InThePast(a)'
    BY <1>1, <1>2, <1>5, <2>5, <2>6 DEF InThePast
  <2>8. Before(row.content.config, r.work.config)
    BY <1>1, <1>7 DEF OlderNowhere, NoNewer, Accepted
  <2>9. OlderNowhere(a)'
    <3>1. row'.content.config = row.content.config
      BY <2>2, <2>4, <2>5
    <3>2. Before(row'.content.config, a.work.config)
      BY <1>5, <2>8, <3>1
    <3>3. QED
      BY <1>1, <1>5, <2>6, <3>2 DEF OlderNowhere
  <2>10. QED
    BY <1>2, <1>4, <1>5, <2>1, <2>3, <2>4, <2>5, <2>6, <2>7, <2>9
<1>8. CASE r.pc = "sent" /\ ~Accepted(r)
  <2>1. UNCHANGED <<row, backup, landed>> /\ a.pc = "refused"
    BY <1>5, <1>8 DEF Statement, SaveName, RereadName, SaveDraft
  <2>2. InThePast(a)' /\ OlderNowhere(a)'
    BY <1>1, <1>5, <1>8, <2>1 DEF InThePast, OlderNowhere
  <2>3. QED
    BY <1>4, <1>5, <1>6, <2>1, <2>2
<1>9. CASE r.pc = "named"
  <2>1. UNCHANGED <<row, backup, landed>>
    BY <1>9 DEF Statement, SaveName, RereadName, SaveDraft
  <2>2. InThePast(a)' /\ OlderNowhere(a)'
    BY <1>1, <1>2, <1>5, <1>9, <2>1 DEF InThePast, OlderNowhere
  <2>3. QED
    BY <1>4, <1>5, <1>6, <1>9, <2>1, <2>2
<1>10. CASE r.pc = "draft" /\ r.at = row.stamp
  <2> DEFINE content == [row.content EXCEPT !.config = r.work.config]
  <2>1. Write(content) /\ landed' = landed \cup {r.gen}
    BY <1>10 DEF Statement, SaveName, RereadName, SaveDraft
  <2>2. /\ content \in Contents /\ content.config = r.work.config
        /\ content.name = row.content.name
    BY <1>2, <1>3 DEF Contents
  <2>3. NoNewer(content, screen)
    BY <1>1, <1>3, <2>2 DEF WorkAges, OlderNowhere, NoNewer, Before
  <2>4. PICK b \in Contents : b = content
    BY <2>2
  <2> HIDE DEF content
  <2>5. /\ row' \in [stamp: Nat, content: Contents] /\ backup' \in Backups
        /\ row'.stamp = row.stamp + 1 /\ row'.content = b
        /\ \A x \in Pending : InThePast(x)' /\ OlderNowhere(x)'
    BY <2>1, <2>4, WriteKeeps
  <2>6. a.pc = "saved" /\ a.at = r.at
    BY <1>5, <1>10
  <2>7. InThePast(a)'
    BY <1>1, <1>2, <1>5, <2>5, <2>6 DEF InThePast
  <2>8. OlderNowhere(a)'
    BY <1>1, <1>5, <2>6 DEF OlderNowhere
  <2>9. QED
    BY <1>2, <1>4, <1>5, <2>1, <2>3, <2>4, <2>5, <2>7, <2>8
<1>11. CASE r.pc = "draft" /\ r.at # row.stamp
  <2>1. UNCHANGED <<row, backup, landed>> /\ a.pc = "refused"
    BY <1>5, <1>11 DEF Statement, SaveName, RereadName, SaveDraft
  <2>2. InThePast(a)' /\ OlderNowhere(a)'
    BY <1>1, <1>5, <1>11, <2>1 DEF InThePast, OlderNowhere
  <2>3. QED
    BY <1>4, <1>5, <1>6, <2>1, <2>2
<1>12. QED
  BY <1>4, <1>7, <1>8, <1>9, <1>10, <1>11 DEF Running

LEMMA LandStep == AutosaveInv /\ Land => AutosaveInv'
<1> SUFFICES ASSUME AutosaveInv, Land PROVE AutosaveInv'
  OBVIOUS
<1> USE AutosaveAssumption
<1>0. /\ UNCHANGED <<page, valid, screen, ctl, ref, offer, late>>
      /\ UNCHANGED <<failures, elsewhere, unloads>>
      /\ calls # << >> /\ Statement(calls[1])
  BY DEF Land, history
<1>1. TypeOK /\ NeverStuck /\ SavedMeansHeld /\ OneInFlight /\ StampsPast /\ WorkAges
      /\ CalmKeepsUp
  BY DEF AutosaveInv
<1>2. calls \in Seq(Request) /\ 1 \in DOMAIN calls /\ calls[1] \in Pending
      /\ calls[1] \in Request
  BY <1>0, <1>1, QueueTail DEF TypeOK, Pending
<1>3. PICK r \in Pending : r = calls[1]
  BY <1>2
<1>4. PICK a : a = After(r)
  OBVIOUS
<1>5. Statement(r)
  BY <1>0, <1>3
<1>6. /\ row' \in [stamp: Nat, content: Contents] /\ backup' \in Backups
      /\ row.stamp <= row'.stamp /\ NoNewer(row'.content, screen)
      /\ landed \subseteq landed' /\ landed' \subseteq Generations
      /\ \A x \in Pending : InThePast(x)' /\ OlderNowhere(x)'
      /\ InThePast(a)' /\ OlderNowhere(a)'
      /\ r.pc \in Running /\ a \in Request /\ a.gen = r.gen
      /\ a.pc = "saved" => a.gen \in landed'
  BY <1>0, <1>4, <1>5, StatementKeeps
<1>7. calls' = [calls EXCEPT ![1] = a]
  BY <1>3, <1>4 DEF Land
<1>8. /\ calls' \in Seq(Request) /\ calls' # << >> /\ Len(calls') = Len(calls)
      /\ DOMAIN calls' = DOMAIN calls /\ calls'[1] = a
      /\ \A i \in DOMAIN calls : i # 1 => calls'[i] = calls[i]
  BY <1>0, <1>2, <1>6, <1>7, QueueHead
<1>9. /\ a.gen = r.gen /\ a.work = r.work /\ a.terminal = r.terminal /\ a.stamp = r.stamp
      /\ a.attempt = r.attempt
      /\ r.pc = "sent" => a.pc = IF Accepted(r) THEN "named" ELSE "refused"
      /\ r.pc = "named" => a.pc = "draft" /\ a.at = row.stamp
      /\ r.pc = "draft" => a.pc = IF r.at = row.stamp THEN "saved" ELSE "refused"
  BY <1>1, <1>2, <1>3, <1>4, <1>6, AfterFields
<1>10. /\ Len(calls) \in Nat /\ (Len(calls) = 2 => 2 \in DOMAIN calls /\ calls'[2] = calls[2])
       /\ Len(calls) # 0
  <2>1. DOMAIN calls = 1..Len(calls) /\ Len(calls) \in Nat /\ Len(calls) # 0
    BY <1>0, <1>2, QueueShort
  <2>2. Len(calls) = 2 => 2 \in DOMAIN calls
    BY <2>1
  <2>3. QED
    BY <1>8, <2>1, <2>2
<1>11. \A x \in Pending' : x = a \/ x \in Pending
  BY <1>0, <1>8 DEF Pending
<1>12. TypeOK' /\ NeverStuck' /\ SavedMeansHeld'
  <2>1. TypeOK'
    BY <1>0, <1>1, <1>6, <1>8 DEF TypeOK, Backups
  <2>2. NeverStuck' /\ SavedMeansHeld'
    BY <1>0, <1>1, <1>6 DEF NeverStuck, SavedMeansHeld, Open
  <2>3. QED
    BY <2>1, <2>2
<1>13. OneInFlight'
  <2>1. Len(calls') = 2 => calls'[1].terminal # calls'[2].terminal
    BY <1>1, <1>3, <1>8, <1>9, <1>10 DEF OneInFlight
  <2>2. QED
    BY <1>0, <1>1, <1>3, <1>8, <1>9, <2>1 DEF OneInFlight, Open
<1>14. StampsPast'
  <2>1. ref.stamp <= row'.stamp /\ (ref.banner # None => ref.banner <= row'.stamp)
    <3>1. row.stamp \in Nat /\ ref.stamp \in Nat /\ (ref.banner # None => ref.banner \in Nat)
          /\ row'.stamp \in Nat
      BY <1>1, <1>6, Typed DEF TypeOK
    <3>2. QED
      BY <1>1, <1>6, <3>1 DEF StampsPast
  <2>2. \A x \in Pending' : InThePast(x)'
    BY <1>6, <1>11
  <2>3. \A i \in DOMAIN calls' : i # 1 => calls'[i].pc = "sent"
    BY <1>1, <1>8 DEF StampsPast
  <2>4. QED
    BY <1>0, <1>1, <1>6, <1>8, <2>1, <2>2, <2>3 DEF StampsPast
<1>15. WorkAges'
  <2>1. \A x \in Pending' : OlderNowhere(x)'
    BY <1>6, <1>11
  <2>2. \A i \in DOMAIN calls' : calls'[i].attempt = 1 => NoNewer(ref.content, calls'[i].work)
    BY <1>1, <1>2, <1>3, <1>8, <1>9 DEF WorkAges
  <2>3. Len(calls') = 2 /\ calls'[2].attempt = 1 => ~Open /\ calls'[2].work = screen
    BY <1>1, <1>8, <1>10 DEF WorkAges
  <2>4. QED
    BY <1>0, <1>1, <1>6, <2>1, <2>2, <2>3 DEF WorkAges, Open
<1>16. CalmKeepsUp'
  <2> SUFFICES ASSUME Calm PROVE CalmKeepsUp'
    BY <1>0 DEF CalmKeepsUp, Calm
  <2>1. /\ page # "closed" /\ late = {} /\ ref.banner = None
        /\ r.pc = "sent" => ref.stamp = row.stamp /\ ref.content = row.content
        /\ r.pc = "sent" => r.stamp = row.stamp \/ (r.terminal /\ r.attempt = 1)
        /\ r.pc = "draft" => r.at = row.stamp
        /\ Len(calls) = 2 => calls[2].terminal /\ calls[2].attempt = 1
    BY <1>0, <1>1, <1>3 DEF CalmKeepsUp
  <2>2. page = "left" /\ valid =>
           \/ ctl.gen \in landed
           \/ \E i \in DOMAIN calls : calls[i].terminal /\ calls[i].gen = ctl.gen
    BY <1>1 DEF CalmKeepsUp
  <2>3. \A i \in DOMAIN calls : calls'[i].terminal = calls[i].terminal /\ calls'[i].gen = calls[i].gen
    BY <1>3, <1>8, <1>9
  <2>4. page = "left" /\ valid =>
           \/ ctl.gen \in landed'
           \/ \E i \in DOMAIN calls' : calls'[i].terminal /\ calls'[i].gen = ctl.gen
    BY <1>6, <1>8, <2>2, <2>3
  <2>5. Len(calls') = 2 => calls'[2].terminal /\ calls'[2].attempt = 1
    BY <1>8, <1>10, <2>1
  <2>6. a.pc \in {"named", "draft", "refused", "saved"}
    BY <1>6, <1>9 DEF Running
  <2>7. a.pc = "draft" => a.at = row'.stamp
    <3>1. r.pc = "named" => row' = row
      BY <1>5 DEF Statement, SaveName, RereadName, SaveDraft
    <3>2. QED
      BY <1>6, <1>9, <3>1 DEF Running
  <2>8. a.pc = "refused" => /\ a.terminal /\ a.attempt = 1
                            /\ ref.stamp = row'.stamp /\ ref.content = row'.content
    <3>1. a.pc = "refused" => r.pc = "sent" /\ ~Accepted(r)
      BY <1>6, <1>9, <2>1 DEF Running
    <3>2. r.pc = "sent" /\ ~Accepted(r) => row' = row
      BY <1>5 DEF Statement, SaveName, RereadName, SaveDraft
    <3>3. QED
      BY <1>9, <2>1, <3>1, <3>2 DEF Accepted
  <2>9. QED
    BY <1>0, <1>8, <2>1, <2>4, <2>5, <2>6, <2>7, <2>8 DEF CalmKeepsUp
<1>17. QED
  BY <1>12, <1>13, <1>14, <1>15, <1>16 DEF AutosaveInv

LEMMA LandLateStep == AutosaveInv /\ LandLate => AutosaveInv'
<1> SUFFICES ASSUME AutosaveInv, LandLate PROVE AutosaveInv'
  OBVIOUS
<1> USE AutosaveAssumption
<1>0. /\ UNCHANGED <<page, valid, screen, ctl, ref, calls, offer, failures, elsewhere, unloads>>
  BY DEF LandLate, history
<1>1. TypeOK /\ NeverStuck /\ SavedMeansHeld /\ OneInFlight /\ StampsPast /\ WorkAges
      /\ CalmKeepsUp
  BY DEF AutosaveInv
<1>2. PICK r \in late :
         /\ Statement(r)
         /\ late' = {q \in (late \ {r}) \cup {After(r)} : q.pc \in Running}
  BY DEF LandLate
<1>3. PICK a : a = After(r)
  OBVIOUS
<1>4. r \in Pending
  BY DEF Pending
<1>5. /\ row' \in [stamp: Nat, content: Contents] /\ backup' \in Backups
      /\ row.stamp <= row'.stamp /\ NoNewer(row'.content, screen)
      /\ landed \subseteq landed' /\ landed' \subseteq Generations
      /\ \A x \in Pending : InThePast(x)' /\ OlderNowhere(x)'
      /\ InThePast(a)' /\ OlderNowhere(a)' /\ a \in Request
  BY <1>0, <1>2, <1>3, <1>4, StatementKeeps
<1>6. /\ late' \subseteq Request /\ \A x \in late' : x.pc \in Running
      /\ \A x \in Pending' : x = a \/ x \in Pending
  <2>1. late' \subseteq late \cup {a} /\ \A x \in late' : x.pc \in Running
    BY <1>2, <1>3
  <2>2. late \subseteq Request
    BY <1>1 DEF TypeOK
  <2>3. QED
    BY <1>0, <1>5, <2>1, <2>2 DEF Pending
<1>7. ~Calm /\ ~Calm'
  BY <1>0, <1>1, <1>2 DEF CalmKeepsUp, Calm
<1>8. OneInFlight' /\ CalmKeepsUp'
  BY <1>0, <1>1, <1>7 DEF OneInFlight, Open, CalmKeepsUp
<1>9. TypeOK' /\ NeverStuck' /\ SavedMeansHeld'
  BY <1>0, <1>1, <1>5, <1>6 DEF TypeOK, Backups, NeverStuck, SavedMeansHeld, Open
<1>10. StampsPast'
  <2>1. ref.stamp <= row'.stamp /\ (ref.banner # None => ref.banner <= row'.stamp)
    <3>1. row.stamp \in Nat /\ ref.stamp \in Nat /\ (ref.banner # None => ref.banner \in Nat)
          /\ row'.stamp \in Nat
      BY <1>1, <1>5, Typed DEF TypeOK
    <3>2. QED
      BY <1>1, <1>5, <3>1 DEF StampsPast
  <2>2. \A x \in Pending' : InThePast(x)'
    BY <1>5, <1>6
  <2>3. QED
    BY <1>0, <1>1, <1>5, <1>6, <2>1, <2>2 DEF StampsPast
<1>11. WorkAges'
  <2>1. \A x \in Pending' : OlderNowhere(x)'
    BY <1>5, <1>6
  <2>2. QED
    BY <1>0, <1>1, <1>5, <2>1 DEF WorkAges, Open
<1>12. QED
  BY <1>8, <1>9, <1>10, <1>11 DEF AutosaveInv

LEMMA LoseLateStep == AutosaveInv /\ LoseLate => AutosaveInv'
<1> SUFFICES ASSUME AutosaveInv, LoseLate PROVE AutosaveInv'
  OBVIOUS
<1> USE AutosaveAssumption
<1>0. UNCHANGED <<page, valid, screen, ctl, ref, calls, backup, offer, row, landed,
                  elsewhere, unloads>>
  BY DEF LoseLate
<1>1. TypeOK /\ NeverStuck /\ SavedMeansHeld /\ OneInFlight /\ StampsPast /\ WorkAges
      /\ CalmKeepsUp
  BY DEF AutosaveInv
<1>2. late # {} /\ late' \subseteq late
  BY DEF LoseLate
<1>3. failures' \in 0..MaxOfAKind /\ failures <= failures'
  BY <1>1 DEF LoseLate, Trouble, TypeOK, AutosaveAssumption
<1>4. ~Calm /\ ~Calm'
  BY <1>0, <1>1, <1>2, <1>3 DEF CalmKeepsUp, Calm, TypeOK
<1>5. Pending' \subseteq Pending
  BY <1>0, <1>2 DEF Pending
<1>6. TypeOK' /\ NeverStuck' /\ SavedMeansHeld' /\ OneInFlight'
  BY <1>0, <1>1, <1>2, <1>3
     DEF TypeOK, NeverStuck, SavedMeansHeld, OneInFlight, Open
<1>7. StampsPast' /\ WorkAges' /\ CalmKeepsUp'
  BY <1>0, <1>1, <1>2, <1>4, <1>5
     DEF StampsPast, InThePast, WorkAges, OlderNowhere, CalmKeepsUp, Open
<1>8. QED
  BY <1>6, <1>7 DEF AutosaveInv

-----------------------------------------------------------------------------
(* The head of the queue is answered, or fails.                             *)

\* What is left when the head of the queue leaves.
LEMMA HeadLeaves ==
    ASSUME AutosaveInv, calls # << >>, calls' = Tail(calls),
           late' \subseteq Pending, \A x \in late' : x.pc \in Running,
           UNCHANGED <<page, valid, screen, offer, row, landed>>,
           ctl' \in Controller, ctl'.gen = ctl.gen, ctl'.saved <= ctl.gen,
           backup' \in Backups, ref' \in Refs, ref'.stamp <= row.stamp,
           ref'.banner # None => ref'.banner <= row.stamp,
           NoNewer(ref'.content, screen),
           Len(calls) = 2 /\ calls[2].attempt = 1 => NoNewer(ref'.content, calls[2].work),
           failures' \in 0..MaxOfAKind, UNCHANGED <<elsewhere, unloads>>
    PROVE  /\ TypeOK' /\ StampsPast' /\ WorkAges'
           /\ (Len(calls) = 1 \/ Len(calls) = 2) /\ Len(calls') = Len(calls) - 1
           /\ Len(calls') = 1 => calls'[1] = calls[2] /\ calls[2].pc = "sent"
           /\ calls' = << >> <=> Len(calls) = 1
           /\ DOMAIN calls = 1..Len(calls) /\ DOMAIN calls' = 1..Len(calls')
           /\ Len(calls') <= 2 /\ Len(calls') # 2
           /\ Len(calls) = 1 => Len(calls') = 0
<1> USE AutosaveAssumption
<1>1. TypeOK /\ OneInFlight /\ StampsPast /\ WorkAges
  BY DEF AutosaveInv
<1>2. calls \in Seq(Request) /\ (\A x \in Pending : x \in Request) /\ Len(calls) <= 2
  BY <1>1, Typed DEF OneInFlight
<1>3. /\ calls' \in Seq(Request) /\ Len(calls') = Len(calls) - 1
      /\ \A i \in DOMAIN calls' : i + 1 \in DOMAIN calls /\ calls'[i] = calls[i + 1]
  BY <1>2, QueueTail
<1>4. /\ Len(calls) = 1 \/ Len(calls) = 2
      /\ Len(calls) = 1 => Len(calls') = 0
      /\ Len(calls) = 2 => Len(calls') = 1
      /\ calls' = << >> <=> Len(calls) = 1
      /\ Len(calls') <= 2 /\ Len(calls') # 2
      /\ Len(calls') = 1 => calls'[1] = calls[2]
      /\ DOMAIN calls = 1..Len(calls) /\ DOMAIN calls' = 1..Len(calls')
  BY <1>2, QueueOfTwo, Zenon
<1>5. Pending' \subseteq Pending
  BY <1>3 DEF Pending
<1>6. late' \subseteq Request
  BY <1>2
<1>7. TypeOK'
  BY <1>1, <1>3, <1>6 DEF TypeOK, Backups, Refs
<1>8. \A i \in DOMAIN calls' : i = 1 /\ Len(calls) = 2 /\ calls'[1] = calls[2]
  <2>1. Len(calls') = 0 => DOMAIN calls' = {}
    BY <1>4
  <2>2. Len(calls') = 1 => DOMAIN calls' = {1}
    BY <1>4
  <2>3. QED
    BY <1>4, <2>1, <2>2, Zenon
<1>9. Len(calls) = 2 => calls[2].pc = "sent"
  <2>1. Len(calls) = 2 => 2 \in DOMAIN calls
    BY <1>4
  <2>2. QED
    BY <1>1, <2>1 DEF StampsPast
<1>10. StampsPast'
  <2>1. \A x \in Pending' : InThePast(x)'
    BY <1>1, <1>5 DEF StampsPast, InThePast
  <2>2. calls' # << >> => Len(calls) = 2 /\ calls'[1].pc = "sent"
    BY <1>4, <1>9
  <2>3. QED
    BY <1>8, <2>1, <2>2 DEF StampsPast
<1>11. WorkAges'
  <2>1. \A i \in DOMAIN calls' : calls'[i].attempt = 1 => NoNewer(ref'.content, calls'[i].work)
    BY <1>8
  <2>2. /\ ctl'.saved <= ctl'.gen /\ NoNewer(row.content, screen)
        /\ screen.name <= ctl'.gen /\ screen.config <= ctl'.gen
    BY <1>1 DEF WorkAges
  <2>3. \A x \in Pending' : OlderNowhere(x)'
    BY <1>1, <1>5 DEF WorkAges, OlderNowhere
  <2>4. QED
    BY <1>4, <2>1, <2>2, <2>3 DEF WorkAges
<1>12. QED
  BY <1>3, <1>4, <1>7, <1>9, <1>10, <1>11, Zenon

\* What the editor knows of the row stays good for the request behind the head.
LEMMA SecondKeeps ==
    ASSUME AutosaveInv
    PROVE  Len(calls) = 2 /\ calls[2].attempt = 1 =>
              NoNewer(ref.content, calls[2].work) /\ calls[2].work = screen /\ ~Open
<1>1. TypeOK /\ WorkAges
  BY DEF AutosaveInv
<1>2. Len(calls) = 2 => 2 \in DOMAIN calls
  BY <1>1, QueueShort DEF TypeOK
<1>3. QED
  BY <1>1, <1>2 DEF WorkAges

LEMMA FailStep == AutosaveInv /\ Fail => AutosaveInv'
<1> SUFFICES ASSUME AutosaveInv, Fail PROVE AutosaveInv'
  OBVIOUS
<1> USE AutosaveAssumption
<1> DEFINE r == Head(calls)
<1>0. /\ UNCHANGED <<page, valid, screen, ref, backup, offer, row, landed, elsewhere, unloads>>
      /\ calls # << >> /\ calls' = Tail(calls)
      /\ failures < MaxOfAKind /\ failures' = failures + 1
      /\ late' \in {late, late \cup AtServer}
  BY DEF Fail, Trouble
<1>1. TypeOK /\ NeverStuck /\ SavedMeansHeld /\ OneInFlight /\ StampsPast /\ WorkAges
  BY DEF AutosaveInv
<1>2. r = calls[1] /\ r \in Pending /\ 1 \in DOMAIN calls
  BY <1>0, <1>1, QueueTail DEF TypeOK, Pending
<1>3. late' \subseteq Pending /\ \A x \in late' : x.pc \in Running
  <2>1. AtServer \subseteq Pending /\ \A x \in AtServer : x.pc \in Running
    BY <1>1, AtServerPending
  <2>2. late \subseteq Pending /\ \A x \in late : x.pc \in Running
    BY <1>1 DEF Pending, StampsPast
  <2>3. QED
    BY <1>0, <2>1, <2>2
<1>4. failures' \in 0..MaxOfAKind /\ ~Calm'
  BY <1>0, <1>1 DEF TypeOK, Calm, AutosaveAssumption
<1>5. /\ ctl' \in Controller /\ ctl'.gen = ctl.gen /\ ctl'.saved = ctl.saved
      /\ Open => /\ ~ctl'.inFlight /\ ~ctl'.waiting /\ ctl'.retry
                 /\ ctl'.status \in {"retrying", "error"}
  <2>1. Open => ~r.terminal
    BY <1>0, <1>1, <1>2 DEF OneInFlight
  <2>2. ctl' \in IF r.terminal THEN {ctl}
                 ELSE IF ~Open THEN {[ctl EXCEPT !.inFlight = FALSE]}
                 ELSE {[ctl EXCEPT !.inFlight = FALSE, !.waiting = FALSE,
                                   !.retry = TRUE, !.status = s] :
                          s \in {"retrying", "error"}}
    BY DEF Fail
  <2> HIDE DEF r
  <2>3. CASE ~Open
    BY <1>1, <2>2, <2>3 DEF TypeOK, Controller
  <2>4. CASE Open
    <3>1. PICK s \in {"retrying", "error"} :
             ctl' = [ctl EXCEPT !.inFlight = FALSE, !.waiting = FALSE,
                                !.retry = TRUE, !.status = s]
      BY <2>1, <2>2, <2>4
    <3>2. QED
      BY <1>1, <3>1 DEF TypeOK, Controller, Status
  <2>5. QED
    BY <2>3, <2>4
<1>6. backup' \in Backups /\ ref' \in Refs
  BY <1>0, <1>1, BackupTyped DEF TypeOK, Refs
<1>7. /\ ref'.stamp <= row.stamp /\ (ref'.banner # None => ref'.banner <= row.stamp)
      /\ NoNewer(ref'.content, screen) /\ ctl'.saved <= ctl.gen
  BY <1>0, <1>1, <1>5 DEF StampsPast, WorkAges
<1>8. Len(calls) = 2 /\ calls[2].attempt = 1 => NoNewer(ref'.content, calls[2].work)
  BY <1>0, SecondKeeps
<1>9. /\ TypeOK' /\ StampsPast' /\ WorkAges'
      /\ Len(calls) \in {1, 2} /\ Len(calls') = Len(calls) - 1
      /\ calls' = << >> <=> Len(calls) = 1
  BY <1>0, <1>3, <1>4, <1>5, <1>6, <1>7, <1>8, HeadLeaves
<1>10. Open => Dirty(ctl)
  BY <1>0, <1>1, <1>9 DEF OneInFlight
<1>11. NeverStuck' /\ SavedMeansHeld'
  BY <1>0, <1>1, <1>5, <1>10 DEF NeverStuck, SavedMeansHeld, Open, Dirty
<1>12. OneInFlight'
  BY <1>0, <1>1, <1>5, <1>9, <1>10 DEF OneInFlight, Open
<1>13. CalmKeepsUp'
  BY <1>4 DEF CalmKeepsUp
<1>14. QED
  BY <1>9, <1>11, <1>12, <1>13 DEF AutosaveInv

\* What holds when the head of the queue is answered: it alone was under way
\* while the editor is open, and an accepted save is on the server.
LEMMA AnswerFacts ==
    ASSUME AutosaveInv, calls # << >>, calls[1].pc \notin Running
    PROVE  /\ Head(calls) = calls[1] /\ calls[1] \in Request /\ calls[1] \in Pending
           /\ 1 \in DOMAIN calls /\ Tail(calls) \in Seq(Request)
           /\ Len(calls) \in {1, 2} /\ Len(Tail(calls)) = Len(calls) - 1
           /\ row.stamp \in Nat /\ row.content \in Contents
           /\ Open <=> ~calls[1].terminal /\ Open
           /\ Open => /\ Len(calls) = 1 /\ Tail(calls) = << >>
                      /\ ctl.inFlight /\ Dirty(ctl)
           /\ calls[1].pc = "saved" => calls[1].gen \in landed
           /\ calls[1].gen \in Generations /\ calls[1].gen <= ctl.gen
<1>1. TypeOK /\ OneInFlight /\ StampsPast /\ WorkAges
  BY DEF AutosaveInv
<1>2. calls \in Seq(Request)
  BY <1>1 DEF TypeOK
<1>3. /\ Head(calls) = calls[1] /\ calls[1] \in Request /\ 1 \in DOMAIN calls
      /\ Tail(calls) \in Seq(Request) /\ Len(calls) \in Nat \ {0}
      /\ Len(Tail(calls)) = Len(calls) - 1
  BY <1>2, QueueTail
<1>4. calls[1] \in Pending
  BY <1>3 DEF Pending
<1>5. Len(calls) \in {1, 2}
  BY <1>1, <1>3 DEF OneInFlight
<1>6. Open => ~calls[1].terminal /\ Len(calls) = 1 /\ ctl.inFlight /\ Dirty(ctl)
  BY <1>1, <1>3 DEF OneInFlight
<1>7. Open => Tail(calls) = << >>
  <2>1. Tail(calls) = << >> <=> Len(Tail(calls)) = 0
    BY <1>3, QueueShort
  <2>2. Len(calls) = 1 => Len(Tail(calls)) = 0
    BY <1>3
  <2>3. QED
    BY <1>6, <2>1, <2>2
<1>8. calls[1].pc = "saved" => calls[1].gen \in landed
  BY <1>1 DEF StampsPast
<1>9. row.stamp \in Nat /\ row.content \in Contents
  BY <1>1, Typed
<1>10. calls[1].gen \in Generations /\ calls[1].gen <= ctl.gen
  BY <1>1, <1>3, <1>4, Typed DEF WorkAges, OlderNowhere
<1>11. QED
  BY <1>3, <1>4, <1>5, <1>6, <1>7, <1>8, <1>9, <1>10

\* A conflict: only the banner changes, and it takes another editor.
LEMMA RefusedKeeps ==
    ASSUME AutosaveInv, Answered, calls[1].pc = "refused", ~OnlyStampMoved(calls[1]), Refused,
           ctl' \in Controller, ctl'.gen = ctl.gen, ctl'.saved = ctl.saved,
           Open => ctl'.status = "conflict" /\ ~ctl'.waiting /\ ~ctl'.inFlight,
           calls' = Tail(calls), UNCHANGED backup
    PROVE  AutosaveInv'
<1>0. /\ UNCHANGED <<page, valid, screen, offer, late, row, landed, failures, elsewhere, unloads>>
      /\ calls # << >> /\ calls[1].pc \notin Running
  BY DEF Answered, history
<1>1. TypeOK /\ NeverStuck /\ SavedMeansHeld /\ OneInFlight /\ StampsPast /\ WorkAges
      /\ CalmKeepsUp
  BY DEF AutosaveInv
<1>2. /\ Len(calls) \in {1, 2} /\ row.stamp \in Nat /\ (Open => Len(calls) = 1 /\ Dirty(ctl))
  BY <1>0, AnswerFacts
<1>3. /\ ctl' \in Controller /\ ctl'.gen = ctl.gen /\ ctl'.saved = ctl.saved
      /\ Open => ctl'.status = "conflict" /\ ~ctl'.waiting /\ ~ctl'.inFlight
  OBVIOUS
<1>4. /\ ref' \in Refs /\ ref'.content = ref.content /\ ref'.stamp = ref.stamp
      /\ ref'.banner = row.stamp
  BY <1>1, <1>2 DEF Refused, TypeOK, Refs
<1>5. backup' \in Backups /\ late' \subseteq Pending /\ \A x \in late' : x.pc \in Running
  BY <1>0, <1>1, BackupTyped DEF Pending, StampsPast
<1>6. /\ ref'.stamp <= row.stamp /\ ref'.banner <= row.stamp
      /\ NoNewer(ref'.content, screen) /\ ctl'.saved <= ctl.gen
      /\ failures' \in 0..MaxOfAKind
  BY <1>0, <1>1, <1>2, <1>3, <1>4 DEF StampsPast, WorkAges, TypeOK
<1>7. Len(calls) = 2 /\ calls[2].attempt = 1 => NoNewer(ref'.content, calls[2].work)
  BY <1>4, SecondKeeps
<1>8. /\ TypeOK' /\ StampsPast' /\ WorkAges'
      /\ Len(calls') <= 2 /\ Len(calls') # 2 /\ (Len(calls) = 1 => Len(calls') = 0)
      /\ calls' = << >> <=> Len(calls) = 1
  BY <1>0, <1>3, <1>4, <1>5, <1>6, <1>7, HeadLeaves
<1>9. NeverStuck' /\ SavedMeansHeld'
  BY <1>0, <1>1, <1>2, <1>3 DEF NeverStuck, SavedMeansHeld, Open, Dirty
<1>10. OneInFlight'
  <2>1. Open => calls' = << >> /\ Len(calls') = IF ctl'.inFlight THEN 1 ELSE 0
    BY <1>2, <1>3, <1>8
  <2>2. Open' <=> Open
    BY <1>0 DEF Open
  <2>3. QED
    BY <1>0, <1>3, <1>8, <2>1, <2>2 DEF OneInFlight
<1>11. ~Calm
  BY <1>0, <1>1 DEF CalmKeepsUp, OnlyStampMoved
<1>12. CalmKeepsUp'
  BY <1>0, <1>11 DEF CalmKeepsUp, Calm
<1>13. QED
  BY <1>8, <1>9, <1>10, <1>12 DEF AutosaveInv

\* A request sent again.
Again(q, s) == [q EXCEPT !.stamp = s, !.attempt = 2, !.pc = "sent", !.at = 0]

LEMMA Restamped ==
    ASSUME NEW q \in Request, NEW s \in Nat
    PROVE  /\ Again(q, s) \in Request /\ Again(q, s).gen = q.gen /\ Again(q, s).work = q.work
           /\ Again(q, s).terminal = q.terminal /\ Again(q, s).stamp = s
           /\ Again(q, s).attempt = 2 /\ Again(q, s).pc = "sent" /\ Again(q, s).at = 0
<1> DEFINE a == [q EXCEPT !.stamp = s]
           b == [a EXCEPT !.attempt = 2]
           c == [b EXCEPT !.pc = "sent"]
<1>1. Again(q, s) = [c EXCEPT !.at = 0]
  BY DEF Again
<1>2. a \in Request /\ a.gen = q.gen /\ a.work = q.work /\ a.terminal = q.terminal /\ a.stamp = s
  BY DEF Request
<1> HIDE DEF a
<1>3. b \in Request /\ b.gen = a.gen /\ b.work = a.work /\ b.terminal = a.terminal
      /\ b.stamp = a.stamp /\ b.attempt = 2
  BY <1>2 DEF Request
<1> HIDE DEF b
<1>4. c \in Request /\ c.gen = b.gen /\ c.work = b.work /\ c.terminal = b.terminal
      /\ c.stamp = b.stamp /\ c.attempt = b.attempt /\ c.pc = "sent"
  BY <1>3 DEF Request, Steps, Running
<1> HIDE DEF c
<1>5. /\ [c EXCEPT !.at = 0] \in Request
      /\ [c EXCEPT !.at = 0].gen = c.gen /\ [c EXCEPT !.at = 0].work = c.work
      /\ [c EXCEPT !.at = 0].terminal = c.terminal /\ [c EXCEPT !.at = 0].stamp = c.stamp
      /\ [c EXCEPT !.at = 0].attempt = c.attempt /\ [c EXCEPT !.at = 0].pc = c.pc
      /\ [c EXCEPT !.at = 0].at = 0
  BY <1>4 DEF Request
<1>6. QED
  BY <1>1, <1>2, <1>3, <1>4, <1>5

\* Only the stamp moved: the request goes behind whatever is queued.
LEMMA ResentKeeps ==
    ASSUME AutosaveInv, Answered, calls[1].pc = "refused", OnlyStampMoved(calls[1]),
           Resent(calls[1])
    PROVE  AutosaveInv'
<1> DEFINE r == calls[1]
           t == Tail(calls)
<1>0. /\ UNCHANGED <<page, valid, screen, ctl, backup, offer, late, row, landed>>
      /\ UNCHANGED <<failures, elsewhere, unloads>>
      /\ calls # << >> /\ calls[1].pc \notin Running
  BY DEF Answered, Resent, history
<1>1. TypeOK /\ NeverStuck /\ SavedMeansHeld /\ OneInFlight /\ StampsPast /\ WorkAges
      /\ CalmKeepsUp
  BY DEF AutosaveInv
<1>2. r \in Request /\ r \in Pending /\ 1 \in DOMAIN calls /\ row.stamp \in Nat
  BY <1>0, AnswerFacts
<1>3. r.attempt = 1 /\ row.content = ref.content
  BY DEF OnlyStampMoved
<1>4. PICK n \in Request : n = Again(r, row.stamp)
  <2> HIDE DEF r
  <2>1. QED
    BY <1>2, Restamped
<1>5. /\ n.gen = r.gen /\ n.work = r.work /\ n.terminal = r.terminal
      /\ n.stamp = row.stamp /\ n.attempt = 2 /\ n.pc = "sent" /\ n.at = 0
  <2> HIDE DEF r
  <2>1. QED
    BY <1>2, <1>4, Restamped
<1>6. /\ ref' \in Refs /\ ref'.content = ref.content /\ ref'.stamp = row.stamp
      /\ ref'.banner = ref.banner
  BY <1>1, <1>2 DEF Resent, TypeOK, Refs
<1>7. /\ t \in Seq(Request) /\ Len(t) = Len(calls) - 1 /\ Len(t) \in Nat /\ Len(calls) \in Nat
      /\ \A i \in DOMAIN t : i + 1 \in DOMAIN calls /\ t[i] = calls[i + 1] /\ i + 1 # 1
      /\ DOMAIN t = 1..Len(t) /\ DOMAIN calls = 1..Len(calls)
      /\ t = << >> <=> Len(t) = 0
  <2>1. calls \in Seq(Request) /\ DOMAIN calls = 1..Len(calls) /\ Len(calls) \in Nat
    BY <1>1, QueueShort DEF TypeOK
  <2>2. /\ t \in Seq(Request) /\ Len(t) = Len(calls) - 1
        /\ \A i \in DOMAIN t : i + 1 \in DOMAIN calls /\ t[i] = calls[i + 1]
    BY <1>0, <2>1, QueueTail
  <2> HIDE DEF t
  <2>3. Len(t) \in Nat /\ DOMAIN t = 1..Len(t) /\ (t = << >> <=> Len(t) = 0)
    BY <2>2, QueueShort
  <2>4. \A i \in DOMAIN t : i + 1 # 1
    BY <2>3
  <2>5. QED
    BY <2>1, <2>2, <2>3, <2>4
<1>8. calls' = Append(t, n)
  BY <1>4 DEF Resent, Again
<1> HIDE DEF t
<1>9. /\ calls' \in Seq(Request) /\ calls' # << >> /\ Len(calls') = Len(t) + 1
      /\ calls'[Len(t) + 1] = n
      /\ \A i \in DOMAIN t : calls'[i] = t[i]
      /\ \A i \in DOMAIN calls' : i \in DOMAIN t \/ i = Len(t) + 1
      /\ Len(t) + 1 \in DOMAIN calls'
  BY <1>7, <1>8, QueueAppend
<1>10. Len(calls') = Len(calls) /\ calls'[Len(calls)] = n /\ Len(calls) \in DOMAIN calls'
  BY <1>7, <1>9
<1> HIDE DEF r
<1>11. \A i \in DOMAIN calls' :
          calls'[i] = n \/ \E j \in DOMAIN calls : j # 1 /\ calls'[i] = calls[j]
  BY <1>7, <1>9
<1>12. \A x \in Pending' : x = n \/ x \in Pending
  BY <1>0, <1>11 DEF Pending
<1>13. Len(calls) = 1 => calls'[1] = n
  BY <1>10
<1>14. Len(calls) = 2 => calls'[1] = calls[2] /\ calls'[2] = n /\ 2 \in DOMAIN calls
  <2> SUFFICES ASSUME Len(calls) = 2 PROVE calls'[1] = calls[2] /\ calls'[2] = n /\ 2 \in DOMAIN calls
    OBVIOUS
  <2>1. DOMAIN t = 1..1 /\ DOMAIN calls = 1..2
    BY <1>7
  <2>2. 1 \in DOMAIN t /\ 2 \in DOMAIN calls
    BY <2>1
  <2>3. t[1] = calls[1 + 1] /\ calls'[1] = t[1]
    BY <1>7, <1>9, <2>2
  <2>4. 1 + 1 = 2
    OBVIOUS
  <2>5. QED
    BY <1>10, <2>2, <2>3, <2>4
<1>15. Len(calls) \in {1, 2}
  BY <1>0, AnswerFacts
<1>16. TypeOK'
  BY <1>0, <1>1, <1>6, <1>9 DEF TypeOK, Refs
<1>17. NeverStuck' /\ SavedMeansHeld'
  BY <1>0, <1>1 DEF NeverStuck, SavedMeansHeld, Open
<1>18. OneInFlight'
  <2>1. Len(calls') <= 2 /\ (Len(calls') = 2 => calls'[1].terminal # calls'[2].terminal)
    <3>1. Len(calls) = 2 => calls[1].terminal # calls[2].terminal
      BY <1>1 DEF OneInFlight
    <3>2. Len(calls') <= 2
      BY <1>10, <1>15
    <3>3. QED
      BY <1>5, <1>10, <1>14, <3>1, <3>2 DEF r
  <2>2. Open => /\ Len(calls) = 1 /\ ctl.inFlight /\ Dirty(ctl) /\ ~r.terminal
    BY <1>0, AnswerFacts DEF r
  <2>3. Open' <=> Open
    BY <1>0 DEF Open
  <2>4. Open => Len(calls') = (IF ctl'.inFlight THEN 1 ELSE 0) /\ ~calls'[1].terminal
    BY <1>0, <1>5, <1>10, <1>13, <2>2
  <2>5. Open => Dirty(ctl')
    BY <1>0, <2>2 DEF Dirty
  <2>6. QED
    BY <1>0, <2>1, <2>3, <2>4, <2>5 DEF OneInFlight
<1>19. StampsPast'
  <2>1. \A x \in Pending' : InThePast(x)'
    <3>1. \A x \in Pending : InThePast(x)'
      BY <1>0, <1>1 DEF StampsPast, InThePast
    <3>2. InThePast(n)'
      BY <1>0, <1>2, <1>5 DEF InThePast
    <3>3. QED
      BY <1>12, <3>1, <3>2
  <2>2. \A i \in DOMAIN calls' : calls'[i].pc = "sent"
    BY <1>1, <1>5, <1>11 DEF StampsPast
  <2>3. calls'[1].pc = "sent"
    BY <1>1, <1>5, <1>13, <1>14, <1>15 DEF StampsPast
  <2>4. QED
    BY <1>0, <1>1, <1>2, <1>6, <2>1, <2>2, <2>3 DEF StampsPast
<1>20. WorkAges'
  <2>1. OlderNowhere(r) /\ NoNewer(ref.content, r.work)
    BY <1>1, <1>2, <1>3 DEF WorkAges, r
  <2>2. OlderNowhere(n)'
    BY <1>0, <1>3, <1>5, <2>1 DEF OlderNowhere
  <2>3. \A x \in Pending' : OlderNowhere(x)'
    <3>1. \A x \in Pending : OlderNowhere(x)'
      BY <1>0, <1>1 DEF WorkAges, OlderNowhere
    <3>2. QED
      BY <1>12, <2>2, <3>1
  <2>4. \A i \in DOMAIN calls' : calls'[i].attempt = 1 => NoNewer(ref.content, calls'[i].work)
    BY <1>1, <1>5, <1>11 DEF WorkAges
  <2>5. Len(calls') = 2 => calls'[2].attempt # 1
    BY <1>5, <1>10, <1>14
  <2>6. QED
    BY <1>0, <1>1, <1>6, <2>3, <2>4, <2>5 DEF WorkAges
<1>21. CalmKeepsUp'
  <2> SUFFICES ASSUME Calm PROVE CalmKeepsUp'
    BY <1>0 DEF CalmKeepsUp, Calm
  <2>1. /\ page # "closed" /\ late = {} /\ ref.banner = None /\ r.terminal
        /\ Len(calls) = 2 => calls[2].terminal
        /\ page = "left" /\ valid =>
              \/ ctl.gen \in landed
              \/ \E i \in DOMAIN calls : calls[i].terminal /\ calls[i].gen = ctl.gen
    BY <1>0, <1>1 DEF CalmKeepsUp, r
  <2>2. Len(calls) = 1
    <3>1. Len(calls) # 2
      BY <1>1, <2>1 DEF OneInFlight, r
    <3>2. QED
      BY <1>15, <3>1
  <2>3. calls'[1] = n /\ Len(calls') # 2 /\ 1 \in DOMAIN calls'
    <3>1. Len(calls') = 1
      BY <1>10, <2>2
    <3>2. QED
      BY <1>10, <1>13, <2>2, <3>1
  <2>4. DOMAIN calls = {1}
    BY <1>7, <2>2
  <2>5. page = "left" /\ valid =>
           \/ ctl.gen \in landed
           \/ \E i \in DOMAIN calls' : calls'[i].terminal /\ calls'[i].gen = ctl.gen
    BY <1>5, <2>1, <2>3, <2>4 DEF r
  <2>6. QED
    BY <1>0, <1>3, <1>5, <1>6, <2>1, <2>3, <2>5 DEF CalmKeepsUp
<1>22. QED
  BY <1>16, <1>17, <1>18, <1>19, <1>20, <1>21 DEF AutosaveInv

\* A save is accepted, and no other one follows.
LEMMA SavedKeeps ==
    ASSUME AutosaveInv, Answered, calls[1].pc = "saved", Saved, calls' = Tail(calls),
           ctl' \in Controller, ctl'.gen = ctl.gen,
           ctl'.saved = ctl.saved \/ ctl'.saved = calls[1].gen,
           Open => /\ ~ctl'.inFlight /\ ~ctl'.waiting
                   /\ \/ ctl'.status = "saved" /\ ctl'.saved = ctl'.gen
                      \/ ctl'.status = "error" /\ ctl'.saved # ctl'.gen,
           backup' \in Backups
    PROVE  AutosaveInv'
<1>0. /\ UNCHANGED <<page, valid, screen, offer, late, row, landed, failures, elsewhere, unloads>>
      /\ calls # << >> /\ calls[1].pc \notin Running
  BY DEF Answered, history
<1>1. TypeOK /\ NeverStuck /\ SavedMeansHeld /\ OneInFlight /\ StampsPast /\ WorkAges
      /\ CalmKeepsUp
  BY DEF AutosaveInv
<1>2. /\ Len(calls) \in {1, 2} /\ row.stamp \in Nat /\ row.content \in Contents
      /\ (Open => Len(calls) = 1) /\ calls[1].gen \in landed
      /\ calls[1].gen \in Generations /\ calls[1].gen <= ctl.gen
  BY <1>0, AnswerFacts
<1>3. /\ ref' \in Refs /\ ref'.content = row.content /\ ref'.stamp = row.stamp
      /\ ref'.banner = None
  BY <1>2 DEF Saved, Refs
<1>4. late' \subseteq Pending /\ failures' \in 0..MaxOfAKind /\ \A x \in late' : x.pc \in Running
  BY <1>0, <1>1 DEF Pending, TypeOK, StampsPast
<1>5. /\ ref'.stamp <= row.stamp /\ NoNewer(ref'.content, screen) /\ ctl'.saved <= ctl.gen
      /\ ctl'.saved \in landed
  BY <1>1, <1>2, <1>3 DEF WorkAges, SavedMeansHeld
<1>6. Len(calls) = 2 /\ calls[2].attempt = 1 => NoNewer(ref'.content, calls[2].work)
  BY <1>5, SecondKeeps
<1>7. /\ TypeOK' /\ StampsPast' /\ WorkAges'
      /\ Len(calls') <= 2 /\ Len(calls') # 2 /\ (Len(calls) = 1 => Len(calls') = 0)
      /\ calls' = << >> <=> Len(calls) = 1
      /\ Len(calls') = 1 => calls'[1] = calls[2] /\ calls[2].pc = "sent"
      /\ DOMAIN calls = 1..Len(calls) /\ DOMAIN calls' = 1..Len(calls')
      /\ Len(calls') = Len(calls) - 1
  BY <1>0, <1>3, <1>4, <1>5, <1>6, HeadLeaves
<1>8. NeverStuck' /\ SavedMeansHeld'
  BY <1>0, <1>5 DEF NeverStuck, SavedMeansHeld, Open, Dirty
<1>9. OneInFlight'
  <2>1. Open => calls' = << >> /\ Len(calls') = IF ctl'.inFlight THEN 1 ELSE 0
    BY <1>2, <1>7
  <2>2. Open' <=> Open
    BY <1>0 DEF Open
  <2>3. QED
    BY <1>0, <1>7, <2>1, <2>2 DEF OneInFlight
<1>10. CalmKeepsUp'
  <2> SUFFICES ASSUME Calm PROVE CalmKeepsUp'
    BY <1>0 DEF CalmKeepsUp, Calm
  <2>1. /\ page # "closed" /\ late = {}
        /\ Len(calls) = 2 => calls[2].terminal /\ calls[2].attempt = 1
        /\ page = "left" /\ valid =>
              \/ ctl.gen \in landed
              \/ \E i \in DOMAIN calls : calls[i].terminal /\ calls[i].gen = ctl.gen
    BY <1>0, <1>1 DEF CalmKeepsUp
  <2>2. calls' # << >> => /\ Len(calls) = 2 /\ calls'[1] = calls[2] /\ 1 \in DOMAIN calls'
                          /\ DOMAIN calls = {1, 2} /\ calls[2].pc = "sent"
    <3>1. calls' # << >> => Len(calls) = 2
      BY <1>2, <1>7
    <3>2. Len(calls) = 2 => Len(calls') = 1
      BY <1>7
    <3>3. Len(calls') = 1 => 1 \in DOMAIN calls'
      BY <1>7
    <3>4. Len(calls) = 2 => DOMAIN calls = {1, 2}
      BY <1>7
    <3>5. QED
      BY <1>7, <3>1, <3>2, <3>3, <3>4
  <2>3. calls' = << >> => DOMAIN calls = {1}
    BY <1>7
  <2>4. page = "left" /\ valid =>
           \/ ctl.gen \in landed
           \/ \E i \in DOMAIN calls' : calls'[i].terminal /\ calls'[i].gen = ctl.gen
    BY <1>2, <2>1, <2>2, <2>3
  <2>5. QED
    BY <1>0, <1>3, <1>7, <2>1, <2>2, <2>4 DEF CalmKeepsUp
<1>11. QED
  BY <1>7, <1>8, <1>9, <1>10 DEF AutosaveInv

\* A save is accepted while newer work waits: the next one goes out at once.
LEMMA SavedMoreKeeps ==
    ASSUME AutosaveInv, Answered, Open, calls[1].pc = "saved", Saved,
           ctl' \in Controller, ctl'.gen = ctl.gen, ctl'.saved = calls[1].gen,
           ctl'.inFlight, ctl'.status = "saving", ctl'.saved # ctl'.gen,
           NEW n \in Request, n.gen = ctl.gen, n.work = screen, n.stamp = row.stamp,
           ~n.terminal, n.attempt = 1, n.pc = "sent", n.at = 0,
           calls' = <<n>>, backup' \in Backups
    PROVE  AutosaveInv'
<1>0. /\ UNCHANGED <<page, valid, screen, offer, late, row, landed, failures, elsewhere, unloads>>
      /\ calls # << >> /\ calls[1].pc \notin Running
  BY DEF Answered, history
<1>1. TypeOK /\ OneInFlight /\ StampsPast /\ WorkAges /\ CalmKeepsUp
  BY DEF AutosaveInv
<1>2. /\ row.stamp \in Nat /\ row.content \in Contents
      /\ calls[1].gen \in landed /\ calls[1].gen \in Generations /\ calls[1].gen <= ctl.gen
  BY <1>0, AnswerFacts
<1>3. /\ calls' \in Seq(Request) /\ Len(calls') = 1 /\ calls' # << >>
      /\ DOMAIN calls' = {1} /\ calls'[1] = n
  OBVIOUS
<1>4. Pending' = {n} \cup late /\ late \subseteq Pending
  BY <1>0, <1>3 DEF Pending
<1>5. /\ ref' \in Refs /\ ref'.content = row.content /\ ref'.stamp = row.stamp
      /\ ref'.banner = None
  BY <1>2 DEF Saved, Refs
<1>6. TypeOK'
  BY <1>0, <1>1, <1>3, <1>5 DEF TypeOK, Backups, Refs
<1>7. NeverStuck' /\ SavedMeansHeld'
  BY <1>0, <1>2 DEF NeverStuck, SavedMeansHeld, Open, Dirty
<1>8. OneInFlight'
  BY <1>0, <1>3 DEF OneInFlight, Open, Dirty
<1>9. InThePast(n)' /\ OlderNowhere(n)'
  BY <1>0, <1>2, SaveKeeps
<1>10. StampsPast'
  <2>1. \A x \in Pending' : InThePast(x)'
    BY <1>0, <1>1, <1>4, <1>9 DEF StampsPast, InThePast
  <2>2. QED
    BY <1>0, <1>1, <1>2, <1>3, <1>5, <2>1 DEF StampsPast
<1>11. WorkAges'
  <2>1. NoNewer(row.content, screen)
    BY <1>1 DEF WorkAges
  <2>2. \A x \in late : OlderNowhere(x)'
    BY <1>0, <1>1, <1>4 DEF WorkAges, OlderNowhere
  <2>3. \A x \in Pending' : OlderNowhere(x)'
    BY <1>4, <1>9, <2>2
  <2>4. QED
    BY <1>0, <1>1, <1>2, <1>3, <1>5, <2>1, <2>3 DEF WorkAges
<1>12. CalmKeepsUp'
  BY <1>0, <1>1, <1>3, <1>5 DEF CalmKeepsUp, Calm, Open
<1>13. QED
  BY <1>6, <1>7, <1>8, <1>10, <1>11, <1>12 DEF AutosaveInv

\* The controller after an accepted save, a conflict, or neither.
LEMMA ControllerAfter ==
    ASSUME NEW c \in Controller, NEW r \in Request
    PROVE  /\ [c EXCEPT !.inFlight = FALSE] \in Controller
           /\ [c EXCEPT !.inFlight = FALSE].gen = c.gen
           /\ [c EXCEPT !.inFlight = FALSE].saved = c.saved
           /\ ~[c EXCEPT !.inFlight = FALSE].inFlight
           /\ Conflicted(c) \in Controller /\ Conflicted(c).gen = c.gen
           /\ Conflicted(c).saved = c.saved /\ Conflicted(c).inFlight = c.inFlight
           /\ ~Conflicted(c).waiting /\ Conflicted(c).status = "conflict"
           /\ CaughtUp(c, r) \in Controller /\ CaughtUp(c, r).gen = c.gen
           /\ CaughtUp(c, r).saved = r.gen /\ CaughtUp(c, r).inFlight = c.inFlight
<1>1. /\ [c EXCEPT !.inFlight = FALSE] \in Controller
      /\ [c EXCEPT !.inFlight = FALSE].gen = c.gen
      /\ [c EXCEPT !.inFlight = FALSE].saved = c.saved
      /\ ~[c EXCEPT !.inFlight = FALSE].inFlight
  BY DEF Controller
<1>2. /\ Conflicted(c) \in Controller /\ Conflicted(c).gen = c.gen
      /\ Conflicted(c).saved = c.saved /\ Conflicted(c).inFlight = c.inFlight
      /\ ~Conflicted(c).waiting /\ Conflicted(c).status = "conflict"
  BY DEF Controller, Conflicted, Status
<1>3. /\ CaughtUp(c, r) \in Controller /\ CaughtUp(c, r).gen = c.gen
      /\ CaughtUp(c, r).saved = r.gen /\ CaughtUp(c, r).inFlight = c.inFlight
  BY DEF Controller, CaughtUp, Request
<1>4. QED
  BY <1>1, <1>2, <1>3

\* The save after a save.
LEMMA AfterSaveStep ==
    ASSUME AutosaveInv, Answered, Open, calls[1].pc = "saved", Saved, NEW c \in Controller,
           c.gen = ctl.gen, c.saved = calls[1].gen, ~c.inFlight, AfterSave(c)
    PROVE  AutosaveInv'
<1> DEFINE s == [c EXCEPT !.status = "saving"]
           done == [c EXCEPT !.status = "saved", !.waiting = FALSE]
           more == [s EXCEPT !.inFlight = TRUE, !.status = "saving"]
           wrong == [s EXCEPT !.status = "error", !.waiting = FALSE]
<1>0. calls # << >> /\ calls[1].pc \notin Running
  BY DEF Answered
<1>1. TypeOK
  BY DEF AutosaveInv
<1>2. Tail(calls) = << >> /\ row.stamp \in Nat
  BY <1>0, AnswerFacts
<1>3. /\ s \in Controller /\ s.gen = c.gen /\ s.saved = c.saved /\ ~s.inFlight
  BY DEF Controller, Status
<1>4. /\ done \in Controller /\ done.gen = c.gen /\ done.saved = c.saved
      /\ ~done.inFlight /\ ~done.waiting /\ done.status = "saved"
  BY DEF Controller, Status
<1>5. backup \in Backups /\ None \in Backups /\ Backup \in Backups
  BY <1>1, BackupTyped DEF Backups
<1> HIDE DEF s, done
<1>6. CASE ~Dirty(c) /\ ctl' = done /\ calls' = Tail(calls) /\ backup' = None
  <2>1. c.gen = c.saved
    BY <1>6 DEF Dirty
  <2>2. QED
    BY <1>4, <1>5, <1>6, <2>1, SavedKeeps
<1>7. CASE Dirty(c) /\ ctl' = wrong /\ calls' = Tail(calls) /\ backup' = backup
  <2>1. c.gen # c.saved
    BY <1>7 DEF Dirty
  <2>2. /\ wrong \in Controller /\ wrong.gen = c.gen /\ wrong.saved = c.saved
        /\ ~wrong.inFlight /\ ~wrong.waiting /\ wrong.status = "error"
    BY <1>3 DEF Controller, Status
  <2> HIDE DEF wrong
  <2>3. QED
    BY <1>5, <1>7, <2>1, <2>2, SavedKeeps
<1>8. CASE /\ Dirty(c) /\ ctl' = more
           /\ calls' = Append(Tail(calls), SaveRequest(FALSE, row.stamp)) /\ backup' = Backup
  <2>1. c.gen # c.saved
    BY <1>8 DEF Dirty
  <2>2. /\ more \in Controller /\ more.gen = c.gen /\ more.saved = c.saved
        /\ more.inFlight /\ more.status = "saving"
    BY <1>3 DEF Controller, Status
  <2>3. PICK n \in Request : n = SaveRequest(FALSE, row.stamp)
    BY <1>1, <1>2, SaveTyped
  <2>4. /\ n.gen = ctl.gen /\ n.work = screen /\ n.stamp = row.stamp
        /\ ~n.terminal /\ n.attempt = 1 /\ n.pc = "sent" /\ n.at = 0
    BY <1>1, <1>2, <2>3, SaveTyped
  <2> HIDE DEF more
  <2>5. calls' = <<n>>
    <3>1. Append(<< >>, n) = <<n>>
      OBVIOUS
    <3>2. QED
      BY <1>2, <1>8, <2>3, <3>1
  <2>6. QED
    BY <1>5, <1>8, <2>1, <2>2, <2>4, <2>5, SavedMoreKeeps
<1>9. Dirty(s) <=> Dirty(c)
  BY <1>3 DEF Dirty
<1> HIDE DEF more, wrong
<1>10. \/ Dirty(c) /\ Run(s, Tail(calls), row.stamp, backup)
       \/ ~Dirty(c) /\ ctl' = done /\ calls' = Tail(calls) /\ backup' = None
  BY DEF AfterSave, s, done
<1>11. CASE Dirty(c) /\ Run(s, Tail(calls), row.stamp, backup)
  BY <1>3, <1>7, <1>8, <1>9, <1>11 DEF Run, more, wrong
<1>12. QED
  BY <1>6, <1>10, <1>11

LEMMA AnsweredStep == AutosaveInv /\ Answered => AutosaveInv'
<1> SUFFICES ASSUME AutosaveInv, Answered PROVE AutosaveInv'
  OBVIOUS
<1> DEFINE r == calls[1]
           idle == [ctl EXCEPT !.inFlight = FALSE]
           heard == ~r.terminal /\ Open
           over == IF r.terminal THEN ctl ELSE idle
<1>0. calls # << >> /\ calls[1].pc \notin Running
  BY DEF Answered
<1>1. TypeOK /\ ctl \in Controller
  BY DEF AutosaveInv, TypeOK
<1>2. r \in Request /\ (Open <=> heard)
  BY <1>0, AnswerFacts
<1>3. /\ idle \in Controller /\ idle.gen = ctl.gen /\ idle.saved = ctl.saved
      /\ ~idle.inFlight
  BY <1>1, <1>2, ControllerAfter
<1>4. \/ /\ r.pc = "saved" /\ Saved
         /\ IF heard THEN AfterSave(CaughtUp(idle, r))
            ELSE ctl' = over /\ calls' = Tail(calls) /\ UNCHANGED backup
      \/ r.pc = "refused" /\ OnlyStampMoved(r) /\ Resent(r)
      \/ /\ r.pc = "refused" /\ ~OnlyStampMoved(r) /\ Refused
         /\ ctl' = IF heard THEN Conflicted(idle) ELSE over
         /\ calls' = Tail(calls) /\ UNCHANGED backup
  BY DEF Answered
<1> HIDE DEF idle
<1>5. /\ over \in Controller /\ over.gen = ctl.gen /\ over.saved = ctl.saved
  BY <1>1, <1>3
<1>6. backup \in Backups
  BY <1>1, BackupTyped
<1>7. CASE r.pc = "saved" /\ Saved /\ heard /\ AfterSave(CaughtUp(idle, r))
  <2>1. PICK c \in Controller : c = CaughtUp(idle, r)
    BY <1>2, <1>3, ControllerAfter
  <2>2. /\ CaughtUp(idle, r).gen = ctl.gen /\ CaughtUp(idle, r).saved = r.gen
        /\ ~CaughtUp(idle, r).inFlight
    <3> HIDE DEF r
    <3>1. /\ CaughtUp(idle, r).gen = idle.gen /\ CaughtUp(idle, r).saved = r.gen
          /\ CaughtUp(idle, r).inFlight = idle.inFlight
      BY <1>2, <1>3, ControllerAfter, Zenon
    <3>2. QED
      BY <1>3, <3>1
  <2>3. c.gen = ctl.gen /\ c.saved = calls[1].gen /\ ~c.inFlight
    BY <2>1, <2>2
  <2>4. QED
    BY <1>2, <1>7, <2>1, <2>3, AfterSaveStep
<1>8. CASE /\ r.pc = "saved" /\ Saved /\ ~heard
           /\ ctl' = over /\ calls' = Tail(calls) /\ UNCHANGED backup
  BY <1>2, <1>5, <1>6, <1>8, SavedKeeps
<1>9. CASE r.pc = "refused" /\ OnlyStampMoved(r) /\ Resent(r)
  BY <1>9, ResentKeeps
<1>10. CASE /\ r.pc = "refused" /\ ~OnlyStampMoved(r) /\ Refused
            /\ ctl' = IF heard THEN Conflicted(idle) ELSE over
            /\ calls' = Tail(calls) /\ UNCHANGED backup
  <2>1. /\ Conflicted(idle) \in Controller /\ Conflicted(idle).gen = ctl.gen
        /\ Conflicted(idle).saved = ctl.saved /\ ~Conflicted(idle).inFlight
        /\ ~Conflicted(idle).waiting /\ Conflicted(idle).status = "conflict"
    BY <1>2, <1>3, ControllerAfter
  <2>2. /\ ctl' \in Controller /\ ctl'.gen = ctl.gen /\ ctl'.saved = ctl.saved
        /\ Open => ctl'.status = "conflict" /\ ~ctl'.waiting /\ ~ctl'.inFlight
    BY <1>2, <1>5, <1>10, <2>1
  <2>3. QED
    BY <1>10, <2>2, RefusedKeeps
<1>11. QED
  BY <1>4, <1>7, <1>8, <1>9, <1>10

-----------------------------------------------------------------------------
(* The theorems.                                                            *)

LEMMA InitInv == Init => AutosaveInv
<1> SUFFICES ASSUME Init PROVE AutosaveInv
  OBVIOUS
<1> USE AutosaveAssumption
<1>1. 0 \in Generations /\ \A x \in Generations : x \in Nat
  BY DEF Generations
<1>2. calls = << >> /\ Len(calls) = 0 /\ calls \in Seq(Request) /\ DOMAIN calls = {}
  BY DEF Init
<1>3. Pending = {}
  BY <1>2 DEF Pending, Init
<1>4. /\ screen = [name |-> 0, config |-> 0] /\ screen \in Work /\ screen \in Contents
      /\ row = [stamp |-> 0, content |-> screen]
      /\ ref = [stamp |-> 0, content |-> screen, banner |-> None]
  BY <1>1 DEF Init, Work, Contents
<1>5. TypeOK
  BY <1>1, <1>2, <1>4 DEF Init, TypeOK, Controller, Status
<1>6. NeverStuck /\ SavedMeansHeld
  BY DEF Init, NeverStuck, SavedMeansHeld, Open, Dirty
<1>7. OneInFlight
  BY <1>2 DEF Init, OneInFlight
<1>8. StampsPast
  BY <1>2, <1>3, <1>4 DEF Init, StampsPast
<1>9. WorkAges
  BY <1>2, <1>3, <1>4 DEF Init, WorkAges, NoNewer, Before
<1>10. CalmKeepsUp
  BY <1>2, <1>4 DEF Init, CalmKeepsUp
<1>11. QED
  BY <1>5, <1>6, <1>7, <1>8, <1>9, <1>10 DEF AutosaveInv

LEMMA StutterStep == AutosaveInv /\ UNCHANGED vars => AutosaveInv'
<1> SUFFICES ASSUME AutosaveInv, UNCHANGED vars PROVE AutosaveInv'
  OBVIOUS
<1>1. /\ UNCHANGED <<page, valid, screen, ctl, ref, calls, backup, offer, late, row, landed>>
      /\ UNCHANGED <<failures, elsewhere, unloads>> /\ Pending' = Pending
  BY DEF vars, tab, history, Pending
<1>2. /\ TypeOK /\ NeverStuck /\ SavedMeansHeld /\ OneInFlight /\ StampsPast
      /\ WorkAges /\ CalmKeepsUp
  BY DEF AutosaveInv
<1>3. TypeOK' /\ NeverStuck' /\ SavedMeansHeld' /\ OneInFlight'
  BY <1>1, <1>2 DEF TypeOK, NeverStuck, SavedMeansHeld, OneInFlight, Open
<1>4. StampsPast' /\ WorkAges' /\ CalmKeepsUp'
  BY <1>1, <1>2 DEF StampsPast, InThePast, WorkAges, OlderNowhere, CalmKeepsUp, Calm, Open
<1>5. QED
  BY <1>3, <1>4 DEF AutosaveInv

\* The editor's autosave keeps AutosaveInv: it is never stuck with unsaved
\* edits nobody was told of, "saved" means that the server received them, one
\* save is in flight, and while the row has the stamp that a request sent, or
\* the one its own name left, the request would replace nothing newer.
THEOREM AutosaveInvariant == Spec => []AutosaveInv
<1>1. AutosaveInv /\ [Next]_vars => AutosaveInv'
  <2> SUFFICES ASSUME AutosaveInv, [Next]_vars PROVE AutosaveInv'
    OBVIOUS
  <2>1. CASE Edit \/ KeepMine \/ Debounced \/ Retry
    BY <2>1, EditStep, KeepMineStep, DebouncedStep, RetryStep
  <2>2. CASE \E hidden \in BOOLEAN : Flush(hidden)
    BY <2>2, FlushStep
  <2>3. CASE \E stay \in BOOLEAN : Unload(stay)
    BY <2>3, UnloadStep
  <2>4. CASE Leave \/ Reopen
    BY <2>4, LeaveStep, ReopenStep
  <2>5. CASE Land \/ LandLate \/ LoseLate \/ Elsewhere
    BY <2>5, LandStep, LandLateStep, LoseLateStep, ElsewhereStep
  <2>6. CASE Answered \/ Fail
    BY <2>6, AnsweredStep, FailStep
  <2>7. CASE UNCHANGED vars
    BY <2>7, StutterStep
  <2>8. QED
    BY <2>1, <2>2, <2>3, <2>4, <2>5, <2>6, <2>7 DEF Next
<1>2. QED
  BY InitInv, <1>1, PTL DEF Spec

\* No statement of a request takes the row back.
LEMMA StatementForward ==
    ASSUME AutosaveInv, NEW r \in Pending, Statement(r)
    PROVE  NoneGoesBack
<1>1. TypeOK /\ OlderNowhere(r) /\ InThePast(r)
  BY DEF AutosaveInv, WorkAges, StampsPast
<1>2. /\ row.content \in Contents /\ row.stamp \in Nat /\ \A x \in Generations : x \in Nat
      /\ r \in Request /\ r.work \in Work /\ r.stamp \in Nat /\ r.at \in Nat
  BY <1>1, Typed
<1>3. \A part \in Generations \cup {Theirs} : Forward(part, part)
  BY <1>2 DEF Forward, Before
<1>4. /\ row.content.name \in Generations \cup {Theirs}
      /\ row.content.config \in Generations \cup {Theirs}
  BY <1>2 DEF Contents
<1>5. CASE UNCHANGED row
  BY <1>3, <1>4, <1>5 DEF NoneGoesBack
<1>6. CASE r.pc = "sent" /\ Accepted(r) /\ Write([row.content EXCEPT !.name = r.work.name])
  <2>1. /\ row'.content.name = r.work.name /\ row'.content.config = row.content.config
    BY <1>2, <1>6 DEF Write, Contents
  <2>2. Before(row.content.name, r.work.name)
    BY <1>1, <1>6 DEF OlderNowhere, NoNewer, Accepted
  <2>3. QED
    BY <1>3, <1>4, <2>1, <2>2 DEF NoneGoesBack, Forward
<1>7. CASE r.pc = "draft" /\ r.at = row.stamp /\ Write([row.content EXCEPT !.config = r.work.config])
  <2>1. /\ row'.content.config = r.work.config /\ row'.content.name = row.content.name
    BY <1>2, <1>7 DEF Write, Contents
  <2>2. CASE Overtaken(r)
    BY <1>3, <1>4, <1>7, <2>1, <2>2 DEF NoneGoesBack
  <2>3. CASE ~Overtaken(r)
    <3>1. Before(row.content.config, r.work.config)
      BY <1>1, <1>7, <2>3 DEF OlderNowhere, Overtaken
    <3>2. QED
      BY <1>3, <1>4, <2>1, <3>1 DEF NoneGoesBack, Forward
  <2>4. QED
    BY <2>2, <2>3
<1>8. QED
  BY <1>5, <1>6, <1>7 DEF Statement, SaveName, RereadName, SaveDraft

\* No request of a tab puts an older name of it over a newer one, and none an
\* older draft, unless another write came between its name and the SELECT after
\* it, whose stamp it then goes by: not a late request, not a beacon, not a save
\* that the terminal save has overtaken.
THEOREM NothingGoesBack == Spec => NeverBackwards
<1>1. AutosaveInv /\ [Next]_vars => [NoneGoesBack]_vars
  <2> SUFFICES ASSUME AutosaveInv, Next PROVE NoneGoesBack
    BY DEF vars
  <2>0. TypeOK /\ WorkAges /\ Theirs \notin Generations
    BY AutosaveAssumption DEF AutosaveInv, Generations
  <2>1. /\ row.content \in Contents
        /\ \A part \in Generations \cup {Theirs} : Forward(part, part) /\ Forward(part, Theirs)
    BY <2>0, Typed DEF Forward, Before
  <2>2. /\ row.content.name \in Generations \cup {Theirs}
        /\ row.content.config \in Generations \cup {Theirs}
    BY <2>1 DEF Contents
  <2>3. CASE UNCHANGED row
    BY <2>1, <2>2, <2>3 DEF NoneGoesBack
  <2>4. CASE Land
    <3>1. calls[1] \in Pending
      BY <2>0, <2>4, QueueTail DEF Land, TypeOK, Pending
    <3>2. QED
      BY <2>4, <3>1, StatementForward DEF Land
  <2>5. CASE LandLate
    BY <2>5, StatementForward DEF LandLate, Pending
  <2>6. CASE Elsewhere
    <3>1. \/ row'.content = [row.content EXCEPT !.name = Theirs]
          \/ row'.content = [row.content EXCEPT !.config = Theirs]
          \/ row'.content = row.content
      BY <2>6 DEF Elsewhere, Write
    <3>2. /\ row'.content.name = row.content.name \/ row'.content.name = Theirs
          /\ row'.content.config = row.content.config \/ row'.content.config = Theirs
      BY <2>1, <3>1 DEF Contents
    <3>3. QED
      BY <2>1, <2>2, <3>2 DEF NoneGoesBack
  <2>7. CASE ~(Land \/ LandLate \/ Elsewhere)
    <3>1. UNCHANGED row
      BY <2>7 DEF Next, Edit, KeepMine, Debounced, Retry, Flush, Leave, Unload, Reopen,
                  LoseLate, Answered, Fail
    <3>2. QED
      BY <2>3, <3>1
  <2>8. QED
    BY <2>4, <2>5, <2>6, <2>7
<1>2. QED
  BY AutosaveInvariant, <1>1, PTL DEF Spec, NeverBackwards

\* Leaving the editor saves the last edits, when no call fails, nobody else
\* writes and no beacon went out before.
THEOREM LeavingSavesWork == Spec => []LeavingSaves
<1>1. AutosaveInv => LeavingSaves
  <2> SUFFICES ASSUME AutosaveInv, page = "left", calls = << >>, valid, Calm
               PROVE  ctl.gen \in landed
    BY DEF LeavingSaves
  <2>1. DOMAIN calls = {}
    OBVIOUS
  <2>2. CalmKeepsUp
    BY DEF AutosaveInv
  <2>3. QED
    BY <2>1, <2>2 DEF CalmKeepsUp
<1>2. QED
  BY AutosaveInvariant, <1>1, PTL

=============================================================================
