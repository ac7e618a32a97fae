------------------------ MODULE FormLifecycleProofs ------------------------
(***************************************************************************)
(* LifecycleInv is inductive.  A step changes the row, stamping it afresh,  *)
(* and the call of one client; or the view and the call of one client.      *)
(* OneClientStep and WriteStep say what such a step owes the other clients  *)
(* - nothing: a fresh stamp is in nobody's hands - so that the lemma of     *)
(* each action is about its own client alone.                               *)
(***************************************************************************)
EXTENDS FormLifecycle, TLAPS

\* What every step starts from.
Before ==
    /\ LifecycleInv
    /\ NoStamp \notin Stamps
    /\ NoForm \notin Form
    /\ NoDraft \notin SUBSET Edits
    /\ NoVersion \notin SUBSET Edits

\* A row with a stamp that no client holds leaves what they know alone.
LEMMA FreshStamp ==
    ASSUME NEW r, NEW r2, NEW v, NEW k, NEW stamps,
           StampsIssued(stamps, v, k), ClientKnows(r, v, k),
           r2.stamp \notin stamps, r2.stamp # NoStamp,
           k.seen # NoForm \/ k.pc \notin {"publish", "unchanged", "discard", "revert", "conflict"}
    PROVE  ClientKnows(r2, v, k)
  BY DEF StampsIssued, ClientKnows

\* The row stays; client c's view becomes v and its call becomes k.
LEMMA OneClientStep ==
    ASSUME Before, NEW c \in Clients, NEW v \in View, NEW k \in Call,
           CallShape(k), StampsIssued(issued, v, k),
           view' = [view EXCEPT ![c] = v], call' = [call EXCEPT ![c] = k],
           UNCHANGED <<row, issued, lost, destLost>>,
           slips \subseteq slips', slips' \subseteq Slips,
           slips' = {} => ClientKnows(row, v, k)
    PROVE  LifecycleInv'
<1>1. view' \in [Clients -> View] /\ call' \in [Clients -> Call]
  BY DEF Before, LifecycleInv, TypeOK
<1>2. view'[c] = v /\ call'[c] = k
  BY DEF Before, LifecycleInv, TypeOK
<1>3. \A d \in Clients : d # c => view'[d] = view[d] /\ call'[d] = call[d]
  BY DEF Before, LifecycleInv, TypeOK
<1>4. TypeOK'
  <2>1. \A d \in Clients : CallShape(call'[d])
    BY <1>2, <1>3 DEF Before, LifecycleInv, TypeOK
  <2>2. QED
    BY <1>1, <2>1 DEF Before, LifecycleInv, TypeOK, CallShape
<1>5. \A d \in Clients : StampsIssued(issued', view'[d], call'[d])
  BY <1>2, <1>3 DEF Before, LifecycleInv
<1>6. slips' = {} => \A d \in Clients : ClientKnows(row', view'[d], call'[d])
  BY <1>2, <1>3 DEF Before, LifecycleInv
<1>7. QED
  BY <1>4, <1>5, <1>6 DEF Before, LifecycleInv

\* The row becomes r, stamped t; client c's call becomes k.
LEMMA WriteStep ==
    ASSUME Before, NEW c \in Clients, NEW r \in Form, NEW t \in Stamps, NEW k \in Call,
           CallShape(k), StampsIssued(issued \cup {t}, view[c], k), r.stamp = t,
           row' = r, issued' = issued \cup {t}, call' = [call EXCEPT ![c] = k],
           UNCHANGED view,
           lost' \subseteq Edits, destLost' \in BOOLEAN,
           slips \subseteq slips', slips' \subseteq Slips,
           t \in issued => slips' # {},
           slips' = {} => ClientKnows(r, view[c], k) /\ lost' = {} /\ ~destLost'
    PROVE  LifecycleInv'
<1>1. call' \in [Clients -> Call] /\ call'[c] = k
  BY DEF Before, LifecycleInv, TypeOK
<1>2. \A d \in Clients : d # c => call'[d] = call[d]
  BY DEF Before, LifecycleInv, TypeOK
<1>3. TypeOK'
  <2>1. \A d \in Clients : CallShape(call'[d])
    BY <1>1, <1>2 DEF Before, LifecycleInv, TypeOK
  <2>2. QED
    BY <1>1, <2>1 DEF Before, LifecycleInv, TypeOK, CallShape
<1>4. \A d \in Clients : StampsIssued(issued', view'[d], call'[d])
  BY <1>1, <1>2 DEF Before, LifecycleInv, StampsIssued
<1>5. slips' = {} => \A d \in Clients : ClientKnows(row', view'[d], call'[d])
  <2>1. SUFFICES ASSUME slips' = {}, NEW d \in Clients, d # c
                 PROVE  ClientKnows(r, view[d], call[d])
    BY <1>1, <1>2
  <2>2. ClientKnows(row, view[d], call[d]) /\ StampsIssued(issued, view[d], call[d])
    BY <2>1 DEF Before, LifecycleInv
  <2>3. t \notin issued /\ t # NoStamp
    BY <2>1 DEF Before
  <2>4. call[d].seen # NoForm
        \/ call[d].pc \notin {"publish", "unchanged", "discard", "revert", "conflict"}
    BY DEF Before, LifecycleInv, TypeOK, CallShape
  <2>5. QED
    BY <2>2, <2>3, <2>4, FreshStamp
<1>6. QED
  BY <1>3, <1>4, <1>5 DEF LifecycleInv

-----------------------------------------------------------------------------
(* The calls a step can leave behind, field by field.                       *)

\* A call that is over, or was refused, or waits for its answer.
LEMMA RefusedCall ==
    ASSUME Before, NEW pc \in Steps, NEW sent \in SUBSET Edits, NEW tries \in Nat,
           NEW k, k = Refused(pc, sent, tries)
    PROVE  /\ k \in Call
           /\ k.pc = pc /\ k.stamp = NoStamp /\ k.at = NoStamp /\ k.sent = sent
           /\ k.seen = NoForm /\ k.tries = tries
  BY Zenon DEF Refused, NoCall, Call, Steps

LEMMA NoCallFields ==
    ASSUME Before
    PROVE  /\ NoCall \in Call
           /\ NoCall.pc = "idle" /\ NoCall.stamp = NoStamp /\ NoCall.at = NoStamp
           /\ NoCall.sent = {} /\ NoCall.seen = NoForm /\ NoCall.tries = 0
  BY DEF NoCall, Call, Steps

LEMMA AnsweringCall ==
    ASSUME Before, NEW pc \in Steps, NEW at \in Stamps, NEW c,
           NEW k, k = Answering(c, pc, at), call[c].stamp # NoStamp
    PROVE  /\ k \in Call
           /\ k.pc = pc /\ k.stamp = NoStamp /\ k.at = at /\ k.sent = {}
           /\ k.seen = NoForm /\ k.tries = 0
  BY DEF Answering, NoCall, Call, Steps

LEMMA SavingCall ==
    ASSUME Before, NEW c, call[c].tries \in Nat, Body(c) \in SUBSET Edits,
           NEW pc \in Steps, NEW at \in Stamps, NEW s \in {NoStamp} \cup Stamps,
           NEW k, k = SaveRequest(c, s, at, pc)
    PROVE  /\ k \in Call
           /\ k.pc = pc /\ k.stamp = s /\ k.at = at /\ k.sent = Body(c)
           /\ k.seen = NoForm /\ k.tries = call[c].tries
  BY DEF SaveRequest, NoCall, Call, Steps

LEMMA ReadingCall ==
    ASSUME Before, NEW c, call[c].tries \in Nat, NEW seen \in Form,
           NEW pc \in Steps, NEW s \in {NoStamp} \cup Stamps, row.stamp \in Stamps,
           NEW k, k = ReadRow(c, seen, s, pc)
    PROVE  /\ k \in Call
           /\ k.pc = pc /\ k.stamp = s /\ k.at = row.stamp /\ k.sent = {}
           /\ k.seen = seen /\ k.tries = call[c].tries
  BY DEF ReadRow, NoCall, Call, Steps

\* A client that holds what it knows may end its call.
LEMMA EndedOk ==
    ASSUME Before, NEW r, NEW v, NEW stamps, v.stamp \in stamps
    PROVE  /\ CallShape(NoCall)
           /\ StampsIssued(stamps, v, NoCall)
           /\ (v.stamp = r.stamp => Content(r) \subseteq v.screen \cup v.waived)
                /\ v.saved \subseteq v.screen \cup v.waived
              => ClientKnows(r, v, NoCall)
  BY NoCallFields DEF CallShape, StampsIssued, ClientKnows

\* What Before says of one client.
LEMMA Client ==
    ASSUME Before, NEW c \in Clients
    PROVE  /\ row \in Form /\ row.stamp \in Stamps /\ row.stamp \in issued
           /\ view[c] \in View /\ call[c] \in Call /\ CallShape(call[c])
           /\ view[c].screen \subseteq Edits /\ view[c].saved \subseteq Edits
           /\ view[c].waived \subseteq Edits /\ view[c].stamp \in Stamps
           /\ call[c].tries \in Nat /\ call[c].sent \subseteq Edits
           /\ call[c].stamp \in {NoStamp} \cup Stamps
           /\ call[c].at \in {NoStamp} \cup Stamps
           /\ StampsIssued(issued, view[c], call[c])
           /\ slips = {} => ClientKnows(row, view[c], call[c]) /\ lost = {} /\ ~destLost
           /\ lost \subseteq Edits /\ destLost \in BOOLEAN /\ slips \subseteq Slips
           /\ view = [view EXCEPT ![c] = view[c]] /\ call = [call EXCEPT ![c] = call[c]]
<1>1. row \in Form /\ view[c] \in View /\ call[c] \in Call /\ CallShape(call[c])
  BY DEF Before, LifecycleInv, TypeOK
<1>2. row.stamp \in Stamps
  BY <1>1 DEF Form
<1>3. /\ view[c].screen \subseteq Edits /\ view[c].saved \subseteq Edits
      /\ view[c].waived \subseteq Edits /\ view[c].stamp \in Stamps
  BY <1>1 DEF View
<1>4. /\ call[c].tries \in Nat /\ call[c].sent \subseteq Edits
      /\ call[c].stamp \in {NoStamp} \cup Stamps
      /\ call[c].at \in {NoStamp} \cup Stamps
  BY <1>1 DEF Call
<1>5. view = [view EXCEPT ![c] = view[c]] /\ call = [call EXCEPT ![c] = call[c]]
  BY DEF Before, LifecycleInv, TypeOK
<1>6. QED
  BY <1>1, <1>2, <1>3, <1>4, <1>5 DEF Before, LifecycleInv, TypeOK


-----------------------------------------------------------------------------
(* One lemma per action.                                                    *)

LEMMA TypeKeeps ==
    ASSUME Before, NEW c \in Clients, Type(c)
    PROVE  LifecycleInv'
<1>1. PICK e \in Edits : view' = [view EXCEPT ![c] =
                            [view[c] EXCEPT !.screen = view[c].screen \cup {e}]]
  BY DEF Type, Show
<1> DEFINE v == [view[c] EXCEPT !.screen = view[c].screen \cup {e}]
<1>2. /\ v \in View
      /\ v.screen = view[c].screen \cup {e} /\ v.saved = view[c].saved
      /\ v.stamp = view[c].stamp /\ v.waived = view[c].waived
  BY Client DEF View
<1> HIDE DEF v
<1>3. StampsIssued(issued, v, call[c])
  BY <1>2, Client DEF StampsIssued
<1>4. slips = {} => ClientKnows(row, v, call[c])
  BY <1>2, Client DEF ClientKnows
<1>5. view' = [view EXCEPT ![c] = v]
  BY <1>1 DEF v
<1>6. QED
  BY <1>2, <1>3, <1>4, <1>5, Client, OneClientStep DEF Type

LEMMA LoadKeeps ==
    ASSUME Before, NEW c \in Clients, Load(c)
    PROVE  LifecycleInv'
<1> DEFINE v == [screen |-> Content(row), saved |-> Content(row),
                 stamp |-> row.stamp, waived |-> {}]
<1>1. /\ v \in View
      /\ v.screen = Content(row) /\ v.saved = Content(row)
      /\ v.stamp = row.stamp /\ v.waived = {}
  BY Client DEF View, Content, Form
<1> HIDE DEF v
<1>2. StampsIssued(issued, v, call[c])
  BY <1>1, Client DEF StampsIssued
<1>3. slips = {} => ClientKnows(row, v, call[c])
  BY <1>1, Client, NoCallFields DEF ClientKnows, Load, Idle
<1>4. view' = [view EXCEPT ![c] = v]
  BY DEF Load, Show, v
<1>5. QED
  BY <1>1, <1>2, <1>3, <1>4, Client, OneClientStep DEF Load

\* The fields of a row that moves its stamp only.
LEMMA StampedRow ==
    ASSUME Before, NEW r \in Form, NEW t \in Stamps, NEW r2, r2 = [r EXCEPT !.stamp = t]
    PROVE  /\ r2 \in Form /\ r2.stamp = t /\ Content(r2) = Content(r)
           /\ r2.live = r.live /\ r2.draft = r.draft
  BY DEF Form, Content

LEMMA TouchKeeps ==
    ASSUME Before, NEW t \in Stamps, Touch(t)
    PROVE  LifecycleInv'
<1> DEFINE r == [row EXCEPT !.stamp = t]
<1>1. row \in Form
  BY DEF Before, LifecycleInv, TypeOK
<1>2. r \in Form /\ r.stamp = t
  BY <1>1, StampedRow
<1> HIDE DEF r
<1>3. row' = r
  BY DEF Touch, r
<1>4. TypeOK'
  BY <1>2, <1>3 DEF Touch, Before, LifecycleInv, TypeOK, Slips
<1>5. row'.stamp \in issued' /\ \A d \in Clients : StampsIssued(issued', view'[d], call'[d])
  BY <1>2, <1>3 DEF Touch, Before, LifecycleInv, StampsIssued
<1>6. ASSUME slips' = {}, NEW d \in Clients
      PROVE  ClientKnows(r, view[d], call[d])
  <2>1. slips = {} /\ t \notin issued /\ t # NoStamp
    BY <1>6 DEF Touch, Before
  <2>2. call[d].seen # NoForm
        \/ call[d].pc \notin {"publish", "unchanged", "discard", "revert", "conflict"}
    BY Client DEF CallShape, Before
  <2>3. QED
    BY <1>2, <2>1, <2>2, Client, FreshStamp
<1>7. slips' = {} => slips = {}
  BY DEF Touch
<1>8. QED
  BY <1>3, <1>4, <1>5, <1>6, <1>7 DEF Touch, LifecycleInv, Before

-----------------------------------------------------------------------------
(* The save.                                                                *)

LEMMA BodyType ==
    ASSUME Before, NEW c \in Clients
    PROVE  /\ Body(c) \in SUBSET Edits
           /\ slips = {} => /\ Body(c) \subseteq view[c].screen
                            /\ call[c].pc \in {"idle", "saveAgain"} =>
                                 view[c].saved \subseteq Body(c) \cup view[c].waived
                            /\ call[c].pc \in {"idle", "saveAgain"}
                               /\ row.stamp = view[c].stamp =>
                                 Content(row) \subseteq Body(c) \cup view[c].waived
  BY Client DEF Body, ClientKnows

\* What a landed write of client c adds to slips.
LEMMA LandedSlips ==
    ASSUME Before, NEW f, NEW s, NEW at, NEW t, NEW c, Write(c, f, s, at, t)
    PROVE  /\ slips \subseteq slips' /\ slips' \subseteq Slips
           /\ t \in issued => slips' # {}
           /\ slips' = {} => slips = {} /\ (s = NoStamp => row.stamp = at)
  BY DEF Write, SlipsOfWrite, Slips, Before, LifecycleInv, TypeOK

LEMMA SaveNameKeeps ==
    ASSUME Before, NEW c \in Clients, NEW s \in {view[c].stamp, NoStamp},
           NEW t \in Stamps, SaveName(c, s, t)
    PROVE  LifecycleInv'
<1>1. s \in {NoStamp} \cup Stamps /\ s \in {NoStamp} \cup issued
  BY Client DEF StampsIssued
<1>2. CASE GuardPasses(s)
  <2> DEFINE r == [row EXCEPT !.stamp = t]
             k == SaveRequest(c, s, t, "renamed")
  <2>1. r \in Form /\ r.stamp = t /\ Content(r) = Content(row)
    BY Client, StampedRow
  <2>2. /\ k \in Call /\ k.pc = "renamed" /\ k.stamp = s /\ k.at = t
        /\ k.sent = Body(c) /\ k.seen = NoForm
    BY <1>1, Client, BodyType, SavingCall DEF Steps
  <2>3. row' = r /\ call' = [call EXCEPT ![c] = k] /\ Write(c, row, s, view[c].stamp, t)
        /\ issued' = issued \cup {t} /\ UNCHANGED <<view, lost, destLost>>
    BY <1>2 DEF SaveName, Write, Goto
  <2> HIDE DEF r, k
  <2>4. CallShape(k) /\ StampsIssued(issued \cup {t}, view[c], k)
    BY <1>1, <2>2, Client DEF CallShape, StampsIssued
  <2>5. slips' = {} => ClientKnows(r, view[c], k) /\ lost' = {} /\ ~destLost'
    <3>1. SUFFICES ASSUME slips' = {} PROVE ClientKnows(r, view[c], k)
      BY <2>3, Client, LandedSlips
    <3>2. slips = {} /\ t \notin issued /\ row.stamp = view[c].stamp
      BY <1>2, <2>3, <3>1, LandedSlips DEF GuardPasses
    <3>3. QED
      BY <2>1, <2>2, <3>2, BodyType, Client DEF ClientKnows, StampsIssued, SaveName
  <2>6. QED
    BY <2>1, <2>2, <2>3, <2>4, <2>5, Client, LandedSlips, WriteStep
<1>3. CASE ~GuardPasses(s)
  <2> DEFINE k == Refused("saveRefused", Body(c), call[c].tries)
  <2>1. /\ k \in Call /\ k.pc = "saveRefused" /\ k.stamp = NoStamp /\ k.at = NoStamp
        /\ k.sent = Body(c) /\ k.seen = NoForm
    BY Client, BodyType, RefusedCall DEF Steps
  <2>2. call' = [call EXCEPT ![c] = k]
        /\ UNCHANGED <<row, view, issued, lost, destLost, slips>>
    BY <1>3 DEF SaveName, Goto
  <2> HIDE DEF k
  <2>3. CallShape(k) /\ StampsIssued(issued, view[c], k)
    BY <2>1, Client DEF CallShape, StampsIssued
  <2>4. slips = {} => ClientKnows(row, view[c], k)
    BY <2>1, BodyType, Client DEF ClientKnows, SaveName
  <2>5. QED
    BY <2>1, <2>2, <2>3, <2>4, Client, OneClientStep
<1>4. QED
  BY <1>2, <1>3

\* A refused save keeps its body and goes to its answer.
LEMMA RefusedSaveKeeps ==
    ASSUME Before, NEW c \in Clients, call[c].pc = "draft",
           call' = [call EXCEPT ![c] = Refused("saveRefused", call[c].sent, call[c].tries)],
           UNCHANGED <<row, view, issued, lost, destLost, slips>>
    PROVE  LifecycleInv'
<1> DEFINE k == Refused("saveRefused", call[c].sent, call[c].tries)
<1>1. /\ k \in Call /\ k.pc = "saveRefused" /\ k.stamp = NoStamp /\ k.at = NoStamp
      /\ k.sent = call[c].sent /\ k.seen = NoForm
  BY Client, RefusedCall DEF Steps
<1>2. call' = [call EXCEPT ![c] = k]
  OBVIOUS
<1> HIDE DEF k
<1>3. CallShape(k) /\ StampsIssued(issued, view[c], k)
  BY <1>1, Client DEF CallShape, StampsIssued
<1>4. slips = {} => ClientKnows(row, view[c], k)
  BY <1>1, Client DEF ClientKnows
<1>5. QED
  BY <1>1, <1>2, <1>3, <1>4, Client, OneClientStep

LEMMA RereadNameKeeps ==
    ASSUME Before, NEW c \in Clients, RereadName(c)
    PROVE  LifecycleInv'
<1> DEFINE s == IF call[c].stamp = NoStamp THEN NoStamp ELSE row.stamp
           k == [call[c] EXCEPT !.pc = "draft", !.stamp = s]
<1>1. s \in {NoStamp, row.stamp}
  OBVIOUS
<1> HIDE DEF s
<1>2. /\ k \in Call /\ k.pc = "draft" /\ k.stamp = s /\ k.at = call[c].at
      /\ k.sent = call[c].sent /\ k.seen = call[c].seen
  BY <1>1, Client DEF Call, Steps
<1>3. call' = [call EXCEPT ![c] = k]
  BY DEF RereadName, Goto, s
<1> HIDE DEF k
<1>4. CallShape(k) /\ StampsIssued(issued, view[c], k)
  BY <1>1, <1>2, Client DEF CallShape, StampsIssued
<1>5. /\ slips \subseteq slips' /\ slips' \subseteq Slips
      /\ slips' = {} => slips = {} /\ row.stamp = call[c].at
  BY Client DEF RereadName, Slips
<1>6. slips' = {} => ClientKnows(row, view[c], k)
  BY <1>1, <1>2, <1>5, Client DEF ClientKnows, RereadName
<1>7. QED
  BY <1>2, <1>3, <1>4, <1>5, <1>6, Client, OneClientStep DEF RereadName

LEMMA SaveConfigOnlyKeeps ==
    ASSUME Before, NEW c \in Clients, NEW s \in {view[c].stamp, NoStamp},
           SaveConfigOnly(c, s)
    PROVE  LifecycleInv'
<1>1. s \in {NoStamp} \cup Stamps /\ s \in {NoStamp} \cup issued
  BY Client DEF StampsIssued
<1> DEFINE k == SaveRequest(c, s, view[c].stamp, "draft")
<1>2. /\ k \in Call /\ k.pc = "draft" /\ k.stamp = s /\ k.at = view[c].stamp
      /\ k.sent = Body(c) /\ k.seen = NoForm
  BY <1>1, Client, BodyType, SavingCall DEF Steps
<1>3. call' = [call EXCEPT ![c] = k]
  BY DEF SaveConfigOnly, Goto
<1> HIDE DEF k
<1>4. CallShape(k) /\ StampsIssued(issued, view[c], k)
  BY <1>1, <1>2, Client DEF CallShape, StampsIssued
<1>5. slips = {} => ClientKnows(row, view[c], k)
  BY <1>2, BodyType, Client DEF ClientKnows, SaveConfigOnly, Idle
<1>6. QED
  BY <1>2, <1>3, <1>4, <1>5, Client, OneClientStep DEF SaveConfigOnly

\* A call that wrote goes on to its answer, or is over when it sent no stamp.
LEMMA AnsweringOk ==
    ASSUME Before, NEW c \in Clients, NEW t \in Stamps, NEW r \in Form, r.stamp = t,
           NEW pc \in {"saved", "published", "discarded", "reverted"},
           NEW k, k = Answering(c, pc, t)
    PROVE  /\ k \in Call /\ CallShape(k)
           /\ StampsIssued(issued \cup {t}, view[c], k)
           /\ /\ slips = {} /\ t \notin issued
              /\ pc = "saved" => Content(r) \subseteq view[c].screen
              /\ pc = "published" /\ call[c].stamp # NoStamp =>
                    Content(r) \subseteq view[c].screen /\ view[c].waived = {}
              => ClientKnows(r, view[c], k)
<1>1. CASE call[c].stamp = NoStamp
  <2>1. k = NoCall
    BY <1>1 DEF Answering
  <2>2. QED
    BY <2>1, NoCallFields, Client, EndedOk DEF StampsIssued, ClientKnows
<1>2. CASE call[c].stamp # NoStamp
  <2>1. /\ k \in Call /\ k.pc = pc /\ k.stamp = NoStamp /\ k.at = t
        /\ k.sent = {} /\ k.seen = NoForm
    BY <1>2, AnsweringCall DEF Steps
  <2>2. CallShape(k) /\ StampsIssued(issued \cup {t}, view[c], k)
    BY <2>1, Client DEF CallShape, StampsIssued
  <2>3. ASSUME slips = {}, t \notin issued,
               pc = "saved" => Content(r) \subseteq view[c].screen,
               pc = "published" => Content(r) \subseteq view[c].screen /\ view[c].waived = {}
        PROVE  ClientKnows(r, view[c], k)
    BY <2>1, <2>3, Client DEF ClientKnows, StampsIssued
  <2>4. QED
    BY <1>2, <2>1, <2>2, <2>3
<1>3. QED
  BY <1>1, <1>2

LEMMA SaveDraftKeeps ==
    ASSUME Before, NEW c \in Clients, NEW t \in Stamps, SaveDraft(c, t)
    PROVE  LifecycleInv'
<1>1. CASE GuardPasses(call[c].stamp)
  <2> DEFINE f == [row EXCEPT !.draft = call[c].sent]
             r == [f EXCEPT !.stamp = t]
             k == Answering(c, "saved", t)
  <2>1. f \in Form /\ f.draft = call[c].sent /\ Content(f) = call[c].sent
    BY Client DEF Form, Content, Before
  <2> HIDE DEF f
  <2>2. r \in Form /\ r.stamp = t /\ Content(r) = call[c].sent
    BY <2>1, StampedRow
  <2>3. /\ row' = r /\ issued' = issued \cup {t} /\ call' = [call EXCEPT ![c] = k]
        /\ Write(c, f, call[c].stamp, call[c].at, t)
        /\ lost' = lost \cup (Content(row) \ (call[c].sent \cup view[c].waived))
        /\ UNCHANGED <<view, destLost>>
    BY <1>1 DEF SaveDraft, Write, Goto, f
  <2> HIDE DEF r, k
  <2>4. lost' \subseteq Edits
    BY <2>3, Client DEF Content, Form
  <2>5. slips' = {} => ClientKnows(r, view[c], k) /\ lost' = {} /\ ~destLost'
    <3>1. SUFFICES ASSUME slips' = {}
                   PROVE  ClientKnows(r, view[c], k) /\ lost' = {} /\ ~destLost'
      OBVIOUS
    <3>2. slips = {} /\ t \notin issued /\ (call[c].stamp = NoStamp => row.stamp = call[c].at)
      BY <2>3, <3>1, LandedSlips
    <3>3. row.stamp = call[c].at
      BY <1>1, <3>2, Client DEF GuardPasses, ClientKnows, SaveDraft
    <3>4. Content(row) \subseteq call[c].sent \cup view[c].waived
          /\ call[c].sent \subseteq view[c].screen
      BY <3>2, <3>3, Client DEF ClientKnows, SaveDraft
    <3>5. ClientKnows(r, view[c], k)
      BY <2>2, <3>2, <3>4, AnsweringOk DEF k
    <3>6. QED
      BY <2>3, <3>2, <3>4, <3>5, Client
  <2>6. k \in Call /\ CallShape(k) /\ StampsIssued(issued \cup {t}, view[c], k)
    BY <2>2, AnsweringOk DEF k
  <2>7. QED
    BY <2>2, <2>3, <2>4, <2>5, <2>6, Client, LandedSlips, WriteStep
<1>2. CASE ~GuardPasses(call[c].stamp)
  BY <1>2, RefusedSaveKeeps DEF SaveDraft, Goto
<1>3. QED
  BY <1>1, <1>2

-----------------------------------------------------------------------------
(* Publish, discard, revert, destinations.                                  *)

\* A call that is over, when nothing else changed.
LEMMA EndKeeps ==
    ASSUME Before, NEW c \in Clients, call' = [call EXCEPT ![c] = NoCall],
           UNCHANGED <<row, view, issued, lost, destLost, slips>>
    PROVE  LifecycleInv'
<1>1. NoCall \in Call /\ CallShape(NoCall) /\ StampsIssued(issued, view[c], NoCall)
  BY Client, NoCallFields, EndedOk DEF StampsIssued
<1>2. slips = {} => ClientKnows(row, view[c], NoCall)
  BY Client, EndedOk DEF StampsIssued, ClientKnows
<1>3. QED
  BY <1>1, <1>2, Client, OneClientStep

\* A call refused or sent round again, when nothing else changed.
LEMMA AgainKeeps ==
    ASSUME Before, NEW c \in Clients, NEW tries \in Nat,
           NEW pc \in {"publishRefused", "publishAgain", "revertAgain"},
           call' = [call EXCEPT ![c] = Refused(pc, {}, tries)],
           UNCHANGED <<row, view, issued, lost, destLost, slips>>
    PROVE  LifecycleInv'
<1> DEFINE k == Refused(pc, {}, tries)
<1>1. /\ k \in Call /\ k.pc = pc /\ k.stamp = NoStamp /\ k.at = NoStamp
      /\ k.sent = {} /\ k.seen = NoForm
  BY RefusedCall DEF Steps
<1>2. call' = [call EXCEPT ![c] = k]
  OBVIOUS
<1> HIDE DEF k
<1>3. CallShape(k) /\ StampsIssued(issued, view[c], k)
  BY <1>1, Client DEF CallShape, StampsIssued
<1>4. slips = {} => ClientKnows(row, view[c], k)
  BY <1>1, Client DEF ClientKnows
<1>5. QED
  BY <1>1, <1>2, <1>3, <1>4, Client, OneClientStep

\* A call that read the row, when nothing else changed.
LEMMA ReadKeeps ==
    ASSUME Before, NEW c \in Clients, NEW s \in {NoStamp, row.stamp},
           NEW pc \in {"publish", "unchanged", "discard", "revert", "destinations"},
           NEW seen \in Form, seen.stamp = row.stamp,
           pc # "destinations" => seen = row,
           pc = "publish" => row.draft # NoDraft,
           pc = "unchanged" => s # NoStamp,
           pc = "revert" => row.previous # NoVersion,
           pc \in {"publish", "unchanged"} =>
              view[c].waived = {} /\ s \in {view[c].stamp, NoStamp},
           call' = [call EXCEPT ![c] = ReadRow(c, seen, s, pc)],
           UNCHANGED <<row, view, issued, lost, destLost, slips>>
    PROVE  LifecycleInv'
<1> DEFINE k == ReadRow(c, seen, s, pc)
<1>1. s \in {NoStamp} \cup Stamps
  BY Client
<1>2. /\ k \in Call /\ k.pc = pc /\ k.stamp = s /\ k.at = row.stamp
      /\ k.sent = {} /\ k.seen = seen
  BY <1>1, Client, ReadingCall DEF Steps
<1>3. call' = [call EXCEPT ![c] = k]
  OBVIOUS
<1> HIDE DEF k
<1>4. CallShape(k) /\ StampsIssued(issued, view[c], k)
  BY <1>2, Client DEF CallShape, StampsIssued
<1>5. slips = {} => ClientKnows(row, view[c], k)
  BY <1>2, Client DEF ClientKnows
<1>6. QED
  BY <1>2, <1>3, <1>4, <1>5, Client, OneClientStep

LEMMA ReadForPublishKeeps ==
    ASSUME Before, NEW c \in Clients, NEW s \in {view[c].stamp, NoStamp},
           ReadForPublish(c, s)
    PROVE  LifecycleInv'
<1>1. CASE ~GuardPasses(s)
  BY <1>1, Client, AgainKeeps DEF ReadForPublish, PublishRead, Unchanged, Goto
<1>2. CASE GuardPasses(s) /\ row.draft # NoDraft
  BY <1>2, Client, ReadKeeps DEF ReadForPublish, PublishRead, Unchanged, Goto, GuardPasses
<1>3. CASE GuardPasses(s) /\ row.draft = NoDraft /\ s # NoStamp
  BY <1>3, Client, ReadKeeps DEF ReadForPublish, PublishRead, Unchanged, Goto, GuardPasses
<1>4. CASE GuardPasses(s) /\ row.draft = NoDraft /\ s = NoStamp
  BY <1>4, EndKeeps DEF ReadForPublish, PublishRead, Unchanged, Goto
<1>5. QED
  BY <1>1, <1>2, <1>3, <1>4

LEMMA ReadForDiscardKeeps ==
    ASSUME Before, NEW c \in Clients, NEW s \in {view[c].stamp, NoStamp},
           ReadForDiscard(c, s)
    PROVE  LifecycleInv'
  BY Client, ReadKeeps DEF ReadForDiscard, Goto, GuardPasses

LEMMA ReadForRevertKeeps ==
    ASSUME Before, NEW c \in Clients, ReadForRevert(c)
    PROVE  LifecycleInv'
<1>1. CASE row.previous = NoVersion
  BY <1>1, EndKeeps DEF ReadForRevert, Goto
<1>2. CASE row.previous # NoVersion
  BY <1>2, Client, ReadKeeps DEF ReadForRevert, Goto
<1>3. QED
  BY <1>1, <1>2

LEMMA ReadForDestinationsKeeps ==
    ASSUME Before, NEW c \in Clients, NEW d \in Dests, ReadForDestinations(c, d)
    PROVE  LifecycleInv'
<1> DEFINE seen == [row EXCEPT !.dest = d]
<1>1. seen \in Form /\ seen.stamp = row.stamp
  BY Client DEF Form
<1>2. call' = [call EXCEPT ![c] = ReadRow(c, seen, NoStamp, "destinations")]
  BY DEF ReadForDestinations, Goto
<1> HIDE DEF seen
<1>3. QED
  BY <1>1, <1>2, ReadKeeps DEF ReadForDestinations

\* A landed write of a call that read the row first: the row it read is the
\* one it writes, unless something slipped.
LEMMA SawTheRow ==
    ASSUME Before, NEW c \in Clients,
           call[c].pc \in {"publish", "discard", "revert"}, GuardPasses(call[c].stamp),
           slips = {}, call[c].stamp = NoStamp => row.stamp = call[c].at
    PROVE  call[c].seen = row
<1>1. ClientKnows(row, view[c], call[c])
  BY Client
<1>2. row.stamp = call[c].at
  BY <1>1 DEF GuardPasses, ClientKnows
<1>3. QED
  BY <1>1, <1>2 DEF ClientKnows

LEMMA WritePublishKeeps ==
    ASSUME Before, NEW c \in Clients, NEW t \in Stamps, WritePublish(c, t)
    PROVE  LifecycleInv'
<1>1. CASE row.draft # NoDraft /\ GuardPasses(call[c].stamp)
  <2> DEFINE seen == call[c].seen
             f == [row EXCEPT !.live = seen.draft, !.dest = seen.dest,
                              !.draft = NoDraft, !.previous = row.live]
             r == [f EXCEPT !.stamp = t]
             k == Answering(c, "published", t)
  <2>1. seen \in Form /\ seen.draft \in SUBSET Edits /\ seen.dest \in Dests
    BY Client DEF WritePublish, CallShape, Form
  <2>2. f \in Form /\ f.live = seen.draft /\ f.draft = NoDraft
    BY <2>1, Client DEF Form
  <2>3. /\ row' = r /\ issued' = issued \cup {t} /\ call' = [call EXCEPT ![c] = k]
        /\ Write(c, f, call[c].stamp, call[c].at, t)
        /\ lost' = lost \cup (row.draft \ seen.draft)
        /\ destLost' = (destLost \/ seen.dest # row.dest)
        /\ UNCHANGED view /\ call[c].pc = "publish"
    BY <1>1 DEF WritePublish, Write, Goto
  <2> HIDE DEF seen, f
  <2>4. r \in Form /\ r.stamp = t /\ Content(r) = seen.draft
    BY <2>2, StampedRow DEF Content
  <2> HIDE DEF r, k
  <2>5. lost' \subseteq Edits /\ destLost' \in BOOLEAN
    BY <1>1, <2>3, Client DEF Form
  <2>6. slips' = {} => ClientKnows(r, view[c], k) /\ lost' = {} /\ ~destLost'
    <3>1. SUFFICES ASSUME slips' = {}
                   PROVE  ClientKnows(r, view[c], k) /\ lost' = {} /\ ~destLost'
      OBVIOUS
    <3>2. slips = {} /\ t \notin issued /\ seen = row
      <4>1. slips = {} /\ t \notin issued /\ (call[c].stamp = NoStamp => row.stamp = call[c].at)
        BY <2>3, <3>1, LandedSlips
      <4>2. QED
        BY <1>1, <2>3, <4>1, SawTheRow DEF seen
    <3>3. lost' = {} /\ ~destLost'
      <4>1. lost = {} /\ ~destLost
        BY <3>2, Client
      <4>2. row.draft \ seen.draft = {} /\ seen.dest = row.dest
        BY <3>2
      <4>3. QED
        BY <2>3, <4>1, <4>2
    <3>4. view[c].waived = {}
          /\ (call[c].stamp # NoStamp => seen.draft \subseteq view[c].screen)
      BY <1>1, <2>3, <3>2, Client DEF ClientKnows, Content, seen
    <3>5. ClientKnows(r, view[c], k)
      BY <2>4, <3>2, <3>4, AnsweringOk DEF k
    <3>6. QED
      BY <3>3, <3>5
  <2>7. k \in Call /\ CallShape(k) /\ StampsIssued(issued \cup {t}, view[c], k)
    BY <2>4, AnsweringOk DEF k
  <2>8. slips \subseteq slips' /\ slips' \subseteq Slips /\ (t \in issued => slips' # {})
    BY <2>3, LandedSlips
  <2>9. QED
    BY <2>3, <2>4, <2>5, <2>6, <2>7, <2>8, WriteStep
<1>2. CASE ~(row.draft # NoDraft /\ GuardPasses(call[c].stamp)) /\ call[c].stamp = NoStamp
  BY <1>2, EndKeeps DEF WritePublish, Goto
<1>3. CASE ~(row.draft # NoDraft /\ GuardPasses(call[c].stamp)) /\ call[c].stamp # NoStamp
  BY <1>3, Client, AgainKeeps DEF WritePublish, Goto
<1>4. QED
  BY <1>1, <1>2, <1>3

LEMMA WriteDiscardKeeps ==
    ASSUME Before, NEW c \in Clients, NEW t \in Stamps, WriteDiscard(c, t)
    PROVE  LifecycleInv'
<1>1. CASE row.draft # NoDraft /\ GuardPasses(call[c].stamp)
  <2> DEFINE f == [row EXCEPT !.draft = NoDraft]
             r == [f EXCEPT !.stamp = t]
             k == Answering(c, "discarded", t)
  <2>1. f \in Form
    BY Client DEF Form
  <2>2. /\ row' = r /\ issued' = issued \cup {t} /\ call' = [call EXCEPT ![c] = k]
        /\ Write(c, f, call[c].stamp, call[c].at, t)
        /\ lost' = lost \cup (row.draft \ (call[c].seen.draft \cup Known(c)))
        /\ UNCHANGED <<view, destLost>> /\ call[c].pc = "discard"
    BY <1>1 DEF WriteDiscard, Write, Goto
  <2> HIDE DEF f
  <2>3. r \in Form /\ r.stamp = t
    BY <2>1, StampedRow
  <2> HIDE DEF r, k
  <2>4. lost' \subseteq Edits
    BY <1>1, <2>2, Client DEF Form
  <2>5. slips' = {} => ClientKnows(r, view[c], k) /\ lost' = {} /\ ~destLost'
    <3>1. SUFFICES ASSUME slips' = {}
                   PROVE  ClientKnows(r, view[c], k) /\ lost' = {} /\ ~destLost'
      OBVIOUS
    <3>2. slips = {} /\ t \notin issued /\ call[c].seen = row
      <4>1. slips = {} /\ t \notin issued /\ (call[c].stamp = NoStamp => row.stamp = call[c].at)
        BY <2>2, <3>1, LandedSlips
      <4>2. QED
        BY <1>1, <2>2, <4>1, SawTheRow
    <3>3. lost' = {} /\ ~destLost'
      <4>1. lost = {} /\ ~destLost
        BY <3>2, Client
      <4>2. row.draft \ (call[c].seen.draft \cup Known(c)) = {}
        BY <3>2
      <4>3. QED
        BY <2>2, <4>1, <4>2
    <3>4. ClientKnows(r, view[c], k)
      BY <2>3, <3>2, AnsweringOk DEF k
    <3>5. QED
      BY <3>3, <3>4
  <2>6. k \in Call /\ CallShape(k) /\ StampsIssued(issued \cup {t}, view[c], k)
    BY <2>3, AnsweringOk DEF k
  <2>7. slips \subseteq slips' /\ slips' \subseteq Slips /\ (t \in issued => slips' # {})
    BY <2>2, LandedSlips
  <2>8. destLost' \in BOOLEAN
    BY <2>2, Client
  <2>9. QED
    BY <2>2, <2>3, <2>4, <2>5, <2>6, <2>7, <2>8, WriteStep
<1>2. CASE ~(row.draft # NoDraft /\ GuardPasses(call[c].stamp))
  BY <1>2, EndKeeps DEF WriteDiscard, Goto
<1>3. QED
  BY <1>1, <1>2

LEMMA WriteRevertKeeps ==
    ASSUME Before, NEW c \in Clients, NEW t \in Stamps, WriteRevert(c, t)
    PROVE  LifecycleInv'
<1>1. CASE row.previous # NoVersion /\ GuardPasses(call[c].stamp)
  <2> DEFINE seen == call[c].seen
             f == [row EXCEPT !.live = seen.previous, !.dest = seen.dest,
                              !.previous = row.live]
             r == [f EXCEPT !.stamp = t]
             k == Answering(c, "reverted", t)
  <2>1. seen \in Form /\ seen.previous \in SUBSET Edits /\ seen.dest \in Dests
    BY Client DEF WriteRevert, CallShape, Form
  <2>2. f \in Form
    BY <2>1, Client DEF Form
  <2>3. /\ row' = r /\ issued' = issued \cup {t} /\ call' = [call EXCEPT ![c] = k]
        /\ Write(c, f, call[c].stamp, call[c].at, t)
        /\ destLost' = (destLost \/ seen.dest # row.dest)
        /\ UNCHANGED <<view, lost>> /\ call[c].pc = "revert"
    BY <1>1 DEF WriteRevert, RevertFires, Write, Goto
  <2> HIDE DEF seen, f
  <2>4. r \in Form /\ r.stamp = t
    BY <2>2, StampedRow
  <2> HIDE DEF r, k
  <2>5. lost' \subseteq Edits /\ destLost' \in BOOLEAN
    BY <2>3, Client
  <2>6. slips' = {} => ClientKnows(r, view[c], k) /\ lost' = {} /\ ~destLost'
    <3>1. SUFFICES ASSUME slips' = {}
                   PROVE  ClientKnows(r, view[c], k) /\ lost' = {} /\ ~destLost'
      OBVIOUS
    <3>2. slips = {} /\ t \notin issued /\ seen = row
      <4>1. slips = {} /\ t \notin issued /\ (call[c].stamp = NoStamp => row.stamp = call[c].at)
        BY <2>3, <3>1, LandedSlips
      <4>2. QED
        BY <1>1, <2>3, <4>1, SawTheRow DEF seen
    <3>3. lost = {} /\ ~destLost
      BY <3>2, Client
    <3>4. ClientKnows(r, view[c], k)
      BY <2>4, <3>2, AnsweringOk DEF k
    <3>5. QED
      BY <2>3, <3>2, <3>3, <3>4
  <2>7. k \in Call /\ CallShape(k) /\ StampsIssued(issued \cup {t}, view[c], k)
    BY <2>4, AnsweringOk DEF k
  <2>8. slips \subseteq slips' /\ slips' \subseteq Slips /\ (t \in issued => slips' # {})
    BY <2>3, LandedSlips
  <2>9. QED
    BY <2>3, <2>4, <2>5, <2>6, <2>7, <2>8, WriteStep
<1>2. CASE ~(row.previous # NoVersion /\ GuardPasses(call[c].stamp))
           /\ call[c].tries + 1 < RevertAttempts
  <2>1. call[c].tries + 1 \in Nat
    BY Client
  <2>2. QED
    BY <1>2, <2>1, AgainKeeps DEF WriteRevert, RevertFires, Goto
<1>3. CASE ~(row.previous # NoVersion /\ GuardPasses(call[c].stamp))
           /\ ~(call[c].tries + 1 < RevertAttempts)
  BY <1>3, EndKeeps DEF WriteRevert, RevertFires, Goto
<1>4. QED
  BY <1>1, <1>2, <1>3

LEMMA WriteDestinationsKeeps ==
    ASSUME Before, NEW c \in Clients, NEW t \in Stamps, WriteDestinations(c, t)
    PROVE  LifecycleInv'
<1> DEFINE seen == call[c].seen
           r == [row EXCEPT !.live = seen.live, !.dest = seen.dest, !.stamp = t]
<1>1. seen \in Form /\ seen.live \in SUBSET Edits /\ seen.dest \in Dests
  BY Client DEF WriteDestinations, CallShape, Form
<1> HIDE DEF seen
<1>2. r \in Form /\ r.stamp = t
  BY <1>1, Client DEF Form
<1>3. /\ row' = r /\ issued' = issued \cup {t} /\ call' = [call EXCEPT ![c] = NoCall]
      /\ UNCHANGED <<view, lost, destLost>>
  BY DEF WriteDestinations, Goto, seen
<1> HIDE DEF r
<1>4. /\ slips \subseteq slips' /\ slips' \subseteq Slips
      /\ t \in issued => slips' # {}
      /\ slips' = {} => slips = {} /\ t \notin issued
  BY Client DEF WriteDestinations, Slips
<1>5. NoCall \in Call /\ CallShape(NoCall) /\ StampsIssued(issued \cup {t}, view[c], NoCall)
  BY Client, NoCallFields, EndedOk DEF StampsIssued
<1>6. slips' = {} => ClientKnows(r, view[c], NoCall) /\ lost = {} /\ ~destLost
  <2>1. SUFFICES ASSUME slips' = {}
                 PROVE  ClientKnows(r, view[c], NoCall) /\ lost = {} /\ ~destLost
    OBVIOUS
  <2>2. ClientKnows(row, view[c], call[c]) /\ lost = {} /\ ~destLost
        /\ view[c].stamp \in issued /\ t \notin issued
    BY <1>4, <2>1, Client DEF StampsIssued
  <2>3. view[c].stamp # r.stamp /\ view[c].saved \subseteq view[c].screen \cup view[c].waived
    BY <1>2, <2>2 DEF ClientKnows
  <2>4. QED
    BY <2>2, <2>3, EndedOk
<1>7. lost' \subseteq Edits /\ destLost' \in BOOLEAN
  BY <1>3, Client
<1>8. QED
  BY <1>2, <1>3, <1>4, <1>5, <1>6, <1>7, WriteStep

-----------------------------------------------------------------------------
(* The answers.                                                             *)

\* A client that ends its call with view v, which knows the row.
LEMMA AnsweredKeeps ==
    ASSUME Before, NEW c \in Clients, NEW v \in View, v.stamp \in issued,
           view' = [view EXCEPT ![c] = v], call' = [call EXCEPT ![c] = NoCall],
           UNCHANGED <<row, issued, lost, destLost>>,
           slips \subseteq slips', slips' \subseteq Slips,
           slips' = {} => /\ v.saved \subseteq v.screen \cup v.waived
                          /\ v.stamp = row.stamp =>
                               Content(row) \subseteq v.screen \cup v.waived
    PROVE  LifecycleInv'
<1>1. NoCall \in Call /\ CallShape(NoCall) /\ StampsIssued(issued, v, NoCall)
  BY NoCallFields, EndedOk
<1>2. slips' = {} => ClientKnows(row, v, NoCall)
  BY EndedOk
<1>3. QED
  BY <1>1, <1>2, OneClientStep

LEMMA ContentType ==
    ASSUME NEW form \in Form
    PROVE  Content(form) \in SUBSET Edits /\ form.stamp \in Stamps
  BY DEF Content, Form

LEMMA MovedSlips ==
    ASSUME Before, NEW c \in Clients, Moved(c)
    PROVE  /\ slips \subseteq slips' /\ slips' \subseteq Slips
           /\ slips' = {} => slips = {} /\ row.stamp = call[c].at
  BY Client DEF Moved, Slips

LEMMA SaveAnsweredKeeps ==
    ASSUME Before, NEW c \in Clients, SaveAnswered(c)
    PROVE  LifecycleInv'
<1> DEFINE v == [view[c] EXCEPT !.saved = Content(row), !.stamp = row.stamp, !.waived = {}]
<1>1. /\ v \in View /\ v.screen = view[c].screen /\ v.saved = Content(row)
      /\ v.stamp = row.stamp /\ v.waived = {}
  <2>1. Content(row) \in SUBSET Edits /\ row.stamp \in Stamps
    BY Client, ContentType
  <2>2. QED
    BY <2>1, Client DEF View
<1>2. view' = [view EXCEPT ![c] = v]
  BY DEF SaveAnswered, Adopt, Show
<1> HIDE DEF v
<1>3. slips' = {} => Content(row) \subseteq v.screen \cup v.waived
  BY <1>1, MovedSlips, Client DEF SaveAnswered, ClientKnows
<1>4. v.stamp \in issued
  BY <1>1, Client
<1>5. slips \subseteq slips' /\ slips' \subseteq Slips
  BY MovedSlips DEF SaveAnswered
<1>6. call' = [call EXCEPT ![c] = NoCall] /\ UNCHANGED <<row, issued, lost, destLost>>
  BY DEF SaveAnswered, Goto
<1>7. slips' = {} => /\ v.saved \subseteq v.screen \cup v.waived
                     /\ v.stamp = row.stamp => Content(row) \subseteq v.screen \cup v.waived
  BY <1>1, <1>3
<1>8. QED
  BY <1>1, <1>2, <1>4, <1>5, <1>6, <1>7, AnsweredKeeps

LEMMA PublishAnsweredKeeps ==
    ASSUME Before, NEW c \in Clients, PublishAnswered(c)
    PROVE  LifecycleInv'
<1>1. CASE call[c].pc = "published"
  <2> DEFINE v == [view[c] EXCEPT !.saved = Content(row), !.stamp = row.stamp,
                                  !.waived = view[c].waived]
  <2>1. /\ v \in View /\ v.screen = view[c].screen /\ v.saved = Content(row)
        /\ v.stamp = row.stamp /\ v.waived = view[c].waived
    <3>1. Content(row) \in SUBSET Edits /\ row.stamp \in Stamps
      BY Client, ContentType
    <3>2. QED
      BY <3>1, Client DEF View
  <2>2. view' = [view EXCEPT ![c] = v] /\ Moved(c)
    BY <1>1 DEF PublishAnswered, Adopt, Show
  <2> HIDE DEF v
  <2>3. slips' = {} => Content(row) \subseteq v.screen \cup v.waived
    BY <1>1, <2>1, <2>2, MovedSlips, Client DEF ClientKnows
  <2>4. v.stamp \in issued
    BY <2>1, Client
  <2>5. slips \subseteq slips' /\ slips' \subseteq Slips
    BY <2>2, MovedSlips
  <2>6. call' = [call EXCEPT ![c] = NoCall] /\ UNCHANGED <<row, issued, lost, destLost>>
    BY DEF PublishAnswered, Goto
  <2>7. slips' = {} => /\ v.saved \subseteq v.screen \cup v.waived
                       /\ v.stamp = row.stamp => Content(row) \subseteq v.screen \cup v.waived
    BY <2>1, <2>3
  <2>8. QED
    BY <2>1, <2>2, <2>4, <2>5, <2>6, <2>7, AnsweredKeeps
<1>2. CASE call[c].pc = "unchanged"
  <2> DEFINE seen == call[c].seen
             v == [view[c] EXCEPT !.saved = Content(seen), !.stamp = seen.stamp,
                                  !.waived = view[c].waived]
  <2>1. seen \in Form /\ seen.stamp \in issued
    BY <1>2, Client DEF CallShape, StampsIssued, Before
  <2>2. /\ v \in View /\ v.screen = view[c].screen /\ v.saved = Content(seen)
        /\ v.stamp = seen.stamp /\ v.waived = view[c].waived
    <3>1. Content(seen) \in SUBSET Edits /\ seen.stamp \in Stamps
      BY <2>1, ContentType
    <3>2. QED
      BY <3>1, Client DEF View
  <2>3. view' = [view EXCEPT ![c] = v] /\ UNCHANGED slips
    BY <1>2 DEF PublishAnswered, Adopt, Show
  <2> HIDE DEF v
  <2>4. slips = {} => /\ Content(seen) \subseteq view[c].screen
                      /\ seen.stamp = row.stamp => seen = row
    BY <1>2, Client DEF ClientKnows, CallShape
  <2> HIDE DEF seen
  <2>5. slips' = {} => /\ v.saved \subseteq v.screen \cup v.waived
                       /\ v.stamp = row.stamp => Content(row) \subseteq v.screen \cup v.waived
    BY <2>2, <2>3, <2>4
  <2>6. slips \subseteq slips' /\ slips' \subseteq Slips
    BY <2>3, Client
  <2>7. call' = [call EXCEPT ![c] = NoCall] /\ UNCHANGED <<row, issued, lost, destLost>>
    BY DEF PublishAnswered, Goto
  <2>8. v.stamp \in issued
    BY <2>1, <2>2
  <2>9. QED
    BY <2>2, <2>3, <2>5, <2>6, <2>7, <2>8, AnsweredKeeps
<1>3. QED
  BY <1>1, <1>2 DEF PublishAnswered

\* A client that opens the row: it sees, and holds, all of it.
LEMMA OpenedKeeps ==
    ASSUME Before, NEW c \in Clients, NEW config \in SUBSET Edits, config = Content(row),
           view' = [view EXCEPT ![c] = [screen |-> config, saved |-> config,
                                        stamp |-> row.stamp, waived |-> {}]],
           call' = [call EXCEPT ![c] = NoCall],
           UNCHANGED <<row, issued, lost, destLost, slips>>
    PROVE  LifecycleInv'
<1> DEFINE v == [screen |-> config, saved |-> config, stamp |-> row.stamp, waived |-> {}]
<1>1. /\ v \in View /\ v.screen = config /\ v.saved = config
      /\ v.stamp = row.stamp /\ v.waived = {}
  BY Client DEF View
<1>2. view' = [view EXCEPT ![c] = v]
  OBVIOUS
<1> HIDE DEF v
<1>3. v.stamp \in issued /\ slips' \subseteq Slips /\ slips \subseteq slips'
  BY <1>1, Client
<1>4. /\ v.saved \subseteq v.screen \cup v.waived
      /\ Content(row) \subseteq v.screen \cup v.waived
  BY <1>1
<1>5. QED
  BY <1>1, <1>2, <1>3, <1>4, AnsweredKeeps

LEMMA RevertAnsweredKeeps ==
    ASSUME Before, NEW c \in Clients, RevertAnswered(c)
    PROVE  LifecycleInv'
<1>1. CASE row.draft # NoDraft
  <2> DEFINE v == [view[c] EXCEPT !.saved = Content(row), !.stamp = row.stamp,
                                  !.waived = view[c].waived]
  <2>1. /\ v \in View /\ v.screen = view[c].screen /\ v.saved = Content(row)
        /\ v.stamp = row.stamp /\ v.waived = view[c].waived
    <3>1. Content(row) \in SUBSET Edits /\ row.stamp \in Stamps
      BY Client, ContentType
    <3>2. QED
      BY <3>1, Client DEF View
  <2>2. view' = [view EXCEPT ![c] = v]
    BY <1>1 DEF RevertAnswered, Adopt, Show
  <2> HIDE DEF v
  <2>3. /\ slips \subseteq slips' /\ slips' \subseteq Slips
        /\ slips' = {} => Content(row) \subseteq Known(c)
    BY <1>1, Client DEF RevertAnswered, Slips
  <2>4. slips' = {} => /\ v.saved \subseteq v.screen \cup v.waived
                       /\ Content(row) \subseteq v.screen \cup v.waived
    BY <2>1, <2>3 DEF Known
  <2>5. call' = [call EXCEPT ![c] = NoCall] /\ UNCHANGED <<row, issued, lost, destLost>>
    BY DEF RevertAnswered, Goto
  <2>6. v.stamp \in issued
    BY <2>1, Client
  <2>7. QED
    BY <2>1, <2>2, <2>3, <2>4, <2>5, <2>6, AnsweredKeeps
<1>2. CASE row.draft = NoDraft
  <2>1. row.live \in SUBSET Edits /\ row.live = Content(row)
    BY <1>2, Client DEF Content, Form
  <2>2. QED
    BY <1>2, <2>1, OpenedKeeps DEF RevertAnswered, Show, Goto
<1>3. QED
  BY <1>1, <1>2

LEMMA DiscardAnsweredKeeps ==
    ASSUME Before, NEW c \in Clients, DiscardAnswered(c)
    PROVE  LifecycleInv'
<1>1. Content(row) \in SUBSET Edits
  BY Client, ContentType
<1>2. QED
  BY <1>1, OpenedKeeps DEF DiscardAnswered, Show, Goto

\* The stamp moved and the content is the one the client last received.
LEMMA ResolveKeeps ==
    ASSUME Before, NEW c \in Clients, Resolve(c)
    PROVE  LifecycleInv'
<1>1. CASE Content(row) = view[c].saved /\ call[c].tries = 0
  <2> DEFINE v == [view[c] EXCEPT !.stamp = row.stamp]
             k == Refused(IF call[c].pc = "saveRefused" THEN "saveAgain" ELSE "publishAgain",
                          call[c].sent, 1)
  <2>1. /\ v \in View /\ v.screen = view[c].screen /\ v.saved = view[c].saved
        /\ v.stamp = row.stamp /\ v.waived = view[c].waived
    BY Client DEF View
  <2>2. PICK pc \in {"saveAgain", "publishAgain"} :
           /\ k = Refused(pc, call[c].sent, 1)
           /\ pc = "saveAgain" => call[c].pc = "saveRefused"
    OBVIOUS
  <2>3. view' = [view EXCEPT ![c] = v] /\ call' = [call EXCEPT ![c] = k]
        /\ UNCHANGED <<row, issued, lost, destLost, slips>>
    BY <1>1 DEF Resolve, OnlyStampMoved, Show, Goto
  <2> HIDE DEF v, k
  <2>4. /\ k \in Call /\ k.pc = pc /\ k.stamp = NoStamp /\ k.at = NoStamp
        /\ k.sent = call[c].sent /\ k.seen = NoForm
    BY <2>2, Client, RefusedCall DEF Steps
  <2>5. CallShape(k) /\ StampsIssued(issued, v, k)
    BY <2>1, <2>4, Client DEF CallShape, StampsIssued
  <2>6. slips = {} => ClientKnows(row, v, k)
    BY <1>1, <2>1, <2>2, <2>4, Client DEF ClientKnows
  <2>7. QED
    BY <2>1, <2>3, <2>4, <2>5, <2>6, Client, OneClientStep
<1>2. CASE ~(Content(row) = view[c].saved /\ call[c].tries = 0)
  <2> DEFINE k == [NoCall EXCEPT !.pc = "conflict", !.seen = row]
  <2>1. /\ k \in Call /\ k.pc = "conflict" /\ k.stamp = NoStamp /\ k.at = NoStamp
        /\ k.sent = {} /\ k.seen = row
    BY Client DEF NoCall, Call, Steps
  <2>2. call' = [call EXCEPT ![c] = k] /\ UNCHANGED <<row, view, issued, lost, destLost, slips>>
    BY <1>2 DEF Resolve, OnlyStampMoved, Goto
  <2> HIDE DEF k
  <2>3. CallShape(k) /\ StampsIssued(issued, view[c], k)
    BY <2>1, Client DEF CallShape, StampsIssued
  <2>4. slips = {} => ClientKnows(row, view[c], k)
    BY <2>1, Client DEF ClientKnows
  <2>5. QED
    BY <2>1, <2>2, <2>3, <2>4, Client, OneClientStep
<1>3. QED
  BY <1>1, <1>2

LEMMA DecideKeeps ==
    ASSUME Before, NEW c \in Clients, Decide(c)
    PROVE  LifecycleInv'
<1>1. CASE UNCHANGED view
  BY <1>1, EndKeeps DEF Decide, Goto
<1>2. CASE Show(c, [view[c] EXCEPT !.stamp = call[c].seen.stamp,
                             !.waived = view[c].waived \cup Content(call[c].seen)])
  <2> DEFINE seen == call[c].seen
             v == [view[c] EXCEPT !.stamp = seen.stamp,
                                  !.waived = view[c].waived \cup Content(seen)]
  <2>1. /\ v \in View /\ v.screen = view[c].screen /\ v.saved = view[c].saved
        /\ v.stamp = seen.stamp /\ v.waived = view[c].waived \cup Content(seen)
    <3>1. Content(seen) \in SUBSET Edits /\ seen.stamp \in Stamps
      BY Client, ContentType DEF Decide, CallShape
    <3>2. QED
      BY <3>1, Client DEF View
  <2>2. view' = [view EXCEPT ![c] = v]
    BY <1>2 DEF Show
  <2> HIDE DEF v
  <2>3. seen.stamp \in issued
    BY Client DEF Decide, CallShape, StampsIssued, Before
  <2>4. slips = {} => /\ v.saved \subseteq v.screen \cup v.waived
                      /\ v.stamp = row.stamp => Content(row) \subseteq v.screen \cup v.waived
    BY <2>1, Client DEF ClientKnows, Decide
  <2>5. slips' \subseteq Slips /\ UNCHANGED slips
    BY Client DEF Decide
  <2>6. call' = [call EXCEPT ![c] = NoCall] /\ UNCHANGED <<row, issued, lost, destLost>>
    BY DEF Decide, Goto
  <2>7. v.stamp \in issued
    BY <2>1, <2>3
  <2>8. QED
    BY <2>1, <2>2, <2>4, <2>5, <2>6, <2>7, AnsweredKeeps
<1>3. QED
  BY <1>1, <1>2 DEF Decide

LEMMA AnswerLostKeeps ==
    ASSUME Before, NEW c \in Clients, AnswerLost(c)
    PROVE  LifecycleInv'
  BY EndKeeps DEF AnswerLost, Goto

-----------------------------------------------------------------------------

LEMMA InitInv ==
    ASSUME LifecycleAssumption, Init
    PROVE  LifecycleInv
<1>1. PICK t \in Stamps, d \in Dests, p \in {{}, NoVersion} :
        /\ row = [live |-> {}, dest |-> d, draft |-> NoDraft, previous |-> p, stamp |-> t]
        /\ view = [c \in Clients |->
                     [screen |-> {}, saved |-> {}, stamp |-> t, waived |-> {}]]
        /\ call = [c \in Clients |-> NoCall]
        /\ issued = {t}
  BY DEF Init
<1>2. lost = {} /\ destLost = FALSE /\ slips = {}
  BY DEF Init
<1>3. row \in Form /\ row.stamp = t /\ Content(row) = {}
  BY <1>1 DEF Form, Content
<1>4. /\ NoCall \in Call /\ NoCall.pc = "idle" /\ NoCall.stamp = NoStamp
      /\ NoCall.at = NoStamp /\ NoCall.sent = {} /\ NoCall.seen = NoForm
  BY DEF NoCall, Call, Steps
<1>5. ASSUME NEW c \in Clients
      PROVE  /\ view[c] \in View /\ view[c].screen = {} /\ view[c].saved = {}
             /\ view[c].stamp = t /\ view[c].waived = {} /\ call[c] = NoCall
  BY <1>1, <1>5 DEF View
<1>6. TypeOK
  <2>1. view \in [Clients -> View]
    BY <1>1, <1>5
  <2>2. call \in [Clients -> Call] /\ \A c \in Clients : CallShape(call[c])
    BY <1>1, <1>4 DEF CallShape
  <2>3. QED
    BY <1>1, <1>2, <1>3, <2>1, <2>2 DEF TypeOK, Slips
<1>7. \A c \in Clients : StampsIssued(issued, view[c], call[c])
  BY <1>1, <1>4, <1>5 DEF StampsIssued
<1>8. \A c \in Clients : ClientKnows(row, view[c], call[c])
  BY <1>3, <1>4, <1>5 DEF ClientKnows
<1>9. row.stamp \in issued
  BY <1>1, <1>3
<1>10. QED
  BY <1>2, <1>6, <1>7, <1>8, <1>9 DEF LifecycleInv

LEMMA NextKeeps ==
    ASSUME LifecycleAssumption, LifecycleInv, [Next]_vars
    PROVE  LifecycleInv'
<1>1. Before
  BY DEF Before, LifecycleAssumption, Form
<1>2. ASSUME NEW c \in Clients, Request(c)
      PROVE  LifecycleInv'
  BY <1>1, <1>2, ReadForRevertKeeps, ReadForDestinationsKeeps, SaveConfigOnlyKeeps,
     ReadForPublishKeeps, ReadForDiscardKeeps, SaveNameKeeps DEF Request
<1>3. ASSUME NEW c \in Clients, Continue(c)
      PROVE  LifecycleInv'
  BY <1>1, <1>3, RereadNameKeeps, SaveDraftKeeps, WritePublishKeeps, WriteDiscardKeeps,
     WriteRevertKeeps, WriteDestinationsKeeps DEF Continue
<1>4. ASSUME NEW c \in Clients, Answer(c)
      PROVE  LifecycleInv'
  BY <1>1, <1>4, SaveAnsweredKeeps, PublishAnsweredKeeps, RevertAnsweredKeeps,
     DiscardAnsweredKeeps, AnswerLostKeeps, ResolveKeeps, DecideKeeps DEF Answer
<1>5. CASE UNCHANGED vars
  BY <1>5 DEF vars, LifecycleInv, TypeOK
<1>6. QED
  BY <1>1, <1>2, <1>3, <1>4, <1>5, TypeKeeps, LoadKeeps, TouchKeeps DEF Next

\* In every reachable state the types hold, every stamp in use was written
\* once, and while nothing has slipped whoever holds the row's stamp knows its
\* content, and no edit and no destination was lost.
THEOREM LifecycleInvariant == Spec => []LifecycleInv
<1>1. Init => LifecycleInv
  BY InitInv, LifecycleAssumption
<1>2. LifecycleInv /\ [Next]_vars => LifecycleInv'
  BY NextKeeps, LifecycleAssumption
<1>3. QED
  BY <1>1, <1>2, PTL DEF Spec

\* staleGuard, publishForm, discardDraft: no edit is dropped unseen.
THEOREM NothingIsLost == Spec => []NothingLost
<1>1. LifecycleInv => NothingLost
  BY DEF LifecycleInv, NothingLost
<1>2. QED
  BY <1>1, LifecycleInvariant, PTL

\* publishForm, revertForm: a change of destinations is never undone.
THEOREM DestinationsAreKept == Spec => []DestinationsKept
<1>1. LifecycleInv => DestinationsKept
  BY DEF LifecycleInv, DestinationsKept
<1>2. QED
  BY <1>1, LifecycleInvariant, PTL

\* publishForm: what a stamped publish makes live is on its publisher's screen.
THEOREM PublishesSeen == Spec => PublishesWhatWasSeen
<1> DEFINE Seen == \A c \in Clients, t \in Stamps :
                      WritePublish(c, t) /\ call[c].stamp # NoStamp /\ row' # row
                        /\ slips' = {} => row'.live \subseteq view[c].screen
<1>1. LifecycleInv => Seen
  <2> SUFFICES ASSUME LifecycleInv, NEW c \in Clients, NEW t \in Stamps,
                      WritePublish(c, t), call[c].stamp # NoStamp, row' # row, slips' = {}
               PROVE  row'.live \subseteq view[c].screen
    OBVIOUS
  <2>1. Before
    BY LifecycleAssumption DEF Before, LifecycleAssumption, Form
  <2> DEFINE seen == call[c].seen
             f == [row EXCEPT !.live = seen.draft, !.dest = seen.dest,
                              !.draft = NoDraft, !.previous = row.live]
             r == [f EXCEPT !.stamp = t]
  <2>2. row' = r /\ Write(c, f, call[c].stamp, call[c].at, t)
    BY DEF WritePublish, Write
  <2>3. seen \in Form /\ seen.draft # NoDraft /\ call[c].pc = "publish"
    BY <2>1, Client DEF WritePublish, CallShape
  <2>4. f \in Form /\ f.live = seen.draft
    BY <2>1, <2>3, Client DEF Form
  <2> HIDE DEF f
  <2>5. r.live = seen.draft
    BY <2>1, <2>4, StampedRow
  <2>6. slips = {}
    BY <2>1, <2>2, LandedSlips
  <2>7. Content(seen) \subseteq view[c].screen
    BY <2>1, <2>3, <2>6, Client DEF ClientKnows
  <2>8. QED
    BY <2>2, <2>3, <2>5, <2>7 DEF Content
<1>2. LifecycleInv /\ [Next]_vars => [Seen]_vars
  BY <1>1
<1>3. QED
  BY <1>2, LifecycleInvariant, PTL DEF Spec, PublishesWhatWasSeen

=============================================================================
