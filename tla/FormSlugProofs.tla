--------------------------- MODULE FormSlugProofs ---------------------------
(***************************************************************************)
(* SlugInv is inductive for every set of forms, slugs and calls, so the     *)
(* links of one account stay right however many calls interleave.           *)
(***************************************************************************)
EXTENDS FormSlug, TLAPS

USE SlugAssumption

(***************************************************************************)
(* What the helpers leave in a call.                                        *)
(***************************************************************************)

LEMMA GotoFields ==
    ASSUME TypeOK, NEW c \in Calls, NEW pc \in Steps, Goto(c, pc)
    PROVE  /\ call' \in [Calls -> Call]
           /\ call'[c].pc = pc /\ call'[c].form = call[c].form /\ call'[c].old = call[c].old
           /\ call'[c].new = call[c].new /\ call'[c].reclaimed = call[c].reclaimed
           /\ \A d \in Calls \ {c} : call'[d] = call[d]
<1>1. call[c] \in Call
  BY DEF TypeOK
<1>2. [call[c] EXCEPT !.pc = pc] \in Call
  BY <1>1 DEF Call
<1>3. LET n == [call[c] EXCEPT !.pc = pc]
      IN  n.pc = pc /\ n.form = call[c].form /\ n.old = call[c].old
          /\ n.new = call[c].new /\ n.reclaimed = call[c].reclaimed
  BY <1>1 DEF Call
<1> QED
  BY <1>2, <1>3 DEF Goto, TypeOK

LEMMA IdleFields ==
    /\ Idle \in Call
    /\ Idle.pc = "idle" /\ Idle.form = NoForm /\ Idle.old = NoSlug /\ Idle.new = NoSlug
    /\ ~Idle.reclaimed
  BY DEF Idle, Call, Steps, InsertAttempts

LEMMA ReturnFields ==
    ASSUME TypeOK, NEW c \in Calls, Return(c)
    PROVE  /\ call' \in [Calls -> Call]
           /\ call'[c].pc = "idle" /\ ~call'[c].reclaimed
           /\ \A d \in Calls \ {c} : call'[d] = call[d]
  BY IdleFields DEF Return, TypeOK

LEMMA RenameFields ==
    ASSUME TypeOK, NEW c \in Calls, NEW f \in Forms, NEW n \in Slugs, SetFormSlug(c, f, n)
    PROVE  /\ call' \in [Calls -> Call]
           /\ call'[c].pc = "checkLive" /\ call'[c].form = f /\ call'[c].old = live[f]
           /\ call'[c].new = n /\ ~call'[c].reclaimed
           /\ \A d \in Calls \ {c} : call'[d] = call[d]
<1>1. "checkLive" \in Steps
  BY DEF Steps, Checking
<1>2. live[f] \in Slugs \cup {NoSlug}
  BY DEF SetFormSlug, Exists
<1>3. [Idle EXCEPT !.pc = "checkLive", !.form = f, !.old = live[f], !.new = n] \in Call
  BY <1>1, <1>2, IdleFields DEF Call
<1>4. LET i == [Idle EXCEPT !.pc = "checkLive", !.form = f, !.old = live[f], !.new = n]
      IN  i.pc = "checkLive" /\ i.form = f /\ i.old = live[f] /\ i.new = n /\ ~i.reclaimed
  BY DEF Idle
<1> QED
  BY <1>3, <1>4 DEF TypeOK, SetFormSlug

LEMMA CreateFields ==
    ASSUME TypeOK, NEW c \in Calls, NEW f \in Forms, NEW n \in Slugs, CreateForm(c, f, n)
    PROVE  /\ call' \in [Calls -> Call]
           /\ call'[c].pc = "checkLive" /\ call'[c].form = f /\ call'[c].old = NoSlug
           /\ call'[c].new = n /\ ~call'[c].reclaimed
           /\ \A d \in Calls \ {c} : call'[d] = call[d]
<1>1. "checkLive" \in Steps
  BY DEF Steps, Checking
<1>2. [Idle EXCEPT !.pc = "checkLive", !.form = f, !.new = n] \in Call
  BY <1>1, IdleFields DEF Call
<1>3. LET i == [Idle EXCEPT !.pc = "checkLive", !.form = f, !.new = n]
      IN  i.pc = "checkLive" /\ i.form = f /\ i.old = NoSlug /\ i.new = n /\ ~i.reclaimed
  BY DEF Idle
<1> QED
  BY <1>2, <1>3 DEF TypeOK, CreateForm

LEMMA DeleteFields ==
    ASSUME TypeOK, NEW c \in Calls, NEW f \in Forms, DeleteForm(c, f)
    PROVE  /\ call' \in [Calls -> Call]
           /\ call'[c].pc = "unalias" /\ call'[c].form = f /\ ~call'[c].reclaimed
           /\ \A d \in Calls \ {c} : call'[d] = call[d]
<1>1. "unalias" \in Steps
  BY DEF Steps
<1>2. [Idle EXCEPT !.pc = "unalias", !.form = f] \in Call
  BY <1>1, IdleFields DEF Call
<1>3. LET i == [Idle EXCEPT !.pc = "unalias", !.form = f]
      IN  i.pc = "unalias" /\ i.form = f /\ ~i.reclaimed
  BY DEF Idle
<1> QED
  BY <1>2, <1>3 DEF TypeOK, DeleteForm

\* The next candidate of uniqueFormSlug.
LEMMA CandidateFields ==
    ASSUME TypeOK, NEW c \in Calls, NEW n \in Slugs, NEW t \in 0..InsertAttempts,
           call' = [call EXCEPT ![c] = [call[c] EXCEPT !.pc = "checkLive", !.new = n, !.tries = t]]
    PROVE  /\ call' \in [Calls -> Call]
           /\ call'[c].pc = "checkLive" /\ call'[c].form = call[c].form
           /\ call'[c].old = call[c].old /\ call'[c].new = n
           /\ call'[c].reclaimed = call[c].reclaimed
           /\ \A d \in Calls \ {c} : call'[d] = call[d]
<1>1. call[c] \in Call /\ "checkLive" \in Steps
  BY DEF TypeOK, Steps, Checking
<1>2. [call[c] EXCEPT !.pc = "checkLive", !.new = n, !.tries = t] \in Call
  BY <1>1 DEF Call
<1>3. LET i == [call[c] EXCEPT !.pc = "checkLive", !.new = n, !.tries = t]
      IN  i.pc = "checkLive" /\ i.form = call[c].form /\ i.old = call[c].old /\ i.new = n
          /\ i.reclaimed = call[c].reclaimed
  BY <1>1 DEF Call
<1> QED
  BY <1>2, <1>3 DEF TypeOK

LEMMA ReclaimFields ==
    ASSUME TypeOK, NEW c \in Calls, Reclaim(c)
    PROVE  /\ call' \in [Calls -> Call]
           /\ call'[c].pc = "move" /\ call'[c].form = call[c].form /\ call'[c].old = call[c].old
           /\ call'[c].new = call[c].new
           /\ call'[c].reclaimed = (retired[call[c].new] = call[c].form)
           /\ \A d \in Calls \ {c} : call'[d] = call[d]
<1> DEFINE r == (retired[call[c].new] = call[c].form)
<1>1. call[c] \in Call /\ r \in BOOLEAN /\ "move" \in Steps
  BY DEF TypeOK, Steps, Checked
<1> HIDE DEF r
<1>2. [call[c] EXCEPT !.pc = "move", !.reclaimed = r] \in Call
  BY <1>1 DEF Call
<1>3. LET i == [call[c] EXCEPT !.pc = "move", !.reclaimed = r]
      IN  i.pc = "move" /\ i.form = call[c].form /\ i.old = call[c].old
          /\ i.new = call[c].new /\ i.reclaimed = r
  BY <1>1 DEF Call
<1>4. call' = [call EXCEPT ![c] = [call[c] EXCEPT !.pc = "move", !.reclaimed = r]]
  BY DEF Reclaim, r
<1> QED
  BY <1>2, <1>3, <1>4 DEF TypeOK, r

\* What TypeOK says of one call besides its record type.
CallTyped(c) ==
    /\ call[c].pc # "idle" => call[c].form \in Forms
    /\ call[c].pc \in Checking \cup Checked => call[c].new \in Slugs
    /\ call[c].pc \in {"retire", "reclaim", "move"} => call[c].old \in Slugs
    /\ call[c].pc = "insert" => call[c].old = NoSlug

FaultsTyped == faults \in 0..MaxFaults

\* The step does not start a second call on a form unless it says so.
StaysAlone(c) ==
    "sameForm" \notin slips' =>
        \/ call'[c].pc = "idle"
        \/ call[c].pc # "idle" /\ call'[c].form = call[c].form
        \/ ~Busy(call'[c].form)

(***************************************************************************)
(* A step that changes one call, and of the rest at most gives up links and *)
(* adds slips, has only that call to answer for.                            *)
(***************************************************************************)

LEMMA OneCallChanges ==
    ASSUME SlugInv, NEW c \in Calls,
           UNCHANGED <<live, retired>>,
           links' \in [Forms -> SUBSET Slugs],
           \A f \in Forms : links'[f] = links[f] \/ links'[f] = {},
           slips \subseteq slips', slips' \subseteq Hazards,
           FaultsTyped',
           call' \in [Calls -> Call],
           \A d \in Calls \ {c} : call'[d] = call[d],
           CallTyped(c)',
           CallInStep(c)',
           StaysAlone(c),
           slips' = {} /\ call'[c].pc \in {"reclaim", "move"}
               => retired[call'[c].old] = call'[c].form,
           slips' = {} /\ call'[c].pc \in Checked
               => retired[call'[c].new] \in {NoForm, call'[c].form},
           slips' = {} => ~call[c].reclaimed
    PROVE  SlugInv'
<1> USE DEF SlugInv
<1>1. TypeOK'
  <2>1. \A d \in Calls : CallTyped(d)'
    BY DEF TypeOK, CallTyped
  <2> QED
    BY <2>1 DEF TypeOK, CallTyped, FaultsTyped
<1>2. UniqueLive'
  BY DEF UniqueLive, Exists
<1>3. OneCallAForm'
  BY DEF OneCallAForm, Busy, StaysAlone
<1>4. ASSUME NEW d \in Calls
      PROVE  CallInStep(d)'
  <2>1. CASE d = c
    BY <2>1
  <2>2. CASE d # c
    <3>1. call'[d] = call[d] /\ CallInStep(d)
      BY <2>2
    <3>2. call[d].pc \in {"unalias", "drop"} => call[d].form \in Forms
      BY DEF TypeOK
    <3> QED
      BY <3>1, <3>2 DEF CallInStep, Exists
  <2> QED
    BY <2>1, <2>2
<1>5. RetiredFirst'
  BY DEF RetiredFirst
<1>6. RetiredIsReserved'
  <2> SUFFICES ASSUME slips' = {}, NEW s \in Slugs, retired[s] # NoForm
               PROVE  /\ \A f \in Forms : live[f] = s => f = retired[s]
                      /\ \A d \in Calls : call'[d].pc \in Checked /\ call'[d].new = s
                            => call'[d].form = retired[s]
    BY DEF RetiredIsReserved
  <2>1. slips = {}
    OBVIOUS
  <2> QED
    BY <2>1 DEF RetiredIsReserved
<1>7. LinksKept'
  <2> SUFFICES ASSUME slips' = {}, NEW f \in Forms, NEW s \in links'[f]
               PROVE  Answers(f, s)' \/ Reclaiming(f, s)'
    BY DEF LinksKept, LinksAnswered
  <2>1. slips = {} /\ s \in links[f]
    OBVIOUS
  <2>2. Answers(f, s) \/ Reclaiming(f, s)
    BY <2>1 DEF LinksKept, LinksAnswered
  <2>3. CASE Answers(f, s)
    BY <2>3 DEF Answers
  <2>4. CASE Reclaiming(f, s)
    BY <2>4 DEF Reclaiming
  <2> QED
    BY <2>2, <2>3, <2>4
<1>8. DeletedFreesSlugs'
  BY DEF DeletedFreesSlugs, Exists
<1> QED
  BY <1>1, <1>2, <1>3, <1>4, <1>5, <1>6, <1>7, <1>8

LEMMA CreateFormInv ==
    ASSUME SlugInv, NEW c \in Calls, NEW f \in Forms, NEW s \in Slugs, CreateForm(c, f, s)
    PROVE  SlugInv'
<1>1. TypeOK /\ CallInStep(c)
  BY DEF SlugInv
<1>2. /\ call' \in [Calls -> Call]
      /\ call'[c].pc = "checkLive" /\ call'[c].form = f /\ call'[c].old = NoSlug
      /\ call'[c].new = s /\ ~call'[c].reclaimed
      /\ \A d \in Calls \ {c} : call'[d] = call[d]
  BY <1>1, CreateFields
<1>3. CallTyped(c)' /\ CallInStep(c)'
  BY <1>2 DEF CallTyped, CallInStep, Checking, Checked, CreateForm
<1>4. ~call[c].reclaimed /\ StaysAlone(c) /\ call'[c].pc \notin Checked
  BY <1>1, <1>2 DEF CallInStep, CreateForm, Checked, StaysAlone
<1>5. UNCHANGED <<live, retired, links, slips, faults>>
  BY DEF CreateForm
<1> QED
  BY <1>1, <1>2, <1>3, <1>4, <1>5, OneCallChanges DEF TypeOK, Checked, FaultsTyped

LEMMA SlipFacts ==
    ASSUME TypeOK, NEW hazard \in Hazards, NEW met, Slip(hazard, met)
    PROVE  /\ slips \subseteq slips' /\ slips' \subseteq Hazards
           /\ met => hazard \in slips'
  BY DEF Slip, TypeOK

LEMMA SetFormSlugInv ==
    ASSUME SlugInv, NEW c \in Calls, NEW f \in Forms, NEW s \in Slugs, SetFormSlug(c, f, s)
    PROVE  SlugInv'
<1>1. TypeOK /\ CallInStep(c)
  BY DEF SlugInv
<1>2. /\ call' \in [Calls -> Call]
      /\ call'[c].pc = "checkLive" /\ call'[c].form = f /\ call'[c].old = live[f]
      /\ call'[c].new = s /\ ~call'[c].reclaimed
      /\ \A d \in Calls \ {c} : call'[d] = call[d]
  BY <1>1, RenameFields
<1>3. CallTyped(c)' /\ CallInStep(c)'
  BY <1>2 DEF CallTyped, CallInStep, Checking, Checked, SetFormSlug
<1>4. ~call[c].reclaimed /\ call'[c].pc \notin Checked
  BY <1>1, <1>2 DEF CallInStep, SetFormSlug, Checked
<1>5. UNCHANGED <<live, retired, links, faults>>
  BY DEF SetFormSlug
<1>6. /\ slips \subseteq slips' /\ slips' \subseteq Hazards
      /\ StaysAlone(c)
  BY <1>1, <1>2, SlipFacts DEF SetFormSlug, Hazards, StaysAlone
<1> QED
  BY <1>1, <1>2, <1>3, <1>4, <1>5, <1>6, OneCallChanges DEF TypeOK, Checked, FaultsTyped

LEMMA DeleteFormInv ==
    ASSUME SlugInv, NEW c \in Calls, NEW f \in Forms, DeleteForm(c, f)
    PROVE  SlugInv'
<1>1. TypeOK /\ CallInStep(c)
  BY DEF SlugInv
<1>2. /\ call' \in [Calls -> Call]
      /\ call'[c].pc = "unalias" /\ call'[c].form = f /\ ~call'[c].reclaimed
      /\ \A d \in Calls \ {c} : call'[d] = call[d]
  BY <1>1, DeleteFields
<1>3. /\ links' \in [Forms -> SUBSET Slugs] /\ links'[f] = {}
      /\ \A g \in Forms : links'[g] = links[g] \/ links'[g] = {}
  BY <1>1 DEF TypeOK, DeleteForm
<1>4. CallTyped(c)' /\ CallInStep(c)'
  BY <1>2, <1>3 DEF CallTyped, CallInStep, Checking, Checked, DeleteForm, Exists
<1>5. ~call[c].reclaimed /\ call'[c].pc \notin Checked
  BY <1>1, <1>2 DEF CallInStep, DeleteForm, Checked
<1>6. UNCHANGED <<live, retired, faults>>
  BY DEF DeleteForm
<1>7. /\ slips \subseteq slips' /\ slips' \subseteq Hazards
      /\ StaysAlone(c)
  BY <1>1, <1>2, SlipFacts DEF DeleteForm, Hazards, StaysAlone
<1> QED
  BY <1>1, <1>2, <1>3, <1>4, <1>5, <1>6, <1>7, OneCallChanges DEF TypeOK, Checked, FaultsTyped

\* A call that answers its client is no longer there.
LEMMA ReturnInv ==
    ASSUME SlugInv, NEW c \in Calls, Return(c),
           UNCHANGED <<live, retired, links>>,
           slips \subseteq slips', slips' \subseteq Hazards, FaultsTyped',
           slips' = {} => ~call[c].reclaimed
    PROVE  SlugInv'
<1>1. TypeOK
  BY DEF SlugInv
<1>2. /\ call' \in [Calls -> Call]
      /\ call'[c].pc = "idle" /\ ~call'[c].reclaimed
      /\ \A d \in Calls \ {c} : call'[d] = call[d]
  BY <1>1, ReturnFields
<1>3. CallTyped(c)' /\ CallInStep(c)'
  BY <1>2 DEF CallTyped, CallInStep, Checking, Checked
<1>4. call'[c].pc \notin Checked /\ call'[c].pc \notin {"reclaim", "move"} /\ StaysAlone(c)
  BY <1>2 DEF Checked, StaysAlone
<1>5. links' \in [Forms -> SUBSET Slugs] /\ \A f \in Forms : links'[f] = links[f]
  BY <1>1 DEF TypeOK
<1> QED
  BY <1>2, <1>3, <1>4, <1>5, OneCallChanges

\* A call that goes on to its next statement without a write.
LEMMA GotoInv ==
    ASSUME SlugInv, NEW c \in Calls, call[c].pc \in Checking,
           NEW pc \in {"checkRetired", "retire", "insert"}, Goto(c, pc),
           UNCHANGED <<live, retired, links, slips, faults>>,
           pc = "retire" => call[c].old # NoSlug,
           pc = "insert" => call[c].old = NoSlug,
           pc \in Checked /\ slips = {} => retired[call[c].new] \in {NoForm, call[c].form}
    PROVE  SlugInv'
<1>1. TypeOK /\ CallInStep(c)
  BY DEF SlugInv
<1>2. call[c].old \in Slugs \cup {NoSlug} /\ pc \in Steps
  BY <1>1 DEF TypeOK, Call, Steps, Checking, Checked
<1>3. /\ call' \in [Calls -> Call]
      /\ call'[c].pc = pc /\ call'[c].form = call[c].form /\ call'[c].old = call[c].old
      /\ call'[c].new = call[c].new /\ call'[c].reclaimed = call[c].reclaimed
      /\ \A d \in Calls \ {c} : call'[d] = call[d]
  BY <1>1, <1>2, GotoFields
<1>4. CallTyped(c)' /\ CallInStep(c)' /\ ~call[c].reclaimed
  BY <1>1, <1>2, <1>3 DEF TypeOK, CallTyped, CallInStep, Checking, Checked
<1>5. StaysAlone(c) /\ call'[c].pc \notin {"reclaim", "move"}
  BY <1>3 DEF Checking, StaysAlone
<1> QED
  BY <1>1, <1>3, <1>4, <1>5, OneCallChanges DEF TypeOK, FaultsTyped

\* A create that goes on to its next candidate.
LEMMA CandidateInv ==
    ASSUME SlugInv, NEW c \in Calls, call[c].pc \in Checking \cup {"insert"},
           call[c].old = NoSlug, NEW n \in Slugs, NEW t \in 0..InsertAttempts,
           call' = [call EXCEPT ![c] = [call[c] EXCEPT !.pc = "checkLive", !.new = n, !.tries = t]],
           UNCHANGED <<live, retired, links, slips, faults>>
    PROVE  SlugInv'
<1>1. TypeOK /\ CallInStep(c)
  BY DEF SlugInv
<1>2. /\ call' \in [Calls -> Call]
      /\ call'[c].pc = "checkLive" /\ call'[c].form = call[c].form
      /\ call'[c].old = NoSlug /\ call'[c].new = n
      /\ call'[c].reclaimed = call[c].reclaimed
      /\ \A d \in Calls \ {c} : call'[d] = call[d]
  BY <1>1, CandidateFields
<1>3. CallTyped(c)' /\ CallInStep(c)' /\ ~call[c].reclaimed
  BY <1>1, <1>2 DEF TypeOK, CallTyped, CallInStep, Checking, Checked
<1>4. StaysAlone(c) /\ call'[c].pc \notin Checked
  BY <1>2 DEF Checking, Checked, StaysAlone
<1> QED
  BY <1>1, <1>2, <1>3, <1>4, OneCallChanges DEF TypeOK, Checked, FaultsTyped

(***************************************************************************)
(* formSlugInUse.                                                           *)
(***************************************************************************)

LEMMA TakenInv ==
    ASSUME SlugInv, NEW c \in Calls, call[c].pc \in Checking, Taken(c),
           UNCHANGED <<live, retired, links, slips, faults>>
    PROVE  SlugInv'
<1>1. TypeOK /\ CallInStep(c)
  BY DEF SlugInv
<1>2. CASE call[c].old # NoSlug
  <2>1. Return(c) /\ ~call[c].reclaimed
    BY <1>1, <1>2 DEF Taken, CallInStep, Checking
  <2>2. slips \subseteq slips' /\ slips' \subseteq Hazards /\ FaultsTyped'
    BY <1>1 DEF TypeOK, FaultsTyped
  <2> QED
    BY <2>1, <2>2, ReturnInv
<1>3. CASE call[c].old = NoSlug
  <2>1. PICK s \in Slugs :
           call' = [call EXCEPT ![c] = [call[c] EXCEPT !.pc = "checkLive", !.new = s]]
    BY <1>3 DEF Taken
  <2>2. call[c] \in Call
    BY <1>1 DEF TypeOK
  <2>3. call[c].tries \in 0..InsertAttempts
    BY <2>2 DEF Call
  <2>4. [call[c] EXCEPT !.pc = "checkLive", !.new = s]
          = [call[c] EXCEPT !.pc = "checkLive", !.new = s, !.tries = call[c].tries]
    BY <2>2 DEF Call
  <2>5. call' = [call EXCEPT ![c] = [call[c] EXCEPT !.pc = "checkLive", !.new = s,
                                                    !.tries = call[c].tries]]
    BY <2>1, <2>4
  <2> QED
    BY <1>3, <2>3, <2>5, CandidateInv
<1> QED
  BY <1>2, <1>3

LEMMA FreeInv ==
    ASSUME SlugInv, NEW c \in Calls, call[c].pc \in Checking, Free(c),
           UNCHANGED <<live, retired, links, slips, faults>>,
           slips = {} => retired[call[c].new] \in {NoForm, call[c].form}
    PROVE  SlugInv'
<1>1. CASE call[c].old # NoSlug
  <2>1. Goto(c, "retire")
    BY <1>1 DEF Free
  <2> QED
    BY <1>1, <2>1, GotoInv
<1>2. CASE call[c].old = NoSlug
  <2>1. Goto(c, "insert")
    BY <1>2 DEF Free
  <2> QED
    BY <1>2, <2>1, GotoInv
<1> QED
  BY <1>1, <1>2

LEMMA CheckLiveInv ==
    ASSUME SlugInv, NEW c \in Calls, CheckLive(c)
    PROVE  SlugInv'
<1>1. call[c].pc \in Checking /\ UNCHANGED <<live, retired, links, slips, faults>>
  BY DEF CheckLive, Checking
<1>2. CASE Taken(c)
  BY <1>1, <1>2, TakenInv
<1>3. CASE live[call[c].form] = call[c].new /\ Free(c)
  <2>1. call[c].form \in Forms /\ call[c].new \in Slugs
    BY <1>1 DEF SlugInv, TypeOK, CheckLive, Checking
  <2>2. slips = {} => retired[call[c].new] \in {NoForm, call[c].form}
    BY <1>3, <2>1 DEF SlugInv, RetiredIsReserved
  <2> QED
    BY <1>1, <1>3, <2>2, FreeInv
<1>4. CASE Goto(c, "checkRetired")
  <2>1. "checkRetired" \notin Checked
    BY DEF Checked
  <2> QED
    BY <1>1, <1>4, <2>1, GotoInv
<1> QED
  BY <1>2, <1>3, <1>4 DEF CheckLive

LEMMA CheckRetiredInv ==
    ASSUME SlugInv, NEW c \in Calls, CheckRetired(c)
    PROVE  SlugInv'
<1>1. call[c].pc \in Checking /\ UNCHANGED <<live, retired, links, slips, faults>>
  BY DEF CheckRetired, Checking
<1>2. CASE retired[call[c].new] \in {NoForm, call[c].form}
  BY <1>1, <1>2, FreeInv DEF CheckRetired
<1>3. CASE retired[call[c].new] \notin {NoForm, call[c].form}
  BY <1>1, <1>3, TakenInv DEF CheckRetired
<1> QED
  BY <1>2, <1>3

(***************************************************************************)
(* The statements that fail.                                                *)
(***************************************************************************)

LEMMA RetireFailsInv ==
    ASSUME SlugInv, NEW c \in Calls, RetireFails(c)
    PROVE  SlugInv'
<1>1. TypeOK /\ CallInStep(c) /\ "reclaim" \in Steps
  BY DEF SlugInv, Steps, Checked
<1>2. /\ call' \in [Calls -> Call]
      /\ call'[c].pc = "reclaim" /\ call'[c].form = call[c].form /\ call'[c].old = call[c].old
      /\ call'[c].new = call[c].new /\ call'[c].reclaimed = call[c].reclaimed
      /\ \A d \in Calls \ {c} : call'[d] = call[d]
  BY <1>1, GotoFields DEF RetireFails
<1>3. /\ slips \subseteq slips' /\ slips' \subseteq Hazards /\ slips' # {}
      /\ "sameForm" \in slips' => "sameForm" \in slips
  BY <1>1 DEF RetireFails, Slip, Hazards, TypeOK
<1>4. CallTyped(c)' /\ ~call[c].reclaimed /\ StaysAlone(c)
  BY <1>1, <1>2 DEF TypeOK, CallTyped, CallInStep, Checking, Checked, RetireFails, StaysAlone
<1>5. UNCHANGED <<live, retired, links>>
  BY DEF RetireFails
<1>6. CallInStep(c)'
  BY <1>1, <1>2, <1>3, <1>5 DEF CallInStep, Checking, Checked, RetireFails
<1>7. FaultsTyped' /\ links \in [Forms -> SUBSET Slugs]
  BY <1>1 DEF RetireFails, SpendFault, FaultsTyped, TypeOK
<1> QED
  BY <1>2, <1>3, <1>4, <1>5, <1>6, <1>7, OneCallChanges

LEMMA DieInv ==
    ASSUME SlugInv, NEW c \in Calls, Die(c)
    PROVE  SlugInv'
<1>1. TypeOK
  BY DEF SlugInv
<1>2. /\ slips \subseteq slips' /\ slips' \subseteq Hazards
      /\ slips' = {} => ~call[c].reclaimed
  BY <1>1, SlipFacts DEF Die, Hazards
<1>3. FaultsTyped'
  BY <1>1 DEF Die, SpendFault, FaultsTyped, TypeOK
<1>4. Return(c) /\ UNCHANGED <<live, retired, links>>
  BY DEF Die
<1> QED
  BY <1>2, <1>3, <1>4, ReturnInv

(***************************************************************************)
(* The statements that write.                                               *)
(***************************************************************************)

\* Another call is not on the form of the call that steps.
LEMMA OthersElsewhere ==
    ASSUME OneCallAForm, "sameForm" \notin slips, NEW c \in Calls, call[c].pc # "idle",
           NEW d \in Calls, d # c, call[d].pc # "idle"
    PROVE  call[d].form # call[c].form
  BY DEF OneCallAForm

\* The INSERT of a create and the UPDATE of a rename, when they succeed.
LEMMA BecomeLiveInv ==
    ASSUME SlugInv, NEW c \in Calls, call[c].pc \in {"insert", "move"},
           FreeInIndex(c), BecomeLive(c), Return(c), UNCHANGED <<retired, slips, faults>>
    PROVE  SlugInv'
<1> DEFINE F == call[c].form
           N == call[c].new
<1>1. TypeOK /\ UniqueLive /\ OneCallAForm /\ RetiredFirst /\ RetiredIsReserved
      /\ \A d \in Calls : CallInStep(d)
  BY DEF SlugInv
<1>2. F \in Forms /\ N \in Slugs /\ call[c].pc # "idle" /\ call[c].pc \in Checked
  BY <1>1 DEF TypeOK, Checked
<1>3. /\ call' \in [Calls -> Call]
      /\ call'[c].pc = "idle" /\ ~call'[c].reclaimed
      /\ \A d \in Calls \ {c} : call'[d] = call[d]
  BY <1>1, ReturnFields
<1>4. /\ live' \in [Forms -> Slugs \cup {NoSlug, Deleted}] /\ live'[F] = N
      /\ \A f \in Forms \ {F} : live'[f] = live[f]
      /\ links' \in [Forms -> SUBSET Slugs] /\ links'[F] = links[F] \cup {N}
      /\ \A f \in Forms \ {F} : links'[f] = links[f]
  BY <1>1, <1>2 DEF BecomeLive, TypeOK
<1>5. "sameForm" \notin slips => \A d \in Calls \ {c} : call[d].pc # "idle" => call[d].form # F
  BY <1>1, <1>2, OthersElsewhere
<1> HIDE DEF F, N
<1>a. TypeOK'
  <2>1. \A d \in Calls : CallTyped(d)'
    BY <1>1, <1>3 DEF TypeOK, CallTyped, Checking, Checked
  <2> QED
    BY <1>1, <1>3, <1>4, <2>1 DEF TypeOK, CallTyped
<1>b. UniqueLive'
  BY <1>1, <1>2, <1>4 DEF UniqueLive, Exists, FreeInIndex, F, N
<1>c. OneCallAForm'
  BY <1>1, <1>3 DEF OneCallAForm
<1>d. ASSUME NEW d \in Calls
      PROVE  CallInStep(d)'
  <2>1. CASE d = c
    BY <1>3, <2>1 DEF CallInStep, Checking, Checked
  <2>2. CASE d # c
    <3>1. call'[d] = call[d] /\ CallInStep(d) /\ (call[d].pc # "idle" => call[d].form \in Forms)
      BY <1>1, <1>3, <2>2 DEF TypeOK
    <3>2. "sameForm" \notin slips /\ call[d].pc # "idle"
             => live'[call[d].form] = live[call[d].form] /\ links'[call[d].form] = links[call[d].form]
      BY <1>4, <1>5, <2>2, <3>1
    <3> QED
      BY <3>1, <3>2 DEF CallInStep, Exists, Checking, Checked
  <2> QED
    BY <2>1, <2>2
<1>e. RetiredFirst'
  BY <1>1, <1>3 DEF RetiredFirst
<1>f. RetiredIsReserved'
  <2> SUFFICES ASSUME slips = {}, NEW s \in Slugs, retired[s] # NoForm
               PROVE  /\ \A f \in Forms : live'[f] = s => f = retired[s]
                      /\ \A d \in Calls : call'[d].pc \in Checked /\ call'[d].new = s
                            => call'[d].form = retired[s]
    BY DEF RetiredIsReserved
  <2>1. N = s => F = retired[s]
    BY <1>1, <1>2 DEF RetiredIsReserved, F, N
  <2>2. ASSUME NEW f \in Forms, live'[f] = s
        PROVE  f = retired[s]
    BY <1>1, <1>4, <2>1, <2>2 DEF RetiredIsReserved
  <2>3. "idle" \notin Checked
    BY DEF Checked
  <2> QED
    BY <1>1, <1>3, <2>2, <2>3 DEF RetiredIsReserved
<1>g. LinksKept'
  <2> SUFFICES ASSUME slips = {}, NEW f \in Forms, NEW s \in links'[f]
               PROVE  Answers(f, s)' \/ Reclaiming(f, s)'
    BY DEF LinksKept, LinksAnswered
  <2>0. s \in Slugs
    BY <1>4
  <2>1. CASE f = F /\ s = N
    BY <1>4, <2>1 DEF Answers
  <2>2. CASE f = F /\ s # N
    <3>1. s \in links[f] /\ (Answers(f, s) \/ Reclaiming(f, s))
      BY <1>2, <1>4, <2>2 DEF SlugInv, LinksKept, LinksAnswered
    <3>2. ~Reclaiming(f, s)
      <4> SUFFICES ASSUME NEW d \in Calls, call[d].form = f, call[d].new = s, call[d].reclaimed
                   PROVE  FALSE
        BY DEF Reclaiming
      <4>1. d # c
        BY <2>2 DEF N
      <4>2. call[d].pc # "idle"
        BY <1>1 DEF CallInStep
      <4> QED
        BY <1>5, <2>2, <4>1, <4>2
    <3>3. CASE live[f] = s
      <4>1. CallInStep(c)
        BY <1>1
      <4>2. call[c].old = s
        BY <1>2, <2>2, <3>3, <4>1 DEF CallInStep, F
      <4>3. call[c].pc = "move"
        BY <1>1, <2>0, <4>2 DEF TypeOK
      <4>4. retired[s] = F
        BY <1>1, <4>2, <4>3 DEF RetiredFirst, F
      <4>5. \A g \in Forms : live'[g] # s
        BY <1>1, <1>4, <2>0, <2>2, <3>3 DEF UniqueLive, Exists
      <4> QED
        BY <2>2, <4>4, <4>5 DEF Answers
    <3>4. CASE retired[s] = f /\ \A g \in Forms : live[g] # s
      BY <1>4, <2>2, <3>4 DEF Answers
    <3> QED
      BY <3>1, <3>2, <3>3, <3>4 DEF Answers
  <2>3. CASE f # F
    <3>1. s \in links[f] /\ (Answers(f, s) \/ Reclaiming(f, s))
      BY <1>4, <2>3 DEF SlugInv, LinksKept, LinksAnswered
    <3>2. CASE Answers(f, s)
      <4>1. retired[s] = f => s # N
        BY <1>1, <1>2, <2>0, <2>3 DEF RetiredIsReserved, F, N
      <4> QED
        BY <1>4, <2>3, <3>2, <4>1 DEF Answers
    <3>3. CASE Reclaiming(f, s)
      BY <1>3, <2>3, <3>3 DEF Reclaiming, F
    <3> QED
      BY <3>1, <3>2, <3>3
  <2> QED
    BY <2>1, <2>2, <2>3
<1>h. DeletedFreesSlugs'
  <2> SUFFICES ASSUME "sameForm" \notin slips, NEW s \in Slugs, retired[s] # NoForm
               PROVE  Exists(retired[s])'
    BY DEF DeletedFreesSlugs
  <2>1. Exists(retired[s]) /\ retired[s] \in Forms
    BY <1>1 DEF SlugInv, DeletedFreesSlugs, TypeOK
  <2> QED
    BY <1>2, <1>4, <2>1 DEF Exists
<1> QED
  BY <1>a, <1>b, <1>c, <1>d, <1>e, <1>f, <1>g, <1>h DEF SlugInv

LEMMA InsertInv ==
    ASSUME SlugInv, NEW c \in Calls, Insert(c)
    PROVE  SlugInv'
<1>1. TypeOK /\ CallInStep(c)
  BY DEF SlugInv
<1>2. CASE FreeInIndex(c)
  BY <1>2, BecomeLiveInv DEF Insert
<1>3. CASE ~FreeInIndex(c) /\ call[c].tries + 1 < InsertAttempts
  <2>1. call[c].old = NoSlug /\ UNCHANGED <<live, retired, links, slips, faults>>
    BY <1>1, <1>3 DEF Insert, TypeOK
  <2>2. PICK s \in Slugs :
           call' = [call EXCEPT ![c] = [call[c] EXCEPT !.pc = "checkLive", !.new = s,
                                                       !.tries = call[c].tries + 1]]
    BY <1>3 DEF Insert
  <2>3. call[c] \in Call
    BY <1>1 DEF TypeOK
  <2>4. call[c].tries \in 0..InsertAttempts
    BY <2>3 DEF Call
  <2>5. call[c].tries + 1 \in 0..InsertAttempts
    BY <1>3, <2>4 DEF InsertAttempts
  <2>6. call[c].pc = "insert"
    BY DEF Insert
  <2> QED
    BY <2>1, <2>2, <2>5, <2>6, CandidateInv
<1>4. CASE ~FreeInIndex(c) /\ ~(call[c].tries + 1 < InsertAttempts)
  <2>1. Return(c) /\ ~call[c].reclaimed /\ UNCHANGED <<live, retired, links, slips, faults>>
    BY <1>1, <1>4 DEF Insert, CallInStep
  <2>2. slips \subseteq slips' /\ slips' \subseteq Hazards /\ FaultsTyped'
    BY <1>1, <2>1 DEF TypeOK, FaultsTyped
  <2> QED
    BY <2>1, <2>2, ReturnInv
<1> QED
  BY <1>2, <1>3, <1>4

LEMMA MoveInv ==
    ASSUME SlugInv, NEW c \in Calls, Move(c)
    PROVE  SlugInv'
<1>1. TypeOK
  BY DEF SlugInv
<1>2. CASE Exists(call[c].form) /\ FreeInIndex(c)
  BY <1>2, BecomeLiveInv DEF Move
<1>3. CASE ~(Exists(call[c].form) /\ FreeInIndex(c))
  <2>1. Return(c) /\ Slip("reclaim", call[c].reclaimed) /\ UNCHANGED <<live, retired, links, faults>>
    BY <1>3 DEF Move
  <2>2. /\ slips \subseteq slips' /\ slips' \subseteq Hazards
        /\ slips' = {} => ~call[c].reclaimed
    BY <1>1, <2>1, SlipFacts DEF Hazards
  <2>3. FaultsTyped'
    BY <1>1, <2>1 DEF TypeOK, FaultsTyped
  <2> QED
    BY <2>1, <2>2, <2>3, ReturnInv
<1> QED
  BY <1>2, <1>3

LEMMA RetireInv ==
    ASSUME SlugInv, NEW c \in Calls, Retire(c)
    PROVE  SlugInv'
<1> DEFINE F == call[c].form
           O == call[c].old
           stale == \E d \in Calls : /\ call[d].pc \in Checked
                                     /\ call[d].form # call[c].form
                                     /\ call[d].new = call[c].old
<1>1. TypeOK /\ UniqueLive /\ OneCallAForm /\ RetiredFirst /\ RetiredIsReserved
      /\ DeletedFreesSlugs /\ \A d \in Calls : CallInStep(d)
  BY DEF SlugInv
<1>2. /\ F \in Forms /\ F # NoForm /\ O \in Slugs /\ O # call[c].new /\ call[c].pc # "idle"
      /\ "sameForm" \notin slips => live[F] = O
      /\ ~call[c].reclaimed
  BY <1>1 DEF TypeOK, CallInStep, Checking, Checked, Retire
<1>3. /\ call' \in [Calls -> Call]
      /\ call'[c].pc = "reclaim" /\ call'[c].form = F /\ call'[c].old = O
      /\ call'[c].new = call[c].new /\ call'[c].reclaimed = call[c].reclaimed
      /\ \A d \in Calls \ {c} : call'[d] = call[d]
  <2>1. "reclaim" \in Steps
    BY DEF Steps, Checked
  <2> QED
    BY <1>1, <2>1, GotoFields DEF Retire
<1>4. /\ retired' \in [Slugs -> Forms \cup {NoForm}]
      /\ retired'[O] = IF retired[O] = NoForm THEN F ELSE retired[O]
      /\ \A s \in Slugs \ {O} : retired'[s] = retired[s]
  BY <1>1, <1>2 DEF Retire, TypeOK
<1>5. slips \subseteq slips' /\ slips' \subseteq Hazards /\ (slips' = {} => ~stale)
      /\ ("sameForm" \in slips' => "sameForm" \in slips)
  BY <1>1 DEF Retire, Slip, Hazards, TypeOK
<1>6. UNCHANGED <<live, links, faults>>
  BY DEF Retire
<1>7. "sameForm" \notin slips => \A d \in Calls \ {c} : call[d].pc # "idle" => call[d].form # F
  BY <1>1, <1>2, OthersElsewhere
<1>8. slips = {} /\ retired[O] # NoForm => retired[O] = F
  BY <1>1, <1>2 DEF RetiredIsReserved
<1>9. \A d \in Calls : slips' = {} /\ call[d].pc \in Checked /\ call[d].new = O => call[d].form = F
  BY <1>5
<1> HIDE DEF F, O, stale
<1>a. TypeOK'
  <2>1. \A d \in Calls : CallTyped(d)'
    BY <1>1, <1>2, <1>3 DEF TypeOK, CallTyped, Checking, Checked, Retire
  <2> QED
    BY <1>1, <1>3, <1>4, <1>5, <1>6, <2>1 DEF TypeOK, CallTyped
<1>b. UniqueLive'
  BY <1>1, <1>6 DEF UniqueLive, Exists
<1>c. OneCallAForm'
  BY <1>1, <1>2, <1>3, <1>5 DEF OneCallAForm, F
<1>d. ASSUME NEW d \in Calls
      PROVE  CallInStep(d)'
  <2>1. CASE d = c
    BY <1>2, <1>3, <1>5, <1>6, <2>1 DEF CallInStep, Checking, Checked
  <2>2. CASE d # c
    <3>1. call'[d] = call[d] /\ CallInStep(d)
      BY <1>1, <1>3, <2>2
    <3>2. "sameForm" \notin slips /\ call[d].pc = "drop"
             => \A s \in Slugs : retired'[s] # call[d].form
      BY <1>4, <1>7, <2>2, <3>1 DEF CallInStep
    <3> QED
      BY <1>5, <1>6, <3>1, <3>2 DEF CallInStep, Exists, Checking, Checked
  <2> QED
    BY <2>1, <2>2
<1>e. RetiredFirst'
  <2> SUFFICES ASSUME slips' = {}, NEW d \in Calls, call'[d].pc \in {"reclaim", "move"}
               PROVE  retired'[call'[d].old] = call'[d].form
    BY DEF RetiredFirst
  <2>1. slips = {}
    BY <1>5
  <2>2. CASE d = c
    BY <1>3, <1>4, <1>8, <2>1, <2>2
  <2>3. CASE d # c
    <3>1. /\ call'[d] = call[d] /\ retired[call[d].old] = call[d].form
          /\ call[d].form \in Forms /\ call[d].old \in Slugs
      BY <1>1, <1>3, <2>1, <2>3 DEF RetiredFirst, TypeOK
    <3>2. call[d].form # NoForm
      BY <3>1
    <3> QED
      BY <1>4, <3>1, <3>2
  <2> QED
    BY <2>2, <2>3
<1>f. RetiredIsReserved'
  <2> SUFFICES ASSUME slips' = {}, NEW s \in Slugs, retired'[s] # NoForm
               PROVE  /\ \A f \in Forms : live[f] = s => f = retired'[s]
                      /\ \A d \in Calls : call'[d].pc \in Checked /\ call'[d].new = s
                            => call'[d].form = retired'[s]
    BY <1>6 DEF RetiredIsReserved
  <2>1. slips = {}
    BY <1>5
  <2>2. CASE s = O
    <3>1. retired'[s] = F /\ live[F] = O
      BY <1>2, <1>4, <1>8, <2>1, <2>2
    <3>2. \A f \in Forms : live[f] = s => f = F
      BY <1>1, <1>2, <2>2, <3>1 DEF UniqueLive, Exists
    <3>3. ASSUME NEW d \in Calls, call'[d].pc \in Checked, call'[d].new = s
          PROVE  call'[d].form = F
      BY <1>2, <1>3, <1>9, <2>2, <3>3
    <3> QED
      BY <3>1, <3>2, <3>3
  <2>3. CASE s # O
    <3>1. retired'[s] = retired[s]
      BY <1>4, <2>3
    <3>2. ASSUME NEW d \in Calls, call'[d].pc \in Checked, call'[d].new = s
          PROVE  call[d].pc \in Checked /\ call[d].new = s /\ call'[d].form = call[d].form
      BY <1>3, <3>2 DEF F, Retire, Checked
    <3> QED
      BY <1>1, <2>1, <3>1, <3>2 DEF RetiredIsReserved
  <2> QED
    BY <2>2, <2>3
<1>g. LinksKept'
  <2> SUFFICES ASSUME slips' = {}, NEW f \in Forms, NEW s \in links[f]
               PROVE  Answers(f, s)' \/ Reclaiming(f, s)'
    BY <1>6 DEF LinksKept, LinksAnswered
  <2>1. s \in Slugs /\ (Answers(f, s) \/ Reclaiming(f, s))
    BY <1>1, <1>5 DEF SlugInv, LinksKept, LinksAnswered, TypeOK
  <2>2. CASE Answers(f, s)
    <3>1. f # NoForm
      OBVIOUS
    <3> QED
      BY <1>4, <1>6, <2>1, <2>2, <3>1 DEF Answers
  <2>3. CASE Reclaiming(f, s)
    BY <1>2, <1>3, <2>3 DEF Reclaiming
  <2> QED
    BY <2>1, <2>2, <2>3
<1>h. DeletedFreesSlugs'
  <2> SUFFICES ASSUME "sameForm" \notin slips', NEW s \in Slugs, retired'[s] # NoForm
               PROVE  Exists(retired'[s])
    BY <1>6 DEF DeletedFreesSlugs, Exists
  <2>1. "sameForm" \notin slips
    BY <1>5
  <2> QED
    BY <1>1, <1>2, <1>4, <2>1 DEF DeletedFreesSlugs, Exists
<1> QED
  BY <1>a, <1>b, <1>c, <1>d, <1>e, <1>f, <1>g, <1>h DEF SlugInv

LEMMA ReclaimInv ==
    ASSUME SlugInv, NEW c \in Calls, Reclaim(c)
    PROVE  SlugInv'
<1> DEFINE F == call[c].form
           N == call[c].new
<1>1. TypeOK /\ UniqueLive /\ OneCallAForm /\ RetiredFirst /\ RetiredIsReserved
      /\ DeletedFreesSlugs /\ \A d \in Calls : CallInStep(d)
  BY DEF SlugInv
<1>2. /\ F \in Forms /\ F # NoForm /\ N \in Slugs /\ call[c].pc # "idle"
      /\ call[c].old \in Slugs /\ call[c].old # N /\ ~call[c].reclaimed
      /\ call[c].pc \in Checked /\ call[c].pc \in {"reclaim", "move"}
  BY <1>1 DEF TypeOK, CallInStep, Checking, Checked, Reclaim
<1>3. /\ call' \in [Calls -> Call]
      /\ call'[c].pc = "move" /\ call'[c].form = F /\ call'[c].old = call[c].old
      /\ call'[c].new = N /\ call'[c].reclaimed = (retired[N] = F)
      /\ \A d \in Calls \ {c} : call'[d] = call[d]
  BY <1>1, ReclaimFields
<1>4. /\ retired' \in [Slugs -> Forms \cup {NoForm}]
      /\ retired'[N] = IF retired[N] = F THEN NoForm ELSE retired[N]
      /\ \A s \in Slugs \ {N} : retired'[s] = retired[s]
  BY <1>1, <1>2 DEF Reclaim, TypeOK
<1>5. UNCHANGED <<live, links, slips, faults>>
  BY DEF Reclaim
<1>6. "sameForm" \notin slips => \A d \in Calls \ {c} : call[d].pc # "idle" => call[d].form # F
  BY <1>1, <1>2, OthersElsewhere
<1> HIDE DEF F, N
<1>a. TypeOK'
  <2>1. \A d \in Calls : CallTyped(d)'
    BY <1>1, <1>2, <1>3 DEF TypeOK, CallTyped, Checking, Checked
  <2> QED
    BY <1>1, <1>3, <1>4, <1>5, <2>1 DEF TypeOK, CallTyped
<1>b. UniqueLive'
  BY <1>1, <1>5 DEF UniqueLive, Exists
<1>c. OneCallAForm'
  BY <1>1, <1>2, <1>3, <1>5 DEF OneCallAForm, F
<1>d. ASSUME NEW d \in Calls
      PROVE  CallInStep(d)'
  <2>1. CASE d = c
    <3>1. CallInStep(c)
      BY <1>1
    <3>2. call[c].pc \in Checking \cup Checked
      BY <1>2
    <3> QED
      BY <1>2, <1>3, <1>5, <2>1, <3>1, <3>2 DEF CallInStep, Checking, Checked, F
  <2>2. CASE d # c
    <3>1. call'[d] = call[d] /\ CallInStep(d) /\ (call[d].pc # "idle" => call[d].form \in Forms)
      BY <1>1, <1>3, <2>2 DEF TypeOK
    <3>2. "sameForm" \notin slips /\ call[d].pc = "drop"
             => \A s \in Slugs : retired'[s] # call[d].form
      BY <1>4, <3>1 DEF CallInStep
    <3> QED
      BY <1>5, <3>1, <3>2 DEF CallInStep, Exists, Checking, Checked
  <2> QED
    BY <2>1, <2>2
<1>e. RetiredFirst'
  <2> SUFFICES ASSUME slips = {}, NEW d \in Calls, call'[d].pc \in {"reclaim", "move"}
               PROVE  retired'[call'[d].old] = call'[d].form
    BY <1>5 DEF RetiredFirst
  <2>1. CASE d = c
    <3>1. retired[call[c].old] = F
      BY <1>1, <1>2 DEF RetiredFirst, F
    <3> QED
      BY <1>2, <1>3, <1>4, <2>1, <3>1
  <2>2. CASE d # c
    <3>1. /\ call'[d] = call[d] /\ retired[call[d].old] = call[d].form
          /\ call[d].old \in Slugs /\ call[d].form # F
      BY <1>1, <1>3, <1>6, <2>2 DEF RetiredFirst, TypeOK
    <3> QED
      BY <1>4, <3>1
  <2> QED
    BY <2>1, <2>2
<1>f. RetiredIsReserved'
  <2> SUFFICES ASSUME slips = {}, NEW s \in Slugs, retired'[s] # NoForm
               PROVE  /\ \A f \in Forms : live[f] = s => f = retired'[s]
                      /\ \A d \in Calls : call'[d].pc \in Checked /\ call'[d].new = s
                            => call'[d].form = retired'[s]
    BY <1>5 DEF RetiredIsReserved
  <2>1. retired'[s] = retired[s]
    BY <1>4
  <2>2. ASSUME NEW d \in Calls, call'[d].pc \in Checked, call'[d].new = s
        PROVE  call[d].pc \in Checked /\ call[d].new = s /\ call'[d].form = call[d].form
    BY <1>2, <1>3, <2>2 DEF F, N
  <2> QED
    BY <1>1, <2>1, <2>2 DEF RetiredIsReserved
<1>g. LinksKept'
  <2> SUFFICES ASSUME slips = {}, NEW f \in Forms, NEW s \in links[f]
               PROVE  Answers(f, s)' \/ Reclaiming(f, s)'
    BY <1>5 DEF LinksKept, LinksAnswered
  <2>1. s \in Slugs /\ (Answers(f, s) \/ Reclaiming(f, s))
    BY <1>1 DEF SlugInv, LinksKept, LinksAnswered, TypeOK
  <2>2. CASE f = F /\ s = N /\ retired[N] = F
    BY <1>3, <2>2 DEF Reclaiming
  <2>3. CASE Answers(f, s) /\ ~(f = F /\ s = N /\ retired[N] = F)
    BY <1>4, <1>5, <2>1, <2>3 DEF Answers
  <2>4. CASE Reclaiming(f, s)
    BY <1>2, <1>3, <2>4 DEF Reclaiming
  <2> QED
    BY <2>1, <2>2, <2>3, <2>4
<1>h. DeletedFreesSlugs'
  BY <1>1, <1>4, <1>5 DEF DeletedFreesSlugs, Exists
<1> QED
  BY <1>a, <1>b, <1>c, <1>d, <1>e, <1>f, <1>g, <1>h DEF SlugInv

LEMMA UnaliasInv ==
    ASSUME SlugInv, NEW c \in Calls, Unalias(c)
    PROVE  SlugInv'
<1> DEFINE F == call[c].form
<1>1. TypeOK /\ UniqueLive /\ OneCallAForm /\ RetiredFirst /\ RetiredIsReserved
      /\ DeletedFreesSlugs /\ \A d \in Calls : CallInStep(d)
  BY DEF SlugInv
<1>2. /\ F \in Forms /\ F # NoForm /\ call[c].pc # "idle" /\ ~call[c].reclaimed
      /\ "sameForm" \notin slips => Exists(F) /\ links[F] = {}
  BY <1>1 DEF TypeOK, CallInStep, Unalias
<1>3. /\ call' \in [Calls -> Call]
      /\ call'[c].pc = "drop" /\ call'[c].form = F /\ call'[c].reclaimed = call[c].reclaimed
      /\ \A d \in Calls \ {c} : call'[d] = call[d]
  <2>1. "drop" \in Steps
    BY DEF Steps
  <2> QED
    BY <1>1, <2>1, GotoFields DEF Unalias
<1>4. /\ retired' \in [Slugs -> Forms \cup {NoForm}]
      /\ \A s \in Slugs : retired'[s] = IF retired[s] = F THEN NoForm ELSE retired[s]
  BY <1>1 DEF Unalias, TypeOK
<1>5. UNCHANGED <<live, links, slips, faults>>
  BY DEF Unalias
<1>6. "sameForm" \notin slips => \A d \in Calls \ {c} : call[d].pc # "idle" => call[d].form # F
  BY <1>1, <1>2, OthersElsewhere
<1> HIDE DEF F
<1>a. TypeOK'
  <2>1. \A d \in Calls : CallTyped(d)'
    BY <1>1, <1>2, <1>3 DEF TypeOK, CallTyped, Checking, Checked
  <2> QED
    BY <1>1, <1>3, <1>4, <1>5, <2>1 DEF TypeOK, CallTyped
<1>b. UniqueLive'
  BY <1>1, <1>5 DEF UniqueLive, Exists
<1>c. OneCallAForm'
  BY <1>1, <1>2, <1>3, <1>5 DEF OneCallAForm, F
<1>d. ASSUME NEW d \in Calls
      PROVE  CallInStep(d)'
  <2>1. CASE d = c
    <3>1. \A s \in Slugs : retired'[s] # F
      BY <1>2, <1>4
    <3> QED
      BY <1>2, <1>3, <1>5, <2>1, <3>1 DEF CallInStep, Checking, Checked, Exists
  <2>2. CASE d # c
    <3>1. call'[d] = call[d] /\ CallInStep(d) /\ (call[d].pc # "idle" => call[d].form \in Forms)
      BY <1>1, <1>3, <2>2 DEF TypeOK
    <3>2. "sameForm" \notin slips /\ call[d].pc = "drop"
             => \A s \in Slugs : retired'[s] # call[d].form
      BY <1>4, <3>1 DEF CallInStep
    <3> QED
      BY <1>5, <3>1, <3>2 DEF CallInStep, Exists, Checking, Checked
  <2> QED
    BY <2>1, <2>2
<1>e. RetiredFirst'
  <2> SUFFICES ASSUME slips = {}, NEW d \in Calls, call'[d].pc \in {"reclaim", "move"}
               PROVE  retired'[call'[d].old] = call'[d].form
    BY <1>5 DEF RetiredFirst
  <2>1. d # c
    BY <1>3
  <2>2. /\ call'[d] = call[d] /\ retired[call[d].old] = call[d].form
        /\ call[d].old \in Slugs /\ call[d].form # F
    BY <1>1, <1>3, <1>6, <2>1 DEF RetiredFirst, TypeOK
  <2> QED
    BY <1>4, <2>2
<1>f. RetiredIsReserved'
  <2> SUFFICES ASSUME slips = {}, NEW s \in Slugs, retired'[s] # NoForm
               PROVE  /\ \A f \in Forms : live[f] = s => f = retired'[s]
                      /\ \A d \in Calls : call'[d].pc \in Checked /\ call'[d].new = s
                            => call'[d].form = retired'[s]
    BY <1>5 DEF RetiredIsReserved
  <2>1. retired'[s] = retired[s]
    BY <1>4
  <2>2. ASSUME NEW d \in Calls, call'[d].pc \in Checked
        PROVE  call'[d] = call[d]
    BY <1>3, <2>2 DEF Checked
  <2> QED
    BY <1>1, <2>1, <2>2 DEF RetiredIsReserved
<1>g. LinksKept'
  <2> SUFFICES ASSUME slips = {}, NEW f \in Forms, NEW s \in links[f]
               PROVE  Answers(f, s)' \/ Reclaiming(f, s)'
    BY <1>5 DEF LinksKept, LinksAnswered
  <2>1. s \in Slugs /\ (Answers(f, s) \/ Reclaiming(f, s)) /\ f # F
    BY <1>1, <1>2 DEF SlugInv, LinksKept, LinksAnswered, TypeOK
  <2>2. CASE Answers(f, s)
    BY <1>4, <1>5, <2>1, <2>2 DEF Answers
  <2>3. CASE Reclaiming(f, s)
    BY <1>2, <1>3, <2>3 DEF Reclaiming
  <2> QED
    BY <2>1, <2>2, <2>3
<1>h. DeletedFreesSlugs'
  BY <1>1, <1>4, <1>5 DEF DeletedFreesSlugs, Exists
<1> QED
  BY <1>a, <1>b, <1>c, <1>d, <1>e, <1>f, <1>g, <1>h DEF SlugInv

LEMMA DropInv ==
    ASSUME SlugInv, NEW c \in Calls, Drop(c)
    PROVE  SlugInv'
<1> DEFINE F == call[c].form
<1>1. TypeOK /\ UniqueLive /\ OneCallAForm /\ RetiredFirst /\ RetiredIsReserved
      /\ DeletedFreesSlugs /\ \A d \in Calls : CallInStep(d)
  BY DEF SlugInv
<1>2. /\ F \in Forms /\ call[c].pc # "idle" /\ ~call[c].reclaimed
      /\ "sameForm" \notin slips => \A s \in Slugs : retired[s] # F
  BY <1>1 DEF TypeOK, CallInStep, Drop
<1>3. /\ call' \in [Calls -> Call]
      /\ call'[c].pc = "idle" /\ ~call'[c].reclaimed
      /\ \A d \in Calls \ {c} : call'[d] = call[d]
  BY <1>1, ReturnFields DEF Drop
<1>4. /\ live' \in [Forms -> Slugs \cup {NoSlug, Deleted}] /\ live'[F] = Deleted
      /\ \A f \in Forms \ {F} : live'[f] = live[f]
      /\ links' \in [Forms -> SUBSET Slugs] /\ links'[F] = {}
      /\ \A f \in Forms \ {F} : links'[f] = links[f]
  BY <1>1, <1>2 DEF Drop, TypeOK
<1>5. UNCHANGED <<retired, slips, faults>>
  BY DEF Drop
<1>6. "sameForm" \notin slips => \A d \in Calls \ {c} : call[d].pc # "idle" => call[d].form # F
  BY <1>1, <1>2, OthersElsewhere
<1> HIDE DEF F
<1>a. TypeOK'
  <2>1. \A d \in Calls : CallTyped(d)'
    BY <1>1, <1>3 DEF TypeOK, CallTyped, Checking, Checked
  <2> QED
    BY <1>1, <1>3, <1>4, <1>5, <2>1 DEF TypeOK, CallTyped
<1>b. UniqueLive'
  BY <1>1, <1>4 DEF UniqueLive, Exists
<1>c. OneCallAForm'
  BY <1>1, <1>3, <1>5 DEF OneCallAForm
<1>d. ASSUME NEW d \in Calls
      PROVE  CallInStep(d)'
  <2>1. CASE d = c
    BY <1>3, <2>1 DEF CallInStep, Checking, Checked
  <2>2. CASE d # c
    <3>1. call'[d] = call[d] /\ CallInStep(d) /\ (call[d].pc # "idle" => call[d].form \in Forms)
      BY <1>1, <1>3, <2>2 DEF TypeOK
    <3>2. "sameForm" \notin slips /\ call[d].pc # "idle"
             => live'[call[d].form] = live[call[d].form] /\ links'[call[d].form] = links[call[d].form]
      BY <1>4, <1>6, <2>2, <3>1
    <3> QED
      BY <1>5, <3>1, <3>2 DEF CallInStep, Exists, Checking, Checked
  <2> QED
    BY <2>1, <2>2
<1>e. RetiredFirst'
  BY <1>1, <1>3, <1>5 DEF RetiredFirst
<1>f. RetiredIsReserved'
  <2>1. "idle" \notin Checked
    BY DEF Checked
  <2> QED
    BY <1>1, <1>3, <1>4, <1>5, <2>1 DEF RetiredIsReserved
<1>g. LinksKept'
  <2> SUFFICES ASSUME slips = {}, NEW f \in Forms, NEW s \in links'[f]
               PROVE  Answers(f, s)' \/ Reclaiming(f, s)'
    BY <1>5 DEF LinksKept, LinksAnswered
  <2>1. f # F /\ s \in links[f] /\ s \in Slugs
    BY <1>1, <1>4 DEF TypeOK
  <2>2. Answers(f, s) \/ Reclaiming(f, s)
    BY <2>1 DEF SlugInv, LinksKept, LinksAnswered
  <2>3. CASE Answers(f, s)
    BY <1>2, <1>4, <1>5, <2>1, <2>3 DEF Answers
  <2>4. CASE Reclaiming(f, s)
    BY <1>2, <1>3, <2>4 DEF Reclaiming
  <2> QED
    BY <2>2, <2>3, <2>4
<1>h. DeletedFreesSlugs'
  BY <1>1, <1>2, <1>4, <1>5 DEF DeletedFreesSlugs, Exists, TypeOK
<1> QED
  BY <1>a, <1>b, <1>c, <1>d, <1>e, <1>f, <1>g, <1>h DEF SlugInv

(***************************************************************************)
(* The theorems.                                                            *)
(***************************************************************************)

LEMMA SlugInit == Init => SlugInv
<1> SUFFICES ASSUME Init
             PROVE  SlugInv
  OBVIOUS
<1>1. \A c \in Calls : call[c] = Idle
  BY DEF Init
<1>2. \A c \in Calls : call[c].pc = "idle" /\ ~call[c].reclaimed
  BY <1>1, IdleFields
<1>3. TypeOK
  <2>1. call \in [Calls -> Call]
    BY IdleFields DEF Init
  <2> QED
    BY <1>2, <2>1 DEF Init, TypeOK, Hazards, Checking, Checked
<1>4. UniqueLive /\ OneCallAForm /\ DeletedFreesSlugs
  BY <1>2 DEF Init, UniqueLive, OneCallAForm, DeletedFreesSlugs, Exists
<1>5. (\A c \in Calls : CallInStep(c)) /\ RetiredFirst
  BY <1>2 DEF CallInStep, RetiredFirst, Checking, Checked
<1>6. RetiredIsReserved /\ LinksKept
  BY DEF Init, RetiredIsReserved, LinksKept, LinksAnswered
<1> QED
  BY <1>3, <1>4, <1>5, <1>6 DEF SlugInv

LEMMA SlugStep == SlugInv /\ [Next]_vars => SlugInv'
<1> SUFFICES ASSUME SlugInv, [Next]_vars
             PROVE  SlugInv'
  OBVIOUS
<1>1. CASE UNCHANGED vars
  <2> USE <1>1 DEF vars, SlugInv
  <2>1. TypeOK' /\ UniqueLive' /\ OneCallAForm' /\ DeletedFreesSlugs'
    BY DEF TypeOK, UniqueLive, OneCallAForm, DeletedFreesSlugs, Exists
  <2>2. \A c \in Calls : CallInStep(c)'
    BY DEF CallInStep, Exists
  <2>3. RetiredFirst' /\ RetiredIsReserved'
    BY DEF RetiredFirst, RetiredIsReserved
  <2>4. LinksKept'
    BY DEF LinksKept, LinksAnswered, Answers, Reclaiming
  <2> QED
    BY <2>1, <2>2, <2>3, <2>4
<1>2. ASSUME NEW c \in Calls, Begin(c)
      PROVE  SlugInv'
  BY <1>2, CreateFormInv, SetFormSlugInv, DeleteFormInv DEF Begin
<1>3. ASSUME NEW c \in Calls, Step(c)
      PROVE  SlugInv'
  BY <1>3, CheckLiveInv, CheckRetiredInv, InsertInv, RetireInv, RetireFailsInv, ReclaimInv,
     MoveInv, UnaliasInv, DropInv, DieInv DEF Step
<1> QED
  BY <1>1, <1>2, <1>3 DEF Next

\* The inductive invariant of the account's slugs.
THEOREM SlugInductive == Spec => []SlugInv
  BY SlugInit, SlugStep, PTL DEF Spec

\* A form is answered under every slug it was ever published under, whatever
\* creates, renames and deletes of other forms interleave with its own.
THEOREM SlugLinksKept == Spec => []LinksKept
<1>1. SlugInv => LinksKept
  BY DEF SlugInv
<1> QED
  BY <1>1, SlugInductive, PTL

\* A deleted form keeps no slug reserved.
THEOREM SlugDeletedFreesSlugs == Spec => []DeletedFreesSlugs
<1>1. SlugInv => DeletedFreesSlugs
  BY DEF SlugInv
<1> QED
  BY <1>1, SlugInductive, PTL

\* The ledger's entry of a slug is removed only by a call on the form it
\* belongs to, and is never given to another form.
THEOREM SlugLedgerIsOwn == Spec => LedgerIsOwn
<1> DEFINE Own ==
      \A s \in Slugs :
          retired[s] # NoForm /\ retired'[s] # retired[s] =>
              /\ retired'[s] = NoForm
              /\ \E c \in Calls : call[c].form = retired[s] /\ call[c].pc \in {"reclaim", "unalias"}
<1>1. SlugInv /\ [Next]_vars => [Own]_vars
  <2> SUFFICES ASSUME TypeOK, Next
               PROVE  Own
    BY DEF SlugInv
  <2>1. CASE retired' = retired
    BY <2>1
  <2>2. ASSUME NEW c \in Calls, Retire(c)
        PROVE  Own
    BY <2>2 DEF Retire, TypeOK
  <2>3. ASSUME NEW c \in Calls, Reclaim(c)
        PROVE  Own
    BY <2>3 DEF Reclaim, TypeOK
  <2>4. ASSUME NEW c \in Calls, Unalias(c)
        PROVE  Own
    BY <2>4 DEF Unalias, TypeOK
  <2>5. PICK c \in Calls : Begin(c) \/ Step(c)
    BY DEF Next
  <2>6. CASE Begin(c)
    BY <2>1, <2>6 DEF Begin, CreateForm, SetFormSlug, DeleteForm
  <2>7. CASE Step(c)
    BY <2>1, <2>2, <2>3, <2>4, <2>7 DEF Step, CheckLive, CheckRetired, Insert, RetireFails, Move, Drop, Die
  <2> QED
    BY <2>5, <2>6, <2>7
<1>2. [][Own]_vars => LedgerIsOwn
  BY DEF LedgerIsOwn
<1> QED
  BY <1>1, <1>2, SlugInductive, PTL DEF Spec
=============================================================================
