---------------------------- MODULE ClientProofs ----------------------------
(***************************************************************************)
(* Proofs about what a device does on its own account, for any number of   *)
(* forms, drafts, imports, dialogs, requests, changes and locations. The   *)
(* review screen's edit queue is in LineQueueProofs.                       *)
(***************************************************************************)
EXTENDS MCClient, LineQueueProofs, RecursionLemmas

------------------------------------------------------------------------------
(***************************************************************************)
(* The add form.                                                           *)
(***************************************************************************)
LEMMA FormInitInv == FormInit => FormInv
  BY FormAssumption DEF FormInit, FormInv, FormTypeOK, OneSave, WritesCounted, Draft

\* What the form's own buttons do, before anything is sent.
LEMMA FormTyped ==
    ASSUME FormInv, OpenForm \/ CloseForm \/ Type
    PROVE  FormInv'
<1> USE FormAssumption DEF FormInv
<1>1. UNCHANGED <<saves, writes, lost>>
  BY DEF OpenForm, CloseForm, Type
<1>2. CASE OpenForm
  <2>1. forms' = forms + 1 /\ form' = forms + 1 /\ fields' = 0 /\ panel' = NoPanel /\ drafts' = drafts /\ forms < MaxForm
    BY <1>2 DEF OpenForm
  <2>2. FormTypeOK'
    BY <1>1, <2>1 DEF FormTypeOK
  <2>3. OneSave'
    BY <1>1, <2>1 DEF OneSave, FormTypeOK, SaveRecord, Draft
  <2>4. WritesCounted'
    BY <1>1, <2>1 DEF WritesCounted, Awaited, Nowhere, Draft
  <2>5. QED
    BY <2>2, <2>3, <2>4
<1>3. CASE CloseForm
  <2>1. forms' = forms /\ form' = 0 /\ fields' = 0 /\ panel' = NoPanel /\ drafts' = drafts
    BY <1>3 DEF CloseForm, onClose
  <2>2. FormTypeOK'
    BY <1>1, <2>1 DEF FormTypeOK
  <2>3. OneSave'
    BY <1>1, <2>1 DEF OneSave, FormTypeOK, SaveRecord, Draft
  <2>4. WritesCounted'
    BY <1>1, <2>1 DEF WritesCounted, Awaited, Nowhere, Draft
  <2>5. QED
    BY <2>2, <2>3, <2>4
<1>4. CASE Type
  <2>1. forms' = forms /\ form' = form /\ form # 0 /\ fields' = drafts + 1 /\ panel' = panel /\ drafts' = drafts + 1 /\ drafts < MaxDraft
    BY <1>4 DEF Type
  <2>2. FormTypeOK'
    BY <1>1, <2>1 DEF FormTypeOK
  <2>3. \A s \in saves : s.draft \in Nat /\ s.draft <= drafts
    BY DEF OneSave, FormTypeOK, SaveRecord, Draft
  <2>4. panel # NoPanel => panel.draft \in Nat /\ panel.draft <= drafts
    BY DEF OneSave, FormTypeOK, Pending, Draft
  <2>5. drafts \in Nat
    BY DEF FormTypeOK
  <2>6. OneSave'
    BY <1>1, <2>1, <2>3, <2>4, <2>5 DEF OneSave
  <2>7. WritesCounted'
    <3> SUFFICES ASSUME NEW d \in Draft
                 PROVE  /\ d > drafts' => writes[d] = 0
                        /\ \/ writes[d] = lost[d] /\ \A s \in saves : s.draft = d => s.step # "written"
                           \/ writes[d] = lost[d] + 1 /\ (Awaited(d)' \/ Nowhere(d)')
      BY <1>1 DEF WritesCounted
    <3>1. d \in Nat /\ writes[d] \in Nat /\ lost[d] \in Nat
      BY DEF FormTypeOK, Draft
    <3>2. CASE d > drafts
      BY <2>5, <2>1, <3>1, <3>2 DEF WritesCounted
    <3>3. CASE ~(d > drafts)
      BY <1>1, <2>1, <2>5, <3>1, <3>3 DEF WritesCounted, Awaited, Nowhere
    <3>4. QED
      BY <3>2, <3>3
  <2>8. QED
    BY <2>2, <2>6, <2>7
<1>5. QED
  BY <1>2, <1>3, <1>4

\* A save of a draft nobody is saving.
LEMMA FormBegins ==
    ASSUME FormInv, NEW d \in Draft, d <= drafts, NEW another \in BOOLEAN, NEW step \in {"checking", "writing"},
           form # 0, ~Saving(form), d = fields \/ (panel # NoPanel /\ d = panel.draft),
           Begin(d, another, step), UNCHANGED <<form, forms, fields, drafts, panel, writes, lost>>
    PROVE  FormInv'
<1> USE FormAssumption DEF FormInv
<1> DEFINE new == [form |-> form, draft |-> d, another |-> another, step |-> step]
<1>1. saves' = saves \cup {new}
  BY DEF Begin
<1>2. new \in SaveRecord /\ new.form = form /\ new.draft = d /\ new.step # "written"
  BY DEF FormTypeOK, SaveRecord, SaveStep
<1>3. \A s \in saves : s.form # form /\ s.draft # d
  BY DEF Saving, OneSave
<1> HIDE DEF new
<1>4. FormTypeOK'
  BY <1>1, <1>2 DEF FormTypeOK
<1>5. OneSave'
  <2>1. form <= forms
    BY DEF FormTypeOK
  <2>2. QED
    BY <1>1, <1>2, <1>3, <2>1 DEF OneSave
<1>6. WritesCounted'
  <2> SUFFICES ASSUME NEW e \in Draft
               PROVE  /\ e > drafts => writes[e] = 0
                      /\ \/ writes[e] = lost[e] /\ \A s \in saves' : s.draft = e => s.step # "written"
                         \/ writes[e] = lost[e] + 1 /\ (Awaited(e)' \/ Nowhere(e)')
    BY DEF WritesCounted
  <2>1. CASE e = d
    <3>1. ~Awaited(d) /\ ~Nowhere(d)
      BY <1>3 DEF Awaited, Nowhere
    <3>2. QED
      BY <1>1, <1>2, <1>3, <2>1, <3>1 DEF WritesCounted
  <2>2. CASE e # d
    BY <1>1, <1>2, <2>2 DEF WritesCounted, Awaited, Nowhere
  <2>3. QED
    BY <2>1, <2>2
<1>7. QED
  BY <1>4, <1>5, <1>6

LEMMA FormSends ==
    ASSUME FormInv, Submit \/ Choose
    PROVE  FormInv'
<1>1. CASE Submit
  <2>1. PICK another \in BOOLEAN : Begin(fields, another, "checking")
    BY <1>1 DEF Submit
  <2>2. /\ form # 0 /\ fields # 0 /\ ~Saving(form)
        /\ UNCHANGED <<form, forms, fields, drafts, panel, writes, lost>>
    BY <1>1 DEF Submit
  <2>3. fields \in Draft /\ fields <= drafts
    BY <2>2, FormAssumption DEF FormInv, FormTypeOK, Draft
  <2>4. QED
    BY <2>1, <2>2, <2>3, FormBegins
<1>2. CASE Choose
  <2>1. /\ panel # NoPanel /\ ~Saving(form) /\ Begin(panel.draft, panel.another, "writing")
        /\ UNCHANGED <<form, forms, fields, drafts, panel, writes, lost>>
    BY <1>2 DEF Choose
  <2>2. panel.draft \in Draft /\ panel.another \in BOOLEAN /\ panel.draft <= drafts /\ form # 0
    BY <2>1 DEF FormInv, FormTypeOK, OneSave, Pending
  <2>3. QED
    BY <2>1, <2>2, FormBegins
<1>3. QED
  BY <1>1, <1>2

\* A save that moves on, and one that ends.
LEMMA SaveMoves ==
    ASSUME FormInv, NEW s \in saves, NEW step \in SaveStep, Move(s, step)
    PROVE  /\ saves' \subseteq SaveRecord
           /\ [s EXCEPT !.step = step].form = s.form /\ [s EXCEPT !.step = step].draft = s.draft
           /\ [s EXCEPT !.step = step].step = step
           /\ saves' = (saves \ {s}) \cup {[s EXCEPT !.step = step]}
           /\ \A t \in saves : t # s => t.draft # s.draft
<1>1. saves \subseteq SaveRecord /\ s \in SaveRecord
  BY DEF FormInv, FormTypeOK
<1>2. saves' = (saves \ {s}) \cup {[s EXCEPT !.step = step]}
  BY DEF Move
<1>3. [s EXCEPT !.step = step] \in SaveRecord
  BY <1>1 DEF SaveRecord
<1>4. QED
  BY <1>1, <1>2, <1>3 DEF SaveRecord, FormInv, OneSave

LEMMA MovedKeeps ==
    ASSUME FormInv, NEW s \in saves, NEW step \in SaveStep, Move(s, step), UNCHANGED <<form, forms, fields, drafts, panel>>,
           writes' \in [Draft -> Nat], lost' \in [Draft -> Nat],
           \A e \in Draft : e # s.draft => writes'[e] = writes[e] /\ lost'[e] = lost[e],
           IF step = "written" THEN writes'[s.draft] = lost'[s.draft] + 1 ELSE writes'[s.draft] = lost'[s.draft]
    PROVE  FormInv'
<1> DEFINE moved == [s EXCEPT !.step = step]
<1>1. /\ saves' \subseteq SaveRecord /\ moved.form = s.form /\ moved.draft = s.draft /\ moved.step = step
      /\ saves' = (saves \ {s}) \cup {moved}
      /\ \A t \in saves : t # s => t.draft # s.draft
  BY SaveMoves
<1> HIDE DEF moved
<1>2. FormTypeOK'
  BY <1>1 DEF FormInv, FormTypeOK
<1>3. OneSave'
  <2>1. \A t \in saves' : \E r \in saves : t.form = r.form /\ t.draft = r.draft /\ (t = r \/ (t = moved /\ r = s))
    BY <1>1
  <2>2. s \notin saves \ {s} /\ \A t \in saves' : t # moved => t \in saves /\ t # s
    BY <1>1
  <2>3. \A t, r \in saves' : t.form = r.form => t = r
    BY <1>1, <2>1, <2>2 DEF FormInv, OneSave
  <2>4. QED
    BY <2>1, <2>3 DEF FormInv, OneSave
<1>4. WritesCounted'
  <2> SUFFICES ASSUME NEW e \in Draft
               PROVE  /\ e > drafts => writes'[e] = 0
                      /\ \/ writes'[e] = lost'[e] /\ \A t \in saves' : t.draft = e => t.step # "written"
                         \/ writes'[e] = lost'[e] + 1 /\ (Awaited(e)' \/ Nowhere(e)')
    BY DEF WritesCounted
  <2>1. CASE e = s.draft
    <3>1. \A t \in saves' : t.draft = e => t.step = step
      BY <1>1, <2>1
    <3>2. \E t \in saves' : t.draft = e
      BY <1>1, <2>1
    <3>3. ~(e > drafts)
      BY <2>1 DEF FormInv, FormTypeOK, OneSave, Draft
    <3>4. QED
      BY <2>1, <3>1, <3>2, <3>3 DEF Awaited
  <2>2. CASE e # s.draft
    BY <1>1, <2>2 DEF FormInv, WritesCounted, Awaited, Nowhere
  <2>3. QED
    BY <2>1, <2>2
<1>5. QED
  BY <1>2, <1>3, <1>4 DEF FormInv

\* The writes and lost answers of a save that is under way.
LEMMA SaveCounted ==
    ASSUME FormInv, NEW s \in saves
    PROVE  /\ s \in SaveRecord /\ s.draft \in Draft /\ writes[s.draft] \in Nat /\ lost[s.draft] \in Nat
           /\ s.step = "written" => writes[s.draft] = lost[s.draft] + 1
           /\ s.step # "written" => writes[s.draft] = lost[s.draft]
<1>1. s \in SaveRecord /\ s.draft \in Draft /\ writes[s.draft] \in Nat /\ lost[s.draft] \in Nat
  BY DEF FormInv, FormTypeOK, SaveRecord
<1>2. QED
  BY <1>1 DEF FormInv, WritesCounted, Awaited, Nowhere

LEMMA FormWrites ==
    ASSUME FormInv, NEW s \in saves, ServerWrites(s) \/ LoseAnswer(s)
    PROVE  FormInv'
<1> USE SaveCounted DEF FormInv, FormTypeOK
<1>1. UNCHANGED <<form, forms, fields, drafts, panel>>
  BY DEF ServerWrites, LoseAnswer
<1>2. CASE ServerWrites(s) /\ Move(s, "written") /\ writes' = [writes EXCEPT ![s.draft] = @ + 1]
  <2>1. lost' = lost /\ s.step # "written"
    BY <1>2 DEF ServerWrites
  <2>2. /\ writes' \in [Draft -> Nat] /\ writes'[s.draft] = writes[s.draft] + 1
        /\ \A e \in Draft : e # s.draft => writes'[e] = writes[e]
    BY <1>2
  <2>3. "written" \in SaveStep
    BY DEF SaveStep
  <2>4. QED
    BY <1>1, <1>2, <2>1, <2>2, <2>3, MovedKeeps
<1>3. CASE ServerWrites(s) /\ Move(s, "failed") /\ writes' = writes
  <2>1. lost' = lost /\ s.step # "written"
    BY <1>3 DEF ServerWrites
  <2>2. "failed" \in SaveStep /\ "failed" # "written"
    BY DEF SaveStep
  <2>3. QED
    BY <1>1, <1>3, <2>1, <2>2, MovedKeeps
<1>4. CASE LoseAnswer(s)
  <2>1. s.step = "written" /\ Move(s, "failed") /\ lost' = [lost EXCEPT ![s.draft] = @ + 1] /\ writes' = writes
    BY <1>4 DEF LoseAnswer
  <2>2. /\ lost' \in [Draft -> Nat] /\ lost'[s.draft] = lost[s.draft] + 1
        /\ \A e \in Draft : e # s.draft => lost'[e] = lost[e]
    BY <2>1
  <2>3. "failed" \in SaveStep /\ "failed" # "written"
    BY DEF SaveStep
  <2>4. QED
    BY <1>1, <2>1, <2>2, <2>3, MovedKeeps
<1>5. QED
  BY <1>2, <1>3, <1>4 DEF ServerWrites

\* A save ends without a write, and nothing or the panel has its draft.
LEMMA SaveEnds ==
    ASSUME FormInv, NEW s \in saves, s.step # "written", Ends(s),
           \/ panel' = panel
           \/ s.form = form /\ panel' = [draft |-> s.draft, another |-> s.another],
           UNCHANGED <<form, forms, fields, drafts, writes, lost>>
    PROVE  FormInv'
<1> USE DEF FormInv
<1>1. saves' = saves \ {s}
  BY DEF Ends
<1>2. /\ s \in SaveRecord /\ s.draft \in Draft /\ s.another \in BOOLEAN /\ s.form # 0 /\ s.draft <= drafts
      /\ writes[s.draft] = lost[s.draft]
  BY SaveCounted DEF OneSave, SaveRecord
<1> DEFINE asked == [draft |-> s.draft, another |-> s.another]
<1>3. asked \in Pending /\ asked.draft = s.draft
  BY <1>2 DEF Pending
<1>4. panel' = panel \/ (s.form = form /\ panel' = asked)
  OBVIOUS
<1> HIDE DEF asked
<1>5. FormTypeOK'
  BY <1>1, <1>3, <1>4 DEF FormTypeOK
<1>6. OneSave'
  BY <1>1, <1>2, <1>3, <1>4 DEF OneSave
<1>7. WritesCounted'
  <2> SUFFICES ASSUME NEW e \in Draft
               PROVE  /\ e > drafts => writes[e] = 0
                      /\ \/ writes[e] = lost[e] /\ \A t \in saves' : t.draft = e => t.step # "written"
                         \/ writes[e] = lost[e] + 1 /\ (Awaited(e)' \/ Nowhere(e)')
    BY DEF WritesCounted
  <2>0. writes[e] \in Nat /\ lost[e] \in Nat
    BY DEF FormTypeOK
  <2>1. CASE e = s.draft
    <3>1. \A t \in saves : t.draft = e => t = s
      BY <2>1 DEF OneSave
    <3>2. QED
      BY <1>1, <1>2, <2>1, <3>1 DEF WritesCounted
  <2>2. CASE e # s.draft
    BY <1>1, <1>3, <1>4, <2>2 DEF WritesCounted, Awaited, Nowhere
  <2>3. QED
    BY <2>1, <2>2
<1>8. QED
  BY <1>5, <1>6, <1>7

LEMMA FormMatches ==
    ASSUME FormInv, NEW s \in saves, MatchAnswered(s) \/ SaveFailed(s)
    PROVE  FormInv'
<1>1. CASE MatchAnswered(s) /\ Move(s, "writing") /\ UNCHANGED panel
  <2>1. s.step = "checking" /\ UNCHANGED <<form, forms, fields, drafts, panel, writes, lost>>
    BY <1>1 DEF MatchAnswered
  <2>2. "writing" \in SaveStep /\ "writing" # "written" /\ s.step # "written"
    BY <2>1 DEF SaveStep
  <2>3. QED
    BY <1>1, <2>1, <2>2, SaveCounted, MovedKeeps DEF FormInv, FormTypeOK
<1>2. CASE MatchAnswered(s) /\ Ends(s)
  <2>1. /\ s.step = "checking" /\ UNCHANGED <<form, forms, fields, drafts, writes, lost>>
        /\ panel' = panel \/ (s.form = form /\ panel' = [draft |-> s.draft, another |-> s.another])
    BY <1>2 DEF MatchAnswered
  <2>2. s.step # "written"
    BY <2>1
  <2>3. QED
    BY <1>2, <2>1, <2>2, SaveEnds
<1>3. CASE SaveFailed(s)
  <2>1. s.step = "failed" /\ Ends(s) /\ UNCHANGED <<form, forms, fields, drafts, panel, writes, lost>>
    BY <1>3 DEF SaveFailed
  <2>2. s.step # "written"
    BY <2>1
  <2>3. QED
    BY <2>1, <2>2, SaveEnds
<1>4. QED
  BY <1>1, <1>2, <1>3 DEF MatchAnswered

\* The answer to a write takes its draft off the screen.
LEMMA FormAnswered ==
    ASSUME FormInv, NEW s \in saves, SaveAnswered(s)
    PROVE  FormInv'
<1> USE DEF FormInv
<1>1. saves' = saves \ {s} /\ s.step = "written" /\ UNCHANGED <<forms, drafts, writes, lost>>
  BY DEF SaveAnswered, Ends
<1>2. \/ form' = 0 /\ fields' = 0 /\ panel' = NoPanel
      \/ s.form = form /\ form' = form /\ fields' = 0 /\ panel' = NoPanel
      \/ s.form # form /\ form' = form /\ fields' = fields /\ panel' = panel
  BY DEF SaveAnswered, onClose
<1>3. /\ s.draft \in Draft /\ s.draft \in Nat /\ s.draft # 0 /\ s.draft <= drafts
      /\ writes[s.draft] = lost[s.draft] + 1 /\ \A t \in saves : t # s => t.draft # s.draft
  BY <1>1, SaveCounted DEF OneSave, Draft
<1>4. FormTypeOK'
  BY <1>1, <1>2 DEF FormTypeOK
<1>5. OneSave'
  <2>1. \A t \in saves : t.draft # 0
    BY DEF FormTypeOK, SaveRecord, Draft
  <2>2. QED
    BY <1>1, <1>2, <2>1 DEF OneSave
<1>6. WritesCounted'
  <2> SUFFICES ASSUME NEW e \in Draft
               PROVE  /\ e > drafts => writes[e] = 0
                      /\ \/ writes[e] = lost[e] /\ \A t \in saves' : t.draft = e => t.step # "written"
                         \/ writes[e] = lost[e] + 1 /\ (Awaited(e)' \/ Nowhere(e)')
    BY <1>1 DEF WritesCounted
  <2>1. e # 0 /\ writes[e] \in Nat /\ lost[e] \in Nat
    BY DEF FormTypeOK, Draft
  <2>2. CASE e = s.draft
    <3>1. Nowhere(e)'
      BY <1>1, <1>2, <1>3, <2>1, <2>2 DEF OneSave, Nowhere
    <3>2. ~(e > drafts)
      BY <1>3, <2>2 DEF FormTypeOK
    <3>3. QED
      BY <1>3, <2>2, <3>1, <3>2
  <2>3. CASE e # s.draft
    BY <1>1, <1>2, <2>1, <2>3 DEF WritesCounted, Awaited, Nowhere
  <2>4. QED
    BY <2>2, <2>3
<1>7. QED
  BY <1>4, <1>5, <1>6

LEMMA FormStutter == FormInv /\ UNCHANGED formVars => FormInv'
  BY DEF FormInv, FormTypeOK, OneSave, WritesCounted, Awaited, Nowhere, formVars

LEMMA FormNextInv == FormInv /\ FormNext => FormInv'
  BY FormTyped, FormSends, FormWrites, FormMatches, FormAnswered DEF FormNext

------------------------------------------------------------------------------
(***************************************************************************)
(* The import under review.                                                *)
(***************************************************************************)
LEMMA ImportScreenConstants == MaxImports \in Nat /\ MaxModal \in Nat /\ MaxCall \in Nat
  BY ImportScreenAssumption

\* The types of a call, and what it means, without the count of them.
CallTypes ==
    /\ staged \in [StagedImport -> Fate]
    /\ kept \in 0..MaxImports /\ review \in 0..MaxImports /\ offered \in 0..MaxImports
    /\ modal \in 0..modals /\ modals \in 0..MaxModal /\ (modal = 0 => review = 0 /\ offered = 0)
    /\ calls \subseteq Call
    /\ crossed \in BOOLEAN
Counted == IsFiniteSet(calls) /\ Cardinality(calls) <= MaxCall

LEMMA ScreenParts == ImportScreenInv <=> CallTypes /\ Counted /\ CallsMeanImports /\ ReviewResumable
  BY DEF ImportScreenInv, ImportScreenTypeOK, CallTypes, Counted

LEMMA ImportScreenInitInv == ImportScreenInit => ImportScreenInv
<1> SUFFICES ASSUME ImportScreenInit PROVE CallTypes /\ Counted /\ CallsMeanImports /\ ReviewResumable
  BY ScreenParts
<1>1. staged \in [StagedImport -> Fate]
  BY DEF ImportScreenInit, Fate
<1>2. /\ kept = 0 /\ modal = 0 /\ modals = 0 /\ review = 0 /\ offered = 0 /\ calls = {} /\ crossed = FALSE
  BY DEF ImportScreenInit
<1>3. CallTypes
  <2>1. 0 \in 0..MaxImports /\ 0 \in 0..0 /\ 0 \in 0..MaxModal
    BY ImportScreenConstants
  <2>2. kept \in 0..MaxImports /\ review \in 0..MaxImports /\ offered \in 0..MaxImports
    BY <1>2, <2>1
  <2>3. modal \in 0..modals /\ modals \in 0..MaxModal /\ (modal = 0 => review = 0 /\ offered = 0)
    BY <1>2, <2>1
  <2>4. QED
    BY <1>1, <1>2, <2>2, <2>3 DEF CallTypes
<1>4. CallsMeanImports /\ ReviewResumable
  BY <1>2 DEF CallsMeanImports, ReviewResumable
<1>5. Counted
  BY <1>2, FS_EmptySet, ImportScreenConstants DEF Counted
<1>6. QED
  BY <1>3, <1>4, <1>5

LEMMA OneMoreCall ==
    ASSUME Counted, Cardinality(calls) < MaxCall, NEW f, calls' = calls \cup {f}
    PROVE  Counted'
<1>1. /\ IsFiniteSet(calls \cup {f})
      /\ Cardinality(calls \cup {f}) = Cardinality(calls) \/ Cardinality(calls \cup {f}) = Cardinality(calls) + 1
  BY FS_AddElement DEF Counted
<1>2. Cardinality(calls) \in Nat
  BY FS_CardinalityType DEF Counted
<1>3. QED
  BY <1>1, <1>2, ImportScreenConstants DEF Counted

LEMMA OneCallLess ==
    ASSUME NEW S, IsFiniteSet(S), NEW f \in S
    PROVE  IsFiniteSet(S \ {f}) /\ Cardinality(S \ {f}) = Cardinality(S) - 1
  BY FS_RemoveElement

LEMMA CallsReplaced ==
    ASSUME Counted, NEW f \in calls, NEW g, calls' = (calls \ {f}) \cup {g}
    PROVE  Counted'
<1> DEFINE rest == calls \ {f}
<1>1. IsFiniteSet(rest) /\ Cardinality(rest) = Cardinality(calls) - 1
  BY OneCallLess DEF Counted
<1>2. Cardinality(calls) \in Nat
  BY FS_CardinalityType DEF Counted
<1> HIDE DEF rest
<1>3. /\ IsFiniteSet(rest \cup {g})
      /\ Cardinality(rest \cup {g}) = Cardinality(rest) \/ Cardinality(rest \cup {g}) = Cardinality(rest) + 1
  BY <1>1, FS_AddElement
<1>4. calls' = rest \cup {g}
  BY DEF rest
<1>5. QED
  BY <1>1, <1>2, <1>3, <1>4, ImportScreenConstants DEF Counted

LEMMA CallsDropped ==
    ASSUME Counted, NEW f \in calls, calls' = calls \ {f}
    PROVE  Counted'
<1>1. IsFiniteSet(calls \ {f}) /\ Cardinality(calls \ {f}) = Cardinality(calls) - 1
  BY OneCallLess DEF Counted
<1>2. Cardinality(calls) \in Nat
  BY FS_CardinalityType DEF Counted
<1>3. QED
  BY <1>1, <1>2, ImportScreenConstants DEF Counted

\* A request that is sent: the ones under way stay what they are.
LEMMA LaunchKeeps ==
    ASSUME CallTypes, Counted, CallsMeanImports,
           NEW kind \in {"resume", "upload", "open", "cancel", "commit"}, NEW m \in 0..MaxImports,
           Launch(kind, m), modal' \in 1..MaxModal, review' \in 0..MaxImports,
           kind # "upload" => m # 0, kind = "resume" => m = kept /\ review' = 0
    PROVE  calls' \subseteq Call /\ Counted' /\ CallsMeanImports'
<1> DEFINE f == CallOf(kind, m)
<1>1. calls' = calls \cup {f} /\ Cardinality(calls) < MaxCall
  BY DEF Launch
<1>2. f = [kind |-> kind, modal |-> modal', import |-> m, answer |-> "unsent", seen |-> <<kept, review'>>]
  BY DEF CallOf
<1>3. f \in Call
  BY <1>2 DEF Call, Answer, CallTypes
<1>4. /\ f.kind # "upload" \/ f.answer \in {"ok", "duplicate"} => f.import # 0
      /\ f.kind = "resume" => f.seen = <<f.import, 0>>
  BY <1>2
<1> HIDE DEF f
<1>5. calls' \subseteq Call
  BY <1>1, <1>3 DEF CallTypes
<1>6. CallsMeanImports'
  BY <1>1, <1>4 DEF CallsMeanImports
<1>7. Counted'
  BY <1>1, OneMoreCall
<1>8. QED
  BY <1>5, <1>6, <1>7

LEMMA DialogStep ==
    ASSUME ImportScreenInv, OpenImportModal \/ CloseImportModal \/ CloseTab
    PROVE  ImportScreenInv'
<1>1. CallTypes /\ Counted /\ CallsMeanImports
  BY ScreenParts
<1>2. UNCHANGED <<staged, kept>> /\ review' = 0 /\ offered' = 0
  BY DEF OpenImportModal, CloseImportModal, CloseTab
<1>3. /\ modals' \in 0..MaxModal /\ modal' \in 0..modals' /\ crossed' \in BOOLEAN
      /\ OpenImportModal => modal' \in 1..MaxModal
  <2>1. modals \in Nat /\ modals <= MaxModal /\ modal \in 0..modals /\ crossed \in BOOLEAN /\ MaxModal \in Nat
    BY <1>1, ImportScreenConstants DEF CallTypes
  <2>2. CASE OpenImportModal
    <3>1. modals < MaxModal /\ modals' = modals + 1 /\ modal' = modals + 1 /\ crossed' = FALSE
      BY <2>2 DEF OpenImportModal
    <3>2. modals' \in 0..MaxModal
      BY <2>1, <3>1
    <3>3. modal' \in 0..modals' /\ modal' \in 1..MaxModal
      BY <2>1, <3>1
    <3>4. QED
      BY <3>1, <3>2, <3>3
  <2>3. CASE CloseImportModal \/ CloseTab
    <3>1. modals' = modals /\ modal' = 0 /\ crossed' \in BOOLEAN
      BY <2>1, <2>3 DEF CloseImportModal, CloseTab
    <3>2. ~OpenImportModal
      BY <2>1, <3>1 DEF OpenImportModal
    <3>3. QED
      BY <2>1, <3>1, <3>2
  <2>4. QED
    BY <2>2, <2>3
<1>4. calls' \subseteq Call /\ Counted' /\ CallsMeanImports'
  <2>1. CASE calls' = calls
    BY <1>1, <2>1 DEF CallTypes, Counted, CallsMeanImports
  <2>2. CASE OpenImportModal /\ kept # 0 /\ Launch("resume", kept)
    <3>1. kept \in 0..MaxImports /\ review' \in 0..MaxImports /\ modal' \in 1..MaxModal
      BY <1>1, <1>2, <1>3, <2>2, ImportScreenConstants DEF CallTypes
    <3>2. QED
      BY <1>1, <1>2, <2>2, <3>1, LaunchKeeps
  <2>3. CASE CloseTab
    <3>1. calls' = {}
      BY <2>3 DEF CloseTab
    <3>2. QED
      BY <3>1, FS_EmptySet, ImportScreenConstants DEF Counted, CallsMeanImports
  <2>4. QED
    BY <2>1, <2>2, <2>3 DEF OpenImportModal, CloseImportModal
<1>5. CallTypes'
  BY <1>1, <1>2, <1>3, <1>4, ImportScreenConstants DEF CallTypes
<1>6. ReviewResumable'
  BY <1>2 DEF ReviewResumable
<1>7. QED
  BY <1>4, <1>5, <1>6, ScreenParts, PTL

LEMMA ButtonStep ==
    ASSUME ImportScreenInv, ChooseFile \/ OpenExistingImport \/ CancelImport \/ CommitImport
    PROVE  ImportScreenInv'
<1>1. CallTypes /\ Counted /\ CallsMeanImports /\ ReviewResumable
  BY ScreenParts
<1>2. /\ UNCHANGED <<staged, kept, modal, modals, review, crossed>>
      /\ offered' = offered \/ offered' = 0
  BY DEF ChooseFile, OpenExistingImport, CancelImport, CommitImport, SendCall
<1>3. PICK kind \in {"resume", "upload", "open", "cancel", "commit"}, m \in 0..MaxImports :
        /\ Launch(kind, m) /\ (kind # "upload" => m # 0) /\ kind # "resume"
  <2>1. 0 \in 0..MaxImports /\ offered \in 0..MaxImports /\ review \in 0..MaxImports
    BY <1>1, ImportScreenConstants DEF CallTypes
  <2>2. QED
    BY <2>1 DEF ChooseFile, OpenExistingImport, CancelImport, CommitImport, SendCall
<1>4. modal # 0
  BY <1>1 DEF CallTypes, ChooseFile, OpenExistingImport, CancelImport, CommitImport
<1>5. modal' \in 1..MaxModal /\ review' \in 0..MaxImports
  BY <1>1, <1>2, <1>4, ImportScreenConstants DEF CallTypes
<1>6. calls' \subseteq Call /\ Counted' /\ CallsMeanImports'
  BY <1>1, <1>3, <1>5, LaunchKeeps
<1>7. CallTypes'
  BY <1>1, <1>2, <1>6, ImportScreenConstants DEF CallTypes
<1>8. ReviewResumable'
  BY <1>1, <1>2 DEF ReviewResumable
<1>9. QED
  BY <1>6, <1>7, <1>8, ScreenParts, PTL

LEMMA AnswerKeeps ==
    ASSUME CallTypes, Counted, CallsMeanImports, NEW f \in calls, NEW answer \in Answer, NEW m \in 0..MaxImports,
           CallAnswered(f, answer, m),
           f.kind # "upload" => m = f.import,
           f.kind = "upload" /\ answer \in {"ok", "duplicate"} => m # 0
    PROVE  calls' \subseteq Call /\ Counted' /\ CallsMeanImports'
<1> DEFINE g == [f EXCEPT !.answer = answer, !.import = m]
<1>1. calls' = (calls \ {f}) \cup {g}
  BY DEF CallAnswered
<1>2. f \in Call
  BY DEF CallTypes
<1>3. g \in Call /\ g.kind = f.kind /\ g.seen = f.seen /\ g.answer = answer /\ g.import = m
  BY <1>2 DEF Call
<1> HIDE DEF g
<1>4. CallsMeanImports'
  BY <1>1, <1>3 DEF CallsMeanImports
<1>5. Counted'
  BY <1>1, CallsReplaced
<1>6. QED
  BY <1>1, <1>3, <1>4, <1>5 DEF CallTypes

\* What becomes of an import on the server.
LEMMA FateKeeps ==
    ASSUME CallTypes, NEW m, m \in StagedImport, NEW fate \in Fate, Becomes(m, fate)
    PROVE  staged' \in [StagedImport -> Fate]
  BY DEF CallTypes, Becomes

LEMMA ServerStep ==
    ASSUME ImportScreenInv, NEW f \in calls, ServerHandles(f) \/ LoseCall(f)
    PROVE  ImportScreenInv'
<1>1. CallTypes /\ Counted /\ CallsMeanImports /\ ReviewResumable
  BY ScreenParts
<1>2. UNCHANGED <<kept, modal, modals, review, offered, crossed>>
  BY DEF ServerHandles, LoseCall
<1>3. f \in Call /\ f.import \in 0..MaxImports /\ (f.kind # "upload" => f.import \in StagedImport)
  BY <1>1, ImportScreenConstants DEF CallTypes, CallsMeanImports, Call, StagedImport
<1>4. /\ staged' \in [StagedImport -> Fate]
      /\ \E answer \in Answer, m \in 0..MaxImports :
           /\ CallAnswered(f, answer, m)
           /\ f.kind # "upload" => m = f.import
           /\ f.kind = "upload" /\ answer \in {"ok", "duplicate"} => m # 0
  <2>1. CASE LoseCall(f)
    BY <1>1, <1>3, <2>1 DEF LoseCall, Answer, CallTypes
  <2>2. CASE ServerHandles(f) /\ f.kind \in {"resume", "open"}
    <3>1. CallAnswered(f, staged[f.import], f.import) /\ UNCHANGED staged
      BY <2>2 DEF ServerHandles
    <3>2. staged[f.import] \in Fate
      BY <1>1, <1>3, <2>2 DEF CallTypes
    <3>3. QED
      BY <1>1, <1>3, <2>2, <3>1, <3>2 DEF Answer, CallTypes
  <2>3. CASE ServerHandles(f) /\ f.kind = "upload"
    <3>1. UploadArrives(f)
      BY <2>3 DEF ServerHandles
    <3>2. CASE \E m \in StagedImport : Stages(m) /\ CallAnswered(f, "ok", m)
      <4>1. PICK m \in StagedImport : Stages(m) /\ CallAnswered(f, "ok", m)
        BY <3>2
      <4>2. m \in 0..MaxImports /\ m # 0 /\ "reviewing" \in Fate /\ "ok" \in Answer
        BY ImportScreenConstants DEF StagedImport, Fate, Answer
      <4>3. staged' \in [StagedImport -> Fate]
        BY <1>1, <4>1, <4>2, FateKeeps DEF Stages
      <4>4. QED
        BY <2>3, <4>1, <4>2, <4>3
    <3>3. CASE \E m \in StagedImport : CallAnswered(f, "duplicate", m) /\ UNCHANGED staged
      <4>1. PICK m \in StagedImport : CallAnswered(f, "duplicate", m) /\ UNCHANGED staged
        BY <3>3
      <4>2. m \in 0..MaxImports /\ m # 0 /\ "duplicate" \in Answer
        BY ImportScreenConstants DEF StagedImport, Answer
      <4>3. QED
        BY <1>1, <2>3, <4>1, <4>2 DEF CallTypes
    <3>4. QED
      BY <3>1, <3>2, <3>3 DEF UploadArrives
  <2>4. ASSUME NEW fate \in {"gone", "committed"}, f.kind # "upload", Decide(f, fate)
        PROVE  /\ staged' \in [StagedImport -> Fate]
               /\ CallAnswered(f, "ok", f.import) \/ CallAnswered(f, "failed", f.import)
    <3>1. CASE Becomes(f.import, fate) /\ CallAnswered(f, "ok", f.import)
      <4>1. fate \in Fate
        BY DEF Fate
      <4>2. QED
        BY <1>1, <1>3, <2>4, <3>1, <4>1, FateKeeps
    <3>2. CASE CallAnswered(f, "failed", f.import) /\ UNCHANGED staged
      BY <1>1, <3>2 DEF CallTypes
    <3>3. QED
      BY <2>4, <3>1, <3>2 DEF Decide
  <2>5. CASE ServerHandles(f) /\ f.kind \in {"cancel", "commit"}
    <3>1. f.kind # "upload" /\ \E fate \in {"gone", "committed"} : Decide(f, fate)
      BY <2>5 DEF ServerHandles
    <3>2. "ok" \in Answer /\ "failed" \in Answer
      BY DEF Answer
    <3>3. QED
      BY <1>3, <2>4, <3>1, <3>2
  <2>6. QED
    BY <2>1, <2>2, <2>3, <2>5 DEF ServerHandles
<1>5. calls' \subseteq Call /\ Counted' /\ CallsMeanImports'
  BY <1>1, <1>4, AnswerKeeps
<1>6. CallTypes'
  BY <1>1, <1>2, <1>4, <1>5 DEF CallTypes
<1>7. ReviewResumable'
  BY <1>1, <1>2 DEF ReviewResumable
<1>8. QED
  BY <1>5, <1>6, <1>7, ScreenParts, PTL

LEMMA OthersStep ==
    ASSUME ImportScreenInv, OthersDecide
    PROVE  ImportScreenInv'
<1>1. CallTypes /\ Counted /\ CallsMeanImports /\ ReviewResumable
  BY ScreenParts
<1>2. UNCHANGED <<kept, modal, modals, review, offered, calls, crossed>>
  BY DEF OthersDecide
<1>3. PICK m \in StagedImport, fate \in Fate : Becomes(m, fate)
  BY DEF OthersDecide, Stages, Fate
<1>4. staged' \in [StagedImport -> Fate]
  BY <1>1, <1>3, FateKeeps
<1>5. CallTypes' /\ Counted' /\ CallsMeanImports' /\ ReviewResumable'
  BY <1>1, <1>2, <1>4 DEF CallTypes, Counted, CallsMeanImports, ReviewResumable
<1>6. QED
  BY <1>5, ScreenParts, PTL

\* What an answer does to the screen and to what is kept: either it is the
\* answer to what is there, or it is marked as crossed.
LEMMA HandleStep ==
    ASSUME ImportScreenInv, NEW f \in calls, HandleAnswer(f)
    PROVE  ImportScreenInv'
<1>1. CallTypes /\ Counted /\ CallsMeanImports /\ ReviewResumable
  BY ScreenParts
<1>2. /\ Resumed(f) \/ Uploaded(f) \/ OpenedExisting(f) \/ Cancelled(f) \/ ImportCommitted(f) \/ CallFailed(f)
      /\ calls' = calls \ {f}
      /\ crossed' = IF kept' # kept \/ review' # review THEN Crosses(f) ELSE crossed
      /\ UNCHANGED <<staged, modals>>
  BY DEF HandleAnswer
<1>3. f \in Call /\ f.modal \in Nat /\ f.modal # 0 /\ f.import \in 0..MaxImports
  BY <1>1 DEF CallTypes, Call
<1>4. f.kind = "resume" => f.seen = <<f.import, 0>>
  BY <1>1 DEF CallsMeanImports
<1>5. /\ kept' \in 0..MaxImports /\ review' \in 0..MaxImports /\ offered' \in 0..MaxImports
      /\ modal' = modal \/ modal' = 0
      /\ modal' = 0 => review' = 0 /\ offered' = 0
  <2>1. 0 \in 0..MaxImports
    BY ImportScreenConstants
  <2>2. QED
    BY <1>1, <1>2, <1>3, <2>1
    DEF CallTypes, Resumed, Uploaded, OpenedExisting, Cancelled, ImportCommitted, CallFailed, Shows, Keep, Here
<1>6. crossed' \in BOOLEAN /\ modal' \in 0..modals'
  <2>1. crossed \in BOOLEAN /\ modal \in 0..modals /\ modals \in Nat
    BY <1>1, ImportScreenConstants DEF CallTypes
  <2>2. Crosses(f) \in BOOLEAN
    BY DEF Crosses
  <2>3. CASE kept' = kept /\ review' = review
    BY <1>2, <1>5, <2>1, <2>3
  <2>4. CASE kept' # kept \/ review' # review
    <3>1. crossed' = Crosses(f)
      BY <1>2, <2>4
    <3>2. modal' \in 0..modals'
      BY <1>2, <1>5, <2>1
    <3>3. QED
      BY <2>2, <3>1, <3>2
  <2>5. QED
    BY <2>3, <2>4
<1>7. CallTypes'
  BY <1>1, <1>2, <1>5, <1>6 DEF CallTypes
<1>8. CallsMeanImports'
  BY <1>1, <1>2 DEF CallsMeanImports
<1>9. Counted'
  BY <1>1, <1>2, CallsDropped
<1>10. ReviewResumable'
  <2>1. CASE kept' = kept /\ review' = review
    BY <1>1, <1>2, <2>1 DEF ReviewResumable
  <2>2. CASE kept' # kept \/ review' # review
    <3>1. crossed' = Crosses(f)
      BY <1>2, <2>2
    <3>2. SUFFICES ASSUME ~Crosses(f), review' # 0 PROVE kept' = review'
      BY <3>1 DEF ReviewResumable, Crosses
    <3>3. Here(f) /\ <<kept, review>> = f.seen
      BY <3>2 DEF Crosses
    <3>4. Resumed(f) => kept = f.import /\ review = 0
      BY <1>4, <3>3 DEF Resumed
    <3>5. QED
      BY <1>2, <2>2, <3>2, <3>3, <3>4
      DEF Resumed, Uploaded, OpenedExisting, Cancelled, ImportCommitted, CallFailed, Shows, Keep
  <2>3. QED
    BY <2>1, <2>2
<1>11. QED
  BY <1>7, <1>8, <1>9, <1>10, ScreenParts, PTL

LEMMA ImportScreenNextInv == ImportScreenInv /\ ImportScreenNext => ImportScreenInv'
  BY DialogStep, ButtonStep, ServerStep, OthersStep, HandleStep DEF ImportScreenNext

LEMMA ImportScreenStutter == ImportScreenInv /\ UNCHANGED importScreenVars => ImportScreenInv'
<1> SUFFICES ASSUME ImportScreenInv, UNCHANGED importScreenVars PROVE ImportScreenInv'
  OBVIOUS
<1>1. CallTypes /\ Counted /\ CallsMeanImports /\ ReviewResumable
  BY ScreenParts
<1>2. CallTypes' /\ Counted' /\ CallsMeanImports' /\ ReviewResumable'
  BY <1>1 DEF CallTypes, Counted, CallsMeanImports, ReviewResumable, importScreenVars
<1>3. QED
  BY <1>2, ScreenParts, PTL

------------------------------------------------------------------------------
(***************************************************************************)
(* The lists on screen.                                                    *)
(***************************************************************************)
\* What a list's version on screen says, by list.
ListTyped(l) ==
    /\ version[l] \in Version /\ shown[l] \in Version /\ missed[l] \in Version
    /\ asks[l] \in Seq(Version \cup {Unread}) /\ Len(asks[l]) <= MaxAsk
    /\ shown[l] <= version[l] /\ missed[l] <= version[l]
    /\ \A k \in 1..Len(asks[l]) : asks[l][k] # Unread => asks[l][k] <= version[l]
ListExplained(l) == shown[l] = version[l] \/ OnItsWay(l) \/ missed[l] = version[l]
Functions == /\ version \in [List -> Version] /\ shown \in [List -> Version]
             /\ missed \in [List -> Version] /\ asks \in [List -> Seq(Version \cup {Unread})]
Linked == link \in BOOLEAN /\ events \in Seq(List) /\ (events # <<>> => link)
          /\ status \in {"loading", "ready", "error"}

ListsSound == \A l \in List : ListTyped(l) /\ ListExplained(l)

LEMMA ViewParts == ViewInv <=> Functions /\ Linked /\ ListsSound
  BY DEF ListsSound, ViewInv, ViewTypeOK, NothingNewer, StaleExplained, Functions, Linked, ListTyped, ListExplained

LEMMA ViewConstants == MaxVersion \in Nat /\ MaxAsk \in Nat /\ MaxAsk # 0 /\ Unread \notin Version
  BY ViewAssumption DEF Version

LEMMA ViewInitInv == ViewInit => ViewInv
<1> SUFFICES ASSUME ViewInit PROVE ViewInv
  OBVIOUS
<1>1. 0 \in Version
  BY ViewConstants DEF Version
<1>2. <<Unread>> \in Seq(Version \cup {Unread}) /\ Len(<<Unread>>) = 1 /\ 1 <= MaxAsk
  BY ViewConstants
<1>3. Functions
  BY <1>1, <1>2 DEF ViewInit, Functions
<1>4. Linked
  <2>1. link = FALSE /\ events = <<>> /\ status = "loading"
    BY DEF ViewInit
  <2>2. <<>> \in Seq(List)
    OBVIOUS
  <2>3. QED
    BY <2>1, <2>2 DEF Linked
<1>5. ASSUME NEW l \in List PROVE ListTyped(l) /\ ListExplained(l)
  <2>1. version[l] = 0 /\ shown[l] = 0 /\ missed[l] = 0 /\ asks[l] = <<Unread>>
    BY DEF ViewInit
  <2>2. \A k \in 1..Len(asks[l]) : asks[l][k] = Unread
    BY <2>1
  <2>3. 0 <= 0
    OBVIOUS
  <2>4. QED
    BY <1>1, <1>2, <2>1, <2>2, <2>3 DEF ListTyped, ListExplained
<1>6. QED
  BY <1>3, <1>4, <1>5, ViewParts DEF ListsSound

\* A list whose state a step leaves alone, together with the events that
\* told of it, stays explained.
LEMMA ListKept ==
    ASSUME NEW l \in List, ListTyped(l), ListExplained(l),
           version'[l] = version[l], shown'[l] = shown[l], missed'[l] = missed[l], asks'[l] = asks[l],
           Told(l) => Told(l)'
    PROVE  ListTyped(l)' /\ ListExplained(l)'
  BY DEF ListTyped, ListExplained, OnItsWay

\* A list that is asked for once more is explained at once.
LEMMA OneMoreAsk ==
    ASSUME NEW l \in List, ListTyped(l), Len(asks[l]) < MaxAsk,
           version'[l] = version[l], shown'[l] = shown[l], missed'[l] = missed[l],
           asks'[l] = Append(asks[l], Unread)
    PROVE  ListTyped(l)' /\ ListExplained(l)'
<1>1. asks'[l] \in Seq(Version \cup {Unread}) /\ Len(asks'[l]) = Len(asks[l]) + 1
  BY DEF ListTyped
<1>2. Len(asks[l]) \in Nat
  BY DEF ListTyped
<1>3. Len(asks'[l]) <= MaxAsk
  BY <1>1, <1>2, ViewConstants
<1>4. Len(asks'[l]) \in 1..Len(asks'[l]) /\ asks'[l][Len(asks'[l])] = Unread
  BY <1>1, <1>2 DEF ListTyped
<1>5. \A k \in 1..Len(asks'[l]) : asks'[l][k] # Unread => asks'[l][k] <= version'[l]
  <2> SUFFICES ASSUME NEW k \in 1..Len(asks'[l]), asks'[l][k] # Unread PROVE asks'[l][k] <= version'[l]
    OBVIOUS
  <2>1. k \in 1..Len(asks[l]) /\ asks'[l][k] = asks[l][k]
    BY <1>1, <1>2, <1>4 DEF ListTyped
  <2>2. QED
    BY <2>1 DEF ListTyped
<1>6. ListTyped(l)'
  BY <1>1, <1>3, <1>5 DEF ListTyped
<1>7. ListExplained(l)'
  BY <1>4 DEF ListExplained, OnItsWay
<1>8. QED
  BY <1>6, <1>7

LEMMA ChangeStep ==
    ASSUME ViewInv, NEW l \in List, Change(l)
    PROVE  ViewInv'
<1>1. Functions /\ Linked /\ \A m \in List : ListTyped(m) /\ ListExplained(m)
  BY ViewParts DEF ListsSound
<1>2. /\ \A m \in Concerned(l) : version[m] < MaxVersion
      /\ version' = [m \in List |-> IF m \in Concerned(l) THEN version[m] + 1 ELSE version[m]]
      /\ UNCHANGED <<link, asks, shown, status>>
  BY DEF Change
<1>3. ASSUME NEW m \in List
      PROVE  /\ m \in Concerned(l) => version'[m] = version[m] + 1
             /\ m \notin Concerned(l) => version'[m] = version[m]
             /\ version'[m] \in Version /\ version[m] \in Nat
  <2>1. version[m] \in 0..MaxVersion
    BY <1>1 DEF Functions, Version
  <2>2. version'[m] = IF m \in Concerned(l) THEN version[m] + 1 ELSE version[m]
    BY <1>2
  <2>3. CASE m \in Concerned(l)
    BY <1>2, <2>1, <2>2, <2>3, ViewConstants DEF Version
  <2>4. CASE m \notin Concerned(l)
    BY <2>1, <2>2, <2>4 DEF Version
  <2>5. QED
    BY <2>3, <2>4
<1>4. version' \in [List -> Version]
  BY <1>2, <1>3
<1>5. Broadcast(l) \in Seq(List) /\ Len(Broadcast(l)) \in Nat
  <2>1. "items" \in List /\ "names" \in List
    BY DEF List
  <2>2. <<"items">> \in Seq(List) /\ <<"items", "names">> \in Seq(List)
    BY <2>1
  <2>3. QED
    BY <2>2 DEF Broadcast
<1>6. CASE link
  <2>1. events' = events \o Broadcast(l) /\ missed' = missed
    BY <1>6 DEF Change
  <2>2. events' \in Seq(List) /\ Len(events') = Len(events) + Len(Broadcast(l))
    BY <1>1, <1>5, <2>1 DEF Linked
  <2>3. Functions' /\ Linked'
    BY <1>1, <1>2, <1>4, <1>6, <2>1, <2>2 DEF Functions, Linked
  <2>4. \A j \in 1..Len(Broadcast(l)) : /\ Len(events) + j \in 1..Len(events')
                                        /\ events'[Len(events) + j] = Broadcast(l)[j]
    BY <1>1, <1>5, <2>1, <2>2 DEF Linked
  <2>5. \A j \in 1..Len(events) : j \in 1..Len(events') /\ events'[j] = events[j]
    BY <1>1, <1>5, <2>1, <2>2 DEF Linked
  <2>6. ASSUME NEW m \in List PROVE ListTyped(m)' /\ ListExplained(m)'
    <3>1. CASE m \in Concerned(l)
      <4>1. \E j \in 1..Len(Broadcast(l)) : m \in Concerned(Broadcast(l)[j])
        <5>1. CASE l = "names"
          <6>1. Broadcast(l) = <<"items", "names">>
            BY <5>1 DEF Broadcast
          <6>2. 2 \in 1..Len(Broadcast(l)) /\ Broadcast(l)[2] = l
            BY <5>1, <6>1
          <6>3. QED
            BY <3>1, <6>2
        <5>2. CASE l = "items"
          <6>1. Broadcast(l) = <<"items">>
            BY <5>2 DEF Broadcast
          <6>2. 1 \in 1..Len(Broadcast(l)) /\ Broadcast(l)[1] = l
            BY <5>2, <6>1
          <6>3. QED
            BY <3>1, <6>2
        <5>3. QED
          BY <5>1, <5>2 DEF List
      <4>2. Told(m)'
        BY <2>4, <4>1 DEF Told
      <4>3. ListTyped(m)'
        <5>1. \A p \in Version : p <= version[m] => p <= version'[m]
          BY <1>3, <3>1 DEF Version
        <5>2. ListTyped(m)
          BY <1>1
        <5>3. \A k \in 1..Len(asks[m]) : asks[m][k] # Unread => asks[m][k] \in Version
          BY <5>2 DEF ListTyped
        <5>4. QED
          BY <1>2, <1>3, <2>1, <5>1, <5>2, <5>3 DEF ListTyped
      <4>4. QED
        BY <4>2, <4>3 DEF ListExplained, OnItsWay
    <3>2. CASE m \notin Concerned(l)
      <4>1. Told(m) => Told(m)'
        BY <2>5 DEF Told
      <4>2. version'[m] = version[m]
        BY <1>3, <3>2
      <4>3. QED
        BY <1>1, <1>2, <2>1, <4>1, <4>2, ListKept
    <3>3. QED
      BY <3>1, <3>2
  <2>7. ListsSound'
    BY <2>6 DEF ListsSound
  <2>8. QED
    BY <2>3, <2>7, ViewParts, PTL
<1>7. CASE ~link
  <2>1. events' = events /\ missed' = [m \in List |-> IF m \in Concerned(l) THEN version'[m] ELSE missed[m]]
    BY <1>7 DEF Change
  <2>2. ASSUME NEW m \in List PROVE missed'[m] \in Version
    BY <1>1, <1>3, <2>1 DEF Functions
  <2>3. missed' \in [List -> Version]
    BY <2>1, <2>2
  <2>4. Functions' /\ Linked'
    BY <1>1, <1>2, <1>4, <2>1, <2>3 DEF Functions, Linked
  <2>5. ASSUME NEW m \in List PROVE ListTyped(m)' /\ ListExplained(m)'
    <3>1. CASE m \in Concerned(l)
      <4>1. missed'[m] = version'[m]
        BY <2>1, <3>1
      <4>2. \A p \in Version : p <= version[m] => p <= version'[m]
        BY <1>3, <3>1 DEF Version
      <4>3. ListTyped(m)
        BY <1>1
      <4>4. \A k \in 1..Len(asks[m]) : asks[m][k] # Unread => asks[m][k] \in Version
        BY <4>3 DEF ListTyped
      <4>5. version'[m] <= version'[m]
        BY <1>3 DEF Version
      <4>6. ListTyped(m)'
        BY <1>2, <1>3, <4>1, <4>2, <4>3, <4>4, <4>5 DEF ListTyped
      <4>7. QED
        BY <4>1, <4>6 DEF ListExplained
    <3>2. CASE m \notin Concerned(l)
      <4>1. Told(m) => Told(m)'
        BY <2>1 DEF Told
      <4>2. version'[m] = version[m] /\ missed'[m] = missed[m]
        BY <1>3, <2>1, <3>2
      <4>3. QED
        BY <1>1, <1>2, <4>1, <4>2, ListKept
    <3>3. QED
      BY <3>1, <3>2
  <2>6. ListsSound'
    BY <2>5 DEF ListsSound
  <2>7. QED
    BY <2>4, <2>6, ViewParts, PTL
<1>8. QED
  BY <1>6, <1>7

LEMMA LinkStep ==
    ASSUME ViewInv, Connect \/ Disconnect
    PROVE  ViewInv'
<1>1. Functions /\ Linked /\ \A m \in List : ListTyped(m) /\ ListExplained(m)
  BY ViewParts DEF ListsSound
<1>2. CASE Connect
  <2>1. link' = TRUE /\ UNCHANGED <<version, events, asks, shown, status, missed>>
    BY <1>2 DEF Connect
  <2>2. Functions' /\ Linked'
    BY <1>1, <2>1 DEF Functions, Linked
  <2>3. ASSUME NEW m \in List PROVE ListTyped(m)' /\ ListExplained(m)'
    <3>1. Told(m) => Told(m)'
      BY <2>1 DEF Told
    <3>2. QED
      BY <1>1, <2>1, <3>1, ListKept
  <2>4. ListsSound'
    BY <2>3 DEF ListsSound
  <2>5. QED
    BY <2>2, <2>4, ViewParts, PTL
<1>3. CASE Disconnect
  <2>1. /\ link' = FALSE /\ events' = <<>>
        /\ missed' = [l \in List |-> IF Told(l) THEN version[l] ELSE missed[l]]
        /\ UNCHANGED <<version, asks, shown, status>>
    BY <1>3 DEF Disconnect
  <2>2. ASSUME NEW m \in List
        PROVE  /\ missed'[m] \in Version
               /\ Told(m) => missed'[m] = version[m]
               /\ ~Told(m) => missed'[m] = missed[m]
    BY <1>1, <2>1 DEF Functions
  <2>3. missed' \in [List -> Version]
    BY <2>1, <2>2
  <2>4. <<>> \in Seq(List)
    OBVIOUS
  <2>5. Functions' /\ Linked'
    BY <1>1, <2>1, <2>3, <2>4 DEF Functions, Linked
  <2>6. ASSUME NEW m \in List PROVE ListTyped(m)' /\ ListExplained(m)'
    <3>1. CASE Told(m)
      <4>1. missed'[m] = version[m] /\ version[m] <= version[m]
        BY <1>1, <2>2, <3>1 DEF ListTyped, Version
      <4>2. QED
        BY <1>1, <2>1, <4>1 DEF ListTyped, ListExplained
    <3>2. CASE ~Told(m)
      BY <1>1, <2>1, <2>2, <3>2, ListKept
    <3>3. QED
      BY <3>1, <3>2
  <2>7. ListsSound'
    BY <2>6 DEF ListsSound
  <2>8. QED
    BY <2>5, <2>7, ViewParts, PTL
<1>4. QED
  BY <1>2, <1>3

\* Asking for some lists keeps the types, and explains the ones asked for.
LEMMA AskStep ==
    ASSUME ViewInv, NEW lists \in SUBSET List, Ask(lists),
           UNCHANGED <<version, shown, missed>>
    PROVE  /\ Functions'
           /\ \A m \in lists : ListTyped(m)' /\ ListExplained(m)'
           /\ \A m \in List \ lists : asks'[m] = asks[m]
<1>1. Functions /\ Linked /\ \A m \in List : ListTyped(m) /\ ListExplained(m)
  BY ViewParts DEF ListsSound
<1>2. /\ \A l \in lists : Len(asks[l]) < MaxAsk
      /\ asks' = [l \in List |-> IF l \in lists THEN Append(asks[l], Unread) ELSE asks[l]]
  BY DEF Ask
<1>3. ASSUME NEW m \in List
      PROVE  Append(asks[m], Unread) \in Seq(Version \cup {Unread}) /\ asks[m] \in Seq(Version \cup {Unread})
  <2>1. asks[m] \in Seq(Version \cup {Unread}) /\ Unread \in Version \cup {Unread}
    BY <1>1 DEF Functions
  <2>2. QED
    BY <2>1
<1>4. Functions'
  BY <1>1, <1>2, <1>3 DEF Functions
<1>5. ASSUME NEW m \in lists PROVE ListTyped(m)' /\ ListExplained(m)'
  BY <1>1, <1>2, OneMoreAsk
<1>6. QED
  BY <1>2, <1>4, <1>5

LEMMA HearStep ==
    ASSUME ViewInv, Hear
    PROVE  ViewInv'
<1>1. Functions /\ Linked /\ \A m \in List : ListTyped(m) /\ ListExplained(m)
  BY ViewParts DEF ListsSound
<1>2. /\ events # <<>> /\ Ask(Refetch(Head(events))) /\ events' = Tail(events)
      /\ UNCHANGED <<version, link, shown, status, missed>>
  BY DEF Hear
<1>3. events \in Seq(List) /\ Head(events) = events[1] /\ events[1] \in List
  BY <1>1, <1>2 DEF Linked
<1>4. Refetch(Head(events)) \in SUBSET List
  BY <1>3 DEF Refetch, List
<1>5. /\ Functions'
      /\ \A m \in Refetch(Head(events)) : ListTyped(m)' /\ ListExplained(m)'
      /\ \A m \in List \ Refetch(Head(events)) : asks'[m] = asks[m]
  BY <1>2, <1>4, AskStep
<1>6. /\ events' \in Seq(List)
      /\ \A k \in 1..Len(events) : k # 1 => k - 1 \in 1..Len(events') /\ events'[k - 1] = events[k]
  BY <1>2, <1>3
<1>7. Linked'
  BY <1>1, <1>2, <1>6 DEF Linked
<1>8. ASSUME NEW m \in List PROVE ListTyped(m)' /\ ListExplained(m)'
  <2>1. CASE m \in Refetch(Head(events))
    BY <1>5, <2>1
  <2>2. CASE m \notin Refetch(Head(events))
    <3>1. asks'[m] = asks[m]
      BY <1>5, <2>2
    <3>2. m \notin Concerned(events[1])
      BY <1>3, <2>2 DEF Refetch, Concerned
    <3>3. ASSUME Told(m) PROVE Told(m)'
      <4>1. PICK k \in 1..Len(events) : m \in Concerned(events[k])
        BY <3>3 DEF Told
      <4>2. k - 1 \in 1..Len(events') /\ events'[k - 1] = events[k]
        BY <1>6, <3>2, <4>1
      <4>3. QED
        BY <4>1, <4>2 DEF Told
    <3>4. QED
      BY <1>1, <1>2, <3>1, <3>3, ListKept
  <2>3. QED
    BY <2>1, <2>2
<1>9. ListsSound'
  BY <1>8 DEF ListsSound
<1>10. QED
  BY <1>5, <1>7, <1>9, ViewParts, PTL

LEMMA CommittedStep ==
    ASSUME ViewInv, Committed
    PROVE  ViewInv'
<1>1. Functions /\ Linked /\ \A m \in List : ListTyped(m) /\ ListExplained(m)
  BY ViewParts DEF ListsSound
<1>2. Ask({"items"}) /\ UNCHANGED <<version, link, events, shown, status, missed>>
  BY DEF Committed
<1>3. {"items"} \in SUBSET List
  BY DEF List
<1>4. /\ Functions'
      /\ \A m \in {"items"} : ListTyped(m)' /\ ListExplained(m)'
      /\ \A m \in List \ {"items"} : asks'[m] = asks[m]
  BY <1>2, <1>3, AskStep
<1>5. ASSUME NEW m \in List PROVE ListTyped(m)' /\ ListExplained(m)'
  <2>1. Told(m) => Told(m)'
    BY <1>2 DEF Told
  <2>2. CASE m \in {"items"}
    BY <1>4, <2>2
  <2>3. CASE m \notin {"items"}
    <3>1. asks'[m] = asks[m]
      BY <1>4, <2>3
    <3>2. QED
      BY <1>1, <1>2, <2>1, <3>1, ListKept
  <2>4. QED
    BY <2>2, <2>3
<1>6. ListsSound' /\ Linked'
  BY <1>1, <1>2, <1>5 DEF ListsSound, Linked
<1>7. QED
  BY <1>4, <1>6, ViewParts, PTL

LEMMA ServerReadsStep ==
    ASSUME ViewInv, NEW l \in List, NEW k \in 1..Len(asks[l]), ServerReads(l, k)
    PROVE  ViewInv'
<1>1. Functions /\ Linked /\ \A m \in List : ListTyped(m) /\ ListExplained(m)
  BY ViewParts DEF ListsSound
<1>2. /\ asks[l][k] = Unread /\ asks' = [asks EXCEPT ![l][k] = version[l]]
      /\ UNCHANGED <<version, link, events, shown, status, missed>>
  BY DEF ServerReads
<1>3. /\ asks'[l] = [asks[l] EXCEPT ![k] = version[l]]
      /\ \A m \in List : m # l => asks'[m] = asks[m]
  BY <1>1, <1>2 DEF Functions
<1>4. asks[l] \in Seq(Version \cup {Unread}) /\ version[l] \in Version /\ version[l] <= version[l]
  BY <1>1 DEF ListTyped, Version
<1>5. /\ asks'[l] \in Seq(Version \cup {Unread}) /\ Len(asks'[l]) = Len(asks[l])
      /\ asks'[l][k] = version[l]
      /\ \A j \in 1..Len(asks[l]) : j # k => asks'[l][j] = asks[l][j]
  BY <1>3, <1>4
<1>6. asks' \in [List -> Seq(Version \cup {Unread})]
  BY <1>1, <1>2, <1>5 DEF Functions
<1>7. Functions' /\ Linked'
  BY <1>1, <1>2, <1>6 DEF Functions, Linked
<1>8. ASSUME NEW m \in List PROVE ListTyped(m)' /\ ListExplained(m)'
  <2>1. CASE m = l
    <3>1. \A j \in 1..Len(asks'[l]) : asks'[l][j] # Unread => asks'[l][j] <= version[l]
      BY <1>1, <1>4, <1>5 DEF ListTyped
    <3>2. ListTyped(l)'
      BY <1>1, <1>2, <1>5, <3>1 DEF ListTyped
    <3>3. ListExplained(l)'
      BY <1>2, <1>5 DEF ListExplained, OnItsWay
    <3>4. QED
      BY <2>1, <3>2, <3>3
  <2>2. CASE m # l
    <3>1. Told(m) => Told(m)'
      BY <1>2 DEF Told
    <3>2. QED
      BY <1>1, <1>2, <1>3, <2>2, <3>1, ListKept
  <2>3. QED
    BY <2>1, <2>2
<1>9. ListsSound'
  BY <1>8 DEF ListsSound
<1>10. QED
  BY <1>7, <1>9, ViewParts, PTL

\* What taking one request out of those under way leaves.
Without(s, k) == SubSeq(s, 1, k - 1) \o SubSeq(s, k + 1, Len(s))
Shortened(S, s, k, r) ==
    /\ r \in Seq(S) /\ Len(r) = Len(s) - 1
    /\ \A i \in 1..Len(r) : \E j \in 1..Len(s) : r[i] = s[j]
    /\ \A j \in 1..Len(s) : j # k => \E i \in 1..Len(r) : r[i] = s[j]

LEMMA OneDropped ==
    ASSUME NEW S, NEW s \in Seq(S), NEW k \in 1..Len(s)
    PROVE  Shortened(S, s, k, Without(s, k))
<1> DEFINE a == SubSeq(s, 1, k - 1)
           b == SubSeq(s, k + 1, Len(s))
           r == Without(s, k)
<1>1. Len(s) \in Nat /\ k \in Nat /\ 1 <= k /\ k <= Len(s)
  OBVIOUS
<1>2. a \in Seq(S) /\ Len(a) = k - 1 /\ \A i \in 1..k - 1 : a[i] = s[i]
  BY <1>1
<1>3. b \in Seq(S) /\ Len(b) = Len(s) - k /\ \A i \in 1..Len(s) - k : b[i] = s[k + i]
  BY <1>1
<1>4. r = a \o b
  BY DEF Without
<1> HIDE DEF a, b, r
<1>5. /\ r \in Seq(S) /\ Len(r) = Len(a) + Len(b)
      /\ \A i \in 1..Len(a) + Len(b) : r[i] = IF i <= Len(a) THEN a[i] ELSE b[i - Len(a)]
  <2>1. a \in Seq(S) /\ b \in Seq(S)
    BY <1>2, <1>3
  <2>2. /\ a \o b \in Seq(S) /\ Len(a \o b) = Len(a) + Len(b)
        /\ \A i \in 1..Len(a) + Len(b) : (a \o b)[i] = IF i <= Len(a) THEN a[i] ELSE b[i - Len(a)]
    BY <2>1, ConcatProperties, Zenon
  <2>3. QED
    BY <1>4, <2>2, Zenon
<1>6. Len(r) = Len(s) - 1
  <2>1. \A n, q \in Nat : (q - 1) + (n - q) = n - 1
    OBVIOUS
  <2>2. QED
    BY <1>1, <1>2, <1>3, <1>5, <2>1
<1>7. \A i \in 1..Len(s) - 1 : r[i] = IF i <= Len(a) THEN a[i] ELSE b[i - Len(a)]
  BY <1>5, <1>6
<1>8. ASSUME NEW i \in 1..Len(s) - 1
      PROVE  /\ i \in Nat /\ i \in 1..Len(s) /\ i + 1 \in 1..Len(s)
             /\ i <= k - 1 => r[i] = s[i]
             /\ i >= k => r[i] = s[i + 1]
  <2>1. i \in Nat /\ 1 <= i /\ i <= Len(s) - 1 /\ i \in 1..Len(r)
    BY <1>1, <1>6
  <2>2. i <= k - 1 => i \in 1..k - 1 /\ i <= Len(a)
    BY <1>1, <1>2, <2>1
  <2>3. i >= k => ~(i <= Len(a)) /\ i - Len(a) \in 1..Len(s) - k /\ k + (i - Len(a)) = i + 1
    BY <1>1, <1>2, <2>1
  <2>4. i <= k - 1 => r[i] = s[i]
    BY <1>2, <1>7, <2>1, <2>2
  <2>5. i >= k => r[i] = s[i + 1]
    BY <1>3, <1>7, <2>1, <2>3
  <2>6. QED
    BY <1>1, <2>1, <2>4, <2>5
<1>9. ASSUME NEW i \in 1..Len(r) PROVE \E j \in 1..Len(s) : r[i] = s[j]
  <2>1. i \in 1..Len(s) - 1
    BY <1>6
  <2>2. i \in Nat /\ (i <= k - 1 \/ i >= k)
    BY <1>1, <1>6
  <2>3. QED
    BY <1>8, <2>1, <2>2
<1>10. ASSUME NEW j \in 1..Len(s), j # k PROVE \E i \in 1..Len(r) : r[i] = s[j]
  <2>1. CASE j < k
    <3>1. j \in 1..Len(s) - 1 /\ j <= k - 1
      BY <1>1, <2>1
    <3>2. QED
      BY <1>6, <1>8, <3>1
  <2>2. CASE j > k
    <3>1. j - 1 \in 1..Len(s) - 1 /\ j - 1 >= k /\ (j - 1) + 1 = j
      BY <1>1, <2>2
    <3>2. r[j - 1] = s[j]
      BY <1>8, <3>1
    <3>3. QED
      BY <1>6, <3>1, <3>2
  <2>3. j \in Nat /\ j # k
    BY <1>1, <1>10
  <2>4. QED
    BY <1>1, <2>1, <2>2, <2>3
<1>11. QED
  BY <1>5, <1>6, <1>9, <1>10 DEF Shortened, r

LEMMA NewerBounds ==
    ASSUME NEW l \in List, missed \in [List -> Version], NEW v \in Version, v <= version[l],
           version[l] \in Version, missed[l] <= version[l], missed' = Newer(l, v)
    PROVE  /\ missed' \in [List -> Version] /\ missed'[l] <= version[l]
           /\ v = version[l] \/ missed[l] = version[l] => missed'[l] = version[l]
           /\ \A m \in List : m # l => missed'[m] = missed[m]
<1>1. missed[l] \in Version /\ \A p, q \in Version : p \in Nat /\ (p > q \/ p <= q) /\ (p <= q /\ q <= p => p = q)
  BY DEF Version
<1>2. CASE v > missed[l]
  <2>1. missed' = [missed EXCEPT ![l] = v]
    BY <1>2 DEF Newer
  <2>2. missed[l] # version[l]
    BY <1>1, <1>2 DEF Version
  <2>3. QED
    BY <2>1, <2>2
<1>3. CASE ~(v > missed[l])
  <2>1. missed' = missed /\ v <= missed[l]
    BY <1>1, <1>3 DEF Newer
  <2>2. v = version[l] => missed[l] = version[l]
    BY <1>1, <2>1
  <2>3. QED
    BY <2>1, <2>2
<1>4. QED
  BY <1>2, <1>3

\* An answer that is shown, and a request that failed: the request is done
\* with, and what it had read is explained by the screen or by what is missed.
LEMMA RequestDone ==
    ASSUME ViewInv, NEW l \in List, NEW k \in 1..Len(asks[l]), Drop(l, k),
           UNCHANGED <<version, link, events>>,
           status' \in {"loading", "ready", "error"},
           shown' \in [List -> Version], shown'[l] <= version[l],
           \A m \in List : m # l => shown'[m] = shown[m],
           missed' \in [List -> Version], missed'[l] <= version[l],
           \A m \in List : m # l => missed'[m] = missed[m],
           shown[l] = version[l] \/ asks[l][k] \in {Unread, version[l]} \/ missed[l] = version[l]
              => shown'[l] = version[l] \/ missed'[l] = version[l]
    PROVE  ViewInv'
<1>1. Functions /\ Linked /\ \A m \in List : ListTyped(m) /\ ListExplained(m)
  BY ViewParts DEF ListsSound
<1>2. asks' = [asks EXCEPT ![l] = SubSeq(asks[l], 1, k - 1) \o SubSeq(asks[l], k + 1, Len(asks[l]))]
  BY DEF Drop
<1>3. /\ asks'[l] = SubSeq(asks[l], 1, k - 1) \o SubSeq(asks[l], k + 1, Len(asks[l]))
      /\ \A m \in List : m # l => asks'[m] = asks[m]
  BY <1>1, <1>2 DEF Functions
<1>4. asks[l] \in Seq(Version \cup {Unread}) /\ Len(asks[l]) \in Nat
  BY <1>1 DEF ListTyped
<1>5. /\ asks'[l] \in Seq(Version \cup {Unread}) /\ Len(asks'[l]) = Len(asks[l]) - 1
      /\ \A i \in 1..Len(asks'[l]) : \E j \in 1..Len(asks[l]) : asks'[l][i] = asks[l][j]
      /\ \A j \in 1..Len(asks[l]) : j # k => \E i \in 1..Len(asks'[l]) : asks'[l][i] = asks[l][j]
  <2>1. Shortened(Version \cup {Unread}, asks[l], k, Without(asks[l], k))
    BY <1>4, OneDropped
  <2>2. asks'[l] = Without(asks[l], k)
    BY <1>3 DEF Without
  <2>3. Shortened(Version \cup {Unread}, asks[l], k, asks'[l])
    BY <2>1, <2>2
  <2>4. QED
    BY <2>3 DEF Shortened
<1>6. asks' \in [List -> Seq(Version \cup {Unread})]
  BY <1>1, <1>2, <1>3, <1>5 DEF Functions
<1>7. Functions' /\ Linked'
  BY <1>1, <1>6 DEF Functions, Linked
<1>8. ASSUME NEW m \in List PROVE ListTyped(m)' /\ ListExplained(m)'
  <2>1. CASE m = l
    <3>1. Len(asks'[l]) <= MaxAsk
      BY <1>1, <1>4, <1>5, ViewConstants DEF ListTyped
    <3>2. \A i \in 1..Len(asks'[l]) : asks'[l][i] # Unread => asks'[l][i] <= version[l]
      BY <1>1, <1>5 DEF ListTyped
    <3>3. ListTyped(l)'
      BY <1>1, <1>5, <3>1, <3>2 DEF ListTyped
    <3>4. ListExplained(l)'
      <4>1. CASE shown[l] = version[l] \/ asks[l][k] \in {Unread, version[l]} \/ missed[l] = version[l]
        BY <4>1 DEF ListExplained
      <4>2. CASE Told(l)
        BY <4>2 DEF ListExplained, OnItsWay, Told
      <4>3. CASE \E j \in 1..Len(asks[l]) : j # k /\ asks[l][j] \in {Unread, version[l]}
        BY <1>5, <4>3 DEF ListExplained, OnItsWay
      <4>4. QED
        BY <1>1, <4>1, <4>2, <4>3 DEF ListExplained, OnItsWay
    <3>5. QED
      BY <2>1, <3>3, <3>4
  <2>2. CASE m # l
    <3>1. Told(m) => Told(m)'
      BY DEF Told
    <3>2. QED
      BY <1>1, <1>3, <2>2, <3>1, ListKept
  <2>3. QED
    BY <2>1, <2>2
<1>9. ListsSound'
  BY <1>8 DEF ListsSound
<1>10. QED
  BY <1>7, <1>9, ViewParts, PTL

LEMMA ListAnsweredStep ==
    ASSUME ViewInv, NEW l \in List, NEW k \in 1..Len(asks[l]), ListAnswered(l, k)
    PROVE  ViewInv'
<1>1. Functions /\ Linked /\ ListTyped(l)
  BY ViewParts DEF ListsSound
<1>2. /\ asks[l][k] # Unread /\ shown' = [shown EXCEPT ![l] = asks[l][k]]
      /\ status' = IF l = "items" THEN "ready" ELSE status
      /\ missed' = IF asks[l][k] < shown[l] THEN Newer(l, shown[l]) ELSE missed
      /\ Drop(l, k) /\ UNCHANGED <<version, link, events>>
  BY DEF ListAnswered
<1>3. asks[l][k] \in Version /\ asks[l][k] <= version[l] /\ shown[l] \in Version /\ shown[l] <= version[l]
      /\ version[l] \in Version /\ missed[l] <= version[l] /\ missed \in [List -> Version]
  BY <1>1, <1>2 DEF ListTyped, Functions
<1>4. /\ shown' \in [List -> Version] /\ shown'[l] = asks[l][k]
      /\ \A m \in List : m # l => shown'[m] = shown[m]
  BY <1>1, <1>2, <1>3 DEF Functions
<1>5. status' \in {"loading", "ready", "error"}
  BY <1>1, <1>2 DEF Linked
<1>6. /\ missed' \in [List -> Version] /\ missed'[l] <= version[l]
      /\ \A m \in List : m # l => missed'[m] = missed[m]
      /\ missed[l] = version[l] => missed'[l] = version[l]
      /\ asks[l][k] < shown[l] /\ shown[l] = version[l] => missed'[l] = version[l]
  <2>1. CASE asks[l][k] < shown[l]
    <3>1. missed' = Newer(l, shown[l])
      BY <1>2, <2>1
    <3>2. QED
      BY <1>3, <3>1, NewerBounds
  <2>2. CASE ~(asks[l][k] < shown[l])
    BY <1>2, <1>3, <2>2
  <2>3. QED
    BY <2>1, <2>2
<1>7. shown[l] = version[l] => asks[l][k] = version[l] \/ asks[l][k] < shown[l]
  BY <1>3 DEF Version
<1>8. shown[l] = version[l] \/ asks[l][k] \in {Unread, version[l]} \/ missed[l] = version[l]
         => shown'[l] = version[l] \/ missed'[l] = version[l]
  BY <1>2, <1>4, <1>6, <1>7
<1>9. QED
  BY <1>2, <1>3, <1>4, <1>5, <1>6, <1>8, RequestDone

LEMMA AskFailedStep ==
    ASSUME ViewInv, NEW l \in List, NEW k \in 1..Len(asks[l]), AskFailed(l, k)
    PROVE  ViewInv'
<1> DEFINE v == IF asks[l][k] = Unread THEN version[l] ELSE asks[l][k]
<1>1. Functions /\ Linked /\ ListTyped(l)
  BY ViewParts DEF ListsSound
<1>2. /\ status' = IF l = "items" THEN "error" ELSE status
      /\ missed' = Newer(l, v)
      /\ Drop(l, k) /\ UNCHANGED <<version, link, events, shown>>
  BY DEF AskFailed
<1>3. version[l] \in Version /\ missed[l] <= version[l] /\ missed \in [List -> Version]
      /\ shown[l] <= version[l] /\ shown \in [List -> Version]
  BY <1>1 DEF ListTyped, Functions
<1>4. v \in Version /\ v <= version[l]
  <2>1. CASE asks[l][k] = Unread
    BY <1>3, <2>1 DEF Version
  <2>2. CASE asks[l][k] # Unread
    BY <1>1, <2>2 DEF ListTyped
  <2>3. QED
    BY <2>1, <2>2
<1>5. asks[l][k] \in {Unread, version[l]} => v = version[l]
  OBVIOUS
<1> HIDE DEF v
<1>6. status' \in {"loading", "ready", "error"}
  BY <1>1, <1>2 DEF Linked
<1>7. /\ missed' \in [List -> Version] /\ missed'[l] <= version[l]
      /\ v = version[l] \/ missed[l] = version[l] => missed'[l] = version[l]
      /\ \A m \in List : m # l => missed'[m] = missed[m]
  BY <1>2, <1>3, <1>4, NewerBounds
<1>8. shown[l] = version[l] \/ asks[l][k] \in {Unread, version[l]} \/ missed[l] = version[l]
         => shown'[l] = version[l] \/ missed'[l] = version[l]
  BY <1>2, <1>5, <1>7
<1>9. QED
  BY <1>2, <1>3, <1>6, <1>7, <1>8, RequestDone

LEMMA ViewNextInv == ViewInv /\ ViewNext => ViewInv'
  BY ChangeStep, LinkStep, HearStep, CommittedStep, ServerReadsStep, ListAnsweredStep, AskFailedStep
  DEF ViewNext

LEMMA ViewStutter == ViewInv /\ UNCHANGED viewVars => ViewInv'
<1> SUFFICES ASSUME ViewInv, UNCHANGED viewVars PROVE ViewInv'
  OBVIOUS
<1>1. Functions /\ Linked /\ ListsSound
  BY ViewParts
<1>2. Functions' /\ Linked' /\ ListsSound'
  BY <1>1 DEF Functions, Linked, ListsSound, ListTyped, ListExplained, OnItsWay, Told, viewVars
<1>3. QED
  BY <1>2, ViewParts, PTL

------------------------------------------------------------------------------
(***************************************************************************)
(* The dialogs that change stock.                                          *)
(***************************************************************************)
LEMMA StockConstants == MaxQty \in Nat /\ 0 \in Qty /\ 1 \in Qty /\ Unassigned \notin Location
  BY StockAssumption DEF Qty

LEMMA RowsMember ==
    ASSUME NEW P, NEW r
    PROVE  r \in RowsAt(P) <=> \E S \in SUBSET P : r \in [S -> Qty]
  BY DEF RowsAt

LEMMA RowsWithin ==
    ASSUME NEW P, NEW r \in RowsAt(P)
    PROVE  /\ DOMAIN r \subseteq P /\ r \in [DOMAIN r -> Qty]
           /\ \A Q : P \subseteq Q => r \in RowsAt(Q)
<1>1. PICK S \in SUBSET P : r \in [S -> Qty]
  BY RowsMember
<1>2. DOMAIN r = S
  BY <1>1
<1>3. \A Q : P \subseteq Q => \E T \in SUBSET Q : r \in [T -> Qty]
  BY <1>1
<1>4. QED
  BY <1>1, <1>2, <1>3, RowsMember

\* A row that is written, or added, keeps the table a table of its places.
LEMMA UpsertedRows ==
    ASSUME NEW P, NEW r \in RowsAt(P), NEW p \in P, NEW n \in Qty
    PROVE  Upserted(r, p, n) \in RowsAt(P)
<1>1. DOMAIN r \subseteq P /\ r \in [DOMAIN r -> Qty]
  BY RowsWithin
<1>2. Upserted(r, p, n) \in [DOMAIN r \cup {p} -> Qty]
  BY <1>1 DEF Upserted
<1>3. DOMAIN r \cup {p} \in SUBSET P
  BY <1>1
<1>4. QED
  BY <1>2, <1>3, RowsMember

LEMMA AtInRows ==
    ASSUME NEW P, NEW r \in RowsAt(P), NEW p
    PROVE  AtIn(r, p) \in Qty /\ (p \in DOMAIN r => r[p] \in Qty)
  BY RowsWithin, StockConstants DEF AtIn

LEMMA QtyArithmetic ==
    ASSUME NEW a \in Qty, NEW b \in Qty
    PROVE  (a >= b => a - b \in Qty) /\ (a + b <= MaxQty => a + b \in Qty)
  BY StockConstants DEF Qty

LEMMA SentTyped ==
    ASSUME NEW action \in {"add", "subtract", "set", "move"}, NEW n \in Qty, NEW at \in Place \cup {Omitted},
           NEW to \in Location \cup {Omitted}, NEW about \in Place \cup {Whole},
           Sent(action, n, at, to, about)
    PROVE  request' \in StockRequest
  BY DEF Sent, StockRequest

DialogType == [kind : {"none", "qty", "deduct"}, place : Place \cup {Omitted}]

LEMMA StockInitInv == StockInit => StockInv
<1> SUFFICES ASSUME StockInit PROVE StockInv
  OBVIOUS
<1>1. /\ alive = Location /\ rows \in RowsAt(Place) /\ seen = rows
      /\ tab = Whole /\ dialog = Closed /\ request = NoRequest
  BY DEF StockInit
<1>2. rows \in RowsAt(alive \cup {Unassigned})
  BY <1>1 DEF Place
<1>3. dialog \in DialogType /\ dialog.kind # "qty"
  BY <1>1 DEF Closed, DialogType
<1>4. QED
  BY <1>1, <1>2, <1>3 DEF StockInv, StockTypeOK, DialogType

\* What a dialog is opened on, or set to, is a place.
LEMMA DialogOpened ==
    ASSUME StockInv, quickAdjust("add") \/ quickAdjust("subtract") \/ OpenDialog \/ PickPlace
    PROVE  dialog' \in DialogType /\ (dialog'.kind = "qty" => dialog'.place \in Place)
<1>1. dialog \in DialogType /\ (dialog.kind = "qty" => dialog.place \in Place)
  BY DEF StockInv, StockTypeOK, DialogType
<1>2. DOMAIN seen \subseteq Place
  BY RowsWithin DEF StockInv, StockTypeOK
<1>3. Initial \subseteq Place
  BY <1>2 DEF Initial, Place
<1>4. ASSUME NEW p \in Initial, OpenQtyModal(p)
      PROVE  dialog' \in DialogType /\ (dialog'.kind = "qty" => dialog'.place \in Place)
  BY <1>3, <1>4 DEF OpenQtyModal, DialogType
<1>5. CASE quickAdjust("add") \/ quickAdjust("subtract")
  <2>1. dialog' = dialog \/ \E p \in Initial : OpenQtyModal(p)
    BY <1>5 DEF quickAdjust
  <2>2. QED
    BY <1>1, <1>4, <2>1
<1>6. CASE OpenDialog
  <2>1. CASE \E p \in Initial : OpenQtyModal(p)
    BY <1>4, <2>1
  <2>2. CASE \E p \in Place \cup {Omitted} : dialog' = [kind |-> "deduct", place |-> p]
    BY <2>2 DEF DialogType
  <2>3. QED
    BY <1>2, <1>6, <2>1, <2>2 DEF OpenDialog
<1>7. CASE PickPlace
  <2>1. PICK p \in DOMAIN seen : dialog' = [dialog EXCEPT !.place = p]
    BY <1>7 DEF PickPlace
  <2>2. QED
    BY <1>1, <1>2, <2>1 DEF DialogType
<1>8. QED
  BY <1>5, <1>6, <1>7

LEMMA AdjustStep ==
    ASSUME StockInv, NEW action \in {"add", "subtract"}, quickAdjust(action)
    PROVE  StockInv'
<1>1. dialog' \in DialogType /\ (dialog'.kind = "qty" => dialog'.place \in Place)
  BY DialogOpened
<1>2. StockTypeOK /\ UNCHANGED <<alive, rows, seen, tab>>
  BY DEF StockInv, quickAdjust
<1>3. request' \in StockRequest \cup {NoRequest}
  <2>1. CASE tab # Whole /\ Sent(action, 1, tab, Omitted, tab)
    <3>1. tab \in Place
      BY <1>2, <2>1 DEF StockTypeOK, Place
    <3>2. QED
      BY <2>1, <3>1, StockConstants, SentTyped
  <2>2. CASE request' = request
    BY <1>2, <2>2 DEF StockTypeOK
  <2>3. CASE Sent(action, 1, Omitted, Omitted, Whole)
    BY <2>3, StockConstants, SentTyped
  <2>4. QED
    BY <2>1, <2>2, <2>3 DEF quickAdjust
<1>4. QED
  BY <1>1, <1>2, <1>3 DEF StockInv, StockTypeOK, DialogType

LEMMA DialogShownStep ==
    ASSUME StockInv, OpenDialog \/ PickPlace
    PROVE  StockInv'
<1>1. dialog' \in DialogType /\ (dialog'.kind = "qty" => dialog'.place \in Place)
  BY DialogOpened
<1>2. StockTypeOK /\ UNCHANGED <<alive, rows, seen, tab, request>>
  BY DEF StockInv, OpenDialog, PickPlace
<1>3. QED
  BY <1>1, <1>2 DEF StockInv, StockTypeOK, DialogType

LEMMA SubmitStep ==
    ASSUME StockInv, SubmitDialog
    PROVE  StockInv'
<1>1. /\ StockTypeOK /\ (dialog.kind = "qty" => dialog.place \in Place)
      /\ UNCHANGED <<alive, rows, seen, tab>> /\ dialog' = Closed
  BY DEF StockInv, SubmitDialog
<1>2. dialog' \in DialogType /\ dialog'.kind # "qty"
  BY <1>1 DEF Closed, DialogType
<1>3. dialog.place \in Place \cup {Omitted}
  BY <1>1 DEF StockTypeOK
<1>4. DialogPlace \in Place \cup {Omitted}
  BY <1>3 DEF DialogPlace
<1>5. ASSUME Several => dialog.place \in Place PROVE DialogFigure \in Place \cup {Whole}
  BY <1>5 DEF DialogFigure
<1>6. request' \in StockRequest
  <2>1. CASE dialog.kind = "qty" /\ \E n \in Qty : Sent("set", n, DialogPlace, Omitted, DialogFigure)
    BY <1>1, <1>4, <1>5, <2>1, SentTyped
  <2>2. CASE /\ dialog.kind = "qty"
             /\ \E n \in Qty \ {0}, to \in Location \ {dialog.place} : Sent("move", n, DialogPlace, to, DialogFigure)
    BY <1>1, <1>4, <1>5, <2>2, SentTyped
  <2>3. CASE /\ Several => dialog.place # Omitted
             /\ \E n \in Qty \ {0} : Sent("subtract", n, DialogPlace, Omitted, DialogFigure)
    BY <1>3, <1>4, <1>5, <2>3, SentTyped
  <2>4. QED
    BY <2>1, <2>2, <2>3 DEF SubmitDialog
<1>7. QED
  BY <1>1, <1>2, <1>6 DEF StockInv, StockTypeOK, DialogType

\* Looking again, and what others do before a request arrives.
LEMMA MeanwhileStep ==
    ASSUME StockInv, SelectTab \/ Refresh \/ OthersChange \/ LocationReturns
    PROVE  StockInv'
<1>1. /\ StockTypeOK /\ (dialog.kind = "qty" => dialog.place \in Place)
      /\ UNCHANGED <<dialog, request>>
  BY DEF StockInv, SelectTab, Refresh, OthersChange, LocationReturns
<1>2. alive' \subseteq Location
  BY <1>1 DEF StockTypeOK, SelectTab, Refresh, OthersChange, LocationReturns
<1>3. rows' \in RowsAt(alive' \cup {Unassigned})
  <2>1. CASE OthersChange
    BY <2>1 DEF OthersChange
  <2>2. CASE SelectTab \/ Refresh \/ LocationReturns
    <3>1. rows' = rows /\ alive \cup {Unassigned} \subseteq alive' \cup {Unassigned}
      BY <1>1, <2>2 DEF StockTypeOK, SelectTab, Refresh, LocationReturns
    <3>2. QED
      BY <1>1, <3>1, RowsWithin DEF StockTypeOK
  <2>3. QED
    BY <2>1, <2>2
<1>4. seen' \in RowsAt(Place)
  <2>1. alive \cup {Unassigned} \subseteq Place
    BY <1>1 DEF StockTypeOK, Place
  <2>2. rows \in RowsAt(Place)
    BY <1>1, <2>1, RowsWithin DEF StockTypeOK
  <2>3. QED
    BY <1>1, <2>2 DEF StockTypeOK, SelectTab, Refresh, OthersChange, LocationReturns
<1>5. tab' \in Location \cup {Whole}
  BY <1>1 DEF StockTypeOK, SelectTab, Refresh, OthersChange, LocationReturns
<1>6. QED
  BY <1>1, <1>2, <1>3, <1>4, <1>5 DEF StockInv, StockTypeOK

\* A request is applied at a place the server knows.
LEMMA StockHandleStep ==
    ASSUME StockInv, Handle
    PROVE  StockInv'
<1>1. /\ StockTypeOK /\ (dialog.kind = "qty" => dialog.place \in Place)
      /\ UNCHANGED <<alive, seen, tab, dialog>> /\ request' = NoRequest /\ request # NoRequest
      /\ rows' = rows \/ \E p \in resolveTargetLocation(request.at) : Applied(p, request)
  BY DEF StockInv, Handle
<1> DEFINE known == alive \cup {Unassigned}
<1>2. rows \in RowsAt(known)
  BY <1>1 DEF StockTypeOK
<1>3. resolveTargetLocation(request.at) \subseteq known
  BY <1>2, RowsWithin DEF resolveTargetLocation
<1>4. request.amount \in Qty
  BY <1>1 DEF StockTypeOK, StockRequest
<1>5. alive \subseteq known
  OBVIOUS
<1> HIDE DEF known
<1>6. ASSUME NEW p \in known, Applied(p, request) PROVE rows' \in RowsAt(known)
  <2> DEFINE n == request.amount
  <2>1. AtIn(rows, p) \in Qty /\ (p \in DOMAIN rows => rows[p] \in Qty)
    BY <1>2, AtInRows
  <2>2. CASE rows' = Upserted(rows, p, AtIn(rows, p) + n) /\ CanPut(rows, p, n)
    BY <1>2, <1>4, <2>1, <2>2, QtyArithmetic, UpsertedRows DEF CanPut
  <2>3. CASE rows' = Upserted(rows, p, rows[p] - n) /\ CanTake(p, n)
    BY <1>2, <1>4, <2>1, <2>3, QtyArithmetic, UpsertedRows DEF CanTake
  <2>4. CASE rows' = Upserted(rows, p, n)
    BY <1>2, <1>4, <2>4, UpsertedRows
  <2>5. ASSUME NEW to \in alive, CanTake(p, n), NEW less, less = Upserted(rows, p, rows[p] - n),
               CanPut(less, to, n), rows' = Upserted(less, to, AtIn(less, to) + n)
        PROVE  rows' \in RowsAt(known)
    <3>1. rows[p] - n \in Qty
      BY <1>4, <2>1, <2>5, QtyArithmetic DEF CanTake
    <3>2. less \in RowsAt(known)
      BY <1>2, <2>5, <3>1, UpsertedRows
    <3>3. AtIn(less, to) \in Qty
      BY <3>2, AtInRows
    <3>4. AtIn(less, to) + n \in Qty
      BY <1>4, <2>5, <3>3, QtyArithmetic DEF CanPut
    <3>5. QED
      BY <1>5, <2>5, <3>2, <3>4, UpsertedRows
  <2>6. QED
    BY <1>6, <2>2, <2>3, <2>4, <2>5 DEF Applied
<1>7. rows' \in RowsAt(known)
  BY <1>1, <1>2, <1>3, <1>6
<1>8. rows' \in RowsAt(alive' \cup {Unassigned})
  BY <1>1, <1>7 DEF known
<1>9. QED
  BY <1>1, <1>8 DEF StockInv, StockTypeOK

LEMMA StockNextInv == StockInv /\ StockNext => StockInv'
  BY AdjustStep, DialogShownStep, SubmitStep, MeanwhileStep, StockHandleStep DEF StockNext

LEMMA StockStutter == StockInv /\ UNCHANGED stockVars => StockInv'
  BY DEF StockInv, StockTypeOK, stockVars

------------------------------------------------------------------------------
(***************************************************************************)
(* The device.                                                             *)
(***************************************************************************)
LEMMA ScreenInitInv == ScreenInit => ScreenInv
  BY QueueInitInv, FormInitInv, ImportScreenInitInv, ViewInitInv, StockInitInv DEF ScreenInit, ScreenInv

LEMMA ScreenNextInv == ScreenInv /\ [ScreenNext]_clientVars => ScreenInv'
<1> SUFFICES ASSUME ScreenInv, [ScreenNext]_clientVars PROVE ScreenInv'
  OBVIOUS
<1>1. QueueInv /\ FormInv /\ ImportScreenInv /\ ViewInv /\ StockInv
  BY DEF ScreenInv
<1>2. QueueInv'
  <2>1. [Next]_vars
    BY DEF ScreenNext, clientVars
  <2>2. QED
    BY <1>1, <2>1, QueueNextInv
<1>3. FormInv'
  <2>1. FormNext \/ UNCHANGED formVars
    BY DEF ScreenNext, clientVars
  <2>2. QED
    BY <1>1, <2>1, FormNextInv, FormStutter
<1>4. ImportScreenInv'
  <2>1. ImportScreenNext \/ UNCHANGED importScreenVars
    BY DEF ScreenNext, clientVars
  <2>2. QED
    BY <1>1, <2>1, ImportScreenNextInv, ImportScreenStutter
<1>5. ViewInv'
  <2>1. ViewNext \/ UNCHANGED viewVars
    BY DEF ScreenNext, clientVars
  <2>2. QED
    BY <1>1, <2>1, ViewNextInv, ViewStutter
<1>6. StockInv'
  <2>1. StockNext \/ UNCHANGED stockVars
    BY DEF ScreenNext, clientVars
  <2>2. QED
    BY <1>1, <2>1, StockNextInv, StockStutter
<1>7. QED
  BY <1>2, <1>3, <1>4, <1>5, <1>6 DEF ScreenInv

LEMMA ScreenInvariant == ScreenSpec => []ScreenInv
  BY ScreenInitInv, ScreenNextInv, PTL DEF ScreenSpec

\* The state of every part of the device keeps its type: the edit queue of
\* the review screen, the import under review, the add form, the lists and the
\* stock dialogs, whatever answers come in which order.
THEOREM ScreensKeepTypes == ScreenSpec => []ScreenTypeOK
<1>1. ScreenInv => ScreenTypeOK
  BY DEF ScreenInv, ScreenTypeOK, QueueInv, FormInv, ImportScreenInv, ViewInv, StockInv
<1>2. QED
  BY <1>1, ScreenInvariant, PTL

\* What is typed into the add form once is written once, however the reviewer
\* closes, reopens and submits forms while saves are under way, and once more
\* only after each time the answer to a write of it was lost: Save and the
\* panel's buttons go through exclusive, which a form holds until the last
\* answer is in (ItemFormModal.tsx).
THEOREM DraftsWrittenOnce == ScreenSpec => []WrittenOnce
<1>1. ScreenInv => WrittenOnce
  <2> SUFFICES ASSUME ScreenInv, NEW d \in Draft PROVE writes[d] <= 1 + lost[d]
    BY DEF WrittenOnce
  <2>1. FormTypeOK /\ WritesCounted
    BY DEF ScreenInv, FormInv
  <2>2. lost[d] \in Nat /\ (writes[d] = lost[d] \/ writes[d] = lost[d] + 1)
    BY <2>1 DEF FormTypeOK, WritesCounted
  <2>3. QED
    BY <2>2
<1>2. QED
  BY <1>1, ScreenInvariant, PTL

\* A list on screen is out of date only while news of the last change is on
\* its way, was lost or was overtaken (useInventory.ts), and the import under
\* review is the one that is kept for a restart unless a late answer crossed
\* it (InvoiceImportModal.tsx).
THEOREM ScreensExplained == ScreenSpec => []ScreenExplained
<1>1. ScreenInv => ScreenExplained
  BY DEF ScreenInv, ScreenExplained, ViewInv, ImportScreenInv
<1>2. QED
  BY <1>1, ScreenInvariant, PTL
------------------------------------------------------------------------------
(***************************************************************************)
(* What a request does to what was shown.                                  *)
(***************************************************************************)
\* A request that leaves the place to the server is about the total.
RequestMeant ==
    request # NoRequest =>
        IF request.at = Omitted THEN request.about = Whole ELSE request.about = request.at

LEMMA StockPlaces ==
    /\ Omitted \notin Place /\ Whole \notin Place
    /\ IsFiniteSet(Place)
<1>1. IsFiniteSet(Place)
  BY StockAssumption, FS_AddElement DEF Place
<1>2. QED
  BY <1>1, StockAssumption DEF Place

LEMMA SentMeant ==
    ASSUME NEW action, NEW n, NEW to, NEW at, NEW about, Sent(action, n, at, to, about),
           IF at = Omitted THEN about = Whole ELSE about = at
    PROVE  RequestMeant'
  BY DEF Sent, RequestMeant

LEMMA StockNextMeant ==
    ASSUME StockInv, RequestMeant, StockNext
    PROVE  RequestMeant'
<1>1. StockTypeOK /\ (dialog.kind = "qty" => dialog.place \in Place)
  BY DEF StockInv
<1>2. CASE request' = request
  BY <1>2 DEF RequestMeant
<1>3. ASSUME NEW action \in {"add", "subtract"}, quickAdjust(action) PROVE RequestMeant'
  <2>1. CASE tab # Whole /\ Sent(action, 1, tab, Omitted, tab)
    BY <1>1, <2>1, StockAssumption, SentMeant DEF StockTypeOK
  <2>2. CASE Sent(action, 1, Omitted, Omitted, Whole)
    BY <2>2, SentMeant
  <2>3. QED
    BY <1>2, <1>3, <2>1, <2>2 DEF quickAdjust
<1>4. CASE SubmitDialog
  <2>1. Several => dialog.place # Omitted
    BY <1>1, <1>4, StockPlaces DEF SubmitDialog
  <2>2. IF DialogPlace = Omitted THEN DialogFigure = Whole ELSE DialogFigure = DialogPlace
    BY <2>1 DEF DialogPlace, DialogFigure
  <2>3. QED
    BY <1>4, <2>2, SentMeant DEF SubmitDialog
<1>5. CASE Handle
  BY <1>5 DEF Handle, RequestMeant
<1>6. SelectTab \/ Refresh \/ OpenDialog \/ PickPlace \/ OthersChange \/ LocationReturns => request' = request
  BY DEF SelectTab, Refresh, OpenDialog, PickPlace, OthersChange, LocationReturns
<1>7. QED
  BY <1>2, <1>3, <1>4, <1>5, <1>6 DEF StockNext

LEMMA MeantInvariant == ScreenSpec => []RequestMeant
<1>1. ScreenInit => RequestMeant
  BY DEF ScreenInit, StockInit, RequestMeant
<1>2. ScreenInv /\ RequestMeant /\ [ScreenNext]_clientVars => RequestMeant'
  <2> SUFFICES ASSUME ScreenInv, RequestMeant, [ScreenNext]_clientVars PROVE RequestMeant'
    OBVIOUS
  <2>1. StockNext \/ UNCHANGED stockVars
    BY DEF ScreenNext, clientVars
  <2>2. CASE UNCHANGED stockVars
    BY <2>2 DEF RequestMeant, stockVars
  <2>3. QED
    BY <2>1, <2>2, StockNextMeant DEF ScreenInv
<1>3. QED
  BY <1>1, <1>2, ScreenInvariant, PTL DEF ScreenSpec

\* Sums of one row and of two.
LEMMA SumOne ==
    ASSUME NEW r, NEW p, DOMAIN r = {p}, r[p] \in Int
    PROVE  Total(r) = r[p]
<1> DEFINE g == [x \in {p} |-> r[x]]
<1>1. Total(r) = SumOver(r, {p})
  BY DEF Total, SumOver, Picked, MapThenSumSet, MapThenFoldSet
<1>2. IsFiniteSet({p}) /\ g \in [{p} -> Int] /\ g[p] = r[p]
  BY FS_Singleton
<1> HIDE DEF g
<1>3. SumOver(g, {p}) = g[p] + SumOver(g, {p} \ {p})
  BY <1>2, SumTake
<1>4. SumOver(g, {p} \ {p}) = 0
  <2>1. {p} \ {p} = {}
    OBVIOUS
  <2>2. QED
    BY <2>1, SumEmpty
<1>5. SumOver(g, {p}) = SumOver(r, {p})
  BY <1>2, SumSame DEF g
<1>6. QED
  BY <1>1, <1>2, <1>3, <1>4, <1>5

LEMMA SumTwo ==
    ASSUME NEW r, NEW p, NEW q, p # q, DOMAIN r = {p, q}, r[p] \in Int, r[q] \in Int
    PROVE  Total(r) = r[p] + r[q]
<1> DEFINE U == {p, q}
           g == [x \in U |-> r[x]]
<1>1. Total(r) = SumOver(r, U)
  BY DEF Total, SumOver, Picked, MapThenSumSet, MapThenFoldSet
<1>2. g \in [U -> Int] /\ g[p] = r[p] /\ g[q] = r[q] /\ \A x \in U : g[x] = r[x]
  OBVIOUS
<1>3. IsFiniteSet(U)
  <2>1. IsFiniteSet({p}) /\ U = {p} \cup {q}
    BY FS_Singleton
  <2>2. QED
    BY <2>1, FS_AddElement
<1>4. p \in U /\ U \ {p} = {q} /\ {q} \in SUBSET U /\ q \in {q} /\ {q} \ {q} = {}
  OBVIOUS
<1> HIDE DEF g, U
<1>5. SumOver(g, U) = g[p] + SumOver(g, {q})
  <2>1. SumOver(g, U) = g[p] + SumOver(g, U \ {p})
    BY <1>2, <1>3, <1>4, SumTake
  <2>2. QED
    BY <1>4, <2>1
<1>6. SumOver(g, {q}) = g[q] + SumOver(g, {q} \ {q})
  BY <1>2, <1>3, <1>4, SumTake
<1>7. SumOver(g, {q} \ {q}) = 0
  BY <1>4, SumEmpty
<1>8. SumOver(g, U) = SumOver(r, U)
  <2>1. \A x \in U : g[x] = r[x] /\ g[x] \in Int
    BY <1>2
  <2>2. QED
    BY <1>3, <2>1, SumSame
<1>9. QED
  BY <1>1, <1>2, <1>5, <1>6, <1>7, <1>8

\* new is r with n at p.
Writes(new, r, p, n) ==
    /\ DOMAIN new = DOMAIN r \cup {p}
    /\ new[p] = n
    /\ AtIn(new, p) = n
    /\ \A q : q # p => AtIn(new, q) = AtIn(r, q)
    /\ \A q \in DOMAIN r : q # p => new[q] = r[q]

LEMMA UpsertedAt ==
    ASSUME NEW new, NEW r, NEW p, NEW n, new = Upserted(r, p, n)
    PROVE  Writes(new, r, p, n)
  BY DEF Upserted, AtIn, Writes

LEMMA ExpectedIs ==
    ASSUME NEW r, NEW figure
    PROVE  /\ r.action = "set" => Expected(r, figure) = {r.amount}
           /\ r.action = "add" => Expected(r, figure) = {figure + r.amount}
           /\ r.action = "subtract" => Expected(r, figure) = {figure - r.amount}
           /\ r.action = "move" => Expected(r, figure) = {IF r.about = Whole THEN figure ELSE figure - r.amount}
  BY DEF Expected

\* A request about a place changes the row there.
LEMMA PlaceShown ==
    ASSUME NEW p \in Place, NEW r, r.about = p, Applied(p, r)
    PROVE  /\ Figure(rows', p) \in Expected(r, Figure(rows, p))
           /\ \A q \in Place \ {p, r.to} : AtIn(rows', q) = AtIn(rows, q)
<1>1. Figure(rows', p) = AtIn(rows', p) /\ Figure(rows, p) = AtIn(rows, p) /\ p # Whole
  BY StockPlaces DEF Figure
<1>2. CASE r.action = "add" /\ rows' = Upserted(rows, p, AtIn(rows, p) + r.amount)
  <2>1. Writes(rows', rows, p, AtIn(rows, p) + r.amount)
    BY <1>2, UpsertedAt
  <2>2. QED
    BY <1>1, <1>2, <2>1, ExpectedIs DEF Writes
<1>3. CASE r.action = "subtract" /\ CanTake(p, r.amount) /\ rows' = Upserted(rows, p, rows[p] - r.amount)
  <2>1. AtIn(rows, p) = rows[p]
    BY <1>3 DEF CanTake, AtIn
  <2>2. Writes(rows', rows, p, rows[p] - r.amount)
    BY <1>3, UpsertedAt
  <2>3. QED
    BY <1>1, <1>3, <2>1, <2>2, ExpectedIs DEF Writes
<1>4. CASE r.action = "set" /\ rows' = Upserted(rows, p, r.amount)
  <2>1. Writes(rows', rows, p, r.amount)
    BY <1>4, UpsertedAt
  <2>2. QED
    BY <1>1, <1>4, <2>1, ExpectedIs DEF Writes
<1>5. ASSUME r.action = "move", r.to \in alive \ {p}, CanTake(p, r.amount),
             NEW less, less = Upserted(rows, p, rows[p] - r.amount),
             rows' = Upserted(less, r.to, AtIn(less, r.to) + r.amount)
      PROVE  /\ Figure(rows', p) \in Expected(r, Figure(rows, p))
             /\ \A q \in Place \ {p, r.to} : AtIn(rows', q) = AtIn(rows, q)
  <2>1. AtIn(rows, p) = rows[p]
    BY <1>5 DEF CanTake, AtIn
  <2>2. Writes(less, rows, p, rows[p] - r.amount) /\ Writes(rows', less, r.to, AtIn(less, r.to) + r.amount)
    BY <1>5, UpsertedAt
  <2>3. AtIn(rows', p) = AtIn(less, p) /\ AtIn(less, p) = rows[p] - r.amount
    BY <1>5, <2>2 DEF Writes
  <2>4. \A q \in Place \ {p, r.to} : AtIn(rows', q) = AtIn(less, q) /\ AtIn(less, q) = AtIn(rows, q)
    BY <2>2 DEF Writes
  <2>5. Expected(r, AtIn(rows, p)) = {AtIn(rows, p) - r.amount}
    BY <1>1, <1>5, ExpectedIs
  <2>6. QED
    BY <1>1, <2>1, <2>3, <2>4, <2>5
<1>6. QED
  BY <1>2, <1>3, <1>4, <1>5 DEF Applied

\* A request about an item with one row, or none, changes its total.
LEMMA TotalShown ==
    ASSUME StockInv, NEW r, r.about = Whole, r.amount \in Qty,
           NEW p \in resolveTargetLocation(Omitted), Applied(p, r)
    PROVE  Figure(rows', Whole) \in Expected(r, Figure(rows, Whole))
<1>1. rows \in RowsAt(alive \cup {Unassigned}) /\ alive \subseteq Location
  BY DEF StockInv, StockTypeOK
<1>2. DOMAIN rows = {p} \/ (DOMAIN rows = {} /\ p = Unassigned)
  <2>1. IsFiniteSet(DOMAIN rows)
    <3>1. DOMAIN rows \subseteq Place
      BY <1>1, RowsWithin DEF Place
    <3>2. QED
      BY <3>1, StockPlaces, FS_Subset
  <2>2. Cardinality(DOMAIN rows) = 1 => \E x : DOMAIN rows = {x}
    BY <2>1, FS_Singleton
  <2>3. QED
    BY <2>2 DEF resolveTargetLocation
<1>3. Figure(rows', Whole) = Total(rows') /\ Figure(rows, Whole) = Total(rows)
  BY DEF Figure
<1>4. AtIn(rows, p) \in Int /\ (p \in DOMAIN rows => rows[p] \in Int) /\ r.amount \in Int
  <2>1. AtIn(rows, p) \in Qty /\ (p \in DOMAIN rows => rows[p] \in Qty)
    BY <1>1, AtInRows
  <2>2. \A n \in Qty : n \in Int
    BY StockConstants DEF Qty
  <2>3. QED
    BY <2>1, <2>2
<1>5. Total(rows) = AtIn(rows, p)
  <2>1. CASE DOMAIN rows = {p}
    <3>1. AtIn(rows, p) = rows[p] /\ rows[p] \in Int
      BY <1>4, <2>1 DEF AtIn
    <3>2. QED
      BY <2>1, <3>1, SumOne
  <2>2. CASE DOMAIN rows = {}
    <3>1. Total(rows) = SumOver(rows, {})
      BY <2>2 DEF Total, SumOver, Picked, MapThenSumSet, MapThenFoldSet
    <3>2. AtIn(rows, p) = 0
      BY <2>2 DEF AtIn
    <3>3. QED
      BY <3>1, <3>2, SumEmpty
  <2>3. QED
    BY <1>2, <2>1, <2>2
<1>6. ASSUME NEW n \in Int, rows' = Upserted(rows, p, n) PROVE Total(rows') = n
  <2>1. Writes(rows', rows, p, n)
    BY <1>6, UpsertedAt
  <2>2. DOMAIN rows' = {p} /\ rows'[p] = n
    BY <1>2, <2>1 DEF Writes
  <2>3. QED
    BY <2>2, SumOne
<1>7. CASE r.action = "add" /\ rows' = Upserted(rows, p, AtIn(rows, p) + r.amount)
  <2>1. AtIn(rows, p) + r.amount \in Int
    BY <1>4
  <2>2. Total(rows') = AtIn(rows, p) + r.amount
    BY <1>6, <1>7, <2>1
  <2>3. QED
    BY <1>3, <1>5, <1>7, <2>2, ExpectedIs
<1>8. CASE r.action = "subtract" /\ CanTake(p, r.amount) /\ rows' = Upserted(rows, p, rows[p] - r.amount)
  <2>1. AtIn(rows, p) = rows[p] /\ rows[p] \in Int
    BY <1>4, <1>8 DEF CanTake, AtIn
  <2>2. rows[p] - r.amount \in Int
    BY <1>4, <2>1
  <2>3. Total(rows') = rows[p] - r.amount
    BY <1>6, <1>8, <2>2
  <2>4. QED
    BY <1>3, <1>5, <1>8, <2>1, <2>3, ExpectedIs
<1>9. CASE r.action = "set" /\ rows' = Upserted(rows, p, r.amount)
  <2>1. Total(rows') = r.amount
    BY <1>4, <1>6, <1>9
  <2>2. QED
    BY <1>3, <1>9, <2>1, ExpectedIs
<1>10. ASSUME r.action = "move", r.to \in alive \ {p}, CanTake(p, r.amount),
              NEW less, less = Upserted(rows, p, rows[p] - r.amount),
              rows' = Upserted(less, r.to, AtIn(less, r.to) + r.amount)
       PROVE  Figure(rows', Whole) \in Expected(r, Figure(rows, Whole))
  <2>1. DOMAIN rows = {p} /\ AtIn(rows, p) = rows[p] /\ rows[p] \in Int
    BY <1>2, <1>4, <1>10 DEF CanTake, AtIn
  <2>2. DOMAIN less = {p} /\ less[p] = rows[p] - r.amount
    <3>1. Writes(less, rows, p, rows[p] - r.amount)
      BY <1>10, UpsertedAt
    <3>2. QED
      BY <2>1, <3>1 DEF Writes
  <2>3. AtIn(less, r.to) = 0
    BY <1>10, <2>2 DEF AtIn
  <2>4. /\ DOMAIN rows' = {p, r.to} /\ rows'[p] = rows[p] - r.amount
        /\ rows'[r.to] = AtIn(less, r.to) + r.amount
    <3>1. Writes(rows', less, r.to, AtIn(less, r.to) + r.amount)
      BY <1>10, UpsertedAt
    <3>2. p # r.to
      BY <1>10
    <3>3. QED
      BY <2>2, <3>1, <3>2 DEF Writes
  <2>5. rows'[r.to] = r.amount
    BY <1>4, <2>3, <2>4
  <2>6. rows'[p] \in Int /\ rows'[r.to] \in Int
    <3>1. rows[p] - r.amount \in Int
      BY <1>4, <2>1
    <3>2. QED
      BY <1>4, <2>4, <2>5, <3>1
  <2>7. Total(rows') = rows'[p] + rows'[r.to]
    <3>1. p # r.to
      BY <1>10
    <3>2. QED
      BY <2>4, <2>6, <3>1, SumTwo
  <2>8. (rows[p] - r.amount) + r.amount = rows[p]
    BY <1>4, <2>1
  <2>9. Total(rows') = Total(rows)
    BY <1>5, <2>1, <2>4, <2>5, <2>7, <2>8
  <2>10. Expected(r, Total(rows)) = {Total(rows)}
    BY <1>10, ExpectedIs
  <2>11. QED
    BY <1>3, <2>9, <2>10
<1>11. QED
  BY <1>7, <1>8, <1>9, <1>10 DEF Applied

\* A request that changes stock changes the figure its device showed, by what
\* was asked, whatever other devices did to rows and locations before it
\* arrived: for any number of locations (QtyModal.tsx and DeductModal.tsx,
\* resolveTargetLocation in lib/domain-helpers.js).
THEOREM ShownIsChanged == ScreenSpec => ChangesWhatWasShown
<1> DEFINE Shown == request # NoRequest /\ rows' # rows /\ request' = NoRequest =>
               /\ Figure(rows', request.about) \in Expected(request, Figure(rows, request.about))
               /\ request.about # Whole =>
                    \A p \in Place \ {request.about, request.to} : AtIn(rows', p) = AtIn(rows, p)
<1>1. ScreenInv /\ RequestMeant /\ [ScreenNext]_clientVars => [Shown]_stockVars
  <2> SUFFICES ASSUME ScreenInv, RequestMeant, [ScreenNext]_clientVars,
                      request # NoRequest, rows' # rows, request' = NoRequest
               PROVE  /\ Figure(rows', request.about) \in Expected(request, Figure(rows, request.about))
                      /\ request.about # Whole =>
                           \A p \in Place \ {request.about, request.to} : AtIn(rows', p) = AtIn(rows, p)
    OBVIOUS
  <2>1. StockNext
    BY DEF ScreenNext, clientVars, stockVars
  <2>2. Handle
    BY <2>1 DEF StockNext, SelectTab, Refresh, OpenDialog, PickPlace, SubmitDialog, quickAdjust,
                OthersChange, LocationReturns
  <2>3. PICK p \in resolveTargetLocation(request.at) : Applied(p, request)
    BY <2>2 DEF Handle
  <2>4. StockInv /\ request \in StockRequest
    BY DEF ScreenInv, StockInv, StockTypeOK
  <2>5. CASE request.at = Omitted
    <3>1. request.about = Whole /\ request.amount \in Qty
      BY <2>4, <2>5 DEF RequestMeant, StockRequest
    <3>2. QED
      BY <2>3, <2>4, <2>5, <3>1, TotalShown
  <2>6. CASE request.at # Omitted
    <3>1. request.about = request.at /\ p = request.at
      BY <2>3, <2>6 DEF RequestMeant, resolveTargetLocation
    <3>2. p \in Place
      BY <2>4, <2>6, <3>1 DEF StockRequest
    <3>3. QED
      BY <2>3, <3>1, <3>2, PlaceShown
  <2>7. QED
    BY <2>5, <2>6
<1> HIDE DEF Shown
<1>2. ScreenSpec => [][Shown]_stockVars
  BY <1>1, ScreenInvariant, MeantInvariant, PTL DEF ScreenSpec
<1>3. QED
  BY <1>2 DEF Shown, ChangesWhatWasShown
==============================================================================
