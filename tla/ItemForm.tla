------------------------------ MODULE ItemForm ------------------------------
(***************************************************************************)
(* The add form (client/src/components/ItemFormModal.tsx): Save looks for  *)
(* an item that may be the same, asks when it is not sure, and writes; the *)
(* answers come when they come, also to a form that was closed meanwhile.  *)
(*                                                                         *)
(* What is typed is abstracted to the number of the draft it makes.        *)
(***************************************************************************)
EXTENDS Naturals, FiniteSets

CONSTANTS
    NoPanel,   \* no question about possible duplicates is up
    MaxDraft,  \* bound: drafts ever typed
    MaxForm,   \* bound: forms ever opened
    MaxLost    \* bound: answers lost per draft

ASSUME FormAssumption == MaxDraft \in Nat /\ MaxForm \in Nat /\ MaxLost \in Nat

VARIABLES
    form,    \* the form on screen, 0 for none
    forms,   \* how many were opened
    fields,  \* the draft its fields hold, 0 when blank
    drafts,  \* how many were typed
    panel,   \* the draft the duplicate panel holds, and what Save meant
    saves,   \* the saves under way, of this form and of closed ones
    writes,  \* observer: per draft, how often the server wrote it
    lost     \* observer: per draft, how many answers to that were lost

formVars == <<form, forms, fields, drafts, panel, saves, writes, lost>>

Draft == 1..MaxDraft
Pending == [draft : Draft, another : BOOLEAN]
SaveStep == {"checking", "writing", "written", "failed"}
SaveRecord == [form : 1..MaxForm, draft : Draft, another : BOOLEAN, step : SaveStep]

FormInit ==
    /\ form = 0 /\ forms = 0 /\ fields = 0 /\ drafts = 0
    /\ panel = NoPanel /\ saves = {}
    /\ writes = [d \in Draft |-> 0] /\ lost = [d \in Draft |-> 0]

\* exclusive: the ref is taken before anything is sent and given back when
\* the last answer is in. A form has its own.
\* Mutant: nothing but the buttons' disabled look, which comes with the next render.
SavingNever(f) == FALSE
Saving(f) == \E s \in saves : s.form = f

OpenForm ==
    /\ form = 0 /\ forms < MaxForm
    /\ forms' = forms + 1 /\ form' = forms'
    /\ fields' = 0 /\ panel' = NoPanel
    /\ UNCHANGED <<drafts, saves, writes, lost>>

\* Cancel, the cross, and onClose: the parent closes the form on screen,
\* whichever asked for it.
onClose == form' = 0 /\ fields' = 0 /\ panel' = NoPanel

CloseForm ==
    /\ form # 0 /\ onClose
    /\ UNCHANGED <<forms, drafts, saves, writes, lost>>

\* Also while a save is under way or the panel is up: no input is disabled.
\* The answer to a scanned label fills the fields just the same.
Type ==
    /\ form # 0 /\ drafts < MaxDraft
    /\ drafts' = drafts + 1 /\ fields' = drafts'
    /\ UNCHANGED <<form, forms, panel, saves, writes, lost>>

Begin(d, another, step) ==
    saves' = saves \cup {[form |-> form, draft |-> d, another |-> another, step |-> step]}

\* Save, or Save + Add Another: the payload is what the fields hold now.
Submit ==
    /\ form # 0 /\ fields # 0 /\ ~Saving(form)
    /\ \E another \in BOOLEAN : Begin(fields, another, "checking")
    /\ UNCHANGED <<form, forms, fields, drafts, panel, writes, lost>>

\* Use this, or Add as new item anyway: the payload is the panel's.
Choose ==
    /\ panel # NoPanel /\ ~Saving(form)
    /\ Begin(panel.draft, panel.another, "writing")
    /\ UNCHANGED <<form, forms, fields, drafts, panel, writes, lost>>

Move(s, step) == saves' = (saves \ {s}) \cup {[s EXCEPT !.step = step]}
Ends(s) == saves' = saves \ {s}

\* No match, or exactly one item of that name: the save goes on and writes.
\* Otherwise the panel asks; a form that is gone shows none.
MatchAnswered(s) ==
    /\ s.step = "checking"
    /\ \/ Move(s, "writing") /\ UNCHANGED panel
       \/ /\ Ends(s)
          /\ panel' = IF s.form = form THEN [draft |-> s.draft, another |-> s.another] ELSE panel
       \/ Ends(s) /\ UNCHANGED panel
    /\ UNCHANGED <<form, forms, fields, drafts, writes, lost>>

\* POST of the item, or of the merge: written, or refused or never arrived.
ServerWrites(s) ==
    /\ s.step = "writing"
    /\ \/ /\ Move(s, "written")
          /\ writes' = [writes EXCEPT ![s.draft] = @ + 1]
       \/ Move(s, "failed") /\ UNCHANGED writes
    /\ UNCHANGED <<form, forms, fields, drafts, panel, lost>>

LoseAnswer(s) ==
    /\ s.step = "written" /\ lost[s.draft] < MaxLost
    /\ Move(s, "failed")
    /\ lost' = [lost EXCEPT ![s.draft] = @ + 1]
    /\ UNCHANGED <<form, forms, fields, drafts, panel, writes>>

\* The form is done with: blank for the next item, if it is still the one
\* on screen, or closed.
SaveAnswered(s) ==
    /\ s.step = "written"
    /\ Ends(s)
    /\ IF ~s.another THEN onClose
       ELSE IF s.form = form THEN fields' = 0 /\ panel' = NoPanel /\ UNCHANGED form
       ELSE UNCHANGED <<form, fields, panel>>
    /\ UNCHANGED <<forms, drafts, writes, lost>>

\* The toast is shown, the form and the panel stay as they are.
SaveFailed(s) ==
    /\ s.step = "failed"
    /\ Ends(s)
    /\ UNCHANGED <<form, forms, fields, drafts, panel, writes, lost>>

FormNext ==
    \/ OpenForm \/ CloseForm \/ Type \/ Submit \/ Choose
    \/ \E s \in saves :
          \/ MatchAnswered(s) \/ ServerWrites(s) \/ LoseAnswer(s)
          \/ SaveAnswered(s) \/ SaveFailed(s)

------------------------------------------------------------------------------
(***************************************************************************)
(* Properties.                                                             *)
(***************************************************************************)
FormTypeOK ==
    /\ form \in 0..forms /\ forms \in 0..MaxForm
    /\ fields \in 0..drafts /\ drafts \in 0..MaxDraft
    /\ panel \in Pending \cup {NoPanel}
    /\ saves \subseteq SaveRecord
    /\ writes \in [Draft -> Nat] /\ lost \in [Draft -> Nat]

\* What was typed becomes stock once: however often Save and the panel's
\* buttons are pressed, and in whatever order match, save and failure are
\* answered, a draft is written again only after the answer to an earlier
\* write of it was lost.
WrittenOnce == \A d \in Draft : writes[d] <= 1 + lost[d]

\* A draft is typed into one form and saved from it by one save at a time.
OneSave ==
    /\ \A s, t \in saves : s.form = t.form => s = t
    /\ \A s, t \in saves : s.draft = t.draft => s.form = t.form
    /\ \A s \in saves : s.form <= forms /\ s.draft <= drafts
    /\ \A s \in saves : s.draft = fields => s.form = form
    /\ panel # NoPanel =>
         /\ panel.draft <= drafts
         /\ \A s \in saves : s.draft = panel.draft => s.form = form
    /\ form = 0 => fields = 0 /\ panel = NoPanel

\* A draft the server wrote, without the answer being lost, waits for that
\* answer or is nowhere any more.
Awaited(d) ==
    /\ \E s \in saves : s.draft = d /\ s.step = "written"
    /\ \A s \in saves : s.draft = d => s.step = "written"
Nowhere(d) == fields # d /\ (panel # NoPanel => panel.draft # d) /\ \A s \in saves : s.draft # d

WritesCounted ==
    \A d \in Draft :
        /\ d > drafts => writes[d] = 0
        /\ \/ writes[d] = lost[d] /\ \A s \in saves : s.draft = d => s.step # "written"
           \/ writes[d] = lost[d] + 1 /\ (Awaited(d) \/ Nowhere(d))

\* The inductive invariant.
FormInv == FormTypeOK /\ OneSave /\ WritesCounted
=============================================================================
