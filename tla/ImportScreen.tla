---------------------------- MODULE ImportScreen ----------------------------
(***************************************************************************)
(* Which invoice import a device has under review: the dialog              *)
(* (client/src/components/InvoiceImportModal.tsx), the id it keeps in      *)
(* localStorage to come back to (ACTIVE_IMPORT_KEY), and the requests it   *)
(* sends. Answers come in any order, also to a dialog that was closed and  *)
(* opened again meanwhile: its handlers still run.                         *)
(*                                                                         *)
(* What is on the lines of an import, and the edits of them, are in        *)
(* InvoiceImport and LineQueue.                                            *)
(***************************************************************************)
EXTENDS Naturals, FiniteSets

CONSTANTS
    MaxImports, \* bound: imports ever staged
    MaxModal,   \* bound: dialogs ever opened
    MaxCall     \* bound: requests under way

ASSUME ImportScreenAssumption == {MaxImports, MaxModal, MaxCall} \subseteq Nat

VARIABLES
    staged,    \* per import: what became of it on the server
    kept,      \* the id in localStorage, 0 for none
    modal,     \* the dialog on screen, 0 for none
    modals,    \* how many were opened
    review,    \* the import it shows, 0 for the file picker
    offered,   \* the import a duplicate upload was told of, 0 for none
    calls,     \* requests under way
    crossed    \* observer: the last answer to change the screen was not the
               \* answer to what was last done on it

importScreenVars == <<staged, kept, modal, modals, review, offered, calls, crossed>>

StagedImport == 1..MaxImports
Fate == {"none", "reviewing", "committed", "gone"}

\* An import's fate when the server read it; "failed" when it refused or the
\* answer was lost.
Answer == Fate \cup {"unsent", "ok", "failed", "duplicate"}
\* seen: what was kept and on screen when it was sent.
Call == [kind : {"resume", "upload", "open", "cancel", "commit"}, modal : 1..MaxModal,
         import : 0..MaxImports, answer : Answer, seen : (0..MaxImports) \X (0..MaxImports)]

ImportScreenInit ==
    /\ staged \in [StagedImport -> {"none", "reviewing"}]
    /\ \A m \in StagedImport : staged[m] = "reviewing" => m = 1
    /\ kept = 0 /\ modal = 0 /\ modals = 0 /\ review = 0 /\ offered = 0
    /\ calls = {} /\ crossed = FALSE

CallOf(kind, m) == [kind |-> kind, modal |-> modal', import |-> m, answer |-> "unsent", seen |-> <<kept, review'>>]

Launch(kind, m) ==
    /\ Cardinality(calls) < MaxCall
    /\ CallOf(kind, m) \notin calls
    /\ calls' = calls \cup {CallOf(kind, m)}

\* Mounted: the file picker, until the answer about the kept import is in.
OpenImportModal ==
    /\ modal = 0 /\ modals < MaxModal
    /\ modals' = modals + 1 /\ modal' = modals'
    /\ review' = 0 /\ offered' = 0 /\ crossed' = FALSE
    /\ IF kept # 0 THEN Launch("resume", kept) ELSE UNCHANGED calls
    /\ UNCHANGED <<staged, kept>>

CloseImportModal ==
    /\ modal # 0
    /\ modal' = 0 /\ review' = 0 /\ offered' = 0
    /\ UNCHANGED <<staged, kept, modals, calls, crossed>>

\* The tab is closed: what was sent may still be handled, no handler runs.
CloseTab ==
    /\ modal' = 0 /\ review' = 0 /\ offered' = 0 /\ calls' = {} /\ crossed' = FALSE
    /\ UNCHANGED <<staged, kept, modals>>

SendCall(kind, m) ==
    /\ UNCHANGED <<staged, kept, modal, modals, review, crossed>>
    /\ Launch(kind, m)

\* The picker is not disabled while an upload is under way.
ChooseFile == modal # 0 /\ review = 0 /\ offered' = 0 /\ SendCall("upload", 0)

OpenExistingImport ==
    /\ review = 0 /\ offered # 0 /\ UNCHANGED offered
    /\ SendCall("open", offered)

CancelImport == review # 0 /\ UNCHANGED offered /\ SendCall("cancel", review)

\* committing, of this dialog.
Committing(f) == f.kind = "commit" /\ f.modal = modal

CommitImport ==
    /\ review # 0 /\ ~\E f \in calls : Committing(f)
    /\ UNCHANGED offered
    /\ SendCall("commit", review)

------------------------------------------------------------------------------
\* The server's side, and what else happens there: another device, or the
\* retention of abandoned imports. A duplicate of a committed invoice is
\* refused like any other file.
CallAnswered(f, answer, m) == calls' = (calls \ {f}) \cup {[f EXCEPT !.answer = answer, !.import = m]}

Becomes(m, fate) == staged' = [staged EXCEPT ![m] = fate]

Stages(m) ==
    /\ staged[m] = "none" /\ \A n \in 1..m - 1 : staged[n] # "none"
    /\ Becomes(m, "reviewing")

UploadArrives(f) ==
    \/ \E m \in StagedImport : Stages(m) /\ CallAnswered(f, "ok", m)
    \/ \E m \in StagedImport :
         /\ staged[m] = "reviewing"
         /\ CallAnswered(f, "duplicate", m) /\ UNCHANGED staged

Decide(f, fate) ==
    IF staged[f.import] = "reviewing" THEN Becomes(f.import, fate) /\ CallAnswered(f, "ok", f.import)
    ELSE CallAnswered(f, "failed", f.import) /\ UNCHANGED staged

ServerHandles(f) ==
    /\ f.answer = "unsent"
    /\ \/ f.kind \in {"resume", "open"} /\ CallAnswered(f, staged[f.import], f.import) /\ UNCHANGED staged
       \/ f.kind = "upload" /\ UploadArrives(f)
       \/ f.kind = "cancel" /\ Decide(f, "gone")
       \/ f.kind = "commit" /\ Decide(f, "committed")
    /\ UNCHANGED <<kept, modal, modals, review, offered, crossed>>

LoseCall(f) ==
    /\ f.answer # "failed"
    /\ CallAnswered(f, "failed", f.import)
    /\ UNCHANGED <<staged, kept, modal, modals, review, offered, crossed>>

OthersDecide ==
    /\ \E m \in StagedImport :
          \/ Stages(m)
          \/ staged[m] = "reviewing" /\ \E fate \in {"committed", "gone"} : Becomes(m, fate)
    /\ UNCHANGED <<kept, modal, modals, review, offered, calls, crossed>>

------------------------------------------------------------------------------
\* The answers. setState reaches the dialog that asked, while it is there;
\* localStorage and the parent's state are the page's.
Here(f) == modal = f.modal
Crosses(f) == ~Here(f) \/ <<kept, review>> # f.seen
Shows(f, m) == review' = IF Here(f) THEN m ELSE review

\* Mutant: the import that was opened is not kept.
KeepNothing(m) == kept' = kept
Keep(m) == kept' = m

Resumed(f) ==
    /\ f.kind = "resume" /\ f.answer \in Fate
    /\ IF f.answer = "reviewing" THEN Shows(f, f.import) /\ UNCHANGED kept
       ELSE kept' = 0 /\ UNCHANGED review
    /\ UNCHANGED <<modal, offered>>

Uploaded(f) ==
    /\ f.kind = "upload" /\ f.answer \in {"ok", "duplicate"}
    /\ IF f.answer = "ok" THEN Keep(f.import) /\ Shows(f, f.import) /\ UNCHANGED offered
       ELSE /\ offered' = IF Here(f) THEN f.import ELSE offered
            /\ UNCHANGED <<kept, review>>
    /\ UNCHANGED modal

OpenedExisting(f) ==
    /\ f.kind = "open" /\ f.answer \in Fate
    /\ IF f.answer = "reviewing"
       THEN Keep(f.import) /\ Shows(f, f.import) /\ offered' = IF Here(f) THEN 0 ELSE offered
       ELSE UNCHANGED <<kept, review, offered>>
    /\ UNCHANGED modal

Cancelled(f) ==
    /\ f.kind = "cancel" /\ f.answer = "ok"
    /\ kept' = 0 /\ Shows(f, 0)
    /\ UNCHANGED <<modal, offered>>

\* onCommitted closes whichever dialog is open.
ImportCommitted(f) ==
    /\ f.kind = "commit" /\ f.answer = "ok"
    /\ kept' = 0 /\ review' = 0 /\ modal' = 0 /\ offered' = 0

\* A toast; the screen stays.
CallFailed(f) == f.answer = "failed" /\ UNCHANGED <<kept, modal, review, offered>>

HandleAnswer(f) ==
    /\ Resumed(f) \/ Uploaded(f) \/ OpenedExisting(f) \/ Cancelled(f) \/ ImportCommitted(f) \/ CallFailed(f)
    /\ calls' = calls \ {f}
    /\ crossed' = IF kept' # kept \/ review' # review THEN Crosses(f) ELSE crossed
    /\ UNCHANGED <<staged, modals>>

ImportScreenNext ==
    \/ OpenImportModal \/ CloseImportModal \/ CloseTab
    \/ ChooseFile \/ OpenExistingImport \/ CancelImport \/ CommitImport
    \/ OthersDecide
    \/ \E f \in calls : ServerHandles(f) \/ LoseCall(f) \/ HandleAnswer(f)

------------------------------------------------------------------------------
(***************************************************************************)
(* Properties.                                                             *)
(***************************************************************************)
ImportScreenTypeOK ==
    /\ staged \in [StagedImport -> Fate]
    /\ {kept, review, offered} \subseteq 0..MaxImports
    /\ modal \in 0..modals /\ modals \in 0..MaxModal /\ (modal = 0 => review = 0 /\ offered = 0)
    /\ calls \subseteq Call /\ Cardinality(calls) <= MaxCall
    /\ crossed \in BOOLEAN

\* Closing the tab in the middle of a review leads back to the same review
\* (the promise above the effect that reopens the dialog, ItemList.tsx): the
\* import on screen is the one that is kept, through uploads, duplicates,
\* cancellations and commits of this and other devices, unless the answer to
\* something done before has come in over what was done since.
ReviewResumable == review # 0 => kept = review \/ crossed

\* A call is about an import unless it uploads one, and the dialog resumes
\* what was kept when it was opened.
CallsMeanImports ==
    \A f \in calls :
        /\ f.kind # "upload" \/ f.answer \in {"ok", "duplicate"} => f.import # 0
        /\ f.kind = "resume" => f.seen = <<f.import, 0>>

\* The inductive invariant.
ImportScreenInv == ImportScreenTypeOK /\ IsFiniteSet(calls) /\ CallsMeanImports /\ ReviewResumable
=============================================================================
