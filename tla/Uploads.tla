------------------------------- MODULE Uploads -------------------------------
(***************************************************************************)
(* An uploaded file from multer's scratch copy to its removal: the label   *)
(* route (routes/uploads.js) and the reading of an invoice's PDF           *)
(* (lib/uploads.js, lib/pdf-worker.js), with a crash of the process at any *)
(* time and the sweep a start makes. The two work gates are taken as what  *)
(* BoundedPool promises, with a waiting place that is had or not.          *)
(***************************************************************************)
EXTENDS Naturals, FiniteSets

CONSTANTS
    Upload,     \* requests with a file, each made once
    HeavySlots, \* HEAVY_WORK_CONCURRENCY
    Hour,       \* age from which the sweep takes a scratch file
    Planted,    \* files of no request that may lie in the directory: links
    LastClock,  \* bound: the clock
    MaxCrash    \* bound: crashes

ASSUME UploadAssumption ==
    /\ {HeavySlots, Hour} \subseteq Nat \ {0} /\ {LastClock, MaxCrash} \subseteq Nat
    /\ Upload \cap Planted = {}

VARIABLES
    work,     \* per request, where its handler is
    kind,     \* per request, "image" or "pdf"
    scratch,  \* the files in UPLOAD_TMP_DIR: function to their mtime
    thread,   \* per request, the PDF worker and its deadline
    answer,   \* per request, what the client was told
    sweep,    \* sweepStaleScratch: when the process started, and the names to look at
    clock, crashes

uploadVars == <<work, kind, scratch, thread, answer, sweep, clock, crashes>>

Stage == {"unsent", "received", "waiting", "heavy", "model", "finally", "over", "lost"}
Answer == {"none", "read", "fallback", "error", "busy"}

UploadInit ==
    /\ work = [u \in Upload |-> "unsent"]
    /\ kind \in [Upload -> {"image", "pdf"}]
    /\ \E P \in SUBSET Planted : scratch = [p \in P |-> 0]
    /\ thread = [u \in Upload |-> "none"]
    /\ answer = [u \in Upload |-> "none"]
    \* The sweep of this start is still to come, or it found nothing.
    /\ \E listed \in BOOLEAN : sweep = [started |-> 0, listed |-> listed, names |-> {}]
    /\ sweep.listed => DOMAIN scratch = {}
    /\ clock = 0 /\ crashes = 0

Move(u, stage) == work' = [work EXCEPT ![u] = stage]
Answered(u, what) == answer' = [answer EXCEPT ![u] = what]
Removed(f) == scratch' = [g \in DOMAIN scratch \ {f} |-> scratch[g]]
Quietly == UNCHANGED <<kind, sweep, clock, crashes>>

Busy == {u \in Upload : work[u] = "heavy"}

------------------------------------------------------------------------------
\* multer's diskStorage; a MIME type or a size it refuses leaves no file and
\* no handler.
Receive(u) ==
    /\ work[u] = "unsent"
    /\ Move(u, "received")
    /\ scratch' = [f \in DOMAIN scratch \cup {u} |-> IF f = u THEN clock ELSE scratch[f]]
    /\ UNCHANGED <<thread, answer>> /\ Quietly

RefuseFile(u) ==
    /\ work[u] = "unsent"
    /\ Move(u, "over") /\ Answered(u, "error")
    /\ UNCHANGED <<scratch, thread>> /\ Quietly

\* heavyWork.run: a slot, a waiting place or GateFullError.
EnterGate(u) ==
    /\ work[u] \in {"received", "waiting"}
    /\ Cardinality(Busy) < HeavySlots
    /\ Move(u, "heavy")
    /\ thread' = [thread EXCEPT ![u] = IF kind[u] = "pdf" THEN "reading" ELSE "none"]
    /\ UNCHANGED <<scratch, answer>> /\ Quietly

WaitAtGate(u) ==
    /\ work[u] = "received" /\ Cardinality(Busy) = HeavySlots
    /\ Move(u, "waiting")
    /\ UNCHANGED <<scratch, thread, answer>> /\ Quietly

\* sendUploadError: both gates of the label route, the first of an invoice.
GateFull(u) ==
    /\ \/ work[u] = "received" /\ Cardinality(Busy) = HeavySlots
       \/ work[u] = "model" /\ kind[u] = "image"
    /\ Move(u, "finally") /\ Answered(u, "busy")
    /\ UNCHANGED <<scratch, thread>> /\ Quietly

\* openValidatedImage and the re-encoding, or one of them throws; what is no
\* UploadError ends in the label route's fallback object.
ImageDecoded(u) ==
    /\ work[u] = "heavy" /\ kind[u] = "image"
    /\ \/ Move(u, "model") /\ UNCHANGED answer
       \/ Move(u, "finally") /\ \E what \in {"error", "fallback"} : Answered(u, what)
    /\ UNCHANGED <<scratch, thread>> /\ Quietly

------------------------------------------------------------------------------
\* The file is not readable or does not begin with %PDF-: no worker.
NotAPdf(u) ==
    /\ work[u] = "heavy" /\ thread[u] = "reading"
    /\ thread' = [thread EXCEPT ![u] = "none"]
    /\ Move(u, "finally") /\ Answered(u, "error")
    /\ UNCHANGED scratch /\ Quietly

StartWorker(u) ==
    /\ work[u] = "heavy" /\ thread[u] = "reading"
    /\ thread' = [thread EXCEPT ![u] = "parsing"]
    /\ UNCHANGED <<work, scratch, answer>> /\ Quietly

\* The worker: its message, an uncaught error (out of memory), and its exit;
\* a document may spin it for ever.
WorkerReports(u) ==
    /\ thread[u] = "parsing"
    /\ \E event \in {"text", "failed"} : thread' = [thread EXCEPT ![u] = event]
    /\ UNCHANGED <<work, scratch, answer>> /\ Quietly

\* finish: the first event, or the deadline before any, settles the promise
\* and terminates the thread; the slot is given back before it has stopped.
\* A text of too many pages is refused like an unreadable one.
\* Mutant: the deadline of a spinning worker is not armed.
FinishedByEvent(u) == thread[u] \in {"text", "failed"}
Finished(u) == thread[u] \in {"parsing", "text", "failed"}

WorkerFinished(u) ==
    /\ work[u] = "heavy" /\ Finished(u)
    /\ \/ thread[u] = "text" /\ Move(u, "model") /\ UNCHANGED answer
       \/ Move(u, "finally") /\ Answered(u, "error")
    /\ thread' = [thread EXCEPT ![u] = "terminating"]
    /\ UNCHANGED scratch /\ Quietly

WorkerGone(u) ==
    /\ thread[u] = "terminating"
    /\ thread' = [thread EXCEPT ![u] = "none"]
    /\ UNCHANGED <<work, scratch, answer>> /\ Quietly

------------------------------------------------------------------------------
\* The model's answer, or its failure; what an invoice does with its text is
\* the import's (InvoiceImport).
ModelAnswers(u) ==
    /\ work[u] = "model"
    /\ Move(u, "finally")
    /\ \E what \in {"read", IF kind[u] = "image" THEN "fallback" ELSE "error"} : Answered(u, what)
    /\ UNCHANGED <<scratch, thread>> /\ Quietly

\* discardUpload in the finally clause.
discardUpload(u) ==
    /\ work[u] = "finally"
    /\ Move(u, "over")
    /\ Removed(u)
    /\ UNCHANGED <<thread, answer>> /\ Quietly

------------------------------------------------------------------------------
\* sweepStaleScratch: readdir, then one name at a time, while requests are
\* served; the age counts from the start.
ListNames ==
    /\ ~sweep.listed
    /\ sweep' = [sweep EXCEPT !.listed = TRUE, !.names = DOMAIN scratch]
    /\ UNCHANGED <<work, kind, scratch, thread, answer, clock, crashes>>

\* Mutant: whatever lies there.
Anything(f) == TRUE
Stale(f) == f \in Planted \/ scratch[f] + Hour < sweep.started

SweepOne(f) ==
    /\ f \in sweep.names
    /\ IF f \in DOMAIN scratch /\ Stale(f) THEN Removed(f) ELSE UNCHANGED scratch
    /\ sweep' = [sweep EXCEPT !.names = @ \ {f}]
    /\ UNCHANGED <<work, kind, thread, answer, clock, crashes>>

\* The process is gone and starts again: only the directory is left.
Crash ==
    /\ crashes < MaxCrash
    /\ crashes' = crashes + 1
    /\ work' = [u \in Upload |-> IF work[u] \in {"unsent", "over"} THEN work[u] ELSE "lost"]
    /\ thread' = [u \in Upload |-> "none"]
    /\ sweep' = [started |-> clock, listed |-> FALSE, names |-> {}]
    /\ UNCHANGED <<kind, scratch, answer, clock>>

ClockTicks ==
    /\ clock < LastClock
    /\ clock' = clock + 1
    /\ UNCHANGED <<work, kind, scratch, thread, answer, sweep, crashes>>

HandlerMoves(u) ==
    \/ EnterGate(u) \/ WaitAtGate(u) \/ GateFull(u) \/ ImageDecoded(u)
    \/ NotAPdf(u) \/ StartWorker(u) \/ WorkerFinished(u)
    \/ ModelAnswers(u) \/ discardUpload(u)

UploadNext ==
    \/ \E u \in Upload : Receive(u) \/ RefuseFile(u) \/ HandlerMoves(u) \/ WorkerReports(u) \/ WorkerGone(u)
    \/ ListNames \/ (\E f \in sweep.names : SweepOne(f))
    \/ Crash \/ ClockTicks

\* Nobody need upload, a worker may never report, and nothing crashes on
\* purpose; but a PDF has a deadline, an image a pixel limit, the model a
\* request timeout, and the sweep goes through its names.
UploadFairness ==
    /\ \A u \in Upload : WF_uploadVars(HandlerMoves(u))
    /\ WF_uploadVars(ListNames) /\ WF_uploadVars(\E f \in sweep.names : SweepOne(f))

------------------------------------------------------------------------------
UploadTypeOK ==
    /\ work \in [Upload -> Stage] /\ kind \in [Upload -> {"image", "pdf"}]
    /\ DOMAIN scratch \subseteq Upload \cup Planted
    /\ \A f \in DOMAIN scratch : scratch[f] \in 0..clock
    /\ thread \in [Upload -> {"none", "reading", "parsing", "text", "failed", "terminating"}]
    /\ answer \in [Upload -> Answer]
    /\ sweep \in [started : 0..clock, listed : BOOLEAN, names : SUBSET (Upload \cup Planted)]
    /\ clock \in 0..LastClock /\ crashes \in 0..MaxCrash
    /\ Cardinality(Busy) <= HeavySlots

\* No uploaded file stays: its request removes it however it ends, a file a
\* crash left lasts until a start more than an hour after it was written,
\* and a link is gone after the first start.
ScratchFreed ==
    \A f \in Upload \cup Planted :
        f \in DOMAIN scratch ~>
            \/ f \notin DOMAIN scratch
            \/ f \in Upload /\ work[f] = "lost" /\ scratch[f] + Hour >= sweep.started

\* The sweep runs while the first uploads are handled, and no file goes
\* while its request is still to read it.
SweepSparesLive ==
    [][\A u \in Upload : u \in DOMAIN scratch /\ u \notin DOMAIN scratch' => work[u] \in {"finally", "lost"}]_uploadVars

\* A request that is being handled has its file, written since the start, and
\* one that is not yet or no longer has none.
LiveFiles ==
    \A u \in Upload :
        /\ work[u] \in {"received", "waiting", "heavy", "model", "finally"} =>
              u \in DOMAIN scratch /\ scratch[u] >= sweep.started
        /\ work[u] \in {"unsent", "over"} => u \notin DOMAIN scratch

\* The inductive invariant.
UploadInv == UploadTypeOK /\ IsFiniteSet(Busy) /\ LiveFiles
==============================================================================
