------------------------------ MODULE MCService ------------------------------
(***************************************************************************)
(* The instance of what the server does besides answering requests about   *)
(* the inventory: uploads, reading invoices, log and shutdown, backup, the *)
(* opening of the database. These components share no state, so one run    *)
(* explores them side by side: part says which of them moves, the others   *)
(* stay as they start.                                                     *)
(***************************************************************************)
EXTENDS Shutdown, Uploads, Backup, Schema, Classify, InvoiceParsers

CONSTANTS
    u1, u2,
    MaxAtStop  \* bound: entries logged in the runs that stop the server

VARIABLE part

serviceVars == <<part, stopVars, uploadVars, backupVars, schemaVars, classifyVars, parseVars>>

\* Rankings: lines that share a best candidate, a second one, or none.
Rankings == {<<>>, <<1>>, <<1, 2>>, <<2, 3>>, <<4, 1>>}

\* Only the part that moves starts in more than one state, or with anything to do.
ServiceInit ==
    /\ part \in {"log", "stop", "uploads", "backup", "schema", "classify", "parse"}
    /\ StopInit
    \* A PDF and an image, and a link in the scratch directory.
    /\ kind = [u \in Upload |-> IF u = u1 THEN "pdf" ELSE "image"]
    /\ UploadInit /\ IF part = "uploads" THEN DOMAIN scratch = Planted ELSE sweep.listed
    /\ BackupInit /\ (part = "backup" \/ backups = {})
    /\ SchemaInit /\ (part = "schema" \/ ~exists)
    /\ ClassifyInit /\ (part = "classify" \/ Classifying)
    /\ ParseInit /\ (part = "parse" \/ retailer = "unknown")

ServiceNext ==
    /\ UNCHANGED part
    \* The log of a server that goes on, whose clients wait for their answers
    \* and then hang up; the log of one that is stopped.
    /\ \/ /\ part \in {"log", "stop"} /\ StopNext
          /\ part = "log" => UNCHANGED processVars /\ keptAlive' = 0 /\ abandoned' = 0
          /\ part = "stop" => logged' <= MaxAtStop
          /\ UNCHANGED <<uploadVars, backupVars, schemaVars, classifyVars, parseVars>>
       \/ part = "uploads" /\ UploadNext
          /\ UNCHANGED <<stopVars, backupVars, schemaVars, classifyVars, parseVars>>
       \/ part = "backup" /\ BackupNext
          /\ UNCHANGED <<stopVars, uploadVars, schemaVars, classifyVars, parseVars>>
       \/ part = "schema" /\ SchemaNext
          /\ UNCHANGED <<stopVars, uploadVars, backupVars, classifyVars, parseVars>>
       \/ part = "classify" /\ ClassifyNext
          /\ UNCHANGED <<stopVars, uploadVars, backupVars, schemaVars, parseVars>>
       \/ part = "parse" /\ ParseNext
          /\ UNCHANGED <<stopVars, uploadVars, backupVars, schemaVars, classifyVars>>

\* Each part keeps its fairness; the parts that do not move have nothing
\* under way.
ServiceSpec ==
    /\ ServiceInit /\ [][ServiceNext]_serviceVars
    /\ StopFairness /\ UploadFairness

\* The state of every component has its type.
ServiceTypeOK ==
    StopTypeOK /\ UploadTypeOK /\ BackupTypeOK /\ SchemaTypeOK /\ ClassifyTypeOK /\ ParseTypeOK

\* What the reviewer gets to see of an invoice is what it says: its products,
\* as laid out, each with the answer the model gave about it and with the
\* candidates that rank best for it.
LinesRead == ParsedAsLaidOut /\ ClassifiedInOrder /\ CandidatesShared
=============================================================================
