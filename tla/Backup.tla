------------------------------- MODULE Backup --------------------------------
(***************************************************************************)
(* The nightly backup of backup.js: one job in a chain of timers, which    *)
(* copies the database to a name of its own and then prunes what is too    *)
(* old. A crash or a failure may leave a part of a copy under a name like  *)
(* any other.                                                              *)
(***************************************************************************)
EXTENDS Naturals, FiniteSets, FiniteSetsExt

CONSTANTS
    KeepDays,    \* MAX_AGE_DAYS
    LastNight,   \* bound: the clock
    MaxCopy      \* bound: copies started

ASSUME BackupAssumption == {KeepDays, LastNight, MaxCopy} \subseteq Nat

VARIABLES
    backups,  \* the directory: [base, n, mtime, copy, whole]
    job,      \* the copy under way: its name and number
    due,      \* the night the timer fires
    copies,   \* copies started
    lastGood, \* observer: the last copy that was completed
    night     \* the clock

backupVars == <<backups, job, due, copies, lastGood, night>>

Idle == [running |-> FALSE, base |-> 0, n |-> 0]

\* An install of before the names had a time: a date-only name.
BackupInit ==
    /\ backups \in {{}, {[base |-> 0, n |-> 0, mtime |-> 0, copy |-> 0, whole |-> TRUE]}}
    /\ job = Idle /\ due = 1
    /\ copies = 0 /\ lastGood = 0 /\ night = 0

\* uniqueBackupPath: the first counter no file has; 0 is none.
FreeName(base) == Min({n \in 0..MaxCopy : \A f \in backups : <<f.base, f.n>> # <<base, n>>})

Named(f) == f.base = job.base /\ f.n = job.n
Others == {f \in backups : ~Named(f)}

\* The timer fires; db.backup creates the file.
StartBackup ==
    /\ ~job.running /\ due <= night
    /\ copies < MaxCopy
    /\ copies' = copies + 1
    /\ job' = [running |-> TRUE, base |-> night, n |-> FreeName(night)]
    /\ backups' = {f \in backups : <<f.base, f.n>> # <<job'.base, job'.n>>}
                    \cup {[base |-> job'.base, n |-> job'.n, mtime |-> night, copy |-> copies', whole |-> FALSE]}
    /\ UNCHANGED <<due, lastGood, night>>

\* pruneOldBackups, by the time of the last write and whatever the file holds.
Fresh(files) == {f \in files : f.mtime + KeepDays >= night}

\* msUntilNextHour after the job has settled: the next night, or this one
\* again when the timer fired a moment before the hour.
Reschedule == due' \in {night, night + 1}

BackupDone ==
    /\ job.running
    /\ lastGood' = copies
    /\ backups' = Fresh(Others \cup {[f EXCEPT !.mtime = night, !.whole = TRUE] : f \in backups \ Others})
    /\ job' = Idle /\ Reschedule
    /\ UNCHANGED <<copies, night>>

\* A failure prunes nothing; the part that was copied stays, or was never made.
\* Mutant: pruning in the finally clause.
FailedPruning ==
    /\ job.running
    /\ backups' \in {Fresh(backups), Fresh(Others)}
    /\ job' = Idle /\ Reschedule
    /\ UNCHANGED <<copies, lastGood, night>>

BackupFailed ==
    /\ job.running
    /\ backups' \in {backups, Others}
    /\ job' = Idle /\ Reschedule
    /\ UNCHANGED <<copies, lastGood, night>>

\* A crash, and the start that arms the timer anew.
BackupCrash ==
    /\ job' = Idle /\ due' = night + 1
    /\ UNCHANGED <<backups, copies, lastGood, night>>

NightPasses ==
    /\ night < LastNight
    /\ night' = night + 1
    /\ UNCHANGED <<backups, job, due, copies, lastGood>>

BackupNext == StartBackup \/ BackupDone \/ BackupFailed \/ BackupCrash \/ NightPasses

BackupFile == [base : 0..LastNight, n : 0..MaxCopy, mtime : 0..LastNight, copy : 0..MaxCopy, whole : BOOLEAN]

BackupTypeOK ==
    /\ backups \subseteq BackupFile /\ \A f \in backups : f.copy <= copies
    /\ \A f, g \in backups : <<f.base, f.n>> = <<g.base, g.n>> => f = g
    /\ job \in [running : BOOLEAN, base : 0..LastNight, n : 0..MaxCopy]
    /\ due \in 0..LastNight + 1 /\ copies \in 0..MaxCopy /\ lastGood \in 0..copies /\ night \in 0..LastNight

\* Whatever fails and for however many nights, the last copy that was
\* completed is still there, whole: it is neither pruned before another is
\* complete nor overwritten by one that is not.
BackupKept == lastGood > 0 => \E f \in backups : f.copy = lastGood /\ f.whole

\* There are never more files than names, so that the next copy has one.
NamesLast == IsFiniteSet(backups) /\ Cardinality(backups) <= copies + 1

\* The file of the copy under way is that copy, and not the last good one.
CopyUnderWay ==
    job.running =>
        /\ lastGood < copies
        /\ \E f \in backups : Named(f)
        /\ \A f \in backups : Named(f) => f.copy = copies

\* The inductive invariant.
BackupInv == BackupTypeOK /\ NamesLast /\ CopyUnderWay /\ BackupKept
==============================================================================
