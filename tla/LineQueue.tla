------------------------------ MODULE LineQueue ------------------------------
(***************************************************************************)
(* The review screen of an invoice import against the server: every edit   *)
(* of a line is shown at once and queued behind the line's earlier edits   *)
(* (client/src/lib/lineUpdateQueue.ts), a failed one is followed by a GET  *)
(* of the whole import, and Commit waits for the queue to drain            *)
(* (client/src/components/InvoiceImportModal.tsx).                         *)
(*                                                                         *)
(* A row is abstracted to the number of the edit it holds, 0 as staged.    *)
(* Requests may fail before they reach the server or lose their reply, and *)
(* only those of one line wait for each other.                             *)
(***************************************************************************)
EXTENDS Naturals, Sequences, FiniteSets

CONSTANTS
    Line,     \* the lines of the import
    None,     \* no failure
    MaxEdit   \* bound: edits ever made

ASSUME QueueAssumption == MaxEdit \in Nat /\ None \notin Nat

VARIABLES
    edits,     \* how many edits were made: the last one's number
    queued,    \* per line, the edits chained behind tails[line]
    flights,   \* per line, its PATCH requests: [edit, stage]
    failed,    \* the queue's map: the failure of a line's newest edit
    failures,  \* the queue's counter
    resyncs,   \* GET requests after a failure: [line, failure, rows, at]
    screen,    \* the row each line shows
    server,    \* the row each line has
    commit,    \* where handleCommit is, the edits drain() waits for, and
               \* whether the server has committed the import
    unsure     \* observer: the failure of a line's last edit while no row read since is shown

vars == <<edits, queued, flights, failed, failures, resyncs, screen, server, commit, unsure>>

Edit == 0..MaxEdit
Rows == [Line -> Edit]
Flight == [edit : Edit \ {0}, stage : {"sent", "saved", "error"}]
Resync == [line : Line, failure : Nat, rows : Rows \cup {None}, at : Nat]
CommitStage == {"idle", "draining", "sent", "refused", "saved", "closed"}
Commit == [stage : CommitStage, upTo : Edit, done : BOOLEAN]

Outstanding(l) == Len(queued[l]) + Cardinality(flights[l])

Init ==
    /\ edits = 0
    /\ queued = [l \in Line |-> <<>>]
    /\ flights = [l \in Line |-> {}]
    /\ failed = [l \in Line |-> None] /\ failures = 0
    /\ resyncs = {}
    /\ screen = [l \in Line |-> 0] /\ server = [l \in Line |-> 0]
    /\ commit = [stage |-> "idle", upTo |-> 0, done |-> FALSE]
    /\ unsure = [l \in Line |-> 0]

------------------------------------------------------------------------------
\* enqueue: no input of the screen is disabled while a commit is under way.
Enqueue(l) ==
    /\ commit.stage # "closed"
    /\ edits < MaxEdit
    /\ edits' = edits + 1
    /\ screen' = [screen EXCEPT ![l] = edits']
    /\ queued' = [queued EXCEPT ![l] = Append(@, edits')]
    /\ UNCHANGED <<flights, failed, failures, resyncs, server, commit, unsure>>

\* The promise chained on the line's tail: one request at a time.
\* Mutant: edits of a line are not chained.
SendAtOnce(l) ==
    /\ queued[l] # <<>>
    /\ flights' = [flights EXCEPT ![l] = @ \cup {[edit |-> Head(queued[l]), stage |-> "sent"]}]
    /\ queued' = [queued EXCEPT ![l] = Tail(@)]
    /\ UNCHANGED <<edits, failed, failures, resyncs, screen, server, commit, unsure>>

Send(l) ==
    /\ queued[l] # <<>>
    /\ flights[l] = {}
    /\ flights' = [flights EXCEPT ![l] = @ \cup {[edit |-> Head(queued[l]), stage |-> "sent"]}]
    /\ queued' = [queued EXCEPT ![l] = Tail(@)]
    /\ UNCHANGED <<edits, failed, failures, resyncs, screen, server, commit, unsure>>

Step(l, f, stage) == flights' = [flights EXCEPT ![l] = (@ \ {f}) \cup {[f EXCEPT !.stage = stage]}]

\* PATCH on the server: refused with 409 once the import is committed.
Save(l, f) ==
    /\ f.stage = "sent"
    /\ ~commit.done
    /\ server' = [server EXCEPT ![l] = f.edit]
    /\ Step(l, f, "saved")
    /\ UNCHANGED <<edits, queued, failed, failures, resyncs, screen, commit, unsure>>

\* Refused, lost on the way there, or lost on the way back.
Fail(l, f) ==
    /\ f.stage # "error"
    /\ Step(l, f, "error")
    /\ UNCHANGED <<edits, queued, failed, failures, resyncs, screen, server, commit, unsure>>

\* What drain() waits for: the edits made before it was called.
Settled(waiting, flying, upTo) ==
    /\ \A i \in 1..Len(waiting) : waiting[i] > upTo
    /\ \A f \in flying : f.edit > upTo

AllSettled(flying, upTo) == \A l \in Line : Settled(queued[l], flying[l], upTo)

\* After it drain() throws on a failure, or the commit is sent.
AfterDrain(lost) == IF \A l \in Line : lost[l] = None THEN "sent" ELSE "idle"

\* A request that failed settles like one that was answered.
\* Mutant: it breaks the chain.
AnsweredWell(f) == f.stage = "saved"
Answered(f) == f.stage # "sent"

\* The reply is in: only the newest edit's is shown, only its failure blocks
\* a commit and is followed by a GET. The last reply drain() waits for ends
\* it before the browser handles anything else.
Settle(l, f) ==
    /\ Answered(f)
    /\ flights' = [flights EXCEPT ![l] = @ \ {f}]
    /\ LET newest == Outstanding(l) = 1
           lost == f.stage = "error"
       IN  /\ failures' = IF lost THEN failures + 1 ELSE failures
           /\ failed' = IF ~newest THEN failed
                        ELSE [failed EXCEPT ![l] = IF lost THEN failures' ELSE None]
           /\ screen' = IF newest /\ ~lost THEN [screen EXCEPT ![l] = f.edit] ELSE screen
           /\ resyncs' = IF newest /\ lost /\ commit.stage # "closed"
                         THEN resyncs \cup {[line |-> l, failure |-> failures', rows |-> None, at |-> 0]}
                         ELSE resyncs
           /\ unsure' = IF ~newest THEN unsure
                        ELSE [unsure EXCEPT ![l] = IF lost THEN failures' ELSE 0]
    /\ commit' = IF commit.stage = "draining" /\ AllSettled(flights', commit.upTo)
                 THEN [commit EXCEPT !.stage = AfterDrain(failed')]
                 ELSE commit
    /\ UNCHANGED <<edits, queued, server>>

------------------------------------------------------------------------------
\* GET of the import on the server.
ReadRows(r) ==
    /\ r.rows = None
    /\ resyncs' = (resyncs \ {r}) \cup {[r EXCEPT !.rows = server, !.at = failures]}
    /\ UNCHANGED <<edits, queued, flights, failed, failures, screen, server, commit, unsure>>

LoseRows(r) ==
    /\ resyncs' = resyncs \ {r}
    /\ UNCHANGED <<edits, queued, flights, failed, failures, screen, server, commit, unsure>>

\* resolve(lineId, failureId): a newer failure still blocks the commit.
\* Mutant: any resync of the line unblocks it.
resolveAny(l, failure) == failed' = [failed EXCEPT ![l] = None]

resolve(l, failure) ==
    failed' = IF failed[l] = failure THEN [failed EXCEPT ![l] = None] ELSE failed

\* Every line is overwritten with what the GET read.
ShowRows(r) ==
    /\ r.rows # None
    /\ screen' = IF commit.stage = "closed" THEN screen ELSE r.rows
    /\ resolve(r.line, r.failure)
    /\ unsure' = [l \in Line |-> IF unsure[l] <= r.at THEN 0 ELSE unsure[l]]
    /\ resyncs' = resyncs \ {r}
    /\ UNCHANGED <<edits, queued, flights, failures, server, commit>>

------------------------------------------------------------------------------
\* handleCommit, up to the promises drain() waits for. With none of them
\* open it goes on at once, before any other event of the screen.
PressCommit ==
    /\ commit.stage = "idle"
    /\ commit' = [commit EXCEPT !.stage = IF AllSettled(flights, edits) THEN AfterDrain(failed) ELSE "draining",
                                !.upTo = edits]
    /\ UNCHANGED <<edits, queued, flights, failed, failures, resyncs, screen, server, unsure>>

\* The server commits the rows it has, once, or refuses; or the request is lost.
CommitRequest ==
    /\ commit.stage = "sent"
    /\ \/ ~commit.done /\ commit' = [commit EXCEPT !.stage = "saved", !.done = TRUE]
       \/ commit' = [commit EXCEPT !.stage = "refused"]
    /\ UNCHANGED <<edits, queued, flights, failed, failures, resyncs, screen, server, unsure>>

\* The reply, or none: an error leaves the review open, committed or not.
CommitReply ==
    /\ \/ commit.stage = "saved" /\ commit' = [commit EXCEPT !.stage = "closed"]
       \/ commit.stage \in {"saved", "refused"} /\ commit' = [commit EXCEPT !.stage = "idle"]
    /\ UNCHANGED <<edits, queued, flights, failed, failures, resyncs, screen, server, unsure>>

Request(l) == \E f \in flights[l] : Save(l, f) \/ Fail(l, f)
Reply(l) == \E f \in flights[l] : Settle(l, f)

Next ==
    \/ \E l \in Line : Enqueue(l) \/ Send(l) \/ Request(l) \/ Reply(l)
    \/ \E r \in resyncs : ReadRows(r) \/ LoseRows(r) \/ ShowRows(r)
    \/ PressCommit \/ CommitRequest \/ CommitReply

Spec == Init /\ [][Next]_vars

\* The browser runs its promises and every request is answered or fails.
Fairness ==
    \A l \in Line : WF_vars(Send(l)) /\ WF_vars(Request(l)) /\ WF_vars(Reply(l))

FairSpec == Spec /\ Fairness

------------------------------------------------------------------------------
(***************************************************************************)
(* Properties.                                                             *)
(***************************************************************************)
TypeOK ==
    /\ edits \in Edit
    /\ queued \in [Line -> Seq(Edit \ {0})]
    /\ flights \in [Line -> SUBSET Flight]
    /\ \A l \in Line : Cardinality(flights[l]) <= 1
    /\ failed \in [Line -> Nat \cup {None}]
    /\ failures \in Nat
    /\ resyncs \subseteq Resync
    /\ screen \in Rows /\ server \in Rows
    /\ commit \in Commit
    /\ unsure \in [Line -> Nat]

\* A line's edits go one after the other: the row on the server, the edit on
\* its way, then the queued ones, each made after the one before.
EditsInLine ==
    \A l \in Line :
      /\ \A f, g \in flights[l] : f = g
      /\ server[l] <= edits
      /\ \A f \in flights[l] : server[l] <= f.edit /\ f.edit <= edits
      /\ \A i \in 1..Len(queued[l]) :
           /\ server[l] < queued[l][i] /\ queued[l][i] <= edits
           /\ \A f \in flights[l] : f.edit < queued[l][i]
           /\ \A j \in 1..Len(queued[l]) : i < j => queued[l][i] < queued[l][j]

\* A failure nobody was shown the rows after is the one in the queue's map,
\* and a GET that was answered was answered after the failure it follows.
FailureRemembered ==
    /\ \A l \in Line : unsure[l] # 0 => failed[l] = unsure[l]
    /\ \A r \in resyncs : r.failure <= failures /\ (r.rows # None => r.failure <= r.at)

\* The inductive invariant.
QueueInv == TypeOK /\ EditsInLine /\ FailureRemembered

\* The server applies the edits of a line in the order they were made,
\* however long each request takes: an earlier one never comes last.
AppliedInOrder == [][\A l \in Line : server'[l] >= server[l]]_vars

\* Commit is sent only when the fate of every line's last settled edit is
\* known: it was saved, or the reviewer was shown the server's row after the
\* last failure and not only after an earlier one.
CommitWhenSure ==
    [][commit.stage # "sent" /\ commit'.stage = "sent" => \A l \in Line : unsure'[l] = 0]_vars

\* Pressing Commit leads somewhere although the reviewer goes on editing and
\* edits fail: drain() waits for no edit made after it was called.
DrainReturns == commit.stage = "draining" ~> commit.stage # "draining"

\* When nothing is outstanding and no failure is pending, the screen shows
\* what the server would commit: "a slow earlier response can never
\* overwrite a later one" (client/src/lib/lineUpdateQueue.ts).
ScreenShowsServer ==
    /\ resyncs = {} /\ commit.stage # "closed"
    /\ \A l \in Line : Outstanding(l) = 0 /\ failed[l] = None
    => screen = server

\* "commit only after every edit has reached the server"
\* (client/src/components/InvoiceImportModal.tsx).
CommitAfterEveryEdit ==
    [][commit.stage # "sent" /\ commit'.stage = "sent" =>
           (\A l \in Line : Outstanding(l) = 0)']_vars
==============================================================================
