--------------------------- MODULE LineQueueProofs ---------------------------
(***************************************************************************)
(* Proofs about the queue of line edits, for any number of lines and edits *)
(* and any interleaving of requests, replies and reads of the import.      *)
(***************************************************************************)
EXTENDS LineQueue, FiniteSetTheorems, SequenceTheorems, TLAPS

\* The type but for the number of requests a line has under way.
QueueTypes ==
    /\ edits \in Edit
    /\ queued \in [Line -> Seq(Edit \ {0})]
    /\ flights \in [Line -> SUBSET Flight]
    /\ failed \in [Line -> Nat \cup {None}]
    /\ failures \in Nat
    /\ resyncs \subseteq Resync
    /\ screen \in Rows /\ server \in Rows
    /\ commit \in Commit
    /\ unsure \in [Line -> Nat]

LEMMA AtMostOne ==
    ASSUME NEW S, \A f, g \in S : f = g
    PROVE  Cardinality(S) <= 1
<1>1. CASE S = {}
  BY <1>1, FS_EmptySet
<1>2. CASE S # {}
  <2>1. PICK f \in S : TRUE
    BY <1>2
  <2>2. S = {f}
    BY <2>1
  <2>3. Cardinality({f}) = 1
    BY FS_Singleton
  <2>4. QED
    BY <2>2, <2>3
<1>3. QED
  BY <1>1, <1>2

LEMMA TypesAndLine == QueueTypes /\ EditsInLine => TypeOK
<1> SUFFICES ASSUME QueueTypes, EditsInLine PROVE TypeOK
  OBVIOUS
<1>1. \A l \in Line : Cardinality(flights[l]) <= 1
  BY AtMostOne DEF EditsInLine
<1>2. QED
  BY <1>1 DEF QueueTypes, TypeOK

\* What EditsInLine says of one line.
LineSound(e, row, waiting, sent) ==
    /\ \A f, g \in sent : f = g
    /\ row <= e
    /\ \A f \in sent : row <= f.edit /\ f.edit <= e
    /\ \A i \in 1..Len(waiting) :
         /\ row < waiting[i] /\ waiting[i] <= e
         /\ \A f \in sent : f.edit < waiting[i]
         /\ \A j \in 1..Len(waiting) : i < j => waiting[i] < waiting[j]

LEMMA LineByLine ==
    EditsInLine <=> \A l \in Line : LineSound(edits, server[l], queued[l], flights[l])
  BY DEF EditsInLine, LineSound

LEMMA LineByLineNext ==
    EditsInLine' <=> \A l \in Line : LineSound(edits', server'[l], queued'[l], flights'[l])
  BY DEF EditsInLine, LineSound

LEMMA LineTypes ==
    ASSUME QueueInv, NEW l \in Line
    PROVE  /\ QueueTypes /\ LineSound(edits, server[l], queued[l], flights[l])
           /\ queued[l] \in Seq(Edit \ {0}) /\ flights[l] \in SUBSET Flight
           /\ server[l] \in Edit /\ edits \in Nat /\ MaxEdit \in Nat
  BY QueueAssumption, LineByLine DEF QueueInv, TypeOK, QueueTypes, Rows, Edit

LEMMA QueueInitInv == Init => QueueInv
<1> SUFFICES ASSUME Init PROVE QueueInv
  OBVIOUS
<1>1. 0 \in Edit /\ MaxEdit \in Nat
  BY QueueAssumption DEF Edit
<1>2. QueueTypes
  BY <1>1 DEF Init, QueueTypes, Rows, Commit, CommitStage
<1>3. EditsInLine
  BY DEF Init, EditsInLine
<1>4. FailureRemembered
  BY DEF Init, FailureRemembered
<1>5. QED
  BY <1>2, <1>3, <1>4, TypesAndLine DEF QueueInv

LEMMA QueueInvNext ==
    ASSUME QueueTypes', \A k \in Line : LineSound(edits', server'[k], queued'[k], flights'[k]),
           FailureRemembered'
    PROVE  QueueInv'
<1>1. EditsInLine'
  BY LineByLineNext
<1>2. TypeOK'
  BY <1>1, TypesAndLine, PTL
<1>3. QED
  BY <1>1, <1>2 DEF QueueInv

LEMMA EnqueueInv ==
    ASSUME QueueInv, NEW l \in Line, Enqueue(l)
    PROVE  QueueInv'
<1>1. /\ edits' = edits + 1 /\ edits' \in Edit \ {0} /\ edits' \in Edit
      /\ screen' = [screen EXCEPT ![l] = edits']
      /\ queued' = [queued EXCEPT ![l] = Append(@, edits')]
      /\ UNCHANGED <<flights, failed, failures, resyncs, server, commit, unsure>>
  BY LineTypes DEF Enqueue, QueueTypes, Edit
<1>2. /\ Append(queued[l], edits') \in Seq(Edit \ {0})
      /\ Len(Append(queued[l], edits')) = Len(queued[l]) + 1
      /\ \A i \in 1..Len(queued[l]) : Append(queued[l], edits')[i] = queued[l][i]
      /\ Append(queued[l], edits')[Len(queued[l]) + 1] = edits'
  BY <1>1, LineTypes, AppendProperties
<1>3. QueueTypes'
  BY <1>1, <1>2, LineTypes DEF QueueTypes, Rows
<1>4. ASSUME NEW k \in Line PROVE LineSound(edits', server'[k], queued'[k], flights'[k])
  <2>1. /\ LineSound(edits, server[k], queued[k], flights[k])
        /\ server[k] \in Nat /\ edits \in Nat /\ \A f \in flights[k] : f.edit \in Nat
    BY LineTypes DEF Flight, Edit
  <2>2. queued[k] \in Seq(Edit \ {0}) /\ \A i \in 1..Len(queued[k]) : queued[k][i] \in Nat
    BY LineTypes DEF Edit
  <2>3. CASE k = l
    <3> DEFINE longer == Append(queued[k], edits')
    <3>1. queued'[k] = longer
      BY <1>1, <2>3, LineTypes DEF QueueTypes
    <3>2. Len(longer) = Len(queued[k]) + 1 /\ Len(queued[k]) \in Nat
      BY <1>2, <2>2, <2>3
    <3>3. \A i \in 1..Len(longer) : \/ i \in 1..Len(queued[k]) /\ longer[i] = queued[k][i]
                                    \/ i = Len(queued[k]) + 1 /\ longer[i] = edits'
      BY <1>2, <2>3, <3>2
    <3> HIDE DEF longer
    <3>4. \A i \in 1..Len(longer) :
            /\ server[k] < longer[i] /\ longer[i] <= edits'
            /\ \A f \in flights[k] : f.edit < longer[i]
      BY <1>1, <2>1, <2>2, <3>3 DEF LineSound
    <3>5. \A i, j \in 1..Len(longer) : i < j => longer[i] < longer[j]
      BY <1>1, <2>1, <2>2, <3>2, <3>3 DEF LineSound
    <3>6. server[k] <= edits' /\ \A f \in flights[k] : server[k] <= f.edit /\ f.edit <= edits'
      BY <1>1, <2>1 DEF LineSound
    <3>7. QED
      BY <1>1, <2>1, <3>1, <3>4, <3>5, <3>6 DEF LineSound
  <2>4. CASE k # l
    <3>1. queued'[k] = queued[k]
      BY <1>1, <2>4, LineTypes DEF QueueTypes
    <3>2. QED
      BY <1>1, <2>1, <2>2, <3>1 DEF LineSound
  <2>5. QED
    BY <2>3, <2>4
<1>5. FailureRemembered'
  BY <1>1 DEF QueueInv, FailureRemembered
<1>6. QED
  BY <1>3, <1>4, <1>5, QueueInvNext

LEMMA SendInv ==
    ASSUME QueueInv, NEW l \in Line, Send(l)
    PROVE  QueueInv'
<1> DEFINE first == [edit |-> Head(queued[l]), stage |-> "sent"]
<1>1. /\ flights[l] = {} /\ queued[l] # <<>>
      /\ flights' = [flights EXCEPT ![l] = @ \cup {first}]
      /\ queued' = [queued EXCEPT ![l] = Tail(@)]
      /\ UNCHANGED <<edits, failed, failures, resyncs, screen, server, commit, unsure>>
  BY DEF Send
<1>2. /\ Tail(queued[l]) \in Seq(Edit \ {0}) /\ Head(queued[l]) = queued[l][1]
      /\ Len(Tail(queued[l])) = Len(queued[l]) - 1
      /\ \A i \in 1..Len(queued[l]) - 1 : Tail(queued[l])[i] = queued[l][i + 1]
      /\ Len(queued[l]) \in Nat /\ Len(queued[l]) >= 1
      /\ \A i \in 1..Len(queued[l]) : queued[l][i] \in Edit \ {0}
  BY <1>1, LineTypes, HeadTailProperties, EmptySeq
<1>3. first \in Flight /\ first.edit = queued[l][1]
  BY <1>2 DEF Flight
<1> HIDE DEF first
<1>4. QueueTypes'
  BY <1>1, <1>2, <1>3, LineTypes DEF QueueTypes
<1>5. ASSUME NEW k \in Line PROVE LineSound(edits', server'[k], queued'[k], flights'[k])
  <2>1. LineSound(edits, server[k], queued[k], flights[k])
    BY LineTypes
  <2>2. CASE k = l
    <3> DEFINE rest == Tail(queued[k])
    <3>1. queued'[k] = rest /\ flights'[k] = {first}
      BY <1>1, <2>2, LineTypes DEF QueueTypes
    <3>2. \A i \in 1..Len(rest) : i + 1 \in 1..Len(queued[k]) /\ 1 < i + 1 /\ rest[i] = queued[k][i + 1]
      BY <1>2, <2>2
    <3>3. 1 \in 1..Len(queued[k]) /\ first.edit = queued[k][1]
      BY <1>2, <1>3, <2>2
    <3>4. server[k] \in Nat /\ edits \in Nat /\ first.edit \in Nat
      BY <1>2, <1>3, <2>2, LineTypes DEF Edit
    <3>5. Len(rest) \in Nat
      BY <1>2, <2>2
    <3> HIDE DEF rest
    <3>6. server[k] <= first.edit /\ first.edit <= edits
      BY <2>1, <3>3, <3>4 DEF LineSound
    <3>7. \A i \in 1..Len(rest) :
            /\ server[k] < rest[i] /\ rest[i] <= edits /\ first.edit < rest[i]
            /\ \A j \in 1..Len(rest) : i < j => rest[i] < rest[j]
      BY <2>1, <3>2, <3>3, <3>5 DEF LineSound
    <3>8. QED
      BY <1>1, <2>1, <3>1, <3>6, <3>7 DEF LineSound
  <2>3. CASE k # l
    <3>1. queued'[k] = queued[k] /\ flights'[k] = flights[k]
      BY <1>1, <2>3, LineTypes DEF QueueTypes
    <3>2. QED
      BY <1>1, <2>1, <3>1
  <2>4. QED
    BY <2>2, <2>3
<1>6. FailureRemembered'
  BY <1>1 DEF QueueInv, FailureRemembered
<1>7. QED
  BY <1>4, <1>5, <1>6, QueueInvNext

\* A request moves on: its edit stays.
LEMMA StepFlights ==
    ASSUME QueueInv, NEW l \in Line, NEW f \in flights[l], NEW stage \in {"sent", "saved", "error"},
           Step(l, f, stage)
    PROVE  /\ flights' \in [Line -> SUBSET Flight]
           /\ \A k \in Line : k # l => flights'[k] = flights[k]
           /\ \E g \in Flight : g.edit = f.edit /\ flights'[l] = {g}
<1>1. f \in Flight /\ flights \in [Line -> SUBSET Flight] /\ flights[l] = {f}
  BY LineTypes DEF QueueTypes, LineSound
<1> DEFINE g == [f EXCEPT !.stage = stage]
<1>2. g \in Flight /\ g.edit = f.edit
  BY <1>1 DEF Flight
<1>3. flights' = [flights EXCEPT ![l] = (@ \ {f}) \cup {g}]
  BY DEF Step
<1> HIDE DEF g
<1>4. QED
  BY <1>1, <1>2, <1>3

LEMMA RequestInv ==
    ASSUME QueueInv, NEW l \in Line, Request(l)
    PROVE  QueueInv'
<1>1. PICK f \in flights[l] : Save(l, f) \/ Fail(l, f)
  BY DEF Request
<1>2. /\ \E stage \in {"sent", "saved", "error"} : Step(l, f, stage)
      /\ server' \in {server, [server EXCEPT ![l] = f.edit]}
      /\ UNCHANGED <<edits, queued, failed, failures, resyncs, screen, commit, unsure>>
  BY <1>1 DEF Save, Fail
<1>3. /\ flights' \in [Line -> SUBSET Flight]
      /\ \A k \in Line : k # l => flights'[k] = flights[k]
  BY <1>2, StepFlights
<1>4. PICK g \in Flight : g.edit = f.edit /\ flights'[l] = {g}
  BY <1>2, StepFlights
<1>5. f.edit \in Edit /\ server \in Rows
  BY <1>4, LineTypes DEF QueueTypes, Flight
<1>6. server' \in Rows
  BY <1>2, <1>5 DEF Rows
<1>7. QueueTypes'
  BY <1>2, <1>3, <1>6, LineTypes DEF QueueTypes
<1>8. ASSUME NEW k \in Line PROVE LineSound(edits', server'[k], queued'[k], flights'[k])
  <2>1. LineSound(edits, server[k], queued[k], flights[k])
    BY LineTypes
  <2>2. CASE k = l
    <3>1. server'[k] \in {server[k], f.edit} /\ flights'[k] = {g} /\ g.edit = f.edit
      BY <1>2, <1>4, <1>5, <2>2 DEF Rows
    <3>2. /\ server[k] \in Nat /\ f.edit \in Nat /\ edits \in Nat
          /\ \A i \in 1..Len(queued[k]) : queued[k][i] \in Nat
      BY <1>5, LineTypes DEF Edit
    <3>3. f \in flights[k]
      BY <2>2
    <3>4. QED
      BY <1>2, <2>1, <3>1, <3>2, <3>3 DEF LineSound
  <2>3. CASE k # l
    <3>1. server'[k] = server[k]
      BY <1>2, <1>5, <2>3 DEF Rows
    <3>2. QED
      BY <1>2, <1>3, <2>1, <2>3, <3>1
  <2>4. QED
    BY <2>2, <2>3
<1>9. FailureRemembered'
  BY <1>2 DEF QueueInv, FailureRemembered
<1>10. QED
  BY <1>7, <1>8, <1>9, QueueInvNext

LEMMA SettleInv ==
    ASSUME QueueInv, NEW l \in Line, NEW f \in flights[l], Settle(l, f)
    PROVE  QueueInv'
<1> DEFINE newest == Outstanding(l) = 1
           lost == f.stage = "error"
           asked == [line |-> l, failure |-> failures', rows |-> None, at |-> 0]
           ends == commit.stage = "draining" /\ AllSettled(flights', commit.upTo)
<1>1. /\ flights' = [flights EXCEPT ![l] = @ \ {f}]
      /\ failures' = IF lost THEN failures + 1 ELSE failures
      /\ failed' = IF ~newest THEN failed ELSE [failed EXCEPT ![l] = IF lost THEN failures' ELSE None]
      /\ screen' = IF newest /\ ~lost THEN [screen EXCEPT ![l] = f.edit] ELSE screen
      /\ resyncs' = IF newest /\ lost /\ commit.stage # "closed" THEN resyncs \cup {asked} ELSE resyncs
      /\ unsure' = IF ~newest THEN unsure ELSE [unsure EXCEPT ![l] = IF lost THEN failures' ELSE 0]
      /\ commit' = IF ends THEN [commit EXCEPT !.stage = AfterDrain(failed')] ELSE commit
      /\ UNCHANGED <<edits, queued, server>>
  BY DEF Settle
<1>2. QueueTypes /\ FailureRemembered /\ f \in Flight /\ f.edit \in Edit
  BY LineTypes DEF QueueTypes, QueueInv, Flight
<1>3. failures' \in Nat /\ failures' >= failures
  BY <1>1, <1>2 DEF QueueTypes
<1>4. asked \in Resync /\ asked.failure = failures' /\ asked.rows = None
  BY <1>3 DEF Resync
<1>10. AfterDrain(failed') \in {"sent", "idle"}
  BY DEF AfterDrain
<1> HIDE DEF newest, lost, asked, ends
<1>11. commit' \in Commit
  BY <1>1, <1>2, <1>10 DEF QueueTypes, Commit, CommitStage
<1>5. /\ flights' \in [Line -> SUBSET Flight] /\ screen' \in Rows /\ resyncs' \subseteq Resync
      /\ failed' \in [Line -> Nat \cup {None}] /\ unsure' \in [Line -> Nat]
  BY <1>1, <1>2, <1>3, <1>4 DEF QueueTypes, Rows
<1>6. QueueTypes'
  BY <1>1, <1>2, <1>3, <1>5, <1>11 DEF QueueTypes
<1>7. ASSUME NEW k \in Line PROVE LineSound(edits', server'[k], queued'[k], flights'[k])
  <2>1. LineSound(edits, server[k], queued[k], flights[k])
    BY LineTypes
  <2>2. flights'[k] \subseteq flights[k]
    BY <1>1, <1>2 DEF QueueTypes
  <2>3. QED
    BY <1>1, <2>1, <2>2 DEF LineSound
<1>8. FailureRemembered'
  <2>1. ASSUME NEW k \in Line, unsure'[k] # 0 PROVE failed'[k] = unsure'[k]
    BY <1>1, <1>2, <2>1 DEF QueueTypes, FailureRemembered
  <2>2. ASSUME NEW r \in resyncs' PROVE r.failure <= failures' /\ (r.rows # None => r.failure <= r.at)
    <3>1. CASE r \in resyncs
      <4>1. r.failure \in Nat /\ failures \in Nat
        BY <1>2, <3>1 DEF QueueTypes, Resync
      <4>2. QED
        BY <1>2, <1>3, <3>1, <4>1 DEF FailureRemembered
    <3>2. CASE r = asked
      BY <1>3, <1>4, <3>2
    <3>3. QED
      BY <1>1, <2>2, <3>1, <3>2
  <2>3. QED
    BY <2>1, <2>2 DEF FailureRemembered
<1>9. QED
  BY <1>6, <1>7, <1>8, QueueInvNext

LEMMA ResyncInv ==
    ASSUME QueueInv, NEW r \in resyncs, ReadRows(r) \/ LoseRows(r) \/ ShowRows(r)
    PROVE  QueueInv'
<1>1. QueueTypes /\ FailureRemembered /\ r \in Resync
  BY DEF QueueInv, TypeOK, QueueTypes
<1>2. UNCHANGED <<edits, queued, flights, failures, server, commit>>
  BY DEF ReadRows, LoseRows, ShowRows
<1>3. \A k \in Line : LineSound(edits', server'[k], queued'[k], flights'[k])
  BY <1>2, LineTypes
<1>4. CASE ReadRows(r)
  <2> DEFINE read == [r EXCEPT !.rows = server, !.at = failures]
  <2>1. read \in Resync /\ read.failure = r.failure /\ read.at = failures
    BY <1>1 DEF Resync, QueueTypes
  <2>2. resyncs' = (resyncs \ {r}) \cup {read} /\ UNCHANGED <<failed, screen, unsure>>
    BY <1>4 DEF ReadRows
  <2> HIDE DEF read
  <2>3. QueueTypes'
    BY <1>1, <1>2, <2>1, <2>2 DEF QueueTypes
  <2>4. FailureRemembered'
    BY <1>1, <1>2, <2>1, <2>2 DEF FailureRemembered
  <2>5. QED
    BY <1>3, <2>3, <2>4, QueueInvNext
<1>5. CASE LoseRows(r)
  <2>1. resyncs' \subseteq resyncs /\ UNCHANGED <<failed, screen, unsure>>
    BY <1>5 DEF LoseRows
  <2>2. QueueTypes' /\ FailureRemembered'
    BY <1>1, <1>2, <2>1 DEF QueueTypes, FailureRemembered
  <2>3. QED
    BY <1>3, <2>2, QueueInvNext
<1>6. CASE ShowRows(r)
  <2>1. /\ r.rows \in Rows /\ r.line \in Line /\ r.failure \in Nat /\ r.at \in Nat /\ r.failure <= r.at
    BY <1>1, <1>6 DEF ShowRows, Resync, FailureRemembered
  <2>2. /\ screen' = IF commit.stage = "closed" THEN screen ELSE r.rows
        /\ failed' = IF failed[r.line] = r.failure THEN [failed EXCEPT ![r.line] = None] ELSE failed
        /\ unsure' = [l \in Line |-> IF unsure[l] <= r.at THEN 0 ELSE unsure[l]]
        /\ resyncs' \subseteq resyncs
    BY <1>6 DEF ShowRows, resolve
  <2>3. QueueTypes'
    BY <1>1, <1>2, <2>1, <2>2 DEF QueueTypes
  <2>4. ASSUME NEW k \in Line, unsure'[k] # 0 PROVE failed'[k] = unsure'[k]
    <3>1. /\ unsure[k] \in Nat /\ unsure'[k] = unsure[k] /\ ~(unsure[k] <= r.at) /\ unsure[k] # 0
      BY <1>1, <2>2, <2>4 DEF QueueTypes
    <3>2. failed[k] = unsure[k] /\ failed[k] # r.failure
      BY <1>1, <2>1, <3>1 DEF FailureRemembered
    <3>3. failed'[k] = failed[k]
      BY <1>1, <2>2, <3>2 DEF QueueTypes
    <3>4. QED
      BY <3>1, <3>2, <3>3
  <2>5. FailureRemembered'
    BY <1>1, <1>2, <2>2, <2>4 DEF FailureRemembered
  <2>6. QED
    BY <1>3, <2>3, <2>5, QueueInvNext
<1>7. QED
  BY <1>4, <1>5, <1>6

LEMMA CommitInv ==
    ASSUME QueueInv, PressCommit \/ CommitRequest \/ CommitReply \/ UNCHANGED vars
    PROVE  QueueInv'
<1>1. QueueTypes /\ FailureRemembered
  BY DEF QueueInv, TypeOK, QueueTypes
<1>2. UNCHANGED <<edits, queued, flights, failed, failures, resyncs, screen, server, unsure>>
  BY DEF PressCommit, CommitRequest, CommitReply, vars
<1>3. commit' \in Commit
  <2>1. commit \in Commit /\ edits \in Edit
    BY <1>1 DEF QueueTypes
  <2>2. CASE PressCommit
    BY <2>1, <2>2 DEF PressCommit, AfterDrain, Commit, CommitStage
  <2>3. CASE CommitRequest \/ CommitReply \/ UNCHANGED vars
    BY <2>1, <2>3 DEF CommitRequest, CommitReply, vars, Commit, CommitStage
  <2>4. QED
    BY <2>2, <2>3
<1>4. QueueTypes' /\ FailureRemembered'
  BY <1>1, <1>2, <1>3 DEF QueueTypes, FailureRemembered
<1>5. \A k \in Line : LineSound(edits', server'[k], queued'[k], flights'[k])
  BY <1>2, LineTypes
<1>6. QED
  BY <1>4, <1>5, QueueInvNext

LEMMA QueueNextInv == QueueInv /\ [Next]_vars => QueueInv'
<1> SUFFICES ASSUME QueueInv, [Next]_vars PROVE QueueInv'
  OBVIOUS
<1>1. ASSUME NEW l \in Line, Reply(l) PROVE QueueInv'
  BY <1>1, SettleInv DEF Reply
<1>2. QED
  BY <1>1, EnqueueInv, SendInv, RequestInv, ResyncInv, CommitInv DEF Next

LEMMA QueueInvariant == Spec => []QueueInv
  BY QueueInitInv, QueueNextInv, PTL DEF Spec

------------------------------------------------------------------------------
\* For any number of lines and edits, and any request or reply lost: the row
\* the server has of a line never goes back to an earlier edit, because a
\* request leaves only when the one before has settled (enqueue of
\* client/src/lib/lineUpdateQueue.ts).
THEOREM EditsApplyInOrder == Spec => AppliedInOrder
<1> DEFINE Forward == \A l \in Line : server'[l] >= server[l]
<1>1. ASSUME QueueInv, Next PROVE Forward
  <2>1. \A l \in Line : server[l] \in Nat
    BY <1>1, LineTypes DEF Edit
  <2>2. ASSUME NEW k \in Line, NEW f \in flights[k], Save(k, f) PROVE Forward
    <3>1. server' = [server EXCEPT ![k] = f.edit]
      BY <2>2 DEF Save
    <3>2. server[k] <= f.edit /\ server \in Rows /\ f.edit \in Nat
      BY <1>1, <2>2, LineTypes DEF LineSound, QueueTypes, Flight, Edit
    <3>3. QED
      BY <2>1, <3>1, <3>2 DEF Rows
  <2>3. CASE UNCHANGED server
    BY <2>1, <2>3
  <2>4. QED
    BY <1>1, <2>2, <2>3
    DEF Next, Enqueue, Send, Request, Reply, Fail, Settle, ReadRows, LoseRows, ShowRows,
        PressCommit, CommitRequest, CommitReply
<1>2. QueueInv /\ [Next]_vars => [Forward]_vars
  BY <1>1
<1>3. Spec => [][Forward]_vars
  <2> HIDE DEF Forward
  <2> QED BY <1>2, QueueInvariant, PTL DEF Spec
<1>4. QED
  BY <1>3 DEF AppliedInOrder

\* Commit never leaves the browser while a failed edit's row is unknown: a
\* failure stays in the queue's map until a read made after it is shown
\* (resolve and drain of client/src/lib/lineUpdateQueue.ts, handleCommit).
THEOREM CommitsKnowTheRows == Spec => CommitWhenSure
<1> DEFINE Sure == commit.stage # "sent" /\ commit'.stage = "sent" => \A l \in Line : unsure'[l] = 0
<1>1. ASSUME QueueInv, Next PROVE Sure
  <2>1. SUFFICES ASSUME commit.stage # "sent", commit'.stage = "sent", NEW l \in Line PROVE unsure'[l] = 0
    OBVIOUS
  <2>2. commit' # commit /\ commit \in Commit
    BY <1>1, <2>1, LineTypes DEF QueueTypes
  <2>3. PressCommit \/ \E k \in Line : Reply(k)
    BY <1>1, <2>1, <2>2
    DEF Next, Enqueue, Send, Request, Save, Fail, ReadRows, LoseRows, ShowRows,
        CommitRequest, CommitReply, Commit
  <2>4. AfterDrain(failed') = "sent"
    <3>1. CASE PressCommit
      BY <2>1, <2>2, <3>1 DEF PressCommit, Commit
    <3>2. ASSUME NEW k \in Line, NEW f \in flights[k], Settle(k, f) PROVE AfterDrain(failed') = "sent"
      <4>1. commit' = [commit EXCEPT !.stage = AfterDrain(failed')]
        BY <2>2, <3>2 DEF Settle
      <4>2. QED
        BY <2>1, <2>2, <4>1 DEF Commit
    <3>3. QED
      BY <2>3, <3>1, <3>2 DEF Reply
  <2>5. failed'[l] = None
    BY <2>4 DEF AfterDrain
  <2>6. QueueInv'
    BY <1>1, QueueNextInv
  <2>7. unsure'[l] \in Nat /\ (unsure'[l] # 0 => failed'[l] = unsure'[l]) /\ None \notin Nat
    BY <2>6, QueueAssumption DEF QueueInv, TypeOK, FailureRemembered
  <2>8. QED
    BY <2>5, <2>7
<1>2. QueueInv /\ [Next]_vars => [Sure]_vars
  BY <1>1
<1>3. Spec => [][Sure]_vars
  <2> HIDE DEF Sure
  <2> QED BY <1>2, QueueInvariant, PTL DEF Spec
<1>4. QED
  BY <1>3 DEF CommitWhenSure
==============================================================================
