----------------------------- MODULE ServiceProofs -----------------------------
(***************************************************************************)
(* What the server does besides requests: theorems and their proofs about  *)
(* the shutdown and the log, the files of uploads, the nightly backup, the *)
(* opening of the database, the questions to the model and the parsers.    *)
(***************************************************************************)
EXTENDS MCService, RecursionLemmas, FiniteSetTheorems, SequenceTheorems, TLAPS

------------------------------------------------------------------------------
(***************************************************************************)
(* The log.                                                                *)
(***************************************************************************)
File == [lines : Seq(LogRecord), mtime : Week, removed : BOOLEAN]
Stdout == [state : {"open", "broken"}, buffer : Seq(LogRecord), dropped : Nat, taken : Seq(LogRecord)]

LEMMA LogConstants == MaxBuffered \in Nat /\ KeepWeeks \in Nat /\ MaxEntry \in Nat /\ LastWeek \in Nat /\ LastWeek > 0
  BY LogAssumption

LEMMA RecordTyped == \A n \in Nat : Entry(n) \in LogRecord /\ Overflow(n) \in LogRecord
  BY DEF Entry, Overflow, LogRecord

\* One bounded write: the buffer stays a sequence of records.
LEMMA BufferTyped ==
    ASSUME NEW buffer \in Seq(LogRecord), NEW count \in Nat, NEW n \in Nat
    PROVE  Buffer(buffer, count, Entry(n)) \in Seq(LogRecord) /\ Count(buffer, count) \in Nat
<1>1. Entry(n) \in LogRecord /\ Overflow(count) \in LogRecord
  BY RecordTyped
<1> DEFINE lost == IF count > 0 THEN <<Overflow(count)>> ELSE <<>>
<1>2. lost \in Seq(LogRecord) /\ <<Entry(n)>> \in Seq(LogRecord)
  BY <1>1
<1> HIDE DEF lost
<1>3. buffer \o lost \o <<Entry(n)>> \in Seq(LogRecord)
  BY <1>2
<1>4. Buffer(buffer, count, Entry(n)) = buffer \/ Buffer(buffer, count, Entry(n)) = buffer \o lost \o <<Entry(n)>>
  BY DEF Buffer, lost
<1>5. Count(buffer, count) \in Nat
  BY DEF Count
<1>6. QED
  BY <1>3, <1>4, <1>5

LEMMA TailTyped ==
    ASSUME NEW s \in Seq(LogRecord), s # <<>>
    PROVE  Head(s) \in LogRecord /\ Tail(s) \in Seq(LogRecord)
  OBVIOUS

LEMMA LogInitTyped == LogInit => LogTypeOK
<1> SUFFICES ASSUME LogInit PROVE LogTypeOK
  OBVIOUS
<1>1. 0 \in Week /\ 1 \in Week /\ 0 \in 0..MaxEntry
  BY LogConstants DEF Week
<1>2. <<>> \in Seq(LogRecord) /\ <<Entry(0)>> \in Seq(LogRecord)
  BY RecordTyped
<1>3. EmptyFile \in File
  BY <1>1, <1>2 DEF EmptyFile, File
<1>4. [EmptyFile EXCEPT !.lines = <<Entry(0)>>] \in File
  BY <1>2, <1>3 DEF File
<1>5. files \in [Week -> File]
  BY <1>3, <1>4 DEF LogInit
<1>6. stdout \in Stdout
  BY <1>2 DEF LogInit, Stdout
<1>7. QED
  BY <1>1, <1>5, <1>6 DEF LogInit, LogTypeOK, File, Stdout

LEMMA StreamEnds ==
    ASSUME NEW s \in Stream, NEW awaited \in BOOLEAN
    PROVE  [week |-> s.week, buffer |-> s.buffer, awaited |-> awaited] \in EndedStream
  BY DEF Stream, EndedStream

LEMMA FileTouched ==
    ASSUME NEW f \in File
    PROVE  /\ \A w \in Week : [f EXCEPT !.mtime = w] \in File
           /\ [f EXCEPT !.removed = TRUE] \in File
  BY DEF File

LEMMA LogActionTyped == LogTypeOK /\ logAction => LogTypeOK'
<1> SUFFICES ASSUME LogTypeOK, logAction PROVE LogTypeOK'
  OBVIOUS
<1>1. /\ logged \in Nat /\ logged < MaxEntry /\ logged' = logged + 1 /\ week \in Week /\ dropped \in Nat
      /\ stream = NoStream \/ stream \in Stream
      /\ ended \subseteq EndedStream /\ files \in [Week -> File] /\ stdout \in Stdout
      /\ UNCHANGED <<week, flushing>>
  BY LogConstants DEF LogTypeOK, logAction, File, Stdout
<1>8. torn' \in BOOLEAN
  BY Zenon DEF LogTypeOK, logAction, OpenThrows
<1>2. logged' \in 0..MaxEntry /\ logged' \in Nat
  BY <1>1, LogConstants
<1>3. stdout' \in Stdout
  <2> DEFINE buffer == Buffer(stdout.buffer, stdout.dropped, Entry(logged'))
             count == Count(stdout.buffer, stdout.dropped)
  <2>1. stdout' = stdout \/ stdout' = [stdout EXCEPT !.buffer = buffer, !.dropped = count]
    BY DEF logAction
  <2>2. stdout.buffer \in Seq(LogRecord) /\ stdout.dropped \in Nat
    BY <1>1 DEF Stdout
  <2>3. buffer \in Seq(LogRecord) /\ count \in Nat
    BY <1>2, <2>2, BufferTyped
  <2> HIDE DEF buffer, count
  <2>4. QED
    BY <1>1, <2>1, <2>3 DEF Stdout
<1>4. CASE stream # NoStream /\ stream.week = week
  <2> DEFINE buffer == Buffer(stream.buffer, dropped, Entry(logged'))
  <2>1. /\ stream' = [stream EXCEPT !.buffer = buffer] /\ dropped' = Count(stream.buffer, dropped)
        /\ UNCHANGED <<ended, files>>
    BY <1>4 DEF logAction, writeLine, OpenThrows
  <2>2. stream \in Stream /\ stream.buffer \in Seq(LogRecord)
    BY <1>1, <1>4 DEF Stream
  <2>3. buffer \in Seq(LogRecord) /\ dropped' \in Nat
    BY <1>1, <1>2, <2>1, <2>2, BufferTyped
  <2> HIDE DEF buffer
  <2>4. stream' \in Stream
    BY <2>1, <2>2, <2>3 DEF Stream
  <2>5. QED
    BY <1>1, <1>2, <1>3, <1>8, <2>1, <2>3, <2>4 DEF LogTypeOK, File, Stdout
<1>5. CASE ~(stream # NoStream /\ stream.week = week) /\ ~OpenThrows
  <2> DEFINE buffer == Buffer(<<>>, dropped, Entry(logged'))
  <2>1. /\ stream' = [week |-> week, buffer |-> buffer] /\ dropped' = Count(<<>>, dropped)
        /\ Switch /\ openStream
    BY <1>5 DEF logAction, writeLine
  <2>2. buffer \in Seq(LogRecord) /\ dropped' \in Nat
    <3>1. <<>> \in Seq(LogRecord)
      OBVIOUS
    <3>2. QED
      BY <1>1, <1>2, <2>1, <3>1, BufferTyped
  <2> HIDE DEF buffer
  <2>3. stream' \in Stream
    BY <1>1, <2>1, <2>2 DEF Stream
  <2>4. ended' \subseteq EndedStream
    BY <1>1, <2>1, StreamEnds DEF Switch
  <2>5. files' \in [Week -> File]
    <3>1. \A w \in Week : /\ [files[w] EXCEPT !.mtime = week] \in File
                          /\ [files[w] EXCEPT !.removed = TRUE] \in File /\ files[w] \in File
      BY <1>1, FileTouched
    <3>2. \A w \in Week : files'[w] \in File
      BY <2>1, <3>1 DEF openStream
    <3>3. QED
      BY <2>1, <3>2 DEF openStream
  <2>6. QED
    BY <1>1, <1>2, <1>3, <1>8, <2>2, <2>3, <2>4, <2>5 DEF LogTypeOK, File, Stdout
<1>6. CASE OpenThrows
  <2>1. stream' = NoStream /\ Switch /\ UNCHANGED <<dropped, files>>
    BY <1>6 DEF OpenThrows
  <2>2. ended' \subseteq EndedStream
    BY <1>1, <2>1, StreamEnds DEF Switch
  <2>3. QED
    BY <1>1, <1>2, <1>3, <1>8, <2>1, <2>2 DEF LogTypeOK, File, Stdout
<1>7. QED
  BY <1>4, <1>5, <1>6

LEMMA LandTyped ==
    ASSUME LogTypeOK, NEW w \in Week, NEW line \in LogRecord, Land(w, line)
    PROVE  files' \in [Week -> File]
<1>1. files \in [Week -> File] /\ week \in Week
  BY DEF LogTypeOK, File
<1>2. [lines |-> Append(files[w].lines, line), mtime |-> week, removed |-> files[w].removed] \in File
  BY <1>1 DEF File
<1>3. QED
  BY <1>1, <1>2 DEF Land

LEMMA LogEventTyped == LogTypeOK /\ LogEvent => LogTypeOK'
<1> SUFFICES ASSUME LogTypeOK, LogEvent PROVE LogTypeOK'
  OBVIOUS
<1>1. /\ week \in Week
      /\ stream = NoStream \/ stream \in Stream
      /\ ended \subseteq EndedStream /\ files \in [Week -> File] /\ stdout \in Stdout
      /\ flushing \in [stage : {"no", "pending", "done"}, stdout : BOOLEAN]
  BY DEF LogTypeOK, File, Stdout
<1>2. CASE LineWritten
  <2>1. stream \in Stream /\ stream.buffer # <<>> /\ Land(stream.week, Head(stream.buffer))
        /\ stream' = [stream EXCEPT !.buffer = Tail(stream.buffer)]
        /\ UNCHANGED <<logged, week, dropped, ended, stdout, flushing, torn>>
    BY <1>1, <1>2 DEF LineWritten
  <2>2. stream.week \in Week /\ stream.buffer \in Seq(LogRecord)
    BY <2>1 DEF Stream
  <2>3. Head(stream.buffer) \in LogRecord /\ Tail(stream.buffer) \in Seq(LogRecord)
    BY <2>1, <2>2, TailTyped
  <2>4. stream' \in Stream /\ files' \in [Week -> File]
    BY <2>1, <2>2, <2>3, LandTyped DEF Stream
  <2>5. QED
    BY <2>1, <2>4 DEF LogTypeOK, File
<1>3. ASSUME NEW s \in ended, LastLinesWritten(s) PROVE LogTypeOK'
  <2>1. s \in EndedStream /\ s.buffer # <<>> /\ Land(s.week, Head(s.buffer))
        /\ ended' = (ended \ {s}) \cup {[s EXCEPT !.buffer = Tail(s.buffer)]}
        /\ UNCHANGED <<logged, week, stream, dropped, stdout, flushing, torn>>
    BY <1>1, <1>3 DEF LastLinesWritten
  <2>2. s.week \in Week /\ s.buffer \in Seq(LogRecord)
    BY <2>1 DEF EndedStream
  <2>3. Head(s.buffer) \in LogRecord /\ Tail(s.buffer) \in Seq(LogRecord)
    BY <2>1, <2>2, TailTyped
  <2>4. [s EXCEPT !.buffer = Tail(s.buffer)] \in EndedStream /\ files' \in [Week -> File]
    BY <2>1, <2>2, <2>3, LandTyped DEF EndedStream
  <2>5. ended' \subseteq EndedStream
    BY <1>1, <2>1, <2>4
  <2>6. QED
    BY <2>1, <2>4, <2>5 DEF LogTypeOK, File
<1>4. CASE StdoutTakes
  <2>1. stdout.buffer # <<>> /\ stdout.buffer \in Seq(LogRecord) /\ stdout.taken \in Seq(LogRecord)
        /\ stdout' = [stdout EXCEPT !.taken = Append(stdout.taken, Head(stdout.buffer)), !.buffer = Tail(stdout.buffer)]
        /\ UNCHANGED <<logged, week, stream, dropped, ended, files, flushing, torn>>
    BY <1>1, <1>4 DEF StdoutTakes, Stdout
  <2>2. Head(stdout.buffer) \in LogRecord /\ Tail(stdout.buffer) \in Seq(LogRecord)
    BY <2>1, TailTyped
  <2>3. Append(stdout.taken, Head(stdout.buffer)) \in Seq(LogRecord)
    BY <2>1, <2>2
  <2>4. stdout' \in Stdout
    BY <1>1, <2>1, <2>2, <2>3 DEF Stdout
  <2>5. QED
    BY <2>1, <2>4 DEF LogTypeOK, Stdout
<1>5. CASE StdoutBreaks
  <2>1. <<>> \in Seq(LogRecord)
    OBVIOUS
  <2>2. stdout' \in Stdout
    BY <1>1, <1>5, <2>1 DEF StdoutBreaks, Stdout
  <2>3. QED
    BY <1>5, <2>2 DEF StdoutBreaks, LogTypeOK, Stdout
<1>6. CASE StreamBreaks \/ \E s \in ended : Closed(s) \/ EndedBreaks(s)
  <2>1. torn' \in BOOLEAN /\ (stream' = NoStream \/ stream' = stream) /\ ended' \subseteq ended
        /\ UNCHANGED <<logged, week, dropped, files, stdout, flushing>>
    BY <1>6 DEF StreamBreaks, Closed, EndedBreaks, LogTypeOK
  <2>2. QED
    BY <2>1 DEF LogTypeOK
<1>7. CASE WeekPasses
  <2>1. week' \in Week /\ UNCHANGED <<logged, stream, dropped, ended, files, stdout, flushing, torn>>
    BY <1>1, <1>7, LogConstants DEF WeekPasses, Week
  <2>2. QED
    BY <2>1 DEF LogTypeOK
<1>8. CASE StdoutDone \/ StdoutTimesOut \/ Flushed
  <2>1. flushing' \in [stage : {"no", "pending", "done"}, stdout : BOOLEAN]
        /\ UNCHANGED <<logged, week, stream, dropped, ended, files, stdout, torn>>
    BY <1>1, <1>8 DEF StdoutDone, StdoutTimesOut, Flushed
  <2>2. QED
    BY <2>1 DEF LogTypeOK
<1>9. QED
  BY <1>2, <1>3, <1>4, <1>5, <1>6, <1>7, <1>8 DEF LogEvent

LEMMA FlushTyped == LogTypeOK /\ flush => LogTypeOK'
<1> SUFFICES ASSUME LogTypeOK, flush PROVE LogTypeOK'
  OBVIOUS
<1>1. flushing' \in [stage : {"no", "pending", "done"}, stdout : BOOLEAN]
  BY DEF flush
<1>2. ended' \subseteq EndedStream
  BY StreamEnds DEF flush, LogTypeOK
<1>3. QED
  BY <1>1, <1>2 DEF flush, LogTypeOK

LEMMA LogStutter == LogTypeOK /\ UNCHANGED logVars => LogTypeOK'
  BY DEF LogTypeOK, logVars

------------------------------------------------------------------------------
(***************************************************************************)
(* The shutdown.                                                           *)
(***************************************************************************)
\* The parts of StopTypeOK that are not the log's.
Process ==
    /\ handlers \subseteq Signal
    /\ stage \in {"up", "closing sockets", "closing server", "flushing"}
    /\ deadline \in {"off", "armed"} /\ exitCode \in {0, 1}
    /\ database \in {"open", "closed"}
    /\ exit \in {Running, 0, 1, Killed}
    /\ atClose \in [entry : 0..MaxEntry, week : Week]

Handling ==
    /\ {inFlight, keptAlive, abandoned} \subseteq Nat
    /\ inFlight + keptAlive <= MaxConnection /\ abandoned <= MaxAbandoned

\* Late, for any number of an entry.
Newer(buffer, e) == \A i \in 1..Len(buffer) : buffer[i].event = "action" => buffer[i].n > e

\* What the flush has left to be written, or has not been told of.
OnlyLate(str, en, at) ==
    /\ str # NoStream => Newer(str.buffer, at.entry)
    /\ \A s \in en : s.awaited \/ Newer(s.buffer, at.entry) \/ s.week < at.week

\* FlushedLast but for the flush.
StreamsDated ==
    /\ atClose.entry <= logged
    /\ stream # NoStream => stream.week <= week
    /\ stage # "flushing" => \A s \in ended : ~s.awaited /\ s.week < week
    /\ stage = "flushing" => NoConnection /\ OnlyLate(stream, ended, atClose)

FlushStage ==
    /\ flushing.stage # "no" <=> stage = "flushing"
    /\ flushing.stage = "done" => \A s \in ended : ~s.awaited

LEMMA FlushedParts == FlushedLast <=> StreamsDated /\ FlushStage
  BY DEF FlushedLast, StreamsDated, FlushStage, OnlyLate, Newer, Late

LEMMA StopParts == StopInv <=> LogTypeOK /\ Process /\ Handling /\ StreamsDated /\ FlushStage /\ CleanExit
  BY FlushedParts DEF StopInv, StopTypeOK, Process, Handling

\* A process that runs has no exit code.
LEMMA NoCodeYet == Running # 0 /\ Running # Killed /\ Killed # 0
  BY StopAssumption DEF Killed

LEMMA StopFacts ==
    ASSUME LogTypeOK, Process
    PROVE  /\ logged \in Nat /\ atClose.entry \in Nat /\ week \in Nat /\ atClose.week \in Nat /\ dropped \in Nat
           /\ stream # NoStream => stream \in Stream /\ stream.week \in Nat /\ stream.buffer \in Seq(LogRecord)
           /\ \A s \in ended : s \in EndedStream /\ s.week \in Nat /\ s.buffer \in Seq(LogRecord)
<1>1. /\ logged \in 0..MaxEntry /\ week \in Week /\ dropped \in Nat
      /\ stream = NoStream \/ stream \in Stream
      /\ ended \subseteq EndedStream
  BY DEF LogTypeOK
<1>2. \A w \in Week : w \in Nat
  BY LogConstants DEF Week
<1>3. atClose.entry \in 0..MaxEntry /\ atClose.week \in Week
  BY DEF Process
<1>4. logged \in Nat /\ atClose.entry \in Nat
  BY <1>1, <1>3, LogConstants
<1>5. \A s \in Stream : s.week \in Nat /\ s.buffer \in Seq(LogRecord)
  BY <1>2 DEF Stream
<1>6. \A s \in EndedStream : s.week \in Nat /\ s.buffer \in Seq(LogRecord)
  BY <1>2 DEF EndedStream
<1>7. QED
  BY <1>1, <1>2, <1>3, <1>4, <1>5, <1>6

LEMMA StopInitInv == StopInit => StopInv
<1> SUFFICES ASSUME StopInit PROVE StopInv
  OBVIOUS
<1>1. LogTypeOK
  BY LogInitTyped DEF StopInit
<1>2. MaxConnection \in Nat /\ MaxAbandoned \in Nat /\ Running # 0 /\ 0 \in 0..MaxEntry /\ 0 \in Week
  BY StopAssumption, LogConstants DEF Week
<1>3. Process /\ Handling /\ CleanExit
  BY <1>2 DEF StopInit, Process, Handling, CleanExit
<1>4. StreamsDated /\ FlushStage
  BY DEF StopInit, LogInit, StreamsDated, FlushStage
<1>5. QED
  BY <1>1, <1>3, <1>4, StopParts

\* What is taken from a buffer leaves it as new as it was, and what is written
\* after an entry is newer than it.
LEMMA NewerTail ==
    ASSUME NEW b \in Seq(LogRecord), b # <<>>, NEW e, Newer(b, e)
    PROVE  Newer(Tail(b), e)
<1>1. /\ Len(b) \in Nat /\ Len(Tail(b)) = Len(b) - 1
      /\ \A i \in 1..Len(b) - 1 : Tail(b)[i] = b[i + 1]
  BY HeadTailProperties
<1>2. \A i \in 1..Len(Tail(b)) : i + 1 \in 1..Len(b) /\ Tail(b)[i] = b[i + 1]
  BY <1>1
<1>3. QED
  BY <1>2 DEF Newer

LEMMA NewerOne ==
    ASSUME NEW b \in Seq(LogRecord), NEW r \in LogRecord, NEW e, Newer(b, e), r.event = "action" => r.n > e
    PROVE  Newer(Append(b, r), e)
<1>1. /\ Len(b) \in Nat /\ Len(Append(b, r)) = Len(b) + 1 /\ Append(b, r)[Len(b) + 1] = r
      /\ \A i \in 1..Len(b) : Append(b, r)[i] = b[i]
  BY AppendProperties
<1>2. \A i \in 1..Len(Append(b, r)) : i \in 1..Len(b) \/ i = Len(b) + 1
  BY <1>1
<1>3. QED
  BY <1>1, <1>2 DEF Newer

LEMMA NewerWritten ==
    ASSUME NEW b \in Seq(LogRecord), NEW count \in Nat, NEW n \in Nat, NEW e \in Nat, e < n, Newer(b, e)
    PROVE  Newer(Buffer(b, count, Entry(n)), e)
<1>1. /\ Entry(n) \in LogRecord /\ Entry(n).n > e
      /\ Overflow(count) \in LogRecord /\ Overflow(count).event # "action"
  BY RecordTyped DEF Entry, Overflow
<1>2. CASE ~Accepts(b)
  BY <1>2 DEF Buffer
<1>3. CASE Accepts(b) /\ ~(count > 0)
  <2>1. Buffer(b, count, Entry(n)) = b \o <<>> \o <<Entry(n)>>
    BY <1>3 DEF Buffer
  <2>2. b \o <<>> \o <<Entry(n)>> = Append(b, Entry(n))
    BY <1>1
  <2>3. QED
    BY <1>1, <2>1, <2>2, NewerOne
<1>4. CASE Accepts(b) /\ count > 0
  <2> DEFINE told == Append(b, Overflow(count))
  <2>1. Buffer(b, count, Entry(n)) = b \o <<Overflow(count)>> \o <<Entry(n)>>
    BY <1>4 DEF Buffer
  <2>2. b \o <<Overflow(count)>> \o <<Entry(n)>> = Append(told, Entry(n)) /\ told \in Seq(LogRecord)
    BY <1>1
  <2>3. Newer(told, e)
    BY <1>1, NewerOne
  <2> HIDE DEF told
  <2>4. QED
    BY <1>1, <2>1, <2>2, <2>3, NewerOne
<1>5. QED
  BY <1>2, <1>3, <1>4

LEMMA NewerNone == \A e : Newer(<<>>, e)
  BY DEF Newer

\* A step of the log writes, loses or ends: no stream is opened, and what was
\* flushed stays flushed.
Shrunk(s, t, e) ==
    s.week = t.week /\ (Newer(t.buffer, e) => Newer(s.buffer, e))

LEMMA LogEventMoves ==
    ASSUME LogTypeOK, Process, LogEvent, NEW e
    PROVE  /\ logged' = logged /\ week' \in Nat /\ week' >= week
           /\ stream' # NoStream => stream # NoStream /\ Shrunk(stream', stream, e)
           /\ \A s \in ended' : \E t \in ended : s.awaited = t.awaited /\ Shrunk(s, t, e)
           /\ \/ flushing'.stage = flushing.stage
              \/ /\ flushing.stage = "pending" /\ flushing'.stage = "done" /\ ended' = ended
                 /\ \A s \in ended : ~s.awaited
<1>1. /\ week \in Nat
      /\ stream # NoStream => stream \in Stream /\ stream.buffer \in Seq(LogRecord)
      /\ \A s \in ended : s \in EndedStream /\ s.buffer \in Seq(LogRecord)
      /\ flushing \in [stage : {"no", "pending", "done"}, stdout : BOOLEAN]
  BY StopFacts DEF LogTypeOK
<1>2. \A s : Shrunk(s, s, e)
  BY DEF Shrunk
<1>3. CASE LineWritten
  <2>1. /\ stream # NoStream /\ stream.buffer # <<>> /\ stream' = [stream EXCEPT !.buffer = Tail(stream.buffer)]
        /\ UNCHANGED <<logged, week, ended, flushing>>
    BY <1>3 DEF LineWritten
  <2>2. stream'.week = stream.week /\ stream'.buffer = Tail(stream.buffer)
    BY <1>1, <2>1 DEF Stream
  <2>3. Shrunk(stream', stream, e)
    BY <1>1, <2>1, <2>2, NewerTail DEF Shrunk
  <2>4. QED
    BY <1>1, <1>2, <2>1, <2>3
<1>4. ASSUME NEW s \in ended, LastLinesWritten(s)
      PROVE  /\ UNCHANGED <<logged, week, stream, flushing>>
             /\ \A u \in ended' : \E t \in ended : u.awaited = t.awaited /\ Shrunk(u, t, e)
  <2> DEFINE rest == [s EXCEPT !.buffer = Tail(s.buffer)]
  <2>1. /\ s.buffer # <<>> /\ ended' = (ended \ {s}) \cup {rest}
        /\ UNCHANGED <<logged, week, stream, flushing>>
    BY <1>4 DEF LastLinesWritten
  <2>2. rest.week = s.week /\ rest.awaited = s.awaited /\ rest.buffer = Tail(s.buffer)
    BY <1>1 DEF EndedStream
  <2> HIDE DEF rest
  <2>3. Shrunk(rest, s, e)
    BY <1>1, <2>1, <2>2, NewerTail DEF Shrunk
  <2>4. QED
    BY <1>2, <2>1, <2>2, <2>3
<1>5. CASE StreamBreaks \/ StdoutTakes \/ StdoutBreaks \/ \E s \in ended : Closed(s) \/ EndedBreaks(s)
  <2>1. (stream' = stream \/ stream' = NoStream) /\ ended' \subseteq ended /\ UNCHANGED <<logged, week, flushing>>
    BY <1>5 DEF StreamBreaks, StdoutTakes, StdoutBreaks, Closed, EndedBreaks
  <2>2. QED
    BY <1>1, <1>2, <2>1
<1>6. CASE WeekPasses
  BY <1>1, <1>2, <1>6 DEF WeekPasses
<1>7. CASE StdoutDone \/ StdoutTimesOut \/ Flushed
  <2>1. UNCHANGED <<logged, week, stream, ended>>
    BY <1>7 DEF StdoutDone, StdoutTimesOut, Flushed
  <2>2. CASE StdoutDone \/ StdoutTimesOut
    <3>1. flushing' = [flushing EXCEPT !.stdout = FALSE]
      BY <2>2 DEF StdoutDone, StdoutTimesOut
    <3>2. flushing'.stage = flushing.stage
      BY <1>1, <3>1
    <3>3. QED
      BY <1>1, <1>2, <2>1, <3>2
  <2>3. CASE Flushed
    <3>1. flushing.stage = "pending" /\ flushing' = [flushing EXCEPT !.stage = "done"] /\ \A s \in ended : ~s.awaited
      BY <2>3 DEF Flushed
    <3>2. flushing'.stage = "done"
      BY <1>1, <3>1
    <3>3. QED
      BY <1>1, <1>2, <2>1, <3>1, <3>2
  <2>4. QED
    BY <1>7, <2>2, <2>3
<1>8. CASE \E s \in ended : LastLinesWritten(s)
  BY <1>1, <1>2, <1>4, <1>8
<1>9. QED
  BY <1>3, <1>5, <1>6, <1>7, <1>8 DEF LogEvent

LEMMA LogEventStep ==
    ASSUME StopInv, exit = Running, LogEvent, StopIdle
    PROVE  StopInv'
<1>1. LogTypeOK /\ Process /\ Handling /\ StreamsDated /\ FlushStage
  BY StopParts
<1>2. LogTypeOK'
  BY <1>1, LogEventTyped
<1>3. UNCHANGED <<handlers, stage, deadline, exitCode, database, exit, atClose, inFlight, keptAlive, abandoned>>
  BY DEF StopIdle, processVars, requestVars
<1>4. Process' /\ Handling' /\ CleanExit'
  BY <1>1, <1>3, NoCodeYet, Zenon DEF Process, Handling, CleanExit
<1> DEFINE e == atClose.entry
<1>5. /\ logged' = logged /\ week' \in Nat /\ week' >= week
      /\ stream' # NoStream => stream # NoStream /\ Shrunk(stream', stream, e)
      /\ \A s \in ended' : \E t \in ended : s.awaited = t.awaited /\ Shrunk(s, t, e)
      /\ \/ flushing'.stage = flushing.stage
         \/ /\ flushing.stage = "pending" /\ flushing'.stage = "done" /\ ended' = ended
            /\ \A s \in ended : ~s.awaited
  BY <1>1, LogEventMoves
<1>6. /\ week \in Nat
      /\ stream # NoStream => stream.week \in Nat
      /\ \A t \in ended : t.week \in Nat
  BY <1>1, StopFacts
<1>7. StreamsDated'
  <2>6. week' \in Nat /\ week' >= week
    BY <1>5
  <2>1. stream' # NoStream => stream'.week <= week'
    <3> SUFFICES ASSUME stream' # NoStream PROVE stream'.week <= week'
      OBVIOUS
    <3>1. stream # NoStream /\ stream'.week = stream.week
      BY <1>5 DEF Shrunk
    <3>2. stream.week <= week /\ stream.week \in Nat /\ week \in Nat
      BY <1>1, <1>6, <3>1 DEF StreamsDated
    <3>3. QED
      BY <2>6, <3>1, <3>2
  <2>2. stage # "flushing" => \A s \in ended' : ~s.awaited /\ s.week < week'
    <3> SUFFICES ASSUME stage # "flushing", NEW s \in ended' PROVE ~s.awaited /\ s.week < week'
      OBVIOUS
    <3>1. PICK t \in ended : s.awaited = t.awaited /\ Shrunk(s, t, e)
      BY <1>5
    <3>2. ~t.awaited /\ t.week < week /\ s.week = t.week
      BY <1>1, <3>1 DEF StreamsDated, Shrunk
    <3>3. s.week \in Nat /\ week \in Nat
      BY <1>6, <3>2
    <3>4. s.week < week'
      BY <2>6, <3>2, <3>3
    <3>5. QED
      BY <3>1, <3>2, <3>4
  <2>3. stage = "flushing" => OnlyLate(stream', ended', atClose)
    <3> SUFFICES ASSUME stage = "flushing" PROVE OnlyLate(stream', ended', atClose)
      OBVIOUS
    <3>1. OnlyLate(stream, ended, atClose)
      BY <1>1 DEF StreamsDated
    <3>2. stream' # NoStream => Newer(stream'.buffer, e)
      BY <1>5, <3>1 DEF OnlyLate, Shrunk
    <3>3. ASSUME NEW s \in ended' PROVE s.awaited \/ Newer(s.buffer, e) \/ s.week < atClose.week
      <4>1. PICK t \in ended : s.awaited = t.awaited /\ Shrunk(s, t, e)
        BY <1>5
      <4>2. QED
        BY <3>1, <4>1 DEF OnlyLate, Shrunk
    <3>4. QED
      BY <3>2, <3>3 DEF OnlyLate
  <2>4. QED
    BY <1>1, <1>3, <1>5, <2>1, <2>2, <2>3 DEF StreamsDated, NoConnection
<1>8. FlushStage'
  <2>1. (\A t \in ended : ~t.awaited) => \A s \in ended' : ~s.awaited
    BY <1>5
  <2>2. QED
    BY <1>1, <1>3, <1>5, <2>1 DEF FlushStage
<1>9. QED
  BY <1>2, <1>4, <1>7, <1>8, StopParts, PTL

\* An entry is newer than every one before it, in whatever stream it is
\* written, and a stream that is ended for it is of an earlier week.
LEMMA LogActionMoves ==
    ASSUME LogTypeOK, Process, logAction, stream # NoStream => stream.week <= week, NEW e \in Nat, e <= logged
    PROVE  /\ logged' = logged + 1 /\ UNCHANGED <<week, flushing>>
           /\ stream' # NoStream =>
                /\ stream'.week = week
                /\ (stream # NoStream => Newer(stream.buffer, e)) => Newer(stream'.buffer, e)
           /\ \A s \in ended' : \/ s \in ended
                                \/ /\ ~s.awaited /\ s.week < week
                                   /\ stream # NoStream /\ s.buffer = stream.buffer
<1>1. /\ logged \in Nat /\ dropped \in Nat /\ week \in Nat
      /\ stream # NoStream => stream \in Stream /\ stream.week \in Nat /\ stream.buffer \in Seq(LogRecord)
  BY StopFacts
<1>2. logged' = logged + 1 /\ UNCHANGED <<week, flushing>>
  BY DEF logAction
<1>3. logged' \in Nat /\ e < logged'
  BY <1>1, <1>2
<1>4. CASE stream # NoStream /\ stream.week = week
  <2> DEFINE buffer == Buffer(stream.buffer, dropped, Entry(logged'))
  <2>1. stream' = [stream EXCEPT !.buffer = buffer] /\ UNCHANGED ended
    BY <1>4 DEF logAction, writeLine, OpenThrows
  <2>2. Newer(stream.buffer, e) => Newer(buffer, e)
    BY <1>1, <1>3, <1>4, NewerWritten
  <2> HIDE DEF buffer
  <2>3. stream'.week = week /\ stream'.buffer = buffer
    BY <1>1, <1>4, <2>1 DEF Stream
  <2>4. QED
    BY <1>2, <1>4, <2>1, <2>2, <2>3
<1>5. CASE ~(stream # NoStream /\ stream.week = week)
  <2>1. ASSUME NEW s \in ended' PROVE \/ s \in ended
                                      \/ /\ ~s.awaited /\ s.week < week
                                         /\ stream # NoStream /\ s.buffer = stream.buffer
    <3>1. Switch
      BY <1>5 DEF logAction, writeLine, OpenThrows
    <3>2. CASE stream = NoStream
      BY <2>1, <3>1, <3>2 DEF Switch
    <3>3. CASE stream # NoStream
      <4>1. stream.week < week
        BY <1>1, <1>5, <3>3
      <4>2. s \in ended \/ s = [week |-> stream.week, buffer |-> stream.buffer, awaited |-> FALSE]
        BY <2>1, <3>1, <3>3 DEF Switch
      <4>3. QED
        BY <3>3, <4>1, <4>2
    <3>4. QED
      BY <3>2, <3>3
  <2>2. stream' # NoStream => stream'.week = week /\ Newer(stream'.buffer, e)
    <3> DEFINE none == <<>>
               buffer == Buffer(none, dropped, Entry(logged'))
    <3>1. stream' = NoStream \/ stream' = [week |-> week, buffer |-> buffer]
      BY <1>5 DEF logAction, writeLine, OpenThrows
    <3>2. none \in Seq(LogRecord) /\ Newer(none, e)
      BY NewerNone
    <3>3. Newer(buffer, e)
      <4> HIDE DEF none
      <4> QED BY <1>1, <1>3, <3>2, NewerWritten
    <3> HIDE DEF buffer
    <3>4. QED
      BY <3>1, <3>3
  <2>3. QED
    BY <1>2, <2>1, <2>2
<1>6. QED
  BY <1>4, <1>5

\* The ends of a request and of a handler nobody waits for: what they log is
\* late once the server has closed.
LEMMA LogStep ==
    ASSUME StopInv, logAction, UNCHANGED processVars,
           stage = "flushing" => UNCHANGED <<inFlight, keptAlive>>
    PROVE  StreamsDated' /\ FlushStage'
<1>1. LogTypeOK /\ Process /\ StreamsDated /\ FlushStage
  BY StopParts
<1>2. UNCHANGED <<stage, atClose>>
  BY DEF processVars
<1>3. stream # NoStream => stream.week <= week
  BY <1>1 DEF StreamsDated
<1> DEFINE e == atClose.entry
<1>4. e \in Nat /\ e <= logged /\ logged \in Nat /\ week \in Nat
  BY <1>1, StopFacts DEF StreamsDated
<1>5. /\ logged' = logged + 1 /\ UNCHANGED <<week, flushing>>
      /\ stream' # NoStream =>
           /\ stream'.week = week
           /\ (stream # NoStream => Newer(stream.buffer, e)) => Newer(stream'.buffer, e)
      /\ \A s \in ended' : \/ s \in ended
                           \/ /\ ~s.awaited /\ s.week < week
                              /\ stream # NoStream /\ s.buffer = stream.buffer
  BY <1>1, <1>3, <1>4, LogActionMoves
<1>6. e <= logged' /\ (stream' # NoStream => stream'.week <= week')
  BY <1>4, <1>5
<1>7. stage # "flushing" => \A s \in ended' : ~s.awaited /\ s.week < week'
  BY <1>1, <1>5 DEF StreamsDated
<1>8. stage = "flushing" => OnlyLate(stream', ended', atClose)
  <2> SUFFICES ASSUME stage = "flushing" PROVE OnlyLate(stream', ended', atClose)
    OBVIOUS
  <2>1. OnlyLate(stream, ended, atClose)
    BY <1>1 DEF StreamsDated
  <2>2. stream' # NoStream => Newer(stream'.buffer, e)
    BY <1>5, <2>1 DEF OnlyLate
  <2>3. \A s \in ended' : s.awaited \/ Newer(s.buffer, e) \/ s.week < atClose.week
    BY <1>5, <2>1 DEF OnlyLate
  <2>4. QED
    BY <2>2, <2>3 DEF OnlyLate
<1>9. StreamsDated'
  BY <1>1, <1>2, <1>6, <1>7, <1>8 DEF StreamsDated, NoConnection
<1>10. FlushStage'
  BY <1>1, <1>2, <1>5 DEF FlushStage
<1>11. QED
  BY <1>9, <1>10

LEMMA RequestStep ==
    ASSUME StopInv, exit = Running, RequestArrives \/ RequestEnds \/ ClientLeaves \/ AbandonedEnds
    PROVE  StopInv'
<1>1. LogTypeOK /\ Process /\ Handling /\ StreamsDated /\ FlushStage
  BY StopParts
<1>2. UNCHANGED processVars /\ (logAction \/ UNCHANGED logVars)
  BY DEF RequestArrives, RequestEnds, ClientLeaves, AbandonedEnds
<1>3. LogTypeOK'
  BY <1>1, <1>2, LogActionTyped, LogStutter
<1>4. /\ inFlight \in Nat /\ keptAlive \in Nat /\ abandoned \in Nat
      /\ inFlight + keptAlive <= MaxConnection /\ abandoned <= MaxAbandoned
      /\ MaxConnection \in Nat /\ MaxAbandoned \in Nat
  BY <1>1, StopAssumption DEF Handling
<1>5. Handling'
  <2>1. \/ /\ inFlight + keptAlive < MaxConnection /\ inFlight' = inFlight + 1
           /\ UNCHANGED <<keptAlive, abandoned>>
        \/ /\ keptAlive > 0 /\ keptAlive' = keptAlive - 1 /\ inFlight' = inFlight + 1
           /\ UNCHANGED abandoned
        \/ /\ inFlight > 0 /\ inFlight' = inFlight - 1 /\ keptAlive' \in {keptAlive, keptAlive + 1}
           /\ UNCHANGED abandoned
        \/ /\ inFlight > 0 /\ inFlight' = inFlight - 1 /\ UNCHANGED keptAlive
           /\ abandoned < MaxAbandoned /\ abandoned' = abandoned + 1
        \/ keptAlive > 0 /\ keptAlive' = keptAlive - 1 /\ UNCHANGED <<inFlight, abandoned>>
        \/ abandoned > 0 /\ abandoned' = abandoned - 1 /\ UNCHANGED <<inFlight, keptAlive>>
    BY DEF RequestArrives, RequestEnds, ClientLeaves, AbandonedEnds
  <2>2. /\ inFlight' \in Nat /\ keptAlive' \in Nat /\ abandoned' \in Nat
        /\ inFlight' + keptAlive' <= MaxConnection /\ abandoned' <= MaxAbandoned
    BY <1>4, <2>1
  <2>3. QED
    BY <2>2 DEF Handling
<1>6. stage = "flushing" => UNCHANGED <<inFlight, keptAlive>>
  <2>1. stage = "flushing" => inFlight = 0 /\ keptAlive = 0
    BY <1>1 DEF StreamsDated, NoConnection
  <2>2. QED
    BY <2>1 DEF RequestArrives, RequestEnds, ClientLeaves, AbandonedEnds
<1>7. StreamsDated' /\ FlushStage'
  <2>1. CASE logAction
    BY <1>2, <1>6, <2>1, LogStep
  <2>2. CASE UNCHANGED logVars
    BY <1>1, <1>2, <1>6, <2>2 DEF StreamsDated, FlushStage, NoConnection, processVars, logVars
  <2>3. QED
    BY <1>2, <2>1, <2>2
<1>8. Process' /\ CleanExit'
  BY <1>1, <1>2, NoCodeYet, Zenon DEF Process, CleanExit, processVars
<1>9. QED
  BY <1>3, <1>5, <1>7, <1>8, StopParts, PTL

LEMMA SignalStep ==
    ASSUME StopInv, exit = Running, NEW s \in Signal, SignalHandled(s) \/ SignalKills(s)
    PROVE  StopInv'
<1>1. LogTypeOK /\ Process /\ Handling /\ StreamsDated /\ FlushStage
  BY StopParts
<1>2. UNCHANGED logVars /\ UNCHANGED <<exitCode, database, inFlight, abandoned, atClose>>
  BY DEF SignalHandled, SignalKills, requestVars
<1>3. /\ handlers' \subseteq Signal /\ deadline' \in {"off", "armed"}
      /\ stage' \in {"up", "closing sockets", "closing server", "flushing"}
      /\ (stage = "flushing") <=> (stage' = "flushing")
      /\ exit' = Running \/ exit' = Killed
      /\ keptAlive' = keptAlive \/ (keptAlive' = 0 /\ stage # "flushing")
  BY <1>1 DEF SignalHandled, SignalKills, gracefulShutdown, Process, requestVars
<1>4. LogTypeOK'
  BY <1>1, <1>2, LogStutter
<1>5. Process'
  BY <1>1, <1>2, <1>3 DEF Process
<1>6. Handling'
  <2>1. inFlight \in Nat /\ keptAlive \in Nat /\ inFlight + keptAlive <= MaxConnection /\ MaxConnection \in Nat
    BY <1>1, StopAssumption DEF Handling
  <2>4. keptAlive' = keptAlive \/ keptAlive' = 0
    BY <1>3
  <2>2. keptAlive' \in Nat /\ inFlight + keptAlive' <= MaxConnection
    BY <2>1, <2>4
  <2>3. QED
    BY <1>1, <1>2, <2>2 DEF Handling
<1>7. StreamsDated' /\ FlushStage'
  BY <1>1, <1>2, <1>3 DEF StreamsDated, FlushStage, NoConnection, logVars
<1>8. CleanExit'
  BY <1>3, NoCodeYet DEF CleanExit
<1>9. QED
  BY <1>4, <1>5, <1>6, <1>7, <1>8, StopParts, PTL

LEMMA CloseStep ==
    ASSUME StopInv, exit = Running, SocketsClosed \/ ServerClosed
    PROVE  StopInv'
<1>1. LogTypeOK /\ Process /\ Handling /\ StreamsDated /\ FlushStage
  BY StopParts
<1>2. /\ NoConnection /\ stage # "flushing"
      /\ \E code \in {0, 1} : finishShutdown(code)
  BY DEF SocketsClosed, ServerClosed
<1>3. /\ stage' = "flushing" /\ deadline' = "off" /\ exitCode' \in {0, 1} /\ flush
      /\ atClose' = [entry |-> logged, week |-> week]
      /\ UNCHANGED <<handlers, database, inFlight, keptAlive, abandoned, exit>>
  BY <1>2 DEF finishShutdown, requestVars
<1>4. /\ stream' = NoStream /\ flushing'.stage = "pending" /\ UNCHANGED <<logged, week>>
      /\ \A s \in ended' : s \in ended \/ s.awaited
  BY <1>3 DEF flush
<1>5. LogTypeOK'
  BY <1>1, <1>3, FlushTyped
<1>6. atClose' \in [entry : 0..MaxEntry, week : Week] /\ logged \in Nat
  BY <1>1, <1>3, StopFacts DEF LogTypeOK
<1>7. Process' /\ Handling' /\ CleanExit'
  BY <1>1, <1>3, <1>6, NoCodeYet, Zenon DEF Process, Handling, CleanExit
<1>8. StreamsDated'
  <2>1. \A s \in ended : s.week < week
    BY <1>1, <1>2 DEF StreamsDated
  <2>2. OnlyLate(stream', ended', atClose')
    BY <1>3, <1>4, <2>1 DEF OnlyLate
  <2>3. QED
    BY <1>2, <1>3, <1>4, <1>6, <2>2 DEF StreamsDated, NoConnection
<1>9. FlushStage'
  BY <1>3, <1>4 DEF FlushStage
<1>10. QED
  BY <1>5, <1>7, <1>8, <1>9, StopParts, PTL

LEMMA ExitStep ==
    ASSUME StopInv, exit = Running, ForceExit \/ closeDatabaseAndExit
    PROVE  StopInv'
<1>1. LogTypeOK /\ Process /\ Handling /\ StreamsDated /\ FlushStage
  BY StopParts
<1>2. UNCHANGED logVars /\ UNCHANGED <<handlers, stage, deadline, exitCode, inFlight, keptAlive, abandoned, atClose>>
  BY DEF ForceExit, closeDatabaseAndExit, requestVars
<1>3. LogTypeOK'
  BY <1>1, <1>2, LogStutter
<1>4. /\ exit' \in {0, 1} /\ database' \in {"open", "closed"}
      /\ exit' = 0 => closeDatabaseAndExit /\ database' = "closed"
  <2>1. database \in {"open", "closed"} /\ exitCode \in {0, 1}
    BY <1>1, Zenon DEF Process
  <2>2. CASE ForceExit
    BY <2>1, <2>2 DEF ForceExit
  <2>3. CASE closeDatabaseAndExit
    BY <2>1, <2>3 DEF closeDatabaseAndExit
  <2>4. QED
    BY <2>2, <2>3
<1>5. Process' /\ Handling'
  BY <1>1, <1>2, <1>4 DEF Process, Handling
<1>6. StreamsDated' /\ FlushStage'
  BY <1>1, <1>2 DEF StreamsDated, FlushStage, NoConnection, logVars
<1>7. CleanExit'
  <2> SUFFICES ASSUME exit' = 0 PROVE CleanExit'
    BY DEF CleanExit
  <2>1. stage = "flushing" /\ flushing.stage = "done" /\ database' = "closed"
    BY <1>4 DEF closeDatabaseAndExit
  <2>2. NoConnection /\ OnlyLate(stream, ended, atClose) /\ \A s \in ended : ~s.awaited
    BY <1>1, <2>1 DEF StreamsDated, FlushStage
  <2>3. NoConnection' /\ UNCHANGED <<stream, ended, atClose>>
    BY <1>2, <2>2 DEF NoConnection, logVars
  <2>4. QED
    BY <2>1, <2>2, <2>3 DEF CleanExit, OnlyLate, Newer, Late
<1>8. QED
  BY <1>3, <1>5, <1>6, <1>7, StopParts, PTL

\* The steps around the log, for what is said of stage, deadline and flush.
Closing ==
    /\ stage = "up" => deadline = "off" /\ flushing.stage = "no"
    /\ EndUnderWay

LEMMA ClosingInit == StopInit => Closing
  BY DEF StopInit, LogInit, Closing, EndUnderWay

LEMMA ClosingNext == LogTypeOK /\ Process /\ Closing /\ (StopNext \/ UNCHANGED stopVars) => Closing'
<1> SUFFICES ASSUME LogTypeOK, Process, Closing, StopNext \/ UNCHANGED stopVars PROVE Closing'
  OBVIOUS
<1>1. /\ flushing \in [stage : {"no", "pending", "done"}, stdout : BOOLEAN]
      /\ stage \in {"up", "closing sockets", "closing server", "flushing"} /\ deadline \in {"off", "armed"}
  BY DEF LogTypeOK, Process
<1> USE DEF Closing, EndUnderWay
<1>2. CASE UNCHANGED <<stage, deadline>> /\ flushing'.stage = flushing.stage
  BY <1>2
<1>3. CASE \E s \in Signal : SignalHandled(s)
  <2>1. UNCHANGED logVars /\ gracefulShutdown
    BY <1>3 DEF SignalHandled
  <2>2. flushing' = flushing
    BY <2>1 DEF logVars
  <2>3. CASE stage = "up"
    BY <2>1, <2>2, <2>3 DEF gracefulShutdown
  <2>4. CASE stage # "up"
    BY <2>1, <2>2, <2>4 DEF gracefulShutdown
  <2>5. QED
    BY <2>3, <2>4
<1>4. CASE SocketsClosed \/ ServerClosed
  <2>1. stage' = "flushing" /\ deadline' = "off" /\ flush
    BY <1>4 DEF SocketsClosed, ServerClosed, finishShutdown
  <2>2. flushing'.stage = "pending"
    BY <2>1 DEF flush
  <2>3. QED
    BY <2>1, <2>2
<1>5. CASE LogEvent /\ StopIdle
  <2>1. UNCHANGED <<stage, deadline>>
    BY <1>5 DEF StopIdle, processVars
  <2>2. flushing'.stage = flushing.stage \/ (flushing.stage = "pending" /\ flushing'.stage = "done")
    BY <1>1, <1>5 DEF LogEvent, LineWritten, StreamBreaks, StdoutTakes, StdoutBreaks, WeekPasses, LastLinesWritten,
                      Closed, EndedBreaks, StdoutDone, StdoutTimesOut, Flushed
  <2>3. QED
    BY <2>1, <2>2
<1>6. CASE \/ RequestArrives \/ RequestEnds \/ ClientLeaves \/ AbandonedEnds
           \/ ForceExit \/ closeDatabaseAndExit \/ UNCHANGED stopVars
           \/ \E s \in Signal : SignalKills(s)
  <2>1. UNCHANGED <<stage, deadline, flushing>>
    BY <1>6 DEF RequestArrives, RequestEnds, ClientLeaves, AbandonedEnds, ForceExit, closeDatabaseAndExit, SignalKills,
                stopVars, processVars, logVars, logAction
  <2>2. QED
    BY <1>2, <2>1
<1>7. QED
  BY <1>3, <1>4, <1>5, <1>6 DEF StopNext

LEMMA StopNextInv == StopInv /\ StopNext => StopInv'
  BY LogEventStep, RequestStep, SignalStep, CloseStep, ExitStep DEF StopNext

LEMMA StopStutter == StopInv /\ UNCHANGED stopVars => StopInv'
<1> SUFFICES ASSUME StopInv, UNCHANGED stopVars PROVE StopInv'
  OBVIOUS
<1>1. LogTypeOK /\ Process /\ Handling /\ StreamsDated /\ FlushStage /\ CleanExit
  BY StopParts
<1>2. UNCHANGED logVars /\ UNCHANGED processVars /\ UNCHANGED requestVars
  BY DEF stopVars
<1>3. LogTypeOK'
  BY <1>1, <1>2, LogStutter
<1>4. Process' /\ Handling'
  BY <1>1, <1>2 DEF Process, Handling, processVars, requestVars
<1>5. StreamsDated' /\ FlushStage'
  BY <1>1, <1>2 DEF StreamsDated, FlushStage, NoConnection, logVars, processVars, requestVars
<1>6. CleanExit'
  BY <1>1, <1>2 DEF CleanExit, Late, NoConnection, logVars, processVars, requestVars
<1>7. QED
  BY <1>3, <1>4, <1>5, <1>6, StopParts, PTL

------------------------------------------------------------------------------
(***************************************************************************)
(* Uploaded files.                                                         *)
(***************************************************************************)
Live == {"received", "waiting", "heavy", "model", "finally"}
Absent == {"unsent", "over"}
ThreadStage == {"none", "reading", "parsing", "text", "failed", "terminating"}

\* UploadTypeOK without the slots, in two parts.
Requests ==
    /\ work \in [Upload -> Stage] /\ kind \in [Upload -> {"image", "pdf"}]
    /\ thread \in [Upload -> ThreadStage] /\ answer \in [Upload -> Answer]
Directory ==
    /\ DOMAIN scratch \subseteq Upload \cup Planted
    /\ \A f \in DOMAIN scratch : scratch[f] \in 0..clock
    /\ sweep \in [started : 0..clock, listed : BOOLEAN, names : SUBSET (Upload \cup Planted)]
    /\ clock \in 0..LastClock /\ crashes \in 0..MaxCrash
SlotsKept == IsFiniteSet(Busy) /\ Cardinality(Busy) <= HeavySlots

LEMMA UploadParts == UploadInv <=> Requests /\ Directory /\ SlotsKept /\ LiveFiles
  BY DEF UploadInv, UploadTypeOK, Requests, Directory, SlotsKept, ThreadStage

LEMMA UploadConstants ==
    /\ HeavySlots \in Nat /\ HeavySlots > 0 /\ Hour \in Nat /\ Hour > 0
    /\ LastClock \in Nat /\ MaxCrash \in Nat /\ Upload \cap Planted = {}
  BY UploadAssumption

LEMMA UploadInitInv == UploadInit => UploadInv
<1> SUFFICES ASSUME UploadInit PROVE UploadInv
  OBVIOUS
<1>1. Requests
  BY DEF UploadInit, Requests, Stage, ThreadStage, Answer
<1>2. PICK P \in SUBSET Planted : scratch = [p \in P |-> 0]
  BY DEF UploadInit
<1>3. PICK listed \in BOOLEAN : sweep = [started |-> 0, listed |-> listed, names |-> {}]
  BY DEF UploadInit
<1>4. clock = 0 /\ crashes = 0 /\ 0 \in 0..0 /\ 0 \in 0..LastClock /\ 0 \in 0..MaxCrash
  BY UploadConstants DEF UploadInit
<1>5. DOMAIN scratch = P /\ \A f \in DOMAIN scratch : scratch[f] = 0
  BY <1>2
<1>6. Directory
  BY <1>3, <1>4, <1>5 DEF Directory
<1>7. Busy = {}
  BY DEF UploadInit, Busy
<1>8. SlotsKept
  BY <1>7, FS_EmptySet, UploadConstants DEF SlotsKept
<1>9. LiveFiles
  BY <1>5, UploadConstants DEF LiveFiles, UploadInit
<1>10. QED
  BY <1>1, <1>6, <1>8, <1>9, UploadParts

\* A request that moves to another stage than a slot gives its slot back, if
\* it had one.
LEMMA SlotsShrink ==
    ASSUME Requests, SlotsKept, NEW u \in Upload, NEW place, place # "heavy", Move(u, place)
    PROVE  SlotsKept'
<1>1. \A v \in Upload : work'[v] = IF v = u THEN place ELSE work[v]
  BY DEF Requests, Move
<1>2. Busy' \in SUBSET Busy
  BY <1>1 DEF Busy
<1>3. IsFiniteSet(Busy') /\ Cardinality(Busy') <= Cardinality(Busy)
  BY <1>2, FS_Subset DEF SlotsKept
<1>4. Cardinality(Busy) \in Nat /\ Cardinality(Busy') \in Nat
  BY <1>3, FS_CardinalityType DEF SlotsKept
<1>5. QED
  BY <1>3, <1>4, UploadConstants DEF SlotsKept

\* A request that is handled goes on being handled: its file stays as it is.
LEMMA FilesStay ==
    ASSUME Requests, LiveFiles, NEW u \in Upload, NEW place, Move(u, place), UNCHANGED <<scratch, sweep>>,
           (work[u] \in Live /\ place \in Live) \/ (work[u] \in Absent /\ place \in Absent)
    PROVE  LiveFiles'
<1>1. \A v \in Upload : work'[v] = IF v = u THEN place ELSE work[v]
  BY DEF Requests, Move
<1>2. QED
  BY <1>1 DEF LiveFiles, Live, Absent

LEMMA DirectoryStays == Directory /\ UNCHANGED <<scratch, sweep, clock, crashes>> => Directory'
  BY DEF Directory

\* The steps of a handler but the first and the last, and of its worker.
LEMMA StageStep ==
    ASSUME UploadInv, NEW u \in Upload,
           \/ WaitAtGate(u) \/ GateFull(u) \/ ImageDecoded(u) \/ NotAPdf(u)
           \/ WorkerFinished(u) \/ ModelAnswers(u) \/ RefuseFile(u)
    PROVE  UploadInv'
<1>1. Requests /\ Directory /\ SlotsKept /\ LiveFiles
  BY UploadParts
<1>2. UNCHANGED <<scratch, kind, sweep, clock, crashes>>
  BY DEF WaitAtGate, GateFull, ImageDecoded, NotAPdf, WorkerFinished, ModelAnswers, RefuseFile, Quietly
<1>3. PICK place \in Stage \ {"heavy"} :
        /\ Move(u, place)
        /\ (work[u] \in Live /\ place \in Live) \/ (work[u] \in Absent /\ place \in Absent)
  BY DEF WaitAtGate, GateFull, ImageDecoded, NotAPdf, WorkerFinished, ModelAnswers, RefuseFile, Stage, Live, Absent
<1>4. answer' = answer \/ \E what \in Answer : Answered(u, what)
  <2>1. {"none", "read", "fallback", "error", "busy"} = Answer
    BY DEF Answer
  <2>2. CASE WaitAtGate(u)
    BY <2>2 DEF WaitAtGate
  <2>3. CASE GateFull(u) \/ NotAPdf(u) \/ RefuseFile(u)
    BY <2>1, <2>3 DEF GateFull, NotAPdf, RefuseFile
  <2>4. CASE ImageDecoded(u)
    BY <2>1, <2>4 DEF ImageDecoded
  <2>5. CASE WorkerFinished(u)
    BY <2>1, <2>5 DEF WorkerFinished
  <2>6. CASE ModelAnswers(u)
    BY <2>1, <2>6 DEF ModelAnswers
  <2>7. QED
    BY <2>2, <2>3, <2>4, <2>5, <2>6
<1>5. thread' = thread \/ \E t \in ThreadStage : thread' = [thread EXCEPT ![u] = t]
  BY DEF WaitAtGate, GateFull, ImageDecoded, NotAPdf, WorkerFinished, ModelAnswers, RefuseFile, ThreadStage
<1>6. work' \in [Upload -> Stage] /\ answer' \in [Upload -> Answer] /\ thread' \in [Upload -> ThreadStage]
  BY <1>1, <1>3, <1>4, <1>5 DEF Requests, Move, Answered
<1>7. Requests'
  BY <1>1, <1>2, <1>6 DEF Requests
<1>8. SlotsKept' /\ LiveFiles' /\ Directory'
  BY <1>1, <1>2, <1>3, SlotsShrink, FilesStay, DirectoryStays
<1>9. QED
  BY <1>7, <1>8, UploadParts, PTL

\* The worker on its own.
LEMMA WorkerStep ==
    ASSUME UploadInv, NEW u \in Upload, StartWorker(u) \/ WorkerReports(u) \/ WorkerGone(u)
    PROVE  UploadInv'
<1>1. Requests /\ Directory /\ SlotsKept /\ LiveFiles
  BY UploadParts
<1>2. UNCHANGED <<work, scratch, answer, kind, sweep, clock, crashes>>
  BY DEF StartWorker, WorkerReports, WorkerGone, Quietly
<1>3. \E t \in ThreadStage : thread' = [thread EXCEPT ![u] = t]
  BY DEF StartWorker, WorkerReports, WorkerGone, ThreadStage
<1>4. Requests'
  BY <1>1, <1>2, <1>3 DEF Requests
<1>5. SlotsKept' /\ LiveFiles' /\ Directory'
  BY <1>1, <1>2, DirectoryStays DEF SlotsKept, Busy, LiveFiles
<1>6. QED
  BY <1>4, <1>5, UploadParts, PTL

LEMMA EnterStep ==
    ASSUME UploadInv, NEW u \in Upload, EnterGate(u)
    PROVE  UploadInv'
<1>1. Requests /\ Directory /\ SlotsKept /\ LiveFiles
  BY UploadParts
<1>2. /\ work[u] \in {"received", "waiting"} /\ Cardinality(Busy) < HeavySlots /\ Move(u, "heavy")
      /\ thread' = [thread EXCEPT ![u] = IF kind[u] = "pdf" THEN "reading" ELSE "none"]
      /\ UNCHANGED <<scratch, answer, kind, sweep, clock, crashes>>
  BY DEF EnterGate, Quietly
<1>3. Requests'
  BY <1>1, <1>2 DEF Requests, Move, Stage, ThreadStage
<1>4. LiveFiles'
  BY <1>1, <1>2, FilesStay DEF Live
<1>5. Busy' = Busy \cup {u}
  BY <1>1, <1>2 DEF Requests, Move, Busy
<1>6. IsFiniteSet(Busy \cup {u})
      /\ Cardinality(Busy \cup {u}) = IF u \in Busy THEN Cardinality(Busy) ELSE Cardinality(Busy) + 1
  BY <1>1, FS_AddElement DEF SlotsKept
<1>7. Cardinality(Busy) \in Nat
  BY <1>1, FS_CardinalityType DEF SlotsKept
<1>8. SlotsKept'
  BY <1>2, <1>5, <1>6, <1>7, UploadConstants DEF SlotsKept
<1>9. Directory'
  BY <1>1, <1>2, DirectoryStays
<1>10. QED
  BY <1>3, <1>4, <1>8, <1>9, UploadParts, PTL

\* The file arrives, and is discarded.
LEMMA FileStep ==
    ASSUME UploadInv, NEW u \in Upload, Receive(u) \/ discardUpload(u)
    PROVE  UploadInv'
<1>1. Requests /\ Directory /\ SlotsKept /\ LiveFiles
  BY UploadParts
<1>2. UNCHANGED <<kind, thread, answer, sweep, clock, crashes>>
  BY DEF Receive, discardUpload, Quietly
<1>3. \E place \in {"received", "over"} : Move(u, place)
  BY DEF Receive, discardUpload
<1>4. Requests' /\ SlotsKept'
  BY <1>1, <1>2, <1>3, SlotsShrink DEF Requests, Move, Stage
<1>5. \A v \in Upload : v # u => work'[v] = work[v]
  BY <1>1, <1>3 DEF Requests, Move
<1>6. clock \in Nat /\ sweep.started \in 0..clock
  BY <1>1 DEF Directory
<1>7. CASE Receive(u)
  <2>1. scratch' = [f \in DOMAIN scratch \cup {u} |-> IF f = u THEN clock ELSE scratch[f]] /\ Move(u, "received")
    BY <1>7 DEF Receive
  <2>2. DOMAIN scratch' = DOMAIN scratch \cup {u} /\ scratch'[u] = clock
        /\ \A f \in DOMAIN scratch : f # u => scratch'[f] = scratch[f]
    BY <2>1
  <2>3. Directory'
    <3>1. clock \in 0..clock
      BY <1>6
    <3>2. QED
      BY <1>1, <1>2, <2>2, <3>1 DEF Directory
  <2>4. work'[u] = "received" /\ clock >= sweep.started
    BY <1>1, <1>6, <2>1 DEF Requests, Move
  <2>5. LiveFiles'
    BY <1>1, <1>2, <1>5, <2>2, <2>4 DEF LiveFiles
  <2>6. QED
    BY <1>4, <2>3, <2>5, UploadParts, PTL
<1>8. CASE discardUpload(u)
  <2>1. scratch' = [g \in DOMAIN scratch \ {u} |-> scratch[g]] /\ Move(u, "over")
    BY <1>8 DEF discardUpload, Removed
  <2>2. DOMAIN scratch' = DOMAIN scratch \ {u} /\ \A f \in DOMAIN scratch' : scratch'[f] = scratch[f]
    BY <2>1
  <2>3. Directory'
    BY <1>1, <1>2, <2>2 DEF Directory
  <2>4. work'[u] = "over"
    BY <1>1, <2>1 DEF Requests, Move
  <2>5. LiveFiles'
    BY <1>1, <1>2, <1>5, <2>2, <2>4 DEF LiveFiles
  <2>6. QED
    BY <1>4, <2>3, <2>5, UploadParts, PTL
<1>9. QED
  BY <1>7, <1>8

\* What the sweep takes is of no request, or was written before the start.
LEMMA StaleNotLive ==
    ASSUME UploadInv, NEW u \in Upload, u \in DOMAIN scratch, Stale(u)
    PROVE  work[u] = "lost"
<1>1. Requests /\ Directory /\ LiveFiles
  BY UploadParts
<1>2. u \notin Planted
  BY UploadConstants
<1>3. scratch[u] \in Nat /\ sweep.started \in Nat /\ scratch[u] + Hour < sweep.started
  BY <1>1, <1>2 DEF Directory, Stale
<1>4. ~(scratch[u] >= sweep.started)
  BY <1>3, UploadConstants
<1>5. work[u] \in Stage
  BY <1>1 DEF Requests
<1>6. QED
  BY <1>1, <1>4, <1>5 DEF LiveFiles, Stage

LEMMA SweepStep ==
    ASSUME UploadInv, ListNames \/ \E f \in sweep.names : SweepOne(f)
    PROVE  UploadInv'
<1>1. Requests /\ Directory /\ SlotsKept /\ LiveFiles
  BY UploadParts
<1>2. UNCHANGED <<work, kind, thread, answer, clock, crashes>>
  BY DEF ListNames, SweepOne
<1>3. Requests' /\ SlotsKept'
  BY <1>1, <1>2 DEF Requests, SlotsKept, Busy
<1>4. CASE ListNames
  <2>1. sweep' = [sweep EXCEPT !.listed = TRUE, !.names = DOMAIN scratch] /\ scratch' = scratch
    BY <1>4 DEF ListNames
  <2>2. Directory' /\ sweep'.started = sweep.started
    BY <1>1, <1>2, <2>1 DEF Directory
  <2>3. LiveFiles'
    BY <1>1, <1>2, <2>1, <2>2 DEF LiveFiles
  <2>4. QED
    BY <1>3, <2>2, <2>3, UploadParts, PTL
<1>5. ASSUME NEW f \in sweep.names, SweepOne(f) PROVE UploadInv'
  <2>1. sweep' = [sweep EXCEPT !.names = sweep.names \ {f}]
    BY <1>5 DEF SweepOne
  <2>2. sweep' \in [started : 0..clock, listed : BOOLEAN, names : SUBSET (Upload \cup Planted)]
        /\ sweep'.started = sweep.started
    BY <1>1, <2>1 DEF Directory
  <2>3. CASE f \in DOMAIN scratch /\ Stale(f)
    <3>1. scratch' = [g \in DOMAIN scratch \ {f} |-> scratch[g]]
      BY <1>5, <2>3 DEF SweepOne, Removed
    <3>2. DOMAIN scratch' = DOMAIN scratch \ {f} /\ \A g \in DOMAIN scratch' : scratch'[g] = scratch[g]
      BY <3>1
    <3>3. Directory'
      BY <1>1, <1>2, <2>2, <3>2 DEF Directory
    <3>4. f \in Upload => work[f] = "lost"
      BY <2>3, StaleNotLive
    <3>5. LiveFiles'
      BY <1>1, <1>2, <2>2, <3>2, <3>4 DEF LiveFiles
    <3>6. QED
      BY <1>3, <3>3, <3>5, UploadParts, PTL
  <2>4. CASE ~(f \in DOMAIN scratch /\ Stale(f))
    <3>1. scratch' = scratch
      BY <1>5, <2>4 DEF SweepOne
    <3>2. Directory' /\ LiveFiles'
      BY <1>1, <1>2, <2>2, <3>1 DEF Directory, LiveFiles
    <3>3. QED
      BY <1>3, <3>2, UploadParts, PTL
  <2>5. QED
    BY <2>3, <2>4
<1>6. QED
  BY <1>4, <1>5

\* A crash loses every request that was being handled, and the clock only
\* makes files older.
LEMMA PowerStep ==
    ASSUME UploadInv, Crash \/ ClockTicks
    PROVE  UploadInv'
<1>1. Requests /\ Directory /\ SlotsKept /\ LiveFiles
  BY UploadParts
<1>2. UNCHANGED <<kind, scratch, answer>>
  BY DEF Crash, ClockTicks
<1>3. clock \in Nat /\ clock <= LastClock /\ crashes \in Nat /\ crashes <= MaxCrash
  BY <1>1, UploadConstants DEF Directory
<1>4. CASE Crash
  <2>1. /\ crashes < MaxCrash /\ crashes' = crashes + 1
        /\ work' = [u \in Upload |-> IF work[u] \in Absent THEN work[u] ELSE "lost"]
        /\ thread' = [u \in Upload |-> "none"]
        /\ sweep' = [started |-> clock, listed |-> FALSE, names |-> {}]
        /\ clock' = clock
    BY <1>4 DEF Crash, Absent
  <2>2. Requests'
    BY <1>1, <1>2, <2>1 DEF Requests, Stage, ThreadStage
  <2>3. crashes' \in 0..MaxCrash /\ clock \in 0..clock
    BY <1>3, <2>1, UploadConstants
  <2>4. Directory'
    BY <1>1, <1>2, <2>1, <2>3 DEF Directory
  <2>5. Busy' = {}
    BY <2>1 DEF Busy, Absent
  <2>6. SlotsKept'
    BY <2>5, FS_EmptySet, UploadConstants DEF SlotsKept
  <2>7. LiveFiles'
    BY <1>1, <1>2, <2>1 DEF LiveFiles, Absent
  <2>8. QED
    BY <2>2, <2>4, <2>6, <2>7, UploadParts, PTL
<1>5. CASE ClockTicks
  <2>1. clock' = clock + 1 /\ clock < LastClock /\ UNCHANGED <<work, thread, sweep, crashes>>
    BY <1>5 DEF ClockTicks
  <2>2. clock' \in 0..LastClock /\ \A n \in 0..clock : n \in 0..clock'
    BY <1>3, <2>1, UploadConstants
  <2>3. Directory'
    BY <1>1, <1>2, <2>1, <2>2 DEF Directory
  <2>4. Requests' /\ SlotsKept' /\ LiveFiles'
    BY <1>1, <1>2, <2>1 DEF Requests, SlotsKept, Busy, LiveFiles
  <2>5. QED
    BY <2>3, <2>4, UploadParts, PTL
<1>6. QED
  BY <1>4, <1>5

LEMMA UploadNextInv == UploadInv /\ UploadNext => UploadInv'
  BY StageStep, WorkerStep, EnterStep, FileStep, SweepStep, PowerStep DEF UploadNext, HandlerMoves

LEMMA UploadStutter == UploadInv /\ UNCHANGED uploadVars => UploadInv'
<1> SUFFICES ASSUME UploadInv, UNCHANGED uploadVars PROVE UploadInv'
  OBVIOUS
<1>1. Requests /\ Directory /\ SlotsKept /\ LiveFiles
  BY UploadParts
<1>2. Requests' /\ Directory' /\ SlotsKept' /\ LiveFiles'
  BY <1>1 DEF Requests, Directory, SlotsKept, Busy, LiveFiles, uploadVars
<1>3. QED
  BY <1>2, UploadParts, PTL

\* A file goes only when its request is done with it.
LEMMA GoneInTime ==
    ASSUME UploadInv, UploadNext, NEW u \in Upload, u \in DOMAIN scratch, u \notin DOMAIN scratch'
    PROVE  work[u] \in {"finally", "lost"}
<1>1. CASE \E v \in Upload : discardUpload(v)
  <2>1. PICK v \in Upload : work[v] = "finally" /\ scratch' = [g \in DOMAIN scratch \ {v} |-> scratch[g]]
    BY <1>1 DEF discardUpload, Removed
  <2>2. u = v
    BY <2>1
  <2>3. QED
    BY <2>1, <2>2
<1>2. CASE \E f \in sweep.names : SweepOne(f)
  <2>1. PICK f \in sweep.names : SweepOne(f)
    BY <1>2
  <2>2. f \in DOMAIN scratch /\ Stale(f) /\ scratch' = [g \in DOMAIN scratch \ {f} |-> scratch[g]]
    BY <2>1 DEF SweepOne, Removed
  <2>3. u = f
    BY <2>2
  <2>4. QED
    BY <2>2, <2>3, StaleNotLive
<1>3. CASE \E v \in Upload : Receive(v)
  BY <1>3 DEF Receive
<1>4. CASE scratch' = scratch
  BY <1>4
<1>5. QED
  BY <1>1, <1>2, <1>3, <1>4
  DEF UploadNext, HandlerMoves, RefuseFile, EnterGate, WaitAtGate, GateFull, ImageDecoded, NotAPdf, StartWorker,
      WorkerFinished, ModelAnswers, WorkerReports, WorkerGone, ListNames, Crash, ClockTicks

------------------------------------------------------------------------------
(***************************************************************************)
(* The nightly backup.                                                     *)
(***************************************************************************)
LEMMA BackupConstants == KeepDays \in Nat /\ LastNight \in Nat /\ MaxCopy \in Nat
  BY BackupAssumption

JobType == [running : BOOLEAN, base : 0..LastNight, n : 0..MaxCopy]
NamesDiffer == \A f, g \in backups : <<f.base, f.n>> = <<g.base, g.n>> => f = g
Chain ==
    /\ job \in JobType /\ due \in 0..LastNight + 1 /\ copies \in 0..MaxCopy
    /\ lastGood \in 0..copies /\ night \in 0..LastNight
Copies == backups \subseteq BackupFile /\ \A f \in backups : f.copy <= copies

LEMMA BackupParts == BackupInv <=> Chain /\ Copies /\ NamesDiffer /\ NamesLast /\ CopyUnderWay /\ BackupKept
  BY DEF BackupInv, BackupTypeOK, Chain, Copies, NamesDiffer, JobType

LEMMA BackupInitInv == BackupInit => BackupInv
<1> SUFFICES ASSUME BackupInit PROVE BackupInv
  OBVIOUS
<1> DEFINE old == [base |-> 0, n |-> 0, mtime |-> 0, copy |-> 0, whole |-> TRUE]
<1>1. /\ backups = {} \/ backups = {old}
      /\ job = Idle /\ due = 1 /\ copies = 0 /\ lastGood = 0 /\ night = 0
  BY DEF BackupInit
<1>2. 0 \in 0..LastNight /\ 0 \in 0..MaxCopy /\ 1 \in 0..LastNight + 1 /\ 0 \in 0..0 /\ 0 <= 0
  BY BackupConstants
<1>3. Idle \in JobType /\ Idle.running = FALSE
  BY <1>2 DEF Idle, JobType
<1>4. Chain /\ CopyUnderWay /\ BackupKept
  BY <1>1, <1>2, <1>3 DEF Chain, CopyUnderWay, BackupKept
<1>5. old \in BackupFile /\ old.copy = 0
  BY <1>2 DEF BackupFile
<1> HIDE DEF old
<1>6. Copies /\ NamesDiffer
  BY <1>1, <1>2, <1>5 DEF Copies, NamesDiffer
<1>7. IsFiniteSet(backups) /\ (Cardinality(backups) = 0 \/ Cardinality(backups) = 1)
  BY <1>1, FS_EmptySet, FS_Singleton
<1>8. NamesLast
  BY <1>1, <1>7 DEF NamesLast
<1>9. QED
  BY <1>4, <1>6, <1>8, BackupParts

\* Of the names of a night there is one no file has: there were fewer copies
\* than names.
LEMMA NameLeft ==
    ASSUME NamesLast, copies \in 0..MaxCopy, copies < MaxCopy, NEW base
    PROVE  FreeName(base) \in 0..MaxCopy /\ \A f \in backups : <<f.base, f.n>> # <<base, FreeName(base)>>
<1> DEFINE free == {n \in 0..MaxCopy : \A f \in backups : <<f.base, f.n>> # <<base, n>>}
<1>1. free # {}
  <2> SUFFICES ASSUME free = {} PROVE FALSE
    OBVIOUS
  <2>1. \A n \in 0..MaxCopy : \E f \in backups : f.base = base /\ f.n = n
    OBVIOUS
  <2> DEFINE taken == [n \in 0..MaxCopy |-> CHOOSE f \in backups : f.base = base /\ f.n = n]
  <2>2. \A n \in 0..MaxCopy : taken[n] \in backups /\ taken[n].n = n
    BY <2>1
  <2>3. taken \in [0..MaxCopy -> backups]
    BY <2>2
  <2>4. IsFiniteSet(0..MaxCopy) /\ Cardinality(0..MaxCopy) = MaxCopy + 1
    BY FS_Interval, BackupConstants
  <2>5. IsFiniteSet(backups) /\ Cardinality(backups) \in Nat /\ Cardinality(backups) <= copies + 1
    BY FS_CardinalityType DEF NamesLast
  <2>6. Cardinality(backups) < MaxCopy + 1
    BY <2>5, BackupConstants
  <2> DEFINE names == 0..MaxCopy
  <2>7. IsFiniteSet(names) /\ Cardinality(backups) < Cardinality(names) /\ taken \in [names -> backups]
    BY <2>3, <2>4, <2>6
  <2> HIDE DEF taken, names
  <2>8. \E m, n \in names : m # n /\ taken[m] = taken[n]
    BY <2>5, <2>7, FS_PigeonHole
  <2>9. QED
    BY <2>2, <2>8 DEF names
<1>2. free \in SUBSET Nat
  BY BackupConstants
<1>3. \E x \in free : \A y \in free : x <= y
  BY <1>1, <1>2, LeastNat
<1>4. FreeName(base) = CHOOSE x \in free : \A y \in free : x <= y
  BY DEF FreeName, Min
<1>5. FreeName(base) \in free
  BY <1>3, <1>4
<1>6. QED
  BY <1>5

LEMMA StartBackupStep ==
    ASSUME BackupInv, StartBackup
    PROVE  BackupInv'
<1>1. Chain /\ Copies /\ NamesDiffer /\ NamesLast /\ CopyUnderWay /\ BackupKept
  BY BackupParts
<1>2. /\ copies < MaxCopy /\ copies' = copies + 1
      /\ job' = [running |-> TRUE, base |-> night, n |-> FreeName(night)]
      /\ UNCHANGED <<due, lastGood, night>>
  BY DEF StartBackup
<1> DEFINE file == [base |-> night, n |-> FreeName(night), mtime |-> night, copy |-> copies', whole |-> FALSE]
<1>3. job'.base = night /\ job'.n = FreeName(night) /\ job'.running = TRUE
  BY <1>2
<1>4. backups' = {f \in backups : <<f.base, f.n>> # <<night, FreeName(night)>>} \cup {file}
  BY <1>3 DEF StartBackup
<1>5. FreeName(night) \in 0..MaxCopy /\ \A f \in backups : <<f.base, f.n>> # <<night, FreeName(night)>>
  BY <1>1, <1>2, NameLeft DEF Chain
<1>6. backups' = backups \cup {file}
  BY <1>4, <1>5
<1>7. night \in 0..LastNight /\ copies \in Nat /\ lastGood \in 0..copies
  BY <1>1, BackupConstants DEF Chain
<1>8. copies' \in 0..MaxCopy /\ lastGood \in 0..copies' /\ lastGood < copies'
      /\ \A n \in Nat : n <= copies => n <= copies'
  BY <1>2, <1>7, BackupConstants
<1>9. Chain'
  BY <1>1, <1>2, <1>5, <1>7, <1>8 DEF Chain, JobType
<1>10. file \in BackupFile /\ file.base = night /\ file.n = FreeName(night) /\ file.copy = copies'
  BY <1>5, <1>7, <1>8 DEF BackupFile
<1> HIDE DEF file
<1>11. Copies'
  <2>1. \A f \in backups : f.copy \in Nat
    BY <1>1, BackupConstants DEF Copies, BackupFile
  <2>2. copies' <= copies'
    BY <1>8, BackupConstants
  <2>3. \A f \in backups' : f.copy <= copies'
    BY <1>1, <1>6, <1>8, <1>10, <2>1, <2>2 DEF Copies
  <2>4. QED
    BY <1>1, <1>6, <1>10, <2>3 DEF Copies
<1>12. NamesDiffer'
  BY <1>1, <1>5, <1>6, <1>10 DEF NamesDiffer
<1>13. NamesLast'
  <2>1. IsFiniteSet(backups \cup {file})
        /\ (Cardinality(backups \cup {file}) = Cardinality(backups)
             \/ Cardinality(backups \cup {file}) = Cardinality(backups) + 1)
    BY <1>1, FS_AddElement DEF NamesLast
  <2>2. Cardinality(backups) \in Nat /\ Cardinality(backups) <= copies + 1
    BY <1>1, FS_CardinalityType DEF NamesLast
  <2>3. QED
    BY <1>2, <1>6, <1>7, <2>1, <2>2 DEF NamesLast
<1>14. CopyUnderWay'
  <2>1. \A f \in backups' : f.base = job'.base /\ f.n = job'.n => f = file
    BY <1>3, <1>5, <1>6
  <2>2. file.base = job'.base /\ file.n = job'.n /\ file \in backups'
    BY <1>3, <1>6, <1>10
  <2>3. lastGood' < copies' /\ \A f \in backups' : f.base = job'.base /\ f.n = job'.n => f.copy = copies'
    BY <1>2, <1>8, <1>10, <2>1
  <2>4. QED
    BY <2>2, <2>3 DEF CopyUnderWay, Named
<1>15. BackupKept'
  BY <1>1, <1>2, <1>6 DEF BackupKept
<1>16. QED
  BY <1>9, <1>11, <1>12, <1>13, <1>14, <1>15, BackupParts, PTL

\* The job ends: no copy is under way, and the timer is armed anew.
LEMMA JobEnds ==
    ASSUME Chain, job' = Idle, due' \in {night, night + 1}, UNCHANGED <<copies, night>>, lastGood' \in 0..copies
    PROVE  Chain' /\ CopyUnderWay'
<1>1. night \in Nat /\ night <= LastNight
  BY BackupConstants DEF Chain
<1>2. due' \in 0..LastNight + 1
  BY <1>1, BackupConstants
<1>3. Idle \in JobType /\ Idle.running = FALSE
  BY BackupConstants DEF Idle, JobType
<1>4. QED
  BY <1>2, <1>3 DEF Chain, CopyUnderWay

\* Fewer files are still files with names of their own.
LEMMA FewerFiles ==
    ASSUME Copies, NamesDiffer, NamesLast, copies \in Nat, copies' = copies, backups' \subseteq backups
    PROVE  Copies' /\ NamesDiffer' /\ NamesLast'
<1>1. Copies' /\ NamesDiffer'
  BY DEF Copies, NamesDiffer
<1>2. IsFiniteSet(backups') /\ Cardinality(backups') <= Cardinality(backups)
  BY FS_Subset DEF NamesLast
<1>3. Cardinality(backups) \in Nat /\ Cardinality(backups') \in Nat
  BY <1>2, FS_CardinalityType DEF NamesLast
<1>4. NamesLast'
  BY <1>2, <1>3 DEF NamesLast
<1>5. QED
  BY <1>1, <1>4

\* The copy is complete: it is the last good one, and too fresh to be pruned.
LEMMA BackupDoneStep ==
    ASSUME BackupInv, BackupDone
    PROVE  BackupInv'
<1>1. Chain /\ Copies /\ NamesDiffer /\ NamesLast /\ CopyUnderWay /\ BackupKept
  BY BackupParts
<1>2. /\ job.running /\ lastGood' = copies /\ job' = Idle /\ due' \in {night, night + 1}
      /\ UNCHANGED <<copies, night>>
      /\ backups' = Fresh(Others \cup {[f EXCEPT !.mtime = night, !.whole = TRUE] : f \in backups \ Others})
  BY DEF BackupDone, Reschedule
<1>3. copies \in Nat /\ copies \in 0..copies /\ night \in Nat /\ night \in 0..LastNight
  BY <1>1, BackupConstants DEF Chain
<1>4. Chain' /\ CopyUnderWay'
  BY <1>1, <1>2, <1>3, JobEnds
<1>5. PICK g \in backups : Named(g) /\ g.copy = copies
  BY <1>1, <1>2 DEF CopyUnderWay
<1>6. \A f \in backups : Named(f) => f = g
  BY <1>1, <1>5 DEF Named, NamesDiffer
<1>7. Others = backups \ {g}
  BY <1>5, <1>6 DEF Others
<1> DEFINE done == [g EXCEPT !.mtime = night, !.whole = TRUE]
<1>8. backups' = Fresh((backups \ {g}) \cup {done})
  <2>1. backups \ Others = {g}
    BY <1>7
  <2>2. {[f EXCEPT !.mtime = night, !.whole = TRUE] : f \in backups \ Others} = {done}
    BY <2>1
  <2>3. QED
    BY <1>2, <1>7, <2>2
<1>9. g \in BackupFile
  BY <1>1, <1>5 DEF Copies
<1>10. /\ done \in BackupFile /\ done.copy = copies /\ done.whole = TRUE /\ done.mtime = night
       /\ done.base = g.base /\ done.n = g.n
  BY <1>3, <1>5, <1>9 DEF BackupFile
<1> HIDE DEF done
<1>11. backups' \subseteq (backups \ {g}) \cup {done}
  BY <1>8 DEF Fresh
<1>12. done \in backups'
  <2>1. night + KeepDays >= night
    BY <1>3, BackupConstants
  <2>2. QED
    BY <1>8, <1>10, <2>1 DEF Fresh
<1>13. BackupKept'
  BY <1>2, <1>10, <1>12 DEF BackupKept
<1>14. Copies'
  <2>1. \A f \in backups' : f \in BackupFile /\ f.copy <= copies
    BY <1>1, <1>3, <1>10, <1>11 DEF Copies
  <2>2. QED
    BY <1>2, <2>1 DEF Copies
<1>15. NamesDiffer'
  <2>1. \A f \in backups : <<f.base, f.n>> = <<g.base, g.n>> => f = g
    BY <1>5, <1>1 DEF NamesDiffer
  <2>2. QED
    BY <1>1, <1>10, <1>11, <2>1 DEF NamesDiffer
<1>16. NamesLast'
  <2> DEFINE rest == backups \ {g}
  <2>1. IsFiniteSet(backups) /\ Cardinality(backups) \in Nat /\ Cardinality(backups) <= copies + 1
    BY <1>1, FS_CardinalityType DEF NamesLast
  <2>2. IsFiniteSet(rest) /\ Cardinality(rest) = Cardinality(backups) - 1
    BY <1>5, <2>1, FS_RemoveElement
  <2>3. Cardinality(rest) \in Nat
    BY <2>2, FS_CardinalityType
  <2> HIDE DEF rest
  <2>4. IsFiniteSet(rest \cup {done})
        /\ (Cardinality(rest \cup {done}) = Cardinality(rest) \/ Cardinality(rest \cup {done}) = Cardinality(rest) + 1)
    BY <2>2, FS_AddElement
  <2>5. backups' \in SUBSET (rest \cup {done})
    BY <1>11 DEF rest
  <2>6. IsFiniteSet(backups') /\ Cardinality(backups') <= Cardinality(rest \cup {done})
    BY <2>4, <2>5, FS_Subset
  <2>7. Cardinality(backups') \in Nat
    BY <2>6, FS_CardinalityType
  <2>8. Cardinality(backups') <= copies + 1
    BY <1>3, <2>1, <2>2, <2>3, <2>4, <2>6, <2>7
  <2>9. QED
    BY <1>2, <2>6, <2>8 DEF NamesLast
<1>17. QED
  BY <1>4, <1>13, <1>14, <1>15, <1>16, BackupParts, PTL

\* A failure takes at most the file of the copy under way.
LEMMA BackupFailedStep ==
    ASSUME BackupInv, BackupFailed
    PROVE  BackupInv'
<1>1. Chain /\ Copies /\ NamesDiffer /\ NamesLast /\ CopyUnderWay /\ BackupKept
  BY BackupParts
<1>2. /\ job.running /\ backups' \in {backups, Others} /\ job' = Idle /\ due' \in {night, night + 1}
      /\ UNCHANGED <<copies, lastGood, night>>
  BY DEF BackupFailed, Reschedule
<1>3. Chain' /\ CopyUnderWay'
  BY <1>1, <1>2, JobEnds DEF Chain
<1>4. copies \in Nat /\ lastGood \in Nat
  BY <1>1, BackupConstants DEF Chain
<1>5. Copies' /\ NamesDiffer' /\ NamesLast'
  BY <1>1, <1>2, <1>4, FewerFiles DEF Others
<1>6. BackupKept'
  <2> SUFFICES ASSUME lastGood > 0 PROVE \E f \in backups' : f.copy = lastGood /\ f.whole
    BY <1>2 DEF BackupKept
  <2>1. PICK f \in backups : f.copy = lastGood /\ f.whole
    BY <1>1 DEF BackupKept
  <2>2. ~Named(f)
    BY <1>1, <1>2, <1>4, <2>1 DEF CopyUnderWay
  <2>3. QED
    BY <1>2, <2>1, <2>2 DEF Others
<1>7. QED
  BY <1>3, <1>5, <1>6, BackupParts, PTL

LEMMA BackupClockStep ==
    ASSUME BackupInv, BackupCrash \/ NightPasses
    PROVE  BackupInv'
<1>1. Chain /\ Copies /\ NamesDiffer /\ NamesLast /\ CopyUnderWay /\ BackupKept
  BY BackupParts
<1>2. UNCHANGED <<backups, copies, lastGood>>
  BY DEF BackupCrash, NightPasses
<1>3. Copies' /\ NamesDiffer' /\ NamesLast' /\ BackupKept'
  BY <1>1, <1>2 DEF Copies, NamesDiffer, NamesLast, BackupKept
<1>4. Chain' /\ CopyUnderWay'
  <2>1. CASE BackupCrash
    BY <1>1, <1>2, <2>1, JobEnds DEF BackupCrash, Chain
  <2>2. CASE NightPasses
    <3>1. night < LastNight /\ night' = night + 1 /\ job' = job /\ due' = due
      BY <2>2 DEF NightPasses
    <3>2. night' \in 0..LastNight
      BY <1>1, <3>1, BackupConstants DEF Chain
    <3>3. QED
      BY <1>1, <1>2, <3>1, <3>2 DEF Chain, CopyUnderWay, Named
  <2>3. QED
    BY <2>1, <2>2 DEF BackupCrash, NightPasses
<1>5. QED
  BY <1>3, <1>4, BackupParts, PTL

LEMMA BackupNextInv == BackupInv /\ BackupNext => BackupInv'
  BY StartBackupStep, BackupDoneStep, BackupFailedStep, BackupClockStep DEF BackupNext

LEMMA BackupStutter == BackupInv /\ UNCHANGED backupVars => BackupInv'
<1> SUFFICES ASSUME BackupInv, UNCHANGED backupVars PROVE BackupInv'
  OBVIOUS
<1>1. Chain /\ Copies /\ NamesDiffer /\ NamesLast /\ CopyUnderWay /\ BackupKept
  BY BackupParts
<1>2. Chain' /\ Copies' /\ NamesDiffer' /\ NamesLast' /\ CopyUnderWay' /\ BackupKept'
  BY <1>1 DEF Chain, Copies, NamesDiffer, NamesLast, CopyUnderWay, Named, BackupKept, backupVars
<1>3. QED
  BY <1>2, BackupParts, PTL

------------------------------------------------------------------------------
(***************************************************************************)
(* The opening of the database.                                            *)
(***************************************************************************)
LEMMA SixMigrations == Cardinality(Migration) = 6
<1>1. 1 \in Int /\ 6 \in Int
  OBVIOUS
<1>2. Cardinality(1..6) = IF 1 > 6 THEN 0 ELSE 6 - 1 + 1
  BY <1>1, FS_Interval, Zenon
<1>3. 6 = IF 1 > 6 THEN 0 ELSE 6 - 1 + 1
  OBVIOUS
<1>4. QED
  BY <1>2, <1>3 DEF Migration

LEMMA ColumnsDated == \A c : ColumnSince(c) \in 1..6
  BY DEF ColumnSince

LEMMA KeyColumn ==
    /\ "invoice_imports" \in Table /\ "dedupe_key" \in Latest["invoice_imports"]
    /\ ColumnSince("dedupe_key") = 6
  BY DEF Table, Latest, ColumnSince

LEMMA LatestIsAFunction == Latest = [t \in Table |-> Latest[t]]
  BY DEF Table, Latest

\* SchemaTypeOK, by what it is about.
Stage6 == {"down", "base", "migrate", "number", "objects", "ready"}
TablesTyped ==
    /\ tables \in [DOMAIN tables -> SUBSET UNION {Latest[t] : t \in Table}]
    /\ DOMAIN tables \subseteq Table /\ \A t \in DOMAIN tables : tables[t] \subseteq Latest[t]
RowsTyped ==
    /\ DOMAIN stockRows \in {{}, StockItem} /\ \A i \in DOMAIN stockRows : stockRows[i] \in Nat
    /\ \A n \in DOMAIN imports : imports[n] \in Import /\ imports[n].key \in {NoNumber, imports[n].number}
    /\ DOMAIN imports \subseteq OldImport
OpeningTyped ==
    /\ exists \in BOOLEAN /\ userVersion \in 0..6
    /\ objects \subseteq {"dedupe index", "quantity triggers"}
    /\ open \in [at : Stage6, fresh : BOOLEAN]

LEMMA SchemaParts ==
    SchemaInv <=> /\ TablesTyped /\ RowsTyped /\ OpeningTyped
                  /\ TablesAsApplied /\ StockAsApplied /\ KeysAsApplied /\ OpenedAsFound
  BY SixMigrations DEF SchemaInv, SchemaTypeOK, TablesTyped, RowsTyped, OpeningTyped, Stage6

LEMMA SchemaInitInv == SchemaInit => SchemaInv
<1> SUFFICES ASSUME SchemaInit PROVE SchemaInv
  OBVIOUS
<1>1. open = [at |-> "down", fresh |-> FALSE] /\ objects = {} /\ open.at = "down" /\ open.fresh = FALSE
  BY DEF SchemaInit
<1>2. Applied = userVersion
  BY <1>1 DEF Applied
<1>3. CASE exists = FALSE
  <2>1. /\ userVersion = 0 /\ tables = [t \in {} |-> {}] /\ stockRows = [i \in {} |-> 0]
        /\ imports = [n \in {} |-> {}]
    BY <1>3 DEF SchemaInit
  <2>2. DOMAIN tables = {} /\ DOMAIN stockRows = {} /\ DOMAIN imports = {}
    BY <2>1
  <2>3. TablesTyped /\ RowsTyped
    BY <2>1, <2>2 DEF TablesTyped, RowsTyped
  <2>4. open \in [at : Stage6, fresh : BOOLEAN] /\ userVersion \in 0..6
    BY <1>1, <2>1 DEF Stage6
  <2>5. OpeningTyped /\ OpenedAsFound
    BY <1>1, <1>3, <2>1, <2>2, <2>4 DEF OpeningTyped, OpenedAsFound
  <2>6. TablesAsApplied /\ StockAsApplied /\ KeysAsApplied
    BY <1>1, <2>1, <2>2 DEF TablesAsApplied, StockAsApplied, KeysAsApplied
  <2>7. QED
    BY <2>3, <2>5, <2>6, SchemaParts
<1>4. CASE exists = TRUE
  <2>1. PICK missing \in SUBSET Optional : tables = Legacy(userVersion, missing)
    BY <1>4 DEF SchemaInit
  <2>2. userVersion \in 0..6
    BY <1>4, SixMigrations DEF SchemaInit
  <2>3. DOMAIN tables \subseteq Table
        /\ \A t \in DOMAIN tables : tables[t] = {c \in Latest[t] : ColumnSince(c) <= userVersion}
    BY <2>1 DEF Legacy
  <2>4. tables = [t \in DOMAIN tables |-> {c \in Latest[t] : ColumnSince(c) <= userVersion}]
    BY <2>1 DEF Legacy
  <2>5. TablesTyped
    BY <2>3, <2>4 DEF TablesTyped
  <2>6. stockRows = [i \in StockItem |-> IF userVersion > 0 THEN 1 ELSE 0]
    BY <1>4 DEF SchemaInit
  <2>7. StockAsApplied /\ DOMAIN stockRows = StockItem /\ \A i \in DOMAIN stockRows : stockRows[i] \in Nat
    BY <1>2, <2>2, <2>6 DEF StockAsApplied
  <2>8. RowsTyped /\ KeysAsApplied
    <3>1. CASE "invoice_imports" \in DOMAIN tables /\ userVersion < 6
      <4>1. imports \in [OldImport -> [number : InvoiceNumber \cup {NoNumber},
                                       status : {"reviewing", "committed"}, key : {NoNumber}]]
        BY <1>4, <3>1 DEF SchemaInit
      <4>2. RowsTyped /\ \A n \in DOMAIN imports : imports[n].key = NoNumber
        BY <2>7, <4>1 DEF RowsTyped, Import
      <4>3. "dedupe_key" \notin tables["invoice_imports"]
        BY <2>2, <2>3, <3>1, KeyColumn
      <4>4. KeysAsApplied
        BY <3>1, <4>2, <4>3 DEF KeysAsApplied
      <4>5. QED
        BY <4>2, <4>4
    <3>2. CASE ~("invoice_imports" \in DOMAIN tables /\ userVersion < 6)
      <4>1. imports = [n \in {} |-> {}] /\ DOMAIN imports = {}
        BY <1>4, <3>2 DEF SchemaInit
      <4>2. RowsTyped /\ KeysAsApplied
        BY <2>7, <4>1 DEF RowsTyped, KeysAsApplied, KeysUnique, KeysGiven
      <4>3. QED
        BY <4>2
    <3>3. QED
      BY <3>1, <3>2
  <2>9. TablesAsApplied
    BY <1>1, <1>2, <2>3 DEF TablesAsApplied
  <2>10. OpeningTyped /\ OpenedAsFound
    BY <1>1, <1>4, <2>2 DEF OpeningTyped, OpenedAsFound, Stage6
  <2>11. QED
    BY <2>5, <2>7, <2>8, <2>9, <2>10, SchemaParts
<1>5. QED
  BY <1>3, <1>4 DEF SchemaInit

LEMMA StageMoved ==
    ASSUME OpeningTyped, NEW place \in Stage6, At(place)
    PROVE  open'.at = place /\ open'.fresh = open.fresh /\ open' \in [at : Stage6, fresh : BOOLEAN]
  BY DEF OpeningTyped, At

LEMMA StartStep ==
    ASSUME SchemaInv, StartOpening
    PROVE  SchemaInv'
<1>1. /\ TablesTyped /\ RowsTyped /\ OpeningTyped
      /\ TablesAsApplied /\ StockAsApplied /\ KeysAsApplied /\ OpenedAsFound
  BY SchemaParts
<1>2. /\ open.at = "down" /\ open' = [at |-> "base", fresh |-> ~exists] /\ exists' = TRUE
      /\ UNCHANGED <<userVersion, tables, objects, stockRows, imports>>
  BY DEF StartOpening
<1>3. open'.at = "base" /\ open'.fresh = ~exists
  BY <1>2
<1>4. Applied' = userVersion /\ Applied = userVersion
  BY <1>2, <1>3 DEF Applied
<1>5. TablesTyped' /\ RowsTyped' /\ StockAsApplied' /\ KeysAsApplied'
  BY <1>1, <1>2, <1>4 DEF TablesTyped, RowsTyped, StockAsApplied, KeysAsApplied, KeysUnique, KeysGiven
<1>6. OpeningTyped'
  BY <1>1, <1>2 DEF OpeningTyped, Stage6
<1>7. TablesAsApplied'
  BY <1>1, <1>2, <1>3, <1>4 DEF TablesAsApplied, OpenedAsFound
<1>8. OpenedAsFound'
  BY <1>1, <1>2, <1>3 DEF OpenedAsFound
<1>9. QED
  BY <1>5, <1>6, <1>7, <1>8, SchemaParts, PTL

LEMMA CreateTableStep ==
    ASSUME SchemaInv, NEW t \in Table, CreateTable(t)
    PROVE  SchemaInv'
<1>1. /\ TablesTyped /\ RowsTyped /\ OpeningTyped
      /\ TablesAsApplied /\ StockAsApplied /\ KeysAsApplied /\ OpenedAsFound
  BY SchemaParts
<1>2. /\ open.at = "base" /\ t \notin DOMAIN tables
      /\ tables' = [u \in DOMAIN tables \cup {t} |-> IF u = t THEN Latest[t] ELSE tables[u]]
      /\ UNCHANGED <<exists, userVersion, objects, stockRows, imports, open>>
  BY DEF CreateTable
<1>3. DOMAIN tables' = DOMAIN tables \cup {t} /\ tables'[t] = Latest[t]
      /\ \A u \in DOMAIN tables : tables'[u] = tables[u]
  BY <1>2
<1>4. TablesTyped'
  <2>1. \A u \in DOMAIN tables' : u \in Table /\ tables'[u] \subseteq Latest[u]
    BY <1>1, <1>3 DEF TablesTyped
  <2>2. \A u \in DOMAIN tables' : tables'[u] \in SUBSET UNION {Latest[s] : s \in Table}
    BY <2>1
  <2>3. tables' \in [DOMAIN tables' -> SUBSET UNION {Latest[s] : s \in Table}]
    BY <1>2, <1>3, <2>2
  <2>4. QED
    BY <2>1, <2>3 DEF TablesTyped
<1>5. Applied' = Applied
  BY <1>2 DEF Applied
<1>6. TablesAsApplied'
  BY <1>1, <1>2, <1>3, <1>5 DEF TablesAsApplied
<1>7. RowsTyped' /\ StockAsApplied' /\ OpeningTyped'
  BY <1>1, <1>2, <1>5 DEF RowsTyped, StockAsApplied, OpeningTyped
<1>8. KeysAsApplied'
  <2>1. CASE "invoice_imports" \in DOMAIN tables'
    <3>1. CASE "invoice_imports" \in DOMAIN tables
      BY <1>1, <1>2, <1>3, <3>1 DEF KeysAsApplied, KeysUnique, KeysGiven
    <3>2. CASE "invoice_imports" \notin DOMAIN tables
      <4>1. imports = [n \in {} |-> {}]
        BY <1>1, <3>2 DEF KeysAsApplied
      <4>2. DOMAIN imports' = {} /\ "dedupe_key" \in tables'["invoice_imports"]
        BY <1>2, <1>3, <2>1, <3>2, <4>1, KeyColumn
      <4>3. QED
        BY <2>1, <4>2 DEF KeysAsApplied, KeysUnique, KeysGiven
    <3>3. QED
      BY <3>1, <3>2
  <2>2. CASE "invoice_imports" \notin DOMAIN tables'
    BY <1>1, <1>2, <1>3, <2>2 DEF KeysAsApplied
  <2>3. QED
    BY <2>1, <2>2
<1>9. OpenedAsFound'
  BY <1>1, <1>2 DEF OpenedAsFound
<1>10. QED
  BY <1>4, <1>6, <1>7, <1>8, <1>9, SchemaParts, PTL

------------------------------------------------------------------------------
\* The imports of the same number, and the committed ones of them.
Same(n) == {m \in DOMAIN imports : imports[m].number = imports[n].number}
CommittedOf(n) == {m \in Same(n) : imports[m].status = "committed"}
FirstOf(n) == IF CommittedOf(n) # {} THEN Min(CommittedOf(n)) ELSE Min(Same(n))

LEMMA MinFound ==
    ASSUME NEW S \in SUBSET Nat, S # {}
    PROVE  Min(S) \in S
<1>1. \E x \in S : \A y \in S : x <= y
  BY LeastNat
<1>2. QED
  BY <1>1 DEF Min

\* The import that gets the key is one of the number, a committed one if any
\* is, and the only one.
LEMMA FirstFound ==
    ASSUME DOMAIN imports \subseteq Nat, NEW n \in DOMAIN imports
    PROVE  /\ FirstOf(n) \in Same(n)
           /\ CommittedOf(n) # {} => imports[FirstOf(n)].status = "committed"
           /\ First(n) <=> n = FirstOf(n)
           /\ \A m \in Same(n) : FirstOf(m) = FirstOf(n)
<1>1. Same(n) \in SUBSET Nat /\ n \in Same(n) /\ CommittedOf(n) \in SUBSET Same(n)
  BY DEF Same, CommittedOf
<1>2. FirstOf(n) \in Same(n) /\ (CommittedOf(n) # {} => FirstOf(n) \in CommittedOf(n))
  BY <1>1, MinFound DEF FirstOf
<1>3. First(n) <=> n = FirstOf(n)
  BY DEF First, FirstOf, Same, CommittedOf
<1>4. \A m \in Same(n) : Same(m) = Same(n)
  BY DEF Same
<1>5. \A m \in Same(n) : CommittedOf(m) = CommittedOf(n)
  BY <1>4 DEF CommittedOf
<1>6. QED
  BY <1>2, <1>3, <1>4, <1>5 DEF FirstOf, CommittedOf

\* The migration that gives the keys gives one to an import of each number.
LEMMA KeysMade ==
    ASSUME RowsTyped, imports' = [n \in DOMAIN imports |-> Keyed(n)]
    PROVE  /\ KeysUnique' /\ KeysGiven' /\ DOMAIN imports' = DOMAIN imports
           /\ \A n \in DOMAIN imports : imports'[n] \in Import /\ imports'[n].key \in {NoNumber, imports'[n].number}
<1>1. DOMAIN imports \subseteq Nat /\ \A n \in DOMAIN imports : imports[n] \in Import
  BY SchemaAssumption DEF RowsTyped
<1>2. DOMAIN imports' = DOMAIN imports
  OBVIOUS
<1>3. ASSUME NEW n \in DOMAIN imports
      PROVE  /\ imports'[n] \in Import
             /\ imports'[n].number = imports[n].number /\ imports'[n].status = imports[n].status
             /\ imports'[n].key = IF imports[n].number # NoNumber /\ n = FirstOf(n)
                                  THEN imports[n].number ELSE NoNumber
  <2> DEFINE key == IF imports[n].number # NoNumber /\ First(n) THEN imports[n].number ELSE NoNumber
  <2>1. imports'[n] = [imports[n] EXCEPT !.key = key]
    BY DEF Keyed
  <2>2. key \in InvoiceNumber \cup {NoNumber} /\ imports[n] \in Import
    BY <1>1 DEF Import
  <2>3. key = IF imports[n].number # NoNumber /\ n = FirstOf(n) THEN imports[n].number ELSE NoNumber
    BY <1>1, FirstFound
  <2> HIDE DEF key
  <2>4. QED
    BY <2>1, <2>2, <2>3 DEF Import
<1>4. KeysUnique'
  <2> SUFFICES ASSUME NEW m \in DOMAIN imports, NEW n \in DOMAIN imports,
                      imports'[m].key = imports'[n].key, m # n, imports'[m].key # NoNumber
               PROVE  FALSE
    BY <1>2 DEF KeysUnique
  <2>1. imports[m].number = imports[n].number /\ m = FirstOf(m) /\ n = FirstOf(n)
    BY <1>3
  <2>2. m \in Same(n)
    BY <2>1 DEF Same
  <2>3. FirstOf(m) = FirstOf(n)
    BY <1>1, <2>2, FirstFound
  <2>4. QED
    BY <2>1, <2>3
<1>5. KeysGiven'
  <2> SUFFICES ASSUME NEW n \in DOMAIN imports, imports'[n].number # NoNumber
               PROVE  \E m \in DOMAIN imports :
                        /\ imports'[m].key = imports'[n].number /\ imports'[m].number = imports'[n].number
                        /\ imports'[n].status = "committed" => imports'[m].status = "committed"
    BY <1>2 DEF KeysGiven
  <2> DEFINE m == FirstOf(n)
  <2>1. m \in Same(n) /\ FirstOf(m) = m
    BY <1>1, FirstFound
  <2>2. m \in DOMAIN imports /\ imports[m].number = imports[n].number
    BY <2>1 DEF Same
  <2>3. imports[n].status = "committed" => imports[m].status = "committed"
    <3>1. n \in Same(n)
      BY DEF Same
    <3>2. imports[n].status = "committed" => n \in CommittedOf(n)
      BY <3>1 DEF CommittedOf
    <3>3. QED
      BY <1>1, <3>2, FirstFound
  <2> HIDE DEF m
  <2>4. imports'[m].key = imports'[n].number /\ imports'[m].number = imports'[n].number
    BY <1>3, <2>1, <2>2
  <2>5. imports'[n].status = "committed" => imports'[m].status = "committed"
    BY <1>3, <2>2, <2>3
  <2>6. QED
    BY <2>2, <2>4, <2>5
<1>6. QED
  BY <1>2, <1>3, <1>4, <1>5

LEMMA VersionTyped == OpeningTyped => userVersion \in Nat /\ userVersion <= 6 /\ Applied \in Nat
<1>1. OpeningTyped => userVersion \in 0..6
  BY Zenon DEF OpeningTyped
<1>2. \A v \in 0..6 : v \in Nat /\ v <= 6 /\ v + 1 \in Nat
  OBVIOUS
<1>3. QED
  BY <1>1, <1>2 DEF Applied

LEMMA FileStays ==
    ASSUME SchemaInv, UNCHANGED <<tables, stockRows, imports>>
    PROVE  TablesTyped' /\ RowsTyped' /\ KeysAsApplied'
<1>1. TablesTyped /\ RowsTyped /\ KeysAsApplied
  BY SchemaParts
<1>2. QED
  BY <1>1 DEF TablesTyped, RowsTyped, KeysAsApplied, KeysUnique, KeysGiven

\* The steps between the migrations: no table and no row changes.
LEMMA BetweenStep ==
    ASSUME SchemaInv, BaseDone \/ Number \/ MigrationsDone \/ CreateObjects
    PROVE  SchemaInv'
<1>1. OpeningTyped /\ TablesAsApplied /\ StockAsApplied /\ OpenedAsFound
  BY SchemaParts
<1>2. UNCHANGED <<exists, tables, stockRows, imports>>
  BY DEF BaseDone, Number, MigrationsDone, CreateObjects
<1>3. TablesTyped' /\ RowsTyped' /\ KeysAsApplied'
  BY <1>2, FileStays
<1>4. /\ open.at \in {"base", "migrate", "number", "objects"}
      /\ \E place \in {"migrate", "objects", "ready"} : At(place)
  BY DEF BaseDone, Number, MigrationsDone, CreateObjects
<1>5. /\ open'.at \in {"migrate", "objects", "ready"} /\ open'.fresh = open.fresh
      /\ open' \in [at : Stage6, fresh : BOOLEAN]
  BY <1>1, <1>4, StageMoved DEF Stage6
<1>6. userVersion \in Nat /\ userVersion <= 6
  BY <1>1, VersionTyped
<1>7. Applied' = Applied /\ userVersion' \in 0..6 /\ (open.at # "base" => DOMAIN tables = Table)
  <2>1. CASE Number
    <3>1. open.at = "number" /\ userVersion' = userVersion + 1 /\ userVersion < 6
      BY <1>1, <2>1, SixMigrations DEF Number, OpenedAsFound
    <3>2. open'.at # "number"
      BY <1>5
    <3>3. QED
      BY <1>1, <1>6, <3>1, <3>2 DEF Applied, TablesAsApplied
  <2>2. CASE BaseDone \/ MigrationsDone \/ CreateObjects
    <3>1. userVersion' = userVersion /\ open.at # "number" /\ open'.at # "number"
      BY <1>5, <2>2 DEF BaseDone, MigrationsDone, CreateObjects
    <3>2. QED
      BY <1>1, <1>4, <1>6, <3>1 DEF Applied, TablesAsApplied
  <2>3. QED
    BY <2>1, <2>2
<1>8. DOMAIN tables = Table
  BY <1>4, <1>7 DEF BaseDone, Number, MigrationsDone, CreateObjects
<1>9. TablesAsApplied' /\ StockAsApplied'
  BY <1>1, <1>2, <1>4, <1>5, <1>7, <1>8 DEF TablesAsApplied, StockAsApplied
<1>10. open'.at \in {"objects", "ready"} => userVersion' = 6
  BY <1>1, SixMigrations DEF OpenedAsFound, BaseDone, Number, MigrationsDone, CreateObjects, At, OpeningTyped
<1>11. objects' \subseteq {"dedupe index", "quantity triggers"}
       /\ (open'.at = "ready" => objects' = {"dedupe index", "quantity triggers"})
  BY <1>1 DEF BaseDone, Number, MigrationsDone, CreateObjects, At, OpeningTyped
<1>12. OpeningTyped'
  BY <1>1, <1>2, <1>5, <1>7, <1>11 DEF OpeningTyped
<1>13. OpenedAsFound'
  BY <1>1, <1>2, <1>4, <1>5, <1>10, <1>11, SixMigrations DEF OpenedAsFound
<1>14. QED
  BY <1>3, <1>9, <1>12, <1>13, SchemaParts, PTL

\* A new file has no rows, and the tables of the latest version.
LEMMA NumberFreshStep ==
    ASSUME SchemaInv, NumberFresh
    PROVE  SchemaInv'
<1>1. OpeningTyped /\ TablesTyped /\ TablesAsApplied /\ StockAsApplied /\ OpenedAsFound
  BY SchemaParts
<1>2. /\ open.at = "migrate" /\ open.fresh /\ userVersion' = 6 /\ At("objects")
      /\ UNCHANGED <<exists, tables, objects, stockRows, imports>>
  BY SixMigrations DEF NumberFresh
<1>3. TablesTyped' /\ RowsTyped' /\ KeysAsApplied'
  BY <1>2, FileStays
<1>4. open'.at = "objects" /\ open'.fresh = open.fresh /\ open' \in [at : Stage6, fresh : BOOLEAN]
  BY <1>1, <1>2, StageMoved DEF Stage6
<1>5. \A t \in DOMAIN tables' : tables'[t] = Latest[t]
  BY <1>1, <1>2 DEF TablesAsApplied
<1>6. TablesAsApplied'
  BY <1>1, <1>2, <1>5 DEF TablesAsApplied
<1>7. StockAsApplied'
  BY <1>1, <1>2 DEF StockAsApplied, OpenedAsFound
<1>8. OpeningTyped' /\ OpenedAsFound'
  <2>1. userVersion' \in 0..6
    BY <1>2
  <2>2. OpeningTyped'
    BY <1>1, <1>2, <1>4, <2>1, Zenon DEF OpeningTyped
  <2>3. OpenedAsFound'
    BY <1>1, <1>2, <1>4, SixMigrations DEF OpenedAsFound
  <2>4. QED
    BY <2>2, <2>3
<1>9. QED
  BY <1>3, <1>6, <1>7, <1>8, SchemaParts, PTL

\* A crash: what the migration under way has done stays, without its number.
LEMMA DownStep ==
    ASSUME SchemaInv, Down
    PROVE  SchemaInv'
<1>1. OpeningTyped /\ TablesAsApplied /\ StockAsApplied /\ OpenedAsFound
  BY SchemaParts
<1>2. /\ open.at # "down" /\ At("down")
      /\ UNCHANGED <<exists, userVersion, tables, objects, stockRows, imports>>
  BY DEF Down
<1>3. TablesTyped' /\ RowsTyped' /\ KeysAsApplied'
  BY <1>2, FileStays
<1>4. open'.at = "down" /\ open'.fresh = open.fresh /\ open' \in [at : Stage6, fresh : BOOLEAN]
  BY <1>1, <1>2, StageMoved DEF Stage6
<1>5. userVersion \in Nat /\ Applied \in Nat /\ Applied' = userVersion /\ userVersion <= Applied
  <2>1. userVersion \in Nat /\ Applied \in Nat
    BY <1>1, VersionTyped
  <2>2. QED
    BY <1>2, <1>4, <2>1 DEF Applied
<1>6. \A c : ColumnSince(c) \in Nat
  BY ColumnsDated
<1>7. TablesAsApplied'
  <2>1. \A t \in DOMAIN tables' : {c \in Latest[t] : ColumnSince(c) <= userVersion}
                                    \subseteq {c \in Latest[t] : ColumnSince(c) <= Applied}
    <3>1. \A c : ColumnSince(c) <= userVersion => ColumnSince(c) <= Applied
      <4> HIDE DEF ColumnSince, Applied
      <4>1. \A a, u, p \in Nat : a <= u /\ u <= p => a <= p
        OBVIOUS
      <4>2. QED
        BY <1>5, <1>6, <4>1
    <3>2. QED
      BY <3>1
  <2>2. \A t \in DOMAIN tables' : {c \in Latest[t] : ColumnSince(c) <= userVersion} \subseteq tables[t]
    BY <1>1, <1>2, <2>1 DEF TablesAsApplied
  <2>3. QED
    BY <1>2, <1>4, <1>5, <2>2 DEF TablesAsApplied
<1>8. StockAsApplied'
  BY <1>1, <1>2, <1>5 DEF StockAsApplied
<1>9. OpeningTyped' /\ OpenedAsFound'
  BY <1>1, <1>2, <1>4 DEF OpeningTyped, OpenedAsFound
<1>10. QED
  BY <1>3, <1>7, <1>8, <1>9, SchemaParts, PTL

LEMMA StockMoved ==
    ASSUME SchemaInv, Migrate
    PROVE  StockAsApplied' /\ DOMAIN stockRows' = DOMAIN stockRows /\ \A i \in DOMAIN stockRows' : stockRows'[i] \in Nat
<1>1. OpeningTyped /\ RowsTyped /\ StockAsApplied
  BY SchemaParts
<1>2. userVersion \in Nat /\ Applied = userVersion
  BY <1>1, VersionTyped DEF Migrate, Applied
<1>3. stockRows' = IF userVersion + 1 = 1 THEN [i \in DOMAIN stockRows |-> Backfill(i)] ELSE stockRows
  BY DEF Migrate, Apply
<1>4. DOMAIN stockRows' = DOMAIN stockRows
  BY <1>3
<1>5. ASSUME NEW i \in DOMAIN stockRows PROVE stockRows'[i] = 1
  <2>1. stockRows[i] = 1 \/ (stockRows[i] = 0 /\ userVersion = 0)
    BY <1>1, <1>2 DEF StockAsApplied
  <2>2. CASE userVersion = 0
    BY <1>3, <2>1, <2>2 DEF Backfill
  <2>3. CASE userVersion # 0
    BY <1>2, <1>3, <2>1, <2>3
  <2>4. QED
    BY <2>2, <2>3
<1>6. QED
  BY <1>4, <1>5 DEF StockAsApplied

\* A migration, of which a crash may have left the effect without the number.
LEMMA MigrateStep ==
    ASSUME SchemaInv, Migrate
    PROVE  SchemaInv'
<1>1. /\ TablesTyped /\ RowsTyped /\ OpeningTyped
      /\ TablesAsApplied /\ StockAsApplied /\ KeysAsApplied /\ OpenedAsFound
  BY SchemaParts
<1> DEFINE m == userVersion + 1
<1> DEFINE columns == {c \in UNION {Latest[t] : t \in Table} : ColumnSince(c) = m}
<1>2. /\ open.at = "migrate" /\ open.fresh = FALSE /\ userVersion < 6 /\ At("number")
      /\ UNCHANGED <<exists, userVersion>>
  BY <1>1, SixMigrations DEF Migrate, OpeningTyped
<1>3. /\ tables' = [t \in DOMAIN tables |-> tables[t] \cup {c \in columns : c \in Latest[t]}]
      /\ imports' = IF m = 6 /\ "dedupe_key" \notin tables["invoice_imports"]
                    THEN [n \in DOMAIN imports |-> Keyed(n)] ELSE imports
      /\ objects' = IF m = 6 THEN {"dedupe index", "quantity triggers"} ELSE objects
  BY DEF Migrate, Apply, Add
<1>4. userVersion \in Nat /\ m \in Nat /\ Applied = userVersion
  BY <1>1, <1>2, VersionTyped DEF Applied
<1>5. open'.at = "number" /\ open'.fresh = FALSE /\ open' \in [at : Stage6, fresh : BOOLEAN]
  BY <1>1, <1>2, StageMoved DEF Stage6
<1>6. Applied' = m
  BY <1>2, <1>5 DEF Applied
<1>7. DOMAIN tables = Table /\ DOMAIN tables' = Table
  BY <1>1, <1>2, <1>3 DEF TablesAsApplied
<1>8. \A t \in Table : tables'[t] = tables[t] \cup {c \in Latest[t] : ColumnSince(c) = m}
  BY <1>3, <1>7
<1>9. TablesTyped'
  <2>1. \A t \in Table : tables'[t] \subseteq Latest[t]
    BY <1>1, <1>7, <1>8 DEF TablesTyped
  <2>2. \A t \in Table : tables'[t] \in SUBSET UNION {Latest[s] : s \in Table}
    BY <2>1
  <2>3. tables' \in [Table -> SUBSET UNION {Latest[s] : s \in Table}]
    BY <1>3, <1>7, <2>2
  <2>4. QED
    BY <1>7, <2>1, <2>3 DEF TablesTyped
<1>10. TablesAsApplied'
  <2>1. \A c : ColumnSince(c) <= m => ColumnSince(c) <= userVersion \/ ColumnSince(c) = m
    <3>1. \A c : ColumnSince(c) \in Nat
      BY ColumnsDated
    <3> HIDE DEF ColumnSince
    <3>2. \A a, v \in Nat : a <= v + 1 => a <= v \/ a = v + 1
      OBVIOUS
    <3>3. QED
      BY <1>4, <3>1, <3>2
  <2>2. \A t \in Table : {c \in Latest[t] : ColumnSince(c) <= userVersion} \subseteq tables[t]
    BY <1>1, <1>4, <1>7 DEF TablesAsApplied
  <2> HIDE DEF m, columns
  <2>3. \A t \in Table : {c \in Latest[t] : ColumnSince(c) <= m} \subseteq tables'[t]
    BY <1>8, <2>1, <2>2
  <2>4. QED
    BY <1>5, <1>6, <1>7, <2>3 DEF TablesAsApplied
<1>11. /\ KeysAsApplied' /\ DOMAIN imports' = DOMAIN imports
       /\ \A n \in DOMAIN imports' : imports'[n] \in Import /\ imports'[n].key \in {NoNumber, imports'[n].number}
  <2>1. "dedupe_key" \in tables'["invoice_imports"]
          <=> "dedupe_key" \in tables["invoice_imports"] \/ m = 6
    BY <1>8, KeyColumn
  <2>2. "invoice_imports" \in DOMAIN tables /\ "invoice_imports" \in DOMAIN tables'
    BY <1>7, KeyColumn
  <2>3. CASE "dedupe_key" \in tables["invoice_imports"]
    <3>1. imports' = imports
      BY <1>3, <2>3
    <3>2. KeysUnique /\ KeysGiven
      BY <1>1, <2>2, <2>3 DEF KeysAsApplied
    <3>3. QED
      BY <1>1, <2>1, <2>2, <2>3, <3>1, <3>2 DEF KeysAsApplied, KeysUnique, KeysGiven, RowsTyped
  <2>4. CASE "dedupe_key" \notin tables["invoice_imports"] /\ m = 6
    <3>1. imports' = [n \in DOMAIN imports |-> Keyed(n)]
      BY <1>3, <2>4
    <3>2. /\ KeysUnique' /\ KeysGiven' /\ DOMAIN imports' = DOMAIN imports
          /\ \A n \in DOMAIN imports : imports'[n] \in Import /\ imports'[n].key \in {NoNumber, imports'[n].number}
      BY <1>1, <3>1, KeysMade
    <3>3. QED
      BY <2>1, <2>2, <2>4, <3>2 DEF KeysAsApplied
  <2>5. CASE "dedupe_key" \notin tables["invoice_imports"] /\ m # 6
    <3>1. imports' = imports
      BY <1>3, <2>5
    <3>2. \A n \in DOMAIN imports : imports[n].key = NoNumber
      BY <1>1, <2>2, <2>5 DEF KeysAsApplied
    <3>3. QED
      BY <1>1, <2>1, <2>2, <2>5, <3>1, <3>2 DEF KeysAsApplied, RowsTyped
  <2>6. QED
    BY <2>3, <2>4, <2>5
<1>12. RowsTyped' /\ StockAsApplied'
  BY <1>1, <1>11, StockMoved DEF RowsTyped
<1>13. OpeningTyped'
  <2>1. objects' \subseteq {"dedupe index", "quantity triggers"}
    BY <1>1, <1>3 DEF OpeningTyped
  <2>2. QED
    BY <1>1, <1>2, <1>5, <2>1 DEF OpeningTyped
<1>14. OpenedAsFound'
  BY <1>1, <1>2, <1>5, SixMigrations DEF OpenedAsFound
<1>15. QED
  BY <1>9, <1>10, <1>12, <1>11, <1>13, <1>14, SchemaParts, PTL

LEMMA SchemaNextInv == SchemaInv /\ SchemaNext => SchemaInv'
  BY StartStep, CreateTableStep, BetweenStep, MigrateStep, NumberFreshStep, DownStep DEF SchemaNext

LEMMA SchemaStutter == SchemaInv /\ UNCHANGED schemaVars => SchemaInv'
<1> SUFFICES ASSUME SchemaInv, UNCHANGED schemaVars PROVE SchemaInv'
  OBVIOUS
<1>1. /\ TablesTyped /\ RowsTyped /\ OpeningTyped
      /\ TablesAsApplied /\ StockAsApplied /\ KeysAsApplied /\ OpenedAsFound
  BY SchemaParts
<1>2. UNCHANGED <<exists, userVersion, tables, objects, stockRows, imports, open>>
  BY DEF schemaVars
<1>3. TablesTyped' /\ RowsTyped' /\ KeysAsApplied'
  BY <1>2, FileStays
<1>4. OpeningTyped' /\ TablesAsApplied' /\ StockAsApplied' /\ OpenedAsFound'
  BY <1>1, <1>2 DEF OpeningTyped, TablesAsApplied, StockAsApplied, OpenedAsFound, Applied
<1>5. QED
  BY <1>3, <1>4, SchemaParts, PTL

\* What has been opened is the latest schema.
LEMMA LatestTables == SchemaInv => SchemaCurrent
<1> SUFFICES ASSUME SchemaInv PROVE SchemaCurrent
  OBVIOUS
<1>1. /\ TablesTyped /\ RowsTyped /\ OpeningTyped
      /\ TablesAsApplied /\ StockAsApplied /\ KeysAsApplied /\ OpenedAsFound
  BY SchemaParts
<1>2. CASE open.at \in {"objects", "ready"}
  <2>1. userVersion = 6 /\ Applied = 6 /\ DOMAIN tables = Table
    BY <1>1, <1>2, SixMigrations DEF OpenedAsFound, Applied, TablesAsApplied
  <2>2. \A t \in Table : {c \in Latest[t] : ColumnSince(c) <= 6} = Latest[t]
    <3>1. \A c : ColumnSince(c) <= 6
      BY ColumnsDated
    <3>2. QED
      BY <3>1
  <2>3. \A t \in Table : tables[t] = Latest[t]
    BY <1>1, <2>1, <2>2 DEF TablesAsApplied, TablesTyped
  <2>4. tables = [t \in Table |-> tables[t]]
    BY <1>1, <2>1 DEF TablesTyped
  <2>5. tables = Latest
    BY <2>3, <2>4, LatestIsAFunction
  <2>6. KeysUnique /\ KeysGiven
    BY <1>1, <2>1, <2>3, KeyColumn DEF KeysAsApplied
  <2>7. \A i \in DOMAIN stockRows : stockRows[i] = 1
    BY <1>1, <2>1 DEF StockAsApplied
  <2>8. QED
    BY <1>1, <2>1, <2>5, <2>6, <2>7, SixMigrations DEF SchemaCurrent, OpenedAsFound
<1>3. CASE open.at \notin {"objects", "ready"}
  BY <1>3 DEF SchemaCurrent
<1>4. QED
  BY <1>2, <1>3

------------------------------------------------------------------------------
(***************************************************************************)
(* Sequences, one after another.                                           *)
(***************************************************************************)
\* f are the sequences of ss, joined one by one.
Joins(f, ss, T) ==
    /\ f \in [1..Len(ss) -> Seq(T)]
    /\ f[1] = ss[1]
    /\ \A i \in 1..Len(ss) : i + 1 \in 1..Len(ss) => f[i + 1] = f[i] \o ss[i + 1]
    /\ FlattenSeq(ss) = f[Len(ss)]

LEMMA Joined ==
    ASSUME NEW T, NEW ss \in Seq(Seq(T)), Len(ss) > 0
    PROVE  \E f : Joins(f, ss, T)
<1> DEFINE n == Len(ss)
           S == Seq(T)
           More(k, s) == IF k + 2 <= n THEN s \o ss[k + 2] ELSE s
           step == [p \in Nat \X S |-> More(p[1], p[2])]
           body(g) == [i \in 1..n |-> IF i = 1 THEN ss[i] ELSE g[i - 1] \o ss[i]]
           flat == CHOOSE g : g = body(g)
<1>1. n \in Nat /\ n > 0 /\ ss \in [1..n -> S]
  OBVIOUS
<1>2. ASSUME NEW k \in Nat, NEW s \in S PROVE More(k, s) \in S
  <2>1. CASE k + 2 <= n
    <3>1. ss[k + 2] \in S
      BY <1>1, <2>1
    <3>2. QED
      BY <2>1, <3>1
  <2>2. QED
    BY <2>1
<1>3. step \in [Nat \X S -> S] /\ \A k \in Nat, s \in S : step[<<k, s>>] = More(k, s)
  <2> HIDE DEF More, S
  <2> QED BY <1>2
<1>4. ss[1] \in S
  BY <1>1
<1>5. PICK f : Recursion(f, S, ss[1], step)
  <2> HIDE DEF S, step, n
  <2> QED BY <1>3, <1>4, RecursionExists
<1>6. f \in [Nat -> S] /\ f[0] = ss[1] /\ \A k \in Nat : f[k + 1] = More(k, f[k])
  <2> HIDE DEF S, More, step
  <2> QED BY <1>3, <1>5 DEF Recursion
<1> DEFINE h == [i \in 1..n |-> f[i - 1]]
<1>7. h = body(h)
  <2>1. ASSUME NEW i \in 1..n PROVE h[i] = IF i = 1 THEN ss[i] ELSE h[i - 1] \o ss[i]
    <3>1. CASE i = 1
      BY <1>6, <3>1
    <3>2. CASE i # 1
      <4>1. i - 2 \in Nat /\ (i - 2) + 1 = i - 1 /\ (i - 2) + 2 = i /\ i <= n /\ i - 1 \in 1..n /\ (i - 1) - 1 = i - 2
        BY <1>1, <3>2
      <4>2. f[i - 1] = f[i - 2] \o ss[i]
        <5> HIDE DEF n
        <5> QED BY <1>6, <4>1
      <4>3. h[i] = f[i - 1] /\ h[i - 1] = f[i - 2]
        <5> HIDE DEF n
        <5> QED BY <4>1
      <4>4. QED
        BY <3>2, <4>2, <4>3
    <3>3. QED
      BY <3>1, <3>2
  <2>2. QED
    BY <2>1
<1>8. flat = body(flat)
  <2> HIDE DEF h, body
  <2> QED BY <1>7
<1>9. FlattenSeq(ss) = flat[n]
  BY <1>1 DEF FlattenSeq
<1>10. ASSUME NEW g, g = body(g)
       PROVE  /\ g[1] = ss[1]
              /\ \A i \in 1..n : i + 1 \in 1..n => g[i + 1] = g[i] \o ss[i + 1]
              /\ g = [i \in 1..n |-> g[i]]
  <2>1. body(g)[1] = ss[1]
    BY <1>1
  <2>2. ASSUME NEW i \in 1..n, i + 1 \in 1..n PROVE body(g)[i + 1] = g[i] \o ss[i + 1]
    <3>1. i + 1 # 1 /\ (i + 1) - 1 = i
      OBVIOUS
    <3>2. QED
      BY <2>2, <3>1
  <2>3. body(g) = [i \in 1..n |-> body(g)[i]]
    OBVIOUS
  <2> HIDE DEF body
  <2>4. QED
    BY <1>10, <2>1, <2>2, <2>3
<1>11. /\ flat[1] = ss[1]
       /\ \A i \in 1..n : i + 1 \in 1..n => flat[i + 1] = flat[i] \o ss[i + 1]
       /\ flat = [i \in 1..n |-> flat[i]]
  <2> HIDE DEF flat, body, n
  <2> QED BY <1>8, <1>10
<1> HIDE DEF flat
<1>12. \A i \in 1..n : flat[i] \in S
  <2> DEFINE good == {i \in Nat : i + 1 <= n => flat[i + 1] \in S}
  <2>1. 0 \in good
    BY <1>4, <1>11
  <2>2. ASSUME NEW i \in Nat, i \in good PROVE i + 1 \in good
    <3> SUFFICES ASSUME (i + 1) + 1 <= n PROVE flat[(i + 1) + 1] \in S
      OBVIOUS
    <3>1. i + 1 \in 1..n /\ (i + 1) + 1 \in 1..n /\ i + 1 <= n
      BY <1>1
    <3>2. flat[i + 1] \in S /\ ss[(i + 1) + 1] \in S
      BY <1>1, <2>2, <3>1
    <3>3. flat[(i + 1) + 1] = flat[i + 1] \o ss[(i + 1) + 1]
      <4> HIDE DEF n
      <4> QED BY <1>11, <3>1
    <3>4. QED
      BY <3>2, <3>3
  <2>3. Nat \subseteq good
    <3> HIDE DEF good
    <3> QED BY <2>1, <2>2, InductiveSet
  <2>4. TAKE i \in 1..n
  <2>5. i - 1 \in Nat /\ (i - 1) + 1 = i /\ i <= n
    BY <1>1
  <2>6. i - 1 \in good
    <3> HIDE DEF good
    <3> QED BY <2>3, <2>5
  <2>7. QED
    BY <2>5, <2>6
<1>13. Joins(flat, ss, T)
  BY <1>9, <1>11, <1>12 DEF Joins
<1>14. QED
  BY <1>13
------------------------------------------------------------------------------
(***************************************************************************)
(* The model's answers about the lines.                                    *)
(***************************************************************************)
LEMMA ClassifyConstants ==
    /\ Lines \in Nat /\ Lines > 0 /\ BatchSize \in Nat /\ BatchSize > 0 /\ Workers \in Nat /\ Workers > 0
    /\ Stock \in Nat /\ Stock > 0 /\ MatchMax \in Nat /\ MatchMax > 0 /\ MaxReply \in Nat
  BY ClassifyAssumption

LEMMA Divided ==
    ASSUME NEW L \in Nat, L > 0, NEW B \in Nat, B > 0
    PROVE  LET n == (L + B - 1) \div B
           IN  n \in Nat /\ n > 0 /\ (n - 1) * B < L /\ L <= n * B
<1> DEFINE n == (L + B - 1) \div B
<1>1. n \in Nat
  OBVIOUS
<1>2. (n - 1) * B < L /\ L <= n * B
  OBVIOUS
<1>3. n > 0
  <2> HIDE DEF n
  <2>1. n = 0 => n * B = 0
    OBVIOUS
  <2> QED BY <1>1, <1>2, <2>1
<1>4. QED
  BY <1>1, <1>2, <1>3

\* The chunks cut the lines: all but the last are full.
LEMMA ChunkSizes ==
    /\ Chunks \in Nat /\ Chunks > 0 /\ Min2(Workers, Chunks) \in Nat /\ Min2(Workers, Chunks) > 0
    /\ \A c \in 1..Chunks :
         /\ Names(c) \in 1..BatchSize /\ (c - 1) * BatchSize \in Nat
         /\ c < Chunks => Names(c) = BatchSize
         /\ c = Chunks => (c - 1) * BatchSize + Names(c) = Lines
<1>1. Chunks \in Nat /\ Chunks > 0 /\ (Chunks - 1) * BatchSize < Lines /\ Lines <= Chunks * BatchSize
  BY ClassifyConstants, Divided DEF Chunks
<1>2. Min2(Workers, Chunks) \in Nat /\ Min2(Workers, Chunks) > 0
  BY <1>1, ClassifyConstants DEF Min2
<1>3. ASSUME NEW c \in 1..Chunks
      PROVE  /\ Names(c) \in 1..BatchSize /\ (c - 1) * BatchSize \in Nat
             /\ c < Chunks => Names(c) = BatchSize
             /\ c = Chunks => (c - 1) * BatchSize + Names(c) = Lines
  <2>1. \A n, B, L \in Nat : \A d \in 1..n : (n - 1) * B < L /\ L <= n * B => (d - 1) * B \in Nat /\ (d - 1) * B < L
    OBVIOUS
  <2>2. (c - 1) * BatchSize \in Nat /\ (c - 1) * BatchSize < Lines
    BY <1>1, <2>1, ClassifyConstants
  <2>3. \A n, B, L \in Nat : \A d \in 1..n : (n - 1) * B < L /\ d < n => d * B < L /\ d * B = (d - 1) * B + B
    OBVIOUS
  <2>4. c < Chunks => (c - 1) * BatchSize + BatchSize < Lines
    BY <1>1, <2>3, ClassifyConstants
  <2>5. c = Chunks => Lines - (c - 1) * BatchSize <= BatchSize
    <3>1. \A n, B, L \in Nat : L <= n * B => L - (n - 1) * B <= B
      OBVIOUS
    <3>2. QED
      BY <1>1, <3>1, ClassifyConstants
  <2> DEFINE x == (c - 1) * BatchSize
  <2>6. Names(c) = Min2(BatchSize, Lines - x)
    BY DEF Names
  <2>7. x \in Nat /\ x < Lines /\ (c < Chunks => x + BatchSize < Lines) /\ (c = Chunks => Lines - x <= BatchSize)
    BY <2>2, <2>4, <2>5
  <2>8. /\ Names(c) \in 1..BatchSize
        /\ c < Chunks => Names(c) = BatchSize
        /\ c = Chunks => x + Names(c) = Lines
    <3> HIDE DEF x
    <3> QED BY <1>1, <2>6, <2>7, ClassifyConstants DEF Min2
  <2>9. QED
    BY <2>7, <2>8
<1>4. QED
  BY <1>1, <1>2, <1>3

LEMMA NullTyped == Null \in Result
  BY DEF Null, Result

LEMMA ByIndexSound ==
    ASSUME NEW reply \in Reply, NEW i \in Int
    PROVE  ByIndex(reply, i) \in Result /\ (ByIndex(reply, i) # Null => ByIndex(reply, i).index = i)
<1> DEFINE places == {p \in 1..Len(reply) : reply[p] = i}
<1>1. PICK m \in 0..MaxReply : reply \in [1..m -> -1..BatchSize]
  BY DEF Reply, SeqOf
<1>2. places \in SUBSET Nat
  BY <1>1, ClassifyConstants
<1>3. places # {} => Min(places) \in Nat
  <2> HIDE DEF places
  <2>1. places # {} => \E x \in places : \A y \in places : x <= y
    BY <1>2, LeastNat
  <2>2. QED
    BY <1>2, <2>1 DEF Min
<1>4. ByIndex(reply, i) = IF places = {} THEN Null ELSE [index |-> i, place |-> Min(places)]
  BY DEF ByIndex
<1>5. QED
  <2> HIDE DEF places
  <2> QED BY <1>3, <1>4, NullTyped DEF Result

LEMMA ClassifyInitInv == ClassifyInit => ClassifyInv
<1> SUFFICES ASSUME ClassifyInit PROVE ClassifyInv
  OBVIOUS
<1>1. Chunks \in Nat /\ Chunks > 0 /\ Min2(Workers, Chunks) \in Nat /\ Min2(Workers, Chunks) > 0
  BY ChunkSizes
<1> DEFINE many == Min2(Workers, Chunks)
<1>2. /\ next = 0 /\ workers = [w \in 1..many |-> 0] /\ chunkResults = [c \in 1..Chunks |-> <<>>]
      /\ result.answers = <<>> /\ result.failed = 0 /\ Asked
  BY DEF ClassifyInit, Pending, Asked
<1>3. <<>> \in Seq(Result) /\ 0 \in Over..Chunks /\ Over # 0
  BY <1>1 DEF Over
<1>4. ClassifyTypeOK
  <2> HIDE DEF many
  <2>1. workers \in [1..many -> Over..Chunks] /\ 0 \in 0..Chunks /\ 0 \in 0..Lines
    BY <1>1, <1>2, <1>3, ClassifyConstants
  <2>2. \A v, w \in DOMAIN workers : workers[v] = workers[w] /\ workers[v] > 0 => v = w
    BY <1>2
  <2>3. \A c \in 1..Chunks : chunkResults[c] \in Seq(Result)
    BY <1>2, <1>3
  <2>4. result.answers \in Seq(Result)
    BY <1>2, <1>3
  <2>5. QED
    BY <1>2, <2>1, <2>2, <2>3, <2>4 DEF ClassifyTypeOK, Result, many
<1>5. ChunksAccounted
  <2> HIDE DEF many
  <2> QED BY <1>1, <1>2, <1>3 DEF ChunksAccounted
<1>6. ClassifiedInOrder /\ MatchesOffered
  <2>1. DOMAIN result.answers = {} 
    BY <1>2
  <2>2. QED
    BY <1>2, <2>1 DEF ClassifiedInOrder, MatchesOffered, Pending
<1>7. QED
  BY <1>2, <1>4, <1>5, <1>6 DEF ClassifyInv

LEMMA TakeStep ==
    ASSUME ClassifyInv, NEW w \in DOMAIN workers, TakeChunk(w) \/ NoChunkLeft(w)
    PROVE  ClassifyInv'
<1>1. /\ Asked /\ ClassifyTypeOK /\ ChunksAccounted /\ ClassifiedInOrder /\ MatchesOffered
      /\ UNCHANGED <<asked, chunkResults, result>> /\ Classifying /\ workers[w] = 0
  BY DEF ClassifyInv, TakeChunk, NoChunkLeft
<1> DEFINE many == Min2(Workers, Chunks)
<1>2. Chunks \in Nat /\ Chunks > 0 /\ next \in 0..Chunks /\ workers \in [1..many -> Over..Chunks]
  BY <1>1, ChunkSizes DEF ClassifyTypeOK
<1>3. PICK x \in Over..Chunks :
        /\ workers' = [workers EXCEPT ![w] = x] /\ next' \in 0..Chunks /\ next <= next'
        /\ \/ x = next' /\ next' = next + 1
           \/ x = Over /\ next' = next /\ next = Chunks
  <2> HIDE DEF many
  <2>1. CASE TakeChunk(w)
    <3>1. next + 1 \in Over..Chunks /\ next + 1 \in 0..Chunks
      BY <1>2, <2>1 DEF TakeChunk, Over
    <3>2. workers' = [workers EXCEPT ![w] = next + 1] /\ next' = next + 1 /\ next <= next + 1
      BY <1>2, <2>1 DEF TakeChunk
    <3>3. QED
      BY <3>1, <3>2
  <2>2. CASE NoChunkLeft(w)
    <3>1. Over \in Over..Chunks /\ next = Chunks
      BY <1>2, <2>2 DEF NoChunkLeft, Over
    <3>2. QED
      BY <1>2, <2>2, <3>1 DEF NoChunkLeft
  <2>3. QED
    BY <2>1, <2>2
<1>4. /\ workers' \in [1..many -> Over..Chunks] /\ DOMAIN workers' = DOMAIN workers
      /\ \A v \in DOMAIN workers : workers'[v] = IF v = w THEN x ELSE workers[v]
  <2> HIDE DEF many
  <2> QED BY <1>2, <1>3
<1>5. \A v \in DOMAIN workers : workers[v] \in Int /\ workers[v] <= next
  <2> HIDE DEF many
  <2>1. \A v \in DOMAIN workers : workers[v] <= next
    BY <1>1 DEF ChunksAccounted
  <2>2. \A v \in DOMAIN workers : workers[v] \in Int
    BY <1>2 DEF Over
  <2> QED BY <2>1, <2>2
<1>6. ClassifyTypeOK'
  <2>1. \A u, v \in DOMAIN workers' : workers'[u] = workers'[v] /\ workers'[u] > 0 => u = v
    <3> HIDE DEF many
    <3>1. \A u, v \in DOMAIN workers : workers[u] = workers[v] /\ workers[u] > 0 => u = v
      BY <1>1 DEF ClassifyTypeOK
    <3>2. x > 0 => x > next
      BY <1>2, <1>3 DEF Over
    <3>3. QED
      BY <1>2, <1>3, <1>4, <1>5, <3>1, <3>2
  <2>2. QED
    BY <1>1, <1>3, <1>4, <2>1 DEF ClassifyTypeOK
<1>7. ChunksAccounted'
  <2> HIDE DEF many
  <2>1. \A v \in DOMAIN workers' : workers'[v] <= next' /\ (workers'[v] = Over => next' = Chunks)
    BY <1>1, <1>2, <1>3, <1>4, <1>5 DEF ChunksAccounted, Over
  <2>2. ASSUME NEW c \in 1..Chunks, c <= next' PROVE Held(c)' \/ Answers(chunkResults[c], c)'
    <3>1. CASE c <= next
      <4>1. Held(c) \/ Answers(chunkResults[c], c)
        BY <1>1, <3>1 DEF ChunksAccounted
      <4>2. Held(c) => Held(c)'
        <5>1. workers[w] # c
          BY <1>1, <1>2
        <5>2. QED
          BY <1>4, <5>1 DEF Held
      <4>3. Answers(chunkResults[c], c) => Answers(chunkResults[c], c)'
        BY <1>1 DEF Answers
      <4>4. QED
        BY <4>1, <4>2, <4>3
    <3>2. CASE c > next
      <4>1. c = x
        BY <1>2, <1>3, <2>2, <3>2
      <4>2. QED
        BY <1>4, <4>1 DEF Held
    <3>3. QED
      BY <1>2, <3>1, <3>2
  <2>3. QED
    BY <1>1, <2>1, <2>2 DEF ChunksAccounted
<1>8. QED
  BY <1>1, <1>6, <1>7 DEF ClassifyInv, Asked, ClassifiedInOrder, MatchesOffered, Classifying

LEMMA StoreStep ==
    ASSUME ClassifyInv, NEW w \in DOMAIN workers, ChunkAnswered(w) \/ ChunkFailed(w)
    PROVE  ClassifyInv'
<1>1. /\ Asked /\ ClassifyTypeOK /\ ChunksAccounted /\ ClassifiedInOrder /\ MatchesOffered
      /\ Classifying /\ workers[w] > 0
  BY DEF ClassifyInv, ChunkAnswered, ChunkFailed, Store
<1> DEFINE many == Min2(Workers, Chunks)
           c == workers[w]
<1>2. Chunks \in Nat /\ Chunks > 0 /\ next \in 0..Chunks /\ workers \in [1..many -> Over..Chunks]
  BY <1>1, ChunkSizes DEF ClassifyTypeOK
<1>3. c \in 1..Chunks
  <2> HIDE DEF many
  <2> QED BY <1>1, <1>2 DEF Over
<1>4. Names(c) \in Nat
  BY <1>3, ChunkSizes, ClassifyConstants
<1>5. PICK s : Answers(s, c) /\ Store(w, s)
  <2> HIDE DEF c
  <2>1. CASE ChunkAnswered(w)
    <3>1. PICK reply \in Reply : Store(w, [i \in 1..Names(c) |-> ByIndex(reply, i - 1)])
      BY <2>1 DEF ChunkAnswered, c
    <3> DEFINE s == [i \in 1..Names(c) |-> ByIndex(reply, i - 1)]
    <3>2. \A i \in 1..Names(c) : s[i] \in Result /\ (s[i] # Null => s[i].index = i - 1)
      <4> SUFFICES ASSUME NEW i \in 1..Names(c) PROVE s[i] \in Result /\ (s[i] # Null => s[i].index = i - 1)
        OBVIOUS
      <4>1. i - 1 \in Int /\ s[i] = ByIndex(reply, i - 1)
        BY <1>4
      <4> HIDE DEF s
      <4>2. QED
        BY <4>1, ByIndexSound
    <3>3. s \in Seq(Result) /\ Len(s) = Names(c)
      BY <1>4, <3>2
    <3>4. QED
      <4> HIDE DEF s
      <4>1. Answers(s, c)
        BY <3>2, <3>3 DEF Answers
      <4>2. Store(w, s)
        BY <3>1 DEF s
      <4> QED BY <4>1, <4>2
  <2>2. CASE ChunkFailed(w)
    <3> DEFINE s == [i \in 1..Names(c) |-> Null]
    <3>1. Store(w, s)
      BY <2>2 DEF ChunkFailed, c
    <3>2. s \in Seq(Result) /\ Len(s) = Names(c) /\ \A i \in 1..Names(c) : s[i] = Null
      BY <1>4, NullTyped
    <3>3. QED
      <4> HIDE DEF s
      <4> QED BY <3>1, <3>2 DEF Answers
  <2>3. QED
    BY <2>1, <2>2
<1>6. /\ chunkResults' = [chunkResults EXCEPT ![c] = s] /\ workers' = [workers EXCEPT ![w] = 0]
      /\ UNCHANGED <<asked, next, result>> /\ s \in Seq(Result)
  BY <1>5 DEF Store, Answers
<1>7. /\ workers' \in [1..many -> Over..Chunks] /\ DOMAIN workers' = DOMAIN workers
      /\ \A v \in DOMAIN workers : workers'[v] = IF v = w THEN 0 ELSE workers[v]
  <2> HIDE DEF many, c
  <2>1. 0 \in Over..Chunks
    BY <1>2 DEF Over
  <2> QED BY <1>2, <1>6, <2>1
<1>8. /\ chunkResults' \in [1..Chunks -> Seq(Result)]
      /\ \A d \in 1..Chunks : chunkResults'[d] = IF d = c THEN s ELSE chunkResults[d]
  <2> HIDE DEF many, c
  <2> QED BY <1>1, <1>3, <1>6 DEF ChunksAccounted
<1>9. ClassifyTypeOK'
  <2> HIDE DEF c, many
  <2>1. \A u, v \in DOMAIN workers' : workers'[u] = workers'[v] /\ workers'[u] > 0 => u = v
    <3>1. \A u, v \in DOMAIN workers : workers[u] = workers[v] /\ workers[u] > 0 => u = v
      BY <1>1 DEF ClassifyTypeOK
    <3>2. QED
      BY <1>7, <3>1
  <2>2. \A d \in 1..Chunks : chunkResults'[d] \in Seq(Result)
    BY <1>8
  <2>3. result.answers \in Seq(Result) /\ result.failed \in 0..Lines
    BY <1>1 DEF ClassifyTypeOK, Result
  <2>4. QED
    BY <1>2, <1>6, <1>7, <2>1, <2>2, <2>3 DEF ClassifyTypeOK, Result, many
<1>10. ChunksAccounted'
  <2> HIDE DEF many, c
  <2>1. \A v \in DOMAIN workers' : workers'[v] <= next' /\ (workers'[v] = Over => next' = Chunks)
    <3>1. 0 <= next /\ 0 # Over
      BY <1>2 DEF Over
    <3>2. QED
      BY <1>1, <1>6, <1>7, <3>1 DEF ChunksAccounted
  <2>2. ASSUME NEW d \in 1..Chunks, d <= next PROVE Held(d)' \/ Answers(chunkResults[d], d)'
    <3>1. CASE d = c
      <4>1. chunkResults'[d] = s
        BY <1>8, <3>1
      <4>2. Answers(chunkResults[d], d)'
        BY <1>5, <3>1, <4>1 DEF Answers
      <4>3. QED
        BY <4>2
    <3>2. CASE d # c
      <4>1. chunkResults'[d] = chunkResults[d] /\ (Held(d) \/ Answers(chunkResults[d], d))
        BY <1>1, <1>8, <2>2, <3>2 DEF ChunksAccounted
      <4>2. Held(d) => Held(d)'
        BY <1>7, <3>2 DEF Held, c
      <4>3. Answers(chunkResults[d], d) => Answers(chunkResults[d], d)'
        BY <4>1 DEF Answers
      <4>4. QED
        BY <4>1, <4>2, <4>3
    <3>3. QED
      BY <3>1, <3>2
  <2>3. QED
    BY <1>6, <1>8, <2>1, <2>2 DEF ChunksAccounted
<1>11. QED
  BY <1>1, <1>6, <1>9, <1>10 DEF ClassifyInv, Asked, ClassifiedInOrder, MatchesOffered, Classifying

\* A line of a chunk that comes after full ones has its own place in it.
LEMMA PlaceInChunk == \A B \in Nat \ {0}, i \in Nat : \A j \in 0..B-1 : (i * B + j) % B = j
  OBVIOUS

\* Every line of index k - 1 in the invoice is at (k - 1) % BatchSize in its chunk.
InPlace(s) == \A k \in 1..Len(s) : s[k] # Null => s[k].index = (k - 1) % BatchSize

\* Another chunk's answers after those of full chunks.
LEMMA ChunkJoined ==
    ASSUME NEW i \in Nat, NEW n, n = i * BatchSize, NEW c \in 1..Chunks,
           NEW s \in Seq(Result), NEW t, Answers(t, c), Len(s) = n, InPlace(s)
    PROVE  InPlace(s \o t) /\ Len(s \o t) = n + Names(c)
<1>1. BatchSize \in Nat \ {0} /\ Names(c) \in 1..BatchSize /\ t \in Seq(Result) /\ Len(t) = Names(c)
  BY ClassifyConstants, ChunkSizes DEF Answers
<1>2. n \in Nat
  BY <1>1
<1>3. ASSUME NEW k \in 1..n + Names(c), (s \o t)[k] # Null PROVE (s \o t)[k].index = (k - 1) % BatchSize
  <2>1. CASE k <= n
    <3>1. k \in 1..Len(s) /\ (s \o t)[k] = s[k]
      BY <1>1, <1>2, <2>1
    <3>2. QED
      BY <1>3, <3>1 DEF InPlace
  <2>2. CASE k > n
    <3> DEFINE j == k - n
    <3>1. j \in 1..Names(c) /\ (s \o t)[k] = t[j] /\ j - 1 \in 0..BatchSize - 1 /\ k - 1 = n + (j - 1)
      BY <1>1, <1>2, <2>2
    <3>2. t[j].index = j - 1
      <4> HIDE DEF j
      <4> QED BY <1>3, <3>1 DEF Answers
    <3>3. (n + (j - 1)) % BatchSize = j - 1
      <4> HIDE DEF j
      <4> QED BY <1>1, <3>1, PlaceInChunk
    <3>4. QED
      <4> HIDE DEF j
      <4> QED BY <3>1, <3>2, <3>3
  <2>3. QED
    <3>1. k <= n \/ k > n
      BY <1>1, <1>2
    <3>2. QED
      BY <2>1, <2>2, <3>1
<1>4. Len(s \o t) = n + Names(c)
  BY <1>1, <1>2
<1>5. QED
  BY <1>3, <1>4 DEF InPlace

LEMMA AnswersInOrder ==
    ASSUME NEW ss \in [1..Chunks -> Seq(Result)], \A c \in 1..Chunks : Answers(ss[c], c)
    PROVE  FlattenSeq(ss) \in Seq(Result) /\ Len(FlattenSeq(ss)) = Lines /\ InPlace(FlattenSeq(ss))
<1>1. Chunks \in Nat /\ Chunks > 0 /\ BatchSize \in Nat \ {0}
  BY ChunkSizes, ClassifyConstants
<1>2. ss \in Seq(Seq(Result)) /\ Len(ss) = Chunks
  BY <1>1
<1>3. PICK f : Joins(f, ss, Result)
  BY <1>1, <1>2, Joined
<1>4. /\ f \in [1..Chunks -> Seq(Result)] /\ f[1] = ss[1] /\ FlattenSeq(ss) = f[Chunks]
      /\ \A c \in 1..Chunks : c + 1 \in 1..Chunks => f[c + 1] = f[c] \o ss[c + 1]
  BY <1>2, <1>3 DEF Joins
<1> DEFINE Good(c) == InPlace(f[c]) /\ Len(f[c]) = (c - 1) * BatchSize + Names(c)
           good == {i \in Nat : i + 1 <= Chunks => Good(i + 1)}
<1>5. Good(1)
  <2>1. Answers(ss[1], 1) /\ 1 \in 1..Chunks
    BY <1>1
  <2>2. <<>> \in Seq(Result) /\ Len(<<>>) = 0 /\ 0 = 0 * BatchSize /\ InPlace(<<>>) /\ 0 \in Nat
    BY <1>1 DEF InPlace
  <2>3. InPlace(<<>> \o ss[1]) /\ Len(<<>> \o ss[1]) = 0 + Names(1)
    <3> DEFINE t == ss[1]
               s == <<>>
               n == 0
               d == 1
    <3>1. /\ n = n * BatchSize /\ n \in Nat /\ d \in 1..Chunks /\ Answers(t, d)
          /\ s \in Seq(Result) /\ Len(s) = n /\ InPlace(s)
      BY <2>1, <2>2
    <3> HIDE DEF t, s, n, d
    <3>2. InPlace(s \o t) /\ Len(s \o t) = n + Names(d)
      BY <3>1, ChunkJoined
    <3>3. QED
      BY <3>2 DEF t, s, n, d
  <2>4. <<>> \o ss[1] = ss[1] /\ 1 - 1 = 0
    BY <2>1 DEF Answers
  <2>5. 0 * BatchSize + Names(1) = 0 + Names(1)
    BY <1>1, <1>2, ChunkSizes
  <2>6. f[1] = ss[1]
    BY <1>4
  <2>7. InPlace(f[1]) /\ Len(f[1]) = 0 + Names(1)
    BY <2>3, <2>4, <2>6
  <2>8. QED
    BY <2>5, <2>7
<1>6. ASSUME NEW i \in Nat, i \in good PROVE i + 1 \in good
  <2> SUFFICES ASSUME (i + 1) + 1 <= Chunks PROVE Good((i + 1) + 1)
    OBVIOUS
  <2> DEFINE c == i + 1
  <2>1. c \in 1..Chunks /\ c + 1 \in 1..Chunks /\ c < Chunks /\ c \in Nat /\ c <= Chunks /\ (c + 1) - 1 = c
    BY <1>1
  <2>2. Good(c)
    BY <1>6, <2>1
  <2> HIDE DEF c
  <2>3. Names(c) = BatchSize
    BY <2>1, ChunkSizes
  <2>4. (c - 1) * BatchSize + BatchSize = c * BatchSize
    BY <1>1, <2>1
  <2>5. f[c] \in Seq(Result) /\ Len(f[c]) = c * BatchSize /\ InPlace(f[c]) /\ f[c + 1] = f[c] \o ss[c + 1]
    BY <1>4, <2>1, <2>2, <2>3, <2>4
  <2>6. InPlace(f[c + 1]) /\ Len(f[c + 1]) = c * BatchSize + Names(c + 1)
    <3> DEFINE n == c * BatchSize
               t == ss[c + 1]
               s == f[c]
               d == c + 1
    <3>1. /\ n = c * BatchSize /\ Answers(t, d) /\ d \in 1..Chunks
          /\ s \in Seq(Result) /\ Len(s) = n /\ InPlace(s)
      BY <2>1, <2>5
    <3> HIDE DEF n, t, s, d
    <3>2. InPlace(s \o t) /\ Len(s \o t) = n + Names(d)
      BY <2>1, <3>1, ChunkJoined
    <3>3. QED
      BY <2>5, <3>2 DEF n, t, s, d
  <2>7. Good(c + 1)
    BY <2>1, <2>6
  <2>8. QED
    BY <2>7 DEF c
<1>7. 0 \in good
  BY <1>5
<1>8. Good(Chunks)
  <2>1. Nat \subseteq good
    <3> HIDE DEF good
    <3> QED BY <1>6, <1>7, InductiveSet
  <2>2. Chunks - 1 \in Nat /\ (Chunks - 1) + 1 = Chunks /\ Chunks <= Chunks
    BY <1>1
  <2>3. Chunks - 1 \in good
    <3> HIDE DEF good
    <3> QED BY <2>1, <2>2
  <2>4. QED
    BY <2>2, <2>3
<1>9. (Chunks - 1) * BatchSize + Names(Chunks) = Lines /\ Chunks \in 1..Chunks
  BY <1>1, ChunkSizes
<1>10. QED
  BY <1>4, <1>8, <1>9

LEMMA ClassifiedStep == ClassifyInv /\ Classified => ClassifyInv'
<1> SUFFICES ASSUME ClassifyInv, Classified PROVE ClassifyInv'
  OBVIOUS
<1>1. /\ Asked /\ ClassifyTypeOK /\ ChunksAccounted /\ Classifying
      /\ UNCHANGED <<asked, next, workers, chunkResults>>
  BY DEF ClassifyInv, Classified
<1> DEFINE many == Min2(Workers, Chunks)
           flat == FlattenSeq(chunkResults)
           without == {k \in 1..Len(flat) : flat[k] = Null}
<1>2. /\ Chunks \in Nat /\ Chunks > 0 /\ many \in Nat /\ many > 0 /\ workers \in [1..many -> Over..Chunks]
      /\ Lines \in Nat
  BY <1>1, ChunkSizes, ClassifyConstants DEF ClassifyTypeOK
<1>3. \A w \in DOMAIN workers : workers[w] = Over
  BY DEF Classified
<1>4. next = Chunks
  <2> HIDE DEF many
  <2>1. 1 \in DOMAIN workers
    BY <1>2
  <2>2. QED
    BY <1>1, <1>3, <2>1 DEF ChunksAccounted
<1>5. \A c \in 1..Chunks : Answers(chunkResults[c], c)
  <2>1. ASSUME NEW c \in 1..Chunks PROVE ~Held(c) /\ c <= next
    BY <1>2, <1>3, <1>4 DEF Held, Over
  <2>2. QED
    BY <1>1, <2>1 DEF ChunksAccounted
<1>6. chunkResults \in [1..Chunks -> Seq(Result)]
  BY <1>1 DEF ChunksAccounted
<1>7. flat \in Seq(Result) /\ Len(flat) = Lines /\ InPlace(flat)
  BY <1>5, <1>6, AnswersInOrder
<1>8. result' = [answers |-> flat, failed |-> Cardinality(without)]
  BY DEF Classified
<1> HIDE DEF flat
<1>9. Cardinality(without) \in 0..Lines
  <2>1. IsFiniteSet(1..Lines) /\ Cardinality(1..Lines) = Lines
    <3>1. 1 \in Int /\ Lines \in Int
      BY <1>2
    <3>2. IsFiniteSet(1..Lines) /\ Cardinality(1..Lines) = IF 1 > Lines THEN 0 ELSE Lines - 1 + 1
      BY <3>1, FS_Interval, Zenon
    <3>3. QED
      BY <1>2, <3>2
  <2>2. without \in SUBSET (1..Lines)
    BY <1>7
  <2> HIDE DEF without
  <2>3. IsFiniteSet(without) /\ Cardinality(without) <= Lines
    BY <2>1, <2>2, FS_Subset
  <2>4. Cardinality(without) \in Nat
    BY <2>3, FS_CardinalityType
  <2>5. QED
    BY <1>2, <2>3, <2>4
<1>10. ClassifyTypeOK'
  <2> HIDE DEF without
  <2>1. result'.answers \in Seq(Result) /\ result'.failed \in 0..Lines
    BY <1>7, <1>8, <1>9
  <2>2. QED
    BY <1>1, <2>1 DEF ClassifyTypeOK, Result
<1>11. ChunksAccounted'
  <2>1. \A c \in 1..Chunks : Answers(chunkResults[c], c)'
    BY <1>1, <1>5 DEF Answers
  <2>2. QED
    BY <1>1, <2>1 DEF ChunksAccounted
<1>12. ClassifiedInOrder'
  <2>1. without = {k \in 1..Lines : flat[k] = Null}
    BY <1>7
  <2>2. QED
    <3> HIDE DEF without
    <3>1. result'.answers = flat /\ result'.failed = Cardinality(without)
      BY <1>8
    <3>2. \A k \in 1..Lines : flat[k] # Null => flat[k].index = (k - 1) % BatchSize
      BY <1>7 DEF InPlace
    <3>3. QED
      BY <1>7, <2>1, <3>1, <3>2 DEF ClassifiedInOrder
<1>13. MatchesOffered' /\ Asked'
  BY <1>1 DEF MatchesOffered, Asked, Classifying
<1>14. QED
  BY <1>10, <1>11, <1>12, <1>13 DEF ClassifyInv

\* A set of numbers up to a bound has a greatest.
LEMMA GreatestIn ==
    ASSUME NEW n \in Nat, NEW S \in SUBSET (0..n), S # {}
    PROVE  Max(S) \in S /\ \A x \in S : x <= Max(S)
<1> DEFINE left == {n - x : x \in S}
<1>1. left \in SUBSET Nat /\ left # {}
  <2>1. \A x \in S : n - x \in Nat
    OBVIOUS
  <2>2. QED
    BY <2>1
<1>2. PICK y \in left : \A z \in left : y <= z
  <2> HIDE DEF left
  <2> QED BY <1>1, LeastNat
<1>3. PICK x \in S : y = n - x
  OBVIOUS
<1>4. \A z \in S : x >= z
  <2> SUFFICES ASSUME NEW z \in S PROVE x >= z
    OBVIOUS
  <2>1. n - z \in left
    OBVIOUS
  <2>2. n - x <= n - z
    BY <1>2, <1>3, <2>1
  <2>3. x \in Int /\ z \in Int /\ n \in Int
    OBVIOUS
  <2>4. QED
    BY <2>2, <2>3
<1>5. Max(S) \in S /\ \A z \in S : Max(S) >= z
  BY <1>4 DEF Max
<1>6. QED
  BY <1>5

LEMMA MatchOffered ==
    ASSUME NEW reply \in MatchReply, NEW l \in 1..Lines
    PROVE  /\ MatchOf(reply, l) \in Result
           /\ MatchOf(reply, l) # Null => MatchOf(reply, l).index \in selectMatchCandidates
<1> DEFINE offered == selectMatchCandidates
           places == {p \in 1..Len(reply) : reply[p].line = l - 1 /\ reply[p].item \in offered}
<1>1. PICK m \in 0..MaxReply : reply \in [1..m -> [line : 0..Lines, item : Item]]
  BY DEF MatchReply, SeqOf
<1>2. m \in Nat /\ Stock \in Nat
  BY ClassifyConstants
<1>3. MatchOf(reply, l) = IF places = {} THEN Null ELSE [index |-> reply[Max(places)].item, place |-> Max(places)]
  BY DEF MatchOf
<1> HIDE DEF offered
<1>4. places \in SUBSET (0..m)
  BY <1>1, <1>2
<1>5. places # {} => Max(places) \in places
  <2> HIDE DEF places
  <2> QED BY <1>2, <1>4, GreatestIn
<1>6. places # {} => Max(places) \in Nat /\ reply[Max(places)].item \in offered /\ reply[Max(places)].item \in Int
  <2> SUFFICES ASSUME places # {} PROVE Max(places) \in Nat /\ reply[Max(places)].item \in offered /\ reply[Max(places)].item \in Int
    OBVIOUS
  <2>1. Max(places) \in 1..m /\ reply[Max(places)].item \in offered
    BY <1>1, <1>2, <1>5
  <2>2. reply[Max(places)] \in [line : 0..Lines, item : Item]
    <3> HIDE DEF places
    <3> QED BY <1>1, <2>1
  <2>3. QED
    <3> HIDE DEF places
    <3> QED BY <1>2, <2>1, <2>2 DEF Item
<1>7. QED
  <2> HIDE DEF places
  <2>1. CASE places = {}
    BY <1>3, <2>1, NullTyped
  <2>2. CASE places # {}
    BY <1>3, <1>6, <2>2 DEF Result, offered
  <2>3. QED
    BY <2>1, <2>2

LEMMA MatchedStep == ClassifyInv /\ Matched => ClassifyInv'
<1> SUFFICES ASSUME ClassifyInv, Matched PROVE ClassifyInv'
  OBVIOUS
<1>1. /\ Asked /\ ClassifyTypeOK /\ ChunksAccounted /\ ~Classifying
      /\ UNCHANGED <<asked, next, workers, chunkResults>> /\ Lines \in Nat
  BY ClassifyConstants DEF ClassifyInv, Matched
<1>2. selectMatchCandidates' = selectMatchCandidates
  BY <1>1 DEF selectMatchCandidates, Chosen, RoundRobin, Round
<1> DEFINE Good(a) == a \in Seq(Result) /\ \A l \in DOMAIN a : a[l] # Null => a[l].index \in selectMatchCandidates
<1>3. Good(result'.answers) /\ result'.failed \in 0..Lines
  <2>1. CASE \E reply \in MatchReply : result' = [answers |-> [l \in 1..Lines |-> MatchOf(reply, l)], failed |-> 0]
    <3>1. PICK reply \in MatchReply : result' = [answers |-> [l \in 1..Lines |-> MatchOf(reply, l)], failed |-> 0]
      BY <2>1
    <3> DEFINE a == [l \in 1..Lines |-> MatchOf(reply, l)]
    <3>2. \A l \in 1..Lines : a[l] \in Result /\ (a[l] # Null => a[l].index \in selectMatchCandidates)
      BY MatchOffered
    <3>3. DOMAIN a = 1..Lines /\ a \in Seq(Result)
      BY <1>1, <3>2
    <3>4. Good(a)
      <4> HIDE DEF a
      <4> QED BY <3>2, <3>3
    <3>5. QED
      <4> HIDE DEF a, Good
      <4>1. result'.answers = a /\ result'.failed = 0
        BY <3>1 DEF a
      <4> QED BY <1>1, <3>4, <4>1
  <2>2. CASE result' = [answers |-> [l \in 1..Lines |-> Null], failed |-> Lines]
    <3> DEFINE a == [l \in 1..Lines |-> Null]
    <3>1. a \in Seq(Result) /\ \A l \in DOMAIN a : a[l] = Null
      BY <1>1, NullTyped
    <3>2. Good(a)
      <4> HIDE DEF a
      <4> QED BY <3>1
    <3>3. QED
      <4> HIDE DEF a, Good
      <4>1. result'.answers = a /\ result'.failed = Lines
        BY <2>2 DEF a
      <4> QED BY <1>1, <3>2, <4>1
  <2>3. QED
    BY <2>1, <2>2 DEF Matched
<1>4. ClassifyTypeOK'
  BY <1>1, <1>3 DEF ClassifyTypeOK, Result
<1>5. ChunksAccounted'
  BY <1>1 DEF ChunksAccounted, Answers, Held
<1>6. ClassifiedInOrder' /\ Asked'
  BY <1>1 DEF ClassifiedInOrder, Asked, Classifying
<1>7. MatchesOffered'
  BY <1>2, <1>3 DEF MatchesOffered
<1>8. QED
  BY <1>4, <1>5, <1>6, <1>7 DEF ClassifyInv

LEMMA ClassifyNextInv == ClassifyInv /\ ClassifyNext => ClassifyInv'
  BY TakeStep, StoreStep, ClassifiedStep, MatchedStep DEF ClassifyNext

LEMMA ClassifyStutter == ClassifyInv /\ UNCHANGED classifyVars => ClassifyInv'
<1> SUFFICES ASSUME ClassifyInv, UNCHANGED classifyVars PROVE ClassifyInv'
  OBVIOUS
<1>1. UNCHANGED <<asked, next, workers, chunkResults, result>>
  BY DEF classifyVars
<1>2. selectMatchCandidates' = selectMatchCandidates
  BY <1>1 DEF selectMatchCandidates, Chosen, RoundRobin, Round
<1>3. ClassifyTypeOK' /\ Asked' /\ ClassifiedInOrder'
  BY <1>1 DEF ClassifyInv, ClassifyTypeOK, Asked, ClassifiedInOrder, Classifying
<1>4. ChunksAccounted' /\ MatchesOffered'
  BY <1>1, <1>2 DEF ClassifyInv, ChunksAccounted, MatchesOffered, Answers, Held, Classifying
<1>5. QED
  BY <1>3, <1>4 DEF ClassifyInv

\* As many distinct items as fit.
LEMMA ImageSmall ==
    ASSUME NEW order, NEW i \in Nat
    PROVE  /\ IsFiniteSet({order[j] : j \in 1..i}) /\ Cardinality({order[j] : j \in 1..i}) \in Nat
           /\ Cardinality({order[j] : j \in 1..i}) <= i
<1> DEFINE image == {order[j] : j \in 1..i}
           f == [j \in 1..i |-> order[j]]
<1>1. IsFiniteSet(1..i) /\ Cardinality(1..i) = i
  <2>1. 1 \in Int /\ i \in Int
    OBVIOUS
  <2>2. IsFiniteSet(1..i) /\ Cardinality(1..i) = IF 1 > i THEN 0 ELSE i - 1 + 1
    BY <2>1, FS_Interval, Zenon
  <2>3. QED
    BY <2>2
<1>2. f \in Surjection(1..i, image)
  BY DEF Surjection
<1> HIDE DEF f, image
<1>3. IsFiniteSet(image) /\ Cardinality(image) <= Cardinality(1..i)
  BY <1>1, <1>2, FS_Surjection
<1>4. Cardinality(image) \in Nat
  BY <1>3, FS_CardinalityType
<1>5. QED
  BY <1>1, <1>3, <1>4 DEF image

LEMMA ChosenBounded ==
    ASSUME NEW order, Len(order) \in Nat
    PROVE  Cardinality(Chosen(order)) <= MatchMax
<1> DEFINE Image(i) == {order[j] : j \in 1..i}
           fits == {i \in 1..Len(order) : Cardinality(Image(i)) <= MatchMax}
<1>1. Chosen(order) = {order[i] : i \in fits}
  BY DEF Chosen
<1>2. fits \in SUBSET (0..Len(order))
  OBVIOUS
<1>3. CASE fits = {}
  <2>1. Chosen(order) = {}
    BY <1>1, <1>3
  <2>2. QED
    BY <2>1, FS_EmptySet, ClassifyConstants
<1>4. CASE fits # {}
  <2> DEFINE m == Max(fits)
  <2>1. m \in fits /\ \A x \in fits : x <= m
    <3> HIDE DEF fits
    <3> QED BY <1>2, <1>4, GreatestIn
  <2> HIDE DEF m
  <2>2. m \in 1..Len(order) /\ Cardinality(Image(m)) <= MatchMax /\ m \in Nat
    BY <2>1
  <2>3. Chosen(order) \in SUBSET Image(m)
    <3>1. fits \in SUBSET (1..m)
      BY <2>1, <2>2
    <3>2. QED
      <4> HIDE DEF fits
      <4> QED BY <1>1, <3>1
  <2>4. IsFiniteSet(Image(m)) /\ Cardinality(Image(m)) \in Nat
    BY <2>2, ImageSmall
  <2> HIDE DEF Image
  <2>5. Cardinality(Chosen(order)) <= Cardinality(Image(m)) /\ IsFiniteSet(Chosen(order))
    BY <2>3, <2>4, FS_Subset
  <2>6. Cardinality(Chosen(order)) \in Nat
    BY <2>5, FS_CardinalityType
  <2>7. QED
    BY <2>2, <2>4, <2>5, <2>6, ClassifyConstants
<1>5. QED
  BY <1>3, <1>4

LEMMA FirstChosen ==
    ASSUME NEW order, Len(order) \in Nat, NEW i \in 1..Len(order), i <= MatchMax
    PROVE  order[i] \in Chosen(order)
<1>1. i \in Nat
  OBVIOUS
<1>2. Cardinality({order[j] : j \in 1..i}) \in Nat /\ Cardinality({order[j] : j \in 1..i}) <= i
  BY <1>1, ImageSmall
<1>3. Cardinality({order[j] : j \in 1..i}) <= MatchMax
  BY <1>1, <1>2, ClassifyConstants
<1>4. QED
  BY <1>3 DEF Chosen

\* The part of a round that is one line's.
Turn(r, l) == IF r <= Len(asked[l]) THEN <<asked[l][r]>> ELSE <<>>

LEMMA Turns ==
    ASSUME Asked, ~Classifying, NEW r \in 1..Stock, NEW l \in 1..Lines
    PROVE  /\ Turn(r, l) \in Seq(Item) /\ Len(Turn(r, l)) <= 1
           /\ r = 1 /\ asked[l] # <<>> => Turn(r, l) = <<asked[l][1]>>
<1>1. asked[l] \in Seq(Item)
  BY ClassifyAssumption DEF Asked, Classifying, Item
<1>2. Len(asked[l]) \in Nat /\ (asked[l] # <<>> => 1 <= Len(asked[l]))
  BY <1>1
<1>3. r <= Len(asked[l]) => asked[l][r] \in Item
  BY <1>1, <1>2, ClassifyConstants
<1>4. Turn(r, l) \in Seq(Item) /\ Len(Turn(r, l)) <= 1
  BY <1>3 DEF Turn
<1>5. r = 1 /\ asked[l] # <<>> => Turn(r, l) = <<asked[l][1]>>
  BY <1>2 DEF Turn
<1>6. QED
  BY <1>4, <1>5

\* The first round: every line's best, no more than one for each line.
Round1(s, n) ==
    /\ Len(s) <= n
    /\ \A l \in 1..n : asked[l] # <<>> => \E k \in 1..Len(s) : s[k] = asked[l][1]

LEMMA Rounds ==
    ASSUME Asked, ~Classifying, NEW r \in 1..Stock
    PROVE  Round(r) \in Seq(Item) /\ (r = 1 => Round1(Round(r), Lines))
<1> DEFINE ss == [l \in 1..Lines |-> Turn(r, l)]
<1>1. Lines \in Nat /\ Lines > 0
  BY ClassifyConstants
<1>2. \A l \in 1..Lines : ss[l] \in Seq(Item) /\ Len(ss[l]) <= 1 /\ (r = 1 /\ asked[l] # <<>> => ss[l] = <<asked[l][1]>>)
  BY Turns
<1>3. Round(r) = FlattenSeq(ss)
  BY DEF Round, Turn
<1>4. ss \in Seq(Seq(Item)) /\ Len(ss) = Lines
  <2>1. ss \in [1..Lines -> Seq(Item)]
    BY <1>2
  <2> HIDE DEF ss
  <2>2. QED
    BY <1>1, <2>1
<1> HIDE DEF ss
<1>5. PICK f : Joins(f, ss, Item)
  BY <1>1, <1>4, Joined
<1>6. /\ f \in [1..Lines -> Seq(Item)] /\ f[1] = ss[1] /\ Round(r) = f[Lines]
      /\ \A c \in 1..Lines : c + 1 \in 1..Lines => f[c + 1] = f[c] \o ss[c + 1]
  BY <1>3, <1>4, <1>5 DEF Joins
<1>7. ASSUME r = 1 PROVE Round1(f[Lines], Lines)
  <2> DEFINE good == {i \in Nat : i + 1 <= Lines => Round1(f[i + 1], i + 1)}
  <2>1. 0 \in good
    <3>1. 1 \in 1..Lines /\ f[1] \in Seq(Item) /\ Len(f[1]) <= 1
      BY <1>1, <1>2, <1>6
    <3>2. asked[1] # <<>> => f[1][1] = asked[1][1] /\ Len(f[1]) = 1
      <4>1. asked[1] # <<>> => ss[1] = <<asked[1][1]>>
        BY <1>2, <1>7, <3>1
      <4>2. \A x : Len(<<x>>) = 1 /\ <<x>>[1] = x
        OBVIOUS
      <4>3. f[1] = ss[1]
        BY <1>6
      <4>4. QED
        BY <4>1, <4>2, <4>3, Zenon
    <3>3. Round1(f[1], 1)
      BY <3>1, <3>2 DEF Round1
    <3>4. QED
      BY <3>3
  <2>2. ASSUME NEW i \in Nat, i \in good PROVE i + 1 \in good
    <3> SUFFICES ASSUME (i + 1) + 1 <= Lines PROVE Round1(f[(i + 1) + 1], (i + 1) + 1)
      OBVIOUS
    <3> DEFINE c == i + 1
               t == ss[c + 1]
               s == f[c]
    <3>1. c \in 1..Lines /\ c + 1 \in 1..Lines /\ c \in Nat /\ Round1(f[c], c)
      BY <1>1, <2>2
    <3> HIDE DEF c
    <3>2. /\ s \in Seq(Item) /\ f[c + 1] = s \o t /\ Round1(s, c)
          /\ t \in Seq(Item) /\ Len(t) <= 1 /\ (asked[c + 1] # <<>> => t = <<asked[c + 1][1]>>)
      BY <1>2, <1>6, <1>7, <3>1
    <3> HIDE DEF t, s
    <3>3. Len(s \o t) = Len(s) + Len(t) /\ Len(s \o t) <= c + 1
      BY <3>1, <3>2 DEF Round1
    <3>4. ASSUME NEW l \in 1..c + 1, asked[l] # <<>> PROVE \E k \in 1..Len(s \o t) : (s \o t)[k] = asked[l][1]
      <4>1. CASE l \in 1..c
        <5>1. PICK k \in 1..Len(s) : s[k] = asked[l][1]
          BY <3>2, <3>4, <4>1 DEF Round1
        <5>2. k \in 1..Len(s \o t) /\ (s \o t)[k] = s[k]
          BY <3>2, <3>3
        <5>3. QED
          BY <5>1, <5>2
      <4>2. CASE l = c + 1
        <5>1. Len(t) = 1 /\ t[1] = asked[l][1]
          BY <3>2, <3>4, <4>2
        <5>2. Len(s) + 1 \in 1..Len(s \o t) /\ (s \o t)[Len(s) + 1] = t[1]
          BY <3>2, <3>3, <5>1
        <5>3. QED
          BY <5>1, <5>2
      <4>3. QED
        BY <3>1, <4>1, <4>2
    <3>5. Round1(f[c + 1], c + 1)
      BY <3>2, <3>3, <3>4 DEF Round1
    <3>6. QED
      BY <3>5 DEF c
  <2>3. Nat \subseteq good
    <3> HIDE DEF good
    <3> QED BY <2>1, <2>2, InductiveSet
  <2>4. Lines - 1 \in Nat /\ (Lines - 1) + 1 = Lines /\ Lines <= Lines
    BY <1>1
  <2>5. Lines - 1 \in good
    <3> HIDE DEF good
    <3> QED BY <2>3, <2>4
  <2>6. QED
    BY <2>4, <2>5
<1>8. Lines \in 1..Lines
  BY <1>1
<1>9. QED
  BY <1>6, <1>7, <1>8

\* The rounds begin with the first.
LEMMA RoundsBegin ==
    ASSUME Asked, ~Classifying
    PROVE  /\ RoundRobin \in Seq(Item)
           /\ \A k \in 1..Len(Round(1)) : k \in 1..Len(RoundRobin) /\ RoundRobin[k] = Round(1)[k]
<1> DEFINE ss == [r \in 1..Stock |-> Round(r)]
<1>1. Stock \in Nat /\ Stock > 0 /\ 1 \in 1..Stock
  BY ClassifyConstants
<1>2. \A r \in 1..Stock : ss[r] \in Seq(Item)
  BY Rounds
<1>3. RoundRobin = FlattenSeq(ss) /\ ss[1] = Round(1)
  BY <1>1 DEF RoundRobin
<1>4. ss \in Seq(Seq(Item)) /\ Len(ss) = Stock
  <2>1. ss \in [1..Stock -> Seq(Item)]
    BY <1>2
  <2> HIDE DEF ss
  <2>2. QED
    BY <1>1, <2>1
<1> HIDE DEF ss
<1>5. PICK f : Joins(f, ss, Item)
  BY <1>1, <1>4, Joined
<1>6. /\ f \in [1..Stock -> Seq(Item)] /\ f[1] = Round(1) /\ RoundRobin = f[Stock]
      /\ \A c \in 1..Stock : c + 1 \in 1..Stock => f[c + 1] = f[c] \o ss[c + 1]
  BY <1>3, <1>4, <1>5 DEF Joins
<1>7. Round(1) \in Seq(Item)
  BY <1>1, <1>6
<1> DEFINE Begins(s) == \A k \in 1..Len(Round(1)) : k \in 1..Len(s) /\ s[k] = Round(1)[k]
           good == {i \in Nat : i + 1 <= Stock => Begins(f[i + 1])}
<1>8. 0 \in good
  BY <1>6
<1>9. ASSUME NEW i \in Nat, i \in good PROVE i + 1 \in good
  <2> SUFFICES ASSUME (i + 1) + 1 <= Stock PROVE Begins(f[(i + 1) + 1])
    OBVIOUS
  <2> DEFINE c == i + 1
             s == f[c]
             t == ss[c + 1]
  <2>1. c \in 1..Stock /\ c + 1 \in 1..Stock /\ Begins(s)
    BY <1>1, <1>9
  <2> HIDE DEF c
  <2>2. s \in Seq(Item) /\ t \in Seq(Item) /\ f[c + 1] = s \o t
    BY <1>2, <1>6, <2>1
  <2> HIDE DEF s, t
  <2>3. \A k \in 1..Len(s) : k \in 1..Len(s \o t) /\ (s \o t)[k] = s[k]
    BY <2>2
  <2>4. Begins(f[c + 1])
    BY <2>1, <2>2, <2>3
  <2>5. QED
    BY <2>4 DEF c
<1>10. Nat \subseteq good
  <2> HIDE DEF good
  <2> QED BY <1>8, <1>9, InductiveSet
<1>11. Stock - 1 \in Nat /\ (Stock - 1) + 1 = Stock /\ Stock <= Stock
  BY <1>1
<1>12. Stock - 1 \in good
  <2> HIDE DEF good
  <2> QED BY <1>10, <1>11
<1>13. Begins(f[Stock])
  BY <1>11, <1>12
<1>14. RoundRobin \in Seq(Item)
  BY <1>1, <1>6
<1>15. QED
  <2> HIDE DEF Begins
  <2>1. Begins(RoundRobin)
    BY <1>6, <1>13
  <2>2. QED
    BY <1>14, <2>1 DEF Begins

LEMMA BestOffered ==
    ASSUME Asked, ~Classifying, Lines <= MatchMax, NEW l \in 1..Lines, asked[l] # <<>>
    PROVE  asked[l][1] \in Chosen(RoundRobin)
<1>1. 1 \in 1..Stock /\ Lines \in Nat /\ MatchMax \in Nat
  BY ClassifyConstants
<1>2. Round(1) \in Seq(Item) /\ Round1(Round(1), Lines)
  BY <1>1, Rounds
<1>3. PICK k \in 1..Len(Round(1)) : Round(1)[k] = asked[l][1]
  BY <1>2 DEF Round1
<1>4. k \in 1..Len(RoundRobin) /\ RoundRobin[k] = asked[l][1] /\ Len(RoundRobin) \in Nat
  BY <1>3, RoundsBegin
<1>5. k <= MatchMax
  <2>1. Len(Round(1)) \in Nat /\ Len(Round(1)) <= Lines
    BY <1>2 DEF Round1
  <2>2. QED
    BY <1>1, <2>1
<1>6. QED
  BY <1>4, <1>5, FirstChosen

LEMMA CandidatesAreShared == ClassifyInv => CandidatesShared
<1> SUFFICES ASSUME ClassifyInv, ~Classifying, Stock > MatchMax
             PROVE  /\ Cardinality(selectMatchCandidates) <= MatchMax
                    /\ Lines <= MatchMax => \A l \in 1..Lines : asked[l] # <<>> => asked[l][1] \in selectMatchCandidates
                    /\ \A l \in DOMAIN result.answers : result.answers[l] # Null => result.answers[l].index \in selectMatchCandidates
  BY DEF CandidatesShared
<1>1. selectMatchCandidates = Chosen(RoundRobin)
  BY ClassifyConstants DEF selectMatchCandidates
<1>2. Asked /\ MatchesOffered
  BY DEF ClassifyInv
<1>3. Len(RoundRobin) \in Nat
  <2>1. RoundRobin \in Seq(Item)
    BY <1>2, RoundsBegin
  <2>2. QED
    BY <2>1
<1>4. QED
  BY <1>1, <1>2, <1>3, ChosenBounded, BestOffered DEF MatchesOffered

------------------------------------------------------------------------------
(***************************************************************************)
(* The parsers.                                                            *)
(***************************************************************************)
LEMMA CategoryNamed == \A x \in Physical : x.kind = "category" => x.name \in Label
  BY DEF Physical, WoolworthsLine, ColesLine, Header, Category

\* What the loop of the Coles parser knows after some lines of n.
ColesState(n) == [hint : Hint, stopped : BOOLEAN, found : Seq(Found(n))]
ColesBegins == [hint |-> "none", stopped |-> FALSE, found |-> <<>>]

LEMMA ColesStepTyped ==
    ASSUME NEW lines \in Seq(Physical), NEW k \in 1..Len(lines), NEW st \in ColesState(Len(lines))
    PROVE  ColesStep(lines, st, k) \in ColesState(Len(lines))
<1> DEFINE n == Len(lines)
           x == lines[k]
<1>1. /\ st.hint \in Hint /\ st.stopped \in BOOLEAN /\ st.found \in Seq(Found(n))
      /\ st = [hint |-> st.hint, stopped |-> st.stopped, found |-> st.found]
  BY DEF ColesState
<1>2. x \in Physical /\ n \in Nat
  OBVIOUS
<1>3. [st EXCEPT !.stopped = TRUE] \in ColesState(n)
  BY DEF ColesState
<1>4. \A h \in Hint : [st EXCEPT !.hint = h] \in ColesState(n)
  BY DEF ColesState
<1>5. (IF x.kind = "category" THEN x.name ELSE "a product") \in Hint
  BY <1>2, CategoryNamed DEF Hint
<1>6. [st EXCEPT !.found = Append(@, [from |-> k, hint |-> st.hint])] \in ColesState(n)
  <2>1. [from |-> k, hint |-> st.hint] \in Found(n)
    BY <1>1 DEF Found
  <2>2. Append(st.found, [from |-> k, hint |-> st.hint]) \in Seq(Found(n))
    BY <1>1, <2>1
  <2>3. QED
    BY <1>1, <2>2 DEF ColesState
<1>7. QED
  BY <1>3, <1>4, <1>5, <1>6 DEF ColesStep

\* What parseColes(lines) knows after each line.
ColesRun(lines, st) ==
    /\ st \in [0..Len(lines) -> ColesState(Len(lines))]
    /\ st[0] = ColesBegins
    /\ \A k \in 1..Len(lines) : st[k] = ColesStep(lines, st[k - 1], k)
    /\ parseColes(lines) = st[Len(lines)]

LEMMA ColesRuns ==
    ASSUME NEW lines \in Seq(Physical)
    PROVE  \E st : ColesRun(lines, st)
<1> DEFINE n == Len(lines)
           U == 1..n
           T == ColesState(n)
           indices == [i \in DOMAIN lines |-> i]
           pick == [s \in SUBSET U |-> Max(s)]
           step == [p \in U \X T |-> ColesStep(lines, p[2], p[1])]
           body(it) == [s \in SUBSET U |-> IF s = {} THEN ColesBegins ELSE ColesStep(lines, it[s \ {Max(s)}], Max(s))]
           iter == CHOOSE it : it = body(it)
<1>1. n \in Nat /\ DOMAIN lines = U /\ U \in SUBSET (0..n) /\ IsFiniteSet(U)
  <2>1. 1 \in Int /\ n \in Int
    OBVIOUS
  <2>2. IsFiniteSet(U)
    BY <2>1, FS_Interval
  <2>3. QED
    BY <2>2
<1>2. \A s \in SUBSET U : s # {} => Max(s) \in s
  <2> HIDE DEF U, n
  <2> QED BY <1>1, GreatestIn
<1>3. ColesBegins \in T
  BY DEF ColesState, ColesBegins, Hint
<1>4. \A k \in U, st \in T : ColesStep(lines, st, k) \in T
  BY ColesStepTyped
<1>5. step \in [U \X T -> T] /\ \A k \in U, st \in T : step[<<k, st>>] = ColesStep(lines, st, k)
  <2> HIDE DEF U, T
  <2> QED BY <1>4
<1>6. \A s \in SUBSET U : pick[s] = Max(s)
  OBVIOUS
<1>7. PICK h : Removes(h, U, T, ColesBegins, pick, step)
  <2> HIDE DEF U, T, pick, step
  <2> QED BY <1>1, <1>2, <1>3, <1>5, <1>6, RemovalExists
<1>8. h \in [SUBSET U -> T] /\ \A s \in SUBSET U : h[s] = IF s = {} THEN ColesBegins ELSE step[<<pick[s], h[s \ {pick[s]}]>>]
  <2> HIDE DEF U, T, pick, step
  <2> QED BY <1>7 DEF Removes
<1>9. h = body(h)
  <2>1. ASSUME NEW s \in SUBSET U
        PROVE  h[s] = IF s = {} THEN ColesBegins ELSE ColesStep(lines, h[s \ {Max(s)}], Max(s))
    <3> HIDE DEF U, T, pick, step
    <3>1. s # {} => Max(s) \in U /\ h[s \ {Max(s)}] \in T
      BY <1>2, <1>8
    <3>2. QED
      BY <1>5, <1>6, <1>8, <3>1
  <2>2. h = [s \in SUBSET U |-> h[s]]
    BY <1>8
  <2> HIDE DEF U
  <2>3. QED
    BY <2>1, <2>2
<1>10. iter = body(iter)
  <2> HIDE DEF body
  <2> QED BY <1>9
<1>11. parseColes(lines) = iter[U]
  <2>1. DOMAIN indices = U /\ \A i \in U : indices[i] = i
    BY <1>1
  <2> DEFINE loop(it) == [s \in SUBSET (DOMAIN indices) |-> IF s = {} THEN ColesBegins
                          ELSE ColesStep(lines, it[s \ {Max(s)}], indices[Max(s)])]
  <2>2. \A it : loop(it) = body(it)
    <3> TAKE it
    <3>1. \A s \in SUBSET U : s # {} => indices[Max(s)] = Max(s)
      <4> HIDE DEF indices, U
      <4> QED BY <1>2, <2>1
    <3>2. QED
      <4> HIDE DEF indices, U
      <4> QED BY <2>1, <3>1
  <2>3. parseColes(lines) = (CHOOSE it : it = loop(it))[DOMAIN indices]
    BY DEF parseColes, FoldLeftDomain, FoldLeft, MapThenFoldSet, ColesBegins
  <2>4. (CHOOSE it : it = loop(it)) = iter
    <3> HIDE DEF loop, body
    <3> QED BY <2>2
  <2>5. QED
    BY <2>1, <2>3, <2>4
<1>12. \A s \in SUBSET U : iter[s] = IF s = {} THEN ColesBegins ELSE ColesStep(lines, iter[s \ {Max(s)}], Max(s))
  <2> HIDE DEF iter, U
  <2> QED BY <1>10
<1> HIDE DEF iter
<1> DEFINE Good == {s \in SUBSET U : iter[s] \in T}
<1>13. ASSUME NEW s \in SUBSET U, \A x \in s : s \ {x} \in Good PROVE s \in Good
  <2> HIDE DEF U, T
  <2>1. CASE s = {}
    BY <1>3, <1>12, <2>1
  <2>2. CASE s # {}
    <3>1. Max(s) \in s /\ Max(s) \in U
      BY <1>2, <2>2
    <3>2. iter[s \ {Max(s)}] \in T
      BY <1>13, <3>1
    <3>3. iter[s] \in T
      BY <1>4, <1>12, <2>2, <3>1, <3>2
    <3>4. QED
      BY <3>3
  <2>3. QED
    BY <2>1, <2>2
<1>14. SUBSET U \subseteq Good
  <2> HIDE DEF Good, U, T
  <2>1. IsFiniteSet(U)
    BY <1>1
  <2>2. \A s \in SUBSET U : (\A x \in s : s \ {x} \in Good) => s \in Good
    BY <1>13
  <2>3. QED
    BY <2>1, <2>2, FiniteInduction
<1>15. \A k \in 0..n : 1..k \in SUBSET U /\ iter[1..k] \in T
  <2>1. \A k \in 0..n : 1..k \in SUBSET U
    BY <1>1
  <2> HIDE DEF U, T
  <2>2. QED
    BY <1>14, <2>1
<1>16. \A k \in 1..n : iter[1..k] = ColesStep(lines, iter[1..(k - 1)], k)
  <2> SUFFICES ASSUME NEW k \in 1..n PROVE iter[1..k] = ColesStep(lines, iter[1..(k - 1)], k)
    OBVIOUS
  <2>1. k \in 1..k /\ k \in 0..n /\ (1..k) \ {k} = 1..(k - 1) /\ 1..k # {}
    BY <1>1
  <2>2. 1..k \in SUBSET U
    BY <1>15, <2>1
  <2>3. Max(1..k) = k
    <3> DEFINE S == 1..k
    <3>1. S \in SUBSET (0..n) /\ S # {} /\ k \in S
      BY <1>1, <2>1
    <3>2. \A x \in S : x <= k /\ x \in Int
      BY <1>1
    <3> HIDE DEF S
    <3>3. Max(S) \in S /\ \A x \in S : x <= Max(S)
      BY <1>1, <3>1, GreatestIn
    <3>4. k <= Max(S) /\ Max(S) <= k /\ Max(S) \in Int /\ k \in Int
      BY <3>1, <3>2, <3>3
    <3>5. Max(S) = k
      BY <3>4
    <3>6. QED
      BY <3>5 DEF S
  <2>4. iter[1..k] = ColesStep(lines, iter[(1..k) \ {Max(1..k)}], Max(1..k))
    <3> HIDE DEF U
    <3> QED BY <1>12, <2>1, <2>2
  <2>5. QED
    BY <2>1, <2>3, <2>4
<1>17. iter[{}] = ColesBegins
  <2> HIDE DEF U
  <2> QED BY <1>12
<1> DEFINE st == [k \in 0..n |-> iter[1..k]]
<1>18. st \in [0..n -> T]
  <2> HIDE DEF T, U
  <2> QED BY <1>15
<1>19. st[0] = ColesBegins
  <2>1. 1..0 = {} /\ 0 \in 0..n
    BY <1>1
  <2> HIDE DEF T, U
  <2>2. QED
    BY <1>17, <2>1
<1>20. \A k \in 1..n : st[k] = ColesStep(lines, st[k - 1], k)
  <2>1. \A k \in 1..n : k \in 0..n /\ k - 1 \in 0..n
    BY <1>1
  <2> HIDE DEF T, U
  <2>2. QED
    BY <1>16, <2>1
<1>21. parseColes(lines) = st[n]
  <2>1. n \in 0..n
    BY <1>1
  <2>2. QED
    BY <1>11, <2>1
<1>22. ColesRun(lines, st)
  <2> HIDE DEF T, U, st
  <2> QED BY <1>18, <1>19, <1>20, <1>21 DEF ColesRun, T
<1>23. QED
  <2> HIDE DEF st
  <2> QED BY <1>22

LEMMA ColesTyped ==
    ASSUME NEW lines \in Seq(Physical)
    PROVE  parseColes(lines) \in ColesState(Len(lines))
<1>1. PICK st : ColesRun(lines, st)
  BY ColesRuns
<1>2. Len(lines) \in 0..Len(lines)
  OBVIOUS
<1>3. QED
  BY <1>1, <1>2 DEF ColesRun

LEMMA ParserConstants == MaxLine \in Nat /\ MaxPending \in Nat /\ MaxPending > 0
  BY ParserAssumption

LEMMA ParseInitInv == ParseInit => ParseInv
<1> SUFFICES ASSUME ParseInit PROVE ParseInv
  OBVIOUS
<1>1. text = <<>> /\ hint = "none" /\ pending = NoPending /\ found = <<>>
  BY DEF ParseInit
<1>2. /\ pending.from = 0 /\ pending.size = 0
      /\ pending = [from |-> pending.from, fields |-> pending.fields, size |-> pending.size]
  BY <1>1 DEF NoPending
<1>3. text \in Seq(Physical) /\ Len(text) = 0 /\ found \in Seq(Found(Len(text)))
  BY <1>1
<1>4. QED
  BY <1>1, <1>2, <1>3, ParserConstants DEF ParseInv, Hint

\* A line more: what was found before stays found.
LEMMA Lengthened ==
    ASSUME ParseInv, NEW x \in Physical, text' = Append(text, x)
    PROVE  /\ text' \in Seq(Physical) /\ Len(text') = Len(text) + 1 /\ Len(text) \in Nat
           /\ found \in Seq(Found(Len(text')))
<1>1. text \in Seq(Physical) /\ found \in Seq(Found(Len(text)))
  BY DEF ParseInv
<1>2. text' \in Seq(Physical) /\ Len(text') = Len(text) + 1 /\ Len(text) \in Nat
  BY <1>1
<1>3. Found(Len(text)) \subseteq Found(Len(text'))
  BY <1>2 DEF Found
<1>4. \A S, T : S \subseteq T => Seq(S) \subseteq Seq(T)
  OBVIOUS
<1>5. QED
  BY <1>1, <1>2, <1>3, <1>4

\* What the Woolworths parser has after a line: nothing buffered or a product
\* that began on a line; nothing more found or the product of a line.
ReadAs(n) ==
    /\ hint' \in Hint
    /\ pending' = [from |-> pending'.from, fields |-> pending'.fields, size |-> pending'.size]
    /\ pending'.from \in 0..n /\ pending'.size \in 0..MaxPending
    /\ pending' = NoPending \/ pending'.from > 0
    /\ UNCHANGED found \/ \E from \in 1..n : Emit(from)

LEMMA NothingBuffered ==
    ASSUME pending' = NoPending, NEW n \in Nat
    PROVE  /\ pending' = [from |-> pending'.from, fields |-> pending'.fields, size |-> pending'.size]
           /\ pending'.from \in 0..n /\ pending'.size \in 0..MaxPending
  BY ParserConstants DEF NoPending

LEMMA WoolworthsRead ==
    ASSUME ParseInv, NEW x \in WoolworthsLine, text' = Append(text, x),
           ReadNumbered(x) \/ ReadOther(x) \/ ReadHeader(x) \/ ReadCategory(x)
    PROVE  ReadAs(Len(text'))
<1> DEFINE n == Len(text')
<1>1. x \in Physical
  BY DEF Physical
<1>2. n \in Nat /\ n = Len(text) + 1 /\ n \in 1..n /\ Len(text) \in Nat
  BY <1>1, Lengthened
<1>3. /\ hint \in Hint /\ pending.from \in 0..Len(text) /\ pending.size \in 0..MaxPending
      /\ pending = NoPending \/ pending.from > 0
      /\ pending = [from |-> pending.from, fields |-> pending.fields, size |-> pending.size]
  BY DEF ParseInv
<1>4. pending.from \in 0..n
  BY <1>2, <1>3
<1>5. CASE ReadNumbered(x)
  <2>1. CASE Resolves(x.fields)
    BY <1>2, <1>3, <1>5, <2>1, NothingBuffered DEF ReadNumbered, ReadAs
  <2>2. CASE ~Resolves(x.fields)
    <3>1. pending' = [from |-> n, fields |-> x.fields, size |-> 1] /\ UNCHANGED <<found, hint>>
      BY <1>5, <2>2 DEF ReadNumbered
    <3>2. 1 \in 0..MaxPending /\ n > 0
      BY <1>2, ParserConstants
    <3>3. QED
      BY <1>2, <1>3, <3>1, <3>2 DEF ReadAs
  <2>3. QED
    BY <2>1, <2>2
<1>6. CASE ReadOther(x)
  <2> DEFINE combined == Extended(pending.fields, x.fields)
  <2>1. UNCHANGED hint
    BY <1>6 DEF ReadOther
  <2>2. CASE pending = NoPending
    <3>1. UNCHANGED <<pending, found>>
      BY <1>6, <2>2 DEF ReadOther
    <3>2. QED
      BY <1>3, <1>4, <2>1, <3>1 DEF ReadAs
  <2>3. CASE pending # NoPending /\ Resolves(combined)
    <3>1. Emit(pending.from) /\ pending' = NoPending
      BY <1>6, <2>3 DEF ReadOther
    <3>2. pending.from \in 1..n
      BY <1>2, <1>3, <2>3
    <3>3. QED
      BY <1>2, <1>3, <2>1, <3>1, <3>2, NothingBuffered DEF ReadAs
  <2>4. CASE pending # NoPending /\ ~Resolves(combined)
    <3>1. pending' = Buffered(combined) /\ UNCHANGED found
      BY <1>6, <2>4 DEF ReadOther
    <3> HIDE DEF combined
    <3>2. CASE pending.size + 1 > MaxPending
      <4>1. pending' = NoPending
        BY <3>1, <3>2 DEF Buffered
      <4>2. QED
        BY <1>2, <1>3, <2>1, <3>1, <4>1, NothingBuffered DEF ReadAs
    <3>3. CASE ~(pending.size + 1 > MaxPending)
      <4>1. pending' = [from |-> pending.from, fields |-> combined, size |-> pending.size + 1]
        BY <1>3, <3>1, <3>3 DEF Buffered
      <4>2. pending.size + 1 \in 0..MaxPending /\ pending.from > 0
        BY <1>3, <2>4, <3>3, ParserConstants
      <4>3. QED
        BY <1>3, <1>4, <2>1, <3>1, <4>1, <4>2 DEF ReadAs
    <3>4. QED
      BY <3>2, <3>3
  <2>5. QED
    BY <2>2, <2>3, <2>4
<1>7. CASE ReadHeader(x)
  BY <1>2, <1>3, <1>7, NothingBuffered DEF ReadHeader, ReadAs
<1>8. CASE ReadCategory(x)
  <2>1. x.name \in Hint
    BY <1>1, <1>8, CategoryNamed DEF ReadCategory, Hint
  <2>2. QED
    BY <1>2, <1>8, <2>1, NothingBuffered DEF ReadCategory, ReadAs
<1>9. QED
  BY <1>5, <1>6, <1>7, <1>8

LEMMA ParseNextInv == ParseInv /\ ParseNext => ParseInv'
<1> SUFFICES ASSUME ParseInv, ParseNext PROVE ParseInv'
  OBVIOUS
<1>1. Len(text) < MaxLine
  BY DEF ParseNext
<1>2. CASE parseWoolworths
  <2>1. PICK x \in WoolworthsLine :
          /\ text' = Append(text, x)
          /\ ReadNumbered(x) \/ ReadOther(x) \/ ReadHeader(x) \/ ReadCategory(x)
    BY <1>2 DEF parseWoolworths
  <2>2. ReadAs(Len(text'))
    BY <2>1, WoolworthsRead
  <2>3. x \in Physical
    BY DEF Physical
  <2>4. text' \in Seq(Physical) /\ Len(text') = Len(text) + 1 /\ Len(text) \in Nat /\ found \in Seq(Found(Len(text')))
    BY <2>1, <2>3, Lengthened
  <2>5. found' \in Seq(Found(Len(text')))
    <3>1. ASSUME NEW from \in 1..Len(text'), Emit(from) PROVE found' \in Seq(Found(Len(text')))
      <4>1. [from |-> from, hint |-> hint] \in Found(Len(text'))
        BY DEF Found, ParseInv
      <4>2. QED
        BY <2>4, <3>1, <4>1 DEF Emit
    <3>2. QED
      BY <2>2, <2>4, <3>1 DEF ReadAs
  <2>6. Len(text') <= MaxLine
    BY <1>1, <2>4, ParserConstants
  <2>7. QED
    BY <2>2, <2>4, <2>5, <2>6 DEF ParseInv, ReadAs
<1>3. CASE ReadColes
  <2>1. PICK x \in ColesLine : text' = Append(text, x)
    BY <1>3 DEF ReadColes
  <2>2. found' = parseColes(text').found /\ hint' = parseColes(text').hint /\ UNCHANGED pending
    BY <1>3 DEF ReadColes
  <2>3. x \in Physical
    BY DEF Physical
  <2>4. text' \in Seq(Physical) /\ Len(text') = Len(text) + 1 /\ Len(text) \in Nat
    BY <2>1, <2>3, Lengthened
  <2>5. parseColes(text') \in ColesState(Len(text'))
    <3> DEFINE lines == text'
    <3>1. lines \in Seq(Physical)
      BY <2>4
    <3> HIDE DEF lines
    <3>2. parseColes(lines) \in ColesState(Len(lines))
      BY <3>1, ColesTyped
    <3>3. QED
      BY <3>2 DEF lines
  <2>6. found' \in Seq(Found(Len(text'))) /\ hint' \in Hint
    BY <2>2, <2>5 DEF ColesState
  <2>7. pending.from \in 0..Len(text') /\ Len(text') <= MaxLine
    BY <1>1, <2>4, ParserConstants DEF ParseInv
  <2>8. QED
    BY <2>2, <2>4, <2>6, <2>7 DEF ParseInv
<1>4. QED
  BY <1>2, <1>3 DEF ParseNext

LEMMA ParseStutter == ParseInv /\ UNCHANGED parseVars => ParseInv'
  BY DEF ParseInv, parseVars

LEMMA ParsesTyped == ParseInv => ParseTypeOK
<1> SUFFICES ASSUME ParseInv PROVE ParseTypeOK
  OBVIOUS
<1>1. \A k \in 1..Len(found) : found[k].from \in 1..Len(text)
  <2>1. \A k \in 1..Len(found) : found[k] \in Found(Len(text))
    BY DEF ParseInv
  <2>2. QED
    BY <2>1 DEF Found
<1>2. QED
  BY <1>1 DEF ParseInv, ParseTypeOK, Physical

\* The products of the lines in S are listed in their order, each with its hint.
Listed(fs, S, hs) ==
    /\ {fs[n] : n \in 1..Len(fs)} = {[from |-> i, hint |-> hs[i]] : i \in S}
    /\ \A m, n \in 1..Len(fs) : m < n => fs[m].from < fs[n].from

Products == {i \in 1..Len(text) : Product(i)}
Hints == [i \in 1..Len(text) |-> HintAt(i)]

\* What ParsedAsLaidOut says of the lines found.
LEMMA LaidOutListed == ParsedAsLaidOut <=> Listed(found, Products, Hints)
<1>1. {[from |-> i, hint |-> HintAt(i)] : i \in {k \in 1..Len(text) : Product(k)}}
        = {[from |-> i, hint |-> Hints[i]] : i \in Products}
  BY DEF Products, Hints
<1>2. QED
  BY <1>1 DEF ParsedAsLaidOut, Listed

LEMMA ListedSame ==
    ASSUME NEW fs, NEW S, NEW hs, Listed(fs, S, hs), NEW h2, \A i \in S : h2[i] = hs[i]
    PROVE  Listed(fs, S, h2)
  BY DEF Listed

\* A product that starts below all others comes after them.
LEMMA ListedMore ==
    ASSUME NEW n \in Nat, NEW S \in SUBSET (1..n), NEW fs \in Seq(Found(n)), NEW hs, Listed(fs, S, hs),
           NEW k \in Nat, \A i \in S : i < k, NEW h2, \A i \in S : h2[i] = hs[i]
    PROVE  Listed(Append(fs, [from |-> k, hint |-> h2[k]]), S \cup {k}, h2)
<1> DEFINE x == [from |-> k, hint |-> h2[k]]
           f2 == Append(fs, x)
           m == Len(fs)
<1>1. /\ m \in Nat /\ Len(f2) = m + 1 /\ 1..Len(f2) = (1..m) \cup {m + 1}
      /\ f2[m + 1] = x /\ \A j \in 1..m : f2[j] = fs[j]
  OBVIOUS
<1>2. Listed(fs, S, h2)
  BY ListedSame
<1>3. {f2[j] : j \in 1..Len(f2)} = {fs[j] : j \in 1..m} \cup {x}
  <2> HIDE DEF f2, x
  <2>1. {f2[j] : j \in 1..Len(f2)} = {f2[j] : j \in (1..m) \cup {m + 1}}
    BY <1>1
  <2>2. QED
    BY <1>1, <2>1
<1>4. {fs[j] : j \in 1..m} = {[from |-> i, hint |-> h2[i]] : i \in S}
  BY <1>2 DEF Listed
<1>5. {[from |-> i, hint |-> h2[i]] : i \in S \cup {k}} = {[from |-> i, hint |-> h2[i]] : i \in S} \cup {x}
  OBVIOUS
<1>6. \A j \in 1..m : fs[j].from \in S
  <2> SUFFICES ASSUME NEW j \in 1..m PROVE fs[j].from \in S
    OBVIOUS
  <2>1. PICK i \in S : fs[j] = [from |-> i, hint |-> h2[i]]
    BY <1>4
  <2>2. QED
    BY <2>1
<1>7. \A i, j \in 1..Len(f2) : i < j => f2[i].from < f2[j].from
  <2> SUFFICES ASSUME NEW i \in 1..Len(f2), NEW j \in 1..Len(f2), i < j PROVE f2[i].from < f2[j].from
    OBVIOUS
  <2> HIDE DEF f2, m
  <2>1. i \in 1..m
    BY <1>1
  <2>2. CASE j \in 1..m
    BY <1>1, <1>2, <2>1, <2>2 DEF Listed, m
  <2>3. CASE j = m + 1
    <3>1. fs[i].from < k
      BY <1>6, <2>1
    <3>2. QED
      BY <1>1, <2>1, <2>3, <3>1
  <2>4. QED
    BY <1>1, <2>2, <2>3
<1>8. QED
  <2> HIDE DEF f2, x
  <2>1. Listed(f2, S \cup {k}, h2)
    BY <1>3, <1>4, <1>5, <1>7 DEF Listed
  <2>2. QED
    BY <2>1 DEF f2, x

\* The hint of a line is what the last announcement before it says.
HintOf(lines, before) ==
    LET last == CHOOSE k \in before : \A m \in before : m <= k
    IN  IF before = {} THEN "none"
        ELSE IF lines[last].kind = "category" THEN lines[last].name ELSE "a product"

LEMMA HintLast ==
    ASSUME NEW lines, NEW S, NEW i \in S, \A m \in S : m \in Int /\ m <= i
    PROVE  HintOf(lines, S) = IF lines[i].kind = "category" THEN lines[i].name ELSE "a product"
<1> DEFINE last == CHOOSE k \in S : \A m \in S : m <= k
<1>1. last = i
  <2>1. last \in S /\ \A m \in S : m <= last
    OBVIOUS
  <2>2. last <= i /\ i <= last /\ last \in Int /\ i \in Int
    BY <2>1
  <2>3. QED
    BY <2>2
<1>2. S # {}
  OBVIOUS
<1>3. HintOf(lines, S) = IF lines[last].kind = "category" THEN lines[last].name ELSE "a product"
  BY <1>2 DEF HintOf
<1>4. QED
  BY <1>1, <1>3

LEMMA HintIs == \A i : HintAt(i) = HintOf(text, {k \in 1..i : Announces(k)})
  BY DEF HintAt, HintOf

LEMMA HintNone == HintAt(0) = "none"
<1>1. 1..0 = {}
  OBVIOUS
<1>2. QED
  BY <1>1 DEF HintAt

LEMMA HintAnnounced ==
    ASSUME NEW i \in Nat \ {0}, Announces(i)
    PROVE  HintAt(i) = IF text[i].kind = "category" THEN text[i].name ELSE "a product"
<1> DEFINE S == {k \in 1..i : Announces(k)}
<1>1. i \in S /\ \A m \in S : m \in Int /\ m <= i
  OBVIOUS
<1>2. HintAt(i) = HintOf(text, S)
  BY HintIs
<1> HIDE DEF S
<1>3. QED
  BY <1>1, <1>2, HintLast

LEMMA HintKept ==
    ASSUME NEW i \in Nat \ {0}, ~Announces(i)
    PROVE  HintAt(i) = HintAt(i - 1)
<1>1. {k \in 1..i : Announces(k)} = {k \in 1..(i - 1) : Announces(k)}
  <2>1. 1..i = (1..(i - 1)) \cup {i}
    OBVIOUS
  <2>2. QED
    BY <2>1
<1>2. QED
  BY <1>1, HintIs

\* A payment summary stands on one of the first k lines.
Summed(k) == \E m \in 1..k : text[m].kind = "summary"
ColesProducts(k) == {i \in 1..k : ColesProduct(i)}

\* What the loop of the Coles parser knows after k lines is what they say.
ColesKnows(st, k) ==
    /\ st.stopped <=> Summed(k)
    /\ ~Summed(k) => st.hint = HintAt(k)
    /\ Listed(st.found, ColesProducts(k), Hints)

\* A line that is no product.
LEMMA NoProduct ==
    ASSUME NEW k \in Nat \ {0}, ~ColesProduct(k)
    PROVE  ColesProducts(k) = ColesProducts(k - 1)
<1>1. 1..k = (1..(k - 1)) \cup {k}
  OBVIOUS
<1>2. QED
  BY <1>1 DEF ColesProducts

LEMMA OneMoreProduct ==
    ASSUME NEW k \in Nat \ {0}, ColesProduct(k)
    PROVE  ColesProducts(k) = ColesProducts(k - 1) \cup {k}
<1>1. 1..k = (1..(k - 1)) \cup {k}
  OBVIOUS
<1>2. QED
  BY <1>1 DEF ColesProducts

LEMMA SummedNext ==
    ASSUME NEW k \in Nat \ {0}
    PROVE  Summed(k) <=> Summed(k - 1) \/ text[k].kind = "summary"
<1>1. 1..k = (1..(k - 1)) \cup {k}
  OBVIOUS
<1>2. QED
  BY <1>1 DEF Summed

LEMMA HeaderNamed == \A x \in Physical : x.kind = "header" => x = Header
  BY DEF Physical, WoolworthsLine, ColesLine, Header, Category

LEMMA ColesLearns ==
    ASSUME retailer = "coles", text \in Seq(Physical), NEW k \in 1..Len(text),
           NEW st \in ColesState(Len(text)), ColesKnows(st, k - 1),
           \A i \in 1..Len(st.found) : st.found[i].from < k
    PROVE  ColesKnows(ColesStep(text, st, k), k)
<1> DEFINE x == text[k]
           n == Len(text)
           later == ColesStep(text, st, k)
<1>1. /\ st.hint \in Hint /\ st.stopped \in BOOLEAN /\ st.found \in Seq(Found(n))
      /\ st = [hint |-> st.hint, stopped |-> st.stopped, found |-> st.found]
  BY DEF ColesState
<1>2. x \in Physical /\ n \in Nat /\ k \in Nat \ {0} /\ k \in 1..k
  OBVIOUS
<1>3. /\ st.stopped <=> Summed(k - 1)
      /\ ~Summed(k - 1) => st.hint = HintAt(k - 1)
      /\ Listed(st.found, ColesProducts(k - 1), Hints)
  BY DEF ColesKnows
<1>4. Announces(k) <=> Announced(text, k) /\ x.kind \notin {"header", "blank"}
  BY DEF Announces
<1>5. ASSUME later = st, ~Announces(k), ~ColesProduct(k), x.kind # "summary" PROVE ColesKnows(later, k)
  <2>1. HintAt(k) = HintAt(k - 1)
    BY <1>2, <1>5, HintKept
  <2>2. Summed(k) <=> Summed(k - 1)
    BY <1>2, <1>5, SummedNext
  <2>3. ColesProducts(k) = ColesProducts(k - 1)
    BY <1>2, <1>5, NoProduct
  <2> HIDE DEF later
  <2>4. QED
    BY <1>3, <1>5, <2>1, <2>2, <2>3 DEF ColesKnows
<1>6. CASE x.kind = "blank"
  <2>1. later = st
    BY <1>6 DEF ColesStep
  <2>2. ~Announces(k) /\ ~ColesProduct(k)
    BY <1>4, <1>6 DEF ColesProduct
  <2>3. QED
    BY <1>5, <1>6, <2>1, <2>2
<1>7. CASE x.kind # "blank" /\ (st.stopped \/ x.kind = "summary")
  <2>1. later = [st EXCEPT !.stopped = TRUE]
    BY <1>7 DEF ColesStep
  <2>2. later.stopped /\ later.found = st.found
    BY <1>1, <2>1
  <2>3. Summed(k)
    BY <1>2, <1>3, <1>7, SummedNext
  <2>4. ~ColesProduct(k)
    BY <1>2, <2>3 DEF ColesProduct, Summed
  <2>5. ColesProducts(k) = ColesProducts(k - 1)
    BY <1>2, <2>4, NoProduct
  <2> HIDE DEF later
  <2>6. ColesKnows(later, k)
    BY <1>3, <2>2, <2>3, <2>5 DEF ColesKnows
  <2>7. QED
    BY <2>6 DEF later
<1>8. CASE x.kind \notin {"blank", "summary"} /\ ~st.stopped /\ x = Header
  <2>1. later = st
    BY <1>8 DEF ColesStep
  <2>2. x.kind = "header"
    BY <1>8 DEF Header
  <2>3. ~Announces(k) /\ ~ColesProduct(k)
    BY <1>4, <2>2 DEF ColesProduct
  <2>4. QED
    BY <1>5, <1>8, <2>1, <2>3
<1>9. CASE x.kind \notin {"blank", "summary"} /\ ~st.stopped /\ x # Header /\ Announced(text, k)
  <2> DEFINE h == IF x.kind = "category" THEN x.name ELSE "a product"
  <2>1. later = [st EXCEPT !.hint = h]
    BY <1>9 DEF ColesStep
  <2>2. later.stopped = st.stopped /\ later.found = st.found /\ later.hint = h
    BY <1>1, <2>1
  <2>3. x.kind # "header"
    BY <1>2, <1>9, HeaderNamed
  <2>4. HintAt(k) = h
    BY <1>2, <1>4, <1>9, <2>3, HintAnnounced
  <2>5. ~ColesProduct(k)
    BY <1>9 DEF ColesProduct
  <2>6. ColesProducts(k) = ColesProducts(k - 1)
    BY <1>2, <2>5, NoProduct
  <2>7. Summed(k) <=> Summed(k - 1)
    BY <1>2, <1>9, SummedNext
  <2> HIDE DEF later, h
  <2>8. ColesKnows(later, k)
    BY <1>3, <2>2, <2>4, <2>6, <2>7 DEF ColesKnows
  <2>9. QED
    BY <2>8 DEF later
<1>10. CASE x.kind = "product" /\ ~st.stopped /\ ~Announced(text, k)
  <2> DEFINE f == [from |-> k, hint |-> st.hint]
  <2>1. x # Header
    BY <1>10 DEF Header
  <2>2. later = [st EXCEPT !.found = Append(@, f)]
    BY <1>10, <2>1 DEF ColesStep
  <2>3. later.stopped = st.stopped /\ later.hint = st.hint /\ later.found = Append(st.found, f)
    BY <1>1, <2>2
  <2>4. HintAt(k) = HintAt(k - 1)
    BY <1>2, <1>4, <1>10, HintKept
  <2>5. Summed(k) <=> Summed(k - 1)
    BY <1>2, <1>10, SummedNext
  <2>6. st.hint = HintAt(k) /\ Hints[k] = HintAt(k)
    BY <1>3, <1>10, <2>4 DEF Hints
  <2>7. ColesProduct(k)
    BY <1>3, <1>10, <2>5 DEF ColesProduct, Summed
  <2>8. ColesProducts(k) = ColesProducts(k - 1) \cup {k}
    BY <1>2, <2>7, OneMoreProduct
  <2>9. Listed(Append(st.found, [from |-> k, hint |-> Hints[k]]), ColesProducts(k - 1) \cup {k}, Hints)
    <3> DEFINE S == ColesProducts(k - 1)
    <3>1. S \in SUBSET (1..n) /\ \A i \in S : i < k
      BY <1>2 DEF ColesProducts
    <3>2. k \in Nat
      BY <1>2
    <3> HIDE DEF S, n
    <3>3. QED
      BY <1>1, <1>2, <1>3, <3>1, <3>2, ListedMore DEF S
  <2> HIDE DEF later
  <2>10. ColesKnows(later, k)
    BY <1>3, <2>3, <2>4, <2>5, <2>6, <2>8, <2>9 DEF ColesKnows
  <2>11. QED
    BY <2>10 DEF later
<1>11. CASE x.kind \notin {"blank", "summary", "product"} /\ ~st.stopped /\ x # Header /\ ~Announced(text, k)
  <2>1. later = st
    BY <1>11 DEF ColesStep
  <2>2. ~Announces(k) /\ ~ColesProduct(k)
    BY <1>4, <1>11 DEF ColesProduct
  <2>3. QED
    BY <1>5, <1>11, <2>1, <2>2
<1>12. QED
  <2>1. CASE x.kind = "product"
    <3>1. x # Header
      BY <2>1 DEF Header
    <3>2. QED
      BY <1>1, <1>7, <1>9, <1>10, <2>1, <3>1
  <2>2. CASE x.kind # "product"
    BY <1>1, <1>6, <1>7, <1>8, <1>9, <1>11, <2>2
  <2>3. QED
    BY <2>1, <2>2

\* The Coles parser finds what the invoice lays out.
LEMMA ColesLaidOut ==
    ASSUME retailer = "coles", text \in Seq(Physical), found = parseColes(text).found
    PROVE  ParsedAsLaidOut
<1> DEFINE n == Len(text)
<1>1. PICK st : ColesRun(text, st)
  BY ColesRuns
<1>2. /\ st \in [0..n -> ColesState(n)] /\ st[0] = ColesBegins
      /\ \A k \in 1..n : st[k] = ColesStep(text, st[k - 1], k)
      /\ found = st[n].found /\ n \in Nat
  BY <1>1 DEF ColesRun
<1> DEFINE good == {k \in Nat : k <= n => ColesKnows(st[k], k)}
<1>3. 0 \in good
  <2>1. 1..0 = {} /\ Len(<<>>) = 0
    OBVIOUS
  <2>2. ~Summed(0) /\ ColesProducts(0) = {}
    BY <2>1 DEF Summed, ColesProducts
  <2>3. Listed(<<>>, {}, Hints)
    BY <2>1 DEF Listed
  <2>4. st[0].stopped = FALSE /\ st[0].hint = "none" /\ st[0].found = <<>>
    BY <1>2 DEF ColesBegins
  <2> HIDE DEF n
  <2>5. ColesKnows(st[0], 0)
    BY <2>2, <2>3, <2>4, HintNone DEF ColesKnows
  <2>6. QED
    BY <2>5
<1>4. ASSUME NEW k \in Nat, k \in good PROVE k + 1 \in good
  <2> SUFFICES ASSUME k + 1 <= n PROVE ColesKnows(st[k + 1], k + 1)
    OBVIOUS
  <2> DEFINE j == k + 1
  <2>1. j \in 1..n /\ j - 1 = k /\ k \in 0..n
    BY <1>2
  <2>2. st[k] \in ColesState(n) /\ ColesKnows(st[k], k) /\ st[j] = ColesStep(text, st[k], j)
    BY <1>2, <1>4, <2>1
  <2>3. \A i \in 1..Len(st[k].found) : st[k].found[i].from < j
    <3> SUFFICES ASSUME NEW i \in 1..Len(st[k].found) PROVE st[k].found[i].from < j
      OBVIOUS
    <3>1. st[k].found[i] \in {[from |-> p, hint |-> Hints[p]] : p \in ColesProducts(k)}
      BY <2>2 DEF ColesKnows, Listed
    <3>2. PICK p \in ColesProducts(k) : st[k].found[i] = [from |-> p, hint |-> Hints[p]]
      BY <3>1
    <3>3. p \in 1..k
      BY DEF ColesProducts
    <3>4. QED
      BY <3>2, <3>3
  <2> HIDE DEF j, n
  <2>4. ColesKnows(ColesStep(text, st[k], j), j)
    BY <2>1, <2>2, <2>3, ColesLearns DEF n
  <2>5. QED
    BY <2>2, <2>4 DEF j
<1>5. ColesKnows(st[n], n)
  <2> HIDE DEF good
  <2>1. n \in good
    BY <1>2, <1>3, <1>4, InductiveSet
  <2>2. QED
    BY <1>2, <2>1 DEF good
<1>6. ColesProducts(n) = Products
  BY DEF ColesProducts, Products, Product
<1>7. QED
  <2> HIDE DEF n
  <2> QED BY <1>2, <1>5, <1>6, LaidOutListed DEF ColesKnows

\* Which fields hold the numbers of a product, and when a buffer does.
Full == <<"T", "N", "N", "N", "N">>

LEMMA FullResolves == \A fields \in Fields : Resolves(fields) <=> fields = Full
<1> SUFFICES ASSUME NEW fields \in Fields PROVE Resolves(fields) <=> fields = Full
  OBVIOUS
<1>1. CASE fields = <<"T">>
  <2>1. Len(fields) = 1
    BY <1>1
  <2>2. Len(Full) = 5
    BY DEF Full
  <2>3. QED
    BY <2>1, <2>2 DEF Resolves
<1>2. CASE fields = <<"T", "N", "N">>
  <2>1. Len(fields) = 3
    BY <1>2
  <2>2. Len(Full) = 5
    BY DEF Full
  <2>3. QED
    BY <2>1, <2>2 DEF Resolves
<1>3. CASE fields = Full
  <2>1. Len(fields) = 5 /\ 5 - 3..5 = {2, 3, 4, 5}
    BY <1>3 DEF Full
  <2>2. fields[2] = "N" /\ fields[3] = "N" /\ fields[4] = "N" /\ fields[5] = "N"
    BY <1>3 DEF Full
  <2>3. QED
    BY <1>3, <2>1, <2>2 DEF Resolves
<1>4. QED
  BY <1>1, <1>2, <1>3 DEF Fields, Full

FieldSeq == Seq({"T", "N"}) \ {<<>>}

LEMMA FieldsSeq == Fields \subseteq FieldSeq
  BY DEF Fields, FieldSeq

LEMMA ExtendedResolves ==
    ASSUME NEW fields \in FieldSeq, NEW more \in Fields
    PROVE  /\ Extended(fields, more) \in FieldSeq
           /\ Resolves(Extended(fields, more)) <=> more = Full
<1> DEFINE e == Extended(fields, more)
           m == Len(fields)
           g == Front(fields) \o <<"T">>
           u == Tail(more)
<1>1. m \in Nat \ {0} /\ fields \in Seq({"T", "N"})
  BY DEF FieldSeq
<1>2. Front(fields) \in Seq({"T", "N"}) /\ Len(Front(fields)) = m - 1
  <2>1. Front(fields) = SubSeq(fields, 1, m - 1)
    BY DEF Front
  <2>2. 1 \in Int /\ m - 1 \in Int /\ \A k \in 1..m - 1 : fields[k] \in {"T", "N"}
    BY <1>1
  <2>3. /\ SubSeq(fields, 1, m - 1) \in Seq({"T", "N"})
        /\ Len(SubSeq(fields, 1, m - 1)) = IF 1 <= m - 1 THEN m - 1 - 1 + 1 ELSE 0
    <3> HIDE DEF m
    <3> QED BY <2>2, SubSeqProperties
  <2>4. (IF 1 <= m - 1 THEN m - 1 - 1 + 1 ELSE 0) = m - 1
    <3> HIDE DEF m
    <3>1. CASE m = 1
      BY <3>1
    <3>2. CASE m > 1
      BY <1>1, <3>2
    <3>3. QED
      BY <1>1, <3>1, <3>2
  <2>5. QED
    BY <2>1, <2>3, <2>4
<1>3. g \in Seq({"T", "N"}) /\ Len(g) = m /\ g[m] = "T"
  <2> DEFINE f == Front(fields)
  <2>1. f \in Seq({"T", "N"}) /\ Len(f) = m - 1 /\ <<"T">> \in Seq({"T", "N"}) /\ Len(<<"T">>) = 1
    BY <1>2
  <2> HIDE DEF f, m
  <2>2. f \o <<"T">> \in Seq({"T", "N"}) /\ Len(f \o <<"T">>) = m /\ (f \o <<"T">>)[m] = "T"
    BY <1>1, <2>1
  <2>3. QED
    BY <2>2 DEF f
<1>4. more \in Seq({"T", "N"}) /\ more # <<>>
  BY FieldsSeq DEF FieldSeq
<1>5. u \in Seq({"T", "N"})
  BY <1>4
<1>6. e = g \o u
  BY DEF Extended
<1>7. e \in Seq({"T", "N"}) /\ Len(e) = m + Len(u) /\ e[m] = "T" /\ \A k \in 1..Len(u) : e[m + k] = u[k]
  <2> HIDE DEF g, u, e, m
  <2>1. Len(u) \in Nat
    BY <1>5
  <2>2. \A k \in 1..Len(u) : m + k \in 1..m + Len(u) /\ m + k > m
    BY <1>1, <2>1
  <2>3. m \in 1..m + Len(u)
    BY <1>1, <2>1
  <2>4. e \in Seq({"T", "N"}) /\ Len(e) = m + Len(u)
    BY <1>3, <1>5, <1>6, ConcatProperties
  <2>5. \A k \in 1..m + Len(u) : e[k] = IF k <= m THEN g[k] ELSE u[k - m]
    BY <1>3, <1>5, <1>6, ConcatProperties
  <2>6. e[m] = "T"
    BY <1>1, <1>3, <2>3, <2>5
  <2>7. \A k \in 1..Len(u) : e[m + k] = u[k]
    <3> SUFFICES ASSUME NEW k \in 1..Len(u) PROVE e[m + k] = u[k]
      OBVIOUS
    <3>1. (m + k) - m = k /\ ~(m + k <= m)
      BY <1>1
    <3>2. QED
      BY <2>2, <2>5, <3>1
  <2>8. QED
    BY <2>4, <2>6, <2>7
<1>8. e \in FieldSeq
  <2> HIDE DEF e, u, m
  <2>1. Len(u) \in Nat
    BY <1>5
  <2>2. Len(e) # 0
    BY <1>1, <1>7, <2>1
  <2>3. QED
    BY <1>7, <2>2 DEF FieldSeq
<1>9. CASE more = Full
  <2>1. u = <<"N", "N", "N", "N">>
    BY <1>9 DEF Full
  <2>2. Len(u) = 4 /\ u[1] = "N" /\ u[2] = "N" /\ u[3] = "N" /\ u[4] = "N"
    <3> DEFINE v == <<"N", "N", "N", "N">>
    <3>1. Len(v) = 4 /\ v[1] = "N" /\ v[2] = "N" /\ v[3] = "N" /\ v[4] = "N"
      OBVIOUS
    <3> HIDE DEF v, u
    <3>2. u = v
      BY <2>1 DEF v
    <3>3. QED
      BY <3>1, <3>2
  <2> HIDE DEF e, u, m
  <2>3. Len(e) >= 5 /\ \A k \in Len(e) - 3..Len(e) : k = m + 1 \/ k = m + 2 \/ k = m + 3 \/ k = m + 4
    BY <1>1, <1>7, <2>2
  <2>4. 1 \in 1..Len(u) /\ 2 \in 1..Len(u) /\ 3 \in 1..Len(u) /\ 4 \in 1..Len(u)
    BY <2>2
  <2>5. Resolves(e)
    BY <1>7, <2>2, <2>3, <2>4 DEF Resolves
  <2>6. QED
    BY <1>8, <1>9, <2>5 DEF e
<1>10. CASE more = <<"T">> \/ more = <<"T", "N", "N">>
  <2>1. Len(u) \in {0, 2}
    BY <1>10
  <2>2. more # Full
    <3>1. Len(more) # 5 /\ Len(Full) = 5
      BY <1>10 DEF Full
    <3>2. QED
      BY <3>1
  <2> HIDE DEF e, u, m
  <2>3. m \in Len(e) - 3..Len(e) /\ e[m] # "N"
    BY <1>1, <1>7, <2>1
  <2>4. ~Resolves(e)
    BY <2>3 DEF Resolves
  <2>5. QED
    BY <1>8, <2>2, <2>4 DEF e
<1>11. QED
  BY <1>9, <1>10 DEF Fields, Full


\* The layout of a Woolworths invoice as one of its lines alone.
WHint(lines, i) == HintOf(lines, {k \in 1..i : lines[k].kind = "category"})
WHints(lines) == [i \in 1..Len(lines) |-> WHint(lines, i)]
WProduct(lines, i, j) ==
    /\ lines[i].kind = "numbered"
    /\ \A k \in i + 1..j : lines[k].kind = "other"
    /\ \A k \in i..j : (lines[k].fields = Full) <=> k = j
    /\ j - i <= MaxPending
WProducts(lines) == {i \in 1..Len(lines) : \E j \in i..Len(lines) : WProduct(lines, i, j)}
WBegun(lines, i) ==
    /\ lines[i].kind = "numbered"
    /\ \A k \in i + 1..Len(lines) : lines[k].kind = "other"
    /\ \A k \in i..Len(lines) : lines[k].fields # Full

\* What the Woolworths parser knows after some lines.
WKnows(lines, fs, h, p) ==
    /\ Listed(fs, WProducts(lines), WHints(lines)) /\ h = WHint(lines, Len(lines))
    /\ p # NoPending =>
         /\ WBegun(lines, p.from) /\ p.fields \in FieldSeq
         /\ p.size = Len(lines) - p.from + 1
    /\ \A i \in 1..Len(lines) : WBegun(lines, i) /\ Len(lines) - i < MaxPending => p.from = i

LEMMA WoolworthsKnows ==
    retailer = "woolworths" => (LayoutInv <=> WKnows(text, found, hint, pending))
<1> SUFFICES ASSUME retailer = "woolworths" PROVE LayoutInv <=> WKnows(text, found, hint, pending)
  OBVIOUS
<1>1. \A i : HintAt(i) = WHint(text, i)
  BY DEF HintAt, WHint, HintOf, Announces
<1>2. Hints = WHints(text)
  BY <1>1 DEF Hints, WHints
<1>3. Products = WProducts(text)
  BY DEF Products, WProducts, Product, WProduct, WoolworthsProduct, Full
<1>4. \A i : Begun(i) <=> WBegun(text, i)
  BY DEF Begun, WBegun, Full
<1>5. LayoutInv <=>
         /\ ParsedAsLaidOut /\ hint = HintAt(Len(text))
         /\ pending # NoPending =>
              /\ Begun(pending.from) /\ pending.fields \in FieldSeq
              /\ pending.size = Len(text) - pending.from + 1
         /\ \A i \in 1..Len(text) : Begun(i) /\ Len(text) - i < MaxPending => pending.from = i
  BY DEF LayoutInv, FieldSeq
<1>6. QED
  BY <1>1, <1>2, <1>3, <1>4, <1>5, LaidOutListed DEF WKnows

LEMMA WoolworthsKnowsNext ==
    retailer' = "woolworths" => (LayoutInv' <=> WKnows(text', found', hint', pending'))
<1> SUFFICES ASSUME retailer' = "woolworths" PROVE LayoutInv' <=> WKnows(text', found', hint', pending')
  OBVIOUS
<1> DEFINE n == Len(text')
<1>1. \A i : HintAt(i)' = WHint(text', i)
  BY DEF HintAt, WHint, HintOf, Announces
<1>2. Hints' = WHints(text')
  <2>1. Hints' = [i \in 1..n |-> HintAt(i)']
    BY DEF Hints
  <2> QED BY <1>1, <2>1 DEF WHints
<1>3. Products' = WProducts(text')
  BY DEF Products, WProducts, Product, WProduct, WoolworthsProduct, Full
<1>4. \A i : Begun(i)' <=> WBegun(text', i)
  BY DEF Begun, WBegun, Full
<1>5. LayoutInv' <=>
         /\ ParsedAsLaidOut' /\ hint' = WHint(text', n)
         /\ pending' # NoPending =>
              /\ WBegun(text', pending'.from) /\ pending'.fields \in FieldSeq
              /\ pending'.size = n - pending'.from + 1
         /\ \A i \in 1..n : WBegun(text', i) /\ n - i < MaxPending => pending'.from = i
  BY DEF LayoutInv, FieldSeq, Begun, WBegun, Full, HintAt, WHint, HintOf, Announces
<1>6. ParsedAsLaidOut' <=> Listed(found', Products', Hints')
  <2>1. {[from |-> i, hint |-> HintAt(i)] : i \in {k \in 1..Len(text) : Product(k)}}'
          = {[from |-> i, hint |-> Hints'[i]] : i \in Products'}
    BY DEF Products, Hints
  <2>2. QED
    BY <2>1 DEF ParsedAsLaidOut, Listed
<1>7. QED
  <2> HIDE DEF n
  <2> QED BY <1>2, <1>3, <1>5, <1>6 DEF WKnows, n

\* A line more: what it changes of the layout.
Grown(lines, x, more, n, m) ==
    /\ more \in Seq(Physical) /\ Len(more) = m
    /\ \A i \in 0..n : WHint(more, i) = WHint(lines, i)
    /\ WHint(more, m) = IF x.kind = "category" THEN x.name ELSE WHint(lines, n)
    /\ WProducts(more) = WProducts(lines) \cup {i \in 1..m : WProduct(more, i, m)}
    /\ \A i \in 1..n :
         /\ WProduct(more, i, m) <=> WBegun(lines, i) /\ x.kind = "other" /\ x.fields = Full /\ m - i <= MaxPending
         /\ WBegun(more, i) <=> WBegun(lines, i) /\ x.kind = "other" /\ x.fields # Full
    /\ WProduct(more, m, m) <=> x.kind = "numbered" /\ x.fields = Full
    /\ WBegun(more, m) <=> x.kind = "numbered" /\ x.fields # Full

LEMMA LayoutGrows ==
    ASSUME NEW lines \in Seq(Physical), NEW x \in Physical, NEW more, more = Append(lines, x),
           NEW n \in Nat, n = Len(lines), NEW m \in Nat, m = n + 1
    PROVE  Grown(lines, x, more, n, m)
<1>1. /\ more \in Seq(Physical) /\ Len(more) = m /\ more[m] = x /\ \A k \in 1..n : more[k] = lines[k]
      /\ 1..m = (1..n) \cup {m} /\ m \in 1..m
  OBVIOUS
<1>2. \A S \in SUBSET (1..n) : HintOf(more, S) = HintOf(lines, S)
  <2> SUFFICES ASSUME NEW S \in SUBSET (1..n) PROVE HintOf(more, S) = HintOf(lines, S)
    OBVIOUS
  <2>1. CASE S = {}
    BY <2>1 DEF HintOf
  <2>2. CASE S # {}
    <3> DEFINE l == Max(S)
    <3>1. S \in SUBSET (0..n)
      OBVIOUS
    <3>2. l \in S /\ \A k \in S : k <= l
      BY <2>2, <3>1, GreatestIn
    <3> HIDE DEF l
    <3>3. l \in 1..n /\ \A k \in S : k \in Int /\ k <= l
      BY <3>2
    <3>4. HintOf(lines, S) = IF lines[l].kind = "category" THEN lines[l].name ELSE "a product"
      BY <3>2, <3>3, HintLast
    <3>5. HintOf(more, S) = IF more[l].kind = "category" THEN more[l].name ELSE "a product"
      BY <3>2, <3>3, HintLast
    <3>6. QED
      BY <1>1, <3>3, <3>4, <3>5
  <2>3. QED
    BY <2>1, <2>2
<1>3. ASSUME NEW i \in 0..n PROVE WHint(more, i) = WHint(lines, i)
  <2> DEFINE S == {k \in 1..i : lines[k].kind = "category"}
  <2>1. S \in SUBSET (1..n)
    OBVIOUS
  <2>2. {k \in 1..i : more[k].kind = "category"} = S
    <3>1. \A k \in 1..i : more[k] = lines[k]
      BY <1>1
    <3>2. QED
      BY <3>1
  <2> HIDE DEF S
  <2>3. WHint(more, i) = HintOf(more, S)
    BY <2>2 DEF WHint
  <2>4. WHint(lines, i) = HintOf(lines, S)
    BY DEF WHint, S
  <2>5. QED
    BY <1>2, <2>1, <2>3, <2>4
<1>4. WHint(more, m) = IF x.kind = "category" THEN x.name ELSE WHint(lines, n)
  <2> DEFINE S == {k \in 1..m : more[k].kind = "category"}
  <2>1. WHint(more, m) = HintOf(more, S)
    BY DEF WHint
  <2>2. CASE x.kind = "category"
    <3>1. m \in S /\ \A k \in S : k \in Int /\ k <= m
      BY <1>1, <2>2
    <3> HIDE DEF S
    <3>2. HintOf(more, S) = IF more[m].kind = "category" THEN more[m].name ELSE "a product"
      BY <3>1, HintLast
    <3>3. QED
      BY <1>1, <2>1, <2>2, <3>2
  <2>3. CASE x.kind # "category"
    <3>1. S = {k \in 1..n : more[k].kind = "category"}
      BY <1>1, <2>3
    <3>2. WHint(more, n) = HintOf(more, S)
      BY <3>1 DEF WHint
    <3>3. WHint(more, n) = WHint(lines, n)
      BY <1>3
    <3> HIDE DEF S
    <3>4. QED
      BY <2>1, <2>3, <3>2, <3>3
  <2>4. QED
    BY <2>2, <2>3
<1>5. \A i \in 1..n : \A j \in i..n : WProduct(more, i, j) <=> WProduct(lines, i, j)
  <2> SUFFICES ASSUME NEW i \in 1..n, NEW j \in i..n PROVE WProduct(more, i, j) <=> WProduct(lines, i, j)
    OBVIOUS
  <2>1. \A k \in i..j : more[k] = lines[k]
    BY <1>1
  <2>2. i \in i..j /\ \A k \in i + 1..j : k \in i..j
    OBVIOUS
  <2>3. QED
    BY <2>1, <2>2 DEF WProduct
<1>6. WProducts(more) = WProducts(lines) \cup {i \in 1..m : WProduct(more, i, m)}
  <2>1. /\ WProducts(lines) = {i \in 1..n : \E j \in i..n : WProduct(lines, i, j)}
        /\ WProducts(more) = {i \in 1..m : \E j \in i..m : WProduct(more, i, j)}
    BY <1>1 DEF WProducts
  <2>2. /\ \A i \in 1..n : i..m = (i..n) \cup {m}
        /\ m..m = {m} /\ m \notin 1..n
    OBVIOUS
  <2>3. \A i \in 1..n : (\E j \in i..m : WProduct(more, i, j)) <=> (\E j \in i..n : WProduct(lines, i, j)) \/ WProduct(more, i, m)
    BY <1>5, <2>2
  <2>4. (\E j \in m..m : WProduct(more, m, j)) <=> WProduct(more, m, m)
    BY <2>2
  <2>5. QED
    BY <1>1, <2>1, <2>2, <2>3, <2>4
<1>7. ASSUME NEW i \in 1..n
      PROVE  /\ WProduct(more, i, m) <=> WBegun(lines, i) /\ x.kind = "other" /\ x.fields = Full /\ m - i <= MaxPending
             /\ WBegun(more, i) <=> WBegun(lines, i) /\ x.kind = "other" /\ x.fields # Full
  <2>1. i..m = (i..n) \cup {m} /\ i + 1..m = (i + 1..n) \cup {m} /\ i \in i..n
    OBVIOUS
  <2>2. (\A k \in i..n : more[k] = lines[k] /\ k # m) /\ \A k \in i + 1..n : more[k] = lines[k] /\ k # m
    BY <1>1
  <2>3. /\ (\A k \in i + 1..m : more[k].kind = "other") <=> (\A k \in i + 1..n : lines[k].kind = "other") /\ x.kind = "other"
        /\ (\A k \in i..m : more[k].fields # Full) <=> (\A k \in i..n : lines[k].fields # Full) /\ x.fields # Full
        /\ (\A k \in i..m : (more[k].fields = Full) <=> k = m) <=> (\A k \in i..n : lines[k].fields # Full) /\ x.fields = Full
    BY <1>1, <2>1, <2>2
  <2>4. more[i] = lines[i]
    BY <1>1
  <2>5. QED
    BY <1>1, <2>3, <2>4 DEF WProduct, WBegun
<1>8. /\ WProduct(more, m, m) <=> x.kind = "numbered" /\ x.fields = Full
      /\ WBegun(more, m) <=> x.kind = "numbered" /\ x.fields # Full
  <2>1. m + 1..m = {} /\ m..m = {m} /\ m - m <= MaxPending
    BY ParserAssumption
  <2>2. QED
    BY <1>1, <2>1 DEF WProduct, WBegun
<1>9. QED
  BY <1>1, <1>3, <1>4, <1>6, <1>7, <1>8 DEF Grown

\* A line that ends no product, and one that ends the product of line p.
Ended(lines) == {i \in 1..Len(lines) : WProduct(lines, i, Len(lines))}

LEMMA NoneEnded ==
    ASSUME NEW lines \in Seq(Physical), NEW x \in Physical, NEW more, more = Append(lines, x), NEW fs,
           Listed(fs, WProducts(lines), WHints(lines)), Ended(more) = {}
    PROVE  Listed(fs, WProducts(more), WHints(more))
<1> DEFINE n == Len(lines)
           m == n + 1
<1>1. n \in Nat /\ m \in Nat /\ m = n + 1
  OBVIOUS
<1> HIDE DEF n, m
<1>2. /\ Len(more) = m /\ \A i \in 0..n : WHint(more, i) = WHint(lines, i)
      /\ WProducts(more) = WProducts(lines) \cup {i \in 1..m : WProduct(more, i, m)}
  <2>1. n = Len(lines)
    BY DEF n
  <2>2. Grown(lines, x, more, n, m)
    BY <1>1, <2>1, LayoutGrows
  <2>3. QED
    BY <2>2 DEF Grown
<1>3. WProducts(more) = WProducts(lines)
  BY <1>2 DEF Ended
<1>4. \A i \in WProducts(lines) : WHints(more)[i] = WHints(lines)[i]
  <2>1. \A i \in WProducts(lines) : i \in 1..n /\ i \in 1..m /\ i \in 0..n
    BY <1>1 DEF WProducts, n
  <2>2. QED
    BY <1>2, <2>1 DEF WHints, n
<1>5. QED
  BY <1>3, <1>4, ListedSame

LEMMA OneEnded ==
    ASSUME NEW lines \in Seq(Physical), NEW x \in Physical, NEW more, more = Append(lines, x),
           NEW fs \in Seq(Found(Len(lines))), Listed(fs, WProducts(lines), WHints(lines)),
           NEW p \in 1..Len(more), Ended(more) = {p}, \A i \in WProducts(lines) : i < p
    PROVE  Listed(Append(fs, [from |-> p, hint |-> WHint(more, p)]), WProducts(more), WHints(more))
<1> DEFINE n == Len(lines)
           m == n + 1
           S == WProducts(lines)
           h == WHints(more)
<1>1. n \in Nat /\ m \in Nat /\ m = n + 1 /\ p \in Nat
  OBVIOUS
<1> HIDE DEF m
<1>2. /\ Len(more) = m /\ \A i \in 0..n : WHint(more, i) = WHint(lines, i)
      /\ WProducts(more) = WProducts(lines) \cup {i \in 1..m : WProduct(more, i, m)}
  <2>1. n = Len(lines)
    OBVIOUS
  <2> HIDE DEF n
  <2>2. Grown(lines, x, more, n, m)
    BY <1>1, <2>1, LayoutGrows
  <2>3. QED
    BY <2>2 DEF Grown
<1>3. WProducts(more) = S \cup {p}
  BY <1>2 DEF Ended
<1>4. S \in SUBSET (1..n) /\ \A i \in S : h[i] = WHints(lines)[i]
  <2>1. \A i \in S : i \in 1..n /\ i \in 1..m /\ i \in 0..n
    BY <1>1 DEF WProducts
  <2>2. QED
    BY <1>2, <2>1 DEF WHints
<1>5. h[p] = WHint(more, p)
  BY DEF WHints
<1> HIDE DEF S, h, n
<1>6. Listed(Append(fs, [from |-> p, hint |-> h[p]]), S \cup {p}, h)
  <2>1. fs \in Seq(Found(n)) /\ Listed(fs, S, WHints(lines)) /\ \A i \in S : i < p
    BY DEF n, S
  <2>2. QED
    BY <1>1, <1>4, <2>1, ListedMore
<1>7. QED
  BY <1>3, <1>5, <1>6 DEF h

LEMMA WoolworthsLearns ==
    ASSUME ParseInv, WKnows(text, found, hint, pending), NEW x \in WoolworthsLine, text' = Append(text, x),
           ReadNumbered(x) \/ ReadOther(x) \/ ReadHeader(x) \/ ReadCategory(x)
    PROVE  WKnows(text', found', hint', pending')
<1> DEFINE lines == text
           more == text'
           n == Len(text)
           m == Len(text')
           p == pending.from
<1>1. lines \in Seq(Physical) /\ x \in Physical /\ more = Append(lines, x) /\ n \in Nat /\ m \in Nat /\ m = n + 1 /\ n = Len(lines)
  BY DEF ParseInv, Physical
<1>2. /\ Len(more) = m /\ \A i \in 0..n : WHint(more, i) = WHint(lines, i)
      /\ WHint(more, m) = IF x.kind = "category" THEN x.name ELSE WHint(lines, n)
      /\ WProducts(more) = WProducts(lines) \cup {i \in 1..m : WProduct(more, i, m)}
      /\ \A i \in 1..n :
           /\ WProduct(more, i, m) <=> WBegun(lines, i) /\ x.kind = "other" /\ x.fields = Full /\ m - i <= MaxPending
           /\ WBegun(more, i) <=> WBegun(lines, i) /\ x.kind = "other" /\ x.fields # Full
      /\ WProduct(more, m, m) <=> x.kind = "numbered" /\ x.fields = Full
      /\ WBegun(more, m) <=> x.kind = "numbered" /\ x.fields # Full
  <2> HIDE DEF lines, more, n, m
  <2>1. Grown(lines, x, more, n, m)
    BY <1>1, LayoutGrows
  <2>2. QED
    BY <2>1 DEF Grown
<1>3. /\ Listed(found, WProducts(lines), WHints(lines)) /\ hint = WHint(lines, n)
      /\ pending # NoPending =>
           /\ WBegun(lines, p) /\ pending.fields \in FieldSeq
           /\ pending.size = n - p + 1
      /\ \A i \in 1..n : WBegun(lines, i) /\ n - i < MaxPending => p = i
  BY DEF WKnows
<1>4. /\ found \in Seq(Found(n)) /\ p \in 0..n /\ pending.size \in 0..MaxPending
      /\ pending = NoPending \/ p > 0
      /\ pending = [from |-> p, fields |-> pending.fields, size |-> pending.size]
  BY DEF ParseInv
<1>5. 1..m = (1..n) \cup {m} /\ m \in 1..m /\ m \notin 1..n /\ MaxPending \in Nat \ {0}
  BY <1>1, ParserAssumption
<1>6. NoPending.from = 0
  BY DEF NoPending
<1> HIDE DEF lines, more, n, m, p
<1>7. Ended(more) = {i \in 1..m : WProduct(more, i, m)}
  BY <1>2 DEF Ended
<1>8. WKnows(more, found', hint', pending') <=>
         /\ Listed(found', WProducts(more), WHints(more)) /\ hint' = WHint(more, m)
         /\ pending' # NoPending =>
              /\ WBegun(more, pending'.from) /\ pending'.fields \in FieldSeq
              /\ pending'.size = m - pending'.from + 1
         /\ \A i \in 1..m : WBegun(more, i) /\ m - i < MaxPending => pending'.from = i
  BY <1>2 DEF WKnows
<1>9. Ended(more) = {} => Listed(found, WProducts(more), WHints(more))
  BY <1>1, <1>3, NoneEnded
<1>10. ASSUME NEW q \in 1..m, Ended(more) = {q}, \A i \in WProducts(lines) : i < q, WHint(more, q) = hint, Emit(q)
       PROVE  Listed(found', WProducts(more), WHints(more))
  <2>1. q \in 1..Len(more) /\ found \in Seq(Found(Len(lines)))
    BY <1>1, <1>2, <1>4
  <2>2. Listed(Append(found, [from |-> q, hint |-> WHint(more, q)]), WProducts(more), WHints(more))
    BY <1>1, <1>3, <1>10, <2>1, OneEnded
  <2>3. QED
    BY <1>10, <2>2 DEF Emit
<1>11. WProducts(lines) \in SUBSET (1..n)
  BY <1>1 DEF WProducts
<1>12. CASE x.kind = "numbered"
  <2>1. x.fields \in Fields
    BY <1>12 DEF WoolworthsLine, Header, Category
  <2>2. ReadNumbered(x)
    BY <1>12 DEF ReadNumbered, ReadOther, ReadHeader, ReadCategory
  <2>3. hint' = WHint(more, m) /\ hint' = hint
    BY <1>2, <1>3, <1>12, <2>2 DEF ReadNumbered
  <2>4. \A i \in 1..n : ~WProduct(more, i, m) /\ ~WBegun(more, i)
    BY <1>2, <1>12
  <2>5. CASE x.fields = Full
    <3>1. Emit(m) /\ pending' = NoPending
      BY <2>1, <2>2, <2>5, FullResolves DEF ReadNumbered, m
    <3>2. Ended(more) = {m} /\ ~WBegun(more, m)
      BY <1>2, <1>5, <1>7, <1>12, <2>4, <2>5
    <3>3. \A i \in WProducts(lines) : i < m
      BY <1>1, <1>11
    <3>4. WHint(more, m) = hint
      BY <2>3
    <3>5. Listed(found', WProducts(more), WHints(more))
      BY <1>5, <1>10, <3>1, <3>2, <3>3, <3>4
    <3>6. WKnows(more, found', hint', pending')
      BY <1>5, <1>8, <2>3, <2>4, <3>1, <3>2, <3>5
    <3>7. QED
      BY <3>6 DEF more
  <2>6. CASE x.fields # Full
    <3>1. pending' = [from |-> m, fields |-> x.fields, size |-> 1] /\ UNCHANGED found
      BY <2>1, <2>2, <2>6, FullResolves DEF ReadNumbered, m
    <3>2. Ended(more) = {} /\ WBegun(more, m)
      BY <1>2, <1>5, <1>7, <1>12, <2>4, <2>6
    <3>3. Listed(found', WProducts(more), WHints(more))
      BY <1>9, <3>1, <3>2
    <3>4. x.fields \in FieldSeq /\ 1 = m - m + 1
      BY <1>1, <2>1, FieldsSeq
    <3>5. WKnows(more, found', hint', pending')
      BY <1>5, <1>8, <2>3, <2>4, <3>1, <3>2, <3>3, <3>4
    <3>6. QED
      BY <3>5 DEF more
  <2>7. QED
    BY <2>5, <2>6
<1>13. CASE x.kind = "other"
  <2> DEFINE combined == Extended(pending.fields, x.fields)
  <2>1. x.fields \in Fields
    BY <1>13 DEF WoolworthsLine, Header, Category
  <2>2. ReadOther(x)
    BY <1>13 DEF ReadNumbered, ReadOther, ReadHeader, ReadCategory
  <2>3. hint' = WHint(more, m) /\ hint' = hint
    BY <1>2, <1>3, <1>13, <2>2 DEF ReadOther
  <2>4. ~WProduct(more, m, m) /\ ~WBegun(more, m)
    BY <1>2, <1>13
  <2>5. CASE pending = NoPending
    <3>1. UNCHANGED <<pending, found>>
      BY <2>2, <2>5 DEF ReadOther
    <3>2. p = 0
      BY <1>6, <2>5 DEF p
    <3>3. \A i \in 1..n : WBegun(lines, i) => n - i >= MaxPending
      BY <1>1, <1>3, <1>5, <3>2
    <3>4. \A i \in 1..n : ~WProduct(more, i, m) /\ (WBegun(more, i) => m - i >= MaxPending)
      BY <1>1, <1>2, <1>5, <3>3
    <3>5. Ended(more) = {}
      BY <1>5, <1>7, <2>4, <3>4
    <3>6. \A i \in 1..m : ~(WBegun(more, i) /\ m - i < MaxPending)
      BY <1>1, <1>5, <2>4, <3>4
    <3>7. WKnows(more, found', hint', pending')
      BY <1>8, <1>9, <2>3, <2>5, <3>1, <3>5, <3>6
    <3>8. QED
      BY <3>7 DEF more
  <2>6. CASE pending # NoPending
    <3>1. /\ p \in 1..n /\ WBegun(lines, p) /\ pending.fields \in FieldSeq /\ pending.size = n - p + 1
          /\ n - p < MaxPending
      BY <1>1, <1>3, <1>4, <1>5, <2>6
    <3>2. combined \in FieldSeq /\ (Resolves(combined) <=> x.fields = Full)
      BY <2>1, <3>1, ExtendedResolves
    <3>3. \A i \in 1..n : WProduct(more, i, m) <=> i = p /\ x.fields = Full
      BY <1>1, <1>2, <1>3, <1>5, <1>13, <3>1
    <3> HIDE DEF combined
    <3>4. CASE x.fields = Full
      <4>1. Emit(p) /\ pending' = NoPending
        BY <2>2, <2>6, <3>2, <3>4 DEF ReadOther, combined, p
      <4>2. Ended(more) = {p} /\ p \in 1..m
        BY <1>5, <1>7, <2>4, <3>1, <3>3, <3>4
      <4>3. \A i \in WProducts(lines) : i < p
        <5> SUFFICES ASSUME NEW i \in WProducts(lines) PROVE i < p
          OBVIOUS
        <5>1. PICK j \in i..n : WProduct(lines, i, j)
          BY <1>1 DEF WProducts
        <5>2. i \in 1..n /\ j \in 1..n
          BY <1>11
        <5>3. ~(i > p)
          <6>1. i > p => i \in p + 1..n
            BY <1>1, <5>2, <3>1
          <6>2. i > p => lines[i].kind = "other"
            BY <3>1, <6>1 DEF WBegun, n, lines
          <6>3. QED
            BY <5>1, <6>2 DEF WProduct
        <5>4. i # p
          <6>1. j \in i..j
            BY <5>1, <5>2
          <6>2. lines[j].fields = Full
            BY <5>1, <6>1 DEF WProduct
          <6>3. i = p => j \in p..n
            BY <5>1
          <6>4. QED
            BY <3>1, <6>2, <6>3 DEF WBegun, n, lines
        <5>5. QED
          BY <1>1, <3>1, <5>2, <5>3, <5>4
      <4>4. WHint(more, p) = hint
        <5>1. WHint(more, p) = WHint(lines, p)
          BY <1>2, <1>4
        <5>2. {k \in 1..p : lines[k].kind = "category"} = {k \in 1..n : lines[k].kind = "category"}
          <6>1. \A k \in 1..n : k \in 1..p \/ k \in p + 1..n
            BY <1>1, <3>1
          <6>2. \A k \in p + 1..n : lines[k].kind = "other"
            BY <3>1 DEF WBegun, n, lines
          <6>3. 1..p \subseteq 1..n
            BY <1>1, <3>1
          <6>4. QED
            BY <6>1, <6>2, <6>3
        <5>3. QED
          BY <1>3, <5>1, <5>2 DEF WHint
      <4>5. Listed(found', WProducts(more), WHints(more))
        BY <1>10, <4>1, <4>2, <4>3, <4>4
      <4>6. \A i \in 1..m : ~WBegun(more, i)
        BY <1>2, <1>5, <2>4, <3>4
      <4>7. WKnows(more, found', hint', pending')
        BY <1>8, <2>3, <4>1, <4>5, <4>6
      <4>8. QED
        BY <4>7 DEF more
    <3>5. CASE x.fields # Full
      <4>1. pending' = Buffered(combined) /\ UNCHANGED found
        BY <2>2, <2>6, <3>2, <3>5 DEF ReadOther, combined
      <4>2. Ended(more) = {}
        BY <1>5, <1>7, <2>4, <3>3, <3>5
      <4>3. Listed(found', WProducts(more), WHints(more))
        BY <1>9, <4>1, <4>2
      <4>4. \A i \in 1..m : WBegun(more, i) /\ m - i < MaxPending => i = p /\ n - p + 1 < MaxPending
        BY <1>1, <1>2, <1>3, <1>5, <2>4
      <4>5. CASE pending.size + 1 > MaxPending
        <5>1. pending' = NoPending
          BY <4>1, <4>5 DEF Buffered
        <5>2. ~(n - p + 1 < MaxPending)
          BY <1>1, <1>5, <3>1, <4>5
        <5>3. WKnows(more, found', hint', pending')
          BY <1>8, <2>3, <4>3, <4>4, <5>1, <5>2
        <5>4. QED
          BY <5>3 DEF more
      <4>6. CASE ~(pending.size + 1 > MaxPending)
        <5>1. pending' = [from |-> p, fields |-> combined, size |-> pending.size + 1]
          BY <1>4, <4>1, <4>6 DEF Buffered, p
        <5>2. WBegun(more, p) /\ pending.size + 1 = m - p + 1
          BY <1>1, <1>2, <1>13, <3>1, <3>5
        <5>3. WKnows(more, found', hint', pending')
          BY <1>8, <2>3, <3>2, <4>3, <4>4, <5>1, <5>2
        <5>4. QED
          BY <5>3 DEF more
      <4>7. QED
        BY <4>5, <4>6
    <3>6. QED
      BY <3>4, <3>5
  <2>7. QED
    BY <2>5, <2>6
<1>14. CASE x.kind \notin {"numbered", "other"}
  <2>1. pending' = NoPending /\ UNCHANGED found
    BY <1>14 DEF ReadNumbered, ReadOther, ReadHeader, ReadCategory
  <2>2. hint' = IF x.kind = "category" THEN x.name ELSE hint
    BY <1>14 DEF ReadNumbered, ReadOther, ReadHeader, ReadCategory
  <2>3. \A i \in 1..m : ~WProduct(more, i, m) /\ ~WBegun(more, i)
    BY <1>2, <1>5, <1>14
  <2>4. Ended(more) = {}
    BY <1>7, <2>3
  <2>5. WKnows(more, found', hint', pending')
    BY <1>2, <1>3, <1>8, <1>9, <2>1, <2>2, <2>3, <2>4
  <2>6. QED
    BY <2>5 DEF more
<1>15. QED
  BY <1>12, <1>13, <1>14

LEMMA LayoutInit == ParseInit => LayoutInv
<1> SUFFICES ASSUME ParseInit PROVE LayoutInv
  OBVIOUS
<1>1. text = <<>> /\ hint = "none" /\ pending = NoPending /\ found = <<>>
  BY DEF ParseInit
<1>2. Len(<<>>) = 0 /\ 1..0 = {} /\ <<>> \in Seq(Physical)
  OBVIOUS
<1>3. parseColes(text).found = <<>>
  <2> DEFINE lines == <<>>
  <2>1. lines \in Seq(Physical) /\ Len(lines) = 0
    BY <1>2
  <2> HIDE DEF lines
  <2>2. PICK st : ColesRun(lines, st)
    BY <2>1, ColesRuns
  <2>3. parseColes(lines) = ColesBegins
    BY <2>1, <2>2 DEF ColesRun
  <2>4. QED
    BY <1>1, <2>3 DEF ColesBegins, lines
<1>4. ASSUME retailer = "woolworths" PROVE LayoutInv
  <2>1. Listed(found, WProducts(text), WHints(text))
    BY <1>1, <1>2 DEF Listed, WProducts
  <2>2. WHint(text, Len(text)) = "none"
    BY <1>1, <1>2 DEF WHint, HintOf
  <2>3. WKnows(text, found, hint, pending)
    BY <1>1, <1>2, <2>1, <2>2 DEF WKnows
  <2>4. QED
    BY <1>4, <2>3, WoolworthsKnows
<1>5. QED
  BY <1>1, <1>3, <1>4 DEF LayoutInv, ParseInit

LEMMA LayoutNext == ParseInv /\ LayoutInv /\ ParseNext => LayoutInv'
<1> SUFFICES ASSUME ParseInv, LayoutInv, ParseNext PROVE LayoutInv'
  OBVIOUS
<1>1. retailer' = retailer
  BY DEF ParseNext
<1>2. CASE retailer = "woolworths" /\ parseWoolworths
  <2>1. PICK x \in WoolworthsLine :
          /\ text' = Append(text, x)
          /\ ReadNumbered(x) \/ ReadOther(x) \/ ReadHeader(x) \/ ReadCategory(x)
    BY <1>2 DEF parseWoolworths
  <2>2. WKnows(text, found, hint, pending)
    BY <1>2, WoolworthsKnows
  <2>3. WKnows(text', found', hint', pending')
    BY <2>1, <2>2, WoolworthsLearns
  <2>4. QED
    BY <1>1, <1>2, <2>3, WoolworthsKnowsNext
<1>3. CASE retailer = "coles" /\ ReadColes
  <2>1. found' = parseColes(text').found
    BY <1>3 DEF ReadColes
  <2>2. LayoutInv' <=> (retailer' = "coles" => found' = parseColes(text').found)
    <3>1. (parseColes(text).found)' = parseColes(text').found
      BY DEF parseColes, FoldLeftDomain, FoldLeft, MapThenFoldSet, ColesStep, Announced
    <3>2. QED
      BY <1>1, <1>3, <3>1 DEF LayoutInv
  <2>3. QED
    BY <2>1, <2>2
<1>4. QED
  BY <1>2, <1>3 DEF ParseNext

LEMMA LayoutStutter == LayoutInv /\ UNCHANGED parseVars => LayoutInv'
<1> SUFFICES ASSUME LayoutInv, UNCHANGED parseVars PROVE LayoutInv'
  OBVIOUS
<1>1. UNCHANGED <<retailer, text, hint, pending, found>>
  BY DEF parseVars
<1>2. CASE retailer = "woolworths"
  <2>1. WKnows(text', found', hint', pending')
    BY <1>1, <1>2, WoolworthsKnows
  <2>2. QED
    BY <1>1, <1>2, <2>1, WoolworthsKnowsNext
<1>3. CASE retailer # "woolworths"
  BY <1>1, <1>3 DEF LayoutInv
<1>4. QED
  BY <1>2, <1>3

LEMMA LaidOutRead == ParseInv /\ LayoutInv => ParsedAsLaidOut
<1> SUFFICES ASSUME ParseInv, LayoutInv PROVE ParsedAsLaidOut
  OBVIOUS
<1>1. CASE retailer = "woolworths"
  BY <1>1 DEF LayoutInv
<1>2. CASE retailer = "coles"
  BY <1>2, ColesLaidOut DEF LayoutInv, ParseInv
<1>3. CASE retailer = "unknown"
  <2>1. text = <<>> /\ found = <<>>
    BY <1>3 DEF LayoutInv
  <2>2. Len(<<>>) = 0 /\ 1..0 = {}
    OBVIOUS
  <2>3. Listed(found, Products, Hints)
    BY <2>1, <2>2 DEF Listed, Products
  <2>4. QED
    BY <2>3, LaidOutListed
<1>4. QED
  BY <1>1, <1>2, <1>3 DEF LayoutInv

------------------------------------------------------------------------------
(***************************************************************************)
(* The gaps of the log: what an entry adds to the lines of a copy, the     *)
(* lines of the weeks joined, what opening and pruning files do to them.   *)
(***************************************************************************)
LEMMA LinkedGapless ==
    ASSUME NEW s \in Seq(LogRecord), Linked(s)
    PROVE  Gapless(s)
<1> DEFINE n == Len(s)
<1>1. n \in Nat /\ \A i \in 1..n : s[i] \in LogRecord
  OBVIOUS
<1>2. \A i \in 1..n : s[i].event \in {"action", "log_overflow"} /\ s[i].n \in Nat
  BY <1>1 DEF LogRecord
<1>3. \A i \in 1..n - 1 :
        /\ s[i].event = "log_overflow" => s[i + 1].event = "action"
        /\ s[i].event = "action" /\ s[i + 1].event = "action" => s[i + 1].n = s[i].n + 1
        /\ s[i].event = "log_overflow" /\ i > 1 => s[i + 1].n = s[i - 1].n + 1 + s[i].n
  BY DEF Linked
<1> SUFFICES ASSUME NEW i \in 1..n, NEW j \in 1..n, i < j, s[i].event = "action", s[j].event = "action",
                    \A k \in i + 1..j - 1 : s[k].event = "log_overflow"
             PROVE  s[j].n = s[i].n + 1 + (IF j = i + 1 THEN 0 ELSE s[i + 1].n) /\ j <= i + 2
  BY DEF Gapless
<1> HIDE DEF n
<1>4. i \in 1..n - 1 /\ i + 1 \in 1..n
  BY <1>1
<1>5. CASE j = i + 1
  <2>1. s[j].n = s[i].n + 1 /\ s[i].n \in Nat
    BY <1>2, <1>3, <1>4, <1>5
  <2>2. s[i].n + 1 + 0 = s[i].n + 1 /\ j <= i + 2
    BY <1>1, <1>5, <2>1
  <2>3. QED
    BY <1>5, <2>1, <2>2
<1>6. CASE j = i + 2
  <2>1. i + 1 \in i + 1..j - 1 /\ i + 1 \in 1..n - 1 /\ i + 1 > 1 /\ (i + 1) + 1 = j /\ (i + 1) - 1 = i /\ j # i + 1 /\ j <= i + 2
    BY <1>1, <1>6
  <2>2. s[i + 1].event = "log_overflow"
    BY <2>1
  <2>3. s[(i + 1) + 1].n = s[(i + 1) - 1].n + 1 + s[i + 1].n
    BY <1>3, <2>1, <2>2
  <2>4. QED
    BY <2>1, <2>3
<1>7. CASE j > i + 2
  <2>1. i + 1 \in i + 1..j - 1 /\ (i + 1) + 1 \in i + 1..j - 1 /\ i + 1 \in 1..n - 1
    BY <1>1, <1>7
  <2>2. s[i + 1].event = "log_overflow" /\ s[(i + 1) + 1].event = "log_overflow"
    BY <2>1
  <2>3. QED
    BY <1>3, <2>1, <2>2
<1>8. QED
  BY <1>1, <1>5, <1>6, <1>7

\* What is linked stays so when it is cut at either end.
LEMMA LinkedPrefix ==
    ASSUME NEW s \in Seq(LogRecord), NEW t \in Seq(LogRecord), Linked(s \o t)
    PROVE  Linked(s)
<1> DEFINE u == s \o t
           n == Len(s)
<1>1. n \in Nat /\ Len(t) \in Nat /\ Len(u) = n + Len(t)
  OBVIOUS
<1>2. \A i \in 1..n : u[i] = s[i]
  BY ConcatProperties
<1>3. Linked(u)
  OBVIOUS
<1> HIDE DEF u
<1> SUFFICES ASSUME NEW i \in 1..n - 1
             PROVE  /\ s[i].event = "log_overflow" => s[i + 1].event = "action"
                    /\ s[i].event = "action" /\ s[i + 1].event = "action" => s[i + 1].n = s[i].n + 1
                    /\ s[i].event = "log_overflow" /\ i > 1 => s[i + 1].n = s[i - 1].n + 1 + s[i].n
  BY DEF Linked
<1> HIDE DEF n
<1>4. i \in 1..Len(u) - 1 /\ i \in 1..n /\ i + 1 \in 1..n /\ (i > 1 => i - 1 \in 1..n)
  BY <1>1
<1>5. u[i] = s[i] /\ u[i + 1] = s[i + 1] /\ (i > 1 => u[i - 1] = s[i - 1])
  BY <1>2, <1>4
<1>6. QED
  BY <1>3, <1>4, <1>5 DEF Linked

LEMMA LinkedSuffix ==
    ASSUME NEW s \in Seq(LogRecord), NEW t \in Seq(LogRecord), Linked(s \o t)
    PROVE  Linked(t)
<1> DEFINE u == s \o t
           n == Len(s)
           m == Len(t)
<1>1. n \in Nat /\ m \in Nat /\ Len(u) = n + m
  OBVIOUS
<1>2. \A i \in 1..n + m : u[i] = IF i <= n THEN s[i] ELSE t[i - n]
  BY ConcatProperties
<1>3. Linked(u)
  OBVIOUS
<1> SUFFICES ASSUME NEW i \in 1..m - 1
             PROVE  /\ t[i].event = "log_overflow" => t[i + 1].event = "action"
                    /\ t[i].event = "action" /\ t[i + 1].event = "action" => t[i + 1].n = t[i].n + 1
                    /\ t[i].event = "log_overflow" /\ i > 1 => t[i + 1].n = t[i - 1].n + 1 + t[i].n
  BY DEF Linked
<1> HIDE DEF u, n, m
<1>4. \A j \in 1..m : u[n + j] = t[j]
  <2> SUFFICES ASSUME NEW j \in 1..m PROVE u[n + j] = t[j]
    OBVIOUS
  <2>1. n + j \in 1..n + m /\ ~(n + j <= n) /\ (n + j) - n = j
    BY <1>1
  <2>2. QED
    BY <1>2, <2>1
<1> DEFINE k == n + i
<1>5. k \in 1..Len(u) - 1 /\ k + 1 = n + (i + 1) /\ k - 1 = n + (i - 1) /\ i \in 1..m /\ i + 1 \in 1..m
      /\ (i > 1 => i - 1 \in 1..m /\ k > 1)
  BY <1>1
<1>6. u[k] = t[i] /\ u[k + 1] = t[i + 1] /\ (i > 1 => u[k - 1] = t[i - 1])
  BY <1>4, <1>5
<1> HIDE DEF k
<1>7. /\ u[k].event = "log_overflow" => u[k + 1].event = "action"
      /\ u[k].event = "action" /\ u[k + 1].event = "action" => u[k + 1].n = u[k].n + 1
      /\ u[k].event = "log_overflow" /\ k > 1 => u[k + 1].n = u[k - 1].n + 1 + u[k].n
  BY <1>3, <1>5 DEF Linked
<1>8. QED
  BY <1>5, <1>6, <1>7

\* What a bounded write adds, and what the lines are then.
Added(count, n) == (IF count > 0 THEN <<Overflow(count)>> ELSE <<>>) \o <<Entry(n)>>
UpTo(s, count, n) == s # <<>> => s[Len(s)].event = "action" /\ s[Len(s)].n + count = n

LEMMA AddedTyped ==
    ASSUME NEW count \in Nat, NEW n \in Nat
    PROVE  Added(count, n) \in Seq(LogRecord)
<1>1. Entry(n) \in LogRecord /\ Overflow(count) \in LogRecord
  BY RecordTyped
<1> DEFINE lost == IF count > 0 THEN <<Overflow(count)>> ELSE <<>>
<1>2. lost \in Seq(LogRecord) /\ <<Entry(n)>> \in Seq(LogRecord)
  BY <1>1
<1> HIDE DEF lost
<1>3. lost \o <<Entry(n)>> \in Seq(LogRecord)
  BY <1>2
<1>4. QED
  BY <1>3 DEF Added, lost

LEMMA BufferIs ==
    ASSUME NEW b \in Seq(LogRecord), NEW count \in Nat, NEW n \in Nat
    PROVE  /\ Accepts(b) => Buffer(b, count, Entry(n)) = b \o Added(count, n) /\ Count(b, count) = 0
           /\ ~Accepts(b) => Buffer(b, count, Entry(n)) = b /\ Count(b, count) = count + 1
<1>1. Entry(n) \in LogRecord /\ Overflow(count) \in LogRecord
  BY RecordTyped
<1> DEFINE lost == IF count > 0 THEN <<Overflow(count)>> ELSE <<>>
<1>2. lost \in Seq(LogRecord) /\ <<Entry(n)>> \in Seq(LogRecord)
  BY <1>1
<1>3. Added(count, n) = lost \o <<Entry(n)>>
  BY DEF Added
<1>4. Buffer(b, count, Entry(n)) = IF ~Accepts(b) THEN b ELSE (b \o lost) \o <<Entry(n)>>
  BY DEF Buffer
<1> HIDE DEF lost
<1>5. (b \o lost) \o <<Entry(n)>> = b \o (lost \o <<Entry(n)>>)
  BY <1>2, ConcatAssociative
<1>6. QED
  BY <1>3, <1>4, <1>5 DEF Count

LongerBy(t, s, count, n) ==
    /\ t \in Seq(LogRecord)
    /\ Len(t) = Len(s) + (IF count > 0 THEN 2 ELSE 1)
    /\ \A i \in 1..Len(s) : t[i] = s[i]
    /\ t[Len(t)] = Entry(n)
    /\ count > 0 => t[Len(s) + 1] = Overflow(count)

LEMMA AddedLines ==
    ASSUME NEW s \in Seq(LogRecord), NEW count \in Nat, NEW n \in Nat, NEW t, t = s \o Added(count, n)
    PROVE  LongerBy(t, s, count, n)
<1>1. Entry(n) \in LogRecord /\ Overflow(count) \in LogRecord
  BY RecordTyped
<1>2. CASE count > 0
  <2> DEFINE a == <<Overflow(count)>> \o <<Entry(n)>>
  <2>1. Added(count, n) = a
    BY <1>2 DEF Added
  <2>2. a \in Seq(LogRecord) /\ Len(a) = 2 /\ a[1] = Overflow(count) /\ a[2] = Entry(n)
    BY <1>1
  <2> HIDE DEF a
  <2>3. t = s \o a
    BY <2>1
  <2>4. t \in Seq(LogRecord) /\ Len(t) = Len(s) + 2 /\ \A i \in 1..Len(s) + 2 : t[i] = IF i <= Len(s) THEN s[i] ELSE a[i - Len(s)]
    <3> DEFINE u == s \o a
    <3>1. /\ u \in Seq(LogRecord) /\ Len(u) = Len(s) + Len(a)
          /\ \A i \in 1..Len(s) + Len(a) : u[i] = IF i <= Len(s) THEN s[i] ELSE a[i - Len(s)]
      BY <2>2, ConcatProperties
    <3>2. t = u
      BY <2>3
    <3> HIDE DEF u
    <3>3. QED
      BY <2>2, <3>1, <3>2, Zenon
  <2>5. Len(s) \in Nat
    OBVIOUS
  <2> DEFINE m == Len(s)
  <2> HIDE DEF m
  <2>6. m + 1 \in 1..m + 2 /\ m + 2 \in 1..m + 2 /\ ~(m + 1 <= m) /\ ~(m + 2 <= m) /\ (m + 1) - m = 1 /\ (m + 2) - m = 2
        /\ \A i \in 1..m : i \in 1..m + 2 /\ i <= m
    BY <2>5 DEF m
  <2>7. QED
    BY <1>2, <2>2, <2>4, <2>6 DEF m, LongerBy
<1>3. CASE ~(count > 0)
  <2> DEFINE a == <<Entry(n)>>
  <2>1. Added(count, n) = <<>> \o a
    BY <1>3 DEF Added
  <2>2. a \in Seq(LogRecord) /\ Len(a) = 1 /\ a[1] = Entry(n) /\ <<>> \o a = a
    BY <1>1
  <2> HIDE DEF a
  <2>3. t = s \o a
    BY <2>1, <2>2
  <2>4. t \in Seq(LogRecord) /\ Len(t) = Len(s) + 1 /\ \A i \in 1..Len(s) + 1 : t[i] = IF i <= Len(s) THEN s[i] ELSE a[i - Len(s)]
    <3> DEFINE u == s \o a
    <3>1. /\ u \in Seq(LogRecord) /\ Len(u) = Len(s) + Len(a)
          /\ \A i \in 1..Len(s) + Len(a) : u[i] = IF i <= Len(s) THEN s[i] ELSE a[i - Len(s)]
      BY <2>2, ConcatProperties
    <3>2. t = u
      BY <2>3
    <3> HIDE DEF u
    <3>3. QED
      BY <2>2, <3>1, <3>2, Zenon
  <2>5. Len(s) \in Nat
    OBVIOUS
  <2> DEFINE m == Len(s)
  <2> HIDE DEF m
  <2>6. m + 1 \in 1..m + 1 /\ ~(m + 1 <= m) /\ (m + 1) - m = 1 /\ \A i \in 1..m : i \in 1..m + 1 /\ i <= m
    BY <2>5 DEF m
  <2>7. QED
    BY <1>3, <2>2, <2>4, <2>6 DEF m, LongerBy
<1>4. QED
  BY <1>2, <1>3

LEMMA LinkedMore ==
    ASSUME NEW s \in Seq(LogRecord), NEW count \in Nat, NEW n \in Nat, Linked(s), UpTo(s, count, n)
    PROVE  Linked(s \o Added(count, n + 1)) /\ UpTo(s \o Added(count, n + 1), 0, n + 1)
<1> DEFINE t == s \o Added(count, n + 1)
           m == Len(s)
<1>0. n + 1 \in Nat /\ m \in Nat
  OBVIOUS
<1>1. /\ t \in Seq(LogRecord)
      /\ Len(t) = m + (IF count > 0 THEN 2 ELSE 1)
      /\ \A i \in 1..m : t[i] = s[i]
      /\ t[Len(t)] = Entry(n + 1)
      /\ count > 0 => t[m + 1] = Overflow(count)
  <2> DEFINE k == n + 1
  <2>1. k \in Nat /\ t = s \o Added(count, k)
    OBVIOUS
  <2> HIDE DEF k, t
  <2>2. LongerBy(t, s, count, k)
    BY <2>1, AddedLines
  <2>3. QED
    BY <2>2 DEF LongerBy, k
<1>2. \A i \in 1..m - 1 :
        /\ s[i].event = "log_overflow" => s[i + 1].event = "action"
        /\ s[i].event = "action" /\ s[i + 1].event = "action" => s[i + 1].n = s[i].n + 1
        /\ s[i].event = "log_overflow" /\ i > 1 => s[i + 1].n = s[i - 1].n + 1 + s[i].n
  BY DEF Linked
<1>3. m > 0 => s[m].event = "action" /\ s[m].n + count = n /\ s[m].n \in Nat
  <2>1. m > 0 => s # <<>> /\ s[m] \in LogRecord
    OBVIOUS
  <2>2. QED
    BY <2>1 DEF UpTo, LogRecord
<1> HIDE DEF t, m
<1>4. \A i \in 1..m - 1 : i \in 1..m /\ i + 1 \in 1..m /\ (i > 1 => i - 1 \in 1..m)
  BY <1>0
<1>5. ASSUME NEW i \in 1..m - 1
      PROVE  /\ t[i].event = "log_overflow" => t[i + 1].event = "action"
             /\ t[i].event = "action" /\ t[i + 1].event = "action" => t[i + 1].n = t[i].n + 1
             /\ t[i].event = "log_overflow" /\ i > 1 => t[i + 1].n = t[i - 1].n + 1 + t[i].n
  <2>1. t[i] = s[i] /\ t[i + 1] = s[i + 1] /\ (i > 1 => t[i - 1] = s[i - 1])
    BY <1>1, <1>4
  <2>2. QED
    BY <1>2, <2>1
<1>6. Linked(t)
  <2>1. CASE count > 0
    <3>1. Len(t) = m + 2 /\ t[m + 2] = Entry(n + 1) /\ t[m + 1] = Overflow(count)
      BY <1>1, <2>1
    <3>2. /\ t[m + 1].event = "log_overflow" /\ t[m + 1].n = count
          /\ t[m + 2].event = "action" /\ t[m + 2].n = n + 1
      BY <3>1 DEF Entry, Overflow
    <3>3. m > 0 => t[m].event = "action" /\ t[m].n = n - count
      <4> SUFFICES ASSUME m > 0 PROVE t[m].event = "action" /\ t[m].n = n - count
        OBVIOUS
      <4>1. m \in 1..m
        BY <1>0
      <4>2. t[m] = s[m]
        BY <1>1, <4>1
      <4> DEFINE last == s[m].n
      <4>3. last \in Nat /\ last + count = n /\ t[m].n = last /\ t[m].event = "action"
        BY <1>3, <4>2
      <4> HIDE DEF last
      <4>4. last = n - count
        BY <4>3
      <4>5. QED
        BY <4>3, <4>4
    <3>4. \A i \in 1..(m + 2) - 1 : i \in 1..m - 1 \/ (i = m /\ m > 0) \/ i = m + 1
      BY <1>0
    <3> SUFFICES ASSUME NEW i \in 1..(m + 2) - 1
                 PROVE  /\ t[i].event = "log_overflow" => t[i + 1].event = "action"
                        /\ t[i].event = "action" /\ t[i + 1].event = "action" => t[i + 1].n = t[i].n + 1
                        /\ t[i].event = "log_overflow" /\ i > 1 => t[i + 1].n = t[i - 1].n + 1 + t[i].n
      BY <3>1 DEF Linked
    <3>5. CASE i = m /\ m > 0
      BY <3>2, <3>3, <3>5
    <3>6. CASE i = m + 1
      <4>1. i + 1 = m + 2 /\ i - 1 = m /\ (i > 1 => m > 0)
        BY <1>0, <3>6
      <4>2. i > 1 => t[m + 2].n = t[m].n + 1 + t[m + 1].n
        BY <1>0, <3>2, <3>3, <4>1
      <4>3. QED
        BY <3>2, <3>6, <4>1, <4>2
    <3>7. QED
      BY <1>5, <3>4, <3>5, <3>6
  <2>2. CASE ~(count > 0)
    <3>1. Len(t) = m + 1 /\ t[m + 1] = Entry(n + 1) /\ count = 0
      BY <1>1, <2>2
    <3>2. t[m + 1].event = "action" /\ t[m + 1].n = n + 1
      BY <3>1 DEF Entry
    <3>3. m > 0 => t[m].event = "action" /\ t[m].n = n
      <4>1. m > 0 => m \in 1..m
        BY <1>0
      <4>2. QED
        BY <1>1, <1>3, <3>1, <4>1
    <3>4. \A i \in 1..(m + 1) - 1 : i \in 1..m - 1 \/ (i = m /\ m > 0)
      BY <1>0
    <3> SUFFICES ASSUME NEW i \in 1..(m + 1) - 1
                 PROVE  /\ t[i].event = "log_overflow" => t[i + 1].event = "action"
                        /\ t[i].event = "action" /\ t[i + 1].event = "action" => t[i + 1].n = t[i].n + 1
                        /\ t[i].event = "log_overflow" /\ i > 1 => t[i + 1].n = t[i - 1].n + 1 + t[i].n
      BY <3>1 DEF Linked
    <3>5. CASE i = m /\ m > 0
      BY <3>2, <3>3, <3>5
    <3>6. QED
      BY <1>5, <3>4, <3>5
  <2>3. QED
    BY <2>1, <2>2
<1>7. UpTo(t, 0, n + 1)
  BY <1>0, <1>1 DEF UpTo, Entry
<1>8. QED
  BY <1>6, <1>7 DEF t

\* Joining is associative.
Assoc(T) == \A s, t, u \in Seq(T) : s \o (t \o u) = (s \o t) \o u

LEMMA Regrouped == \A T : Assoc(T)
<1>1. ASSUME NEW T, NEW s \in Seq(T), NEW t \in Seq(T), NEW u \in Seq(T) PROVE s \o (t \o u) = (s \o t) \o u
  BY ConcatAssociative
<1>2. QED
  BY <1>1 DEF Assoc

LEMMA CountUp ==
    ASSUME NEW n \in Nat \ {0}, NEW S, 1 \in S, \A i \in 1..n : i \in S /\ i < n => i + 1 \in S
    PROVE  n \in S
<1> DEFINE good == {i \in Nat : i + 1 <= n => i + 1 \in S}
<1>1. 0 \in good
  OBVIOUS
<1>2. \A i \in Nat : i \in good => i + 1 \in good
  OBVIOUS
<1>3. n - 1 \in Nat /\ (n - 1) + 1 = n
  OBVIOUS
<1>4. n - 1 \in good
  <2> HIDE DEF good
  <2> QED BY <1>1, <1>2, <1>3, InductiveSet
<1>5. QED
  BY <1>3, <1>4

\* The weeks' lines, joined: what they are together when a week gets more and
\* when the first weeks lose all.
JoinedBy(f, ss, n, T) ==
    /\ f \in [1..n -> Seq(T)] /\ f[1] = ss[1]
    /\ \A i \in 1..n : i < n => f[i + 1] = f[i] \o ss[i + 1]
    /\ FlattenSeq(ss) = f[n]

LEMMA RowsJoined ==
    ASSUME NEW T, NEW n \in Nat \ {0}, NEW ss \in [1..n -> Seq(T)]
    PROVE  \E f : JoinedBy(f, ss, n, T)
<1>1. ss \in Seq(Seq(T)) /\ Len(ss) = n
  OBVIOUS
<1>2. PICK f : Joins(f, ss, T)
  BY <1>1, Joined
<1>3. /\ f \in [1..n -> Seq(T)] /\ f[1] = ss[1] /\ FlattenSeq(ss) = f[n]
      /\ \A i \in 1..n : i + 1 \in 1..n => f[i + 1] = f[i] \o ss[i + 1]
  BY <1>1, <1>2 DEF Joins
<1>4. \A i \in 1..n : i < n => i + 1 \in 1..n
  OBVIOUS
<1>5. JoinedBy(f, ss, n, T)
  BY <1>3, <1>4 DEF JoinedBy
<1>6. QED
  BY <1>5

LEMMA FlatTyped ==
    ASSUME NEW T, NEW n \in Nat \ {0}, NEW ss \in [1..n -> Seq(T)]
    PROVE  FlattenSeq(ss) \in Seq(T)
<1>1. PICK f : JoinedBy(f, ss, n, T)
  BY RowsJoined
<1>2. n \in 1..n
  OBVIOUS
<1>3. QED
  BY <1>1, <1>2 DEF JoinedBy

\* The k-th gets a, and none comes after it.
MoreAt(ss, tt, n, k, a) ==
    /\ tt[k] = ss[k] \o a
    /\ \A j \in 1..n : j < k => tt[j] = ss[j]
    /\ \A j \in 1..n : j > k => ss[j] = <<>> /\ tt[j] = <<>>

FlatLonger(ss, tt, a) == FlattenSeq(tt) = FlattenSeq(ss) \o a

LEMMA FlatMore ==
    ASSUME NEW T, NEW n \in Nat \ {0}, NEW ss \in [1..n -> Seq(T)], NEW tt \in [1..n -> Seq(T)],
           NEW k \in 1..n, NEW a \in Seq(T), MoreAt(ss, tt, n, k, a)
    PROVE  FlatLonger(ss, tt, a)
<1>0. /\ tt[k] = ss[k] \o a
      /\ \A j \in 1..n : j < k => tt[j] = ss[j]
      /\ \A j \in 1..n : j > k => ss[j] = <<>> /\ tt[j] = <<>>
  BY DEF MoreAt
<1>1. PICK f : JoinedBy(f, ss, n, T)
  BY RowsJoined
<1>2. PICK g : JoinedBy(g, tt, n, T)
  BY RowsJoined
<1>3. /\ f \in [1..n -> Seq(T)] /\ f[1] = ss[1] /\ FlattenSeq(ss) = f[n]
      /\ \A i \in 1..n : i < n => f[i + 1] = f[i] \o ss[i + 1]
  BY <1>1 DEF JoinedBy
<1>4. /\ g \in [1..n -> Seq(T)] /\ g[1] = tt[1] /\ FlattenSeq(tt) = g[n]
      /\ \A i \in 1..n : i < n => g[i + 1] = g[i] \o tt[i + 1]
  BY <1>2 DEF JoinedBy
<1> DEFINE good == {j \in 1..n : (j < k => g[j] = f[j]) /\ (j >= k => g[j] = f[j] \o a)}
<1>5. 1 \in good
  <2>1. 1 \in 1..n /\ (1 < k \/ (1 = k /\ ~(1 < k)))
    OBVIOUS
  <2>2. CASE 1 < k
    BY <1>0, <1>3, <1>4, <2>1, <2>2
  <2>3. CASE 1 = k
    BY <1>0, <1>3, <1>4, <2>1, <2>3
  <2>4. QED
    BY <2>1, <2>2, <2>3
<1>6. ASSUME NEW j \in 1..n, j \in good, j < n PROVE j + 1 \in good
  <2>1. (j < k => g[j] = f[j]) /\ (j >= k => g[j] = f[j] \o a)
    BY <1>6
  <2>2. PICK l \in 1..n : l = j + 1
    BY <1>6
  <2>3. f[l] = f[j] \o ss[l] /\ g[l] = g[j] \o tt[l]
    BY <1>3, <1>4, <1>6, <2>2
  <2>4. f[j] \in Seq(T) /\ g[j] \in Seq(T) /\ ss[l] \in Seq(T)
    BY <1>3, <1>4
  <2>5. CASE l < k
    <3>1. j < k /\ tt[l] = ss[l] /\ ~(l >= k)
      BY <1>0, <2>2, <2>5
    <3>2. g[l] = f[l]
      BY <2>1, <2>3, <3>1
    <3>3. QED
      BY <2>2, <3>1, <3>2
  <2>6. CASE l = k
    <3>1. j < k /\ ~(l < k)
      BY <2>2, <2>6
    <3>2. g[l] = f[j] \o (ss[l] \o a)
      BY <1>0, <2>1, <2>3, <2>6, <3>1
    <3>3. f[j] \o (ss[l] \o a) = (f[j] \o ss[l]) \o a
      <4>1. Assoc(T)
        BY Regrouped
      <4>2. \A x, y \in Seq(T) : x \o (y \o a) = (x \o y) \o a
        BY <4>1 DEF Assoc
      <4>3. QED
        BY <2>4, <4>2, Zenon
    <3>4. g[l] = f[l] \o a
      BY <2>3, <3>2, <3>3
    <3>5. QED
      BY <2>2, <3>1, <3>4
  <2>7. CASE l > k
    <3>1. j >= k /\ ss[l] = <<>> /\ tt[l] = <<>> /\ ~(l < k)
      BY <1>0, <2>2, <2>7
    <3>2. f[l] = f[j] /\ g[l] = g[j]
      BY <2>3, <2>4, <3>1, ConcatEmptySeq
    <3>3. g[l] = f[l] \o a
      BY <2>1, <3>1, <3>2
    <3>4. QED
      BY <2>2, <3>1, <3>3
  <2>8. l < k \/ l = k \/ l > k
    BY <2>2
  <2> HIDE DEF good
  <2>9. QED
    BY <2>5, <2>6, <2>7, <2>8
<1>7. n \in good
  <2> HIDE DEF good
  <2> QED BY <1>5, <1>6, CountUp
<1>8. n >= k
  OBVIOUS
<1>9. QED
  BY <1>3, <1>4, <1>7, <1>8 DEF FlatLonger

\* The first p lose all.
FewerAt(ss, tt, n, p) ==
    /\ \A j \in 1..n : j <= p => tt[j] = <<>>
    /\ \A j \in 1..n : j > p => tt[j] = ss[j]

FlatShorter(ss, tt, T) == \E u \in Seq(T) : FlattenSeq(ss) = u \o FlattenSeq(tt)

LEMMA FlatFewer ==
    ASSUME NEW T, NEW n \in Nat \ {0}, NEW ss \in [1..n -> Seq(T)], NEW tt \in [1..n -> Seq(T)],
           NEW p \in 0..n, FewerAt(ss, tt, n, p)
    PROVE  FlatShorter(ss, tt, T)
<1>0. /\ \A j \in 1..n : j <= p => tt[j] = <<>>
      /\ \A j \in 1..n : j > p => tt[j] = ss[j]
  BY DEF FewerAt
<1>1. PICK f : JoinedBy(f, ss, n, T)
  BY RowsJoined
<1>2. PICK g : JoinedBy(g, tt, n, T)
  BY RowsJoined
<1>3. /\ f \in [1..n -> Seq(T)] /\ f[1] = ss[1] /\ FlattenSeq(ss) = f[n]
      /\ \A i \in 1..n : i < n => f[i + 1] = f[i] \o ss[i + 1]
  BY <1>1 DEF JoinedBy
<1>4. /\ g \in [1..n -> Seq(T)] /\ g[1] = tt[1] /\ FlattenSeq(tt) = g[n]
      /\ \A i \in 1..n : i < n => g[i + 1] = g[i] \o tt[i + 1]
  BY <1>2 DEF JoinedBy
<1>5. CASE p = 0
  <2>1. tt = ss
    <3>1. \A j \in 1..n : tt[j] = ss[j]
      BY <1>0, <1>5
    <3>2. QED
      BY <3>1
  <2>2. FlattenSeq(ss) \in Seq(T) /\ <<>> \in Seq(T)
    BY FlatTyped
  <2>3. FlattenSeq(ss) = <<>> \o FlattenSeq(tt)
    BY <2>1, <2>2, ConcatEmptySeq
  <2>4. QED
    BY <2>2, <2>3 DEF FlatShorter
<1>6. CASE p # 0
  <2>1. p \in 1..n /\ f[p] \in Seq(T)
    BY <1>3, <1>6
  <2>2. f[p] \o <<>> = f[p] /\ <<>> \o <<>> = <<>>
    <3>1. <<>> \in Seq(T)
      OBVIOUS
    <3>2. QED
      BY <2>1, <3>1, ConcatEmptySeq
  <2> DEFINE good == {j \in 1..n : (j <= p => g[j] = <<>>) /\ (j >= p => f[j] = f[p] \o g[j])}
  <2>3. 1 \in good
    <3>1. 1 \in 1..n /\ 1 <= p /\ (1 >= p => p = 1)
      BY <2>1
    <3>2. g[1] = <<>>
      BY <1>0, <1>4, <3>1
    <3>3. 1 >= p => f[1] = f[p] \o g[1]
      BY <2>2, <3>1, <3>2
    <3>4. QED
      BY <3>1, <3>2, <3>3
  <2>4. ASSUME NEW j \in 1..n, j \in good, j < n PROVE j + 1 \in good
    <3>1. (j <= p => g[j] = <<>>) /\ (j >= p => f[j] = f[p] \o g[j])
      BY <2>4
    <3>2. PICK l \in 1..n : l = j + 1
      BY <2>4
    <3>3. f[l] = f[j] \o ss[l] /\ g[l] = g[j] \o tt[l]
      BY <1>3, <1>4, <2>4, <3>2
    <3>4. f[j] \in Seq(T) /\ g[j] \in Seq(T) /\ ss[l] \in Seq(T)
      BY <1>3, <1>4
    <3>5. l <= p => g[l] = <<>>
      <4> SUFFICES ASSUME l <= p PROVE g[l] = <<>>
        OBVIOUS
      <4>1. j <= p /\ tt[l] = <<>>
        BY <1>0, <3>2
      <4>2. QED
        BY <2>2, <3>1, <3>3, <4>1
    <3>6. CASE l > p
      <4>1. j >= p /\ tt[l] = ss[l] /\ ~(l <= p)
        BY <1>0, <3>2, <3>6
      <4>2. f[l] = (f[p] \o g[j]) \o ss[l]
        BY <3>1, <3>3, <4>1
      <4>3. (f[p] \o g[j]) \o ss[l] = f[p] \o (g[j] \o ss[l])
        <5>1. Assoc(T)
          BY Regrouped
        <5>2. \A x, y, z \in Seq(T) : x \o (y \o z) = (x \o y) \o z
          BY <5>1 DEF Assoc
        <5>3. f[p] \o (g[j] \o ss[l]) = (f[p] \o g[j]) \o ss[l]
          BY <2>1, <3>4, <5>2, Zenon
        <5>4. QED
          BY <5>3, Zenon
      <4>4. f[l] = f[p] \o g[l]
        BY <3>3, <4>1, <4>2, <4>3
      <4>5. QED
        BY <3>2, <4>1, <4>4
    <3>7. CASE l = p
      <4>1. g[l] = <<>>
        BY <3>5, <3>7
      <4>2. f[l] = f[p] \o g[l]
        BY <2>2, <3>7, <4>1
      <4>3. QED
        BY <3>2, <4>1, <4>2
    <3>8. CASE l < p
      <4>1. g[l] = <<>> /\ ~(l >= p)
        BY <3>5, <3>8
      <4>2. QED
        BY <3>2, <4>1
    <3>9. l > p \/ l = p \/ l < p
      BY <2>1, <3>2
    <3> HIDE DEF good
    <3>10. QED
      BY <3>6, <3>7, <3>8, <3>9
  <2>5. n \in good
    <3> HIDE DEF good
    <3> QED BY <2>3, <2>4, CountUp
  <2>6. n >= p
    OBVIOUS
  <2>7. QED
    BY <1>3, <1>4, <2>1, <2>5, <2>6 DEF FlatShorter
<1>7. QED
  BY <1>5, <1>6

\* The lines of a week that its ended stream still holds.
Waiting(en, w) == FlattenSeq(SetToSeq({s.buffer : s \in {e \in en : e.week = w}}))

LEMMA NoneWaiting ==
    ASSUME NEW en, NEW w, \A e \in en : e.week # w
    PROVE  Waiting(en, w) = <<>>
<1>1. {s.buffer : s \in {e \in en : e.week = w}} = {}
  OBVIOUS
<1>2. SetToSeq({}) = <<>>
  <2>1. Cardinality({}) = 0 /\ 1..0 = {}
    BY FS_EmptySet
  <2> DEFINE F == [1..Cardinality({}) -> {}]
  <2>2. F = {<<>>}
    <3>1. [{} -> {}] = {<<>>}
      <4>1. <<>> \in Seq({}) /\ Len(<<>>) = 0 /\ 1..0 = {}
        OBVIOUS
      <4>2. <<>> \in [{} -> {}]
        BY <4>1
      <4>3. \A f, g \in [{} -> {}] : f = g
        OBVIOUS
      <4>4. QED
        BY <4>2, <4>3
    <3>2. QED
      BY <2>1, <3>1, Zenon
  <2>3. IsInjective(<<>>)
    BY DEF IsInjective
  <2> HIDE DEF F
  <2>4. (CHOOSE f \in F : IsInjective(f)) \in F
    BY <2>2, <2>3
  <2>5. QED
    BY <2>2, <2>4 DEF SetToSeq, F
<1>3. Len(<<>>) = 0
  OBVIOUS
<1>4. FlattenSeq(<<>>) = <<>>
  BY <1>3 DEF FlattenSeq
<1>5. QED
  BY <1>1, <1>2, <1>4 DEF Waiting

LEMMA OneWaiting ==
    ASSUME NEW en, NEW s \in en, \A e \in en : e.week = s.week => e = s, s.buffer \in Seq(LogRecord)
    PROVE  Waiting(en, s.week) = s.buffer
<1> DEFINE b == s.buffer
<1>1. {e.buffer : e \in {d \in en : d.week = s.week}} = {b}
  <2>1. {d \in en : d.week = s.week} = {s}
    OBVIOUS
  <2>2. QED
    BY <2>1
<1> HIDE DEF b
<1>2. SetToSeq({b}) = <<b>>
  <2>1. Cardinality({b}) = 1 /\ 1..1 = {1}
    <3>1. Cardinality({b}) = 1
      BY FS_Singleton
    <3>2. QED
      BY <3>1
  <2> DEFINE F == [1..Cardinality({b}) -> {b}]
  <2>2. F = [{1} -> {b}]
    BY <2>1
  <2>3. <<b>> \in [{1} -> {b}] /\ \A f \in [{1} -> {b}] : f = <<b>>
    OBVIOUS
  <2>4. IsInjective(<<b>>)
    BY DEF IsInjective
  <2> HIDE DEF F
  <2>5. (CHOOSE f \in F : IsInjective(f)) \in F
    BY <2>2, <2>3, <2>4
  <2>6. QED
    BY <2>2, <2>3, <2>5 DEF SetToSeq, F
<1>3. FlattenSeq(<<b>>) = b
  <2> DEFINE ss == <<b>>
  <2>1. ss \in [1..1 -> Seq(LogRecord)] /\ 1 \in Nat \ {0} /\ ss[1] = b
    BY DEF b
  <2> HIDE DEF ss
  <2>2. PICK f : JoinedBy(f, ss, 1, LogRecord)
    BY <2>1, RowsJoined
  <2>3. FlattenSeq(ss) = b
    BY <2>1, <2>2 DEF JoinedBy
  <2>4. QED
    BY <2>3 DEF ss
<1>4. QED
  BY <1>1, <1>2, <1>3 DEF Waiting, b

LEMMA AddedLength ==
    ASSUME NEW count \in Nat, NEW n \in Nat
    PROVE  Len(Added(count, n)) \in 1..2
<1>1. Entry(n) \in LogRecord /\ Overflow(count) \in LogRecord
  BY RecordTyped
<1>2. CASE count > 0
  <2>1. Added(count, n) = <<Overflow(count)>> \o <<Entry(n)>>
    BY <1>2 DEF Added
  <2>2. Len(<<Overflow(count)>> \o <<Entry(n)>>) = 2
    OBVIOUS
  <2>3. QED
    BY <2>1, <2>2
<1>3. CASE ~(count > 0)
  <2>1. Added(count, n) = <<>> \o <<Entry(n)>>
    BY <1>3 DEF Added
  <2>2. Len(<<>> \o <<Entry(n)>>) = 1
    OBVIOUS
  <2>3. QED
    BY <2>1, <2>2
<1>4. QED
  BY <1>2, <1>3

LEMMA StillBounded ==
    ASSUME NEW b \in Seq(LogRecord), NEW count \in Nat, NEW n \in Nat, Bounded(b)
    PROVE  Bounded(Buffer(b, count, Entry(n)))
<1>1. CASE Accepts(b)
  <2>1. Buffer(b, count, Entry(n)) = b \o Added(count, n) /\ Added(count, n) \in Seq(LogRecord)
    BY <1>1, BufferIs, AddedTyped
  <2>2. Len(b \o Added(count, n)) = Len(b) + Len(Added(count, n)) /\ Len(Added(count, n)) \in 1..2
    BY <2>1, AddedLength, ConcatProperties
  <2>3. Len(b) \in Nat /\ Len(b) <= MaxBuffered /\ MaxBuffered \in Nat
    BY <1>1, LogConstants DEF Accepts
  <2> DEFINE x == Len(b)
             y == Len(Added(count, n))
             z == Len(b \o Added(count, n))
  <2>4. z <= MaxBuffered + 2
    <3>1. z = x + y /\ y \in 1..2 /\ x \in Nat /\ x <= MaxBuffered /\ MaxBuffered \in Nat
      BY <2>2, <2>3
    <3> HIDE DEF x, y, z
    <3>2. QED
      BY <3>1
  <2>5. QED
    BY <2>1, <2>4 DEF Bounded
<1>2. CASE ~Accepts(b)
  BY <1>2, BufferIs
<1>3. QED
  BY <1>1, <1>2

\* One bounded write after the lines s ++ b, of which b is the buffer.
Wrote(s, b, count, n) ==
    LET t == s \o Buffer(b, count, Entry(n + 1)) IN Linked(t) /\ UpTo(t, Count(b, count), n + 1)

LEMMA WriteLinked ==
    ASSUME NEW s \in Seq(LogRecord), NEW b \in Seq(LogRecord), NEW count \in Nat, NEW n \in Nat,
           Linked(s \o b), UpTo(s \o b, count, n)
    PROVE  Wrote(s, b, count, n)
<1>0. n + 1 \in Nat
  OBVIOUS
<1>1. CASE Accepts(b)
  <2>1. /\ Buffer(b, count, Entry(n + 1)) = b \o Added(count, n + 1) /\ Count(b, count) = 0
        /\ Added(count, n + 1) \in Seq(LogRecord)
    BY <1>0, <1>1, BufferIs, AddedTyped
  <2> DEFINE a == Added(count, n + 1)
             u == s \o b
  <2>2. u \in Seq(LogRecord)
    OBVIOUS
  <2>3. Linked(u \o a) /\ UpTo(u \o a, 0, n + 1)
    <3> HIDE DEF u
    <3>1. Linked(u) /\ UpTo(u, count, n)
      BY DEF u
    <3>2. QED
      BY <2>2, <3>1, LinkedMore
  <2>4. s \o (b \o a) = u \o a
    <3>1. Assoc(LogRecord)
      BY Regrouped
    <3>2. \A x, y, z \in Seq(LogRecord) : x \o (y \o z) = (x \o y) \o z
      BY <3>1 DEF Assoc
    <3>3. QED
      BY <2>1, <3>2, Zenon
  <2> HIDE DEF a, u
  <2>5. s \o Buffer(b, count, Entry(n + 1)) = u \o a
    BY <2>1, <2>4 DEF a
  <2>6. QED
    BY <2>1, <2>3, <2>5 DEF Wrote
<1>2. CASE ~Accepts(b)
  <2>1. Buffer(b, count, Entry(n + 1)) = b /\ Count(b, count) = count + 1
    BY <1>0, <1>2, BufferIs
  <2> DEFINE u == s \o b
  <2>2. u \in Seq(LogRecord) /\ Linked(u) /\ UpTo(u, count, n)
    OBVIOUS
  <2> HIDE DEF u
  <2>3. u # <<>> => u[Len(u)].n \in Nat
    <3> SUFFICES ASSUME u # <<>> PROVE u[Len(u)].n \in Nat
      OBVIOUS
    <3>1. Len(u) \in 1..Len(u)
      BY <2>2
    <3>2. u[Len(u)] \in LogRecord
      BY <2>2, <3>1
    <3>3. QED
      BY <3>2 DEF LogRecord
  <2>4. UpTo(u, count + 1, n + 1)
    BY <2>2, <2>3 DEF UpTo
  <2>5. QED
    BY <2>1, <2>2, <2>4 DEF Wrote, u
<1>3. QED
  BY <1>1, <1>2

LEMMA CopyInit == LogInit => CopyInv
<1> SUFFICES ASSUME LogInit PROVE CopyInv
  OBVIOUS
<1>1. stdout.taken \o stdout.buffer = <<>> /\ stdout.buffer = <<>>
  <2>1. stdout.taken = <<>> /\ stdout.buffer = <<>>
    BY DEF LogInit
  <2>2. <<>> \o <<>> = <<>>
    OBVIOUS
  <2>3. QED
    BY <2>1, <2>2
<1>2. Len(<<>>) = 0 /\ 1..0 - 1 = {} /\ 0 <= MaxBuffered + 2
  BY LogConstants
<1>3. Linked(<<>>) /\ Bounded(<<>>)
  BY <1>2 DEF Linked, Bounded
<1>4. UpToDate(<<>>, stdout.dropped)
  BY DEF UpToDate
<1>5. QED
  BY <1>1, <1>3, <1>4 DEF CopyInv

LEMMA CopyWrites == LogTypeOK /\ CopyInv /\ logAction => CopyInv'
<1> SUFFICES ASSUME LogTypeOK, CopyInv, logAction PROVE CopyInv'
  OBVIOUS
<1>1. /\ logged \in Nat /\ logged' = logged + 1 /\ stdout.dropped \in Nat
      /\ stdout.buffer \in Seq(LogRecord) /\ stdout.taken \in Seq(LogRecord) /\ stdout \in Stdout
  BY LogConstants DEF LogTypeOK, logAction, Stdout
<1>2. CASE stdout.state = "broken"
  <2>1. stdout' = stdout
    BY <1>2 DEF logAction
  <2>2. QED
    BY <1>2, <2>1 DEF CopyInv
<1>3. CASE stdout.state # "broken"
  <2>1. stdout.state = "open"
    BY <1>1, <1>3 DEF Stdout
  <2>2. /\ stdout'.buffer = Buffer(stdout.buffer, stdout.dropped, Entry(logged + 1))
        /\ stdout'.dropped = Count(stdout.buffer, stdout.dropped)
        /\ stdout'.taken = stdout.taken
    BY <1>1, <1>3 DEF logAction, Stdout
  <2>3. Bounded(stdout'.buffer)
    BY <1>1, <2>2, StillBounded DEF CopyInv
  <2>4. UpTo(stdout.taken \o stdout.buffer, stdout.dropped, logged)
    BY <2>1 DEF CopyInv, UpToDate, UpTo
  <2>5. Wrote(stdout.taken, stdout.buffer, stdout.dropped, logged)
    BY <1>1, <2>4, WriteLinked DEF CopyInv
  <2>6. Linked(stdout'.taken \o stdout'.buffer) /\ UpTo(stdout'.taken \o stdout'.buffer, stdout'.dropped, logged')
    BY <1>1, <2>2, <2>5 DEF Wrote
  <2>7. QED
    BY <2>3, <2>6 DEF CopyInv, UpToDate, UpTo, Linked
<1>4. QED
  BY <1>2, <1>3

\* The line at the head of a buffer, taken.
LEMMA HeadTaken ==
    ASSUME NEW s \in Seq(LogRecord), NEW b \in Seq(LogRecord), b # <<>>
    PROVE  Append(s, Head(b)) \o Tail(b) = s \o b
<1>1. Head(b) \in LogRecord /\ Tail(b) \in Seq(LogRecord)
  OBVIOUS
<1> DEFINE h == Head(b)
           t == Tail(b)
<1>2. b = <<h>> \o t
  BY HeadTailProperties
<1>3. Append(s, h) = s \o <<h>>
  OBVIOUS
<1>4. <<h>> \in Seq(LogRecord)
  OBVIOUS
<1> HIDE DEF h, t
<1>5. s \o (<<h>> \o t) = (s \o <<h>>) \o t
  <2>1. Assoc(LogRecord)
    BY Regrouped
  <2>2. \A x, y, z \in Seq(LogRecord) : x \o (y \o z) = (x \o y) \o z
    BY <2>1 DEF Assoc
  <2>3. t \in Seq(LogRecord)
    BY <1>1 DEF t
  <2>4. QED
    BY <1>4, <2>2, <2>3, Zenon
<1>6. QED
  BY <1>2, <1>3, <1>5 DEF h, t

LEMMA CopyMoves ==
    ASSUME LogTypeOK, CopyInv, StdoutTakes \/ StdoutBreaks \/ UNCHANGED stdout, UNCHANGED logged
    PROVE  CopyInv'
<1>1. /\ stdout.buffer \in Seq(LogRecord) /\ stdout.taken \in Seq(LogRecord) /\ stdout \in Stdout
  BY DEF LogTypeOK, Stdout
<1>2. CASE StdoutTakes
  <2>1. /\ stdout.buffer # <<>> /\ stdout.state = "open" /\ stdout'.state = "open"
        /\ stdout'.taken = Append(stdout.taken, Head(stdout.buffer)) /\ stdout'.buffer = Tail(stdout.buffer)
        /\ stdout'.dropped = stdout.dropped
    BY <1>1, <1>2 DEF StdoutTakes, Stdout
  <2>2. stdout'.taken \o stdout'.buffer = stdout.taken \o stdout.buffer
    BY <1>1, <2>1, HeadTaken
  <2>3. Bounded(stdout'.buffer)
    <3>1. Len(Tail(stdout.buffer)) = Len(stdout.buffer) - 1 /\ Len(stdout.buffer) \in Nat
      BY <1>1, <2>1
    <3>2. Len(stdout.buffer) <= MaxBuffered + 2 /\ MaxBuffered \in Nat
      BY LogConstants DEF CopyInv, Bounded
    <3>3. Len(Tail(stdout.buffer)) <= MaxBuffered + 2
      BY <3>1, <3>2
    <3>4. QED
      BY <2>1, <3>3 DEF Bounded
  <2>4. Linked(stdout.taken \o stdout.buffer) /\ UpToDate(stdout.taken \o stdout.buffer, stdout.dropped)
    BY <2>1 DEF CopyInv
  <2>5. QED
    BY <2>1, <2>2, <2>3, <2>4 DEF CopyInv, UpToDate, Linked
<1>3. CASE StdoutBreaks
  <2>1. stdout'.state = "broken" /\ stdout'.taken = stdout.taken /\ stdout'.buffer = <<>>
    BY <1>1, <1>3 DEF StdoutBreaks, Stdout
  <2>2. stdout.taken \o <<>> = stdout.taken
    BY <1>1, ConcatEmptySeq
  <2>3. Linked(stdout.taken)
    BY <1>1, LinkedPrefix DEF CopyInv
  <2>4. Bounded(<<>>)
    BY LogConstants DEF Bounded
  <2>5. QED
    BY <2>1, <2>2, <2>3, <2>4 DEF CopyInv, Linked
<1>4. CASE UNCHANGED stdout
  BY <1>4 DEF CopyInv, UpToDate
<1>5. QED
  BY <1>2, <1>3, <1>4

\* What a week's file holds, given the files, the ended streams and the open one.
OpenHolds(st, w) == IF st # NoStream /\ st.week = w THEN st.buffer ELSE <<>>
LinesIn(fs, en, st, w) == IF fs[w].removed THEN <<>> ELSE fs[w].lines \o Waiting(en, w) \o OpenHolds(st, w)
Rows(fs, en, st) == [i \in 1..LastWeek + 1 |-> LinesIn(fs, en, st, i - 1)]

LEMMA WrittenIs ==
    /\ Written = FlattenSeq(Rows(files, ended, stream))
    /\ Written' = FlattenSeq(Rows(files', ended', stream'))
  BY DEF Written, WeekLines, Rows, LinesIn, Waiting, OpenHolds

\* One stream at most holds lines of the week: b.
Holds(en, st, w, b) ==
    \/ st # NoStream /\ st.week = w /\ b = st.buffer /\ \A e \in en : e.week # w
    \/ /\ ~(st # NoStream /\ st.week = w)
       /\ \E e \in en : e.week = w /\ b = e.buffer /\ \A d \in en : d.week = w => d = e
    \/ /\ ~(st # NoStream /\ st.week = w)
       /\ b = <<>> /\ \A e \in en : e.week # w

LEMMA HeldLines ==
    ASSUME NEW fs, NEW en, NEW st, NEW w, NEW b \in Seq(LogRecord), Holds(en, st, w, b),
           fs[w].lines \in Seq(LogRecord)
    PROVE  LinesIn(fs, en, st, w) = IF fs[w].removed THEN <<>> ELSE fs[w].lines \o b
<1> DEFINE l == fs[w].lines
<1>1. l \o <<>> = l /\ (l \o b) \o <<>> = l \o b
  <2>1. l \o b \in Seq(LogRecord)
    OBVIOUS
  <2>2. QED
    BY <2>1, ConcatEmptySeq
<1> HIDE DEF l
<1>2. CASE st # NoStream /\ st.week = w /\ b = st.buffer /\ \A e \in en : e.week # w
  <2>1. Waiting(en, w) = <<>> /\ OpenHolds(st, w) = b
    BY <1>2, NoneWaiting DEF OpenHolds
  <2>2. QED
    BY <1>1, <2>1 DEF LinesIn, l
<1>3. CASE /\ ~(st # NoStream /\ st.week = w)
           /\ \E e \in en : e.week = w /\ b = e.buffer /\ \A d \in en : d.week = w => d = e
  <2>1. PICK e \in en : e.week = w /\ b = e.buffer /\ \A d \in en : d.week = w => d = e
    BY <1>3
  <2>2. Waiting(en, e.week) = e.buffer
    BY <2>1, OneWaiting
  <2>3. Waiting(en, w) = b /\ OpenHolds(st, w) = <<>>
    BY <1>3, <2>1, <2>2 DEF OpenHolds
  <2>4. QED
    BY <1>1, <2>3 DEF LinesIn, l
<1>4. CASE ~(st # NoStream /\ st.week = w) /\ b = <<>> /\ \A e \in en : e.week # w
  <2>1. Waiting(en, w) = <<>> /\ OpenHolds(st, w) = <<>>
    BY <1>4, NoneWaiting DEF OpenHolds
  <2>2. QED
    BY <1>1, <1>4, <2>1 DEF LinesIn, l
<1>5. QED
  BY <1>2, <1>3, <1>4 DEF Holds

\* What the types and the order say of the files and their streams.
Arranged(fs, en, st) ==
    /\ fs \in [Week -> File] /\ en \subseteq EndedStream /\ (st = NoStream \/ st \in Stream)
    /\ \A s \in en : st # NoStream => s.week # st.week
    /\ \A s, t \in en : s.week = t.week => s = t

LEMMA SomeHold ==
    ASSUME NEW fs, NEW en, NEW st, Arranged(fs, en, st), NEW w \in Week
    PROVE  \E b \in Seq(LogRecord) : Holds(en, st, w, b)
<1>1. /\ en \subseteq EndedStream /\ (st = NoStream \/ st \in Stream)
      /\ \A s \in en : st # NoStream => s.week # st.week
      /\ \A s, t \in en : s.week = t.week => s = t
  BY DEF Arranged
<1>2. CASE st # NoStream /\ st.week = w
  <2>1. st.buffer \in Seq(LogRecord) /\ \A e \in en : e.week # w
    BY <1>1, <1>2 DEF Stream
  <2>2. Holds(en, st, w, st.buffer)
    BY <1>2, <2>1 DEF Holds
  <2>3. QED
    BY <2>1, <2>2
<1>3. CASE ~(st # NoStream /\ st.week = w) /\ \E e \in en : e.week = w
  <2>1. PICK e \in en : e.week = w
    BY <1>3
  <2>2. e.buffer \in Seq(LogRecord) /\ \A d \in en : d.week = w => d = e
    BY <1>1, <2>1 DEF EndedStream
  <2>3. Holds(en, st, w, e.buffer)
    BY <1>3, <2>1, <2>2 DEF Holds
  <2>4. QED
    BY <2>2, <2>3
<1>4. CASE ~(st # NoStream /\ st.week = w) /\ \A e \in en : e.week # w
  <2>1. <<>> \in Seq(LogRecord) /\ Holds(en, st, w, <<>>)
    BY <1>4 DEF Holds
  <2>2. QED
    BY <2>1
<1>5. QED
  BY <1>2, <1>3, <1>4

LEMMA WeeksTyped ==
    ASSUME NEW fs, NEW en, NEW st, Arranged(fs, en, st)
    PROVE  /\ \A w \in Week : LinesIn(fs, en, st, w) \in Seq(LogRecord)
           /\ Rows(fs, en, st) \in [1..LastWeek + 1 -> Seq(LogRecord)]
           /\ FlattenSeq(Rows(fs, en, st)) \in Seq(LogRecord)
<1>1. ASSUME NEW w \in Week PROVE LinesIn(fs, en, st, w) \in Seq(LogRecord)
  <2>1. PICK b \in Seq(LogRecord) : Holds(en, st, w, b)
    BY SomeHold
  <2>2. fs[w].lines \in Seq(LogRecord)
    BY DEF Arranged, File
  <2>3. LinesIn(fs, en, st, w) = IF fs[w].removed THEN <<>> ELSE fs[w].lines \o b
    BY <2>1, <2>2, HeldLines
  <2>4. fs[w].lines \o b \in Seq(LogRecord) /\ <<>> \in Seq(LogRecord)
    BY <2>1, <2>2
  <2>5. QED
    BY <2>3, <2>4
<1>2. \A i \in 1..LastWeek + 1 : i - 1 \in Week
  BY LogConstants DEF Week
<1>3. Rows(fs, en, st) \in [1..LastWeek + 1 -> Seq(LogRecord)]
  BY <1>1, <1>2 DEF Rows
<1>4. LastWeek + 1 \in Nat \ {0}
  BY LogConstants
<1>5. QED
  BY <1>1, <1>3, <1>4, FlatTyped

LEMMA SameRows ==
    ASSUME NEW fs, NEW en, NEW st, NEW gs, NEW fn, NEW tu,
           \A w \in Week : LinesIn(gs, fn, tu, w) = LinesIn(fs, en, st, w)
    PROVE  Rows(gs, fn, tu) = Rows(fs, en, st)
<1>1. \A i \in 1..LastWeek + 1 : i - 1 \in Week
  BY LogConstants DEF Week
<1>2. QED
  BY <1>1 DEF Rows

Orderly == StreamsInOrder /\ FilesInOrder

LEMMA OrderlyArranged == LogTypeOK /\ Orderly => Arranged(files, ended, stream)
<1> SUFFICES ASSUME LogTypeOK, Orderly PROVE Arranged(files, ended, stream)
  OBVIOUS
<1>1. /\ files \in [Week -> File] /\ ended \subseteq EndedStream /\ (stream = NoStream \/ stream \in Stream)
  BY DEF LogTypeOK, File
<1>2. \A s \in ended : s.week \in Nat
  BY <1>1, LogConstants DEF EndedStream, Week
<1>3. \A s \in ended : stream # NoStream => s.week # stream.week
  BY <1>1, <1>2, LogConstants DEF Orderly, StreamsInOrder, Stream, Week
<1>4. QED
  BY <1>1, <1>3 DEF Orderly, StreamsInOrder, Arranged

\* The types the order is argued from.
LEMMA LogFacts ==
    ASSUME LogTypeOK
    PROVE  /\ files \in [Week -> File] /\ ended \subseteq EndedStream /\ (stream = NoStream \/ stream \in Stream)
           /\ week \in Nat /\ week \in Week /\ logged \in Nat /\ dropped \in Nat
           /\ \A w \in Week : w \in Nat /\ w <= LastWeek /\ files[w] \in File /\ files[w].mtime \in Nat /\ files[w].mtime \in Week
                              /\ files[w].lines \in Seq(LogRecord) /\ files[w].removed \in BOOLEAN
           /\ \A s \in ended : s.week \in Week /\ s.week \in Nat /\ s.buffer \in Seq(LogRecord)
           /\ stream # NoStream => stream.week \in Week /\ stream.week \in Nat /\ stream.buffer \in Seq(LogRecord)
<1>1. /\ files \in [Week -> File] /\ ended \subseteq EndedStream /\ (stream = NoStream \/ stream \in Stream)
      /\ week \in Week /\ logged \in Nat /\ dropped \in Nat
  BY LogConstants DEF LogTypeOK, File
<1>2. \A w \in Week : w \in Nat /\ w <= LastWeek
  BY LogConstants DEF Week
<1>3. \A w \in Week : files[w] \in File
  BY <1>1
<1>4. \A f \in File : f.mtime \in Week /\ f.lines \in Seq(LogRecord) /\ f.removed \in BOOLEAN
  BY DEF File
<1>5. \A s \in EndedStream : s.week \in Week /\ s.buffer \in Seq(LogRecord)
  BY DEF EndedStream
<1>6. \A s \in Stream : s.week \in Week /\ s.buffer \in Seq(LogRecord)
  BY DEF Stream
<1>7. QED
  BY <1>1, <1>2, <1>3, <1>4, <1>5, <1>6

LEMMA OrderInit == LogInit => Orderly
<1> SUFFICES ASSUME LogInit PROVE Orderly
  OBVIOUS
<1>1. /\ ended = {} /\ stream = NoStream /\ week = 1
      /\ \A w \in Week : files[w].mtime = 0 /\ files[w].removed = FALSE /\ (w # 0 => files[w].lines = <<>>)
  BY DEF LogInit, EmptyFile
<1>2. \A w \in Week : w \in Nat
  BY LogConstants DEF Week
<1>3. \A w \in Week : Opened(w) => w = 0
  BY <1>1, <1>2 DEF Opened
<1>4. \A w \in Week : w = 0 => Opened(w)
  BY <1>1, <1>2 DEF Opened
<1>5. StreamsInOrder
  BY <1>1, <1>4 DEF StreamsInOrder
<1>6. FilesInOrder
  BY <1>1, <1>2, <1>3 DEF FilesInOrder
<1>7. QED
  BY <1>5, <1>6 DEF Orderly

\* A line of the week w lands, now: w is the current week, or a week no later
\* file was opened since.
LEMMA OrderLands ==
    ASSUME LogTypeOK, Orderly, NEW w \in Week, Opened(w), w <= week,
           \A v \in Week : Opened(v) => v <= w \/ v = week,
           \A v \in Week : files'[v].mtime = IF v = w THEN week ELSE files[v].mtime,
           \A v \in Week : files'[v].removed = files[v].removed,
           \A v \in Week : v # w => files'[v].lines = files[v].lines,
           week' = week,
           \/ stream = NoStream /\ stream' = NoStream
           \/ stream # NoStream /\ stream' # NoStream /\ stream'.week = stream.week,
           \A s \in ended' : \E t \in ended : s.week = t.week /\ (s.buffer # <<>> => t.buffer # <<>>),
           \A s, t \in ended' : s.week = t.week => s = t
    PROVE  Orderly'
<1>1. /\ week \in Nat
      /\ \A v \in Week : v \in Nat /\ files[v].mtime \in Nat
      /\ \A s \in ended : s.week \in Week /\ s.week \in Nat
      /\ stream # NoStream => stream.week \in Week /\ stream.week \in Nat
  BY LogFacts
<1>2. \A v \in Week : Opened(v)' <=> Opened(v)
  <2>1. \A v \in Week : Opened(v)' <=> files'[v].mtime >= v
    BY DEF Opened
  <2>2. \A v \in Week : Opened(v) <=> files[v].mtime >= v
    BY DEF Opened
  <2>3. QED
    BY <1>1, <2>1, <2>2
<1>3. StreamsInOrder'
  <2>1. \A s \in ended' : s.week < week' /\ Opened(s.week)' /\ (stream' # NoStream => s.week < stream'.week)
    BY <1>1, <1>2 DEF Orderly, StreamsInOrder
  <2>2. stream' # NoStream => /\ files'[stream'.week].mtime >= stream'.week
                              /\ \A v \in Week : Opened(v)' => v <= stream'.week
    <3> SUFFICES ASSUME stream' # NoStream
                 PROVE  /\ files'[stream'.week].mtime >= stream'.week
                        /\ \A v \in Week : Opened(v)' => v <= stream'.week
      OBVIOUS
    <3>1. stream # NoStream /\ stream'.week = stream.week /\ stream.week \in Week
      BY <1>1
    <3>2. Opened(stream.week) /\ \A v \in Week : Opened(v) => v <= stream.week
      BY <3>1 DEF Orderly, StreamsInOrder
    <3>3. files'[stream.week].mtime >= stream.week
      BY <1>1, <3>1, <3>2 DEF Opened
    <3>4. QED
      BY <1>2, <3>1, <3>2, <3>3
  <2>3. \A v \in Week : files'[v].lines # <<>> => Opened(v)'
    BY <1>2 DEF Orderly, StreamsInOrder
  <2>4. QED
    BY <2>1, <2>2, <2>3 DEF StreamsInOrder, Opened
<1>4. FilesInOrder'
  <2>1. \A v \in Week : files'[v].mtime <= week'
    BY <1>1 DEF Orderly, FilesInOrder
  <2>2. \A s \in ended' : s.buffer # <<>> => \A v \in Week : Opened(v)' => v <= s.week \/ v = week'
    BY <1>2 DEF Orderly, FilesInOrder
  <2>3. \A v, u \in Week : v < u /\ Opened(u)' => files'[v].mtime <= u
    <3> SUFFICES ASSUME NEW v \in Week, NEW u \in Week, v < u, Opened(u)
                 PROVE  files'[v].mtime <= u
      BY <1>2
    <3>1. CASE v = w
      BY <1>1, <3>1
    <3>2. CASE v # w
      BY <3>2 DEF Orderly, FilesInOrder
    <3>3. QED
      BY <3>1, <3>2
  <2>4. \A v \in Week : files'[v].removed => v < week' /\ (stream' # NoStream => v < stream'.week)
    BY DEF Orderly, FilesInOrder
  <2>5. \A v, u \in Week : v < u /\ Opened(u)' /\ files'[u].removed => files'[v].removed
    BY <1>2 DEF Orderly, FilesInOrder
  <2>6. QED
    BY <2>1, <2>2, <2>3, <2>4, <2>5 DEF FilesInOrder
<1>5. QED
  BY <1>3, <1>4 DEF Orderly

\* A stream goes, or time passes.
LEMMA OrderLeft ==
    ASSUME LogTypeOK, Orderly, files' = files, ended' \subseteq ended, week' \in {week, week + 1},
           stream' \in {stream, NoStream},
           week' # week => \A s \in ended' : s.buffer = <<>>
    PROVE  Orderly'
<1>1. /\ week \in Nat
      /\ \A v \in Week : v \in Nat /\ files[v].mtime \in Nat
      /\ \A s \in ended : s.week \in Week /\ s.week \in Nat
      /\ stream # NoStream => stream.week \in Week /\ stream.week \in Nat
  BY LogFacts
<1>2. \A v \in Week : Opened(v)' <=> Opened(v)
  BY DEF Opened
<1>3. StreamsInOrder'
  <2>1. \A s \in ended' : s.week < week' /\ Opened(s.week)' /\ (stream' # NoStream => s.week < stream'.week)
    BY <1>1, <1>2 DEF Orderly, StreamsInOrder
  <2>2. stream' # NoStream => /\ files'[stream'.week].mtime >= stream'.week
                              /\ \A v \in Week : Opened(v)' => v <= stream'.week
    <3> SUFFICES ASSUME stream' # NoStream
                 PROVE  /\ files'[stream'.week].mtime >= stream'.week
                        /\ \A v \in Week : Opened(v)' => v <= stream'.week
      OBVIOUS
    <3>1. stream # NoStream /\ stream'.week = stream.week /\ stream.week \in Week
      BY <1>1
    <3>2. Opened(stream.week) /\ \A v \in Week : Opened(v) => v <= stream.week
      BY <3>1 DEF Orderly, StreamsInOrder
    <3>3. files'[stream.week].mtime >= stream.week
      BY <1>1, <3>1, <3>2 DEF Opened
    <3>4. QED
      BY <1>2, <3>1, <3>2, <3>3
  <2>3. \A v \in Week : files'[v].lines # <<>> => Opened(v)'
    BY <1>2 DEF Orderly, StreamsInOrder
  <2>4. \A s, t \in ended' : s.week = t.week => s = t
    BY DEF Orderly, StreamsInOrder
  <2>5. QED
    BY <2>1, <2>2, <2>3, <2>4 DEF StreamsInOrder, Opened
<1>4. FilesInOrder'
  <2>1. \A v \in Week : files'[v].mtime <= week'
    BY <1>1 DEF Orderly, FilesInOrder
  <2>2. \A s \in ended' : s.buffer # <<>> => \A v \in Week : Opened(v)' => v <= s.week \/ v = week'
    BY <1>2 DEF Orderly, FilesInOrder
  <2>3. \A v, u \in Week : v < u /\ Opened(u)' => files'[v].mtime <= u
    BY <1>2 DEF Orderly, FilesInOrder
  <2>4. \A v \in Week : files'[v].removed => v < week' /\ (stream' # NoStream => v < stream'.week)
    BY <1>1 DEF Orderly, FilesInOrder
  <2>5. \A v, u \in Week : v < u /\ Opened(u)' /\ files'[u].removed => files'[v].removed
    BY <1>2 DEF Orderly, FilesInOrder
  <2>6. QED
    BY <2>1, <2>2, <2>3, <2>4, <2>5 DEF FilesInOrder
<1>5. QED
  BY <1>3, <1>4 DEF Orderly

\* What openStream does to a file.
LEMMA FilesAfter ==
    ASSUME LogTypeOK, Orderly, openStream
    PROVE  \A w \in Week :
             /\ files'[w].lines = files[w].lines
             /\ files'[w].mtime = IF w = week THEN week ELSE files[w].mtime
             /\ files'[w].removed <=> files[w].removed \/ (w < week /\ files[w].mtime + KeepWeeks < week)
             /\ w = week => ~files'[w].removed
<1> SUFFICES ASSUME NEW w \in Week
             PROVE  /\ files'[w].lines = files[w].lines
                    /\ files'[w].mtime = IF w = week THEN week ELSE files[w].mtime
                    /\ files'[w].removed <=> files[w].removed \/ (w < week /\ files[w].mtime + KeepWeeks < week)
                    /\ w = week => ~files'[w].removed
  OBVIOUS
<1>1. /\ files[w] \in File /\ week \in Nat /\ w \in Nat /\ files[w].mtime \in Nat /\ KeepWeeks \in Nat
      /\ files[w].removed \in BOOLEAN
  BY LogFacts, LogConstants
<1>2. files'[w] = CASE w = week -> [files[w] EXCEPT !.mtime = week]
                    [] w < week /\ files[w].mtime + KeepWeeks < week -> [files[w] EXCEPT !.removed = TRUE]
                    [] OTHER -> files[w]
  BY DEF openStream
<1> DEFINE f == files[w]
           g == files'[w]
<1>3. CASE w = week
  <2>1. g = [f EXCEPT !.mtime = week]
    BY <1>1, <1>2, <1>3
  <2>2. ~f.removed
    BY <1>1, <1>3 DEF Orderly, FilesInOrder
  <2>3. g.lines = f.lines /\ g.mtime = week /\ g.removed = f.removed
    <3> HIDE DEF f, g
    <3>1. f \in File
      BY <1>1 DEF f
    <3>2. QED
      BY <2>1, <3>1 DEF File
  <2>4. QED
    BY <1>1, <1>3, <2>2, <2>3
<1>4. CASE w < week /\ files[w].mtime + KeepWeeks < week
  <2>1. g = [f EXCEPT !.removed = TRUE] /\ w # week
    BY <1>1, <1>2, <1>4
  <2>2. g.lines = f.lines /\ g.mtime = f.mtime /\ g.removed = TRUE
    <3> HIDE DEF f, g
    <3>1. f \in File
      BY <1>1 DEF f
    <3>2. QED
      BY <2>1, <3>1 DEF File
  <2>3. QED
    BY <1>4, <2>1, <2>2
<1>5. CASE w # week /\ ~(w < week /\ files[w].mtime + KeepWeeks < week)
  <2>1. g = f
    BY <1>1, <1>2, <1>5
  <2>2. QED
    BY <1>5, <2>1
<1>6. QED
  BY <1>3, <1>4, <1>5

LEMMA OrderSwitches ==
    ASSUME LogTypeOK, Orderly, ~(stream # NoStream /\ stream.week = week), Switch, openStream,
           stream' # NoStream, stream'.week = week, week' = week
    PROVE  Orderly'
<1>1. /\ week \in Nat /\ week \in Week
      /\ \A v \in Week : v \in Nat /\ files[v].mtime \in Nat
      /\ \A s \in ended : s.week \in Week /\ s.week \in Nat
      /\ stream # NoStream => stream.week \in Week /\ stream.week \in Nat
  BY LogFacts
<1>2. /\ \A v \in Week : files[v].mtime <= week
      /\ \A s \in ended : s.buffer # <<>> => \A v \in Week : Opened(v) => v <= s.week \/ v = week
      /\ \A v, u \in Week : v < u /\ Opened(u) => files[v].mtime <= u
      /\ \A v \in Week : files[v].removed => v < week
      /\ \A v, u \in Week : v < u /\ Opened(u) /\ files[u].removed => files[v].removed
  BY DEF Orderly, FilesInOrder
<1>3. /\ \A s \in ended : s.week < week /\ Opened(s.week) /\ (stream # NoStream => s.week < stream.week)
      /\ \A s, t \in ended : s.week = t.week => s = t
      /\ stream # NoStream => Opened(stream.week) /\ \A v \in Week : Opened(v) => v <= stream.week
      /\ \A v \in Week : files[v].lines # <<>> => Opened(v)
  BY DEF Orderly, StreamsInOrder
<1>4. \A v \in Week : /\ files'[v].lines = files[v].lines
                      /\ files'[v].mtime = IF v = week THEN week ELSE files[v].mtime
                      /\ files'[v].removed <=> files[v].removed \/ (v < week /\ files[v].mtime + KeepWeeks < week)
                      /\ v = week => ~files'[v].removed
  BY FilesAfter
<1>5. \A v \in Week : /\ Opened(v) <=> files[v].mtime >= v
                      /\ Opened(v)' <=> Opened(v) \/ v = week
                      /\ Opened(v) => v <= week
  <2>1. \A v \in Week : Opened(v) <=> files[v].mtime >= v
    BY DEF Opened
  <2>2. \A v \in Week : Opened(v)' <=> files'[v].mtime >= v
    BY DEF Opened
  <2>3. QED
    BY <1>1, <1>2, <1>4, <2>1, <2>2
<1>6. /\ stream = NoStream => ended' = ended
      /\ stream # NoStream =>
           /\ ended' = ended \cup {[week |-> stream.week, buffer |-> stream.buffer, awaited |-> FALSE]}
           /\ stream.week < week
  BY <1>1, <1>3, <1>5 DEF Switch
<1>7. \A s \in ended' : \/ s \in ended
                        \/ stream # NoStream /\ s = [week |-> stream.week, buffer |-> stream.buffer, awaited |-> FALSE]
  BY <1>6
<1>8. \A s \in ended' : s.week \in Week /\ s.week < week /\ Opened(s.week)
  BY <1>1, <1>3, <1>6, <1>7
<1>9. StreamsInOrder'
  <2>1. \A s \in ended' : s.week < week' /\ Opened(s.week)' /\ (stream' # NoStream => s.week < stream'.week)
    BY <1>5, <1>8
  <2>2. \A s, t \in ended' : s.week = t.week => s = t
    <3> SUFFICES ASSUME NEW s \in ended', NEW t \in ended', s.week = t.week PROVE s = t
      OBVIOUS
    <3>1. CASE s \in ended /\ t \in ended
      BY <1>3, <3>1
    <3>2. CASE s \in ended /\ t \notin ended
      <4>1. stream # NoStream /\ t.week = stream.week /\ s.week < stream.week
        BY <1>3, <1>7, <3>2
      <4>2. QED
        BY <1>1, <4>1
    <3>3. CASE s \notin ended /\ t \in ended
      <4>1. stream # NoStream /\ s.week = stream.week /\ t.week < stream.week
        BY <1>3, <1>7, <3>3
      <4>2. QED
        BY <1>1, <4>1
    <3>4. CASE s \notin ended /\ t \notin ended
      BY <1>7, <3>4
    <3>5. QED
      BY <3>1, <3>2, <3>3, <3>4
  <2>3. files'[stream'.week].mtime >= stream'.week /\ \A v \in Week : Opened(v)' => v <= stream'.week
    BY <1>1, <1>4, <1>5
  <2>4. \A v \in Week : files'[v].lines # <<>> => Opened(v)'
    BY <1>3, <1>4, <1>5
  <2>5. QED
    BY <2>1, <2>2, <2>3, <2>4 DEF StreamsInOrder, Opened
<1>10. FilesInOrder'
  <2>1. \A v \in Week : files'[v].mtime <= week'
    BY <1>1, <1>2, <1>4
  <2>2. \A s \in ended' : s.buffer # <<>> => \A v \in Week : Opened(v)' => v <= s.week \/ v = week'
    BY <1>2, <1>3, <1>5, <1>7
  <2>3. \A v, u \in Week : v < u /\ Opened(u)' => files'[v].mtime <= u
    <3> SUFFICES ASSUME NEW v \in Week, NEW u \in Week, v < u, Opened(u)' PROVE files'[v].mtime <= u
      OBVIOUS
    <3>1. CASE u = week
      BY <1>1, <1>2, <1>4, <3>1
    <3>2. CASE u # week
      <4>1. Opened(u) /\ u <= week /\ v # week
        BY <1>1, <1>5, <3>2
      <4>2. QED
        BY <1>2, <1>4, <4>1
    <3>3. QED
      BY <3>1, <3>2
  <2>4. \A v \in Week : files'[v].removed => v < week' /\ (stream' # NoStream => v < stream'.week)
    BY <1>2, <1>4
  <2>5. \A v, u \in Week : v < u /\ Opened(u)' /\ files'[u].removed => files'[v].removed
    <3> SUFFICES ASSUME NEW v \in Week, NEW u \in Week, v < u, Opened(u)', files'[u].removed
                 PROVE  files'[v].removed
      OBVIOUS
    <3>1. u # week /\ Opened(u) /\ u <= week /\ v < week
      BY <1>1, <1>4, <1>5
    <3>2. CASE files[u].removed
      BY <1>2, <1>4, <3>1, <3>2
    <3>3. CASE files[u].mtime + KeepWeeks < week
      <4>1. files[v].mtime <= u /\ u <= files[u].mtime
        BY <1>2, <1>5, <3>1
      <4> DEFINE a == files[v].mtime
                 b == files[u].mtime
      <4>2. a + KeepWeeks < week
        <5>1. /\ {a, b, u, week, KeepWeeks} \subseteq Nat
              /\ a <= u /\ u <= b /\ b + KeepWeeks < week
          BY <1>1, <3>3, <4>1, LogConstants
        <5> HIDE DEF a, b
        <5>2. QED
          BY <5>1
      <4>3. QED
        BY <1>4, <3>1, <4>2
    <3>4. QED
      BY <1>4, <3>2, <3>3
  <2>6. QED
    BY <2>1, <2>2, <2>3, <2>4, <2>5 DEF FilesInOrder
<1>11. QED
  BY <1>9, <1>10 DEF Orderly

\* A line more in the buffer of the current week's stream.
LEMMA OrderStays ==
    ASSUME LogTypeOK, Orderly, stream # NoStream, stream' # NoStream, stream'.week = stream.week,
           week' = week, UNCHANGED <<ended, files>>
    PROVE  Orderly'
<1>1. \A v : Opened(v)' <=> Opened(v)
  BY DEF Opened
<1>2. StreamsInOrder'
  <2>1. \A s \in ended' : s.week < week' /\ Opened(s.week)' /\ (stream' # NoStream => s.week < stream'.week)
    BY <1>1 DEF Orderly, StreamsInOrder
  <2>2. files'[stream'.week].mtime >= stream'.week /\ \A v \in Week : Opened(v)' => v <= stream'.week
    BY <1>1 DEF Orderly, StreamsInOrder, Opened
  <2>3. /\ \A v \in Week : files'[v].lines # <<>> => Opened(v)'
        /\ \A s, t \in ended' : s.week = t.week => s = t
    BY <1>1 DEF Orderly, StreamsInOrder
  <2>4. QED
    BY <2>1, <2>2, <2>3 DEF StreamsInOrder, Opened
<1>3. FilesInOrder'
  BY <1>1 DEF Orderly, FilesInOrder
<1>4. QED
  BY <1>2, <1>3 DEF Orderly

\* Some of the first sequences lose all.
LEMMA FlatCut ==
    ASSUME NEW T, NEW n \in Nat \ {0}, NEW ss \in [1..n -> Seq(T)], NEW tt \in [1..n -> Seq(T)],
           \A j \in 1..n : tt[j] = ss[j] \/ (tt[j] = <<>> /\ \A i \in 1..n : i < j => tt[i] = <<>>)
    PROVE  FlatShorter(ss, tt, T)
<1> DEFINE From(p, i) == /\ \A j \in 1..n : j <= p => tt[j] = <<>>
                         /\ \A j \in 1..n : p < j /\ j <= i => tt[j] = ss[j]
           good == {i \in Nat : i <= n => \E p \in 0..i : From(p, i)}
<1>1. 0 \in good
  <2>1. From(0, 0) /\ 0 \in 0..0
    OBVIOUS
  <2> HIDE DEF From
  <2>2. QED
    BY <2>1
<1>2. ASSUME NEW i \in Nat, i \in good PROVE i + 1 \in good
  <2> SUFFICES ASSUME i + 1 <= n PROVE \E p \in 0..i + 1 : From(p, i + 1)
    OBVIOUS
  <2>1. PICK p \in 0..i : From(p, i)
    BY <1>2
  <2>2. PICK l \in 1..n : l = i + 1
    OBVIOUS
  <2>3. CASE tt[l] = ss[l]
    <3>1. From(p, i + 1)
      <4> SUFFICES ASSUME NEW j \in 1..n, p < j, j <= i + 1 PROVE tt[j] = ss[j]
        BY <2>1
      <4>1. j <= i \/ j = l
        BY <2>2
      <4>2. QED
        BY <2>1, <2>3, <4>1
    <3>2. p \in 0..i + 1
      OBVIOUS
    <3> HIDE DEF From
    <3>3. QED
      BY <3>1, <3>2
  <2>4. CASE tt[l] # ss[l]
    <3>1. tt[l] = <<>> /\ \A j \in 1..n : j < l => tt[j] = <<>>
      BY <2>4
    <3>2. From(i + 1, i + 1)
      <4>1. \A j \in 1..n : j <= i + 1 => j < l \/ j = l
        BY <2>2
      <4>2. \A j \in 1..n : j <= i + 1 => tt[j] = <<>>
        BY <3>1, <4>1
      <4>3. QED
        BY <4>2
    <3>3. i + 1 \in 0..i + 1
      OBVIOUS
    <3> HIDE DEF From
    <3>4. QED
      BY <3>2, <3>3
  <2>5. QED
    BY <2>3, <2>4
<1>3. n \in good
  <2> HIDE DEF good
  <2>1. \A i \in Nat : i \in good => i + 1 \in good
    BY <1>2
  <2>2. n \in Nat
    OBVIOUS
  <2>3. QED
    BY <1>1, <2>1, <2>2, InductiveSet
<1>4. PICK p \in 0..n : From(p, n)
  BY <1>3
<1>5. FewerAt(ss, tt, n, p)
  BY <1>4 DEF FewerAt
<1> HIDE DEF From
<1>6. QED
  BY <1>5, FlatFewer

LEMMA EmptyWeek ==
    ASSUME NEW fs, NEW en, NEW st, NEW w, fs[w].lines = <<>>, \A e \in en : e.week # w,
           st = NoStream \/ st.week # w
    PROVE  LinesIn(fs, en, st, w) = <<>>
<1> DEFINE none == <<>>
<1>1. Holds(en, st, w, none) /\ none \in Seq(LogRecord) /\ none \o none = none
  BY DEF Holds
<1>2. fs[w].lines = none
  OBVIOUS
<1>3. LinesIn(fs, en, st, w) = IF fs[w].removed THEN <<>> ELSE fs[w].lines \o none
  <2> HIDE DEF none
  <2> QED BY <1>1, <1>2, HeldLines
<1>4. QED
  BY <1>1, <1>2, <1>3

\* A stream that gets the lines a: the current week's.
LEMMA RowsMore ==
    ASSUME NEW fs, NEW en, NEW st, NEW tu, Arranged(fs, en, st), Arranged(fs, en, tu),
           NEW w \in Week, NEW b \in Seq(LogRecord), NEW a \in Seq(LogRecord), ~fs[w].removed,
           Holds(en, st, w, b), Holds(en, tu, w, b \o a),
           st = NoStream \/ st.week = w, tu = NoStream \/ tu.week = w,
           \A v \in Week : v > w => fs[v].lines = <<>> /\ \A e \in en : e.week # v
    PROVE  FlatLonger(Rows(fs, en, st), Rows(fs, en, tu), a)
<1> DEFINE n == LastWeek + 1
           ss == Rows(fs, en, st)
           tt == Rows(fs, en, tu)
           k == w + 1
<1>1. n \in Nat \ {0} /\ k \in 1..n /\ k - 1 = w /\ w \in Nat
  BY LogConstants DEF Week
<1>2. ss \in [1..n -> Seq(LogRecord)] /\ tt \in [1..n -> Seq(LogRecord)]
  BY WeeksTyped
<1>3. /\ \A j \in 1..n : ss[j] = LinesIn(fs, en, st, j - 1) /\ tt[j] = LinesIn(fs, en, tu, j - 1)
      /\ \A j \in 1..n : j - 1 \in Week /\ (j < k <=> j - 1 < w) /\ (j > k <=> j - 1 > w)
  BY LogConstants DEF Rows, Week
<1>4. tt[k] = ss[k] \o a
  <2>1. fs[w].lines \in Seq(LogRecord)
    BY DEF Arranged, File
  <2>2. LinesIn(fs, en, st, w) = fs[w].lines \o b
    BY <2>1, HeldLines
  <2>3. LinesIn(fs, en, tu, w) = fs[w].lines \o (b \o a)
    <3> DEFINE c == b \o a
    <3>1. c \in Seq(LogRecord) /\ Holds(en, tu, w, c)
      OBVIOUS
    <3> HIDE DEF c
    <3>2. LinesIn(fs, en, tu, w) = fs[w].lines \o c
      BY <2>1, <3>1, HeldLines
    <3>3. QED
      BY <3>2 DEF c
  <2>4. fs[w].lines \o (b \o a) = (fs[w].lines \o b) \o a
    <3>1. Assoc(LogRecord)
      BY Regrouped
    <3>2. \A x, y, z \in Seq(LogRecord) : x \o (y \o z) = (x \o y) \o z
      BY <3>1 DEF Assoc
    <3>3. QED
      BY <2>1, <3>2, Zenon
  <2>5. ss[k] = LinesIn(fs, en, st, w) /\ tt[k] = LinesIn(fs, en, tu, w)
    BY <1>1, <1>3
  <2> HIDE DEF ss, tt
  <2>6. QED
    BY <2>2, <2>3, <2>4, <2>5, Zenon
<1>5. \A j \in 1..n : j < k => tt[j] = ss[j]
  <2> SUFFICES ASSUME NEW j \in 1..n, j < k PROVE tt[j] = ss[j]
    OBVIOUS
  <2>1. j - 1 # w
    BY <1>1, <1>3
  <2>2. OpenHolds(st, j - 1) = <<>> /\ OpenHolds(tu, j - 1) = <<>>
    BY <2>1 DEF OpenHolds
  <2>3. QED
    BY <1>3, <2>2 DEF LinesIn
<1>6. \A j \in 1..n : j > k => ss[j] = <<>> /\ tt[j] = <<>>
  <2> SUFFICES ASSUME NEW j \in 1..n, j > k PROVE ss[j] = <<>> /\ tt[j] = <<>>
    OBVIOUS
  <2>1. j - 1 # w /\ j - 1 \in Week /\ j - 1 > w
    BY <1>1, <1>3
  <2>2. fs[j - 1].lines = <<>> /\ \A e \in en : e.week # j - 1
    BY <2>1
  <2>3. LinesIn(fs, en, st, j - 1) = <<>> /\ LinesIn(fs, en, tu, j - 1) = <<>>
    BY <2>1, <2>2, EmptyWeek
  <2>4. QED
    BY <1>3, <2>3
<1> HIDE DEF n, ss, tt, k
<1>7. FlatLonger(ss, tt, a)
  <2>1. a \in Seq(LogRecord)
    OBVIOUS
  <2>2. n \in Nat \ {0} /\ k \in 1..n
    BY <1>1
  <2>3. MoreAt(ss, tt, n, k, a)
    BY <1>4, <1>5, <1>6 DEF MoreAt
  <2>4. QED
    BY <1>2, <2>1, <2>2, <2>3, FlatMore
<1>8. QED
  BY <1>7 DEF ss, tt

LEMMA UpToDrop ==
    ASSUME NEW u \in Seq(LogRecord), NEW count \in Nat, NEW n \in Nat, UpTo(u, count, n)
    PROVE  UpTo(u, count + 1, n + 1)
<1> SUFFICES ASSUME u # <<>>
             PROVE  u[Len(u)].event = "action" /\ u[Len(u)].n + (count + 1) = n + 1
  BY DEF UpTo
<1>1. Len(u) \in 1..Len(u)
  OBVIOUS
<1>2. u[Len(u)] \in LogRecord
  BY <1>1
<1>3. u[Len(u)].n \in Nat
  BY <1>2 DEF LogRecord
<1>4. u[Len(u)].event = "action" /\ u[Len(u)].n + count = n
  BY DEF UpTo
<1>5. QED
  BY <1>3, <1>4

LEMMA UpToSuffix ==
    ASSUME NEW s \in Seq(LogRecord), NEW t \in Seq(LogRecord), NEW u, u = s \o t, NEW count, NEW n, UpTo(u, count, n)
    PROVE  UpTo(t, count, n)
<1> SUFFICES ASSUME t # <<>> PROVE UpTo(t, count, n)
  BY DEF UpTo
<1>1. Len(t) \in Nat \ {0} /\ Len(s) \in Nat
  OBVIOUS
<1>2. Len(u) = Len(s) + Len(t) /\ \A i \in 1..Len(t) : u[Len(s) + i] = t[i]
  BY ConcatProperties
<1>3. u[Len(u)] = t[Len(t)]
  BY <1>1, <1>2
<1>4. u # <<>>
  <2>1. Len(u) # 0
    BY <1>1, <1>2
  <2>2. QED
    BY <2>1
<1>5. QED
  BY <1>3, <1>4 DEF UpTo

LEMMA OrderlyArrangedNext == LogTypeOK' /\ Orderly' => Arranged(files', ended', stream')
<1> SUFFICES ASSUME LogTypeOK', Orderly' PROVE Arranged(files', ended', stream')
  OBVIOUS
<1>1. /\ files' \in [Week -> File] /\ ended' \subseteq EndedStream /\ (stream' = NoStream \/ stream' \in Stream)
  BY DEF LogTypeOK, File
<1>2. \A s \in ended' : s.week \in Nat
  BY <1>1, LogConstants DEF EndedStream, Week
<1>3. \A s \in ended' : stream' # NoStream => s.week # stream'.week
  BY <1>1, <1>2, LogConstants DEF Orderly, StreamsInOrder, Stream, Week
<1>4. QED
  BY <1>1, <1>3 DEF Orderly, StreamsInOrder, Arranged

\* The lines are linked up to the entry, after which count were dropped.
Told(lines, count, n) == Linked(lines) /\ UpTo(lines, count, n)

\* An entry to the stream of the current week.
LEMMA SameWeekWritten ==
    ASSUME LogTypeOK, Orderly, logAction, stream # NoStream, stream.week = week,
           Told(Written, dropped, logged)
    PROVE  Orderly' /\ Told(Written', dropped', logged')
<1> DEFINE b == stream.buffer
           a == Added(dropped, logged + 1)
<1>1. /\ logged' = logged + 1 /\ week' = week /\ UNCHANGED <<ended, files>>
      /\ stream' = [stream EXCEPT !.buffer = Buffer(b, dropped, Entry(logged + 1))]
      /\ dropped' = Count(b, dropped)
  BY DEF logAction, writeLine, OpenThrows
<1>2. /\ logged \in Nat /\ dropped \in Nat /\ b \in Seq(LogRecord) /\ stream \in Stream
      /\ week \in Nat /\ week \in Week /\ \A v \in Week : v \in Nat /\ files[v].mtime \in Nat
      /\ \A s \in ended : s.week \in Nat
  BY LogFacts
<1>3. logged + 1 \in Nat /\ a \in Seq(LogRecord)
  <2>1. logged + 1 \in Nat
    BY <1>2
  <2>2. QED
    BY <1>2, <2>1, AddedTyped
<1>4. LogTypeOK' /\ stream' \in Stream /\ stream' # NoStream /\ stream'.week = week
      /\ stream'.buffer = Buffer(b, dropped, Entry(logged + 1))
  <2>1. LogTypeOK'
    BY LogActionTyped
  <2>2. stream'.week = stream.week /\ stream'.buffer = Buffer(b, dropped, Entry(logged + 1))
    BY <1>1, <1>2 DEF Stream
  <2>3. stream' \in Stream
    <3>1. Buffer(b, dropped, Entry(logged + 1)) \in Seq(LogRecord)
      BY <1>2, <1>3, BufferTyped
    <3>2. QED
      BY <1>1, <1>2, <3>1 DEF Stream
  <2>4. QED
    BY <2>1, <2>2, <2>3, StreamAssumption
<1>5. Orderly'
  BY <1>1, <1>4, OrderStays
<1>6. Written = FlattenSeq(Rows(files, ended, stream)) /\ Written' = FlattenSeq(Rows(files, ended, stream'))
  BY <1>1, WrittenIs
<1>7. Arranged(files, ended, stream) /\ Arranged(files, ended, stream')
  BY <1>1, <1>4, <1>5, OrderlyArranged, OrderlyArrangedNext
<1>8. Written \in Seq(LogRecord)
  BY <1>6, <1>7, WeeksTyped
<1>9. CASE Accepts(b)
  <2>1. stream'.buffer = b \o a /\ dropped' = 0
    BY <1>1, <1>2, <1>3, <1>4, <1>9, BufferIs
  <2>2. \A e \in ended : e.week < week
    BY DEF Orderly, StreamsInOrder
  <2>3. Holds(ended, stream, week, b) /\ Holds(ended, stream', week, b \o a)
    <3>1. \A e \in ended : e.week # week
      BY <1>2, <2>2
    <3>2. QED
      BY <1>4, <2>1, <3>1 DEF Holds
  <2>4. \A v \in Week : v > week => files[v].lines = <<>> /\ \A e \in ended : e.week # v
    BY <1>2, <2>2 DEF Orderly, StreamsInOrder, FilesInOrder, Opened
  <2>5. ~files[week].removed
    BY <1>2 DEF Orderly, FilesInOrder
  <2>6. FlatLonger(Rows(files, ended, stream), Rows(files, ended, stream'), a)
    <3> HIDE DEF b, a
    <3>1. QED
      BY <1>2, <1>3, <1>4, <1>7, <2>3, <2>4, <2>5, RowsMore
  <2>7. Written' = Written \o a
    BY <1>6, <2>6 DEF FlatLonger
  <2>8. Linked(Written \o a) /\ UpTo(Written \o a, 0, logged + 1)
    BY <1>2, <1>8, LinkedMore DEF Told
  <2>9. QED
    BY <1>1, <1>5, <2>1, <2>7, <2>8 DEF Told
<1>10. CASE ~Accepts(b)
  <2>1. stream'.buffer = b /\ dropped' = dropped + 1
    BY <1>1, <1>2, <1>3, <1>4, <1>10, BufferIs
  <2>2. stream' = stream
    BY <1>2, <1>4, <2>1 DEF Stream
  <2>3. Written' = Written
    BY <1>6, <2>2
  <2>4. UpTo(Written, dropped + 1, logged + 1)
    BY <1>2, <1>8, UpToDrop DEF Told
  <2>5. QED
    BY <1>1, <1>5, <2>1, <2>3, <2>4 DEF Told
<1>11. QED
  BY <1>9, <1>10

\* The end of one week's stream and the removal of old files leave the last
\* of the lines.
LEMMA SwitchCuts ==
    ASSUME LogTypeOK, Orderly, ~(stream # NoStream /\ stream.week = week), Switch, openStream, Orderly',
           Arranged(files', ended', NoStream)
    PROVE  FlatShorter(Rows(files, ended, stream), Rows(files', ended', NoStream), LogRecord)
<1> DEFINE n == LastWeek + 1
           ss == Rows(files, ended, stream)
           tt == Rows(files', ended', NoStream)
           last == [week |-> stream.week, buffer |-> stream.buffer, awaited |-> FALSE]
<1>1. Arranged(files, ended, stream)
  BY OrderlyArranged
<1>2. ss \in [1..n -> Seq(LogRecord)] /\ tt \in [1..n -> Seq(LogRecord)] /\ n \in Nat \ {0}
  BY <1>1, WeeksTyped, LogConstants
<1>3. \A w \in Week : /\ files[w].lines \in Seq(LogRecord) /\ files'[w].lines = files[w].lines
                      /\ files[w].removed => files'[w].removed
  BY FilesAfter, LogFacts
<1>4. /\ stream = NoStream => ended' = ended
      /\ stream # NoStream => ended' = ended \cup {last}
  BY DEF Switch
<1>5. \A w \in Week : ~files'[w].removed => tt[w + 1] = ss[w + 1]
  <2> SUFFICES ASSUME NEW w \in Week, ~files'[w].removed
               PROVE  LinesIn(files', ended', NoStream, w) = LinesIn(files, ended, stream, w)
    <3>1. \A w \in Week : w + 1 \in 1..n /\ (w + 1) - 1 = w
      BY LogConstants DEF Week
    <3>2. QED
      BY <3>1 DEF Rows
  <2>1. PICK b \in Seq(LogRecord) : Holds(ended, stream, w, b)
    BY <1>1, SomeHold
  <2>2. Holds(ended', NoStream, w, b)
    <3>1. CASE stream # NoStream /\ stream.week = w /\ b = stream.buffer /\ \A e \in ended : e.week # w
      <4>1. last \in ended' /\ last.week = w /\ b = last.buffer /\ \A d \in ended' : d.week = w => d = last
        BY <1>4, <3>1
      <4>2. QED
        BY <4>1 DEF Holds
    <3>2. CASE /\ ~(stream # NoStream /\ stream.week = w)
               /\ \E e \in ended : e.week = w /\ b = e.buffer /\ \A d \in ended : d.week = w => d = e
      <4>1. PICK e \in ended : e.week = w /\ b = e.buffer /\ \A d \in ended : d.week = w => d = e
        BY <3>2
      <4>2. e \in ended' /\ \A d \in ended' : d.week = w => d = e
        BY <1>4, <3>2, <4>1
      <4>3. QED
        BY <4>1, <4>2 DEF Holds
    <3>3. CASE ~(stream # NoStream /\ stream.week = w) /\ b = <<>> /\ \A e \in ended : e.week # w
      <4>1. \A d \in ended' : d.week # w
        BY <1>4, <3>3
      <4>2. QED
        BY <3>3, <4>1 DEF Holds
    <3>4. QED
      BY <2>1, <3>1, <3>2, <3>3 DEF Holds
  <2>3. LinesIn(files, ended, stream, w) = files[w].lines \o b
    BY <1>3, <2>1, HeldLines
  <2>4. LinesIn(files', ended', NoStream, w) = files'[w].lines \o b
    <3>1. files'[w].lines \in Seq(LogRecord)
      BY <1>3
    <3>2. QED
      BY <2>2, <3>1, HeldLines
  <2>5. QED
    BY <1>3, <2>3, <2>4
<1>6. \A w \in Week : files'[w].removed => tt[w + 1] = <<>>
  <2>1. \A w \in Week : w + 1 \in 1..n /\ (w + 1) - 1 = w
    BY LogConstants DEF Week
  <2>2. QED
    BY <2>1 DEF Rows, LinesIn
<1>7. \A w \in Week : ~Opened(w) => ss[w + 1] = <<>>
  <2> SUFFICES ASSUME NEW w \in Week, ~Opened(w) PROVE LinesIn(files, ended, stream, w) = <<>>
    <3>1. \A w \in Week : w + 1 \in 1..n /\ (w + 1) - 1 = w
      BY LogConstants DEF Week
    <3>2. QED
      BY <3>1 DEF Rows
  <2>1. files[w].lines = <<>> /\ (\A e \in ended : e.week # w) /\ (stream = NoStream \/ stream.week # w)
    BY DEF Orderly, StreamsInOrder
  <2>2. QED
    BY <2>1, EmptyWeek
<1>8. \A w \in Week : Opened(w) /\ files'[w].removed => \A v \in Week : v < w => tt[v + 1] = <<>>
  <2> SUFFICES ASSUME NEW w \in Week, Opened(w), files'[w].removed, NEW v \in Week, v < w
               PROVE  files'[v].removed
    BY <1>6
  <2>1. Opened(w)'
    <3>1. files[w].mtime >= w /\ w # week /\ files'[w].mtime = files[w].mtime
      BY FilesAfter DEF Opened
    <3>2. QED
      BY <3>1 DEF Opened
  <2>2. QED
    BY <2>1 DEF Orderly, FilesInOrder
<1>9. \A j \in 1..n : tt[j] = ss[j] \/ (tt[j] = <<>> /\ \A i \in 1..n : i < j => tt[i] = <<>>)
  <2> SUFFICES ASSUME NEW j \in 1..n
               PROVE  tt[j] = ss[j] \/ (tt[j] = <<>> /\ \A i \in 1..n : i < j => tt[i] = <<>>)
    OBVIOUS
  <2>1. \A i \in 1..n : i - 1 \in Week /\ (i - 1) + 1 = i
    BY LogConstants DEF Week
  <2>2. PICK w \in Week : w = j - 1 /\ w + 1 = j
    BY <2>1
  <2> HIDE DEF ss, tt
  <2>3. CASE ~files'[w].removed
    BY <1>5, <2>2, <2>3
  <2>4. CASE files'[w].removed /\ ~Opened(w)
    BY <1>6, <1>7, <2>2, <2>4
  <2>5. CASE files'[w].removed /\ Opened(w)
    <3>1. \A i \in 1..n : i < j => i - 1 < w
      BY <2>2
    <3>2. \A i \in 1..n : i < j => tt[i] = <<>>
      <4> SUFFICES ASSUME NEW i \in 1..n, i < j PROVE tt[i] = <<>>
        OBVIOUS
      <4>1. PICK v \in Week : v = i - 1 /\ v + 1 = i
        BY <2>1
      <4>2. v < w
        BY <3>1, <4>1
      <4>3. QED
        BY <1>8, <2>5, <4>1, <4>2
    <3>3. QED
      BY <1>6, <2>2, <2>5, <3>2
  <2>6. QED
    BY <2>3, <2>4, <2>5
<1> HIDE DEF n, ss, tt
<1>10. FlatShorter(ss, tt, LogRecord)
  BY <1>2, <1>9, FlatCut
<1>11. QED
  BY <1>10 DEF ss, tt

\* An entry to another week's stream.
LEMMA NextWeekWritten ==
    ASSUME LogTypeOK, Orderly, logAction, ~(stream # NoStream /\ stream.week = week), ~torn',
           Told(Written, dropped, logged)
    PROVE  Orderly' /\ Told(Written', dropped', logged')
<1> DEFINE a == Added(dropped, logged + 1)
           none == <<>>
<1>1. /\ logged' = logged + 1 /\ week' = week /\ Switch /\ openStream
      /\ stream' = [week |-> week, buffer |-> Buffer(none, dropped, Entry(logged + 1))]
      /\ dropped' = Count(none, dropped)
  BY DEF logAction, writeLine, OpenThrows
<1>2. /\ logged \in Nat /\ dropped \in Nat /\ none \in Seq(LogRecord)
      /\ week \in Nat /\ week \in Week /\ \A v \in Week : v \in Nat /\ files[v].mtime \in Nat
      /\ \A s \in ended : s.week \in Nat
  BY LogFacts
<1>3. logged + 1 \in Nat /\ a \in Seq(LogRecord)
  <2>1. logged + 1 \in Nat
    BY <1>2
  <2>2. QED
    BY <1>2, <2>1, AddedTyped
<1>4. Accepts(none)
  BY LogConstants DEF Accepts
<1>5. stream'.buffer = none \o a /\ dropped' = 0
  <2> HIDE DEF none
  <2> QED BY <1>1, <1>2, <1>3, <1>4, BufferIs
<1>6. LogTypeOK' /\ stream' \in Stream /\ stream' # NoStream /\ stream'.week = week
  <2>1. LogTypeOK'
    BY LogActionTyped
  <2>2. stream'.buffer \in Seq(LogRecord)
    BY <1>3, <1>5
  <2>3. stream' \in Stream
    BY <1>1, <1>2, <2>2 DEF Stream
  <2>4. QED
    BY <1>1, <2>1, <2>3, StreamAssumption
<1>7. Orderly'
  BY <1>1, <1>6, OrderSwitches
<1>8. /\ Arranged(files, ended, stream) /\ Arranged(files', ended', stream') /\ Arranged(files', ended', NoStream)
  <2>1. Arranged(files, ended, stream) /\ Arranged(files', ended', stream')
    BY <1>6, <1>7, OrderlyArranged, OrderlyArrangedNext
  <2>2. QED
    BY <2>1 DEF Arranged
<1> DEFINE old == FlattenSeq(Rows(files, ended, stream))
           mid == FlattenSeq(Rows(files', ended', NoStream))
<1>9. Written = old /\ Written' = FlattenSeq(Rows(files', ended', stream'))
  BY WrittenIs
<1>10. old \in Seq(LogRecord) /\ mid \in Seq(LogRecord)
  BY <1>8, WeeksTyped
<1>11. PICK u \in Seq(LogRecord) : old = u \o mid
  BY <1>1, <1>7, <1>8, SwitchCuts DEF FlatShorter
<1>12. Linked(mid) /\ UpTo(mid, dropped, logged)
  <2>1. Linked(old) /\ UpTo(old, dropped, logged)
    BY <1>9 DEF Told
  <2> HIDE DEF old, mid
  <2>2. Linked(u \o mid)
    BY <1>11, <2>1
  <2>3. Linked(mid)
    BY <1>10, <2>2, LinkedSuffix
  <2>4. UpTo(mid, dropped, logged)
    BY <1>10, <1>11, <2>1, UpToSuffix
  <2>5. QED
    BY <2>3, <2>4
<1>13. Written' = mid \o a
  <2>1. \A e \in ended' : e.week < week
    BY <1>1, <1>7 DEF Orderly, StreamsInOrder
  <2>2. \A e \in ended' : e.week \in Week /\ e.week # week
    BY <1>2, <1>8, <2>1, LogConstants DEF Arranged, EndedStream, Week
  <2>3. Holds(ended', NoStream, week, none) /\ Holds(ended', stream', week, none \o a)
    BY <1>5, <1>6, <2>2 DEF Holds
  <2>4. \A v \in Week : v > week => files'[v].lines = <<>> /\ \A e \in ended' : e.week # v
    <3>1. \A v \in Week : files'[v].lines # <<>> => files'[v].mtime >= v
      BY <1>7 DEF Orderly, StreamsInOrder, Opened
    <3>2. \A v \in Week : files'[v].mtime <= week /\ files'[v].mtime \in Nat
      <4>1. \A v \in Week : files'[v].mtime = IF v = week THEN week ELSE files[v].mtime
        BY <1>1, FilesAfter
      <4>2. QED
        BY <1>1, <1>2, <1>7, <4>1 DEF Orderly, FilesInOrder
    <3>3. QED
      BY <1>2, <2>1, <2>2, <3>1, <3>2
  <2>5. ~files'[week].removed
    BY <1>1, <1>2, FilesAfter
  <2>6. FlatLonger(Rows(files', ended', NoStream), Rows(files', ended', stream'), a)
    <3> HIDE DEF none, a
    <3>1. QED
      BY <1>2, <1>3, <1>6, <1>8, <2>3, <2>4, <2>5, RowsMore
  <2>7. QED
    BY <1>9, <2>6 DEF FlatLonger
<1>14. Linked(mid \o a) /\ UpTo(mid \o a, 0, logged + 1)
  <2> HIDE DEF mid
  <2>1. QED
    BY <1>2, <1>10, <1>12, LinkedMore
<1>15. QED
  BY <1>1, <1>5, <1>7, <1>13, <1>14 DEF Told

LEMMA WrittenKept ==
    ASSUME LogTypeOK,
           \A w \in Week : \E b, c \in Seq(LogRecord) :
               /\ Holds(ended, stream, w, b) /\ Holds(ended', stream', w, c)
               /\ files'[w].removed = files[w].removed /\ files'[w].lines \in Seq(LogRecord)
               /\ files'[w].lines \o c = files[w].lines \o b
    PROVE  Written' = Written
<1>1. ASSUME NEW w \in Week PROVE LinesIn(files', ended', stream', w) = LinesIn(files, ended, stream, w)
  <2>1. PICK b, c \in Seq(LogRecord) :
               /\ Holds(ended, stream, w, b) /\ Holds(ended', stream', w, c)
               /\ files'[w].removed = files[w].removed /\ files'[w].lines \in Seq(LogRecord)
               /\ files'[w].lines \o c = files[w].lines \o b
    OBVIOUS
  <2>2. files[w].lines \in Seq(LogRecord)
    BY LogFacts
  <2>3. LinesIn(files, ended, stream, w) = IF files[w].removed THEN <<>> ELSE files[w].lines \o b
    BY <2>1, <2>2, HeldLines
  <2>4. LinesIn(files', ended', stream', w) = IF files'[w].removed THEN <<>> ELSE files'[w].lines \o c
    <3> DEFINE gs == files'
               en == ended'
               st == stream'
    <3>1. Holds(en, st, w, c) /\ gs[w].lines \in Seq(LogRecord) /\ c \in Seq(LogRecord)
      BY <2>1
    <3> HIDE DEF gs, en, st
    <3>2. LinesIn(gs, en, st, w) = IF gs[w].removed THEN <<>> ELSE gs[w].lines \o c
      BY <3>1, HeldLines
    <3>3. QED
      BY <3>2 DEF gs, en, st
  <2>5. QED
    BY <2>1, <2>3, <2>4
<1>2. Rows(files', ended', stream') = Rows(files, ended, stream)
  BY <1>1, SameRows
<1>3. QED
  BY <1>2, WrittenIs

\* A line of the week w that lands.
LEMMA LandFacts ==
    ASSUME LogTypeOK, NEW w \in Week, NEW line \in LogRecord, Land(w, line)
    PROVE  /\ files'[w].lines = Append(files[w].lines, line) /\ files'[w].lines \in Seq(LogRecord)
           /\ \A v \in Week : /\ files'[v].mtime = IF v = w THEN week ELSE files[v].mtime
                              /\ files'[v].removed = files[v].removed
                              /\ v # w => files'[v].lines = files[v].lines
<1>1. /\ files \in [Week -> File] /\ files[w].lines \in Seq(LogRecord)
  BY LogFacts
<1>2. files' = [files EXCEPT ![w] = [lines |-> Append(files[w].lines, line), mtime |-> week, removed |-> files[w].removed]]
  BY DEF Land
<1>3. Append(files[w].lines, line) \in Seq(LogRecord)
  BY <1>1
<1>4. QED
  BY <1>1, <1>2, <1>3

LEMMA LineKeeps ==
    ASSUME LogTypeOK, Orderly, LineWritten
    PROVE  Orderly' /\ Written' = Written
<1> DEFINE w == stream.week
           b == stream.buffer
<1>1. /\ stream # NoStream /\ b # <<>> /\ Land(w, Head(b)) /\ stream' = [stream EXCEPT !.buffer = Tail(b)]
      /\ UNCHANGED <<week, ended>>
  BY DEF LineWritten
<1>2. stream \in Stream /\ w \in Week /\ w \in Nat /\ b \in Seq(LogRecord) /\ week \in Nat
      /\ \A v \in Week : v \in Nat /\ files[v].lines \in Seq(LogRecord) /\ files[v].mtime \in Nat
  BY <1>1, LogFacts
<1>3. Head(b) \in LogRecord /\ Tail(b) \in Seq(LogRecord)
  BY <1>1, <1>2, TailTyped
<1>4. /\ files'[w].lines = Append(files[w].lines, Head(b)) /\ files'[w].lines \in Seq(LogRecord)
      /\ \A v \in Week : /\ files'[v].mtime = IF v = w THEN week ELSE files[v].mtime
                         /\ files'[v].removed = files[v].removed
                         /\ v # w => files'[v].lines = files[v].lines
  <2> HIDE DEF w, b
  <2> QED BY <1>1, <1>2, <1>3, LandFacts
<1>5. stream'.week = w /\ stream'.buffer = Tail(b) /\ stream' \in Stream
  BY <1>1, <1>2, <1>3 DEF Stream
<1>6. stream' # NoStream
  BY <1>5, StreamAssumption
<1>7. (\A e \in ended : e.week # w) /\ Opened(w) /\ w <= week /\ \A v \in Week : Opened(v) => v <= w
  <2>1. (\A e \in ended : e.week < w /\ e.week \in Nat) /\ Opened(w) /\ \A v \in Week : Opened(v) => v <= w
    BY <1>1, LogFacts DEF Orderly, StreamsInOrder
  <2>2. files[w].mtime <= week /\ files[w].mtime >= w
    BY <1>2, <2>1 DEF Orderly, FilesInOrder, Opened
  <2>3. QED
    BY <1>2, <2>1, <2>2
<1>8. Orderly'
  <2>1. \A s \in ended' : \E t \in ended : s.week = t.week /\ (s.buffer # <<>> => t.buffer # <<>>)
    BY <1>1
  <2>2. \A s, t \in ended' : s.week = t.week => s = t
    BY <1>1 DEF Orderly, StreamsInOrder
  <2>3. stream # NoStream /\ stream' # NoStream /\ stream'.week = stream.week /\ week' = week
    BY <1>1, <1>5, <1>6
  <2> HIDE DEF w, b
  <2>4. QED
    BY <1>2, <1>4, <1>7, <2>1, <2>2, <2>3, OrderLands
<1>9. \A v \in Week : \E c, d \in Seq(LogRecord) :
               /\ Holds(ended, stream, v, c) /\ Holds(ended', stream', v, d)
               /\ files'[v].removed = files[v].removed /\ files'[v].lines \in Seq(LogRecord)
               /\ files'[v].lines \o d = files[v].lines \o c
  <2> SUFFICES ASSUME NEW v \in Week
               PROVE  \E c, d \in Seq(LogRecord) :
                        /\ Holds(ended, stream, v, c) /\ Holds(ended', stream', v, d)
                        /\ files'[v].lines \in Seq(LogRecord)
                        /\ files'[v].lines \o d = files[v].lines \o c
    BY <1>4
  <2>1. CASE v = w
    <3>1. Holds(ended, stream, w, b) /\ Holds(ended', stream', w, Tail(b))
      BY <1>1, <1>5, <1>6, <1>7 DEF Holds
    <3>2. files'[w].lines \o Tail(b) = files[w].lines \o b
      BY <1>1, <1>2, <1>4, HeadTaken
    <3> HIDE DEF w, b
    <3>3. QED
      BY <1>2, <1>3, <1>4, <2>1, <3>1, <3>2
  <2>2. CASE v # w
    <3>1. PICK c \in Seq(LogRecord) : Holds(ended, stream, v, c)
      BY SomeHold, OrderlyArranged
    <3>2. Holds(ended', stream', v, c)
      BY <1>1, <1>5, <2>2, <3>1 DEF Holds
    <3>3. QED
      BY <1>2, <1>4, <2>2, <3>1, <3>2
  <2>3. QED
    BY <2>1, <2>2
<1>10. QED
  BY <1>8, <1>9, WrittenKept

LEMMA LastLineKeeps ==
    ASSUME LogTypeOK, Orderly, NEW s \in ended, LastLinesWritten(s)
    PROVE  Orderly' /\ Written' = Written
<1> DEFINE w == s.week
           b == s.buffer
           t == [s EXCEPT !.buffer = Tail(b)]
<1>1. /\ b # <<>> /\ Land(w, Head(b)) /\ ended' = (ended \ {s}) \cup {t}
      /\ UNCHANGED <<week, stream>>
  BY DEF LastLinesWritten
<1>2. s \in EndedStream /\ w \in Week /\ w \in Nat /\ b \in Seq(LogRecord) /\ week \in Nat
      /\ \A v \in Week : v \in Nat /\ files[v].lines \in Seq(LogRecord) /\ files[v].mtime \in Nat
  BY <1>1, LogFacts
<1>3. Head(b) \in LogRecord /\ Tail(b) \in Seq(LogRecord)
  BY <1>1, <1>2, TailTyped
<1>4. /\ files'[w].lines = Append(files[w].lines, Head(b)) /\ files'[w].lines \in Seq(LogRecord)
      /\ \A v \in Week : /\ files'[v].mtime = IF v = w THEN week ELSE files[v].mtime
                         /\ files'[v].removed = files[v].removed
                         /\ v # w => files'[v].lines = files[v].lines
  <2> HIDE DEF w, b
  <2> QED BY <1>1, <1>2, <1>3, LandFacts
<1>5. t.week = w /\ t.buffer = Tail(b)
  BY <1>2 DEF EndedStream
<1>6. /\ \A e \in ended : e.week = w => e = s
      /\ stream = NoStream \/ stream.week # w
      /\ Opened(w) /\ w <= week /\ \A v \in Week : Opened(v) => v <= w \/ v = week
  <2>1. \A e \in ended : e.week = w => e = s
    BY DEF Orderly, StreamsInOrder
  <2>2. stream # NoStream => w < stream.week /\ stream.week \in Nat
    BY LogFacts DEF Orderly, StreamsInOrder
  <2>3. Opened(w) /\ w < week /\ \A v \in Week : Opened(v) => v <= w \/ v = week
    BY <1>1 DEF Orderly, StreamsInOrder, FilesInOrder
  <2>4. QED
    BY <1>2, <2>1, <2>2, <2>3
<1>7. \A e \in ended' : e = t \/ (e \in ended /\ e.week # w)
  BY <1>1, <1>6
<1>8. Orderly'
  <2>1. \A e \in ended' : \E d \in ended : e.week = d.week /\ (e.buffer # <<>> => d.buffer # <<>>)
    BY <1>1, <1>5, <1>7
  <2>2. \A e, d \in ended' : e.week = d.week => e = d
    <3>1. \A e, d \in ended : e.week = d.week => e = d
      BY DEF Orderly, StreamsInOrder
    <3> HIDE DEF w, t
    <3>2. QED
      BY <1>5, <1>7, <3>1
  <2>3. /\ week' = week
        /\ \/ stream = NoStream /\ stream' = NoStream
           \/ stream # NoStream /\ stream' # NoStream /\ stream'.week = stream.week
    BY <1>1
  <2> HIDE DEF w, b
  <2>4. QED
    BY <1>2, <1>4, <1>6, <2>1, <2>2, <2>3, OrderLands
<1>9. \A v \in Week : \E c, d \in Seq(LogRecord) :
               /\ Holds(ended, stream, v, c) /\ Holds(ended', stream', v, d)
               /\ files'[v].removed = files[v].removed /\ files'[v].lines \in Seq(LogRecord)
               /\ files'[v].lines \o d = files[v].lines \o c
  <2> SUFFICES ASSUME NEW v \in Week
               PROVE  \E c, d \in Seq(LogRecord) :
                        /\ Holds(ended, stream, v, c) /\ Holds(ended', stream', v, d)
                        /\ files'[v].lines \in Seq(LogRecord)
                        /\ files'[v].lines \o d = files[v].lines \o c
    BY <1>4
  <2>1. CASE v = w
    <3>1. Holds(ended, stream, w, b)
      BY <1>6 DEF Holds
    <3>2. Holds(ended', stream', w, Tail(b))
      <4>1. t \in ended' /\ \A d \in ended' : d.week = w => d = t
        BY <1>1, <1>7
      <4> HIDE DEF t
      <4>2. QED
        BY <1>1, <1>5, <1>6, <4>1 DEF Holds
    <3>3. files'[w].lines \o Tail(b) = files[w].lines \o b
      BY <1>1, <1>2, <1>4, HeadTaken
    <3> HIDE DEF w, b
    <3>4. QED
      BY <1>2, <1>3, <1>4, <2>1, <3>1, <3>2, <3>3
  <2>2. CASE v # w
    <3>1. PICK c \in Seq(LogRecord) : Holds(ended, stream, v, c)
      BY SomeHold, OrderlyArranged
    <3>2. \A e : e.week = v => (e \in ended' <=> e \in ended)
      <4> HIDE DEF t
      <4> QED BY <1>1, <1>5, <2>2
    <3>3. Holds(ended', stream', v, c)
      BY <1>1, <3>1, <3>2 DEF Holds
    <3>4. QED
      BY <1>2, <1>4, <2>2, <3>1, <3>3
  <2>3. QED
    BY <2>1, <2>2
<1>10. QED
  BY <1>8, <1>9, WrittenKept

\* A stream that held nothing goes, or a week passes.
LEMMA NothingLost ==
    ASSUME LogTypeOK, Orderly,
           \/ WeekPasses
           \/ stream # NoStream /\ stream.buffer = <<>> /\ StreamBreaks
           \/ \E s \in ended : s.buffer = <<>> /\ (Closed(s) \/ EndedBreaks(s))
    PROVE  Orderly' /\ Written' = Written
<1>1. files' = files
  BY DEF WeekPasses, StreamBreaks, Closed, EndedBreaks
<1>2. Orderly'
  <2>1. /\ ended' \subseteq ended /\ week' \in {week, week + 1} /\ stream' \in {stream, NoStream}
        /\ week' # week => \A s \in ended' : s.buffer = <<>>
    BY DEF WeekPasses, StreamBreaks, Closed, EndedBreaks
  <2>2. QED
    BY <1>1, <2>1, OrderLeft
<1>3. \A v \in Week : \E c \in Seq(LogRecord) : Holds(ended, stream, v, c) /\ Holds(ended', stream', v, c)
  <2> SUFFICES ASSUME NEW v \in Week
               PROVE  \E c \in Seq(LogRecord) : Holds(ended, stream, v, c) /\ Holds(ended', stream', v, c)
    OBVIOUS
  <2>1. PICK c \in Seq(LogRecord) : Holds(ended, stream, v, c)
    BY SomeHold, OrderlyArranged
  <2>2. CASE WeekPasses
    <3>1. ended' = ended /\ stream' = stream
      BY <2>2 DEF WeekPasses
    <3>2. QED
      BY <2>1, <3>1
  <2>3. CASE stream # NoStream /\ stream.buffer = <<>> /\ StreamBreaks
    <3>1. ended' = ended /\ stream' = NoStream
      BY <2>3 DEF StreamBreaks
    <3>2. Holds(ended', stream', v, c)
      BY <2>1, <2>3, <3>1 DEF Holds
    <3>3. QED
      BY <2>1, <3>2
  <2>4. CASE \E s \in ended : s.buffer = <<>> /\ (Closed(s) \/ EndedBreaks(s))
    <3>1. PICK s \in ended : s.buffer = <<>> /\ (Closed(s) \/ EndedBreaks(s))
      BY <2>4
    <3>2. ended' = ended \ {s} /\ stream' = stream
      BY <3>1 DEF Closed, EndedBreaks
    <3>3. CASE s.week = v
      <4>1. \A d \in ended : d.week = v => d = s
        BY <3>3 DEF Orderly, StreamsInOrder
      <4>2. c = <<>> /\ ~(stream # NoStream /\ stream.week = v)
        BY <2>1, <3>1, <3>3, <4>1 DEF Holds
      <4>3. \A d \in ended' : d.week # v
        BY <3>2, <4>1
      <4>4. Holds(ended', stream', v, c)
        BY <3>2, <4>2, <4>3 DEF Holds
      <4>5. QED
        BY <2>1, <4>4
    <3>4. CASE s.week # v
      <4>1. Holds(ended', stream', v, c)
        BY <2>1, <3>2, <3>4 DEF Holds
      <4>2. QED
        BY <2>1, <4>1
    <3>5. QED
      BY <3>3, <3>4
  <2>5. QED
    BY <2>2, <2>3, <2>4
<1>4. \A v \in Week : files[v].lines \in Seq(LogRecord)
  BY LogFacts
<1>5. Written' = Written
  BY <1>1, <1>3, <1>4, WrittenKept
<1>6. QED
  BY <1>2, <1>5

FileGaps == ~torn /\ flushing.stage = "no" => Orderly /\ Told(Written, dropped, logged)
StreamBounded == stream # NoStream => Bounded(stream.buffer)

LEMMA GapInvIs == GapInv <=> CopyInv /\ StreamBounded /\ FileGaps
  BY DEF GapInv, StreamBounded, FileGaps, Orderly, Told, UpToDate, UpTo

LEMMA GapInvIsNext == GapInv' <=> CopyInv' /\ StreamBounded' /\ FileGaps'
  BY DEF GapInv, StreamBounded, FileGaps, Orderly, Told, UpToDate, UpTo, Linked

LEMMA FileGapsNext ==
    FileGaps' <=> (~torn' /\ flushing'.stage = "no" => Orderly' /\ Told(Written', dropped', logged'))
  BY DEF FileGaps, Told, Linked, UpTo

LEMMA FlatNone ==
    ASSUME NEW T, NEW n \in Nat \ {0}, NEW ss \in [1..n -> Seq(T)], \A j \in 1..n : ss[j] = <<>>
    PROVE  FlattenSeq(ss) = <<>>
<1>1. PICK f : JoinedBy(f, ss, n, T)
  BY RowsJoined
<1>2. /\ f \in [1..n -> Seq(T)] /\ f[1] = ss[1] /\ FlattenSeq(ss) = f[n]
      /\ \A i \in 1..n : i < n => f[i + 1] = f[i] \o ss[i + 1]
  BY <1>1 DEF JoinedBy
<1> DEFINE good == {j \in 1..n : f[j] = <<>>}
<1>3. 1 \in good
  <2>1. 1 \in 1..n
    OBVIOUS
  <2>2. QED
    BY <1>2, <2>1
<1>4. ASSUME NEW j \in 1..n, j \in good, j < n PROVE j + 1 \in good
  <2>1. PICK l \in 1..n : l = j + 1
    BY <1>4
  <2>2. f[l] = f[j] \o ss[l] /\ f[j] = <<>> /\ ss[l] = <<>>
    BY <1>2, <1>4, <2>1
  <2>3. <<>> \o <<>> = <<>>
    OBVIOUS
  <2>4. f[l] = <<>>
    BY <2>2, <2>3
  <2>5. QED
    BY <2>1, <2>4
<1>5. n \in good
  <2> HIDE DEF good
  <2> QED BY <1>3, <1>4, CountUp
<1>6. QED
  BY <1>2, <1>5

LEMMA WrittenInit == LogInit => Written = <<Entry(0)>>
<1> SUFFICES ASSUME LogInit PROVE Written = <<Entry(0)>>
  OBVIOUS
<1> DEFINE n == LastWeek + 1
           a == <<Entry(0)>>
           none == <<>>
           ss == [i \in 1..n |-> none]
           tt == Rows(files, ended, stream)
<1>1. n \in Nat \ {0} /\ 1 \in 1..n /\ a \in Seq(LogRecord)
  BY LogConstants, RecordTyped
<1>2. tt \in [1..n -> Seq(LogRecord)]
  <2>1. LogTypeOK /\ Orderly
    BY LogInitTyped, OrderInit
  <2>2. QED
    BY <2>1, OrderlyArranged, WeeksTyped
<1>3. ss \in [1..n -> Seq(LogRecord)] /\ \A j \in 1..n : ss[j] = none
  OBVIOUS
<1>4. FlattenSeq(ss) = <<>>
  <2> HIDE DEF ss, n
  <2> QED BY <1>1, <1>3, FlatNone
<1>5. MoreAt(ss, tt, n, 1, a)
  <2>1. /\ ended = {} /\ stream = NoStream
        /\ \A w \in Week : files[w].removed = FALSE /\ files[w].lines = IF w = 0 THEN a ELSE none
    BY DEF LogInit, EmptyFile
  <2>2. \A w \in Week : LinesIn(files, ended, stream, w) = IF w = 0 THEN a ELSE none
    <3> SUFFICES ASSUME NEW w \in Week PROVE LinesIn(files, ended, stream, w) = IF w = 0 THEN a ELSE none
      OBVIOUS
    <3>1. Holds(ended, stream, w, none) /\ none \in Seq(LogRecord)
      BY <2>1 DEF Holds
    <3>2. files[w].lines \in Seq(LogRecord)
      BY LogInitTyped, LogFacts
    <3>3. files[w].lines \o none = files[w].lines
      BY <3>2, ConcatEmptySeq
    <3>4. LinesIn(files, ended, stream, w) = IF files[w].removed THEN <<>> ELSE files[w].lines \o none
      <4> HIDE DEF none
      <4> QED BY <3>1, <3>2, HeldLines
    <3>5. QED
      BY <2>1, <3>3, <3>4
  <2>3. \A j \in 1..n : tt[j] = LinesIn(files, ended, stream, j - 1) /\ j - 1 \in Week
    BY LogConstants DEF Rows, Week
  <2>4. tt[1] = a /\ \A j \in 1..n : j > 1 => tt[j] = none
    <3>1. \A j \in 1..n : j > 1 => j - 1 # 0
      OBVIOUS
    <3>2. 1 - 1 = 0
      OBVIOUS
    <3> HIDE DEF tt, a, none, n
    <3>3. QED
      BY <1>1, <2>2, <2>3, <3>1, <3>2
  <2>5. none \o a = a
    BY <1>1, ConcatEmptySeq
  <2>6. \A j \in 1..n : ~(j < 1)
    OBVIOUS
  <2> HIDE DEF ss, tt, a, n
  <2>7. QED
    BY <1>1, <1>3, <2>4, <2>5, <2>6 DEF MoreAt
<1>6. FlatLonger(ss, tt, a)
  <2> HIDE DEF ss, tt, n, a
  <2> QED BY <1>1, <1>2, <1>3, <1>5, FlatMore
<1>7. FlattenSeq(tt) = <<>> \o a
  BY <1>4, <1>6 DEF FlatLonger
<1>8. <<>> \o a = a
  BY <1>1, ConcatEmptySeq
<1>9. QED
  BY <1>7, <1>8, WrittenIs

LEMMA GapInit == LogInit => GapInv
<1> SUFFICES ASSUME LogInit PROVE GapInv
  OBVIOUS
<1>1. Linked(<<Entry(0)>>)
  <2>1. Len(<<Entry(0)>>) = 1 /\ 1..1 - 1 = {}
    OBVIOUS
  <2>2. QED
    BY <2>1 DEF Linked
<1>2. UpTo(<<Entry(0)>>, dropped, logged)
  BY DEF LogInit, UpTo, Entry
<1>3. FileGaps
  BY <1>1, <1>2, WrittenInit, OrderInit DEF FileGaps, Told
<1>4. StreamBounded
  BY DEF LogInit, StreamBounded
<1>5. QED
  BY <1>3, <1>4, CopyInit, GapInvIs

LEMMA GapLogAction == LogTypeOK /\ GapInv /\ logAction => GapInv'
<1> SUFFICES ASSUME LogTypeOK, GapInv, logAction PROVE GapInv'
  OBVIOUS
<1>1. CopyInv /\ StreamBounded /\ FileGaps
  BY GapInvIs
<1>2. CopyInv'
  BY <1>1, CopyWrites
<1>3. StreamBounded'
  <2>1. /\ logged \in Nat /\ logged + 1 \in Nat /\ dropped \in Nat /\ logged' = logged + 1
        /\ stream # NoStream => stream \in Stream /\ stream.buffer \in Seq(LogRecord)
    BY LogFacts DEF logAction
  <2>2. CASE stream # NoStream /\ stream.week = week
    <3>1. stream' = [stream EXCEPT !.buffer = Buffer(stream.buffer, dropped, Entry(logged + 1))]
      BY <2>1, <2>2 DEF logAction, writeLine, OpenThrows
    <3>2. stream'.buffer = Buffer(stream.buffer, dropped, Entry(logged + 1))
      BY <2>1, <2>2, <3>1 DEF Stream
    <3>3. Bounded(stream.buffer)
      BY <1>1, <2>2 DEF StreamBounded
    <3>4. Bounded(stream'.buffer)
      BY <2>1, <2>2, <3>2, <3>3, StillBounded
    <3>5. QED
      BY <3>4 DEF StreamBounded
  <2>3. CASE ~(stream # NoStream /\ stream.week = week) /\ ~OpenThrows
    <3> DEFINE none == <<>>
    <3>1. stream'.buffer = Buffer(none, dropped, Entry(logged + 1))
      BY <2>1, <2>3 DEF logAction, writeLine
    <3>2. none \in Seq(LogRecord) /\ Bounded(none)
      BY LogConstants DEF Bounded
    <3>3. Bounded(stream'.buffer)
      <4> HIDE DEF none
      <4> QED BY <2>1, <3>1, <3>2, StillBounded
    <3>4. QED
      BY <3>3 DEF StreamBounded
  <2>4. CASE OpenThrows
    BY <2>4 DEF OpenThrows, StreamBounded
  <2>5. QED
    BY <2>2, <2>3, <2>4
<1>4. FileGaps'
  <2> SUFFICES ASSUME ~torn', flushing'.stage = "no"
               PROVE  Orderly' /\ Told(Written', dropped', logged')
    BY FileGapsNext
  <2>1. ~torn /\ flushing.stage = "no"
    BY DEF logAction, OpenThrows
  <2>2. Orderly /\ Told(Written, dropped, logged)
    BY <1>1, <2>1 DEF FileGaps
  <2>3. QED
    BY <2>2, SameWeekWritten, NextWeekWritten
<1>5. QED
  BY <1>2, <1>3, <1>4, GapInvIsNext

LEMMA GapLogEvent == LogTypeOK /\ GapInv /\ LogEvent => GapInv'
<1> SUFFICES ASSUME LogTypeOK, GapInv, LogEvent PROVE GapInv'
  OBVIOUS
<1>1. CopyInv /\ StreamBounded /\ FileGaps
  BY GapInvIs
<1>2. CopyInv'
  <2>1. /\ StdoutTakes \/ StdoutBreaks \/ UNCHANGED stdout
        /\ UNCHANGED logged
    BY DEF LogEvent, LineWritten, StreamBreaks, StdoutTakes, StdoutBreaks, WeekPasses, LastLinesWritten, Closed,
           EndedBreaks, StdoutDone, StdoutTimesOut, Flushed
  <2>2. QED
    BY <1>1, <2>1, CopyMoves
<1>3. StreamBounded'
  <2>1. CASE LineWritten
    <3>1. /\ stream # NoStream /\ stream.buffer # <<>> /\ stream' = [stream EXCEPT !.buffer = Tail(stream.buffer)]
          /\ stream \in Stream /\ stream.buffer \in Seq(LogRecord)
      BY <2>1, LogFacts DEF LineWritten
    <3>2. stream'.buffer = Tail(stream.buffer)
      BY <3>1 DEF Stream
    <3>3. Len(Tail(stream.buffer)) = Len(stream.buffer) - 1 /\ Len(stream.buffer) \in Nat
      BY <3>1
    <3>4. Len(stream.buffer) <= MaxBuffered + 2 /\ MaxBuffered \in Nat
      BY <1>1, <3>1, LogConstants DEF StreamBounded, Bounded
    <3>5. Len(Tail(stream.buffer)) <= MaxBuffered + 2
      BY <3>3, <3>4
    <3>6. QED
      BY <3>2, <3>5 DEF StreamBounded, Bounded
  <2>2. CASE ~LineWritten
    <3>1. stream' \in {stream, NoStream}
      BY <2>2 DEF LogEvent, StreamBreaks, StdoutTakes, StdoutBreaks, WeekPasses, LastLinesWritten, Closed,
                  EndedBreaks, StdoutDone, StdoutTimesOut, Flushed
    <3>2. QED
      BY <1>1, <3>1 DEF StreamBounded
  <2>3. QED
    BY <2>1, <2>2
<1>4. FileGaps'
  <2> SUFFICES ASSUME ~torn', flushing'.stage = "no"
               PROVE  Orderly' /\ Told(Written', dropped', logged')
    BY FileGapsNext
  <2>1. UNCHANGED <<logged, dropped>>
    BY DEF LogEvent, LineWritten, StreamBreaks, StdoutTakes, StdoutBreaks, WeekPasses, LastLinesWritten, Closed,
           EndedBreaks, StdoutDone, StdoutTimesOut, Flushed
  <2>2. ~torn
    BY DEF LogEvent, LineWritten, StreamBreaks, StdoutTakes, StdoutBreaks, WeekPasses, LastLinesWritten, Closed,
           EndedBreaks, StdoutDone, StdoutTimesOut, Flushed
  <2>3. /\ ~StdoutDone /\ ~StdoutTimesOut /\ ~Flushed
        /\ flushing.stage = "no"
    <3>1. flushing \in [stage : {"no", "pending", "done"}, stdout : BOOLEAN]
      BY DEF LogTypeOK
    <3>2. ~StdoutDone
      <4> SUFFICES ASSUME StdoutDone PROVE FALSE
        OBVIOUS
      <4>1. flushing.stage = "pending" /\ flushing' = [flushing EXCEPT !.stdout = FALSE]
        BY DEF StdoutDone
      <4>2. flushing'.stage = "pending"
        BY <3>1, <4>1
      <4>3. QED
        BY <4>2
    <3>3. ~StdoutTimesOut
      <4> SUFFICES ASSUME StdoutTimesOut PROVE FALSE
        OBVIOUS
      <4>1. flushing.stage = "pending" /\ flushing' = [flushing EXCEPT !.stdout = FALSE]
        BY DEF StdoutTimesOut
      <4>2. flushing'.stage = "pending"
        BY <3>1, <4>1
      <4>3. QED
        BY <4>2
    <3>4. ~Flushed
      <4> SUFFICES ASSUME Flushed PROVE FALSE
        OBVIOUS
      <4>1. flushing' = [flushing EXCEPT !.stage = "done"]
        BY DEF Flushed
      <4>2. flushing'.stage = "done"
        BY <3>1, <4>1
      <4>3. QED
        BY <4>2
    <3>5. UNCHANGED flushing
      BY <3>2, <3>3, <3>4 DEF LogEvent, LineWritten, StreamBreaks, StdoutTakes, StdoutBreaks, WeekPasses, LastLinesWritten,
                              Closed, EndedBreaks
    <3>6. QED
      BY <3>2, <3>3, <3>4, <3>5
  <2>4. Orderly /\ Told(Written, dropped, logged)
    BY <1>1, <2>2, <2>3 DEF FileGaps
  <2>5. SUFFICES Orderly' /\ Written' = Written
    BY <2>1, <2>4
  <2>6. CASE LineWritten
    BY <2>4, <2>6, LineKeeps
  <2>7. CASE \E s \in ended : LastLinesWritten(s)
    BY <2>4, <2>7, LastLineKeeps
  <2>8. CASE StreamBreaks
    <3>1. stream # NoStream /\ stream.buffer = <<>>
      BY <2>8 DEF StreamBreaks
    <3>2. QED
      BY <2>4, <2>8, <3>1, NothingLost
  <2>9. CASE \E s \in ended : Closed(s) \/ EndedBreaks(s)
    <3>1. PICK s \in ended : Closed(s) \/ EndedBreaks(s)
      BY <2>9
    <3>2. s.buffer = <<>>
      BY <3>1 DEF Closed, EndedBreaks
    <3>3. QED
      BY <2>4, <3>1, <3>2, NothingLost
  <2>10. CASE WeekPasses
    BY <2>4, <2>10, NothingLost
  <2>11. CASE StdoutTakes \/ StdoutBreaks
    <3>1. UNCHANGED <<week, stream, ended, files>>
      BY <2>11 DEF StdoutTakes, StdoutBreaks
    <3>2. Orderly'
      BY <2>4, <3>1 DEF Orderly, StreamsInOrder, FilesInOrder, Opened
    <3>3. Written' = Written
      BY <3>1, WrittenIs
    <3>4. QED
      BY <3>2, <3>3
  <2>12. QED
    BY <2>3, <2>6, <2>7, <2>8, <2>9, <2>10, <2>11 DEF LogEvent
<1>5. QED
  BY <1>2, <1>3, <1>4, GapInvIsNext

LEMMA GapFlush == LogTypeOK /\ GapInv /\ flush => GapInv'
<1> SUFFICES ASSUME LogTypeOK, GapInv, flush PROVE GapInv'
  OBVIOUS
<1>1. CopyInv /\ StreamBounded /\ FileGaps
  BY GapInvIs
<1>2. CopyInv'
  <2>1. UNCHANGED <<stdout, logged>>
    BY DEF flush
  <2>2. QED
    BY <1>1, <2>1, CopyMoves
<1>3. StreamBounded' /\ flushing'.stage = "pending"
  BY DEF flush, StreamBounded
<1>4. FileGaps'
  BY <1>3, FileGapsNext
<1>5. QED
  BY <1>2, <1>3, <1>4, GapInvIsNext

LEMMA GapStutter == LogTypeOK /\ GapInv /\ UNCHANGED logVars => GapInv'
<1> SUFFICES ASSUME LogTypeOK, GapInv, UNCHANGED logVars PROVE GapInv'
  OBVIOUS
<1>1. UNCHANGED <<logged, week, stream, dropped, ended, files, stdout, flushing, torn>>
  BY DEF logVars
<1>2. CopyInv /\ StreamBounded /\ FileGaps
  BY GapInvIs
<1>3. CopyInv'
  BY <1>1, <1>2, CopyMoves
<1>4. StreamBounded'
  BY <1>1, <1>2 DEF StreamBounded
<1>5. Orderly => Orderly'
  BY <1>1 DEF Orderly, StreamsInOrder, FilesInOrder, Opened
<1>6. Written' = Written
  BY <1>1, WrittenIs
<1>7. FileGaps'
  BY <1>1, <1>2, <1>5, <1>6, FileGapsNext DEF FileGaps
<1>8. QED
  BY <1>3, <1>4, <1>7, GapInvIsNext

LEMMA GapNextInv == StopInv /\ GapInv /\ StopNext => GapInv'
<1> SUFFICES ASSUME StopInv, GapInv, StopNext PROVE GapInv'
  OBVIOUS
<1>1. LogTypeOK
  BY StopParts
<1>2. logAction \/ LogEvent \/ flush \/ UNCHANGED logVars
  BY DEF StopNext, RequestArrives, RequestEnds, ClientLeaves, AbandonedEnds, SignalHandled, SignalKills, SocketsClosed,
         ServerClosed, ForceExit, closeDatabaseAndExit, finishShutdown
<1>3. QED
  BY <1>1, <1>2, GapLogAction, GapLogEvent, GapFlush, GapStutter

LEMMA GapStopStutter == StopInv /\ GapInv /\ UNCHANGED stopVars => GapInv'
<1> SUFFICES ASSUME StopInv, GapInv, UNCHANGED stopVars PROVE GapInv'
  OBVIOUS
<1>1. LogTypeOK /\ UNCHANGED logVars
  BY StopParts DEF stopVars
<1>2. QED
  BY <1>1, GapStutter

LEMMA GapsAreTold == LogTypeOK /\ GapInv => GapsExplained
<1> SUFFICES ASSUME LogTypeOK, GapInv PROVE GapsExplained
  OBVIOUS
<1>1. CopyInv /\ StreamBounded /\ FileGaps
  BY GapInvIs
<1>2. Gapless(stdout.taken \o stdout.buffer)
  <2>1. stdout.taken \in Seq(LogRecord) /\ stdout.buffer \in Seq(LogRecord)
    BY DEF LogTypeOK
  <2> DEFINE t == stdout.taken \o stdout.buffer
  <2>2. t \in Seq(LogRecord) /\ Linked(t)
    BY <1>1, <2>1 DEF CopyInv
  <2> HIDE DEF t
  <2>3. Gapless(t)
    BY <2>2, LinkedGapless
  <2>4. QED
    BY <2>3 DEF t
<1>3. ~torn /\ flushing.stage = "no" => Gapless(Written)
  <2> SUFFICES ASSUME ~torn, flushing.stage = "no" PROVE Gapless(Written)
    OBVIOUS
  <2>1. Orderly /\ Linked(Written)
    BY <1>1 DEF FileGaps, Told
  <2>2. Written \in Seq(LogRecord)
    BY <2>1, OrderlyArranged, WeeksTyped, WrittenIs
  <2>3. QED
    BY <2>1, <2>2, LinkedGapless
<1>4. QED
  BY <1>1, <1>2, <1>3 DEF CopyInv, StreamBounded, GapsExplained

------------------------------------------------------------------------------
(***************************************************************************)
(* The parts together.                                                     *)
(***************************************************************************)
\* The inductive invariant of all parts.
ServiceInv ==
    StopInv /\ Closing /\ GapInv /\ UploadInv /\ BackupInv /\ SchemaInv /\ ClassifyInv /\ ParseInv /\ LayoutInv

LEMMA ServiceInitInv == ServiceInit => ServiceInv
<1>1. StopInit => GapInv /\ Closing
  BY GapInit, ClosingInit DEF StopInit
<1>2. QED
  BY <1>1, StopInitInv, UploadInitInv, BackupInitInv, SchemaInitInv, ClassifyInitInv, ParseInitInv, LayoutInit
  DEF ServiceInit, ServiceInv

LEMMA ServiceNextInv == ServiceInv /\ [ServiceNext]_serviceVars => ServiceInv'
<1> SUFFICES ASSUME ServiceInv, [ServiceNext]_serviceVars PROVE ServiceInv'
  OBVIOUS
<1>1. StopInv /\ Closing /\ GapInv /\ UploadInv /\ BackupInv /\ SchemaInv /\ ClassifyInv /\ ParseInv /\ LayoutInv
  BY DEF ServiceInv
<1>2. StopInv' /\ Closing' /\ GapInv'
  <2>1. StopNext \/ UNCHANGED stopVars
    BY DEF ServiceNext, serviceVars
  <2>2. QED
    BY <1>1, <2>1, StopNextInv, StopStutter, GapNextInv, GapStopStutter, ClosingNext, StopParts
<1>3. UploadInv'
  <2>1. UploadNext \/ UNCHANGED uploadVars
    BY DEF ServiceNext, serviceVars
  <2>2. QED
    BY <1>1, <2>1, UploadNextInv, UploadStutter
<1>4. BackupInv'
  <2>1. BackupNext \/ UNCHANGED backupVars
    BY DEF ServiceNext, serviceVars
  <2>2. QED
    BY <1>1, <2>1, BackupNextInv, BackupStutter
<1>5. SchemaInv'
  <2>1. SchemaNext \/ UNCHANGED schemaVars
    BY DEF ServiceNext, serviceVars
  <2>2. QED
    BY <1>1, <2>1, SchemaNextInv, SchemaStutter
<1>6. ClassifyInv'
  <2>1. ClassifyNext \/ UNCHANGED classifyVars
    BY DEF ServiceNext, serviceVars
  <2>2. QED
    BY <1>1, <2>1, ClassifyNextInv, ClassifyStutter
<1>7. ParseInv' /\ LayoutInv'
  <2>1. ParseNext \/ UNCHANGED parseVars
    BY DEF ServiceNext, serviceVars
  <2>2. QED
    BY <1>1, <2>1, ParseNextInv, ParseStutter, LayoutNext, LayoutStutter
<1>8. QED
  BY <1>2, <1>3, <1>4, <1>5, <1>6, <1>7 DEF ServiceInv

LEMMA ServiceInvariant == ServiceSpec => []ServiceInv
  BY ServiceInitInv, ServiceNextInv, PTL DEF ServiceSpec

\* The state of every part has its type: the buffers and streams of the log,
\* the stages of uploads and their scratch files, the backups, the tables of
\* the database, the workers and answers of the model, and what the parsers
\* buffer and find.
THEOREM ServiceTyped == ServiceSpec => []ServiceTypeOK
<1>1. ServiceInv => StopTypeOK /\ UploadTypeOK /\ BackupTypeOK /\ SchemaTypeOK
  BY DEF ServiceInv, StopInv, UploadInv, BackupInv, SchemaInv
<1>2. ServiceInv => ClassifyTypeOK /\ ParseTypeOK
  BY ParsesTyped DEF ServiceInv, ClassifyInv
<1>3. ServiceInv => ServiceTypeOK
  BY <1>1, <1>2 DEF ServiceTypeOK
<1>4. QED
  BY <1>3, ServiceInvariant, PTL

\* In whatever order the chunks are answered, the caller of
\* classifyLinesWithLLM gets one answer for each line, one given for that
\* line, and is told how many have none (llm-client.js).
THEOREM AnswersBelong == ServiceSpec => []ClassifiedInOrder
<1>1. ServiceInv => ClassifiedInOrder
  BY DEF ServiceInv, ClassifyInv
<1>2. QED
  BY <1>1, ServiceInvariant, PTL

\* The model is offered no more items than the bound, every line's best among
\* them when there is room, and its answers name offered ones only
\* (selectMatchCandidates of item-matching.js, matchLinesWithLLM).
THEOREM RoomForEveryBest == ServiceSpec => []CandidatesShared
<1>1. ServiceInv => CandidatesShared
  BY CandidatesAreShared DEF ServiceInv
<1>2. QED
  BY <1>1, ServiceInvariant, PTL

\* The reviewer gets to see what the invoice says: its products as they are
\* laid out, each once, in its order and under its category, whatever wraps,
\* is repeated at a page's head or follows the table, with the answer given
\* about it and the candidates that rank best for it (the parsers, llm-client.js,
\* item-matching.js).
THEOREM InvoiceAsLaidOut == ServiceSpec => []LinesRead
<1>1. ServiceInv => ParsedAsLaidOut
  BY LaidOutRead DEF ServiceInv
<1>2. ServiceInv => ClassifiedInOrder /\ CandidatesShared
  BY CandidatesAreShared DEF ServiceInv, ClassifyInv
<1>3. ServiceInv => LinesRead
  BY <1>1, <1>2 DEF LinesRead
<1>4. QED
  BY <1>3, ServiceInvariant, PTL

\* Whatever a slow disk or a stalled reader makes the log drop, across changes
\* of week, streams that end and files that are removed, the reader of either
\* copy can tell from the record of drops how many entries are missing and
\* where, unless a stream broke with lines in it; and the buffers stay bounded
\* (boundedWrite, activeStream and pruneOldLogs of logger.js).
THEOREM GapsTold == ServiceSpec => []GapsExplained
<1>1. ServiceInv => GapsExplained
  BY GapsAreTold, StopParts DEF ServiceInv
<1>2. QED
  BY <1>1, ServiceInvariant, PTL

\* From the first signal on, whatever comes in which order, the process is never
\* left without the deadline, the flush or the close of the database ahead of
\* it: what ShutdownEnds needs the fair steps to find (lib/shutdown.js).
THEOREM EndAlwaysUnderWay == ServiceSpec => []EndUnderWay
<1>1. ServiceInv => EndUnderWay
  BY DEF ServiceInv, Closing
<1>2. QED
  BY <1>1, ServiceInvariant, PTL

\* A process that exits with 0 has left no client waiting, has closed its
\* database and leaves no entry unwritten that was logged before the server had
\* closed, but for those of a stream ended when its week was over: the forced exit of
\* the deadline and a failed close exit with 1, and neither a second signal, a
\* change of week nor the entries of handlers that go on without their client
\* put an earlier entry behind the flush (lib/shutdown.js, logger.js).
THEOREM ExitsClean == ServiceSpec => []CleanExit
<1>1. ServiceInv => CleanExit
  BY DEF ServiceInv, StopInv
<1>2. QED
  BY <1>1, ServiceInvariant, PTL

\* The last complete copy stays, whatever fails or crashes in later nights:
\* nothing is pruned before another copy is complete, and a copy takes no name
\* that a file has (runBackup, uniqueBackupPath and pruneOldBackups of
\* backup.js).
THEOREM LastBackupKept == ServiceSpec => []BackupKept
<1>1. ServiceInv => BackupKept
  BY DEF ServiceInv, BackupInv
<1>2. QED
  BY <1>1, ServiceInvariant, PTL

\* A database that has been opened is of the latest schema with its stock moved
\* once and its keys unique, from whatever version it was and through crashes
\* between a migration and the number it is recorded with (database.js,
\* db-migrations.js).
THEOREM OpenedIsLatest == ServiceSpec => []SchemaCurrent
<1>1. ServiceInv => SchemaCurrent
  BY LatestTables DEF ServiceInv
<1>2. QED
  BY <1>1, ServiceInvariant, PTL

\* A file in the scratch directory goes only when its own request is done with
\* it or is gone: the sweep of the start, which removes a name at a time while
\* requests arrive, takes no file that was written since (uploads.js).
THEOREM LiveFilesSpared == ServiceSpec => SweepSparesLive
<1> DEFINE Spares == \A u \in Upload : u \in DOMAIN scratch /\ u \notin DOMAIN scratch' => work[u] \in {"finally", "lost"}
<1>1. ServiceInv /\ [ServiceNext]_serviceVars => [Spares]_uploadVars
  <2> SUFFICES ASSUME ServiceInv, ServiceNext, UploadNext PROVE Spares
    BY DEF ServiceNext, serviceVars
  <2>1. UploadInv
    BY DEF ServiceInv
  <2>2. QED
    BY <2>1, GoneInTime
<1> HIDE DEF Spares
<1>2. ServiceSpec => [][Spares]_uploadVars
  BY <1>1, ServiceInvariant, PTL DEF ServiceSpec
<1>3. QED
  BY <1>2 DEF SweepSparesLive, Spares
==============================================================================
