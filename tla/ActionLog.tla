------------------------------ MODULE ActionLog ------------------------------
(***************************************************************************)
(* The action log of logger.js: one append stream per week and a copy on   *)
(* stdout, each with a bounded buffer. Entries are numbered in the order   *)
(* of the calls of logAction; what they say is left out, and so is the     *)
(* one step a disk or a pipe needs to take the next line.                  *)
(***************************************************************************)
EXTENDS Naturals, Sequences, FiniteSets, SequencesExt

CONSTANTS
    MaxBuffered,  \* MAX_BUFFERED_BYTES, in lines
    KeepWeeks,    \* MAX_AGE_DAYS, in weeks
    NoStream,
    MaxEntry,     \* bound: calls of logAction
    LastWeek      \* bound: the clock

ASSUME LogAssumption == {MaxBuffered, KeepWeeks, MaxEntry, LastWeek} \subseteq Nat /\ LastWeek > 0

VARIABLES
    logged,    \* the number of the last entry
    week,      \* weekStartLabel
    stream,    \* stream and streamFile
    dropped,   \* fileState.dropped
    ended,     \* streams told to end whose lines are still being written
    files,     \* per week the lines on disk and when the last was written
    stdout,    \* the copy: stdoutStream, stdoutBroken, stdoutState, what was taken
    flushing,  \* flush(): not called, its promises pending, resolved
    torn       \* observer: a stream broke with lines in it, or none could be opened

logVars == <<logged, week, stream, dropped, ended, files, stdout, flushing, torn>>

Week == 0..LastWeek
Entry(n) == [event |-> "action", n |-> n]
Overflow(n) == [event |-> "log_overflow", n |-> n]
LogRecord == [event : {"action", "log_overflow"}, n : Nat]
EmptyFile == [lines |-> <<>>, mtime |-> 0, removed |-> FALSE]

LogInit ==
    \* Week 0 is the log of an earlier process.
    /\ logged = 0 /\ week = 1
    /\ stream = NoStream /\ dropped = 0 /\ ended = {}
    /\ files = [w \in Week |-> IF w = 0 THEN [EmptyFile EXCEPT !.lines = <<Entry(0)>>] ELSE EmptyFile]
    /\ stdout = [state |-> "open", buffer |-> <<>>, dropped |-> 0, taken |-> <<>>]
    /\ flushing = [stage |-> "no", stdout |-> FALSE]
    /\ torn = FALSE

------------------------------------------------------------------------------
(***************************************************************************)
(* boundedWrite(out, state, line): the buffer and the count after it.      *)
(***************************************************************************)
Accepts(buffer) == Len(buffer) <= MaxBuffered

Count(buffer, count) == IF Accepts(buffer) THEN 0 ELSE count + 1

Buffer(buffer, count, entry) ==
    IF ~Accepts(buffer) THEN buffer
    ELSE buffer \o (IF count > 0 THEN <<Overflow(count)>> ELSE <<>>) \o <<entry>>

------------------------------------------------------------------------------
\* openStream: the week's file exists from now on, and pruneOldLogs removes
\* those last written too long ago.
openStream ==
    files' = [w \in Week |->
        CASE w = week -> [files[w] EXCEPT !.mtime = week]
          [] w < week /\ files[w].mtime + KeepWeeks < week -> [files[w] EXCEPT !.removed = TRUE]
          [] OTHER -> files[w]]

\* The previous week's stream is ended and the week's opened.
\* Mutant: it is destroyed.
SwitchDestroyed == ended' = ended
Switch == ended' = IF stream = NoStream THEN ended
                   ELSE ended \cup {[week |-> stream.week, buffer |-> stream.buffer, awaited |-> FALSE]}

\* writeLine on activeStream().
writeLine(entry) ==
    IF stream # NoStream /\ stream.week = week
    THEN /\ stream' = [stream EXCEPT !.buffer = Buffer(stream.buffer, dropped, entry)]
         /\ dropped' = Count(stream.buffer, dropped)
         /\ UNCHANGED <<ended, files>>
    ELSE /\ stream' = [week |-> week, buffer |-> Buffer(<<>>, dropped, entry)]
         /\ dropped' = Count(<<>>, dropped)
         /\ Switch /\ openStream

\* openStream throws, its directory being gone or read-only: the entry is lost
\* as with a stream that breaks, the request it describes is not failed.
OpenThrows ==
    /\ ~(stream # NoStream /\ stream.week = week)
    /\ Switch /\ stream' = NoStream
    /\ torn' = TRUE
    /\ UNCHANGED <<dropped, files>>

logAction ==
    /\ logged < MaxEntry
    /\ logged' = logged + 1
    /\ stdout' = IF stdout.state = "broken" THEN stdout
                 ELSE [stdout EXCEPT !.buffer = Buffer(@, stdout.dropped, Entry(logged')),
                                     !.dropped = Count(stdout.buffer, @)]
    /\ \/ writeLine(Entry(logged')) /\ UNCHANGED torn
       \/ OpenThrows
    /\ UNCHANGED <<week, flushing>>

------------------------------------------------------------------------------
\* The disk takes the next line; a file that was removed meanwhile has no name.
Land(w, line) ==
    files' = [files EXCEPT ![w] = [lines |-> Append(@.lines, line), mtime |-> week, removed |-> @.removed]]

LineWritten ==
    /\ stream # NoStream /\ stream.buffer # <<>>
    /\ Land(stream.week, Head(stream.buffer))
    /\ stream' = [stream EXCEPT !.buffer = Tail(@)]
    /\ UNCHANGED <<logged, week, dropped, ended, stdout, flushing, torn>>

LastLinesWritten(s) ==
    /\ s.buffer # <<>>
    /\ Land(s.week, Head(s.buffer))
    /\ ended' = (ended \ {s}) \cup {[s EXCEPT !.buffer = Tail(@)]}
    /\ UNCHANGED <<logged, week, stream, dropped, stdout, flushing, torn>>

\* The event 'close' of a stream with nothing left to write.
Closed(s) ==
    /\ s.buffer = <<>>
    /\ ended' = ended \ {s}
    /\ UNCHANGED <<logged, week, stream, dropped, files, stdout, flushing, torn>>

\* The event 'error': the stream is dropped with what it held, and the next
\* entry opens another.
StreamBreaks ==
    /\ stream # NoStream
    /\ torn' = (torn \/ stream.buffer # <<>>) /\ stream' = NoStream
    /\ UNCHANGED <<logged, week, dropped, ended, files, stdout, flushing>>

EndedBreaks(s) ==
    /\ torn' = (torn \/ s.buffer # <<>>) /\ ended' = ended \ {s}
    /\ UNCHANGED <<logged, week, stream, dropped, files, stdout, flushing>>

StdoutTakes ==
    /\ stdout.state = "open" /\ stdout.buffer # <<>>
    /\ stdout' = [stdout EXCEPT !.taken = Append(@, Head(stdout.buffer)), !.buffer = Tail(@)]
    /\ UNCHANGED <<logged, week, stream, dropped, ended, files, flushing, torn>>

\* EPIPE: the copy stops, the file carries on.
StdoutBreaks ==
    /\ stdout.state = "open"
    /\ stdout' = [stdout EXCEPT !.state = "broken", !.buffer = <<>>]
    /\ UNCHANGED <<logged, week, stream, dropped, ended, files, flushing, torn>>

\* Bound: no line waits for a whole week.
WeekPasses ==
    /\ week < LastWeek
    /\ \A s \in ended : s.buffer = <<>>
    /\ stream # NoStream /\ stream.buffer # <<>> => stream.week = week
    /\ week' = week + 1
    /\ UNCHANGED <<logged, stream, dropped, ended, files, stdout, flushing, torn>>

------------------------------------------------------------------------------
\* flush(): closeStream and an empty write on stdout.
flush ==
    /\ flushing' = [stage |-> "pending", stdout |-> stdout.state = "open"]
    /\ ended' = IF stream = NoStream THEN ended
                ELSE ended \cup {[week |-> stream.week, buffer |-> stream.buffer, awaited |-> TRUE]}
    /\ stream' = NoStream
    /\ UNCHANGED <<logged, week, dropped, files, stdout, torn>>

\* The empty write's turn, or STDOUT_FLUSH_TIMEOUT_MS.
StdoutDone ==
    /\ flushing.stage = "pending" /\ flushing.stdout /\ stdout.buffer = <<>>
    /\ flushing' = [flushing EXCEPT !.stdout = FALSE]
    /\ UNCHANGED <<logged, week, stream, dropped, ended, files, stdout, torn>>

\* Mutant: the reader of stdout is waited for.
NoTimeout == FALSE /\ UNCHANGED logVars
StdoutTimesOut ==
    /\ flushing.stage = "pending" /\ flushing.stdout
    /\ flushing' = [flushing EXCEPT !.stdout = FALSE]
    /\ UNCHANGED <<logged, week, stream, dropped, ended, files, stdout, torn>>

Flushed ==
    /\ flushing.stage = "pending" /\ ~flushing.stdout
    /\ \A s \in ended : ~s.awaited
    /\ flushing' = [flushing EXCEPT !.stage = "done"]
    /\ UNCHANGED <<logged, week, stream, dropped, ended, files, stdout, torn>>

LogEvent ==
    \/ LineWritten \/ StreamBreaks \/ StdoutTakes \/ StdoutBreaks \/ WeekPasses
    \/ \E s \in ended : LastLinesWritten(s) \/ Closed(s) \/ EndedBreaks(s)
    \/ StdoutDone \/ StdoutTimesOut \/ Flushed

------------------------------------------------------------------------------
Stream == [week : Week, buffer : Seq(LogRecord)]
EndedStream == [week : Week, buffer : Seq(LogRecord), awaited : BOOLEAN]

LogTypeOK ==
    /\ logged \in 0..MaxEntry /\ week \in Week /\ dropped \in Nat
    /\ stream = NoStream \/ stream \in Stream
    /\ ended \subseteq EndedStream
    /\ files \in [Week -> [lines : Seq(LogRecord), mtime : Week, removed : BOOLEAN]]
    /\ stdout \in [state : {"open", "broken"}, buffer : Seq(LogRecord), dropped : Nat, taken : Seq(LogRecord)]
    /\ flushing \in [stage : {"no", "pending", "done"}, stdout : BOOLEAN]
    /\ torn \in BOOLEAN

\* Buffers keep to their bound: one more line than it, and a record of drops.
Bounded(buffer) == Len(buffer) <= MaxBuffered + 2

\* NoStream is no stream.
ASSUME StreamAssumption == NoStream \notin Stream

\* What a week's file holds or is going to hold.
WeekLines(w) ==
    IF files[w].removed THEN <<>>
    ELSE files[w].lines
           \o FlattenSeq(SetToSeq({s.buffer : s \in {e \in ended : e.week = w}}))
           \o (IF stream # NoStream /\ stream.week = w THEN stream.buffer ELSE <<>>)

\* The weeks' files in their order.
Written == FlattenSeq([i \in 1..LastWeek + 1 |-> WeekLines(i - 1)])

\* The entries and the reported drops follow each other without a gap: the
\* entry after another is the next one, or a record between them says how
\* many are missing.
Gapless(lines) ==
    \A i, j \in 1..Len(lines) :
        /\ i < j /\ lines[i].event = "action" /\ lines[j].event = "action"
        /\ \A k \in i + 1..j - 1 : lines[k].event = "log_overflow"
        => lines[j].n = lines[i].n + 1 + (IF j = i + 1 THEN 0 ELSE lines[i + 1].n) /\ j <= i + 2

\* Whatever a slow disk or a stalled reader makes the log drop, across a
\* change of week and of streams, the reader of either copy can tell how many
\* entries are missing and where, unless a stream broke; the buffers stay
\* bounded (the promise at the head of logger.js).
GapsExplained ==
    /\ Bounded(stdout.buffer) /\ (stream # NoStream => Bounded(stream.buffer))
    /\ Gapless(stdout.taken \o stdout.buffer)
    /\ ~torn /\ flushing.stage = "no" => Gapless(Written)

\* "Resolves once every accepted entry is on disk" (logger.js, above flush),
\* when no stream has broken.
FlushWritesAll ==
    flushing.stage = "done" /\ ~torn => \A s \in ended : s.buffer = <<>>

------------------------------------------------------------------------------
(***************************************************************************)
(* The inductive invariant of GapsExplained.                               *)
(***************************************************************************)
\* Gapless from one line to the next: a record of drops stands right before
\* the entry that came after them.
Linked(lines) ==
    \A i \in 1..Len(lines) - 1 :
        /\ lines[i].event = "log_overflow" => lines[i + 1].event = "action"
        /\ lines[i].event = "action" /\ lines[i + 1].event = "action" => lines[i + 1].n = lines[i].n + 1
        /\ lines[i].event = "log_overflow" /\ i > 1 => lines[i + 1].n = lines[i - 1].n + 1 + lines[i].n

\* The last line is the entry since which the count was dropped.
UpToDate(lines, count) ==
    lines # <<>> => LET line == lines[Len(lines)] IN line.event = "action" /\ line.n + count = logged

CopyInv ==
    /\ Bounded(stdout.buffer)
    /\ Linked(stdout.taken \o stdout.buffer)
    /\ stdout.state = "open" => UpToDate(stdout.taken \o stdout.buffer, stdout.dropped)

\* Files are opened, and streams ended, in the order of the weeks.
Opened(w) == files[w].mtime >= w

StreamsInOrder ==
    /\ \A s \in ended : s.week < week /\ Opened(s.week) /\ (stream # NoStream => s.week < stream.week)
    /\ \A s, t \in ended : s.week = t.week => s = t
    /\ stream # NoStream => Opened(stream.week) /\ \A w \in Week : Opened(w) => w <= stream.week
    /\ \A w \in Week : files[w].lines # <<>> => Opened(w)

\* A file was last written to before any later one was opened, or in the
\* same week: what pruneOldLogs removes is the oldest.
FilesInOrder ==
    /\ \A w \in Week : files[w].mtime <= week
    /\ \A s \in ended : s.buffer # <<>> => \A w \in Week : Opened(w) => w <= s.week \/ w = week
    /\ \A v, w \in Week : v < w /\ Opened(w) => files[v].mtime <= w
    /\ \A w \in Week : files[w].removed => w < week /\ (stream # NoStream => w < stream.week)
    /\ \A v, w \in Week : v < w /\ Opened(w) /\ files[w].removed => files[v].removed

GapInv ==
    /\ CopyInv /\ (stream # NoStream => Bounded(stream.buffer))
    /\ ~torn /\ flushing.stage = "no" =>
         StreamsInOrder /\ FilesInOrder /\ Linked(Written) /\ UpToDate(Written, dropped)
==============================================================================
