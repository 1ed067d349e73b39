------------------------------- MODULE Shutdown ------------------------------
(***************************************************************************)
(* lib/shutdown.js around the action log: signals, the close of Socket.IO  *)
(* and of the HTTP server, the five-second deadline, the flush and the     *)
(* close of the database. Node's close waits for connections: for the      *)
(* requests whose client still waits, and for connections kept alive after *)
(* an answer. A handler whose client has gone is waited for by nobody, and *)
(* may log its action at any time until the process exits.                 *)
(***************************************************************************)
EXTENDS ActionLog

CONSTANTS
    Signal,         \* the signals with a handler: SIGTERM, SIGINT
    Running,        \* the process has not exited
    MaxConnection,  \* bound: open connections
    MaxAbandoned    \* bound: handlers whose client has gone

ASSUME StopAssumption == Running \notin Nat /\ {MaxConnection, MaxAbandoned} \subseteq Nat

VARIABLES
    handlers,  \* the signals whose process.once has not fired
    stage,     \* shutdownInProgress and how far it is
    deadline,  \* forceExitTimer
    exitCode,  \* what finishShutdown was given
    database,  \* db.open
    inFlight,  \* requests being handled whose client waits for the answer
    keptAlive, \* connections open without a request
    abandoned, \* requests being handled whose client has gone
    exit,      \* the process's exit code, Killed when a signal ended it
    atClose    \* observer: the last entry, and the week, when the server had closed

processVars == <<handlers, stage, deadline, exitCode, database, exit, atClose>>
requestVars == <<inFlight, keptAlive, abandoned>>
stopVars == <<logVars, processVars, requestVars>>

Killed == 128

StopInit ==
    /\ LogInit
    /\ handlers = Signal
    /\ stage = "up" /\ deadline = "off" /\ exitCode = 0
    /\ database = "open" /\ exit = Running
    /\ inFlight = 0 /\ keptAlive = 0 /\ abandoned = 0
    /\ atClose = [entry |-> 0, week |-> 0]

------------------------------------------------------------------------------
\* On a new connection while the server listens, or on one kept alive.
RequestArrives ==
    /\ \/ stage = "up" /\ inFlight + keptAlive < MaxConnection /\ UNCHANGED keptAlive
       \/ keptAlive > 0 /\ keptAlive' = keptAlive - 1
    /\ inFlight' = inFlight + 1
    /\ UNCHANGED <<logVars, processVars, abandoned>>

\* The answer, which may log an action; the connection is kept or closed.
RequestEnds ==
    /\ inFlight > 0
    /\ inFlight' = inFlight - 1
    /\ keptAlive' \in {keptAlive, keptAlive + 1}
    /\ logAction \/ UNCHANGED logVars
    /\ UNCHANGED <<processVars, abandoned>>

\* The client goes, or the time to keep the connection is over: the handler
\* is not told, it runs on.
ClientLeaves ==
    /\ \/ /\ inFlight > 0 /\ inFlight' = inFlight - 1
          /\ abandoned < MaxAbandoned /\ abandoned' = abandoned + 1
          /\ UNCHANGED keptAlive
       \/ keptAlive > 0 /\ keptAlive' = keptAlive - 1 /\ UNCHANGED <<inFlight, abandoned>>
    /\ UNCHANGED <<logVars, processVars>>

AbandonedEnds ==
    /\ abandoned > 0
    /\ abandoned' = abandoned - 1
    /\ logAction \/ UNCHANGED logVars
    /\ UNCHANGED <<processVars, inFlight, keptAlive>>

------------------------------------------------------------------------------
\* gracefulShutdown: io.close, or server.close when that throws; both close
\* the connections that have no request.
gracefulShutdown ==
    IF stage = "up"
    THEN /\ stage' \in {"closing sockets", "closing server"}
         /\ deadline' = "armed"
         /\ keptAlive' = 0
    ELSE UNCHANGED <<stage, deadline, keptAlive>>

\* process.once: the handler is removed before it is called, so a second
\* signal of the same name meets Node's default and ends the process.
SignalHandled(s) ==
    /\ s \in handlers
    /\ handlers' = handlers \ {s}
    /\ gracefulShutdown
    /\ UNCHANGED <<logVars, exitCode, database, inFlight, abandoned, exit, atClose>>

SignalKills(s) ==
    /\ s \notin handlers
    /\ exit' = Killed
    /\ UNCHANGED <<logVars, handlers, stage, deadline, exitCode, database, requestVars, atClose>>

\* From here on no deadline is left.
finishShutdown(code) ==
    /\ stage' = "flushing" /\ deadline' = "off" /\ exitCode' = code
    /\ atClose' = [entry |-> logged, week |-> week]
    /\ flush
    /\ UNCHANGED <<handlers, database, requestVars, exit>>

\* The callback of a close comes when no connection is left, whatever
\* handlers still run.
NoConnection == inFlight = 0 /\ keptAlive = 0

\* io.close's callback; server.close then finds the server closed, or fails.
SocketsClosed ==
    /\ stage = "closing sockets" /\ NoConnection
    /\ \E code \in {0, 1} : finishShutdown(code)

ServerClosed ==
    /\ stage = "closing server" /\ NoConnection
    /\ finishShutdown(1)

\* Mutant: the deadline exits as if all had gone well.
ForceExitClean ==
    /\ deadline = "armed"
    /\ exit' = 0
    /\ UNCHANGED <<logVars, handlers, stage, deadline, exitCode, database, requestVars, atClose>>

ForceExit ==
    /\ deadline = "armed"
    /\ exit' = 1
    /\ UNCHANGED <<logVars, handlers, stage, deadline, exitCode, database, requestVars, atClose>>

closeDatabaseAndExit ==
    /\ stage = "flushing" /\ flushing.stage = "done"
    /\ \/ database' = "closed" /\ exit' = exitCode
       \/ database' = "open" /\ exit' = 1
    /\ UNCHANGED <<logVars, handlers, stage, deadline, exitCode, requestVars, atClose>>

StopIdle == UNCHANGED <<processVars, requestVars>>

StopNext ==
    /\ exit = Running
    /\ \/ RequestArrives \/ RequestEnds \/ ClientLeaves \/ AbandonedEnds
       \/ \E s \in Signal : SignalHandled(s) \/ SignalKills(s)
       \/ SocketsClosed \/ ServerClosed \/ ForceExit \/ closeDatabaseAndExit
       \/ (LogEvent /\ StopIdle)

\* Fairness: timers fire, the local disk takes its lines, promises run. Requests may
\* never end, and stdout's reader may stall for ever.
LastLines == \E s \in ended : LastLinesWritten(s) \/ Closed(s)

StopSpec == StopInit /\ [][StopNext]_stopVars

StopFairness ==
    /\ WF_stopVars(exit = Running /\ ForceExit)
    /\ WF_stopVars(exit = Running /\ closeDatabaseAndExit)
    /\ WF_stopVars(exit = Running /\ Flushed /\ StopIdle)
    /\ WF_stopVars(exit = Running /\ StdoutTimesOut /\ StopIdle)
    /\ WF_stopVars(exit = Running /\ LastLines /\ StopIdle)

------------------------------------------------------------------------------
StopTypeOK ==
    /\ LogTypeOK
    /\ handlers \subseteq Signal
    /\ stage \in {"up", "closing sockets", "closing server", "flushing"}
    /\ deadline \in {"off", "armed"} /\ exitCode \in {0, 1}
    /\ database \in {"open", "closed"}
    /\ {inFlight, keptAlive, abandoned} \subseteq Nat
    /\ inFlight + keptAlive <= MaxConnection /\ abandoned <= MaxAbandoned
    /\ exit \in {Running, 0, 1, Killed}
    /\ atClose \in [entry : 0..MaxEntry, week : Week]

\* Once a signal has started a shutdown the process ends: requests that
\* never finish, a disk error, a stalled reader of stdout or more signals
\* cannot hold it.
ShutdownEnds == stage # "up" ~> exit # Running

\* The entries of a buffer are newer than the close of the server.
Late(buffer) == \A i \in 1..Len(buffer) : buffer[i].event = "action" => buffer[i].n > atClose.entry

\* A process that reports success has left nothing half done: no client was
\* waiting, the database is closed, and of the entries logged before the
\* server had closed none is unwritten, whatever was logged afterwards by
\* handlers nobody waits for. (Late entries may be lost, and those of a
\* stream that was ended when its week was over; see FlushWritesAll.)
CleanExit ==
    exit = 0 =>
        /\ NoConnection /\ database = "closed"
        /\ stream # NoStream => Late(stream.buffer)
        /\ \A s \in ended : Late(s.buffer) \/ s.week < atClose.week

\* Streams that were ended without being awaited are of earlier weeks; from
\* the close of the server on they may also hold late entries only. Once the
\* flush is done no awaited stream is left.
FlushedLast ==
    /\ atClose.entry <= logged
    /\ stream # NoStream => stream.week <= week
    /\ flushing.stage # "no" <=> stage = "flushing"
    /\ stage # "flushing" => \A s \in ended : ~s.awaited /\ s.week < week
    /\ stage = "flushing" =>
         /\ NoConnection
         /\ stream # NoStream => Late(stream.buffer)
         /\ \A s \in ended : s.awaited \/ Late(s.buffer) \/ s.week < atClose.week
    /\ flushing.stage = "done" => \A s \in ended : ~s.awaited

\* The safety part of ShutdownEnds: from the first signal to the exit there is
\* always something left that ends the process: the deadline is armed, or the
\* log is being flushed, or it is and only the database has to be closed. No
\* order of signals, callbacks and requests leaves the process between them.
EndUnderWay ==
    stage # "up" => \/ deadline = "armed" /\ flushing.stage = "no"
                    \/ deadline = "off" /\ stage = "flushing" /\ flushing.stage \in {"pending", "done"}

\* The inductive invariant.
StopInv == StopTypeOK /\ FlushedLast /\ CleanExit
==============================================================================
