------------------------------- MODULE WorkGate ------------------------------
(***************************************************************************)
(* The counting semaphore of lib/work-gate.js, which bounds PDF extraction *)
(* and image decoding (heavyWork) and calls to the language model          *)
(* (llmGate).  A task is one call of run(): it starts, waits or is         *)
(* refused in one synchronous step.  A slot that is given back passes      *)
(* straight to the next waiter, whose promise is resolved there and then   *)
(* but whose code resumes on a later microtask: in between it is "handed"  *)
(* a slot and other calls of run() may come first.                         *)
(***************************************************************************)
EXTENDS Naturals, Sequences, FiniteSets

CONSTANTS
    Task,         \* calls of run(); one that has ended may be made again
    Concurrency,  \* config.HEAVY_WORK_CONCURRENCY, config.LLM_MAX_CONCURRENT
    Queue         \* config.HEAVY_WORK_QUEUE, config.LLM_QUEUE_MAX

ASSUME GateAssumption ==
    /\ Concurrency \in Nat \ {0}
    /\ Queue \in Nat

VARIABLES
    active,   \* the gate's counter
    waiting,  \* the gate's array of resolvers, named by the task that waits
    phase     \* where each task's call of run() is

vars == <<active, waiting, phase>>

Phase == {"idle", "queued", "handed", "running", "refused"}

\* The tasks that may use the CPU or memory the gate protects.
Holders == {t \in Task : phase[t] \in {"handed", "running"}}

Init ==
    /\ active = 0
    /\ waiting = <<>>
    /\ phase = [t \in Task |-> "idle"]

(***************************************************************************)
(* run(task), up to its first await.                                       *)
(***************************************************************************)
TakeSlot(t) ==
    /\ active < Concurrency
    /\ active' = active + 1
    /\ phase' = [phase EXCEPT ![t] = "running"]
    /\ UNCHANGED waiting

Wait(t) ==
    /\ active >= Concurrency
    /\ Len(waiting) < Queue
    /\ waiting' = Append(waiting, t)
    /\ phase' = [phase EXCEPT ![t] = "queued"]
    /\ UNCHANGED active

Refuse(t) ==
    /\ active >= Concurrency
    /\ Len(waiting) >= Queue
    /\ phase' = [phase EXCEPT ![t] = "refused"]
    /\ UNCHANGED <<active, waiting>>

run(t) ==
    /\ phase[t] \in {"idle", "refused"}
    /\ TakeSlot(t) \/ Wait(t) \/ Refuse(t)

(***************************************************************************)
(* The waiter whose promise was resolved resumes and calls its task.       *)
(***************************************************************************)
Resume(t) ==
    /\ phase[t] = "handed"
    /\ phase' = [phase EXCEPT ![t] = "running"]
    /\ UNCHANGED <<active, waiting>>

(***************************************************************************)
(* release(), in the finally clause of task t.                             *)
(***************************************************************************)
\* Mutants: a hand-over that also counts the slot as free, and one that
\* serves the newest waiter.
PassOnCounted(t) ==
    /\ waiting # <<>>
    /\ waiting' = Tail(waiting)
    /\ phase' = [phase EXCEPT ![t] = "idle", ![Head(waiting)] = "handed"]
    /\ active' = active - 1

PassOnNewest(t) ==
    /\ waiting # <<>>
    /\ waiting' = SubSeq(waiting, 1, Len(waiting) - 1)
    /\ phase' = [phase EXCEPT ![t] = "idle", ![waiting[Len(waiting)]] = "handed"]
    /\ UNCHANGED active

PassOn(t) ==
    /\ waiting # <<>>
    /\ waiting' = Tail(waiting)
    /\ phase' = [phase EXCEPT ![t] = "idle", ![Head(waiting)] = "handed"]
    /\ UNCHANGED active

GiveBack(t) ==
    /\ waiting = <<>>
    /\ active' = active - 1
    /\ phase' = [phase EXCEPT ![t] = "idle"]
    /\ UNCHANGED waiting

release(t) == PassOn(t) \/ GiveBack(t)

\* The task's promise settles: release() is in a finally clause, so how it
\* settled makes no difference to the gate.
Outcome == {"fulfilled", "rejected"}

\* Mutant: release() outside the finally clause, missed by a task that throws.
SettleUnguarded(t, outcome) ==
    /\ phase[t] = "running"
    /\ IF outcome = "fulfilled" THEN release(t)
       ELSE phase' = [phase EXCEPT ![t] = "idle"] /\ UNCHANGED <<active, waiting>>

Settle(t, outcome) ==
    /\ phase[t] = "running"
    /\ release(t)

Next ==
    \E t \in Task :
        \/ run(t)
        \/ Resume(t)
        \/ \E outcome \in Outcome : Settle(t, outcome)

Spec == Init /\ [][Next]_vars

(***************************************************************************)
(* Microtasks always run, and every gated task settles: the PDF worker has *)
(* a deadline (lib/uploads.js), a model call a request timeout, and sharp  *)
(* works on a size-limited image.  Nobody is obliged to call run().        *)
(***************************************************************************)
Fairness ==
    \A t \in Task :
        /\ WF_vars(Resume(t))
        /\ WF_vars(\E outcome \in Outcome : Settle(t, outcome))

FairSpec == Spec /\ Fairness

(***************************************************************************)
(* Properties.                                                             *)
(***************************************************************************)
TypeOK ==
    /\ active \in Nat
    /\ waiting \in Seq(Task)
    /\ phase \in [Task -> Phase]

\* The counter is the number of tasks that hold a slot, through hand-overs
\* whose waiter has not resumed yet: no slot is lost or granted twice, and
\* so never more than Concurrency tasks run at once.
SlotsAccounted ==
    /\ IsFiniteSet(Holders)
    /\ Cardinality(Holders) = active
    /\ active <= Concurrency

\* Work waits only while every slot is taken (a slot freed while somebody
\* waits is never left idle), and the wait queue keeps to its bound.
NoIdleSlotWhileWaiting ==
    /\ waiting # <<>> => active = Concurrency
    /\ Len(waiting) <= Queue

\* The array holds exactly the tasks that are waiting, each once, so every
\* waiter is woken by some release and none is woken twice.
WaitersQueuedOnce ==
    /\ \A i \in 1..Len(waiting) : phase[waiting[i]] = "queued"
    /\ \A i, j \in 1..Len(waiting) : waiting[i] = waiting[j] => i = j
    /\ \A t \in Task : phase[t] = "queued" => \E i \in 1..Len(waiting) : waiting[i] = t

\* The gate's bookkeeping as a whole.
GateSound == SlotsAccounted /\ NoIdleSlotWhileWaiting /\ WaitersQueuedOnce

IInv == TypeOK /\ SlotsAccounted /\ NoIdleSlotWhileWaiting /\ WaitersQueuedOnce

\* The gate does what BoundedPool promises: slots are bounded without a
\* counter, a job is admitted at once only when nobody is in line, and the
\* first in line is served first: no call that arrives during a hand-over
\* overtakes a waiter.
Pool == INSTANCE BoundedPool WITH holders <- Holders, line <- waiting
ImplementsPool == Pool!PoolSpec

\* Whoever is admitted to the wait queue gets to run, although new calls
\* keep arriving and running tasks may throw.
EveryWaiterRuns == \A t \in Task : phase[t] = "queued" ~> phase[t] = "running"
==============================================================================
