--------------------------- MODULE WorkGateProofs ----------------------------
(***************************************************************************)
(* Proofs about the work gate for every set of tasks and every bound.      *)
(***************************************************************************)
EXTENDS WorkGate, FiniteSetTheorems, SequenceTheorems, TLAPS

\* The holders after phase changes at two different tasks.
LEMMA HoldersStep ==
    ASSUME phase \in [Task -> Phase], NEW t \in Task, NEW p \in Phase,
           phase' = [phase EXCEPT ![t] = p]
    PROVE  /\ p \in {"handed", "running"} => Holders' = Holders \cup {t}
           /\ p \notin {"handed", "running"} => Holders' = Holders \ {t}
  BY DEF Holders

\* The invariant is inductive: each of its parts is needed to keep another.
LEMMA InitIInv == Init => IInv
<1> SUFFICES ASSUME Init PROVE IInv
  OBVIOUS
<1>1. Holders = {}
  BY DEF Init, Holders
<1>2. QED
  BY <1>1, FS_EmptySet, GateAssumption
  DEF Init, IInv, TypeOK, SlotsAccounted, NoIdleSlotWhileWaiting, WaitersQueuedOnce, Phase

LEMMA TakeSlotIInv ==
    ASSUME IInv, NEW t \in Task, phase[t] \in {"idle", "refused"}, TakeSlot(t)
    PROVE  IInv'
<1> USE GateAssumption DEF IInv, TypeOK
<1>1. Holders' = Holders \cup {t} /\ t \notin Holders
  BY HoldersStep DEF TakeSlot, Phase, Holders
<1>2. SlotsAccounted'
  BY <1>1, FS_AddElement DEF SlotsAccounted, TakeSlot
<1>3. waiting = <<>>
  BY DEF NoIdleSlotWhileWaiting, TakeSlot
<1>4. TypeOK'
  BY DEF TakeSlot, Phase
<1>5. NoIdleSlotWhileWaiting'
  BY <1>3 DEF NoIdleSlotWhileWaiting, TakeSlot
<1>6. WaitersQueuedOnce'
  BY <1>3 DEF WaitersQueuedOnce, TakeSlot
<1>7. QED
  BY <1>2, <1>4, <1>5, <1>6

LEMMA WaitIInv ==
    ASSUME IInv, NEW t \in Task, phase[t] \in {"idle", "refused"}, Wait(t)
    PROVE  IInv'
<1> USE GateAssumption DEF IInv, TypeOK, Wait
<1>1. Holders' = Holders
  BY HoldersStep DEF Phase, Holders
<1>2. SlotsAccounted'
  BY <1>1 DEF SlotsAccounted
<1>3. /\ waiting' \in Seq(Task)
      /\ Len(waiting') = Len(waiting) + 1
      /\ \A i \in 1..Len(waiting) : waiting'[i] = waiting[i]
      /\ waiting'[Len(waiting) + 1] = t
  BY AppendProperties
<1>4. TypeOK'
  BY <1>3 DEF Phase
<1>5. NoIdleSlotWhileWaiting'
  BY <1>3 DEF NoIdleSlotWhileWaiting, SlotsAccounted
<1>6. WaitersQueuedOnce'
  BY <1>3 DEF WaitersQueuedOnce
<1>7. QED
  BY <1>2, <1>4, <1>5, <1>6

LEMMA RefuseIInv ==
    ASSUME IInv, NEW t \in Task, phase[t] \in {"idle", "refused"}, Refuse(t)
    PROVE  IInv'
<1> USE DEF IInv, TypeOK, Refuse
<1>1. Holders' = Holders
  BY HoldersStep DEF Phase, Holders
<1>2. QED
  BY <1>1 DEF SlotsAccounted, NoIdleSlotWhileWaiting, WaitersQueuedOnce, Phase

LEMMA ResumeIInv ==
    ASSUME IInv, NEW t \in Task, Resume(t)
    PROVE  IInv'
<1> USE DEF IInv, TypeOK, Resume
<1>1. Holders' = Holders
  BY HoldersStep DEF Phase, Holders
<1>2. QED
  BY <1>1 DEF SlotsAccounted, NoIdleSlotWhileWaiting, WaitersQueuedOnce, Phase

LEMMA GiveBackIInv ==
    ASSUME IInv, NEW t \in Task, phase[t] = "running", GiveBack(t)
    PROVE  IInv'
<1> USE DEF IInv, TypeOK, GiveBack
<1>1. Holders' = Holders \ {t} /\ t \in Holders
  BY HoldersStep DEF Phase, Holders
<1>2. /\ IsFiniteSet(Holders') /\ Cardinality(Holders') = active - 1
      /\ active - 1 \in Nat
  <2>1. active # 0
    BY <1>1, FS_EmptySet DEF SlotsAccounted
  <2>2. QED
    BY <1>1, <2>1, FS_RemoveElement DEF SlotsAccounted
<1>3. QED
  BY <1>2, GateAssumption
  DEF SlotsAccounted, NoIdleSlotWhileWaiting, WaitersQueuedOnce, Phase

LEMMA PassOnIInv ==
    ASSUME IInv, NEW t \in Task, phase[t] = "running", PassOn(t)
    PROVE  IInv'
<1> DEFINE u == Head(waiting)
<1> USE GateAssumption DEF IInv, TypeOK, PassOn
<1>1. /\ u \in Task /\ u = waiting[1] /\ Len(waiting) \in Nat \ {0}
      /\ waiting' \in Seq(Task) /\ Len(waiting') = Len(waiting) - 1
      /\ \A i \in 1..Len(waiting') : waiting'[i] = waiting[i + 1]
  BY HeadTailProperties, EmptySeq
<1>2. phase[u] = "queued" /\ u # t
  BY <1>1 DEF WaitersQueuedOnce
<1>3. /\ phase' \in [Task -> Phase]
      /\ phase'[t] = "idle" /\ phase'[u] = "handed"
      /\ \A s \in Task \ {t, u} : phase'[s] = phase[s]
  BY <1>1, <1>2 DEF Phase
<1>4. /\ Holders' = (Holders \ {t}) \cup {u}
      /\ t \in Holders /\ u \notin Holders \ {t}
  BY <1>1, <1>2, <1>3 DEF Holders
<1>5. /\ IsFiniteSet(Holders \ {t}) /\ Cardinality(Holders \ {t}) = active - 1
      /\ active - 1 \in Nat
  <2>1. active # 0
    BY <1>4, FS_EmptySet DEF SlotsAccounted
  <2>2. QED
    BY <1>4, <2>1, FS_RemoveElement DEF SlotsAccounted
<1>6. SlotsAccounted'
  <2>1. IsFiniteSet(Holders') /\ Cardinality(Holders') = (active - 1) + 1
    BY <1>4, <1>5, FS_AddElement
  <2>2. QED
    BY <1>5, <2>1 DEF SlotsAccounted
<1>7. NoIdleSlotWhileWaiting'
  BY <1>1 DEF NoIdleSlotWhileWaiting
<1>8. WaitersQueuedOnce'
  <2>1. \A i \in 1..Len(waiting') : phase'[waiting'[i]] = "queued"
    BY <1>1, <1>2, <1>3 DEF WaitersQueuedOnce
  <2>2. \A i, j \in 1..Len(waiting') : waiting'[i] = waiting'[j] => i = j
    BY <1>1 DEF WaitersQueuedOnce
  <2>3. ASSUME NEW s \in Task, phase'[s] = "queued"
        PROVE  \E i \in 1..Len(waiting') : waiting'[i] = s
    <3>1. s \notin {t, u} /\ phase[s] = "queued"
      BY <1>3, <2>3
    <3>2. PICK k \in 1..Len(waiting) : waiting[k] = s
      BY <3>1 DEF WaitersQueuedOnce
    <3>3. k - 1 \in 1..Len(waiting') /\ waiting'[k - 1] = s
      BY <1>1, <3>1, <3>2
    <3>4. QED
      BY <3>3
  <2>4. QED
    BY <2>1, <2>2, <2>3 DEF WaitersQueuedOnce
<1>9. QED
  BY <1>1, <1>3, <1>6, <1>7, <1>8

LEMMA NextIInv == IInv /\ [Next]_vars => IInv'
<1> SUFFICES ASSUME IInv, [Next]_vars PROVE IInv'
  OBVIOUS
<1>1. ASSUME NEW t \in Task, run(t) PROVE IInv'
  BY <1>1, TakeSlotIInv, WaitIInv, RefuseIInv DEF run
<1>2. ASSUME NEW t \in Task, Resume(t) PROVE IInv'
  BY <1>2, ResumeIInv
<1>3. ASSUME NEW t \in Task, NEW outcome \in Outcome, Settle(t, outcome) PROVE IInv'
  BY <1>3, PassOnIInv, GiveBackIInv DEF Settle, release
<1>4. CASE UNCHANGED vars
  BY <1>4
  DEF vars, IInv, TypeOK, SlotsAccounted, NoIdleSlotWhileWaiting, WaitersQueuedOnce, Holders
<1>5. QED
  BY <1>1, <1>2, <1>3, <1>4 DEF Next

LEMMA GateInvariant == Spec => []IInv
  BY InitIInv, NextIInv, PTL DEF Spec

\* The gate never lets more than Concurrency tasks run and never loses or
\* duplicates a slot (run and release of lib/work-gate.js).
THEOREM SlotsAlwaysAccounted == Spec => []SlotsAccounted
<1>1. IInv => SlotsAccounted
  BY DEF IInv
<1>2. QED
  BY <1>1, GateInvariant, PTL

\* No slot is idle while a task waits, and the queue keeps to its bound.
THEOREM NeverIdleWhileWaiting == Spec => []NoIdleSlotWhileWaiting
<1>1. IInv => NoIdleSlotWhileWaiting
  BY DEF IInv
<1>2. QED
  BY <1>1, GateInvariant, PTL

\* Every waiter is in the array of resolvers exactly once.
THEOREM WaitersAlwaysQueuedOnce == Spec => []WaitersQueuedOnce
<1>1. IInv => WaitersQueuedOnce
  BY DEF IInv
<1>2. QED
  BY <1>1, GateInvariant, PTL

\* The bookkeeping of the gate as a whole: active, the array and the phases
\* of the callers agree after any interleaving of calls, hand-overs, results
\* and throws (run and release, lib/work-gate.js).
THEOREM GateAlwaysSound == Spec => []GateSound
<1>1. IInv => GateSound
  BY DEF IInv, GateSound
<1>2. QED
  BY <1>1, GateInvariant, PTL

------------------------------------------------------------------------------
(***************************************************************************)
(* The refinement: run() admits or joins (or, when it refuses, stutters),  *)
(* Resume stutters, and release() hands over or leaves.                    *)
(***************************************************************************)
LEMMA PoolInitHolds == Init => Pool!PoolInit
  BY DEF Init, Pool!PoolInit, Holders

LEMMA PoolStep ==
    ASSUME IInv, [Next]_vars
    PROVE  [Pool!PoolNext]_(Pool!poolVars)
<1> USE DEF Pool!poolVars
<1>0. phase \in [Task -> Phase] /\ waiting \in Seq(Task)
  BY DEF IInv, TypeOK
<1>a. Pool!Cardinality(Holders) = Cardinality(Holders)
  BY DEF Pool!Cardinality, Cardinality
<1>1. ASSUME NEW t \in Task, phase[t] \in {"idle", "refused"}
      PROVE  t \notin Holders \cup Pool!InLine
  BY <1>1 DEF Holders, Pool!InLine, IInv, WaitersQueuedOnce
<1>2. ASSUME NEW t \in Task, run(t)
      PROVE  Pool!PoolNext \/ UNCHANGED <<Holders, waiting>>
  <2>1. CASE TakeSlot(t)
    <3>1. Holders' = Holders \cup {t} /\ waiting' = waiting
      BY <1>0, <2>1, HoldersStep DEF TakeSlot, Phase
    <3>2. Cardinality(Holders) < Concurrency /\ waiting = <<>>
      BY <2>1, GateAssumption DEF TakeSlot, IInv, SlotsAccounted, NoIdleSlotWhileWaiting, TypeOK
    <3>3. Pool!Admit(t)
      BY <1>1, <1>2, <3>1, <3>2, <1>a DEF Pool!Admit, run
    <3>4. QED
      BY <3>3 DEF Pool!PoolNext
  <2>2. CASE Wait(t)
    <3>1. Holders' = Holders
      BY <1>0, <1>2, <2>2, HoldersStep DEF Wait, Phase, run, Holders
    <3>2. Cardinality(Holders) = Concurrency
      BY <2>2, GateAssumption DEF Wait, IInv, SlotsAccounted, TypeOK
    <3>3. Pool!Join(t)
      BY <1>1, <1>2, <2>2, <3>1, <3>2, <1>a DEF Pool!Join, run, Wait
    <3>4. QED
      BY <3>3 DEF Pool!PoolNext
  <2>3. CASE Refuse(t)
    BY <1>0, <1>2, <2>3, HoldersStep DEF Refuse, Phase, run, Holders
  <2>4. QED
    BY <1>2, <2>1, <2>2, <2>3 DEF run
<1>3. ASSUME NEW t \in Task, Resume(t)
      PROVE  UNCHANGED <<Holders, waiting>>
  BY <1>0, <1>3, HoldersStep DEF Resume, Phase, Holders
<1>4. ASSUME NEW t \in Task, NEW outcome \in Outcome, Settle(t, outcome)
      PROVE  Pool!PoolNext
  <2>1. t \in Holders
    BY <1>4 DEF Settle, Holders
  <2>2. CASE GiveBack(t)
    <3>1. Holders' = Holders \ {t}
      BY <1>0, <2>2, HoldersStep DEF GiveBack, Phase
    <3>2. Pool!Leave(t)
      BY <2>1, <2>2, <3>1 DEF Pool!Leave, GiveBack
    <3>3. QED
      BY <3>2 DEF Pool!PoolNext
  <2>3. CASE PassOn(t)
    <3>1. /\ Head(waiting) \in Task /\ phase[Head(waiting)] = "queued"
          /\ Head(waiting) # t
      BY <1>0, <1>4, <2>3, HeadTailProperties, EmptySeq
      DEF PassOn, Settle, IInv, WaitersQueuedOnce
    <3>2. Holders' = (Holders \ {t}) \cup {Head(waiting)}
      BY <1>0, <2>3, <3>1 DEF PassOn, Phase, Holders
    <3>3. Pool!HandOver(t)
      BY <2>1, <2>3, <3>2 DEF Pool!HandOver, PassOn
    <3>4. QED
      BY <3>3 DEF Pool!PoolNext
  <2>4. QED
    BY <1>4, <2>2, <2>3 DEF Settle, release
<1>5. CASE UNCHANGED vars
  BY <1>5 DEF vars, Holders
<1>6. QED
  BY <1>2, <1>3, <1>4, <1>5 DEF Next

\* Whatever its configuration, the gate implements the bounded pool: slots
\* and line are the only state a caller can tell apart.
THEOREM GateImplementsPool == Spec => ImplementsPool
  BY PoolInitHolds, PoolStep, GateInvariant, PTL DEF Spec, ImplementsPool, Pool!PoolSpec
==============================================================================
