----------------------------- MODULE BoundedPool -----------------------------
(***************************************************************************)
(* What a work gate promises its callers, with none of its bookkeeping:    *)
(* at most Concurrency jobs hold a slot, at most Queue jobs stand in line, *)
(* a job joins the line only when every slot is taken, and a slot that is  *)
(* given back goes to the job that has stood in line longest.              *)
(***************************************************************************)
EXTENDS Naturals, Sequences, FiniteSets

CONSTANTS
    Task,         \* the jobs that may ask for a slot
    Concurrency,  \* how many may hold one at once
    Queue         \* how many may stand in line

VARIABLES
    holders,      \* the jobs that hold a slot
    line          \* the jobs in line, the longest standing first

poolVars == <<holders, line>>

InLine == {line[i] : i \in 1..Len(line)}

PoolInit ==
    /\ holders = {}
    /\ line = <<>>

Admit(t) ==
    /\ t \notin holders \cup InLine
    /\ Cardinality(holders) < Concurrency
    /\ line = <<>>
    /\ holders' = holders \cup {t}
    /\ line' = line

Join(t) ==
    /\ t \notin holders \cup InLine
    /\ Cardinality(holders) = Concurrency
    /\ Len(line) < Queue
    /\ line' = Append(line, t)
    /\ holders' = holders

Leave(t) ==
    /\ t \in holders
    /\ line = <<>>
    /\ holders' = holders \ {t}
    /\ line' = line

HandOver(t) ==
    /\ t \in holders
    /\ line # <<>>
    /\ holders' = (holders \ {t}) \cup {Head(line)}
    /\ line' = Tail(line)

PoolNext == \E t \in Task : Admit(t) \/ Join(t) \/ Leave(t) \/ HandOver(t)

PoolSpec == PoolInit /\ [][PoolNext]_poolVars
==============================================================================
