---------------------------- MODULE LoginBackoff ----------------------------
(***************************************************************************)
(* The delay of password checks for the whole household                    *)
(* (lib/login-backoff.js) and checkPassword of routes/auth.js, which       *)
(* reserves a slot, sleeps until it, and compares: login and the           *)
(* re-entered password of a revocation go through it, any number at once.  *)
(***************************************************************************)
EXTENDS Naturals, Integers, Sequences, FiniteSets, FiniteSetsExt

CONSTANTS
    Guess,    \* password checks, each made once
    Free, BaseGap, CapGap, MaxWait, Quiet,
              \* free, baseMs, capMs, maxWaitMs, quietMs
    LastTick  \* bound: the clock

ASSUME BackoffAssumption ==
    /\ {Free, BaseGap, CapGap, MaxWait, Quiet, LastTick} \subseteq Nat \ {0}
    /\ BaseGap <= CapGap /\ MaxWait < Quiet

VARIABLES
    attempts, nextAllowedAt, lastAt,
    guesses,  \* per check: where it is, and while asleep when it is to wake
    starts,   \* observer: starts of the slots given since attempts was last 0
    tick      \* the clock

backoffVars == <<attempts, nextAllowedAt, lastAt, guesses, starts, tick>>

Stage == {"unsent", "asleep", "comparing", "done"}

BackoffInit ==
    /\ attempts = 0 /\ nextAllowedAt = 0 /\ lastAt = 0
    /\ guesses = [g \in Guess |-> [stage |-> "unsent", start |-> 0]]
    /\ starts = <<>>
    /\ tick = 0

\* min(capMs, baseMs * 2 ** k)
doubled[k \in Nat] == IF k = 0 THEN BaseGap ELSE 2 * doubled[k - 1]
Gap(k) == IF doubled[k] < CapGap THEN doubled[k] ELSE CapGap

Slot(g, stage, start) == guesses' = [guesses EXCEPT ![g] = [stage |-> stage, start |-> start]]

\* The attempts and the door after the quiet time, or as they are.
Rested == tick - lastAt > Quiet
Attempts == IF Rested THEN 0 ELSE attempts
NextAllowedAt == IF Rested THEN 0 ELSE nextAllowedAt
Starts == IF Rested THEN <<>> ELSE starts

\* The first attempts run at once; the last of them sets the first gap.
ReserveFree(g) ==
    /\ Attempts < Free
    /\ attempts' = Attempts + 1
    /\ nextAllowedAt' = IF attempts' = Free THEN tick + BaseGap ELSE NextAllowedAt
    /\ starts' = Append(Starts, tick)
    /\ Slot(g, "comparing", 0)

Opens == IF NextAllowedAt > tick THEN NextAllowedAt ELSE tick

\* The queue is MaxWait deep.
\* Mutant: a refused attempt pushes the door too.
ReserveRefusedPushing(g) ==
    /\ Attempts >= Free /\ Opens - tick > MaxWait
    /\ attempts' = Attempts + 1
    /\ nextAllowedAt' = Opens + Gap(Attempts - Free) /\ starts' = Starts
    /\ Slot(g, "done", 0)

ReserveRefused(g) ==
    /\ Attempts >= Free /\ Opens - tick > MaxWait
    /\ attempts' = Attempts /\ nextAllowedAt' = NextAllowedAt /\ starts' = Starts
    /\ Slot(g, "done", 0)

ReserveLater(g) ==
    /\ Attempts >= Free /\ Opens - tick <= MaxWait
    /\ attempts' = Attempts + 1
    /\ nextAllowedAt' = Opens + Gap(Attempts - Free)
    /\ starts' = Append(Starts, Opens)
    /\ IF Opens = tick THEN Slot(g, "comparing", 0) ELSE Slot(g, "asleep", Opens)

reserve(g) ==
    /\ guesses[g].stage = "unsent"
    /\ lastAt' = tick
    /\ ReserveFree(g) \/ ReserveRefused(g) \/ ReserveLater(g)
    /\ UNCHANGED tick

\* The sleep is over; the timer may be late.
Wakes(g) ==
    /\ guesses[g].stage = "asleep" /\ guesses[g].start <= tick
    /\ Slot(g, "comparing", 0)
    /\ UNCHANGED <<attempts, nextAllowedAt, lastAt, starts, tick>>

\* A wrong password, one that is too long to be compared, bcrypt throwing.
ComparedWrong(g) ==
    /\ guesses[g].stage = "comparing"
    /\ Slot(g, "done", 0)
    /\ UNCHANGED <<attempts, nextAllowedAt, lastAt, starts, tick>>

\* recordSuccess, while others may be asleep in slots of before it.
ComparedRight(g) ==
    /\ guesses[g].stage = "comparing"
    /\ Slot(g, "done", 0)
    /\ attempts' = 0 /\ nextAllowedAt' = 0 /\ starts' = <<>>
    /\ UNCHANGED <<lastAt, tick>>

TickPasses ==
    /\ tick < LastTick
    /\ tick' = tick + 1
    /\ UNCHANGED <<attempts, nextAllowedAt, lastAt, guesses, starts>>

BackoffNext ==
    \/ \E g \in Guess : reserve(g) \/ Wakes(g) \/ ComparedWrong(g) \/ ComparedRight(g)
    \/ TickPasses

BackoffSpec == BackoffInit /\ [][BackoffNext]_backoffVars

------------------------------------------------------------------------------
BackoffTypeOK ==
    /\ {attempts, nextAllowedAt, lastAt} \subseteq Nat
    /\ guesses \in [Guess -> [stage : Stage, start : Nat]]
    /\ starts \in Seq(Nat)
    /\ tick \in 0..LastTick

\* However many clients guess at once, after the free attempts the n-th
\* comparison starts a whole gap after the one before it, a gap that doubles
\* from the base to the cap; and however often anyone is refused, no one
\* sleeps longer than MaxWait and the door never closes for longer than
\* MaxWait and a gap (the promise at the head of lib/login-backoff.js).
GuessesDelayed ==
    /\ \A n \in Free + 1..Len(starts) :
         starts[n] - starts[n - 1] >= IF n = Free + 1 THEN BaseGap ELSE Gap(n - Free - 2)
    /\ \A g \in Guess : guesses[g].stage = "asleep" => guesses[g].start - tick <= MaxWait
    /\ nextAllowedAt - tick <= MaxWait + CapGap

\* The attempts counted are the slots given, and once the free ones are used
\* up the door opens a gap after the last of them. Gaps are counted from the
\* last slot, so that the door, not the clock, keeps them apart.
DoorBehindLastStart ==
    /\ attempts = Len(starts)
    /\ attempts >= Free =>
         nextAllowedAt >= starts[attempts] + IF attempts = Free THEN BaseGap ELSE Gap(attempts - Free - 1)

BackoffInv == BackoffTypeOK /\ DoorBehindLastStart /\ GuessesDelayed
==============================================================================
