--------------------------- MODULE RecursionLemmas ---------------------------
(***************************************************************************)
(* Induction and recursion over the naturals and over finite sets, and     *)
(* sums, stated for sets and functions instead of operators, so that a     *)
(* proof can cite them.                                                    *)
(***************************************************************************)
EXTENDS Integers, FiniteSets, FiniteSetTheorems, WellFoundedInduction, TLAPS

LEMMA LeastNat ==
    ASSUME NEW S \in SUBSET Nat, S # {}
    PROVE  \E x \in S : \A y \in S : x <= y
<1>1. IsWellFoundedOn(OpToRel(<, Nat), Nat)
  BY NatLessThanWellFounded
<1>2. PICK x \in S : \A y \in S : <<y, x>> \notin OpToRel(<, Nat)
  BY <1>1, WFMin
<1>3. \A y \in S : ~(y < x)
  BY <1>2 DEF OpToRel
<1>4. QED
  BY <1>3

\* Induction: a set that has 0, and with each number the next, has them all.
LEMMA InductiveSet ==
    ASSUME NEW S, 0 \in S, \A n \in Nat : n \in S => n + 1 \in S
    PROVE  Nat \subseteq S
<1> DEFINE missing == {n \in Nat : n \notin S}
<1>1. SUFFICES ASSUME missing # {} PROVE FALSE
  OBVIOUS
<1>2. PICK x \in missing : \A y \in missing : x <= y
  <2> HIDE DEF missing
  <2>1. missing \in SUBSET Nat
    BY DEF missing
  <2>2. QED
    BY <1>1, <2>1, LeastNat
<1>3. x # 0
  BY <1>2
<1>4. x - 1 \in Nat /\ x - 1 \notin missing
  BY <1>2, <1>3
<1>5. QED
  BY <1>2, <1>4

\* f begins with base and goes on by step.
Recursion(f, S, base, step) ==
    /\ f \in [Nat -> S]
    /\ f[0] = base
    /\ \A n \in Nat : f[n + 1] = step[<<n, f[n]>>]

\* Recursion: for every start and step there is the function that begins with
\* the one and goes on by the other.
LEMMA RecursionExists ==
    ASSUME NEW S, NEW base \in S, NEW step \in [Nat \X S -> S]
    PROVE  \E f : Recursion(f, S, base, step)
<1> DEFINE Follows(g, n) == g[0] = base /\ \A k \in 0..n - 1 : g[k + 1] = step[<<k, g[k]>>]
           good == {n \in Nat : \E g \in [0..n -> S] : Follows(g, n)}
<1>1. Nat \subseteq good
  <2>1. 0 \in good
    <3> DEFINE g == [i \in 0..0 |-> base]
    <3>1. g \in [0..0 -> S] /\ Follows(g, 0)
      OBVIOUS
    <3>2. QED
      BY <3>1
  <2>2. ASSUME NEW n \in Nat, n \in good PROVE n + 1 \in good
    <3>1. PICK g \in [0..n -> S] : Follows(g, n)
      BY <2>2
    <3> DEFINE h == [i \in 0..n + 1 |-> IF i = n + 1 THEN step[<<n, g[n]>>] ELSE g[i]]
    <3>2. step[<<n, g[n]>>] \in S
      BY <3>1
    <3>3. /\ h \in [0..n + 1 -> S]
          /\ \A k \in 0..n : h[k] = g[k]
          /\ h[n + 1] = step[<<n, g[n]>>]
      BY <3>1, <3>2
    <3> HIDE DEF h
    <3>4. ASSUME NEW k \in 0..(n + 1) - 1 PROVE h[k + 1] = step[<<k, h[k]>>]
      <4>1. h[k] = g[k]
        BY <3>3
      <4>2. CASE k = n
        BY <3>3, <4>1, <4>2
      <4>3. CASE k # n
        <5>1. k \in 0..n - 1 /\ k + 1 \in 0..n
          BY <4>3
        <5>2. QED
          BY <3>1, <3>3, <4>1, <5>1
      <4>4. QED
        BY <4>2, <4>3
    <3>5. Follows(h, n + 1)
      BY <3>1, <3>3, <3>4
    <3>6. QED
      BY <3>3, <3>5
  <2>3. QED
    <3> HIDE DEF good
    <3> QED BY <2>1, <2>2, InductiveSet
<1>2. ASSUME NEW m \in Nat, NEW n \in Nat, NEW g \in [0..m -> S], NEW h \in [0..n -> S],
             Follows(g, m), Follows(h, n)
      PROVE  \A k \in Nat : k <= m /\ k <= n => g[k] = h[k]
  <2> DEFINE same == {k \in Nat : k <= m /\ k <= n => g[k] = h[k]}
  <2>1. 0 \in same
    BY <1>2
  <2>2. ASSUME NEW k \in Nat, k \in same PROVE k + 1 \in same
    <3>1. CASE k + 1 <= m /\ k + 1 <= n
      <4>1. k \in 0..m - 1 /\ k \in 0..n - 1 /\ g[k] = h[k]
        BY <2>2, <3>1
      <4>2. g[k + 1] = step[<<k, g[k]>>] /\ h[k + 1] = step[<<k, h[k]>>]
        BY <1>2, <4>1
      <4>3. g[k + 1] = h[k + 1]
        BY <4>1, <4>2
      <4>4. QED
        BY <4>3
    <3>2. QED
      BY <3>1
  <2>3. Nat \subseteq same
    <3> HIDE DEF same
    <3> QED BY <2>1, <2>2, InductiveSet
  <2>4. QED
    BY <2>3
<1> DEFINE part == [n \in Nat |-> CHOOSE g \in [0..n -> S] : Follows(g, n)]
           f == [n \in Nat |-> part[n][n]]
<1>3. ASSUME NEW n \in Nat PROVE part[n] \in [0..n -> S] /\ Follows(part[n], n)
  <2>1. \E g \in [0..n -> S] : Follows(g, n)
    BY <1>1
  <2>2. part[n] = CHOOSE g \in [0..n -> S] : Follows(g, n)
    OBVIOUS
  <2> HIDE DEF Follows, part
  <2>3. QED
    BY <2>1, <2>2
<1> HIDE DEF part
<1>4. f \in [Nat -> S] /\ \A n \in Nat : f[n] = part[n][n]
  BY <1>3
<1>5. f[0] = base
  BY <1>3, <1>4
<1>6. ASSUME NEW n \in Nat PROVE f[n + 1] = step[<<n, f[n]>>]
  <2>1. part[n + 1][n + 1] = step[<<n, part[n + 1][n]>>]
    <3>1. n \in 0..(n + 1) - 1
      OBVIOUS
    <3>2. QED
      BY <1>3, <3>1
  <2>2. part[n + 1][n] = part[n][n]
    <3>1. n + 1 \in Nat /\ n <= n /\ n <= n + 1
      OBVIOUS
    <3> HIDE DEF Follows
    <3>2. QED
      BY <1>2, <1>3, <3>1
  <2>3. QED
    BY <1>4, <2>1, <2>2
<1>7. QED
  <2> HIDE DEF f
  <2> QED BY <1>4, <1>5, <1>6 DEF Recursion

------------------------------------------------------------------------------
(***************************************************************************)
(* Sums over finite sets, as MapThenSumSet of the community modules forms  *)
(* them: with any order of the elements.                                   *)
(***************************************************************************)
Picked(s) == CHOOSE x \in s : TRUE

\* The sum of g over S.
SumOver(g, S) ==
    LET iter[s \in SUBSET S] == IF s = {} THEN 0 ELSE g[Picked(s)] + iter[s \ {Picked(s)}]
    IN  iter[S]

\* h has the sums of g over the subsets of U.
Sums(h, g, U) ==
    /\ h \in [SUBSET U -> Int]
    /\ \A s \in SUBSET U : h[s] = IF s = {} THEN 0 ELSE g[Picked(s)] + h[s \ {Picked(s)}]

LEMMA PickedIn == \A s : s # {} => Picked(s) \in s
  BY DEF Picked

LEMMA FewerByOne ==
    ASSUME NEW s, IsFiniteSet(s), NEW x \in s
    PROVE  /\ IsFiniteSet(s \ {x}) /\ Cardinality(s) \in Nat /\ Cardinality(s) # 0
           /\ Cardinality(s \ {x}) = Cardinality(s) - 1 /\ Cardinality(s \ {x}) \in Nat
<1>1. IsFiniteSet(s \ {x}) /\ Cardinality(s \ {x}) = Cardinality(s) - 1
  BY FS_RemoveElement
<1>2. Cardinality(s) \in Nat /\ Cardinality(s \ {x}) \in Nat
  BY <1>1, FS_CardinalityType
<1>3. QED
  BY <1>1, <1>2

\* Induction over the finite subsets of a set: what holds of a set when it
\* holds of each set with one element less holds of all.
LEMMA FiniteInduction ==
    ASSUME NEW U, IsFiniteSet(U), NEW Good,
           \A s \in SUBSET U : (\A x \in s : s \ {x} \in Good) => s \in Good
    PROVE  SUBSET U \subseteq Good
<1> DEFINE sized == {n \in Nat : \A s \in SUBSET U : Cardinality(s) = n => s \in Good}
<1>1. \A s \in SUBSET U : IsFiniteSet(s) /\ Cardinality(s) \in Nat
  BY FS_Subset, FS_CardinalityType
<1>2. 0 \in sized
  <2> SUFFICES ASSUME NEW s \in SUBSET U, Cardinality(s) = 0 PROVE s \in Good
    OBVIOUS
  <2>1. s = {}
    BY <1>1, FS_EmptySet
  <2>2. QED
    BY <2>1
<1>3. ASSUME NEW n \in Nat, n \in sized PROVE n + 1 \in sized
  <2> SUFFICES ASSUME NEW s \in SUBSET U, Cardinality(s) = n + 1 PROVE s \in Good
    OBVIOUS
  <2>1. ASSUME NEW x \in s PROVE s \ {x} \in Good
    <3>1. Cardinality(s \ {x}) = n /\ s \ {x} \in SUBSET U
      BY <1>1, FewerByOne
    <3>2. QED
      BY <1>3, <3>1
  <2>2. QED
    BY <2>1
<1>4. Nat \subseteq sized
  <2> HIDE DEF sized
  <2> QED BY <1>2, <1>3, InductiveSet
<1>5. QED
  BY <1>1, <1>4

\* h has, for every subset of U, what it comes to when its elements are taken
\* away one by one, the one pick names first.
Removes(h, U, T, base, pick, step) ==
    /\ h \in [SUBSET U -> T]
    /\ \A s \in SUBSET U : h[s] = IF s = {} THEN base ELSE step[<<pick[s], h[s \ {pick[s]}]>>]

LEMMA RemovalExists ==
    ASSUME NEW U, IsFiniteSet(U), NEW T, NEW base \in T, NEW step \in [U \X T -> T],
           NEW pick, \A s \in SUBSET U : s # {} => pick[s] \in s
    PROVE  \E h : Removes(h, U, T, base, pick, step)
<1> DEFINE S == [SUBSET U -> T]
           start == [s \in SUBSET U |-> base]
           Next(h) == [s \in SUBSET U |-> IF s = {} THEN base ELSE step[<<pick[s], h[s \ {pick[s]}]>>]]
           onward == [nh \in Nat \X S |-> Next(nh[2])]
<1>1. start \in S
  OBVIOUS
<1>2. ASSUME NEW h \in S PROVE Next(h) \in S
  <2>1. ASSUME NEW s \in SUBSET U, s # {} PROVE step[<<pick[s], h[s \ {pick[s]}]>>] \in T
    <3>1. pick[s] \in U /\ s \ {pick[s]} \in SUBSET U
      BY <2>1
    <3>2. h[s \ {pick[s]}] \in T
      BY <3>1
    <3>3. QED
      BY <3>1, <3>2
  <2>2. QED
    BY <2>1
<1>3. onward \in [Nat \X S -> S]
  <2> HIDE DEF S, Next
  <2> QED BY <1>2
<1>4. PICK f : Recursion(f, S, start, onward)
  <2> HIDE DEF S, start, onward
  <2> QED BY <1>1, <1>3, RecursionExists
<1>5. \A n \in Nat : f[n] \in S /\ f[n + 1] = Next(f[n])
  <2>1. \A n \in Nat : f[n] \in S /\ f[n + 1] = onward[<<n, f[n]>>]
    <3> HIDE DEF S, start, onward
    <3> QED BY <1>4 DEF Recursion
  <2>2. \A n \in Nat, h \in S : onward[<<n, h>>] = Next(h)
    <3> HIDE DEF S, Next
    <3> QED OBVIOUS
  <2>3. QED
    <3> HIDE DEF S, Next, onward
    <3> QED BY <2>1, <2>2
<1> DEFINE h == [s \in SUBSET U |-> f[Cardinality(s) + 1][s]]
<1>6. ASSUME NEW s \in SUBSET U PROVE IsFiniteSet(s) /\ Cardinality(s) \in Nat /\ Cardinality(s) + 1 \in Nat
  BY FS_Subset, FS_CardinalityType
<1>7. h \in [SUBSET U -> T]
  <2>1. ASSUME NEW s \in SUBSET U PROVE f[Cardinality(s) + 1][s] \in T
    <3>1. f[Cardinality(s) + 1] \in [SUBSET U -> T]
      <4> HIDE DEF Next
      <4> QED BY <1>5, <1>6
    <3>2. QED
      BY <3>1
  <2>2. QED
    BY <2>1
<1>8. ASSUME NEW s \in SUBSET U PROVE h[s] = IF s = {} THEN base ELSE step[<<pick[s], h[s \ {pick[s]}]>>]
  <2>1. h[s] = Next(f[Cardinality(s)])[s]
    BY <1>5, <1>6
  <2>2. CASE s = {}
    BY <2>1, <2>2
  <2>3. CASE s # {}
    <3>1. pick[s] \in s /\ s \ {pick[s]} \in SUBSET U
      BY <2>3
    <3>2. Cardinality(s \ {pick[s]}) + 1 = Cardinality(s)
      BY <1>6, <3>1, FewerByOne
    <3>3. h[s \ {pick[s]}] = f[Cardinality(s)][s \ {pick[s]}]
      BY <3>1, <3>2
    <3>4. QED
      BY <2>1, <2>3, <3>3
  <2>4. QED
    BY <2>2, <2>3
<1>9. QED
  <2> HIDE DEF h
  <2> QED BY <1>7, <1>8 DEF Removes

LEMMA SumsExist ==
    ASSUME NEW U, IsFiniteSet(U), NEW g \in [U -> Int]
    PROVE  \E h : Sums(h, g, U)
<1> DEFINE pick == [s \in SUBSET U |-> Picked(s)]
           step == [p \in U \X Int |-> g[p[1]] + p[2]]
<1>1. \A s \in SUBSET U : pick[s] = Picked(s) /\ (s # {} => pick[s] \in s)
  BY PickedIn
<1>2. step \in [U \X Int -> Int] /\ \A x \in U, n \in Int : step[<<x, n>>] = g[x] + n
  OBVIOUS
<1> HIDE DEF pick, step
<1>3. PICK h : Removes(h, U, Int, 0, pick, step)
  <2>1. 0 \in Int
    OBVIOUS
  <2>2. QED
    BY <1>1, <1>2, <2>1, RemovalExists
<1>4. ASSUME NEW s \in SUBSET U PROVE h[s] = IF s = {} THEN 0 ELSE g[Picked(s)] + h[s \ {Picked(s)}]
  <2>1. h[s] = IF s = {} THEN 0 ELSE step[<<Picked(s), h[s \ {Picked(s)}]>>]
    BY <1>1, <1>3 DEF Removes
  <2>2. s # {} => Picked(s) \in U /\ h[s \ {Picked(s)}] \in Int
    BY <1>1, <1>3 DEF Removes
  <2>3. QED
    BY <1>2, <2>1, <2>2
<1>5. QED
  BY <1>3, <1>4 DEF Removes, Sums

\* There is but one way to sum up.
LEMMA SumsAgree ==
    ASSUME NEW U, NEW V, NEW g, NEW h, NEW k, Sums(h, g, U), Sums(k, g, V),
           NEW S \in SUBSET (U \cap V), IsFiniteSet(S)
    PROVE  h[S] = k[S]
<1> DEFINE Good == {s \in SUBSET S : h[s] = k[s]}
<1>1. ASSUME NEW s \in SUBSET S, \A x \in s : s \ {x} \in Good PROVE s \in Good
  <2>1. /\ h[s] = IF s = {} THEN 0 ELSE g[Picked(s)] + h[s \ {Picked(s)}]
        /\ k[s] = IF s = {} THEN 0 ELSE g[Picked(s)] + k[s \ {Picked(s)}]
    BY DEF Sums
  <2>2. s # {} => h[s \ {Picked(s)}] = k[s \ {Picked(s)}]
    BY <1>1, PickedIn
  <2>3. QED
    BY <2>1, <2>2
<1>2. SUBSET S \subseteq Good
  <2> HIDE DEF Good
  <2> QED BY <1>1, FiniteInduction
<1>3. QED
  BY <1>2

LEMMA SumIs ==
    ASSUME NEW U, NEW g, NEW h, Sums(h, g, U), NEW S \in SUBSET U, IsFiniteSet(S)
    PROVE  SumOver(g, S) = h[S]
<1> DEFINE body(it) == [s \in SUBSET S |-> IF s = {} THEN 0 ELSE g[Picked(s)] + it[s \ {Picked(s)}]]
           iter == CHOOSE it : it = body(it)
           part == [s \in SUBSET S |-> h[s]]
<1>1. part = body(part)
  <2>1. ASSUME NEW s \in SUBSET S
        PROVE  part[s] = IF s = {} THEN 0 ELSE g[Picked(s)] + part[s \ {Picked(s)}]
    <3>1. h[s] = IF s = {} THEN 0 ELSE g[Picked(s)] + h[s \ {Picked(s)}]
      BY DEF Sums
    <3>2. part[s] = h[s] /\ part[s \ {Picked(s)}] = h[s \ {Picked(s)}]
      OBVIOUS
    <3>3. QED
      BY <3>1, <3>2
  <2>2. part = [s \in SUBSET S |-> part[s]]
    OBVIOUS
  <2> HIDE DEF part
  <2>3. QED
    BY <2>1, <2>2
<1>2. iter = body(iter)
  <2> HIDE DEF body, part
  <2> QED BY <1>1
<1>3. \A s \in SUBSET S : iter[s] = IF s = {} THEN 0 ELSE g[Picked(s)] + iter[s \ {Picked(s)}]
  <2> HIDE DEF iter
  <2> QED BY <1>2
<1>4. SumOver(g, S) = iter[S]
  BY DEF SumOver
<1> HIDE DEF iter
<1> DEFINE Good == {s \in SUBSET S : iter[s] = h[s]}
<1>5. ASSUME NEW s \in SUBSET S, \A x \in s : s \ {x} \in Good PROVE s \in Good
  <2>1. h[s] = IF s = {} THEN 0 ELSE g[Picked(s)] + h[s \ {Picked(s)}]
    BY DEF Sums
  <2>2. iter[s] = IF s = {} THEN 0 ELSE g[Picked(s)] + iter[s \ {Picked(s)}]
    BY <1>3
  <2>3. s # {} => iter[s \ {Picked(s)}] = h[s \ {Picked(s)}]
    BY <1>5, PickedIn
  <2>4. QED
    BY <2>1, <2>2, <2>3
<1>6. SUBSET S \subseteq Good
  <2> HIDE DEF Good
  <2> QED BY <1>5, FiniteInduction
<1>7. QED
  BY <1>4, <1>6

\* Whichever element is taken first.
LEMMA SumsTake ==
    ASSUME NEW U, IsFiniteSet(U), NEW g \in [U -> Int], NEW h, Sums(h, g, U)
    PROVE  \A s \in SUBSET U : \A y \in s : h[s] = g[y] + h[s \ {y}]
<1> DEFINE Good == {s \in SUBSET U : \A y \in s : h[s] = g[y] + h[s \ {y}]}
<1>1. ASSUME NEW s \in SUBSET U, \A x \in s : s \ {x} \in Good PROVE s \in Good
  <2> SUFFICES ASSUME NEW y \in s PROVE h[s] = g[y] + h[s \ {y}]
    OBVIOUS
  <2>1. PICK c \in s : h[s] = g[c] + h[s \ {c}] /\ c = Picked(s)
    BY PickedIn DEF Sums
  <2>2. CASE y = c
    BY <2>1, <2>2
  <2>3. CASE y # c
    <3>1. h[s \ {c}] = g[y] + h[(s \ {c}) \ {y}]
      BY <1>1, <2>3
    <3>2. h[s \ {y}] = g[c] + h[(s \ {y}) \ {c}]
      BY <1>1, <2>3
    <3>3. (s \ {c}) \ {y} = (s \ {y}) \ {c} /\ (s \ {y}) \ {c} \in SUBSET U
      OBVIOUS
    <3>4. g[y] \in Int /\ g[c] \in Int /\ h[(s \ {y}) \ {c}] \in Int
      BY <3>3 DEF Sums
    <3>5. \A a, b, r \in Int : a + (b + r) = b + (a + r)
      OBVIOUS
    <3>6. g[c] + (g[y] + h[(s \ {y}) \ {c}]) = g[y] + (g[c] + h[(s \ {y}) \ {c}])
      BY <3>4, <3>5
    <3>7. h[s \ {c}] = g[y] + h[(s \ {y}) \ {c}]
      BY <3>1, <3>3, Zenon
    <3>8. h[s] = g[c] + (g[y] + h[(s \ {y}) \ {c}])
      BY <2>1, <3>7, Zenon
    <3>9. QED
      BY <3>8, <3>6, <3>2, Zenon
  <2>4. QED
    BY <2>2, <2>3
<1>2. SUBSET U \subseteq Good
  <2> HIDE DEF Good
  <2> QED BY <1>1, FiniteInduction
<1>3. QED
  BY <1>2

LEMMA SumInt ==
    ASSUME NEW S, IsFiniteSet(S), NEW g \in [S -> Int]
    PROVE  SumOver(g, S) \in Int
<1>1. PICK h : Sums(h, g, S)
  BY SumsExist
<1>2. SumOver(g, S) = h[S]
  BY <1>1, SumIs
<1>3. QED
  BY <1>1, <1>2 DEF Sums

LEMMA SumEmpty == \A g : SumOver(g, {}) = 0
<1> TAKE g
<1> DEFINE h == [s \in SUBSET {} |-> 0]
<1>1. Sums(h, g, {})
  BY DEF Sums
<1>2. IsFiniteSet({})
  BY FS_EmptySet
<1>3. SumOver(g, {}) = h[{}]
  <2> HIDE DEF h
  <2> QED BY <1>1, <1>2, SumIs
<1>4. QED
  BY <1>3

\* A sum, by one of its elements and the rest.
LEMMA SumTake ==
    ASSUME NEW U, IsFiniteSet(U), NEW g \in [U -> Int], NEW S \in SUBSET U, NEW y \in S
    PROVE  /\ SumOver(g, S) = g[y] + SumOver(g, S \ {y})
           /\ SumOver(g, S \ {y}) \in Int
<1>1. PICK h : Sums(h, g, U)
  BY SumsExist
<1>2. IsFiniteSet(S) /\ IsFiniteSet(S \ {y}) /\ S \ {y} \in SUBSET U
  BY FS_Subset
<1>3. SumOver(g, S) = h[S] /\ SumOver(g, S \ {y}) = h[S \ {y}]
  BY <1>1, <1>2, SumIs
<1>4. h[S] = g[y] + h[S \ {y}]
  BY <1>1, SumsTake
<1>5. QED
  BY <1>1, <1>2, <1>3, <1>4 DEF Sums

\* Equal terms, equal sums.
LEMMA SumSame ==
    ASSUME NEW S, IsFiniteSet(S), NEW g, NEW k, \A x \in S : g[x] = k[x] /\ g[x] \in Int
    PROVE  SumOver(g, S) = SumOver(k, S)
<1> DEFINE gs == [x \in S |-> g[x]]
<1>1. gs \in [S -> Int]
  OBVIOUS
<1>2. PICK h : Sums(h, gs, S)
  <2> HIDE DEF gs
  <2> QED BY <1>1, SumsExist
<1>3. Sums(h, g, S) /\ Sums(h, k, S)
  <2>1. ASSUME NEW s \in SUBSET S, s # {} PROVE gs[Picked(s)] = g[Picked(s)] /\ gs[Picked(s)] = k[Picked(s)]
    BY <2>1, PickedIn
  <2>2. \A s \in SUBSET S : h[s] = IF s = {} THEN 0 ELSE gs[Picked(s)] + h[s \ {Picked(s)}]
    <3> HIDE DEF gs
    <3> QED BY <1>2 DEF Sums
  <2>3. h \in [SUBSET S -> Int]
    BY <1>2 DEF Sums
  <2> HIDE DEF gs
  <2>4. QED
    BY <2>1, <2>2, <2>3 DEF Sums
<1>4. SumOver(g, S) = h[S] /\ SumOver(k, S) = h[S]
  BY <1>3, SumIs
<1>5. QED
  BY <1>4
==============================================================================
