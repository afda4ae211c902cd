----------------------------- MODULE FoldProofs -----------------------------
(***************************************************************************)
(* What the proofs about lists need: induction, folds, sums and numbered   *)
(* sets.  A fold is a function that is chosen by its recursive equation,   *)
(* so that nothing is known of it before such a function is shown to       *)
(* exist; FoldExists constructs it for the numbers up to n.                *)
(***************************************************************************)
EXTENDS Integers, Sequences, SequencesExt, FiniteSets, FiniteSetsExt, Functions,
        TLAPS, SequenceTheorems, FiniteSetTheorems, WellFoundedInduction

\* What holds of 0, and of k + 1 where it holds of k, holds of every number.
LEMMA Induction ==
    ASSUME NEW S, 0 \in S, \A k \in Nat : k \in S => k + 1 \in S
    PROVE  \A k \in Nat : k \in S
<1> DEFINE R == OpToRel(<, Nat)
           missing == Nat \ S
<1> SUFFICES ASSUME missing # {} PROVE FALSE
  OBVIOUS
<1>1. IsWellFoundedOn(R, Nat)
  BY NatLessThanWellFounded
<1>2. \A x, y \in Nat : x < y => <<x, y>> \in R
  BY DEF OpToRel
<1>3. missing \subseteq Nat
  OBVIOUS
<1> HIDE DEF R
<1> HIDE DEF missing
<1>4. PICK x \in missing : \A y \in missing : ~ (<<y, x>> \in R)
  BY <1>1, <1>3, WFMin
<1>5. x \in Nat /\ x # 0 /\ x - 1 \in Nat /\ (x - 1) + 1 = x
  BY <1>4 DEF missing
<1>6. x - 1 \notin missing
  <2>1. <<x - 1, x>> \in R
    BY <1>2, <1>5
  <2> QED BY <1>4, <2>1
<1>7. x - 1 \in S
  BY <1>5, <1>6 DEF missing
<1>8. x \in S
  BY <1>5, <1>7
<1> QED BY <1>4, <1>8 DEF missing

\* Some numbers have a first one.
LEMMA Lowest ==
    ASSUME NEW S \in SUBSET Nat, S # {}
    PROVE  \E x \in S : \A y \in S : x <= y
<1> DEFINE R == OpToRel(<, Nat)
<1>0. S \subseteq Nat
  OBVIOUS
<1>1. IsWellFoundedOn(R, Nat)
  BY NatLessThanWellFounded
<1>2. \A x, y \in Nat : x < y => <<x, y>> \in R
  BY DEF OpToRel
<1> HIDE DEF R
<1>3. PICK x \in S : \A y \in S : ~ (<<y, x>> \in R)
  BY <1>0, <1>1, WFMin
<1>4. ASSUME NEW y \in S PROVE x <= y
  <2>1. x \in Nat /\ y \in Nat
    BY <1>0
  <2>2. ~(y < x)
    BY <1>2, <1>3, <2>1
  <2> QED BY <2>1, <2>2
<1> QED BY <1>4

\* The last of some numbers that are folded over.
LEMMA Highest ==
    ASSUME NEW s, NEW k \in s, s \subseteq 1..k
    PROVE  Max(s) = k
<1>1. k \in s /\ \A y \in s : k >= y
  OBVIOUS
<1>2. \A x \in s : (\A y \in s : x >= y) => x = k
  OBVIOUS
<1> QED BY <1>1, <1>2 DEF Max

\* The steps of a fold over the numbers up to n, and the function that MapThenFoldSet
\* chooses for them.
StepsOn(T, n) == [T \X (1..n) -> T]

IsFold(f, base, step, n) ==
    \A s \in SUBSET (1..n) :
      f[s] = IF s = {} THEN base ELSE step[<<f[s \ {Max(s)}], Max(s)>>]

LEMMA FoldExists ==
    ASSUME NEW n \in Nat, NEW T, NEW base \in T, NEW step \in StepsOn(T, n)
    PROVE  \E f \in [SUBSET (1..n) -> T] : IsFold(f, base, step, n)
<1> DEFINE Solves(f, k) ==
             /\ f \in [SUBSET (1..k) -> T]
             /\ \A s \in SUBSET (1..k) :
                  f[s] = IF s = {} THEN base ELSE step[<<f[s \ {Max(s)}], Max(s)>>]
           Good == {k \in Nat : k <= n => \E f : Solves(f, k)}
<1> USE DEF StepsOn
<1>1. 0 \in Good
  <2>1. 1..0 = {} /\ SUBSET {} = {{}}
    OBVIOUS
  <2>2. Solves([s \in {{}} |-> base], 0)
    BY <2>1
  <2> QED BY <2>2
<1>2. ASSUME NEW k \in Nat, k \in Good
      PROVE  k + 1 \in Good
  <2> SUFFICES ASSUME k + 1 <= n PROVE \E h : Solves(h, k + 1)
    <3> HIDE DEF Solves
    <3> QED OBVIOUS
  <2>1. PICK f : Solves(f, k)
    <3> HIDE DEF Solves
    <3>1. k <= n
      OBVIOUS
    <3> QED BY <1>2, <3>1
  <2> DEFINE g == [s \in SUBSET (1..(k + 1)) |->
                     IF k + 1 \in s THEN step[<<f[s \ {k + 1}], k + 1>>] ELSE f[s]]
  <2>2. ASSUME NEW s \in SUBSET (1..(k + 1))
        PROVE  /\ g[s] \in T
               /\ g[s] = IF s = {} THEN base ELSE step[<<g[s \ {Max(s)}], Max(s)>>]
    <3>1. k + 1 \in 1..n
      OBVIOUS
    <3>2. CASE k + 1 \in s
      <4>1. Max(s) = k + 1
        BY <3>2, Highest
      <4>2. /\ s \ {k + 1} \in SUBSET (1..k)
            /\ s \ {k + 1} \in SUBSET (1..(k + 1))
            /\ k + 1 \notin s \ {k + 1}
        OBVIOUS
      <4>3. g[s \ {k + 1}] = f[s \ {k + 1}] /\ f[s \ {k + 1}] \in T
        BY <2>1, <4>2
      <4>4. g[s] = step[<<f[s \ {k + 1}], k + 1>>]
        BY <3>2
      <4>5. g[s] \in T
        BY <3>1, <4>3, <4>4
      <4> HIDE DEF g
      <4> QED BY <3>2, <4>1, <4>3, <4>4, <4>5
    <3>3. CASE k + 1 \notin s
      <4>1. s \in SUBSET (1..k) /\ s \ {Max(s)} \in SUBSET (1..k)
        <5>1. \A y \in s : y \in 1..k
          BY <3>3
        <5> QED BY <5>1
      <4>2. g[s] = f[s] /\ f[s] \in T
        BY <2>1, <3>3, <4>1
      <4>3. s # {} => g[s \ {Max(s)}] = f[s \ {Max(s)}]
        BY <4>1
      <4>4. f[s] = IF s = {} THEN base ELSE step[<<f[s \ {Max(s)}], Max(s)>>]
        BY <2>1, <4>1
      <4> HIDE DEF g
      <4> QED BY <4>2, <4>3, <4>4
    <3> QED BY <3>2, <3>3
  <2>3. g \in [SUBSET (1..(k + 1)) -> T]
    BY <2>2
  <2>4. Solves(g, k + 1)
    <3> HIDE DEF g
    <3> QED BY <2>2, <2>3
  <2> HIDE DEF Solves
  <2> QED BY <2>4
<1>3. n \in Good
  <2> HIDE DEF Good
  <2> QED BY <1>1, <1>2, Induction
<1>4. PICK f : Solves(f, n)
  <2> HIDE DEF Solves
  <2> QED BY <1>3
<1> QED BY <1>4 DEF IsFold

\* Some of finitely many numbers have a last one.
LEMMA HighestExists ==
    ASSUME NEW n \in Nat, NEW s \in SUBSET (1..n), s # {}
    PROVE  Max(s) \in s
<1> DEFINE Good == {k \in Nat : \A t \in SUBSET (1..k) :
                      t # {} => \E x \in t : \A y \in t : x >= y}
<1>1. 0 \in Good
  <2>1. 1..0 = {}
    OBVIOUS
  <2>2. \A t \in SUBSET (1..0) : t = {}
    BY <2>1
  <2> QED BY <2>2
<1>2. ASSUME NEW k \in Nat, k \in Good
      PROVE  k + 1 \in Good
  <2>1. ASSUME NEW t \in SUBSET (1..(k + 1)), t # {}
        PROVE  \E x \in t : \A y \in t : x >= y
    <3>1. CASE k + 1 \in t
      BY <3>1
    <3>2. CASE k + 1 \notin t
      <4>1. \A y \in t : y \in 1..k
        BY <3>2
      <4> QED BY <1>2, <2>1, <4>1
    <3> QED BY <3>1, <3>2
  <2> QED BY <2>1
<1>3. n \in Good
  <2> HIDE DEF Good
  <2> QED BY <1>1, <1>2, Induction
<1>4. \E x \in s : \A y \in s : x >= y
  BY <1>3
<1> QED BY <1>4 DEF Max

\* A prefix of the numbers up to n, without its last.
LEMMA Prefix ==
    ASSUME NEW n \in Nat, NEW k \in 0..(n - 1)
    PROVE  /\ 1..k \in SUBSET (1..n) /\ 1..(k + 1) \in SUBSET (1..n)
           /\ 1..(k + 1) # {} /\ Max(1..(k + 1)) = k + 1 /\ k + 1 \in 1..n
           /\ 1..(k + 1) \ {Max(1..(k + 1))} = 1..k
<1>1. k + 1 \in 1..(k + 1) /\ 1..(k + 1) \subseteq 1..(k + 1)
  OBVIOUS
<1>2. Max(1..(k + 1)) = k + 1
  BY <1>1, Highest
<1>3. 1..(k + 1) \ {k + 1} = 1..k
  OBVIOUS
<1>4. 1..k \in SUBSET (1..n) /\ 1..(k + 1) \in SUBSET (1..n)
  OBVIOUS
<1> QED BY <1>1, <1>2, <1>3, <1>4

-----------------------------------------------------------------------------
(***************************************************************************)
(* Sums.                                                                   *)
(***************************************************************************)

\* g is the sum of f over every subset of the numbers up to n, whichever element of
\* the subset is taken first.
IsSum(g, f, n) ==
    /\ g \in [SUBSET (1..n) -> Nat]
    /\ g[{}] = 0
    /\ \A s \in SUBSET (1..n) : \A x \in s : g[s] = f[x] + g[s \ {x}]

LEMMA SumExists ==
    ASSUME NEW n \in Nat, NEW f \in [1..n -> Nat]
    PROVE  \E g : IsSum(g, f, n)
<1> DEFINE step == [z \in Nat \X (1..n) |-> f[z[2]] + z[1]]
<1>1. step \in StepsOn(Nat, n)
  <2>1. \A z \in Nat \X (1..n) : f[z[2]] + z[1] \in Nat
    OBVIOUS
  <2> QED BY <2>1 DEF StepsOn
<1>2. \A a \in Nat, k \in 1..n : step[<<a, k>>] = f[k] + a
  OBVIOUS
<1> HIDE DEF step
<1>3. PICK g \in [SUBSET (1..n) -> Nat] : IsFold(g, 0, step, n)
  BY <1>1, FoldExists
<1>4. ASSUME NEW s \in SUBSET (1..n), s # {}
      PROVE  g[s] = f[Max(s)] + g[s \ {Max(s)}] /\ Max(s) \in s
  <2>1. Max(s) \in s
    BY <1>4, HighestExists
  <2>2. g[s \ {Max(s)}] \in Nat
    OBVIOUS
  <2>3. g[s] = step[<<g[s \ {Max(s)}], Max(s)>>]
    BY <1>3, <1>4 DEF IsFold
  <2> QED BY <1>2, <2>1, <2>2, <2>3
<1> DEFINE Good == {k \in Nat : k <= n => \A s \in SUBSET (1..k) : \A x \in s :
                      g[s] = f[x] + g[s \ {x}]}
<1>5. 0 \in Good
  <2>1. \A s \in SUBSET (1..0) : s = {}
    OBVIOUS
  <2> QED BY <2>1
<1>6. ASSUME NEW k \in Nat, k \in Good
      PROVE  k + 1 \in Good
  <2> SUFFICES ASSUME k + 1 <= n, NEW s \in SUBSET (1..(k + 1)), NEW x \in s
               PROVE  g[s] = f[x] + g[s \ {x}]
    OBVIOUS
  <2>0. s \in SUBSET (1..n)
    OBVIOUS
  <2>1. CASE k + 1 \notin s
    <3>1. \A y \in s : y \in 1..k
      BY <2>1
    <3> QED BY <1>6, <3>1
  <2>2. CASE k + 1 \in s /\ x = k + 1
    <3>1. Max(s) = k + 1
      BY <2>2, Highest
    <3> QED BY <1>4, <2>0, <2>2, <3>1
  <2>3. CASE k + 1 \in s /\ x # k + 1
    <3> DEFINE m == k + 1
               t == s \ {m}
               r == s \ {x}
    <3>1. Max(s) = m /\ Max(r) = m
      <4>1. m \in s /\ m \in r /\ s \subseteq 1..m /\ r \subseteq 1..m
        BY <2>3
      <4> HIDE DEF m, r
      <4> QED BY <4>1, Highest
    <3>2. g[s] = f[m] + g[t]
      BY <1>4, <2>0, <2>3, <3>1
    <3>3. r \in SUBSET (1..n) /\ r # {} /\ m \in r
      BY <2>0, <2>3
    <3>4. g[r] = f[m] + g[r \ {m}]
      BY <1>4, <3>1, <3>3
    <3>5. t \in SUBSET (1..k) /\ x \in t
      <4>1. \A y \in t : y \in 1..k
        OBVIOUS
      <4> QED BY <2>3, <4>1
    <3>6. g[t] = f[x] + g[t \ {x}]
      <4>1. k <= n
        OBVIOUS
      <4> HIDE DEF t
      <4> QED BY <1>6, <3>5, <4>1
    <3>7. t \ {x} = r \ {m}
      OBVIOUS
    <3>8. f[m] \in Nat /\ f[x] \in Nat /\ g[r \ {m}] \in Nat
      <4>1. m \in 1..n /\ x \in 1..n /\ r \ {m} \in SUBSET (1..n)
        BY <2>0, <2>3
      <4> HIDE DEF m, r
      <4> QED BY <4>1
    <3>9. g[s] = f[x] + g[r]
      <4>1. g[s] = f[m] + (f[x] + g[r \ {m}]) /\ g[r] = f[m] + g[r \ {m}]
        BY <3>2, <3>4, <3>6, <3>7
      <4> HIDE DEF m, r
      <4> QED BY <3>8, <4>1
    <3> QED BY <3>9 DEF r
  <2> QED BY <2>1, <2>2, <2>3
<1>7. n \in Good
  <2> HIDE DEF Good
  <2> QED BY <1>5, <1>6, Induction
<1>8. g[{}] = 0
  BY <1>3 DEF IsFold
<1>9. \A s \in SUBSET (1..n) : \A x \in s : g[s] = f[x] + g[s \ {x}]
  <2>1. n <= n
    OBVIOUS
  <2> QED BY <1>7, <2>1, Zenon
<1> HIDE DEF Good
<1> QED BY <1>8, <1>9 DEF IsSum

\* The function that MapThenSumSet chooses is that sum.
LEMMA SumIsUnique ==
    ASSUME NEW n \in Nat, NEW S \in SUBSET (1..n), NEW f, NEW g, IsSum(g, f, n),
           NEW F, F[{}] = 0,
           \A s \in SUBSET S : s # {} =>
             F[s] = f[CHOOSE x \in s : TRUE] + F[s \ {CHOOSE x \in s : TRUE}]
    PROVE  F[S] = g[S]
<1> DEFINE Good == {k \in Nat : \A s \in SUBSET S : Cardinality(s) = k => F[s] = g[s]}
<1>0. /\ F[{}] = 0
      /\ \A s \in SUBSET S : s # {} =>
           F[s] = f[CHOOSE x \in s : TRUE] + F[s \ {CHOOSE x \in s : TRUE}]
  OBVIOUS
<1>1. \A s \in SUBSET S : IsFiniteSet(s) /\ s \in SUBSET (1..n)
  <2>1. IsFiniteSet(1..n)
    BY FS_Interval
  <2> QED BY <2>1, FS_Subset
<1>2. 0 \in Good
  <2>1. \A s \in SUBSET S : Cardinality(s) = 0 => s = {}
    BY <1>1, FS_EmptySet
  <2> QED BY <1>0, <2>1 DEF IsSum
<1>3. ASSUME NEW k \in Nat, k \in Good
      PROVE  k + 1 \in Good
  <2>0. k + 1 \in Nat
    OBVIOUS
  <2> SUFFICES ASSUME NEW s \in SUBSET S, Cardinality(s) = k + 1
               PROVE  F[s] = g[s]
    BY <2>0, Zenon
  <2> DEFINE x == CHOOSE x \in s : TRUE
  <2>1. s # {} /\ x \in s
    BY <1>1, FS_EmptySet
  <2>2. Cardinality(s \ {x}) = k
    <3>1. IsFiniteSet(s)
      BY <1>1
    <3> HIDE DEF x
    <3>2. Cardinality(s \ {x}) = Cardinality(s) - 1
      BY <2>1, <3>1, FS_RemoveElement
    <3> QED BY <3>2
  <2>3. F[s \ {x}] = g[s \ {x}]
    BY <1>3, <2>2
  <2>4. F[s] = f[x] + F[s \ {x}]
    BY <1>0, <2>1
  <2> HIDE DEF x
  <2>5. g[s] = f[x] + g[s \ {x}]
    BY <1>1, <2>1 DEF IsSum
  <2> QED BY <2>3, <2>4, <2>5
<1>4. \A k \in Nat : k \in Good
  <2> HIDE DEF Good
  <2> QED BY <1>2, <1>3, Induction
<1>5. Cardinality(S) \in Nat
  BY <1>1, FS_CardinalityType
<1> QED BY <1>4, <1>5

-----------------------------------------------------------------------------
(***************************************************************************)
(* Numbered sets.                                                          *)
(***************************************************************************)

\* As many things as they are numbered from 1 to m.
LEMMA Counted ==
    ASSUME NEW m \in Nat, NEW T, NEW f \in [1..m -> T],
           \A i, j \in 1..m : f[i] = f[j] => i = j,
           \A x \in T : \E i \in 1..m : f[i] = x
    PROVE  IsFiniteSet(T) /\ Cardinality(T) = m
<1>1. f \in Bijection(1..m, T)
  BY DEF Bijection, Injection, Surjection, IsInjective
<1>2. IsFiniteSet(1..m) /\ Cardinality(1..m) = m
  BY FS_Interval
<1>3. ExistsBijection(1..m, T)
  BY <1>1 DEF ExistsBijection
<1> QED BY <1>2, <1>3, FS_Bijection

\* The pairs of R put the elements of S in a line.
InLine(S, R) ==
    /\ \A x \in S : <<x, x>> \notin R
    /\ \A x, y \in S : x = y \/ <<x, y>> \in R \/ <<y, x>> \in R
    /\ \A x, y, z \in S : <<x, y>> \in R /\ <<y, z>> \in R => <<x, z>> \in R

Before(S, R, x) == {y \in S : <<y, x>> \in R}

\* A list that has at each place an element with as many before it as the place says
\* has all of S, in order.
LEMMA Sorted ==
    ASSUME NEW S, IsFiniteSet(S), NEW R, InLine(S, R), NEW F,
           F = [i \in 1..Cardinality(S) |->
                  CHOOSE x \in S : Cardinality(Before(S, R, x)) = i - 1]
    PROVE  /\ F \in [1..Cardinality(S) -> S]
           /\ \A x \in S : \E i \in 1..Cardinality(S) : F[i] = x
           /\ \A i, j \in 1..Cardinality(S) : i < j => <<F[i], F[j]>> \in R
<1> DEFINE n == Cardinality(S)
           place == [x \in S |-> Cardinality(Before(S, R, x)) + 1]
<1>0. n \in Nat
  BY FS_CardinalityType
<1>1. ASSUME NEW x \in S
      PROVE  /\ IsFiniteSet(Before(S, R, x))
             /\ Cardinality(Before(S, R, x)) \in Nat
             /\ Cardinality(Before(S, R, x)) < n
  <2>1. Before(S, R, x) \in SUBSET S /\ x \in S /\ x \notin Before(S, R, x)
    BY DEF Before, InLine
  <2>2. IsFiniteSet(Before(S, R, x)) /\ Cardinality(Before(S, R, x)) <= n
        /\ Cardinality(Before(S, R, x)) # n
    BY <2>1, FS_Subset
  <2>3. Cardinality(Before(S, R, x)) \in Nat
    BY <2>2, FS_CardinalityType
  <2> QED BY <1>0, <2>2, <2>3
<1>2. ASSUME NEW x \in S, NEW y \in S, <<x, y>> \in R
      PROVE  Cardinality(Before(S, R, x)) < Cardinality(Before(S, R, y))
  <2>1. Before(S, R, x) \in SUBSET Before(S, R, y)
    BY <1>2 DEF Before, InLine
  <2>2. x \in Before(S, R, y) /\ x \notin Before(S, R, x)
    BY <1>2 DEF Before, InLine
  <2>3. Cardinality(Before(S, R, x)) <= Cardinality(Before(S, R, y))
        /\ Cardinality(Before(S, R, x)) # Cardinality(Before(S, R, y))
    BY <1>1, <2>1, <2>2, FS_Subset
  <2> QED BY <1>1, <2>3
<1>3. place \in [S -> 1..n] /\ \A x \in S : place[x] = Cardinality(Before(S, R, x)) + 1
  BY <1>0, <1>1
<1>4. \A x, y \in S : <<x, y>> \in R => place[x] < place[y]
  BY <1>1, <1>2, <1>3
<1>5. \A x, y \in S : place[x] = place[y] => x = y
  <2> SUFFICES ASSUME NEW x \in S, NEW y \in S, place[x] = place[y], x # y PROVE FALSE
    OBVIOUS
  <2>1. place[x] \in Nat /\ place[y] \in Nat
    BY <1>1, <1>3
  <2>2. <<x, y>> \in R \/ <<y, x>> \in R
    BY DEF InLine
  <2> HIDE DEF place
  <2> QED BY <1>4, <2>1, <2>2
<1>6. \A i \in 1..n : \E x \in S : place[x] = i
  <2> HIDE DEF place
  <2>1. place \in Injection(S, 1..n)
    BY <1>3, <1>5 DEF Injection, IsInjective
  <2>2. IsFiniteSet(1..n) /\ Cardinality(1..n) = n
    BY <1>0, FS_Interval
  <2> HIDE DEF n
  <2>3. Cardinality(S) = Cardinality(1..n)
    BY <2>2 DEF n
  <2>4. place \in Surjection(S, 1..n)
    BY <2>1, <2>2, <2>3, FS_Injection
  <2> QED BY <2>4 DEF Surjection
<1>7. ASSUME NEW i \in 1..n
      PROVE  F[i] \in S /\ place[F[i]] = i
  <2>1. PICK x \in S : place[x] = i
    BY <1>6
  <2>2. Cardinality(Before(S, R, x)) = i - 1
    BY <1>1, <1>3, <2>1
  <2>3. F[i] = CHOOSE y \in S : Cardinality(Before(S, R, y)) = i - 1
    OBVIOUS
  <2>4. F[i] \in S /\ Cardinality(Before(S, R, F[i])) = i - 1
    BY <2>2, <2>3
  <2> HIDE DEF place
  <2> QED BY <1>1, <1>3, <2>4
<1>8. F \in [1..n -> S]
  BY <1>7
<1>9. ASSUME NEW x \in S
      PROVE  \E i \in 1..n : F[i] = x
  <2> HIDE DEF place
  <2>1. place[x] \in 1..n
    BY <1>3
  <2>2. F[place[x]] = x
    BY <1>5, <1>7, <2>1
  <2> QED BY <2>1, <2>2
<1>10. ASSUME NEW i \in 1..n, NEW j \in 1..n, i < j
       PROVE  <<F[i], F[j]>> \in R
  <2> HIDE DEF place
  <2>1. F[i] \in S /\ F[j] \in S /\ place[F[i]] = i /\ place[F[j]] = j
    BY <1>7
  <2>2. F[i] # F[j]
    <3>1. i # j
      BY <1>10
    <3> QED BY <2>1, <3>1, Zenon
  <2>3. <<F[j], F[i]>> \in R => j < i
    <3> HIDE DEF n
    <3> QED BY <1>4, <2>1
  <2>4. <<F[j], F[i]>> \notin R
    BY <1>10, <2>3
  <2> QED BY <2>1, <2>2, <2>4 DEF InLine
<1> QED BY <1>8, <1>9, <1>10

\* The numbers of a set, listed by how many of them come up to each.
LEMMA Places ==
    ASSUME NEW m \in Nat, NEW S \in SUBSET (1..m), NEW F,
           F = [n \in 1..Cardinality(S) |->
                  CHOOSE i \in S : Cardinality(S \cap 1..i) = n]
    PROVE  /\ Cardinality(S) \in Nat
           /\ F \in [1..Cardinality(S) -> S]
           /\ \A x \in S : \E i \in 1..Cardinality(S) : F[i] = x
           /\ \A i, j \in 1..Cardinality(S) : i < j => F[i] < F[j]
<1> DEFINE R == {p \in S \X S : p[1] < p[2]}
           G == [i \in 1..Cardinality(S) |->
                   CHOOSE x \in S : Cardinality(Before(S, R, x)) = i - 1]
<1>1. IsFiniteSet(S) /\ Cardinality(S) \in Nat
  <2>1. IsFiniteSet(1..m)
    BY FS_Interval
  <2> QED BY <2>1, FS_Subset, FS_CardinalityType
<1>2. \A x, y \in S : <<x, y>> \in R <=> x < y
  OBVIOUS
<1>3. InLine(S, R)
  <2> HIDE DEF R
  <2>1. \A x \in S : x \in Nat
    OBVIOUS
  <2> QED BY <1>2, <2>1 DEF InLine
<1>4. ASSUME NEW x \in S
      PROVE  /\ Cardinality(Before(S, R, x)) \in Nat
             /\ Cardinality(S \cap 1..x) = Cardinality(Before(S, R, x)) + 1
  <2> DEFINE B == Before(S, R, x)
  <2>1. S \cap 1..x = B \cup {x} /\ x \notin B /\ B \in SUBSET S
    <3> HIDE DEF R
    <3>1. \A y \in S : y \in Nat /\ y >= 1
      OBVIOUS
    <3>2. \A y \in S : y \in 1..x <=> y < x \/ y = x
      BY <3>1
    <3>3. \A y : y \in B <=> y \in S /\ y < x
      BY <1>2 DEF Before
    <3>4. x \notin B
      BY <3>1, <3>3
    <3>5. S \cap 1..x = B \cup {x}
      <4> HIDE DEF B
      <4> QED BY <3>2, <3>3
    <3> QED BY <3>3, <3>4, <3>5
  <2> HIDE DEF B
  <2>2. IsFiniteSet(B) /\ Cardinality(B) \in Nat
    BY <1>1, <2>1, FS_Subset, FS_CardinalityType
  <2>3. Cardinality(B \cup {x}) = Cardinality(B) + 1
    BY <2>1, <2>2, FS_AddElement
  <2> QED BY <2>1, <2>2, <2>3 DEF B
<1>5. ASSUME NEW n \in 1..Cardinality(S)
      PROVE  F[n] = G[n]
  <2>1. \A x \in S : Cardinality(S \cap 1..x) = n <=> Cardinality(Before(S, R, x)) = n - 1
    <3> HIDE DEF R
    <3> QED BY <1>1, <1>4
  <2> HIDE DEF R
  <2>2. (CHOOSE x \in S : Cardinality(S \cap 1..x) = n)
          = CHOOSE x \in S : Cardinality(Before(S, R, x)) = n - 1
    BY <2>1
  <2> QED BY <2>2
<1>6. F = G
  BY <1>5
<1> HIDE DEF R, G
<1>7. /\ F \in [1..Cardinality(S) -> S]
      /\ \A x \in S : \E i \in 1..Cardinality(S) : F[i] = x
      /\ \A i, j \in 1..Cardinality(S) : i < j => <<F[i], F[j]>> \in R
  BY <1>1, <1>3, <1>6, Sorted DEF G
<1>8. \A i, j \in 1..Cardinality(S) : i < j => F[i] < F[j]
  BY <1>2, <1>7
<1> QED BY <1>1, <1>7, <1>8
=============================================================================
