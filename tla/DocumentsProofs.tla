-------------------------- MODULE DocumentsProofs --------------------------
(***************************************************************************)
(* What becomes of every source, whatever its size and the settings: no    *)
(* word of a unit is lost between its chunks, rows and chunks come in the  *)
(* order of the source, each under its headings, and every chunk gets the  *)
(* vector of its own text.                                                 *)
(*                                                                         *)
(* Documents is written with folds: FoldExists of FoldProofs finds the     *)
(* function, and each use of a fold then has its own induction along the   *)
(* prefixes.                                                               *)
(***************************************************************************)
EXTENDS Documents, FoldProofs

\* The cursor moves, and never past the end of the window it leaves.
LEMMA StepInWindow ==
    /\ WordsPerChunk \in Nat /\ 1 <= WordsPerChunk
    /\ Step \in Nat /\ 1 <= Step
    /\ Step <= WordsPerChunk
BY ChunkBudget DEF WordsPerChunk, OverlapWords, Step, AtLeastOne

\* The window that is the first to reach beyond a, for steps of d.
LEMMA Quotient ==
    ASSUME NEW a \in Nat, NEW d \in Nat, 1 <= d
    PROVE  \E k \in Nat : k * d <= a /\ a < (k + 1) * d
<1>1. a \div d \in Nat
  OBVIOUS
<1>2. (a \div d) * d <= a /\ a < (a \div d + 1) * d
  OBVIOUS
<1> QED BY <1>1, <1>2

\* A window is where the one before it was one step ago.
LEMMA Shift ==
    ASSUME NEW k \in Nat
    PROVE  /\ k * Step \in Nat
           /\ (k + 1) * Step = k * Step + Step
<1>1. Step \in Nat
  BY StepInWindow
<1>2. /\ k * Step \in Nat
      /\ (k + 1) * Step = k * Step + Step
  BY <1>1
<1> QED BY <1>2

\* No word of a unit is lost: each is in one of the windows that the loop gets to
\* (the step never outruns the window, whatever the budget and the overlap).
THEOREM EveryWordInAWindow ==
    \A n \in Nat : \A w \in 1..n :
      \E k \in Nat : HasWindow(k, n) /\ FirstWord(k) <= w /\ w <= LastWord(k, n)
<1> SUFFICES ASSUME NEW n \in Nat, NEW w \in 1..n
             PROVE  \E k \in Nat :
                      HasWindow(k, n) /\ FirstWord(k) <= w /\ w <= LastWord(k, n)
  OBVIOUS
<1> USE StepInWindow
<1>1. CASE w <= WordsPerChunk
  <2>1. 0 * Step = 0
    OBVIOUS
  <2>2. HasWindow(0, n) /\ FirstWord(0) <= w /\ w <= LastWord(0, n)
    BY <1>1, <2>1 DEF HasWindow, FirstWord, LastWord
  <2> QED BY <2>2
<1>2. CASE WordsPerChunk < w
  \* The words before w that the first window leaves out decide.
  <2> DEFINE a == w - WordsPerChunk - 1
  <2>1. a \in Nat
    BY <1>2
  <2>2. PICK q \in Nat : q * Step <= a /\ a < (q + 1) * Step
    BY <2>1, Quotient
  <2>3. (q + 1) * Step = q * Step + Step /\ q * Step \in Nat
    BY Shift
  <2>4. HasWindow(q + 1, n)
    <3>1. q * Step + WordsPerChunk < n
      BY <2>2, <2>3
    <3>2. (q + 1) - 1 = q
      OBVIOUS
    <3> QED BY <3>1, <3>2 DEF HasWindow
  <2>5. FirstWord(q + 1) <= w
    BY <2>2, <2>3 DEF FirstWord
  <2>6. w <= LastWord(q + 1, n)
    BY <2>2, <2>3 DEF LastWord
  <2> QED BY <2>4, <2>5, <2>6
<1> QED BY <1>1, <1>2

\* The loop goes on only where a window ended before the unit did; the next window
\* begins inside the last one or just after it, and reaches words that no window
\* had: so there are no more windows than words, and the loop ends.
THEOREM WindowsAdvance ==
    \A n, k \in Nat : HasWindow(k + 1, n) =>
      /\ HasWindow(k, n)
      /\ FirstWord(k) < FirstWord(k + 1)
      /\ FirstWord(k + 1) <= LastWord(k, n) + 1
      /\ LastWord(k, n) < LastWord(k + 1, n)
      /\ k + 1 < n
<1> SUFFICES ASSUME NEW n \in Nat, NEW k \in Nat, HasWindow(k + 1, n)
             PROVE  /\ HasWindow(k, n)
                    /\ FirstWord(k) < FirstWord(k + 1)
                    /\ FirstWord(k + 1) <= LastWord(k, n) + 1
                    /\ LastWord(k, n) < LastWord(k + 1, n)
                    /\ k + 1 < n
  OBVIOUS
<1> USE StepInWindow
<1>1. /\ (k + 1) * Step = k * Step + Step
      /\ k * Step \in Nat
  BY Shift
<1>2. k * Step + WordsPerChunk < n
  <2>1. (k + 1) - 1 = k /\ k + 1 # 0
    OBVIOUS
  <2> QED BY <2>1 DEF HasWindow
<1>3. HasWindow(k, n)
  <2>1. CASE k = 0
    BY <1>2, <2>1, <1>1 DEF HasWindow
  <2>2. CASE k # 0
    <3>1. k - 1 \in Nat /\ (k - 1) + 1 = k
      BY <2>2
    <3>2. k * Step = (k - 1) * Step + Step /\ (k - 1) * Step \in Nat
      BY <3>1, Shift
    <3> QED BY <1>1, <1>2, <2>2, <3>2 DEF HasWindow
  <2> QED BY <2>1, <2>2
<1>4. FirstWord(k) < FirstWord(k + 1)
  BY <1>1 DEF FirstWord
<1>5. FirstWord(k + 1) <= LastWord(k, n) + 1
  BY <1>1, <1>2 DEF FirstWord, LastWord
<1>6. LastWord(k, n) < LastWord(k + 1, n)
  BY <1>1, <1>2 DEF LastWord
<1>7. k <= k * Step
  BY <1>1
<1>8. k + 1 < n
  BY <1>2, <1>7
<1> QED BY <1>3, <1>4, <1>5, <1>6, <1>8

-----------------------------------------------------------------------------
(***************************************************************************)
(* Loops over the parts of a source.                                       *)
(***************************************************************************)

\* Those(S, n) lists the numbers of S up to n, in order.
LEMMA ThoseListed ==
    ASSUME NEW S, NEW n \in Nat
    PROVE  /\ Those(S, n) \in Seq(S \cap (1..n))
           /\ ToSet(Those(S, n)) = S \cap (1..n)
           /\ \A i, j \in DOMAIN Those(S, n) : i < j => Those(S, n)[i] < Those(S, n)[j]
<1> DEFINE T == Seq(1..n)
           Body(f, s) == IF s = {} THEN <<>>
                         ELSE IF UpTo(n)[Max(s)] \in S
                              THEN Append(f[s \ {Max(s)}], UpTo(n)[Max(s)])
                              ELSE f[s \ {Max(s)}]
           F == CHOOSE f : f = [s \in SUBSET (DOMAIN UpTo(n)) |-> Body(f, s)]
<1>1. Those(S, n) = F[DOMAIN UpTo(n)]
  BY DEF Those, FoldLeft, MapThenFoldSet
<1>2. DOMAIN UpTo(n) = 1..n /\ \A i \in 1..n : UpTo(n)[i] = i
  BY DEF UpTo
<1>3. \E f : f = [s \in SUBSET (1..n) |-> Body(f, s)]
  <2> DEFINE step == [z \in T \X (1..n) |->
                        IF z[2] \in S THEN Append(z[1], z[2]) ELSE z[1]]
  <2>1. step \in [T \X (1..n) -> T]
    <3>1. ASSUME NEW z \in T \X (1..n)
          PROVE  (IF z[2] \in S THEN Append(z[1], z[2]) ELSE z[1]) \in T
      BY AppendProperties
    <3> QED BY <3>1
  <2>2. <<>> \in T
    OBVIOUS
  <2>3. \A x \in T, k \in 1..n : step[<<x, k>>] = IF k \in S THEN Append(x, k) ELSE x
    OBVIOUS
  <2> HIDE DEF step
  <2>4. PICK f \in [SUBSET (1..n) -> T] : IsFold(f, <<>>, step, n)
    <3>1. step \in StepsOn(T, n)
      BY <2>1 DEF StepsOn
    <3> HIDE DEF T
    <3> QED BY <2>2, <3>1, FoldExists
  <2>5. ASSUME NEW s \in SUBSET (1..n)
        PROVE  f[s] = Body(f, s)
    <3>1. CASE s = {}
      BY <2>4, <3>1 DEF IsFold
    <3>2. CASE s # {}
      <4>1. Max(s) \in s
        BY <3>2, HighestExists
      <4>2. s \ {Max(s)} \in SUBSET (1..n)
        OBVIOUS
      <4>3. f[s \ {Max(s)}] \in T /\ Max(s) \in 1..n
        BY <2>4, <4>1, <4>2
      <4> DEFINE m == Max(s)
                 g == f[s \ {m}]
      <4>4. f[s] = step[<<g, m>>]
        BY <2>4, <3>2 DEF IsFold
      <4>5. step[<<g, m>>] = IF m \in S THEN Append(g, m) ELSE g
        <5> HIDE DEF T, m, g
        <5> QED BY <2>3, <4>3 DEF m, g
      <4>6. UpTo(n)[m] = m
        BY <1>2, <4>3
      <4> HIDE DEF T, m, g
      <4> QED BY <3>2, <4>4, <4>5, <4>6 DEF m, g
    <3> QED BY <3>1, <3>2
  <2>6. f = [s \in SUBSET (1..n) |-> Body(f, s)]
    <3> HIDE DEF Body, T
    <3> QED BY <2>4, <2>5
  <2> QED BY <2>6
<1>4. F = [s \in SUBSET (1..n) |-> Body(F, s)]
  <2> HIDE DEF Body
  <2> QED BY <1>2, <1>3
<1> HIDE DEF F
<1>5. F[{}] = <<>>
  BY <1>4
<1>6. ASSUME NEW k \in 0..(n - 1)
      PROVE  F[1..(k + 1)] = IF k + 1 \in S THEN Append(F[1..k], k + 1) ELSE F[1..k]
  <2>1. F[1..(k + 1)] = Body(F, 1..(k + 1))
    <3> HIDE DEF Body
    <3> QED BY <1>4, Prefix
  <2>2. UpTo(n)[k + 1] = k + 1
    BY <1>2
  <2>3. /\ 1..(k + 1) # {} /\ Max(1..(k + 1)) = k + 1
        /\ 1..(k + 1) \ {Max(1..(k + 1))} = 1..k
    BY Prefix
  <2> DEFINE top == 1..(k + 1)
             rest == 1..k
  <2>4. F[top] = IF top = {} THEN <<>>
                 ELSE IF UpTo(n)[Max(top)] \in S
                      THEN Append(F[top \ {Max(top)}], UpTo(n)[Max(top)])
                      ELSE F[top \ {Max(top)}]
    BY <2>1
  <2>5. top # {} /\ Max(top) = k + 1 /\ top \ {Max(top)} = rest
    BY <2>3
  <2> HIDE DEF top, rest
  <2>6. F[top] = IF k + 1 \in S THEN Append(F[rest], k + 1) ELSE F[rest]
    BY <2>2, <2>4, <2>5
  <2> QED BY <2>6 DEF top, rest
<1> HIDE DEF Body
<1> DEFINE Lists(q, k) ==
             /\ q \in Seq(S \cap (1..k))
             /\ \A x \in S \cap (1..k) : \E i \in 1..Len(q) : q[i] = x
             /\ \A i, j \in 1..Len(q) : i < j => q[i] < q[j]
           Good == {k \in Nat : k <= n => Lists(F[1..k], k)}
<1>7. 0 \in Good
  <2>1. 1..0 = {}
    OBVIOUS
  <2>2. Lists(<<>>, 0)
    <3>1. Len(<<>>) = 0 /\ <<>> \in Seq(S \cap (1..0))
      BY EmptySeq
    <3> QED BY <2>1, <3>1
  <2>3. F[1..0] = <<>>
    BY <1>5, <2>1
  <2> HIDE DEF Lists
  <2> QED BY <2>2, <2>3
<1>8. ASSUME NEW k \in Nat, k \in Good
      PROVE  k + 1 \in Good
  <2> DEFINE q == F[1..k]
             p == F[1..(k + 1)]
  <2> SUFFICES ASSUME k + 1 <= n PROVE Lists(p, k + 1)
    <3> HIDE DEF Lists
    <3> QED OBVIOUS
  <2>1. Lists(q, k)
    <3> HIDE DEF Lists
    <3>1. k <= n
      OBVIOUS
    <3> QED BY <1>8, <3>1
  <2>2. p = IF k + 1 \in S THEN Append(q, k + 1) ELSE q
    BY <1>6
  <2> HIDE DEF p, q
  <2>3. CASE k + 1 \notin S
    <3>1. S \cap (1..(k + 1)) = S \cap (1..k)
      BY <2>3
    <3> QED BY <2>1, <2>2, <2>3, <3>1
  <2>4. CASE k + 1 \in S
    <3> DEFINE A == S \cap (1..k)
               B == S \cap (1..(k + 1))
    <3>1. q \in Seq(B) /\ k + 1 \in B /\ q \in Seq(A) /\ Len(q) \in Nat
      <4>1. A \subseteq B
        OBVIOUS
      <4>2. q \in Seq(A)
        BY <2>1
      <4> HIDE DEF A, B
      <4>3. q \in Seq(B)
        BY <4>1, <4>2, SeqMonotonic
      <4> QED BY <2>4, <4>2, <4>3, LenProperties DEF B
    <3>2. /\ p \in Seq(B) /\ Len(p) = Len(q) + 1
          /\ \A i \in 1..Len(q) : p[i] = q[i]
          /\ p[Len(q) + 1] = k + 1
      <4> HIDE DEF A, B
      <4> QED BY <2>2, <2>4, <3>1, AppendProperties
    <3>3. ASSUME NEW x \in B
          PROVE  \E i \in 1..Len(p) : p[i] = x
      <4>1. CASE x = k + 1
        BY <3>1, <3>2, <4>1
      <4>2. CASE x # k + 1
        <5>1. x \in A
          BY <4>2
        <5>2. PICK i \in 1..Len(q) : q[i] = x
          BY <2>1, <5>1
        <5> QED BY <3>1, <3>2, <5>2
      <4> QED BY <4>1, <4>2
    <3>4. ASSUME NEW i \in 1..Len(p), NEW j \in 1..Len(p), i < j
          PROVE  p[i] < p[j]
      <4>1. i \in 1..Len(q)
        BY <3>1, <3>2, <3>4
      <4>2. q[i] \in A
        <5> HIDE DEF A
        <5> QED BY <3>1, <4>1, ElementOfSeq
      <4>3. CASE j = Len(q) + 1
        BY <3>2, <4>1, <4>2, <4>3
      <4>4. CASE j # Len(q) + 1
        <5>1. j \in 1..Len(q)
          BY <3>1, <3>2, <4>4
        <5> QED BY <2>1, <3>2, <3>4, <4>1, <5>1
      <4> QED BY <4>3, <4>4
    <3> QED BY <3>2, <3>3, <3>4
  <2> QED BY <2>3, <2>4
<1>9. n \in Good
  <2> HIDE DEF Good
  <2> QED BY <1>7, <1>8, Induction
<1>10. Lists(F[1..n], n)
  <2> HIDE DEF Lists
  <2> QED BY <1>9
<1> DEFINE q == Those(S, n)
<1>11. Lists(q, n)
  <2> HIDE DEF Lists
  <2> QED BY <1>1, <1>2, <1>10
<1> HIDE DEF q
<1>12. DOMAIN q = 1..Len(q) /\ \A i \in 1..Len(q) : q[i] \in S \cap (1..n)
  <2>1. q \in Seq(S \cap (1..n))
    BY <1>11
  <2> QED BY <2>1, LenProperties, ElementOfSeq
<1>13. ToSet(q) = S \cap (1..n)
  <2>1. \A x \in S \cap (1..n) : x \in ToSet(q)
    BY <1>11, <1>12 DEF ToSet
  <2>2. \A x \in ToSet(q) : x \in S \cap (1..n)
    BY <1>12 DEF ToSet
  <2> QED BY <2>1, <2>2
<1> QED BY <1>11, <1>12, <1>13 DEF q

\* q is made of the sequences of seqs up to the k-th, in order.
IsJoined(q, seqs, k, S) ==
    /\ q \in Seq(S)
    /\ \A u \in 1..k : \A i \in 1..Len(seqs[u]) : \E j \in 1..Len(q) : q[j] = seqs[u][i]
    /\ \A j \in 1..Len(q) : \E u \in 1..k : \E i \in 1..Len(seqs[u]) : q[j] = seqs[u][i]
    /\ \A j, l \in 1..Len(q) : j < l =>
         \E u, v \in 1..k : \E i \in 1..Len(seqs[u]), m \in 1..Len(seqs[v]) :
           /\ q[j] = seqs[u][i] /\ q[l] = seqs[v][m]
           /\ (u < v \/ (u = v /\ i < m))

\* One more sequence is joined on.
LEMMA JoinOne ==
    ASSUME NEW S, NEW seqs, NEW k \in Nat, NEW q, IsJoined(q, seqs, k, S),
           seqs[k + 1] \in Seq(S), \A u \in 1..k : seqs[u] \in Seq(S)
    PROVE  IsJoined(q \o seqs[k + 1], seqs, k + 1, S)
<1> DEFINE t == seqs[k + 1]
           p == q \o t
<1>1. q \in Seq(S) /\ t \in Seq(S) /\ Len(q) \in Nat /\ Len(t) \in Nat
  BY LenProperties DEF IsJoined
<1>2. /\ p \in Seq(S) /\ Len(p) = Len(q) + Len(t)
      /\ \A i \in 1..Len(q) : p[i] = q[i]
      /\ \A i \in 1..Len(t) : p[Len(q) + i] = t[i]
  <2> HIDE DEF t
  <2>1. /\ p \in Seq(S) /\ Len(p) = Len(q) + Len(t)
        /\ \A i \in 1..Len(q) + Len(t) : p[i] = IF i <= Len(q) THEN q[i] ELSE t[i - Len(q)]
    BY <1>1, ConcatProperties
  <2> HIDE DEF p
  <2>2. ASSUME NEW i \in 1..Len(t)
        PROVE  p[Len(q) + i] = t[i]
    <3>1. Len(q) + i \in 1..Len(q) + Len(t) /\ ~(Len(q) + i <= Len(q))
      BY <1>1
    <3>2. (Len(q) + i) - Len(q) = i
      BY <1>1
    <3> QED BY <2>1, <3>1, <3>2
  <2> QED BY <1>1, <2>1, <2>2
<1> HIDE DEF p
<1>3. ASSUME NEW u \in 1..(k + 1), NEW i \in 1..Len(seqs[u])
      PROVE  \E j \in 1..Len(p) : p[j] = seqs[u][i]
  <2>1. CASE u = k + 1
    <3>1. i \in 1..Len(t)
      BY <2>1
    <3>2. Len(q) + i \in 1..Len(p) /\ p[Len(q) + i] = t[i]
      <4> HIDE DEF t
      <4> QED BY <1>1, <1>2, <3>1
    <3> QED BY <2>1, <3>2
  <2>2. CASE u # k + 1
    <3>1. u \in 1..k
      BY <2>2
    <3>2. PICK j \in 1..Len(q) : q[j] = seqs[u][i]
      BY <3>1 DEF IsJoined
    <3>3. j \in 1..Len(p) /\ p[j] = q[j]
      <4> HIDE DEF t
      <4> QED BY <1>1, <1>2
    <3> QED BY <3>2, <3>3
  <2> QED BY <2>1, <2>2
\* A place of p is one of q, or one of the last sequence.
<1>4. ASSUME NEW j \in 1..Len(p)
      PROVE  \/ j \in 1..Len(q) /\ p[j] = q[j]
             \/ /\ Len(q) < j /\ j - Len(q) \in 1..Len(t)
                /\ p[j] = t[j - Len(q)]
  <2> HIDE DEF t
  <2>1. CASE j <= Len(q)
    BY <1>1, <1>2, <2>1
  <2>2. CASE Len(q) < j
    <3>1. j - Len(q) \in 1..Len(t) /\ Len(q) + (j - Len(q)) = j
      BY <1>1, <1>2, <2>2
    <3> QED BY <1>2, <2>2, <3>1
  <2> QED BY <1>1, <2>1, <2>2
<1>5. ASSUME NEW j \in 1..Len(p)
      PROVE  \E u \in 1..(k + 1) : \E i \in 1..Len(seqs[u]) : p[j] = seqs[u][i]
  <2>1. CASE j \in 1..Len(q) /\ p[j] = q[j]
    <3>1. PICK u \in 1..k : \E i \in 1..Len(seqs[u]) : q[j] = seqs[u][i]
      BY <2>1 DEF IsJoined
    <3>2. u \in 1..(k + 1)
      OBVIOUS
    <3> QED BY <2>1, <3>1, <3>2
  <2>2. CASE j - Len(q) \in 1..Len(t) /\ p[j] = t[j - Len(q)]
    <3>1. k + 1 \in 1..(k + 1)
      OBVIOUS
    <3> QED BY <2>2, <3>1
  <2> QED BY <1>4, <2>1, <2>2
<1>6. ASSUME NEW j \in 1..Len(p), NEW l \in 1..Len(p), j < l
      PROVE  \E u, v \in 1..(k + 1) : \E i \in 1..Len(seqs[u]), m \in 1..Len(seqs[v]) :
               /\ p[j] = seqs[u][i] /\ p[l] = seqs[v][m]
               /\ (u < v \/ (u = v /\ i < m))
  <2>1. CASE l \in 1..Len(q) /\ p[l] = q[l]
    <3>1. j \in 1..Len(q) /\ p[j] = q[j]
      <4>1. j \in 1..Len(q)
        BY <1>1, <1>6, <2>1
      <4> QED BY <1>2, <4>1
    <3>2. PICK u \in 1..k, v \in 1..k : \E i \in 1..Len(seqs[u]), m \in 1..Len(seqs[v]) :
               /\ q[j] = seqs[u][i] /\ q[l] = seqs[v][m]
               /\ (u < v \/ (u = v /\ i < m))
      BY <1>6, <2>1, <3>1 DEF IsJoined
    <3>3. u \in 1..(k + 1) /\ v \in 1..(k + 1)
      OBVIOUS
    <3>4. PICK i \in 1..Len(seqs[u]), m \in 1..Len(seqs[v]) :
               /\ q[j] = seqs[u][i] /\ q[l] = seqs[v][m]
               /\ (u < v \/ (u = v /\ i < m))
      BY <3>2
    <3>5. p[j] = seqs[u][i] /\ p[l] = seqs[v][m]
      BY <2>1, <3>1, <3>4
    <3> QED BY <3>3, <3>4, <3>5
  <2>2. CASE l - Len(q) \in 1..Len(t) /\ p[l] = t[l - Len(q)] /\ Len(q) < l
    <3>1. k + 1 \in 1..(k + 1)
      OBVIOUS
    <3>2. CASE j \in 1..Len(q) /\ p[j] = q[j]
      <4>1. PICK u \in 1..k : \E i \in 1..Len(seqs[u]) : q[j] = seqs[u][i]
        BY <3>2 DEF IsJoined
      <4>2. PICK i \in 1..Len(seqs[u]) : q[j] = seqs[u][i]
        BY <4>1
      <4>3. u \in 1..(k + 1) /\ u < k + 1
        OBVIOUS
      <4>4. p[j] = seqs[u][i] /\ p[l] = seqs[k + 1][l - Len(q)]
        BY <2>2, <3>2, <4>2
      <4> DEFINE m == l - Len(q)
                 last == k + 1
      <4>5. m \in 1..Len(seqs[last]) /\ last \in 1..(k + 1) /\ u < last /\ p[l] = seqs[last][m]
        BY <2>2, <3>1, <4>3, <4>4
      <4> HIDE DEF m, last
      <4>6. \E x \in 1..Len(seqs[u]), y \in 1..Len(seqs[last]) :
              /\ p[j] = seqs[u][x] /\ p[l] = seqs[last][y]
              /\ (u < last \/ (u = last /\ x < y))
        <5> HIDE DEF t
        <5> QED BY <4>4, <4>5
      <4> QED BY <4>3, <4>5, <4>6
    <3>3. CASE j - Len(q) \in 1..Len(t) /\ p[j] = t[j - Len(q)]
      <4>1. j - Len(q) < l - Len(q)
        BY <1>1, <1>6
      <4> QED BY <2>2, <3>1, <3>3, <4>1
    <3> QED BY <1>4, <3>2, <3>3
  <2> QED BY <1>4, <2>1, <2>2
<1>7. IsJoined(p, seqs, k + 1, S)
  BY <1>2, <1>3, <1>5, <1>6 DEF IsJoined
<1> QED BY <1>7 DEF p

\* FlattenSeq joins the sequences of seqs.
LEMMA Flattened ==
    ASSUME NEW S, NEW seqs \in Seq(Seq(S))
    PROVE  IsJoined(FlattenSeq(seqs), seqs, Len(seqs), S)
<1> DEFINE n == Len(seqs)
           Body(f, i) == IF i = 1 THEN seqs[i] ELSE f[i - 1] \o seqs[i]
           F == CHOOSE f : f = [i \in 1..n |-> Body(f, i)]
<1>1. n \in Nat /\ DOMAIN seqs = 1..n /\ \A u \in 1..n : seqs[u] \in Seq(S)
  BY LenProperties, ElementOfSeq
<1>2. CASE n = 0
  <2>1. seqs = <<>>
    BY <1>2
  <2>2. FlattenSeq(seqs) = <<>>
    BY <1>2, <2>1, Zenon DEF FlattenSeq
  <2>3. <<>> \in Seq(S) /\ Len(<<>>) = 0
    OBVIOUS
  <2>4. 1..0 = {}
    OBVIOUS
  <2>5. IsJoined(<<>>, seqs, 0, S)
    BY <2>3, <2>4 DEF IsJoined
  <2> QED BY <1>2, <2>2, <2>5
<1>3. CASE n # 0
  <2>1. FlattenSeq(seqs) = F[n]
    BY <1>3, Zenon DEF FlattenSeq
  <2>2. \E f : f = [i \in 1..n |-> Body(f, i)]
    <3> DEFINE Solves(f, k) == f = [i \in 1..k |-> Body(f, i)]
               Good == {k \in Nat : k <= n => \E f : Solves(f, k)}
    <3>1. 0 \in Good
      <4>1. 1..0 = {}
        OBVIOUS
      <4>2. Solves([i \in 1..0 |-> 0], 0)
        BY <4>1
      <4> HIDE DEF Solves
      <4> QED BY <4>2
    <3>2. ASSUME NEW k \in Nat, k \in Good
          PROVE  k + 1 \in Good
      <4> SUFFICES ASSUME k + 1 <= n PROVE \E h : Solves(h, k + 1)
        <5> HIDE DEF Solves
        <5> QED OBVIOUS
      <4>1. PICK f : Solves(f, k)
        <5> HIDE DEF Solves
        <5>1. k <= n
          BY <1>1
        <5> QED BY <3>2, <5>1
      <4> DEFINE g == [i \in 1..(k + 1) |-> Body(f, i)]
      <4>2. ASSUME NEW i \in 1..(k + 1)
            PROVE  Body(f, i) = Body(g, i)
        <5>1. CASE i = 1
          BY <5>1
        <5>2. CASE i # 1
          <6>1. i - 1 \in 1..k /\ i - 1 \in 1..(k + 1)
            BY <5>2
          <6>2. g[i - 1] = Body(f, i - 1) /\ f[i - 1] = Body(f, i - 1)
            <7> HIDE DEF Body
            <7> QED BY <4>1, <6>1
          <6> HIDE DEF g
          <6> QED BY <5>2, <6>2
        <5> QED BY <5>1, <5>2
      <4>3. Solves(g, k + 1)
        <5>1. g = [i \in 1..(k + 1) |-> Body(g, i)]
          <6> HIDE DEF Body
          <6> QED BY <4>2
        <5> QED BY <5>1
      <4> HIDE DEF Solves, g
      <4> QED BY <4>3
    <3>3. n \in Good
      <4> HIDE DEF Good, n
      <4> QED BY <1>1, <3>1, <3>2, Induction
    <3> HIDE DEF Body, n
    <3> QED BY <3>3
  <2>3. F = [i \in 1..n |-> Body(F, i)]
    <3> HIDE DEF Body, n
    <3> QED BY <2>2
  <2> HIDE DEF F
  <2>4. F[1] = seqs[1]
    <3>1. 1 \in 1..n
      BY <1>1, <1>3
    <3>2. F[1] = Body(F, 1)
      <4> HIDE DEF Body, n
      <4> QED BY <2>3, <3>1
    <3> QED BY <3>2
  <2>5. ASSUME NEW k \in 1..(n - 1)
        PROVE  F[k + 1] = F[k] \o seqs[k + 1]
    <3>1. k + 1 \in 1..n /\ k + 1 # 1 /\ (k + 1) - 1 = k
      BY <1>1
    <3>2. F[k + 1] = Body(F, k + 1)
      <4> HIDE DEF Body, n
      <4> QED BY <2>3, <3>1
    <3> QED BY <3>1, <3>2
  <2> HIDE DEF Body
  <2> DEFINE Good == {k \in Nat : k + 1 <= n => IsJoined(F[k + 1], seqs, k + 1, S)}
  <2>6. IsJoined(<<>>, seqs, 0, S)
    <3>1. <<>> \in Seq(S) /\ Len(<<>>) = 0
      OBVIOUS
    <3>2. 1..0 = {}
      OBVIOUS
    <3> QED BY <3>1, <3>2 DEF IsJoined
  <2>7. 0 \in Good
    <3>1. 1 \in 1..n /\ 0 + 1 = 1
      BY <1>1, <1>3
    <3>2. seqs[1] \in Seq(S) /\ <<>> \o seqs[1] = seqs[1]
      BY <1>1, <3>1, ConcatEmptySeq
    <3>3. \A u \in 1..0 : seqs[u] \in Seq(S)
      OBVIOUS
    <3>4. IsJoined(<<>> \o seqs[0 + 1], seqs, 0 + 1, S)
      BY <2>6, <3>1, <3>2, <3>3, JoinOne
    <3> QED BY <2>4, <3>1, <3>2, <3>4
  <2>8. ASSUME NEW k \in Nat, k \in Good
        PROVE  k + 1 \in Good
    <3> SUFFICES ASSUME k + 2 <= n
                 PROVE  IsJoined(F[(k + 1) + 1], seqs, (k + 1) + 1, S)
      <4>1. (k + 1) + 1 = k + 2 /\ k + 1 \in Nat
        OBVIOUS
      <4> HIDE DEF n
      <4> QED BY <4>1
    <3>1. k + 1 <= n /\ k + 1 \in 1..(n - 1) /\ k + 1 \in Nat /\ (k + 1) + 1 \in 1..n
      BY <1>1
    <3>2. F[(k + 1) + 1] = F[k + 1] \o seqs[(k + 1) + 1]
      BY <2>5, <3>1
    <3>3. \A u \in 1..(k + 1) : seqs[u] \in Seq(S)
      BY <1>1, <3>1
    <3>4. seqs[(k + 1) + 1] \in Seq(S)
      BY <1>1, <3>1
    <3>5. IsJoined(F[k + 1], seqs, k + 1, S)
      BY <2>8, <3>1
    <3>6. IsJoined(F[k + 1] \o seqs[(k + 1) + 1], seqs, (k + 1) + 1, S)
      BY <3>1, <3>3, <3>4, <3>5, JoinOne
    <3> QED BY <3>2, <3>6
  <2>9. n - 1 \in Good
    <3>1. n - 1 \in Nat
      BY <1>1, <1>3
    <3> HIDE DEF Good
    <3> QED BY <2>7, <2>8, <3>1, Induction
  <2>10. (n - 1) + 1 = n
    BY <1>1
  <2>11. n - 1 \in Nat /\ (n - 1) + 1 <= n
    BY <1>1, <1>3
  <2>12. IsJoined(F[n], seqs, n, S)
    <3> HIDE DEF n
    <3> QED BY <2>9, <2>10, <2>11
  <2> QED BY <2>1, <2>12
<1> QED BY <1>2, <1>3

\* A sequence is one of its own elements.
LEMMA OwnElements ==
    ASSUME NEW S, NEW q \in Seq(S)
    PROVE  q \in Seq(ToSet(q))
<1>1. Len(q) \in Nat /\ DOMAIN q = 1..Len(q) /\ q = [i \in 1..Len(q) |-> q[i]]
  BY LenProperties
<1>2. \A i \in 1..Len(q) : q[i] \in ToSet(q)
  BY <1>1 DEF ToSet
<1> QED BY <1>1, <1>2

-----------------------------------------------------------------------------
(***************************************************************************)
(* Workbooks.                                                              *)
(***************************************************************************)

\* A stable key for every row that is normalized, or none at all.
LEMMA StableKeysListed ==
    ASSUME NEW workbook \in Workbook
    PROVE  StableKeys(workbook) \in Seq(ToSet(StableKeys(workbook)))
<1> DEFINE keys == [n \in DOMAIN workbook |->
                      [j \in DOMAIN Rows(workbook[n]) |->
                         StableKey(workbook[n], Rows(workbook[n])[j])]]
           S == UNION {{keys[n][j] : j \in DOMAIN keys[n]} : n \in DOMAIN keys}
<1>1. workbook \in Seq([title : STRING, header : BOOLEAN, rows : Seq(STRING)])
  BY DEF Workbook
<1>2. ASSUME NEW n \in DOMAIN workbook
      PROVE  keys[n] \in Seq(S)
  <2>1. workbook[n] \in [title : STRING, header : BOOLEAN, rows : Seq(STRING)]
    BY <1>1, LenProperties, ElementOfSeq
  <2>2. Len(workbook[n].rows) \in Nat
    BY <2>1, LenProperties
  <2>3. \E k \in Nat : DOMAIN Rows(workbook[n]) = 1..k
    <3>1. CASE workbook[n].header
      <4> DEFINE wanted == {i \in DOMAIN workbook[n].rows :
                              workbook[n].rows[i] \notin {"blank", "anonymous"}}
      <4>1. Rows(workbook[n]) = Those(wanted, Len(workbook[n].rows))
        BY <3>1 DEF Rows
      <4> HIDE DEF wanted
      <4>2. Rows(workbook[n]) \in Seq(wanted \cap (1..Len(workbook[n].rows)))
        BY <2>2, <4>1, ThoseListed
      <4> QED BY <4>2, LenProperties
    <3>2. CASE ~workbook[n].header
      <4>1. Rows(workbook[n]) = <<>>
        BY <3>2 DEF Rows
      <4>2. DOMAIN <<>> = 1..0
        OBVIOUS
      <4> QED BY <4>1, <4>2
    <3> QED BY <3>1, <3>2
  <2>4. PICK k \in Nat : DOMAIN Rows(workbook[n]) = 1..k
    BY <2>3
  <2>5. keys[n] = [j \in 1..k |-> StableKey(workbook[n], Rows(workbook[n])[j])]
    BY <2>4
  <2>6. DOMAIN keys[n] = 1..k /\ n \in DOMAIN keys
    BY <2>5
  <2>7. \A j \in 1..k : keys[n][j] \in S
    <3> HIDE DEF keys
    <3> QED BY <2>6
  <2>8. keys[n] = [j \in 1..k |-> keys[n][j]]
    BY <2>5
  <2> HIDE DEF S, keys
  <2> QED BY <2>7, <2>8
<1>3. keys \in Seq(Seq(S))
  <2>1. DOMAIN workbook = 1..Len(workbook) /\ Len(workbook) \in Nat
    BY <1>1, LenProperties
  <2>2. keys = [n \in 1..Len(workbook) |-> keys[n]]
    BY <2>1
  <2>3. \A n \in 1..Len(workbook) : keys[n] \in Seq(S)
    <3> HIDE DEF keys, S
    <3> QED BY <1>2, <2>1
  <2> HIDE DEF keys, S
  <2> QED BY <2>1, <2>2, <2>3
<1>4. \/ StableKeys(workbook) = <<>>
      \/ StableKeys(workbook) = FlattenSeq(keys)
  BY DEF StableKeys
<1>5. StableKeys(workbook) \in Seq(S)
  <2>1. FlattenSeq(keys) \in Seq(S)
    <3> HIDE DEF keys, S
    <3> QED BY <1>3, Flattened DEF IsJoined
  <2>2. <<>> \in Seq(S)
    OBVIOUS
  <2> HIDE DEF keys, S
  <2> QED BY <1>4, <2>1, <2>2
<1> HIDE DEF S, keys
<1>6. QED
  BY <1>5, LenProperties, OwnElements

-----------------------------------------------------------------------------
(***************************************************************************)
(* Pages.                                                                  *)
(***************************************************************************)

\* A node of a page.
LEMMA NodeTyped ==
    ASSUME NEW page \in Page
    PROVE  /\ Len(page) \in Nat /\ DOMAIN page = 1..Len(page)
           /\ \A n \in 1..Len(page) : page[n].level \in 0..6 /\ page[n].words \in Nat
<1>1. page \in Seq([level : 0..6, words : Nat])
  BY DEF Page
<1>2. \A n \in 1..Len(page) : page[n] \in [level : 0..6, words : Nat]
  BY <1>1, ElementOfSeq
<1> QED BY <1>1, <1>2, LenProperties

\* The path after each node, one node at a time.
LEMMA PathSteps ==
    ASSUME NEW page \in Page, NEW n \in 0..Len(page)
    PROVE  \E r \in [0..n -> Seq(1..n)] :
             /\ r[0] = <<>>
             /\ \A k \in 0..(n - 1) :
                  r[k + 1] = IF IsHeading(page[k + 1])
                             THEN Append(Cut(r[k], page[k + 1].level), k + 1)
                             ELSE r[k]
             /\ Path(page, n) = r[n]
<1> DEFINE T == Seq(1..n)
           Op(q, m) == IF IsHeading(page[m]) THEN Append(Cut(q, page[m].level), m) ELSE q
           Body(f, s) == IF s = {} THEN <<>> ELSE Op(f[s \ {Max(s)}], UpTo(n)[Max(s)])
           F == CHOOSE f : f = [s \in SUBSET (DOMAIN UpTo(n)) |-> Body(f, s)]
<1>0. n \in Nat
  BY NodeTyped
<1>1. Path(page, n) = F[DOMAIN UpTo(n)]
  BY DEF Path, FoldLeft, MapThenFoldSet
<1>2. DOMAIN UpTo(n) = 1..n /\ \A i \in 1..n : UpTo(n)[i] = i
  BY DEF UpTo
<1>3. ASSUME NEW q \in T, NEW m \in 1..n
      PROVE  Op(q, m) \in T
  <2>1. CASE IsHeading(page[m])
    <3> DEFINE level == page[m].level
               cut == Cut(q, level)
               top == IF level - 1 < Len(q) THEN level - 1 ELSE Len(q)
    <3>1. level \in 0..6 /\ Len(q) \in Nat
      BY NodeTyped, LenProperties
    <3>2. \A i \in 1..Len(q) : q[i] \in 1..n
      BY ElementOfSeq
    <3>3. top \in Int /\ top <= Len(q)
      <4> HIDE DEF level
      <4> QED BY <3>1
    <3>4. \A i \in 1..top : q[i] \in 1..n
      <4> HIDE DEF top
      <4> QED BY <3>1, <3>2, <3>3
    <3>5. cut = SubSeq(q, 1, top)
      BY DEF Cut
    <3>6. cut \in Seq(1..n)
      <4> HIDE DEF top, cut
      <4> QED BY <3>3, <3>4, <3>5, SubSeqProperties
    <3> HIDE DEF cut
    <3>7. Append(cut, m) \in Seq(1..n)
      BY <3>6, AppendProperties
    <3> QED BY <2>1, <3>7 DEF cut
  <2>2. CASE ~IsHeading(page[m])
    BY <2>2
  <2> QED BY <2>1, <2>2
<1>4. <<>> \in T
  OBVIOUS
<1> HIDE DEF T, Op
<1>5. \E f \in [SUBSET (1..n) -> T] : f = [s \in SUBSET (1..n) |-> Body(f, s)]
  <2> DEFINE step == [z \in T \X (1..n) |-> Op(z[1], z[2])]
  <2>1. step \in StepsOn(T, n)
    BY <1>3 DEF StepsOn
  <2>2. \A q \in T, m \in 1..n : step[<<q, m>>] = Op(q, m)
    OBVIOUS
  <2> HIDE DEF step
  <2>3. PICK f \in [SUBSET (1..n) -> T] : IsFold(f, <<>>, step, n)
    BY <1>0, <1>4, <2>1, FoldExists
  <2>4. ASSUME NEW s \in SUBSET (1..n)
        PROVE  f[s] = Body(f, s)
    <3>1. CASE s = {}
      BY <2>3, <3>1 DEF IsFold
    <3>2. CASE s # {}
      <4>1. Max(s) \in s
        BY <1>0, <3>2, HighestExists
      <4> DEFINE m == Max(s)
                 g == f[s \ {m}]
      <4>2. s \ {m} \in SUBSET (1..n)
        OBVIOUS
      <4>3. g \in T /\ m \in 1..n
        BY <2>3, <4>1, <4>2
      <4>4. f[s] = step[<<g, m>>]
        BY <2>3, <3>2 DEF IsFold
      <4>5. UpTo(n)[m] = m
        BY <1>2, <4>3
      <4> HIDE DEF m, g
      <4>6. step[<<g, m>>] = Op(g, m)
        BY <2>2, <4>3
      <4> QED BY <3>2, <4>4, <4>5, <4>6 DEF m, g
    <3> QED BY <3>1, <3>2
  <2>5. f = [s \in SUBSET (1..n) |-> Body(f, s)]
    <3> HIDE DEF Body
    <3> QED BY <2>3, <2>4
  <2> QED BY <2>5
<1>6. F = [s \in SUBSET (1..n) |-> Body(F, s)]
  <2> HIDE DEF Body
  <2> QED BY <1>2, <1>5
<1> HIDE DEF F
<1>7. F[{}] = <<>>
  BY <1>6
<1>8. ASSUME NEW k \in 0..(n - 1)
      PROVE  F[1..(k + 1)] = Op(F[1..k], k + 1)
  <2> DEFINE top == 1..(k + 1)
             rest == 1..k
  <2>1. /\ top # {} /\ Max(top) = k + 1 /\ top \ {Max(top)} = rest
        /\ top \in SUBSET (1..n) /\ k + 1 \in 1..n
    BY <1>0, Prefix
  <2>2. UpTo(n)[k + 1] = k + 1
    BY <1>2, <2>1
  <2> HIDE DEF top, rest
  <2>3. F[top] = Body(F, top)
    <3> HIDE DEF Body
    <3> QED BY <1>6, <2>1
  <2>4. F[top] = Op(F[rest], k + 1)
    BY <2>1, <2>2, <2>3
  <2> QED BY <2>4 DEF top, rest
<1> DEFINE r == [k \in 0..n |-> F[1..k]]
           Good == {k \in Nat : k <= n => F[1..k] \in T}
<1>9. \A k \in 0..n : F[1..k] \in T
  <2>1. 0 \in Good
    <3>1. 1..0 = {}
      OBVIOUS
    <3> QED BY <1>4, <1>7, <3>1
  <2>2. ASSUME NEW k \in Nat, k \in Good
        PROVE  k + 1 \in Good
    <3> SUFFICES ASSUME k + 1 <= n PROVE F[1..(k + 1)] \in T
      OBVIOUS
    <3>1. k \in 0..(n - 1) /\ k + 1 \in 1..n /\ k <= n
      BY <1>0
    <3>2. F[1..k] \in T
      BY <2>2, <3>1
    <3> QED BY <1>3, <1>8, <3>1, <3>2
  <2>3. \A k \in Nat : k \in Good
    <3> HIDE DEF Good
    <3> QED BY <2>1, <2>2, Induction
  <2> QED BY <1>0, <2>3
<1>10. r \in [0..n -> T]
  BY <1>9
<1>11. r[0] = <<>>
  <2>1. 1..0 = {} /\ 0 \in 0..n
    BY <1>0
  <2> QED BY <1>7, <2>1
<1>12. \A k \in 0..(n - 1) : r[k + 1] = Op(r[k], k + 1)
  <2> SUFFICES ASSUME NEW k \in 0..(n - 1) PROVE r[k + 1] = Op(r[k], k + 1)
    OBVIOUS
  <2>1. k \in 0..n /\ k + 1 \in 0..n
    BY <1>0
  <2> QED BY <1>8, <2>1
<1>13. Path(page, n) = r[n]
  <2>1. n \in 0..n
    BY <1>0
  <2> QED BY <1>1, <1>2, <2>1
<1> HIDE DEF r
<1> QED BY <1>10, <1>11, <1>12, <1>13 DEF T, Op

\* Two lists of the same numbers, both in order, are the same.
LEMMA SameList ==
    ASSUME NEW n \in Nat, NEW p \in Seq(1..n), NEW q \in Seq(1..n), ToSet(p) = ToSet(q),
           \A i, j \in 1..Len(p) : i < j => p[i] < p[j],
           \A i, j \in 1..Len(q) : i < j => q[i] < q[j]
    PROVE  p = q
<1>1. /\ Len(p) \in Nat /\ DOMAIN p = 1..Len(p) /\ Len(q) \in Nat /\ DOMAIN q = 1..Len(q)
      /\ \A i \in 1..Len(p) : p[i] \in 1..n
      /\ \A i \in 1..Len(q) : q[i] \in 1..n
  BY LenProperties, ElementOfSeq
<1>2. /\ \A i \in 1..Len(p) : \E j \in 1..Len(q) : q[j] = p[i]
      /\ \A i \in 1..Len(q) : \E j \in 1..Len(p) : p[j] = q[i]
  BY <1>1 DEF ToSet
<1> DEFINE Agree(k) == \A i \in 1..k :
                         /\ i <= Len(p) => i <= Len(q) /\ p[i] = q[i]
                         /\ i <= Len(q) => i <= Len(p)
           Good == {k \in Nat : Agree(k)}
<1>3. 0 \in Good
  OBVIOUS
<1>4. ASSUME NEW k \in Nat, k \in Good
      PROVE  k + 1 \in Good
  <2>1. Agree(k)
    <3> HIDE DEF Agree
    <3> QED BY <1>4
  <2> DEFINE i == k + 1
  <2>2. i \in Nat /\ i >= 1 /\ k < i
    OBVIOUS
  <2>3. ASSUME i <= Len(p)
        PROVE  i <= Len(q) /\ q[i] <= p[i]
    <3>1. i \in 1..Len(p)
      BY <2>3
    <3>2. PICK j \in 1..Len(q) : q[j] = p[i]
      BY <1>2, <3>1
    <3>3. ASSUME j < i PROVE FALSE
      <4>1. j \in 1..k /\ j <= Len(p) /\ j \in 1..Len(p)
        BY <1>1, <2>3, <3>3
      <4>2. p[j] = q[j]
        BY <2>1, <4>1
      <4>3. p[j] < p[i] /\ p[j] \in 1..n /\ p[i] \in 1..n
        BY <1>1, <3>1, <3>3, <4>1
      <4> QED BY <3>2, <4>2, <4>3
    <3>4. i <= j
      BY <1>1, <2>2, <3>3
    <3>5. CASE i = j
      <4>1. q[j] \in 1..n
        BY <1>1
      <4> HIDE DEF i
      <4> QED BY <1>1, <3>2, <3>5, <4>1
    <3>6. CASE i < j
      <4>1. i \in 1..Len(q)
        BY <1>1, <3>6
      <4>2. q[i] < q[j] /\ q[i] \in 1..n /\ q[j] \in 1..n
        BY <1>1, <3>6, <4>1
      <4> HIDE DEF i
      <4> QED BY <1>1, <3>2, <4>1, <4>2
    <3> QED BY <1>1, <3>4, <3>5, <3>6
  <2>4. ASSUME i <= Len(q)
        PROVE  i <= Len(p) /\ p[i] <= q[i]
    <3>1. i \in 1..Len(q)
      BY <2>4
    <3>2. PICK j \in 1..Len(p) : p[j] = q[i]
      BY <1>2, <3>1
    <3>3. ASSUME j < i PROVE FALSE
      <4>1. j \in 1..k /\ j <= Len(q) /\ j \in 1..Len(q)
        BY <1>1, <2>4, <3>3
      <4>2. p[j] = q[j]
        BY <2>1, <4>1
      <4>3. q[j] < q[i] /\ q[j] \in 1..n /\ q[i] \in 1..n
        BY <1>1, <3>1, <3>3, <4>1
      <4> QED BY <3>2, <4>2, <4>3
    <3>4. i <= j
      BY <1>1, <2>2, <3>3
    <3>5. CASE i = j
      <4>1. p[j] \in 1..n
        BY <1>1
      <4> HIDE DEF i
      <4> QED BY <1>1, <3>2, <3>5, <4>1
    <3>6. CASE i < j
      <4>1. i \in 1..Len(p)
        BY <1>1, <3>6
      <4>2. p[i] < p[j] /\ p[i] \in 1..n /\ p[j] \in 1..n
        BY <1>1, <3>6, <4>1
      <4> HIDE DEF i
      <4> QED BY <1>1, <3>2, <4>1, <4>2
    <3> QED BY <1>1, <3>4, <3>5, <3>6
  <2>5. /\ i <= Len(p) => i <= Len(q) /\ p[i] = q[i]
        /\ i <= Len(q) => i <= Len(p)
    <3> HIDE DEF i
    <3>1. ASSUME i <= Len(p) PROVE i <= Len(q) /\ p[i] = q[i]
      <4>1. i <= Len(q) /\ q[i] <= p[i] /\ p[i] <= q[i]
        BY <2>3, <2>4, <3>1
      <4>2. p[i] \in 1..n /\ q[i] \in 1..n
        BY <1>1, <2>2, <3>1, <4>1
      <4> QED BY <4>1, <4>2
    <3> QED BY <2>4, <3>1
  <2>6. \A x \in 1..(k + 1) : x \in 1..k \/ x = i
    OBVIOUS
  <2>7. Agree(k + 1)
    <3> HIDE DEF i
    <3> QED BY <2>1, <2>5, <2>6
  <2> HIDE DEF Agree
  <2> QED BY <2>7
<1>5. \A k \in Nat : Agree(k)
  <2>1. \A k \in Nat : k \in Good
    <3> HIDE DEF Good
    <3> QED BY <1>3, <1>4, Induction
  <2> HIDE DEF Agree
  <2> QED BY <2>1
<1>6. Len(p) = Len(q)
  <2>1. Len(p) <= Len(q)
    <3>1. CASE Len(p) = 0
      BY <1>1, <3>1
    <3>2. CASE Len(p) # 0
      <4>1. Agree(Len(p))
        <5> HIDE DEF Agree
        <5> QED BY <1>1, <1>5
      <4>2. Len(p) \in 1..Len(p)
        BY <1>1, <3>2
      <4> QED BY <1>1, <4>1, <4>2
    <3> QED BY <3>1, <3>2
  <2>2. Len(q) <= Len(p)
    <3>1. CASE Len(q) = 0
      BY <1>1, <3>1
    <3>2. CASE Len(q) # 0
      <4>1. Agree(Len(q))
        <5> HIDE DEF Agree
        <5> QED BY <1>1, <1>5
      <4>2. Len(q) \in 1..Len(q)
        BY <1>1, <3>2
      <4> QED BY <1>1, <4>1, <4>2
    <3> QED BY <3>1, <3>2
  <2>3. Len(p) \in Nat /\ Len(q) \in Nat
    BY <1>1
  <2> QED BY <2>1, <2>2, <2>3
<1>7. \A i \in 1..Len(p) : p[i] = q[i]
  <2>1. Agree(Len(p))
    <3> HIDE DEF Agree
    <3> QED BY <1>1, <1>5
  <2> QED BY <1>1, <2>1
<1> QED BY <1>6, <1>7, SeqEqual

\* q lists the open headings among the first k nodes, the p-th at level p.
IsOpen(q, page, k) ==
    /\ \A i, j \in 1..Len(q) : i < j => q[i] < q[j]
    /\ \A i \in 1..Len(q) : q[i] \in Open(page, k) /\ page[q[i]].level = i
    /\ \A m \in Open(page, k) : \E i \in 1..Len(q) : q[i] = m

\* A text closes no heading.
LEMMA TextClosesNothing ==
    ASSUME NEW page, NEW k \in Nat, ~IsHeading(page[k + 1])
    PROVE  Open(page, k + 1) = Open(page, k)
<1>1. ASSUME NEW m \in Open(page, k + 1)
      PROVE  m \in Open(page, k)
  <2>1. m \in 1..k
    BY <1>1 DEF Open
  <2>2. \A l \in (m + 1)..k : l \in (m + 1)..(k + 1)
    BY <2>1
  <2> QED BY <1>1, <2>1, <2>2 DEF Open
<1>2. ASSUME NEW m \in Open(page, k)
      PROVE  m \in Open(page, k + 1)
  <2>1. m \in 1..(k + 1)
    BY <1>2 DEF Open
  <2>2. \A l \in (m + 1)..(k + 1) : l \in (m + 1)..k \/ l = k + 1
    BY <2>1
  <2> QED BY <1>2, <2>1, <2>2 DEF Open
<1> QED BY <1>1, <1>2

\* A heading closes those that are not above its level.
LEMMA HeadingCloses ==
    ASSUME NEW page \in Page, NEW k \in Nat, k + 1 <= Len(page), IsHeading(page[k + 1])
    PROVE  \A m : m \in Open(page, k + 1) <=>
             \/ m = k + 1
             \/ m \in Open(page, k) /\ page[m].level < page[k + 1].level
<1>1. ASSUME NEW m \in Open(page, k + 1), m # k + 1
      PROVE  m \in Open(page, k) /\ page[m].level < page[k + 1].level
  <2>1. m \in 1..k
    BY <1>1 DEF Open
  <2>2. /\ \A l \in (m + 1)..k : l \in (m + 1)..(k + 1)
        /\ k + 1 \in (m + 1)..(k + 1)
    BY <2>1
  <2>3. page[k + 1].level > page[m].level
    BY <1>1, <2>2 DEF Open
  <2>4. m \in Open(page, k)
    BY <1>1, <2>1, <2>2 DEF Open
  <2>5. page[m].level \in 0..6 /\ page[k + 1].level \in 0..6
    <3>1. m \in 1..Len(page) /\ k + 1 \in 1..Len(page)
      BY <2>1, NodeTyped
    <3> QED BY <3>1, NodeTyped
  <2> QED BY <2>3, <2>4, <2>5
<1>2. ASSUME NEW m \in Open(page, k), page[m].level < page[k + 1].level
      PROVE  m \in Open(page, k + 1)
  <2>1. m \in 1..k /\ m \in 1..(k + 1)
    BY <1>2 DEF Open
  <2>2. \A l \in (m + 1)..(k + 1) : l \in (m + 1)..k \/ l = k + 1
    BY <2>1
  <2>3. page[m].level \in 0..6 /\ page[k + 1].level \in 0..6
    <3>1. m \in 1..Len(page) /\ k + 1 \in 1..Len(page)
      BY <2>1, NodeTyped
    <3> QED BY <3>1, NodeTyped
  <2>4. page[k + 1].level > page[m].level
    BY <1>2, <2>3
  <2> QED BY <1>2, <2>1, <2>2, <2>4 DEF Open
<1>3. k + 1 \in Open(page, k + 1)
  <2>1. k + 1 \in 1..(k + 1) /\ (k + 1 + 1)..(k + 1) = {}
    OBVIOUS
  <2> QED BY <2>1 DEF Open
<1> QED BY <1>1, <1>2, <1>3

\* The path after a node is the list of the headings that are open there.
LEMMA PathIsOpen ==
    ASSUME NEW page \in Page, Nested(page), NEW n \in 0..Len(page)
    PROVE  Path(page, n) \in Seq(1..n) /\ IsOpen(Path(page, n), page, n)
<1>0. n \in Nat
  BY NodeTyped
<1>1. PICK r \in [0..n -> Seq(1..n)] :
             /\ r[0] = <<>>
             /\ \A k \in 0..(n - 1) :
                  r[k + 1] = IF IsHeading(page[k + 1])
                             THEN Append(Cut(r[k], page[k + 1].level), k + 1)
                             ELSE r[k]
             /\ Path(page, n) = r[n]
  BY PathSteps
<1> DEFINE Good == {k \in Nat : k <= n => IsOpen(r[k], page, k)}
<1>2. 0 \in Good
  <2>1. Len(<<>>) = 0 /\ 1..0 = {}
    OBVIOUS
  <2>2. Open(page, 0) = {}
    BY <2>1 DEF Open
  <2>3. IsOpen(<<>>, page, 0)
    BY <2>1, <2>2 DEF IsOpen
  <2> QED BY <1>1, <2>3
<1>3. ASSUME NEW k \in Nat, k \in Good
      PROVE  k + 1 \in Good
  <2> SUFFICES ASSUME k + 1 <= n PROVE IsOpen(r[k + 1], page, k + 1)
    OBVIOUS
  <2> DEFINE q == r[k]
             L == page[k + 1].level
  <2>1. /\ k \in 0..(n - 1) /\ k <= n /\ k \in 0..n /\ k + 1 \in 1..Len(page)
        /\ k + 1 <= Len(page) /\ k + 1 \in 1..n
    BY <1>0, NodeTyped
  <2>2. IsOpen(q, page, k) /\ q \in Seq(1..n) /\ Len(q) \in Nat
    BY <1>1, <1>3, <2>1, LenProperties
  <2>3. CASE ~IsHeading(page[k + 1])
    <3>1. r[k + 1] = q
      BY <1>1, <2>1, <2>3
    <3>2. Open(page, k + 1) = Open(page, k)
      BY <2>3, TextClosesNothing
    <3> HIDE DEF q
    <3> QED BY <2>2, <3>1, <3>2 DEF IsOpen
  <2>4. CASE IsHeading(page[k + 1])
    <3>1. L \in 1..6
      <4>1. L \in 0..6
        BY <2>1, NodeTyped
      <4> QED BY <2>4, <4>1 DEF IsHeading
    <3>2. \A m : m \in Open(page, k + 1) <=>
             \/ m = k + 1
             \/ m \in Open(page, k) /\ page[m].level < L
      BY <2>1, <2>4, HeadingCloses
    <3>3. L - 1 <= Len(q)
      <4>1. CASE L = 1
        BY <2>2, <4>1
      <4>2. CASE L > 1
        <5>1. k + 1 \in DOMAIN page
          BY <2>1, NodeTyped
        <5>2. PICK m \in 1..((k + 1) - 1) :
                /\ IsHeading(page[m]) /\ page[k + 1].level <= page[m].level + 1
                /\ \A l \in (m + 1)..((k + 1) - 1) : ~IsHeading(page[l])
          BY <2>4, <4>2, <5>1 DEF Nested
        <5>3. (k + 1) - 1 = k
          OBVIOUS
        <5>4. m \in Open(page, k)
          BY <5>2, <5>3 DEF Open
        <5>5. PICK i \in 1..Len(q) : q[i] = m
          BY <2>2, <5>4 DEF IsOpen
        <5>6. page[m].level = i
          BY <2>2, <5>5 DEF IsOpen
        <5>7. L <= i + 1
          BY <5>2, <5>6
        <5> HIDE DEF L, q
        <5> QED BY <2>2, <3>1, <5>7
      <4> QED BY <3>1, <4>1, <4>2
    <3> DEFINE cut == Cut(q, L)
               p == Append(cut, k + 1)
    <3>4. r[k + 1] = p
      BY <1>1, <2>1, <2>4
    <3> HIDE DEF L, q
    <3>5. cut = SubSeq(q, 1, L - 1)
      <4>1. CASE L - 1 < Len(q)
        BY <4>1 DEF Cut
      <4>2. CASE ~(L - 1 < Len(q))
        <5>1. Len(q) = L - 1
          BY <2>2, <3>1, <3>3, <4>2
        <5> QED BY <4>2, <5>1 DEF Cut
      <4> QED BY <4>1, <4>2
    <3>6. /\ cut \in Seq(1..n) /\ Len(cut) = L - 1
          /\ \A i \in 1..(L - 1) : cut[i] = q[i]
      <4>1. \A i \in 1..Len(q) : q[i] \in 1..n
        BY <2>2, ElementOfSeq
      <4>2. \A i \in 1..(L - 1) : q[i] \in 1..n
        BY <2>2, <3>1, <3>3, <4>1
      <4>3. 1 \in Int /\ L - 1 \in Int
        BY <3>1
      <4> HIDE DEF cut
      <4>4. /\ cut \in Seq(1..n)
            /\ Len(cut) = IF 1 <= L - 1 THEN (L - 1) - 1 + 1 ELSE 0
            /\ \A i \in 1..((L - 1) - 1 + 1) : cut[i] = q[1 + i - 1]
        BY <3>5, <4>2, <4>3, SubSeqProperties
      <4>5. \A i \in 1..(L - 1) : i \in 1..((L - 1) - 1 + 1) /\ 1 + i - 1 = i
        BY <3>1
      <4>6. Len(cut) = L - 1
        BY <3>1, <4>4
      <4> QED BY <4>4, <4>5, <4>6
    <3> HIDE DEF cut
    <3>7. /\ p \in Seq(1..n) /\ Len(p) = L
          /\ \A i \in 1..(L - 1) : p[i] = q[i]
          /\ p[L] = k + 1
      <4>1. /\ Len(p) = Len(cut) + 1 /\ p \in Seq(1..n)
            /\ \A i \in 1..Len(cut) : p[i] = cut[i]
            /\ p[Len(cut) + 1] = k + 1
        BY <2>1, <3>6, AppendProperties
      <4>2. (L - 1) + 1 = L
        BY <3>1
      <4> HIDE DEF p
      <4> QED BY <3>6, <4>1, <4>2
    <3> HIDE DEF p
    <3>8. \A i \in 1..(L - 1) : i \in 1..Len(q)
      BY <2>2, <3>1, <3>3
    <3>9. ASSUME NEW i \in 1..Len(p)
          PROVE  p[i] \in Open(page, k + 1) /\ page[p[i]].level = i
      <4>1. CASE i = L
        BY <3>2, <3>7, <4>1 DEF L
      <4>2. CASE i # L
        <5>1. i \in 1..(L - 1) /\ i < L
          BY <3>1, <3>7, <4>2
        <5>2. q[i] \in Open(page, k) /\ page[q[i]].level = i
          BY <2>2, <3>8, <5>1 DEF IsOpen
        <5> QED BY <3>2, <3>7, <5>1, <5>2
      <4> QED BY <4>1, <4>2
    <3>10. ASSUME NEW i \in 1..Len(p), NEW j \in 1..Len(p), i < j
           PROVE  p[i] < p[j]
      <4>1. i \in 1..(L - 1)
        BY <3>1, <3>7, <3>10
      <4>2. CASE j = L
        <5>1. q[i] \in 1..k
          BY <2>2, <3>8, <4>1 DEF IsOpen, Open
        <5> QED BY <3>7, <4>1, <4>2, <5>1
      <4>3. CASE j # L
        <5>1. j \in 1..(L - 1)
          BY <3>1, <3>7, <4>3
        <5> QED BY <2>2, <3>7, <3>8, <3>10, <4>1, <5>1 DEF IsOpen
      <4> QED BY <4>2, <4>3
    <3>11. ASSUME NEW m \in Open(page, k + 1)
           PROVE  \E i \in 1..Len(p) : p[i] = m
      <4>1. CASE m = k + 1
        <5>1. L \in 1..Len(p)
          BY <3>1, <3>7
        <5> QED BY <3>7, <4>1, <5>1
      <4>2. CASE m # k + 1
        <5>1. m \in Open(page, k) /\ page[m].level < L
          BY <3>2, <4>2
        <5>2. PICK i \in 1..Len(q) : q[i] = m
          BY <2>2, <5>1 DEF IsOpen
        <5>3. page[m].level = i
          BY <2>2, <5>2 DEF IsOpen
        <5>4. i \in 1..(L - 1) /\ i \in 1..Len(p)
          BY <2>2, <3>1, <3>7, <5>1, <5>3
        <5> QED BY <3>7, <5>2, <5>4
      <4> QED BY <4>1, <4>2
    <3> QED BY <3>4, <3>9, <3>10, <3>11 DEF IsOpen
  <2> QED BY <2>3, <2>4
<1>4. n \in Good
  <2> HIDE DEF Good
  <2> QED BY <1>0, <1>2, <1>3, Induction
<1>5. r[n] \in Seq(1..n) /\ IsOpen(r[n], page, n)
  <2>1. n \in 0..n
    BY <1>0
  <2> QED BY <1>0, <1>1, <1>4, <2>1
<1> QED BY <1>1, <1>5

\* A text stands under its headings.
LEMMA PathIsHeadings ==
    ASSUME NEW page \in Page, Nested(page), NEW n \in 1..Len(page), IsText(page[n])
    PROVE  Path(page, n) = Headings(page, n)
<1> DEFINE p == Path(page, n)
           q == Headings(page, n)
           H == Open(page, n - 1)
<1>1. /\ n \in Nat /\ n - 1 \in Nat /\ n \in 0..Len(page) /\ n = (n - 1) + 1
      /\ page[n].level \in 0..6
  BY NodeTyped
<1>2. H = Open(page, n)
  <2>1. ~IsHeading(page[n])
    BY <1>1 DEF IsHeading, IsText
  <2>2. ~IsHeading(page[(n - 1) + 1])
    BY <1>1, <2>1
  <2>3. Open(page, (n - 1) + 1) = Open(page, n - 1)
    BY <1>1, <2>2, TextClosesNothing
  <2> QED BY <1>1, <2>3
<1>3. p \in Seq(1..n) /\ IsOpen(p, page, n)
  BY <1>1, PathIsOpen
<1>4. H \cap (1..n) = H
  BY <1>2 DEF Open
<1>5. /\ q \in Seq(H) /\ ToSet(q) = H
      /\ \A i, j \in DOMAIN q : i < j => q[i] < q[j]
  <2> HIDE DEF H
  <2> QED BY <1>1, <1>4, ThoseListed DEF Headings, H
<1> HIDE DEF p, q
<1>6. q \in Seq(1..n) /\ DOMAIN q = 1..Len(q)
  <2>1. H \subseteq 1..n
    BY <1>4
  <2> HIDE DEF H
  <2> QED BY <1>5, <2>1, SeqMonotonic, LenProperties
<1>7. ToSet(p) = H
  <2>1. DOMAIN p = 1..Len(p)
    BY <1>3, LenProperties
  <2>2. \A m \in H : m \in ToSet(p)
    BY <1>2, <1>3, <2>1 DEF ToSet, IsOpen
  <2>3. \A m \in ToSet(p) : m \in H
    BY <1>2, <1>3, <2>1 DEF ToSet, IsOpen
  <2> QED BY <2>2, <2>3
<1>8. p = q
  <2>1. \A i, j \in 1..Len(p) : i < j => p[i] < p[j]
    BY <1>3 DEF IsOpen
  <2>2. \A i, j \in 1..Len(q) : i < j => q[i] < q[j]
    BY <1>5, <1>6
  <2> HIDE DEF H
  <2> QED BY <1>1, <1>3, <1>5, <1>6, <1>7, <2>1, <2>2, SameList
<1> QED BY <1>8 DEF p, q

\* The windows of a unit are numbered from 0, without a gap.
LEMMA WindowsNumbered ==
    ASSUME NEW words \in Nat, words > 0
    PROVE  \E c \in Nat :
             /\ Cardinality({k \in 0..words : HasWindow(k, words)}) = c
             /\ \A k \in Nat : HasWindow(k, words) <=> k < c
<1> DEFINE windows == {k \in 0..words : HasWindow(k, words)}
           Good == {k \in Nat : HasWindow(k, words)}
<1>1. \A k \in Nat : HasWindow(k + 1, words) => HasWindow(k, words) /\ k + 1 < words
  BY WindowsAdvance
<1>2. HasWindow(0, words)
  BY DEF HasWindow
<1>3. \A k \in Nat : HasWindow(k, words) => k < words
  <2> SUFFICES ASSUME NEW k \in Nat, HasWindow(k, words) PROVE k < words
    OBVIOUS
  <2>1. CASE k = 0
    BY <2>1
  <2>2. CASE k # 0
    <3>1. k - 1 \in Nat /\ (k - 1) + 1 = k
      BY <2>2
    <3> QED BY <1>1, <3>1
  <2> QED BY <2>1, <2>2
<1>4. PICK last \in Nat : HasWindow(last, words) /\ ~HasWindow(last + 1, words)
  <2> SUFFICES ASSUME \A k \in Nat : HasWindow(k, words) => HasWindow(k + 1, words)
               PROVE  FALSE
    OBVIOUS
  <2>1. 0 \in Good
    BY <1>2
  <2>2. \A k \in Nat : k \in Good => k + 1 \in Good
    OBVIOUS
  <2>3. words \in Good
    <3> HIDE DEF Good
    <3> QED BY <2>1, <2>2, Induction
  <2> QED BY <1>3, <2>3
\* Before a window, and after what is none, it is always the same.
<1>5. \A k \in Nat : k <= last => HasWindow(k, words)
  <2> DEFINE Down == {i \in Nat : i <= last => HasWindow(last - i, words)}
  <2>1. 0 \in Down
    BY <1>4
  <2>2. ASSUME NEW i \in Nat, i \in Down
        PROVE  i + 1 \in Down
    <3> SUFFICES ASSUME i + 1 <= last PROVE HasWindow(last - (i + 1), words)
      OBVIOUS
    <3>1. last - (i + 1) \in Nat /\ (last - (i + 1)) + 1 = last - i /\ i <= last
      OBVIOUS
    <3> QED BY <1>1, <2>2, <3>1
  <2>3. \A i \in Nat : i \in Down
    <3> HIDE DEF Down
    <3> QED BY <2>1, <2>2, Induction
  <2> SUFFICES ASSUME NEW k \in Nat, k <= last PROVE HasWindow(k, words)
    OBVIOUS
  <2>4. last - k \in Nat /\ last - k <= last /\ last - (last - k) = k
    OBVIOUS
  <2> QED BY <2>3, <2>4
<1>6. \A k \in Nat : ~HasWindow(last + 1 + k, words)
  <2> DEFINE Up == {i \in Nat : ~HasWindow(last + 1 + i, words)}
  <2>1. 0 \in Up
    BY <1>4
  <2>2. ASSUME NEW i \in Nat, i \in Up
        PROVE  i + 1 \in Up
    <3>1. last + 1 + i \in Nat /\ (last + 1 + i) + 1 = last + 1 + (i + 1)
      OBVIOUS
    <3> QED BY <1>1, <2>2, <3>1
  <2>3. \A i \in Nat : i \in Up
    <3> HIDE DEF Up
    <3> QED BY <2>1, <2>2, Induction
  <2> QED BY <2>3
<1>7. \A k \in Nat : HasWindow(k, words) <=> k < last + 1
  <2> SUFFICES ASSUME NEW k \in Nat PROVE HasWindow(k, words) <=> k < last + 1
    OBVIOUS
  <2>1. CASE k <= last
    BY <1>5, <2>1
  <2>2. CASE last < k
    <3>1. k - (last + 1) \in Nat /\ last + 1 + (k - (last + 1)) = k
      BY <2>2
    <3>2. ~HasWindow(k, words)
      BY <1>6, <3>1
    <3> QED BY <2>2, <3>2
  <2> QED BY <2>1, <2>2
<1>8. windows = 0..last
  <2>1. \A k \in windows : k \in 0..last
    BY <1>7
  <2>2. \A k \in 0..last : k \in windows
    BY <1>3, <1>7
  <2> QED BY <2>1, <2>2
<1>9. Cardinality(0..last) = last + 1
  BY FS_Interval
<1> DEFINE c == last + 1
<1>10. Cardinality(windows) = c
  <2> HIDE DEF windows
  <2> QED BY <1>8, <1>9
<1>11. c \in Nat /\ \A k \in Nat : HasWindow(k, words) <=> k < c
  BY <1>7
<1> HIDE DEF c
<1> QED BY <1>10, <1>11

\* The chunks of one text.
LEMMA UnitChunks ==
    ASSUME NEW page \in Page, NEW n \in 1..Len(page), IsText(page[n])
    PROVE  /\ ChunksOfUnit(page, n) \in Seq(ToSet(ChunksOfUnit(page, n)))
           /\ \A i \in 1..Len(ChunksOfUnit(page, n)) :
                /\ ChunksOfUnit(page, n)[i].path = Path(page, n)
                /\ ChunksOfUnit(page, n)[i].node = n
                /\ ChunksOfUnit(page, n)[i].first = FirstWord(i - 1)
           /\ \A w \in 1..page[n].words : \E i \in 1..Len(ChunksOfUnit(page, n)) :
                /\ ChunksOfUnit(page, n)[i].first <= w
                /\ w <= ChunksOfUnit(page, n)[i].last
<1> DEFINE words == page[n].words
           windows == {k \in 0..words : HasWindow(k, words)}
           At(i) == [path |-> Path(page, n), node |-> n,
                     first |-> FirstWord(i - 1), last |-> LastWord(i - 1, words)]
           q == ChunksOfUnit(page, n)
<1>1. words \in Nat /\ words > 0
  BY NodeTyped DEF IsText
<1>2. PICK c \in Nat : /\ Cardinality(windows) = c
                       /\ \A k \in Nat : HasWindow(k, words) <=> k < c
  <2> HIDE DEF words
  <2> QED BY <1>1, WindowsNumbered
<1>3. q = [i \in 1..c |-> At(i)]
  BY <1>2 DEF ChunksOfUnit
<1>4. Len(q) = c /\ DOMAIN q = 1..c /\ \A i \in 1..c : q[i] = At(i)
  BY <1>3
<1>5. q \in Seq(ToSet(q))
  <2>1. \A i \in 1..c : q[i] \in ToSet(q)
    BY <1>4 DEF ToSet
  <2>2. q = [i \in 1..c |-> q[i]]
    BY <1>3
  <2> HIDE DEF q
  <2> QED BY <2>1, <2>2
<1>6. ASSUME NEW w \in 1..words
      PROVE  \E i \in 1..Len(q) : q[i].first <= w /\ w <= q[i].last
  <2>1. PICK k \in Nat : HasWindow(k, words) /\ FirstWord(k) <= w /\ w <= LastWord(k, words)
    BY <1>1, EveryWordInAWindow
  <2>2. k + 1 \in 1..c /\ (k + 1) - 1 = k
    BY <1>2, <2>1
  <2>3. q[k + 1] = At(k + 1)
    BY <1>4, <2>2
  <2> HIDE DEF q, words
  <2>4. q[k + 1].first <= w /\ w <= q[k + 1].last
    BY <2>1, <2>2, <2>3
  <2> QED BY <1>4, <2>2, <2>4
<1>7. \A i \in 1..Len(q) : q[i].path = Path(page, n) /\ q[i].node = n
                            /\ q[i].first = FirstWord(i - 1)
  <2> HIDE DEF q
  <2> QED BY <1>4
<1> QED BY <1>5, <1>6, <1>7

\* The chunks of a page, in order: each of its words is in one that stands under the
\* word's headings.
LEMMA PageChunks ==
    ASSUME NEW page \in Page
    PROVE  /\ Chunks(page) \in Seq(ToSet(Chunks(page)))
           /\ \A n \in 1..Len(page) : IsText(page[n]) =>
                \A w \in 1..page[n].words : \E i \in 1..Len(Chunks(page)) :
                  /\ Chunks(page)[i].node = n
                  /\ Chunks(page)[i].first <= w /\ w <= Chunks(page)[i].last
                  /\ Chunks(page)[i].path = Path(page, n)
           /\ \A i, j \in 1..Len(Chunks(page)) : i < j =>
                \/ Chunks(page)[i].node < Chunks(page)[j].node
                \/ /\ Chunks(page)[i].node = Chunks(page)[j].node
                   /\ Chunks(page)[i].first < Chunks(page)[j].first
<1> DEFINE texts == {n \in DOMAIN page : IsText(page[n])}
           units == Those(texts, Len(page))
           pieces == [u \in DOMAIN units |-> ChunksOfUnit(page, units[u])]
           S == UNION {ToSet(ChunksOfUnit(page, n)) : n \in texts}
           q == Chunks(page)
<1>1. Len(page) \in Nat /\ DOMAIN page = 1..Len(page)
  BY NodeTyped
<1>2. texts \cap (1..Len(page)) = texts
  BY <1>1
<1>3. /\ units \in Seq(texts) /\ ToSet(units) = texts
      /\ \A u, v \in DOMAIN units : u < v => units[u] < units[v]
  <2> HIDE DEF texts
  <2> QED BY <1>1, <1>2, ThoseListed
<1> HIDE DEF units
<1>4. /\ Len(units) \in Nat /\ DOMAIN units = 1..Len(units)
      /\ \A u \in 1..Len(units) : units[u] \in texts
  <2> HIDE DEF texts
  <2> QED BY <1>3, LenProperties, ElementOfSeq
<1>5. \A n \in texts : n \in 1..Len(page) /\ IsText(page[n])
  BY <1>1
<1> HIDE DEF texts
<1>6. \A u \in 1..Len(units) : pieces[u] \in Seq(S)
  <2> SUFFICES ASSUME NEW u \in 1..Len(units) PROVE ChunksOfUnit(page, units[u]) \in Seq(S)
    BY <1>4
  <2>1. ToSet(ChunksOfUnit(page, units[u])) \subseteq S
    BY <1>4
  <2>2. ChunksOfUnit(page, units[u]) \in Seq(ToSet(ChunksOfUnit(page, units[u])))
    BY <1>4, <1>5, UnitChunks
  <2> HIDE DEF S
  <2> QED BY <2>1, <2>2, SeqMonotonic
<1>7. pieces \in Seq(Seq(S)) /\ Len(pieces) = Len(units)
  <2>1. pieces = [u \in 1..Len(units) |-> pieces[u]]
    BY <1>4
  <2> HIDE DEF pieces, S
  <2>2. pieces \in Seq(Seq(S))
    BY <1>4, <1>6, <2>1
  <2> QED BY <1>4, <2>1, <2>2
<1>8. q = FlattenSeq(pieces)
  BY DEF Chunks, units, texts
<1>9. \A u \in 1..Len(units) : pieces[u] = ChunksOfUnit(page, units[u])
  BY <1>4
<1> HIDE DEF q, pieces, S
<1>10. IsJoined(q, pieces, Len(units), S)
  BY <1>7, <1>8, Flattened
<1>11. q \in Seq(ToSet(q))
  BY <1>10, OwnElements DEF IsJoined
<1>12. ASSUME NEW n \in 1..Len(page), IsText(page[n]), NEW w \in 1..page[n].words
       PROVE  \E i \in 1..Len(q) :
                /\ q[i].node = n /\ q[i].first <= w /\ w <= q[i].last
                /\ q[i].path = Path(page, n)
  <2>1. n \in texts
    BY <1>1, <1>12 DEF texts
  <2>2. PICK u \in 1..Len(units) : units[u] = n
    BY <1>3, <1>4, <2>1 DEF ToSet
  <2> DEFINE t == ChunksOfUnit(page, n)
  <2>3. PICK i \in 1..Len(t) : t[i].first <= w /\ w <= t[i].last
    BY <1>12, UnitChunks
  <2>4. t[i].path = Path(page, n) /\ t[i].node = n
    BY <1>12, UnitChunks
  <2>5. pieces[u] = t
    BY <1>9, <2>2
  <2> HIDE DEF t
  <2>6. PICK j \in 1..Len(q) : q[j] = pieces[u][i]
    BY <1>10, <2>5 DEF IsJoined
  <2> QED BY <2>3, <2>4, <2>5, <2>6
<1>13. ASSUME NEW i \in 1..Len(q), NEW j \in 1..Len(q), i < j
       PROVE  \/ q[i].node < q[j].node
              \/ q[i].node = q[j].node /\ q[i].first < q[j].first
  <2>1. PICK u \in 1..Len(units), v \in 1..Len(units) :
          \E a \in 1..Len(pieces[u]), b \in 1..Len(pieces[v]) :
            /\ q[i] = pieces[u][a] /\ q[j] = pieces[v][b]
            /\ (u < v \/ (u = v /\ a < b))
    BY <1>10, <1>13 DEF IsJoined
  <2>2. PICK a \in 1..Len(pieces[u]), b \in 1..Len(pieces[v]) :
            /\ q[i] = pieces[u][a] /\ q[j] = pieces[v][b]
            /\ (u < v \/ (u = v /\ a < b))
    BY <2>1
  <2> DEFINE x == units[u]
             y == units[v]
  <2>3. /\ x \in 1..Len(page) /\ IsText(page[x]) /\ pieces[u] = ChunksOfUnit(page, x)
        /\ y \in 1..Len(page) /\ IsText(page[y]) /\ pieces[v] = ChunksOfUnit(page, y)
    BY <1>4, <1>5, <1>9
  <2>4. u < v => x < y
    BY <1>3, <1>4
  <2>5. u = v => x = y
    OBVIOUS
  <2> HIDE DEF x, y
  <2>6. /\ q[i].node = x /\ q[i].first = FirstWord(a - 1)
        /\ q[j].node = y /\ q[j].first = FirstWord(b - 1)
    <3>1. /\ a \in 1..Len(ChunksOfUnit(page, x)) /\ q[i] = ChunksOfUnit(page, x)[a]
          /\ b \in 1..Len(ChunksOfUnit(page, y)) /\ q[j] = ChunksOfUnit(page, y)[b]
      BY <2>2, <2>3
    <3> QED BY <2>3, <3>1, UnitChunks
  <2>7. CASE u < v
    BY <2>4, <2>6, <2>7
  <2>8. CASE u = v /\ a < b
    <3>1. a - 1 \in Nat /\ b - 1 \in Nat /\ a - 1 < b - 1
      <4>1. Len(pieces[u]) \in Nat /\ Len(pieces[v]) \in Nat
        BY <1>6, LenProperties
      <4> QED BY <2>8, <4>1
    <3>2. FirstWord(a - 1) < FirstWord(b - 1)
      <4>1. Step \in Nat /\ Step >= 1
        BY StepInWindow
      <4> DEFINE d == (b - 1) - (a - 1)
      <4>2. d \in Nat /\ d >= 1 /\ b - 1 = (a - 1) + d
        BY <3>1
      <4>3. (b - 1) * Step = (a - 1) * Step + d * Step
        BY <3>1, <4>1, <4>2
      <4>4. d * Step >= 1 /\ d * Step \in Nat /\ (a - 1) * Step \in Nat
        <5> HIDE DEF d
        <5> QED BY <3>1, <4>1, <4>2
      <4> HIDE DEF d
      <4> QED BY <4>3, <4>4 DEF FirstWord
    <3> QED BY <2>5, <2>6, <2>8, <3>2
  <2> QED BY <2>2, <2>7, <2>8
<1> QED BY <1>11, <1>12, <1>13 DEF q

-----------------------------------------------------------------------------
(***************************************************************************)
(* Embeddings.                                                             *)
(***************************************************************************)

\* What the service may reply: items with different indices.
LEMMA ReplyTyped ==
    ASSUME NEW batch, NEW reply \in Replies(batch), Len(batch) \in Nat
    PROVE  \E n \in 0..Len(batch) :
             /\ reply \in [1..n -> [index : DOMAIN batch, embedding : ToSet(batch)]]
             /\ \A i \in 1..n : reply[i].embedding = batch[reply[i].index]
             /\ \A i, j \in 1..n : reply[i].index = reply[j].index => i = j
BY DEF Replies

\* What is sorted is as long as the reply.
LEMMA TransportLength ==
    ASSUME NEW batch, Len(batch) \in Nat, NEW reply \in Replies(batch)
    PROVE  /\ Transport(reply) \in Seq(ToSet(Transport(reply)))
           /\ Len(Transport(reply)) <= Len(batch)
<1>1. PICK n \in 0..Len(batch) :
         reply \in [1..n -> [index : DOMAIN batch, embedding : ToSet(batch)]]
  BY ReplyTyped
<1>2. n \in Nat /\ DOMAIN reply = 1..n
  BY <1>1
<1> DEFINE t == Transport(reply)
<1>3. t = [p \in 1..n |-> t[p]]
  BY <1>2 DEF Transport
<1> HIDE DEF t
<1>4. t \in Seq(ToSet(t)) /\ Len(t) = n
  <2>1. DOMAIN t = 1..n /\ \A p \in 1..n : t[p] \in ToSet(t)
    BY <1>3 DEF ToSet
  <2> QED BY <1>2, <1>3, <2>1
<1> QED BY <1>1, <1>4 DEF t

\* A reply with an item for every text of its batch gives each text its own vector,
\* in whatever order the items come.
LEMMA ReplyInOrder ==
    ASSUME NEW S, NEW batch \in Seq(S), NEW reply \in Replies(batch),
           Len(Transport(reply)) = Len(batch)
    PROVE  Transport(reply) = batch
<1> DEFINE t == Transport(reply)
<1>0. Len(batch) \in Nat /\ DOMAIN batch = 1..Len(batch)
  BY LenProperties
<1>1. PICK n \in 0..Len(batch) :
             /\ reply \in [1..n -> [index : DOMAIN batch, embedding : ToSet(batch)]]
             /\ \A i \in 1..n : reply[i].embedding = batch[reply[i].index]
             /\ \A i, j \in 1..n : reply[i].index = reply[j].index => i = j
  BY <1>0, ReplyTyped
<1>2. n = Len(batch) /\ DOMAIN reply = 1..n
  <2>1. n \in Nat /\ DOMAIN reply = 1..n
    BY <1>0, <1>1
  <2>2. t = [p \in 1..n |-> t[p]]
    BY <2>1 DEF Transport
  <2> HIDE DEF t
  <2>3. Len(t) = n
    BY <2>1, <2>2
  <2> QED BY <2>1, <2>3 DEF t
\* The item of each text.
<1> DEFINE R == [i \in 1..n |-> [index |-> i, embedding |-> batch[i]]]
           index == [i \in 1..n |-> reply[i].index]
<1>3. index \in [1..n -> 1..n] /\ \A i, j \in 1..n : index[i] = index[j] => i = j
  BY <1>0, <1>1, <1>2
<1>4. \A v \in 1..n : \E i \in 1..n : index[i] = v
  <2> HIDE DEF index
  <2>1. index \in Injection(1..n, 1..n)
    BY <1>3 DEF Injection, IsInjective
  <2>2. IsFiniteSet(1..n)
    BY <1>0, <1>2, FS_Interval
  <2>3. index \in Surjection(1..n, 1..n)
    BY <2>1, <2>2, FS_Injection
  <2> QED BY <2>3 DEF Surjection
<1>5. \A i \in 1..n : reply[i] = R[index[i]]
  <2> SUFFICES ASSUME NEW i \in 1..n PROVE reply[i] = R[index[i]]
    OBVIOUS
  <2>1. reply[i] \in [index : DOMAIN batch, embedding : ToSet(batch)]
    BY <1>1
  <2>2. reply[i] = [index |-> reply[i].index, embedding |-> reply[i].embedding]
    BY <2>1
  <2>3. reply[i].index \in 1..n /\ reply[i].embedding = batch[reply[i].index]
    BY <1>0, <1>1, <1>2, <2>1
  <2> QED BY <2>2, <2>3
<1>6. \A v \in 1..n : R[v].index = v /\ R[v].embedding = batch[v]
  OBVIOUS
<1> HIDE DEF R
<1>7. \A x : x \in ToSet(reply) <=> \E v \in 1..n : x = R[v]
  <2>1. ASSUME NEW x \in ToSet(reply)
        PROVE  \E v \in 1..n : x = R[v]
    <3>1. PICK i \in 1..n : x = reply[i]
      BY <1>2 DEF ToSet
    <3>2. x = R[index[i]] /\ index[i] \in 1..n
      <4> HIDE DEF index
      <4> QED BY <1>3, <1>5, <3>1
    <3> HIDE DEF index
    <3> QED BY <3>2
  <2>2. ASSUME NEW v \in 1..n
        PROVE  R[v] \in ToSet(reply)
    <3>1. PICK i \in 1..n : index[i] = v
      BY <1>4
    <3>2. reply[i] = R[v]
      <4> HIDE DEF index
      <4> QED BY <1>5, <3>1
    <3> QED BY <1>2, <3>2 DEF ToSet
  <2> QED BY <2>1, <2>2
<1> HIDE DEF index
\* The item of a text has as many before it as the text.
<1>8. ASSUME NEW v \in 1..n
      PROVE  Cardinality({y \in ToSet(reply) : y.index < R[v].index}) = v - 1
  <2> DEFINE T == {y \in ToSet(reply) : y.index < R[v].index}
             f == [i \in 1..(v - 1) |-> R[i]]
  <2>1. \A i \in 1..(v - 1) : i \in 1..n /\ i < v
    BY <1>0, <1>2
  <2>2. f \in [1..(v - 1) -> T]
    <3>1. \A i \in 1..(v - 1) : R[i] \in T
      BY <1>6, <1>7, <2>1
    <3> HIDE DEF T
    <3> QED BY <3>1
  <2>3. \A i, j \in 1..(v - 1) : f[i] = f[j] => i = j
    BY <1>6, <2>1
  <2>4. \A x \in T : \E i \in 1..(v - 1) : f[i] = x
    <3> SUFFICES ASSUME NEW x \in T PROVE \E i \in 1..(v - 1) : f[i] = x
      OBVIOUS
    <3>1. PICK i \in 1..n : x = R[i]
      BY <1>7
    <3>2. i < v
      BY <1>6, <3>1
    <3>3. i \in 1..(v - 1)
      BY <3>2
    <3> QED BY <3>1, <3>3
  <2>5. v - 1 \in Nat
    OBVIOUS
  <2> HIDE DEF T, f
  <2>6. Cardinality(T) = v - 1
    BY <2>2, <2>3, <2>4, <2>5, Counted
  <2> QED BY <2>6 DEF T
<1>9. ASSUME NEW p \in 1..n
      PROVE  t[p] = batch[p]
  <2> DEFINE Fits(x) == Cardinality({y \in ToSet(reply) : y.index < x.index}) = p - 1
  <2>1. t[p] = (CHOOSE x \in ToSet(reply) : Fits(x)).embedding
    BY <1>2 DEF Transport
  <2>2. R[p] \in ToSet(reply) /\ Fits(R[p])
    BY <1>7, <1>8
  <2>3. ASSUME NEW x \in ToSet(reply), Fits(x)
        PROVE  x = R[p]
    <3>1. PICK v \in 1..n : x = R[v]
      BY <1>7
    <3>2. Fits(R[v])
      BY <2>3, <3>1
    <3>3. v - 1 = p - 1
      BY <1>8, <3>2
    <3>4. v = p
      BY <3>3
    <3> QED BY <3>1, <3>4
  <2> HIDE DEF Fits
  <2>4. (CHOOSE x \in ToSet(reply) : Fits(x)) = R[p]
    BY <2>2, <2>3
  <2> QED BY <1>6, <2>1, <2>4
<1>10. t = [p \in 1..n |-> t[p]]
  BY <1>2 DEF Transport
<1>11. batch = [p \in 1..n |-> batch[p]]
  BY <1>2, LenProperties
<1> HIDE DEF t
<1>12. t = batch
  BY <1>9, <1>10, <1>11
<1> QED BY <1>12 DEF t

\* The texts are cut into batches without a rest.
LEMMA BatchesCover ==
    ASSUME NEW S, NEW texts \in Seq(S)
    PROVE  /\ Batches(texts) \in Nat /\ Len(texts) <= Batches(texts) * MaxBatch
           /\ \A k \in 0..(Batches(texts) - 1) :
                k * MaxBatch \in Nat /\ k * MaxBatch < Len(texts)
<1> DEFINE L == Len(texts)
           M == MaxBatch
           a == L + M - 1
           count == Batches(texts)
<1>1. L \in Nat /\ M \in Nat /\ M >= 1
  BY LenProperties, BatchAssumption
<1> HIDE DEF L, M
<1>2. a \in Nat
  BY <1>1
<1>3. count = a \div M
  BY DEF Batches, L, M
<1> HIDE DEF a, count
<1>4. count \in Nat /\ count * M <= a /\ a < (count + 1) * M
  <2>1. a \div M \in Nat
    BY <1>1, <1>2
  <2>2. (a \div M) * M <= a /\ a < (a \div M + 1) * M
    BY <1>1, <1>2
  <2> QED BY <1>3, <2>1, <2>2
<1>5. (count + 1) * M = count * M + M /\ count * M \in Nat
  BY <1>1, <1>4
<1>6. L <= count * M /\ count * M < L + M
  BY <1>1, <1>4, <1>5 DEF a
<1>7. ASSUME NEW k \in 0..(count - 1)
      PROVE  k * M \in Nat /\ k * M < L
  <2> DEFINE d == count - 1 - k
  <2>1. d \in Nat /\ k \in Nat /\ k + 1 + d = count
    BY <1>4
  <2>2. d * M \in Nat /\ k * M \in Nat
    <3> HIDE DEF d
    <3> QED BY <1>1, <2>1
  <2>3. count * M = k * M + M + d * M
    <3> HIDE DEF d
    <3>1. (k + 1 + d) * M = k * M + M + d * M
      BY <1>1, <2>1
    <3> QED BY <2>1, <3>1
  <2> HIDE DEF d
  <2> QED BY <1>1, <1>6, <2>2, <2>3
<1> QED BY <1>4, <1>6, <1>7 DEF count, L, M

\* Each text gets its own vector, in whatever order the service's items come; where it
\* leaves some out, there is no result.
THEOREM EmbeddingsInOrder ==
    ASSUME NEW S, NEW texts \in Seq(S)
    PROVE  Embeddings(texts) \subseteq {texts}
<1> DEFINE n == Batches(texts)
           L == Len(texts)
           M == MaxBatch
           Got(b) == UNION {ToSet(Transport(reply)) : reply \in Replies(Batch(texts, b))}
           V == S \cup UNION {Got(b) : b \in 1..n}
           T == SUBSET Seq(V)
           Op(done, b) == {vectors \o Transport(reply) :
                             vectors \in done, reply \in Replies(Batch(texts, b))}
           Body(f, s) == IF s = {} THEN {<<>>} ELSE Op(f[s \ {Max(s)}], UpTo(n)[Max(s)])
           F == CHOOSE f : f = [s \in SUBSET (DOMAIN UpTo(n)) |-> Body(f, s)]
<1>1. /\ n \in Nat /\ L \in Nat /\ M \in Nat /\ M >= 1 /\ L <= n * M
      /\ \A k \in 0..(n - 1) : k * M \in Nat /\ k * M < L
  BY BatchesCover, LenProperties, BatchAssumption
<1>2. Embeddings(texts) = {v \in F[DOMAIN UpTo(n)] : Len(v) = L}
  BY DEF Embeddings, FoldLeft, MapThenFoldSet
<1>3. DOMAIN UpTo(n) = 1..n /\ \A i \in 1..n : UpTo(n)[i] = i
  BY DEF UpTo
<1> DEFINE top(b) == IF b * M < L THEN b * M ELSE L
<1> HIDE DEF n
\* The batch of each step.
<1>4. ASSUME NEW b \in 1..n
      PROVE  /\ Batch(texts, b) = SubSeq(texts, (b - 1) * M + 1, top(b))
             /\ Batch(texts, b) \in Seq(S)
             /\ Len(Batch(texts, b)) = top(b) - (b - 1) * M
             /\ (b - 1) * M \in Nat /\ top(b) \in Nat /\ top(b) <= L
             /\ (b - 1) * M < top(b)
  <2> DEFINE from == (b - 1) * M
             to == top(b)
  <2>1. from \in Nat /\ from < L
    <3>1. b - 1 \in 0..(n - 1)
      BY <1>1
    <3> QED BY <1>1, <3>1
  <2>2. b * M = from + M
    BY <1>1
  <2>3. to \in Nat /\ to <= L /\ from < to
    <3> HIDE DEF from
    <3> QED BY <1>1, <2>1, <2>2
  <2>4. Batch(texts, b) = SubSeq(texts, from + 1, to)
    BY DEF Batch
  <2> HIDE DEF from, to
  <2>5. \A i \in (from + 1)..to : texts[i] \in S
    <3>1. \A i \in (from + 1)..to : i \in 1..L
      BY <2>1, <2>3
    <3> QED BY <3>1, ElementOfSeq
  <2>6. /\ SubSeq(texts, from + 1, to) \in Seq(S)
        /\ Len(SubSeq(texts, from + 1, to)) =
             IF from + 1 <= to THEN to - (from + 1) + 1 ELSE 0
    <3>1. from + 1 \in Int /\ to \in Int
      BY <2>1, <2>3
    <3> QED BY <2>5, <3>1, SubSeqProperties
  <2>7. Len(SubSeq(texts, from + 1, to)) = to - from
    BY <2>1, <2>3, <2>6
  <2> QED BY <2>1, <2>3, <2>4, <2>6, <2>7 DEF from, to
<1>5. ASSUME NEW b \in 1..n, NEW reply \in Replies(Batch(texts, b))
      PROVE  /\ Transport(reply) \in Seq(V)
             /\ Len(Transport(reply)) <= top(b) - (b - 1) * M
             /\ Len(Transport(reply)) = top(b) - (b - 1) * M =>
                  Transport(reply) = Batch(texts, b)
  <2>1. Len(Batch(texts, b)) \in Nat
    BY <1>4, LenProperties
  <2>2. ToSet(Transport(reply)) \subseteq V
    <3>1. ToSet(Transport(reply)) \subseteq Got(b)
      OBVIOUS
    <3> HIDE DEF Got
    <3>2. Got(b) \subseteq V
      OBVIOUS
    <3> QED BY <3>1, <3>2
  <2>3. Transport(reply) \in Seq(V)
    <3>1. Transport(reply) \in Seq(ToSet(Transport(reply)))
      BY <2>1, TransportLength
    <3> HIDE DEF V
    <3> QED BY <2>2, <3>1, SeqMonotonic
  <2> HIDE DEF V, top
  <2>4. Len(Transport(reply)) <= Len(Batch(texts, b))
    BY <2>1, TransportLength
  <2>5. Len(Transport(reply)) = Len(Batch(texts, b)) => Transport(reply) = Batch(texts, b)
    BY <1>4, ReplyInOrder
  <2> QED BY <1>4, <2>3, <2>4, <2>5
<1>6. S \subseteq V
  OBVIOUS
<1> HIDE DEF V, Got, M, L
<1>7. ASSUME NEW done \in T, NEW b \in 1..n
      PROVE  Op(done, b) \in T
  <2> SUFFICES ASSUME NEW w \in Op(done, b)
               PROVE  w \in Seq(V)
    <3> HIDE DEF Op
    <3> QED OBVIOUS
  <2>1. PICK v \in done, reply \in Replies(Batch(texts, b)) : w = v \o Transport(reply)
    OBVIOUS
  <2>2. Transport(reply) \in Seq(V) /\ v \in Seq(V)
    BY <1>5
  <2> QED BY <2>1, <2>2, ConcatProperties
<1>8. {<<>>} \in T
  OBVIOUS
<1> HIDE DEF T, Op
<1>9. \E f \in [SUBSET (1..n) -> T] : f = [s \in SUBSET (1..n) |-> Body(f, s)]
  <2> DEFINE step == [z \in T \X (1..n) |-> Op(z[1], z[2])]
  <2>1. step \in StepsOn(T, n)
    BY <1>7 DEF StepsOn
  <2>2. \A x \in T, m \in 1..n : step[<<x, m>>] = Op(x, m)
    OBVIOUS
  <2> HIDE DEF step
  <2>3. PICK f \in [SUBSET (1..n) -> T] : IsFold(f, {<<>>}, step, n)
    BY <1>1, <1>8, <2>1, FoldExists
  <2>4. ASSUME NEW s \in SUBSET (1..n)
        PROVE  f[s] = Body(f, s)
    <3>1. CASE s = {}
      BY <2>3, <3>1 DEF IsFold
    <3>2. CASE s # {}
      <4>1. Max(s) \in s
        BY <1>1, <3>2, HighestExists
      <4> DEFINE m == Max(s)
                 g == f[s \ {m}]
      <4>2. s \ {m} \in SUBSET (1..n)
        OBVIOUS
      <4>3. g \in T /\ m \in 1..n
        BY <2>3, <4>1, <4>2
      <4>4. f[s] = step[<<g, m>>]
        BY <2>3, <3>2 DEF IsFold
      <4>5. UpTo(n)[m] = m
        BY <1>3, <4>3
      <4> HIDE DEF m, g
      <4>6. step[<<g, m>>] = Op(g, m)
        BY <2>2, <4>3
      <4> QED BY <3>2, <4>4, <4>5, <4>6 DEF m, g
    <3> QED BY <3>1, <3>2
  <2>5. f = [s \in SUBSET (1..n) |-> Body(f, s)]
    <3> HIDE DEF Body
    <3> QED BY <2>3, <2>4
  <2> QED BY <2>5
<1>10. F = [s \in SUBSET (1..n) |-> Body(F, s)]
  <2> HIDE DEF Body
  <2> QED BY <1>3, <1>9
<1> HIDE DEF F
<1>11. F[{}] = {<<>>}
  BY <1>10
<1>12. ASSUME NEW k \in 0..(n - 1)
       PROVE  F[1..(k + 1)] = Op(F[1..k], k + 1)
  <2> DEFINE all == 1..(k + 1)
             rest == 1..k
  <2>1. /\ all # {} /\ Max(all) = k + 1 /\ all \ {Max(all)} = rest
        /\ all \in SUBSET (1..n) /\ k + 1 \in 1..n
    BY <1>1, Prefix
  <2>2. UpTo(n)[k + 1] = k + 1
    BY <1>3, <2>1
  <2> HIDE DEF all, rest
  <2>3. F[all] = Body(F, all)
    <3> HIDE DEF Body
    <3> QED BY <1>10, <2>1
  <2>4. F[all] = Op(F[rest], k + 1)
    BY <2>1, <2>2, <2>3
  <2> QED BY <2>4 DEF all, rest
<1> HIDE DEF Body
\* The vectors of the first k batches are theirs, or too few.
<1> DEFINE Right(v, k) == /\ v \in Seq(V) /\ Len(v) <= top(k)
                          /\ Len(v) = top(k) => v = SubSeq(texts, 1, top(k))
           Good == {k \in Nat : k <= n => \A v \in F[1..k] : Right(v, k)}
<1>13. 0 \in Good
  <2>1. 1..0 = {}
    OBVIOUS
  <2>2. F[1..0] = {<<>>}
    BY <1>11, <2>1
  <2>3. top(0) = 0
    BY <1>1
  <2>4. <<>> \in Seq(V) /\ Len(<<>>) = 0
    OBVIOUS
  <2>5. SubSeq(texts, 1, 0) = <<>>
    BY SubSeqEmpty
  <2> HIDE DEF top
  <2>6. Right(<<>>, 0)
    BY <2>3, <2>4, <2>5
  <2> HIDE DEF Right
  <2> QED BY <2>2, <2>6
<1>14. ASSUME NEW k \in Nat, k \in Good
       PROVE  k + 1 \in Good
  <2> SUFFICES ASSUME k + 1 <= n, NEW w \in F[1..(k + 1)]
               PROVE  Right(w, k + 1)
    <3> HIDE DEF Right
    <3> QED OBVIOUS
  <2>1. k \in 0..(n - 1) /\ k <= n /\ k + 1 \in 1..n /\ (k + 1) - 1 = k
    BY <1>1
  <2>2. PICK v \in F[1..k], reply \in Replies(Batch(texts, k + 1)) : w = v \o Transport(reply)
    <3>1. w \in Op(F[1..k], k + 1)
      BY <1>12, <2>1
    <3> QED BY <3>1 DEF Op
  <2> DEFINE t == Transport(reply)
             from == k * M
             to == top(k + 1)
  <2>3. from \in Nat /\ top(k) = from
    BY <1>1, <2>1
  <2>4. Right(v, k)
    <3> HIDE DEF Right
    <3> QED BY <1>14, <2>1
  <2>5. /\ v \in Seq(V) /\ Len(v) <= from
        /\ Len(v) = from => v = SubSeq(texts, 1, from)
    <3> HIDE DEF from, top
    <3> QED BY <2>3, <2>4
  <2>6. /\ t \in Seq(V) /\ Len(t) <= to - from
        /\ Len(t) = to - from => t = Batch(texts, k + 1)
    <3> HIDE DEF top
    <3> QED BY <1>5, <2>1
  <2>7. /\ to \in Nat /\ from < to /\ to <= L
        /\ Batch(texts, k + 1) = SubSeq(texts, from + 1, to)
    <3> HIDE DEF top
    <3> QED BY <1>4, <2>1
  <2> HIDE DEF t, from, to
  <2>8. /\ w \in Seq(V) /\ Len(w) = Len(v) + Len(t) /\ Len(v) \in Nat /\ Len(t) \in Nat
    <3>1. w = v \o t
      BY <2>2 DEF t
    <3> QED BY <2>5, <2>6, <3>1, ConcatProperties, LenProperties
  <2>9. Len(w) <= to
    BY <2>3, <2>5, <2>6, <2>7, <2>8
  <2>10. ASSUME Len(w) = to
         PROVE  w = SubSeq(texts, 1, to)
    <3>1. Len(v) = from /\ Len(t) = to - from
      BY <2>3, <2>5, <2>6, <2>7, <2>8, <2>10
    <3>2. w = SubSeq(texts, 1, from) \o SubSeq(texts, from + 1, to)
      BY <2>2, <2>5, <2>6, <2>7, <3>1 DEF t
    <3>3. 1 \in 1..(Len(texts) + 1) /\ from \in (1 - 1)..Len(texts) /\ to \in from..Len(texts)
      BY <1>1, <2>3, <2>7 DEF L
    <3> QED BY <3>2, <3>3, ConcatAdjacentSubSeq
  <2> HIDE DEF top
  <2> QED BY <2>8, <2>9, <2>10 DEF to
<1>15. n \in Good
  <2> HIDE DEF Good
  <2> QED BY <1>1, <1>13, <1>14, Induction
<1>16. ASSUME NEW v \in F[1..n], Len(v) = L
       PROVE  v = texts
  <2>1. top(n) = L
    <3>1. n * M \in Nat
      BY <1>1
    <3> QED BY <1>1, <3>1
  <2>2. Right(v, n)
    <3> HIDE DEF Right
    <3> QED BY <1>1, <1>15
  <2> HIDE DEF top
  <2>3. v = SubSeq(texts, 1, L)
    BY <1>16, <2>1, <2>2
  <2> QED BY <2>3, SubSeqFull DEF L
<1> QED BY <1>2, <1>3, <1>16

============================================================================
