-------------------------- MODULE RetrievalProofs --------------------------
(***************************************************************************)
(* Theorems about Retrieval, for every catalogue, every pair of result     *)
(* lists, every rank constant, threshold and budget.                       *)
(*                                                                         *)
(* The inductive invariant only says that lists are lists and that the     *)
(* context is what the code makes of them; the properties then say         *)
(* something of any two lists: that fusion puts what it found in a line,   *)
(* that the first of each text keeps that line, and that the selection     *)
(* fills its budgets along it.                                             *)
(***************************************************************************)
EXTENDS Retrieval, FoldProofs

(***************************************************************************)
(* Fractions.                                                              *)
(***************************************************************************)
Fractions == Nat \X (Nat \ {0})

LEMMA Multiplied ==
    \A a, b, c \in Nat : c # 0 => (a < b <=> a * c < b * c)
<1> SUFFICES ASSUME NEW a \in Nat, NEW b \in Nat, NEW c \in Nat, c # 0
             PROVE  a < b <=> a * c < b * c
  OBVIOUS
<1>1. ASSUME a < b PROVE a * c < b * c
  <2>1. PICK d \in Nat : b = a + d /\ d >= 1
    <3>1. b - a \in Nat /\ b = a + (b - a) /\ b - a >= 1
      BY <1>1
    <3> QED BY <3>1
  <2>2. b * c = a * c + d * c /\ d * c \in Nat /\ d * c >= 1 /\ a * c \in Nat
    BY <2>1
  <2> QED BY <2>2
<1>2. ASSUME ~(a < b) PROVE ~(a * c < b * c)
  <2>1. PICK d \in Nat : a = b + d
    <3>1. a - b \in Nat /\ a = b + (a - b)
      BY <1>2
    <3> QED BY <3>1
  <2>2. a * c = b * c + d * c /\ d * c \in Nat /\ b * c \in Nat
    BY <2>1
  <2> QED BY <2>2
<1> QED BY <1>1, <1>2

\* Less is a strict order of fractions, and those that are not less either way can
\* stand for each other.
LEMMA LessOrders ==
    \A p, q, r \in Fractions :
      /\ ~Less(p, p)
      /\ Less(p, q) => ~Less(q, p)
      /\ Less(p, r) => Less(p, q) \/ Less(q, r)
<1> SUFFICES ASSUME NEW p \in Fractions, NEW q \in Fractions, NEW r \in Fractions
             PROVE  /\ ~Less(p, p)
                    /\ Less(p, q) => ~Less(q, p)
                    /\ Less(p, r) => Less(p, q) \/ Less(q, r)
  OBVIOUS
<1>0. /\ p[1] \in Nat /\ p[2] \in Nat /\ p[2] # 0
      /\ q[1] \in Nat /\ q[2] \in Nat /\ q[2] # 0
      /\ r[1] \in Nat /\ r[2] \in Nat /\ r[2] # 0
  BY DEF Fractions
<1>1. \A a, b \in Nat : a * b \in Nat
  OBVIOUS
<1>2. ~Less(p, p)
  BY <1>0, <1>1 DEF Less
<1>3. Less(p, q) => ~Less(q, p)
  BY <1>0, <1>1 DEF Less
<1>4. ASSUME ~Less(p, q), ~Less(q, r) PROVE ~Less(p, r)
  <2> DEFINE a == p[1]
             b == p[2]
             c == q[1]
             d == q[2]
             e == r[1]
             f == r[2]
  <2>1. ~(a * d < c * b) /\ ~(c * f < e * d)
    BY <1>4 DEF Less
  <2>2. a \in Nat /\ b \in Nat /\ c \in Nat /\ d \in Nat /\ e \in Nat /\ f \in Nat
        /\ b # 0 /\ d # 0 /\ f # 0
    BY <1>0
  <2> HIDE DEF a, b, c, d, e, f
  <2>3. ~((a * d) * f < (c * b) * f)
    BY <1>1, <2>1, <2>2, Multiplied
  <2>4. ~((c * f) * b < (e * d) * b)
    BY <1>1, <2>1, <2>2, Multiplied
  <2>5. /\ (a * d) * f = (a * f) * d /\ (c * b) * f = (c * f) * b
        /\ (e * d) * b = (e * b) * d
    BY <2>2
  <2>6. /\ (a * f) * d \in Nat /\ (c * f) * b \in Nat /\ (e * b) * d \in Nat
        /\ a * f \in Nat /\ e * b \in Nat
    BY <1>1, <2>2
  <2>7. ~((a * f) * d < (e * b) * d)
    BY <2>3, <2>4, <2>5, <2>6
  <2>8. ~(a * f < e * b)
    BY <2>2, <2>6, <2>7, Multiplied
  <2> QED BY <2>8 DEF Less, a, b, e, f
<1> QED BY <1>2, <1>3, <1>4

-----------------------------------------------------------------------------
(***************************************************************************)
(* Scores, and the line that fusion puts the chunks in.                    *)
(***************************************************************************)

\* What a query returns.
Lists == {q \in Seq(Chunks) : IsInjective(q) /\ Len(q) <= CandidateLimit}

LEMMA Listed ==
    ASSUME NEW q \in Lists
    PROVE  /\ Len(q) \in Nat /\ DOMAIN q = 1..Len(q) /\ Len(q) <= CandidateLimit
           /\ \A i \in 1..Len(q) : q[i] \in Chunks
           /\ \A i, j \in 1..Len(q) : q[i] = q[j] => i = j
<1>1. q \in Seq(Chunks) /\ IsInjective(q) /\ Len(q) <= CandidateLimit
  BY DEF Lists
<1>2. Len(q) \in Nat /\ DOMAIN q = 1..Len(q)
  BY <1>1, LenProperties
<1>3. \A i \in 1..Len(q) : q[i] \in Chunks
  BY <1>1, ElementOfSeq
<1> QED BY <1>1, <1>2, <1>3 DEF IsInjective

\* A rank is where the chunk is.
LEMMA Ranked ==
    ASSUME NEW q \in Lists, NEW x
    PROVE  /\ Found(q, x) <=> x \in ToSet(q)
           /\ Found(q, x) => Rank(q, x) \in 1..Len(q) /\ q[Rank(q, x)] = x
           /\ \A i \in 1..Len(q) : q[i] = x => Rank(q, x) = i
<1>1. DOMAIN q = 1..Len(q) /\ \A i, j \in 1..Len(q) : q[i] = q[j] => i = j
  BY Listed
<1>2. Found(q, x) <=> x \in ToSet(q)
  BY DEF Found, ToSet
<1>3. Found(q, x) => Rank(q, x) \in 1..Len(q) /\ q[Rank(q, x)] = x
  BY <1>1 DEF Found, Rank
<1>4. ASSUME NEW i \in 1..Len(q), q[i] = x PROVE Rank(q, x) = i
  <2>1. Rank(q, x) \in 1..Len(q) /\ q[Rank(q, x)] = x
    BY <1>1, <1>3, <1>4 DEF Found
  <2> QED BY <1>1, <1>4, <2>1
<1> QED BY <1>2, <1>3, <1>4

LEMMA ReciprocalTyped ==
    ASSUME NEW q \in Lists, NEW x, Found(q, x)
    PROVE  /\ Reciprocal(q, x) \in Fractions
           /\ Reciprocal(q, x)[1] = 1
           /\ Reciprocal(q, x)[2] \in (RankConstant + 1)..(RankConstant + CandidateLimit)
<1>1. Rank(q, x) \in 1..Len(q) /\ Len(q) \in Nat /\ Len(q) <= CandidateLimit
  BY Ranked, Listed
<1>2. RankConstant \in Nat /\ CandidateLimit \in Nat
  BY RetrievalAssumption
<1> DEFINE d == RankConstant + Rank(q, x)
<1>3. d \in Nat \ {0} /\ d \in (RankConstant + 1)..(RankConstant + CandidateLimit)
  BY <1>1, <1>2
<1>4. Reciprocal(q, x) = <<1, d>>
  BY DEF Reciprocal
<1> HIDE DEF d
<1> QED BY <1>3, <1>4 DEF Fractions

LEMMA PlusTyped == \A p, q \in Fractions : Plus(p, q) \in Fractions
<1> SUFFICES ASSUME NEW p \in Fractions, NEW q \in Fractions PROVE Plus(p, q) \in Fractions
  OBVIOUS
<1>0. /\ p[1] \in Nat /\ p[2] \in Nat /\ p[2] # 0 /\ q[1] \in Nat /\ q[2] \in Nat /\ q[2] # 0
  BY DEF Fractions
<1>1. \A a, b \in Nat : a * b \in Nat
  OBVIOUS
<1>2. \A a, b \in Nat : a # 0 /\ b # 0 => a * b # 0
  OBVIOUS
<1>3. p[1] * q[2] + q[1] * p[2] \in Nat /\ p[2] * q[2] \in Nat \ {0}
  BY <1>0, <1>1, <1>2
<1> QED BY <1>3 DEF Plus, Fractions

FoundIn(lex, sem) == ToSet(lex) \cup ToSet(sem)

LEMMA ScoreTyped ==
    ASSUME NEW lex \in Lists, NEW sem \in Lists, NEW x \in FoundIn(lex, sem)
    PROVE  Score(lex, sem, x) \in Fractions
<1>1. Found(lex, x) \/ Found(sem, x)
  BY Ranked DEF FoundIn
<1> QED BY <1>1, ReciprocalTyped, PlusTyped DEF Score

Ordered(lex, sem) ==
    {p \in FoundIn(lex, sem) \X FoundIn(lex, sem) : Precedes(lex, sem, p[1], p[2])}

LEMMA FoundChunks ==
    ASSUME NEW lex \in Lists, NEW sem \in Lists
    PROVE  FoundIn(lex, sem) \subseteq Chunks /\ IsFiniteSet(FoundIn(lex, sem))
<1>1. ASSUME NEW q \in Lists PROVE ToSet(q) \subseteq Chunks /\ IsFiniteSet(ToSet(q))
  <2>1. Len(q) \in Nat /\ DOMAIN q = 1..Len(q) /\ \A i \in 1..Len(q) : q[i] \in Chunks
    BY Listed
  <2>2. IsFiniteSet(1..Len(q))
    BY <2>1, FS_Interval
  <2>3. q \in Surjection(1..Len(q), ToSet(q))
    <3>1. q \in Seq(Chunks)
      BY DEF Lists
    <3>2. q = [i \in 1..Len(q) |-> q[i]]
      BY <2>1, <3>1
    <3>3. \A i \in 1..Len(q) : q[i] \in ToSet(q)
      BY <2>1 DEF ToSet
    <3>4. \A y \in ToSet(q) : \E i \in 1..Len(q) : q[i] = y
      BY <2>1 DEF ToSet
    <3> QED BY <3>2, <3>3, <3>4 DEF Surjection
  <2>4. IsFiniteSet(ToSet(q))
    BY <2>2, <2>3, FS_Surjection
  <2> QED BY <2>1, <2>4 DEF ToSet
<1> QED BY <1>1, FS_Union DEF FoundIn

\* Precedes puts the chunks that were found in a line.
LEMMA PrecedesInLine ==
    ASSUME NEW lex \in Lists, NEW sem \in Lists
    PROVE  /\ InLine(FoundIn(lex, sem), Ordered(lex, sem))
           /\ \A x, y \in FoundIn(lex, sem) :
                <<x, y>> \in Ordered(lex, sem) <=> Precedes(lex, sem, x, y)
<1> DEFINE S == FoundIn(lex, sem)
           score(x) == Score(lex, sem, x)
<1>1. \A x \in S : score(x) \in Fractions
  BY ScoreTyped
<1>2. \A x \in S : Id[x] \in Nat
  BY FoundChunks, RetrievalAssumption
<1>3. \A x, y \in S : Id[x] = Id[y] => x = y
  BY FoundChunks, RetrievalAssumption
<1>4. \A x, y \in S : Precedes(lex, sem, x, y) <=>
         \/ Less(score(y), score(x))
         \/ ~Less(score(x), score(y)) /\ Id[x] < Id[y]
  BY DEF Precedes
<1>5. \A x, y \in S : <<x, y>> \in Ordered(lex, sem) <=> Precedes(lex, sem, x, y)
  BY DEF Ordered
<1> HIDE DEF S, score
<1>6. \A x \in S : ~Precedes(lex, sem, x, x)
  BY <1>1, <1>2, <1>4, LessOrders
<1>7. ASSUME NEW x \in S, NEW y \in S
      PROVE  x = y \/ Precedes(lex, sem, x, y) \/ Precedes(lex, sem, y, x)
  <2>1. x = y \/ Id[x] < Id[y] \/ Id[y] < Id[x]
    BY <1>2, <1>3
  <2> QED BY <1>1, <1>4, <2>1, LessOrders
<1>8. ASSUME NEW x \in S, NEW y \in S, NEW z \in S,
             Precedes(lex, sem, x, y), Precedes(lex, sem, y, z)
      PROVE  Precedes(lex, sem, x, z)
  <2> DEFINE p == score(x)
             q == score(y)
             r == score(z)
  <2>1. p \in Fractions /\ q \in Fractions /\ r \in Fractions
    BY <1>1
  <2>2. ~Less(p, q) /\ ~Less(q, r)
    BY <1>4, <1>8, <2>1, LessOrders
  <2>3. ~Less(p, r)
    BY <2>1, <2>2, LessOrders
  <2>4. CASE Less(q, p) \/ Less(r, q)
    <3>1. Less(r, p)
      BY <2>1, <2>2, <2>4, LessOrders
    <3> QED BY <1>4, <3>1
  <2>5. CASE ~Less(q, p) /\ ~Less(r, q)
    <3>1. Id[x] < Id[y] /\ Id[y] < Id[z]
      BY <1>4, <1>8, <2>5
    <3>2. Id[x] < Id[z]
      BY <1>2, <3>1
    <3> QED BY <1>4, <2>3, <3>2
  <2> QED BY <2>4, <2>5
<1>9. InLine(S, Ordered(lex, sem))
  BY <1>5, <1>6, <1>7, <1>8 DEF InLine, S
<1> QED BY <1>5, <1>9 DEF S

\* Fusion lists what either query found, each chunk once, in that line.
LEMMA FusedLine ==
    ASSUME NEW lex \in Lists, NEW sem \in Lists
    PROVE  LET fused == Fused(lex, sem)
               n == Cardinality(FoundIn(lex, sem))
           IN  /\ n \in Nat /\ fused \in [1..n -> FoundIn(lex, sem)]
               /\ fused \in Seq(FoundIn(lex, sem)) /\ Len(fused) = n /\ DOMAIN fused = 1..n
               /\ \A x \in FoundIn(lex, sem) : \E i \in 1..n : fused[i] = x
               /\ \A i, j \in 1..n : i < j => Precedes(lex, sem, fused[i], fused[j])
<1> DEFINE S == FoundIn(lex, sem)
           R == Ordered(lex, sem)
           n == Cardinality(S)
           fused == Fused(lex, sem)
<1>1. IsFiniteSet(S) /\ n \in Nat
  BY FoundChunks, FS_CardinalityType
<1>2. /\ InLine(S, R)
      /\ \A x, y \in S : <<x, y>> \in R <=> Precedes(lex, sem, x, y)
  BY PrecedesInLine
<1>3. \A x \in S : {y \in S : Precedes(lex, sem, y, x)} = Before(S, R, x)
  BY <1>2 DEF Before
<1>4. fused = [i \in 1..n |-> CHOOSE x \in S : Cardinality(Before(S, R, x)) = i - 1]
  <2>1. \A i \in 1..n :
          (CHOOSE x \in S : Cardinality({y \in S : Precedes(lex, sem, y, x)}) = i - 1)
            = CHOOSE x \in S : Cardinality(Before(S, R, x)) = i - 1
    BY <1>3
  <2>2. fused = [i \in 1..n |->
                   CHOOSE x \in S : Cardinality({y \in S : Precedes(lex, sem, y, x)}) = i - 1]
    BY DEF Fused, FoundIn
  <2> QED BY <2>1, <2>2
<1> HIDE DEF S, R, fused
<1>5. /\ fused \in [1..n -> S]
      /\ \A x \in S : \E i \in 1..n : fused[i] = x
      /\ \A i, j \in 1..n : i < j => <<fused[i], fused[j]>> \in R
  <2>1. InLine(S, R) /\ IsFiniteSet(S)
    BY <1>1, <1>2
  <2> DEFINE G == [i \in 1..Cardinality(S) |->
                    CHOOSE x \in S : Cardinality(Before(S, R, x)) = i - 1]
  <2>2. fused = G
    BY <1>4
  <2> HIDE DEF G
  <2>3. /\ G \in [1..Cardinality(S) -> S]
        /\ \A x \in S : \E i \in 1..Cardinality(S) : G[i] = x
        /\ \A i, j \in 1..Cardinality(S) : i < j => <<G[i], G[j]>> \in R
    BY <2>1, Sorted DEF G
  <2> QED BY <2>2, <2>3
<1> HIDE DEF n
<1>6. fused \in Seq(S) /\ Len(fused) = n /\ DOMAIN fused = 1..n
  BY <1>1, <1>5
<1>7. \A i, j \in 1..n : i < j => Precedes(lex, sem, fused[i], fused[j])
  BY <1>2, <1>5
<1> QED BY <1>1, <1>5, <1>6, <1>7 DEF S, n, fused

\* Of two chunks that were found, the one that precedes has the lower rank.
LEMMA RankInFused ==
    ASSUME NEW lex \in Lists, NEW sem \in Lists,
           NEW x \in FoundIn(lex, sem), NEW y \in FoundIn(lex, sem), Precedes(lex, sem, x, y)
    PROVE  Rank(Fused(lex, sem), x) < Rank(Fused(lex, sem), y)
<1> DEFINE fused == Fused(lex, sem)
           n == Cardinality(FoundIn(lex, sem))
           S == FoundIn(lex, sem)
<1>1. /\ n \in Nat /\ DOMAIN fused = 1..n
      /\ \A z \in S : \E i \in 1..n : fused[i] = z
      /\ \A i, j \in 1..n : i < j => Precedes(lex, sem, fused[i], fused[j])
  BY FusedLine
<1>2. ~Precedes(lex, sem, y, x) /\ ~Precedes(lex, sem, x, x)
  <2>1. InLine(S, Ordered(lex, sem))
        /\ \A u, v \in S : <<u, v>> \in Ordered(lex, sem) <=> Precedes(lex, sem, u, v)
    BY PrecedesInLine
  <2> HIDE DEF S
  <2> QED BY <2>1 DEF InLine, S
<1> HIDE DEF fused, n, S
<1>3. \A z \in S : Rank(fused, z) \in 1..n /\ fused[Rank(fused, z)] = z
  BY <1>1 DEF Rank
<1>4. x \in S /\ y \in S
  BY DEF S
<1> DEFINE i == Rank(fused, x)
           j == Rank(fused, y)
<1>5. i \in 1..n /\ j \in 1..n /\ fused[i] = x /\ fused[j] = y
  BY <1>3, <1>4
<1> HIDE DEF i, j
<1>6. i # j
  BY <1>2, <1>5
<1>7. ~(j < i)
  BY <1>1, <1>2, <1>5
<1>8. i < j
  BY <1>1, <1>5, <1>6, <1>7
<1> QED BY <1>8 DEF i, j, fused

\* What both queries found precedes what only one found.
LEMMA BothOutweighOne ==
    ASSUME NEW lex \in Lists, NEW sem \in Lists, LowRanksOutweigh,
           NEW x \in ToSet(lex) \cap ToSet(sem),
           NEW y \in FoundIn(lex, sem) \ (ToSet(lex) \cap ToSet(sem))
    PROVE  Precedes(lex, sem, x, y)
<1>1. Found(lex, x) /\ Found(sem, x)
  BY Ranked
<1>2. (Found(lex, y) /\ ~Found(sem, y)) \/ (~Found(lex, y) /\ Found(sem, y))
  BY Ranked DEF FoundIn
<1>3. PICK q \in Lists : Found(q, y) /\ Score(lex, sem, y) = Reciprocal(q, y)
  BY <1>2 DEF Score
<1> DEFINE a == Reciprocal(lex, x)[2]
           b == Reciprocal(sem, x)[2]
           c == Reciprocal(q, y)[2]
           low == RankConstant + 1
           high == RankConstant + CandidateLimit
<1>4. a \in low..high /\ b \in low..high /\ c \in low..high
  BY <1>1, <1>3, ReciprocalTyped
<1>5. low \in Nat /\ high \in Nat /\ low > 0 /\ high < low + low
  BY RetrievalAssumption DEF LowRanksOutweigh
<1>6. /\ Score(lex, sem, x) = <<1 * b + 1 * a, a * b>>
      /\ Score(lex, sem, y)[1] = 1 /\ Score(lex, sem, y)[2] = c
  BY <1>1, <1>3, ReciprocalTyped DEF Score, Plus
<1> HIDE DEF a, b, c, low, high
<1>7. a * b < (b + a) * c
  <2>1. a \in Nat /\ b \in Nat /\ c \in Nat /\ a > 0 /\ b > 0 /\ a < c + c /\ b < c + c
    BY <1>4, <1>5
  <2>2. a * b < (c + c) * b
    BY <2>1, Multiplied
  <2>3. b * a < (c + c) * a
    BY <2>1, Multiplied
  <2>4. /\ (c + c) * b = c * b + c * b /\ (c + c) * a = c * a + c * a /\ b * a = a * b
        /\ (b + a) * c = c * b + c * a
    BY <2>1
  <2>5. a * b \in Nat /\ c * b \in Nat /\ c * a \in Nat
    BY <2>1
  <2> QED BY <2>2, <2>3, <2>4, <2>5
<1>8. Less(Score(lex, sem, y), Score(lex, sem, x))
  <2>1. a \in Nat /\ b \in Nat /\ c \in Nat
    BY <1>4, <1>5
  <2>2. 1 * b + 1 * a = b + a /\ 1 * (a * b) = a * b
    BY <2>1
  <2> QED BY <1>6, <1>7, <2>1, <2>2 DEF Less
<1> QED BY <1>8 DEF Precedes

-----------------------------------------------------------------------------
(***************************************************************************)
(* The first of each text.                                                 *)
(***************************************************************************)

\* Distinct keeps of a list the items that no earlier one has the text of, in order.
Keeps(items, m, kept, n, place) ==
    /\ place \in [1..n -> 1..m]
    /\ \A k \in 1..n : kept[k] = items[place[k]]
    /\ \A k, l \in 1..n : k < l => place[k] < place[l]
    /\ \A k \in 1..n, j \in 1..m : TextOf(items[j]) = TextOf(items[place[k]]) => place[k] <= j
    /\ \A j \in 1..m : \E k \in 1..n :
         TextOf(items[place[k]]) = TextOf(items[j]) /\ place[k] <= j

LEMMA FirstOfText ==
    ASSUME NEW T, NEW items \in Seq(T)
    PROVE  /\ Len(Distinct(items)) \in Nat /\ Distinct(items) \in Seq(T)
           /\ \E place : Keeps(items, Len(items), Distinct(items), Len(Distinct(items)), place)
<1> DEFINE first == {i \in DOMAIN items :
                       \A j \in 1..(i - 1) : TextOf(items[j]) # TextOf(items[i])}
           n == Cardinality(first)
           place == [k \in 1..n |-> CHOOSE i \in first : Cardinality(first \cap 1..i) = k]
           m == Len(items)
<1>1. m \in Nat /\ DOMAIN items = 1..m /\ \A i \in 1..m : items[i] \in T
  BY ElementOfSeq, LenProperties
<1> HIDE DEF m
<1>2. first \in SUBSET (1..m)
  BY <1>1
<1>3. Distinct(items) = [k \in 1..n |-> items[place[k]]]
  BY DEF Distinct
<1>4. \A i \in first, j \in 1..m : TextOf(items[j]) = TextOf(items[i]) => i <= j
  BY <1>1
<1>5. ASSUME NEW j \in 1..m
      PROVE  \E i \in first : TextOf(items[i]) = TextOf(items[j]) /\ i <= j
  <2> DEFINE same == {i \in 1..m : TextOf(items[i]) = TextOf(items[j])}
  <2>1. same \in SUBSET Nat /\ j \in same
    OBVIOUS
  <2> HIDE DEF same
  <2>2. PICK i \in same : \A l \in same : i <= l
    BY <2>1, Lowest
  <2>3. i \in 1..m /\ TextOf(items[i]) = TextOf(items[j])
    BY <2>2 DEF same
  <2>4. ASSUME NEW l \in 1..(i - 1), TextOf(items[l]) = TextOf(items[i])
        PROVE  FALSE
    <3>1. l \in 1..m /\ ~(i <= l)
      BY <1>1, <2>3
    <3>2. l \in same
      BY <2>3, <2>4, <3>1 DEF same
    <3> QED BY <2>2, <3>1, <3>2
  <2>5. i \in first
    <3>1. \A l \in 1..(i - 1) : TextOf(items[l]) # TextOf(items[i])
      BY <2>4
    <3>2. i \in DOMAIN items
      BY <1>1, <2>3
    <3> QED BY <3>1, <3>2
  <2> QED BY <2>1, <2>2, <2>3, <2>5
<1> HIDE DEF first, place, n
<1>6. /\ n \in Nat /\ place \in [1..n -> first]
      /\ \A x \in first : \E i \in 1..n : place[i] = x
      /\ \A i, j \in 1..n : i < j => place[i] < place[j]
  <2> DEFINE F == [k \in 1..Cardinality(first) |->
                    CHOOSE i \in first : Cardinality(first \cap 1..i) = k]
  <2>1. place = F
    BY DEF place, n
  <2> HIDE DEF F
  <2>2. /\ Cardinality(first) \in Nat
        /\ F \in [1..Cardinality(first) -> first]
        /\ \A x \in first : \E i \in 1..Cardinality(first) : F[i] = x
        /\ \A i, j \in 1..Cardinality(first) : i < j => F[i] < F[j]
    BY <1>1, <1>2, Places DEF F
  <2> QED BY <2>1, <2>2 DEF n
<1>7. \A k \in 1..n : place[k] \in first /\ place[k] \in 1..m
  BY <1>2, <1>6
<1>8. Distinct(items) \in Seq(T) /\ Len(Distinct(items)) = n /\ DOMAIN Distinct(items) = 1..n
  BY <1>1, <1>3, <1>6, <1>7
<1>9. \A k \in 1..n : Distinct(items)[k] = items[place[k]]
  BY <1>3
<1>10. place \in [1..n -> 1..m]
  BY <1>2, <1>6
<1>11. \A k \in 1..n, j \in 1..m : TextOf(items[j]) = TextOf(items[place[k]]) => place[k] <= j
  BY <1>4, <1>7
<1>12. ASSUME NEW j \in 1..m
       PROVE  \E k \in 1..n : TextOf(items[place[k]]) = TextOf(items[j]) /\ place[k] <= j
  <2>1. PICK i \in first : TextOf(items[i]) = TextOf(items[j]) /\ i <= j
    BY <1>5
  <2>2. PICK k \in 1..n : place[k] = i
    BY <1>6
  <2> QED BY <2>1, <2>2
<1>13. Keeps(items, m, Distinct(items), n, place)
  BY <1>6, <1>9, <1>10, <1>11, <1>12 DEF Keeps
<1> QED BY <1>6, <1>8, <1>13 DEF m

\* The candidates are found chunks in the line of fusion, of each text the one that
\* comes before the others.  The first of them is the first of all.
Line(lex, sem, cand) ==
    /\ cand \in Seq(FoundIn(lex, sem))
    /\ \A k, l \in 1..Len(cand) : k < l => Precedes(lex, sem, cand[k], cand[l])
    /\ \A k \in 1..Len(cand), y \in FoundIn(lex, sem) :
         TextOf(cand[k]) = TextOf(y) => cand[k] = y \/ Precedes(lex, sem, cand[k], y)
    /\ \A y \in FoundIn(lex, sem) : \E k \in 1..Len(cand) :
         TextOf(cand[k]) = TextOf(y)
    /\ FoundIn(lex, sem) # {} => Len(cand) > 0 /\ cand[1] = Head(Fused(lex, sem))

LEMMA CandidatesInLine ==
    ASSUME NEW lex \in Lists, NEW sem \in Lists
    PROVE  Line(lex, sem, Candidates(lex, sem))
<1> DEFINE S == FoundIn(lex, sem)
           m == Cardinality(S)
           fused == Fused(lex, sem)
           cand == Candidates(lex, sem)
           n == Len(cand)
<1>1. /\ m \in Nat /\ fused \in [1..m -> S]
      /\ fused \in Seq(S) /\ Len(fused) = m /\ DOMAIN fused = 1..m
      /\ \A x \in S : \E i \in 1..m : fused[i] = x
      /\ \A i, j \in 1..m : i < j => Precedes(lex, sem, fused[i], fused[j])
  BY FusedLine
<1> HIDE DEF S, m, fused
<1>2. cand = Distinct(fused)
  BY DEF Candidates, fused
<1> HIDE DEF cand
<1>3. n \in Nat /\ cand \in Seq(S)
  BY <1>1, <1>2, FirstOfText
<1>4. PICK place : Keeps(fused, m, cand, n, place)
  BY <1>1, <1>2, FirstOfText
<1>5. \A k \in 1..n : place[k] \in 1..m
  BY <1>4 DEF Keeps
<1>6. \A k, l \in 1..n : k < l => Precedes(lex, sem, cand[k], cand[l])
  BY <1>1, <1>4, <1>5 DEF Keeps
<1>7. ASSUME NEW k \in 1..n, NEW y \in S, TextOf(cand[k]) = TextOf(y)
      PROVE  cand[k] = y \/ Precedes(lex, sem, cand[k], y)
  <2>1. PICK j \in 1..m : fused[j] = y
    BY <1>1
  <2>2. place[k] <= j
    BY <1>4, <1>7, <2>1 DEF Keeps
  <2>3. place[k] = j \/ place[k] < j
    BY <1>1, <1>5, <2>2
  <2> QED BY <1>1, <1>4, <1>5, <2>1, <2>3 DEF Keeps
<1>8. ASSUME NEW y \in S
      PROVE  \E k \in 1..n : TextOf(cand[k]) = TextOf(y)
  <2>1. PICK j \in 1..m : fused[j] = y
    BY <1>1
  <2>2. PICK k \in 1..n : TextOf(fused[place[k]]) = TextOf(fused[j])
    BY <1>4 DEF Keeps
  <2> QED BY <1>4, <2>1, <2>2 DEF Keeps
<1>9. ASSUME S # {} PROVE n > 0 /\ cand[1] = Head(fused)
  <2>1. 1 \in 1..m
    <3>1. PICK j \in 1..m : TRUE
      BY <1>1, <1>9
    <3> QED BY <1>1, <3>1
  <2>2. PICK k \in 1..n : place[k] <= 1
    BY <1>4, <2>1 DEF Keeps
  <2>3. place[k] = 1
    BY <1>1, <1>5, <2>2
  <2>4. k = 1
    <3>1. 1 < k => place[1] < place[k]
      BY <1>3, <1>4 DEF Keeps
    <3> QED BY <1>1, <1>3, <1>5, <2>3, <3>1
  <2>5. cand[1] = fused[1] /\ n > 0
    BY <1>3, <1>4, <2>3, <2>4 DEF Keeps
  <2>6. Head(fused) = fused[1]
    BY <1>1 DEF Head
  <2> QED BY <2>5, <2>6
<1> QED BY <1>3, <1>6, <1>7, <1>8, <1>9 DEF Line, S, fused, cand

-----------------------------------------------------------------------------
(***************************************************************************)
(* What items take of a budget.                                            *)
(***************************************************************************)
Sizes == [Keys -> Nat]

LEMMA UnitTyped == \A x \in Chunks : Unit(x) \in Keys
<1> SUFFICES ASSUME NEW x \in Chunks PROVE Unit(x) \in Keys
  OBVIOUS
<1>1. PICK d \in Policies, c \in Contents : x \in {<<d, c, i>> : i \in DOMAIN Units[c]}
  BY DEF Chunks
<1>2. PICK i \in DOMAIN Units[c] : x = <<d, c, i>>
  BY <1>1
<1>3. Units[c] \in Seq(Keys)
  BY RetrievalAssumption
<1>4. Units[c][i] \in Keys
  BY <1>2, <1>3, ElementOfSeq
<1>5. x[2] = c /\ x[3] = i
  BY <1>2
<1> QED BY <1>4, <1>5 DEF Unit

\* A total is the sum of the sizes, and so it has the properties of a sum.
LEMMA TotalIsSum ==
    ASSUME NEW size, NEW items, NEW n \in Nat, NEW S \in SUBSET (1..n),
           NEW f, \A i \in 1..n : f[i] = size[Unit(items[i])],
           NEW g, IsSum(g, f, n)
    PROVE  Total(size, items, S) = g[S]
<1> DEFINE Body(F, s) == IF s = {} THEN 0
                         ELSE size[Unit(items[CHOOSE x \in s : TRUE])]
                                + F[s \ {CHOOSE x \in s : TRUE}]
           F == CHOOSE F : F = [s \in SUBSET S |-> Body(F, s)]
           G == [s \in SUBSET S |-> g[s]]
<1>1. Total(size, items, S) = F[S]
  BY DEF Total, MapThenSumSet, MapThenFoldSet
<1>2. G = [s \in SUBSET S |-> Body(G, s)]
  <2>1. ASSUME NEW s \in SUBSET S
        PROVE  g[s] = Body(G, s)
    <3>1. CASE s = {}
      BY <3>1 DEF IsSum
    <3>2. CASE s # {}
      <4> DEFINE x == CHOOSE x \in s : TRUE
      <4>1. x \in s /\ s \in SUBSET (1..n) /\ x \in 1..n
        BY <3>2
      <4>2. g[s] = f[x] + g[s \ {x}]
        <5> HIDE DEF x
        <5> QED BY <4>1 DEF IsSum
      <4>3. G[s \ {x}] = g[s \ {x}]
        OBVIOUS
      <4>4. f[x] = size[Unit(items[x])]
        BY <4>1
      <4> HIDE DEF G
      <4> QED BY <3>2, <4>2, <4>3, <4>4
    <3> QED BY <3>1, <3>2
  <2> HIDE DEF Body
  <2> QED BY <2>1
<1>3. F = [s \in SUBSET S |-> Body(F, s)]
  <2> HIDE DEF Body, G
  <2> QED BY <1>2
<1> HIDE DEF F, G
<1>4. /\ F[{}] = 0
      /\ \A s \in SUBSET S : s # {} =>
           F[s] = f[CHOOSE x \in s : TRUE] + F[s \ {CHOOSE x \in s : TRUE}]
  <2>1. \A s \in SUBSET S : F[s] = Body(F, s)
    <3> HIDE DEF Body
    <3> QED BY <1>3
  <2>2. \A s \in SUBSET S : s # {} => (CHOOSE x \in s : TRUE) \in 1..n
    OBVIOUS
  <2>3. ASSUME NEW s \in SUBSET S, s # {}
        PROVE  F[s] = f[CHOOSE x \in s : TRUE] + F[s \ {CHOOSE x \in s : TRUE}]
    <3> DEFINE x == CHOOSE x \in s : TRUE
    <3>1. F[s] = size[Unit(items[x])] + F[s \ {x}]
      BY <2>1, <2>3
    <3>2. x \in 1..n
      BY <2>2, <2>3
    <3> HIDE DEF x
    <3>3. F[s] = f[x] + F[s \ {x}]
      BY <3>1, <3>2
    <3> QED BY <3>3 DEF x
  <2>4. F[{}] = 0
    BY <2>1
  <2> QED BY <2>3, <2>4, Zenon
<1>5. F[S] = g[S]
  BY <1>4, SumIsUnique
<1> QED BY <1>1, <1>5

Adds(g, size, items, n) ==
    /\ g \in [SUBSET (1..n) -> Nat] /\ g[{}] = 0
    /\ \A s \in SUBSET (1..n) : \A x \in s : g[s] = size[Unit(items[x])] + g[s \ {x}]
    /\ \A s \in SUBSET (1..n) : Total(size, items, s) = g[s]

LEMMA Totals ==
    ASSUME NEW size \in Sizes, NEW n \in Nat, NEW items, \A i \in 1..n : items[i] \in Chunks
    PROVE  \E g : Adds(g, size, items, n)
<1> DEFINE f == [i \in 1..n |-> size[Unit(items[i])]]
<1>1. f \in [1..n -> Nat]
  <2>1. \A i \in 1..n : size[Unit(items[i])] \in Nat
    BY UnitTyped DEF Sizes
  <2> QED BY <2>1
<1>2. \A i \in 1..n : f[i] = size[Unit(items[i])]
  OBVIOUS
<1> HIDE DEF f
<1>3. PICK g : IsSum(g, f, n)
  BY <1>1, SumExists
<1>4. ASSUME NEW s \in SUBSET (1..n)
      PROVE  Total(size, items, s) = g[s]
  BY ONLY n \in Nat, s \in SUBSET (1..n), <1>2, <1>3, TotalIsSum
<1>5. g \in [SUBSET (1..n) -> Nat] /\ g[{}] = 0
  BY <1>3 DEF IsSum
<1>6. ASSUME NEW s \in SUBSET (1..n), NEW x \in s
      PROVE  g[s] = size[Unit(items[x])] + g[s \ {x}]
  BY <1>2, <1>3 DEF IsSum
<1> QED BY <1>4, <1>5, <1>6 DEF Adds

\* Only the items at the places count.
LEMMA SameTotal ==
    ASSUME NEW size \in Sizes, NEW n \in Nat, NEW items, NEW others,
           \A i \in 1..n : items[i] \in Chunks /\ others[i] = items[i],
           NEW S \in SUBSET (1..n)
    PROVE  Total(size, others, S) = Total(size, items, S)
<1> DEFINE f == [i \in 1..n |-> size[Unit(items[i])]]
<1>1. /\ f \in [1..n -> Nat]
      /\ \A i \in 1..n : f[i] = size[Unit(items[i])] /\ f[i] = size[Unit(others[i])]
  <2>1. \A i \in 1..n : size[Unit(items[i])] \in Nat
    BY UnitTyped DEF Sizes
  <2> QED BY <2>1
<1> HIDE DEF f
<1>2. PICK g : IsSum(g, f, n)
  BY <1>1, SumExists
<1>3. \A i \in 1..n : f[i] = size[Unit(items[i])]
  BY <1>1
<1>4. \A i \in 1..n : f[i] = size[Unit(others[i])]
  BY <1>1
<1>5. Total(size, items, S) = g[S]
  BY <1>2, <1>3, TotalIsSum
<1>6. Total(size, others, S) = g[S]
  BY <1>2, <1>4, TotalIsSum
<1> QED BY <1>5, <1>6

\* One item more adds its size.
LEMMA TotalOfMore ==
    ASSUME NEW size \in Sizes, NEW n \in Nat, NEW items, NEW more,
           \A i \in 1..n : items[i] \in Chunks /\ more[i] = items[i],
           more[n + 1] \in Chunks
    PROVE  /\ Total(size, items, 1..n) \in Nat
           /\ Total(size, more, 1..(n + 1))
                = Total(size, items, 1..n) + size[Unit(more[n + 1])]
<1> DEFINE m == n + 1
           all == 1..m
           rest == 1..n
<1>1. /\ m \in Nat /\ m \in all /\ all \ {m} = rest
      /\ rest \in SUBSET (1..n) /\ all \in SUBSET (1..m)
  OBVIOUS
<1>2. \A i \in 1..m : more[i] \in Chunks
  OBVIOUS
<1>3. \A i \in 1..n : items[i] \in Chunks
  OBVIOUS
<1> HIDE DEF m, all, rest
<1>4. /\ Total(size, more, all) = size[Unit(more[m])] + Total(size, more, rest)
      /\ Total(size, more, rest) \in Nat
  <2>1. PICK g : Adds(g, size, more, m)
    BY <1>1, <1>2, Totals
  <2>2. all \in SUBSET (1..m) /\ m \in all /\ rest = all \ {m} /\ rest \in SUBSET (1..m)
    BY <1>1
  <2>3. g[all] = size[Unit(more[m])] + g[rest]
    BY <2>1, <2>2 DEF Adds
  <2> QED BY <2>1, <2>2, <2>3 DEF Adds
<1>5. Total(size, more, rest) = Total(size, items, rest)
  <2>1. \A i \in 1..n : items[i] \in Chunks /\ more[i] = items[i]
    OBVIOUS
  <2>2. n \in Nat /\ rest \in SUBSET (1..n) /\ size \in Sizes
    BY <1>1
  <2> QED BY ONLY <2>1, <2>2, SameTotal
<1>6. size[Unit(more[m])] \in Nat
  BY UnitTyped DEF Sizes, m
<1>7. Total(size, more, all) = Total(size, items, rest) + size[Unit(more[m])]
  BY <1>4, <1>5, <1>6
<1> QED BY <1>4, <1>5, <1>7 DEF m, all, rest

-----------------------------------------------------------------------------
(***************************************************************************)
(* The selection.                                                          *)
(***************************************************************************)
Contexts == [items : Seq(Chunks), tokens : Nat, characters : Nat]

Take(context, x) == IF Fits(context, x) THEN Add(context, x) ELSE context

LEMMA TakeTyped ==
    ASSUME NEW context \in Contexts, NEW x \in Chunks
    PROVE  Take(context, x) \in Contexts
<1>1. /\ context.items \in Seq(Chunks) /\ context.tokens \in Nat /\ context.characters \in Nat
      /\ Tokens[Unit(x)] \in Nat /\ Characters[Unit(x)] \in Nat
  BY UnitTyped, RetrievalAssumption DEF Contexts
<1>2. Append(context.items, x) \in Seq(Chunks)
  BY <1>1, AppendProperties
<1>3. /\ context.tokens + Tokens[Unit(x)] \in Nat
      /\ context.characters + Characters[Unit(x)] \in Nat
  BY <1>1
<1>4. Add(context, x) \in Contexts
  BY <1>2, <1>3 DEF Add, Contexts
<1> QED BY <1>4 DEF Take

\* The selection takes the candidates one by one.
LEMMA OneByOne ==
    ASSUME NEW cand \in Seq(Chunks)
    PROVE  \E r : /\ r[0] = Start
                  /\ \A k \in 0..(Len(cand) - 1) : r[k + 1] = Take(r[k], cand[k + 1])
                  /\ Select(cand) = r[Len(cand)].items
<1> DEFINE n == Len(cand)
           Body(f, s) == IF s = {} THEN Start
                         ELSE IF Fits(f[s \ {Max(s)}], cand[Max(s)])
                              THEN Add(f[s \ {Max(s)}], cand[Max(s)])
                              ELSE f[s \ {Max(s)}]
           F == CHOOSE f : f = [s \in SUBSET (DOMAIN cand) |-> Body(f, s)]
<1>1. n \in Nat /\ DOMAIN cand = 1..n /\ \A i \in 1..n : cand[i] \in Chunks
  BY ElementOfSeq, LenProperties
<1>2. Select(cand) = F[DOMAIN cand].items
  BY DEF Select, FoldLeft, MapThenFoldSet
<1>3. Start \in Contexts
  BY EmptySeq DEF Start, Contexts
<1> HIDE DEF n
<1>4. \E f : f = [s \in SUBSET (1..n) |-> Body(f, s)]
  <2> DEFINE step == [z \in Contexts \X (1..n) |-> Take(z[1], cand[z[2]])]
  <2>1. step \in StepsOn(Contexts, n)
    BY <1>1, TakeTyped DEF StepsOn
  <2>2. \A q \in Contexts, m \in 1..n : step[<<q, m>>] = Take(q, cand[m])
    OBVIOUS
  <2> HIDE DEF step
  <2>3. PICK f \in [SUBSET (1..n) -> Contexts] : IsFold(f, Start, step, n)
    BY <1>1, <1>3, <2>1, FoldExists
  <2>4. ASSUME NEW s \in SUBSET (1..n)
        PROVE  f[s] = Body(f, s)
    <3>1. CASE s = {}
      BY <2>3, <3>1 DEF IsFold
    <3>2. CASE s # {}
      <4>1. Max(s) \in s
        BY <1>1, <3>2, HighestExists
      <4> DEFINE m == Max(s)
                 g == f[s \ {m}]
      <4>2. s \ {m} \in SUBSET (1..n)
        OBVIOUS
      <4>3. g \in Contexts /\ m \in 1..n
        BY <2>3, <4>1, <4>2
      <4>4. f[s] = step[<<g, m>>]
        BY <2>3, <3>2 DEF IsFold
      <4> HIDE DEF m, g
      <4>5. f[s] = Take(g, cand[m])
        BY <2>2, <4>3, <4>4
      <4> QED BY <3>2, <4>5 DEF m, g, Take
    <3> QED BY <3>1, <3>2
  <2>5. f = [s \in SUBSET (1..n) |-> Body(f, s)]
    <3> HIDE DEF Body
    <3> QED BY <2>3, <2>4
  <2> QED BY <2>5
<1>5. F = [s \in SUBSET (1..n) |-> Body(F, s)]
  <2> HIDE DEF Body
  <2> QED BY <1>1, <1>4
<1> HIDE DEF F
<1>6. F[{}] = Start
  BY <1>5
<1>7. ASSUME NEW k \in 0..(n - 1)
      PROVE  F[1..(k + 1)] = Take(F[1..k], cand[k + 1])
  <2> DEFINE top == 1..(k + 1)
             rest == 1..k
  <2>1. F[top] = Body(F, top)
    <3> HIDE DEF Body
    <3> QED BY <1>1, <1>5, Prefix
  <2>2. top # {} /\ Max(top) = k + 1 /\ top \ {Max(top)} = rest
    BY <1>1, Prefix
  <2> HIDE DEF top, rest
  <2>3. F[top] = Take(F[rest], cand[k + 1])
    BY <2>1, <2>2 DEF Take
  <2> QED BY <2>3 DEF top, rest
<1> HIDE DEF Body
<1> DEFINE r == [k \in 0..n |-> F[1..k]]
<1>8. r[0] = Start
  <2>1. 1..0 = {} /\ 0 \in 0..n
    BY <1>1
  <2> QED BY <1>6, <2>1
<1>9. \A k \in 0..(n - 1) : r[k + 1] = Take(r[k], cand[k + 1])
  BY <1>1, <1>7
<1>10. Select(cand) = r[n].items
  BY <1>1, <1>2
<1> HIDE DEF r
<1> QED BY <1>8, <1>9, <1>10 DEF n

\* There is no room for x on top of the first p items.
NoRoom(items, p, x) ==
    \/ p = ContextLimit
    \/ Total(Tokens, items, 1..p) + Tokens[Unit(x)] > TokenBudget
    \/ Total(Characters, items, 1..p) + Characters[Unit(x)] > CharacterBudget

\* A context keeps within its budgets, which its counters add up.
Sums(context) ==
    LET n == Len(context.items)
    IN  /\ context \in Contexts /\ n <= ContextLimit
        /\ context.tokens = Total(Tokens, context.items, 1..n)
        /\ context.characters = Total(Characters, context.items, 1..n)
        /\ context.tokens <= TokenBudget /\ context.characters <= CharacterBudget

\* The items are those at some places of the first k candidates, in order, and for
\* every other of them there was no room.
Taken(cand, k, items, at) ==
    /\ at \in [1..Len(items) -> 1..k]
    /\ \A i \in 1..Len(items) : items[i] = cand[at[i]]
    /\ \A i, j \in 1..Len(items) : i < j => at[i] < at[j]
    /\ \A m \in 1..k :
         \/ \E i \in 1..Len(items) : at[i] = m
         \/ \E p \in 0..Len(items) :
              /\ \A i \in 1..Len(items) : at[i] < m <=> i <= p
              /\ NoRoom(items, p, cand[m])

\* The first candidate is taken if it fits at all.
FirstTaken(cand, k, context) ==
    /\ k = 0 => context = Start
    /\ k > 0 /\ Fits(Start, cand[1]) =>
         Len(context.items) > 0 /\ context.items[1] = cand[1]

Selected(cand, k, context) ==
    /\ Sums(context)
    /\ \E at : Taken(cand, k, context.items, at)
    /\ FirstTaken(cand, k, context)

LEMMA TakeSums ==
    ASSUME NEW context, Sums(context), NEW x \in Chunks
    PROVE  Sums(Take(context, x))
<1> DEFINE items == context.items
           n == Len(items)
           more == Append(items, x)
<1>1. /\ items \in Seq(Chunks) /\ n \in Nat /\ n <= ContextLimit
      /\ context.tokens \in Nat /\ context.characters \in Nat
      /\ \A i \in 1..n : items[i] \in Chunks
  BY ElementOfSeq, LenProperties DEF Sums, Contexts
<1>2. CASE ~Fits(context, x)
  BY <1>2 DEF Take
<1>3. CASE Fits(context, x)
  <2>1. Take(context, x) = Add(context, x) /\ Take(context, x) \in Contexts
    BY <1>3, TakeTyped DEF Take, Sums
  <2>2. /\ more \in Seq(Chunks) /\ Len(more) = n + 1 /\ more[n + 1] = x
        /\ \A i \in 1..n : more[i] = items[i]
    BY <1>1, AppendProperties
  <2>3. Take(context, x).items = more
    BY <2>1 DEF Add
  <2>4. n < ContextLimit
    BY <1>3 DEF Fits
  <2> HIDE DEF items, n, more
  <2>5. \A i \in 1..(n + 1) : more[i] \in Chunks
    BY <1>1, <2>2
  <2>6. ASSUME NEW size \in Sizes
        PROVE  Total(size, more, 1..(n + 1)) = Total(size, items, 1..n) + size[Unit(x)]
               /\ Total(size, items, 1..n) \in Nat
    <3>1. \A i \in 1..n : items[i] \in Chunks /\ more[i] = items[i]
      BY <1>1, <2>2
    <3>2. more[n + 1] = x /\ more[n + 1] \in Chunks
      BY <2>2
    <3> QED BY <1>1, <3>1, <3>2, TotalOfMore
  <2>7. Tokens \in Sizes /\ Characters \in Sizes
    BY RetrievalAssumption DEF Sizes
  <2>8. /\ context.tokens = Total(Tokens, items, 1..n)
        /\ context.characters = Total(Characters, items, 1..n)
    BY DEF Sums, items, n
  <2>9. /\ Take(context, x).tokens = Total(Tokens, more, 1..(n + 1))
        /\ Take(context, x).characters = Total(Characters, more, 1..(n + 1))
    BY <2>1, <2>6, <2>7, <2>8 DEF Add
  <2>10. /\ Take(context, x).tokens <= TokenBudget
         /\ Take(context, x).characters <= CharacterBudget
    BY <1>3, <2>1 DEF Fits, Add
  <2>11. n + 1 <= ContextLimit
    BY <1>1, <2>4, RetrievalAssumption
  <2> QED BY <2>1, <2>2, <2>3, <2>9, <2>10, <2>11 DEF Sums
<1> QED BY <1>2, <1>3

LEMMA SameRoom ==
    ASSUME NEW n \in Nat, NEW items, NEW more,
           \A i \in 1..n : items[i] \in Chunks, \A i \in 1..n : more[i] = items[i],
           NEW p \in 0..n, NEW x, NoRoom(items, p, x)
    PROVE  NoRoom(more, p, x)
<1> DEFINE P == 1..p
<1>1. P \in SUBSET (1..n)
  OBVIOUS
<1>2. Tokens \in Sizes /\ Characters \in Sizes
  BY RetrievalAssumption DEF Sizes
<1> HIDE DEF P
<1> DEFINE same(size) == Total(size, more, P) = Total(size, items, P)
<1>3. ASSUME NEW size \in Sizes PROVE same(size)
  <2>1. \A i \in 1..n : items[i] \in Chunks /\ more[i] = items[i]
    OBVIOUS
  <2> QED BY ONLY n \in Nat, size \in Sizes, <1>1, <2>1, SameTotal
<1> HIDE DEF same
<1>4. same(Tokens) /\ same(Characters)
  BY <1>2, <1>3
<1> USE DEF same
<1> QED BY <1>4, Zenon DEF NoRoom, P

LEMMA TakeTaken ==
    ASSUME NEW cand \in Seq(Chunks), NEW k \in Nat, k < Len(cand), NEW context, Sums(context),
           NEW at, Taken(cand, k, context.items, at)
    PROVE  \E next : Taken(cand, k + 1, Take(context, cand[k + 1]).items, next)
<1> DEFINE items == context.items
           n == Len(items)
           x == cand[k + 1]
           more == Append(items, x)
           next == [i \in 1..(n + 1) |-> IF i <= n THEN at[i] ELSE k + 1]
<1>1. /\ items \in Seq(Chunks) /\ n \in Nat /\ n <= ContextLimit
      /\ \A i \in 1..n : items[i] \in Chunks
  BY ElementOfSeq, LenProperties DEF Sums, Contexts
<1>2. x \in Chunks
  <2>1. Len(cand) \in Nat /\ k + 1 \in 1..Len(cand)
    BY LenProperties
  <2> QED BY <2>1, ElementOfSeq
<1>3. /\ more \in Seq(Chunks) /\ Len(more) = n + 1 /\ more[n + 1] = x
      /\ \A i \in 1..n : more[i] = items[i]
  BY <1>1, <1>2, AppendProperties
<1>4. /\ at \in [1..n -> 1..k]
      /\ \A i \in 1..n : items[i] = cand[at[i]]
      /\ \A i, j \in 1..n : i < j => at[i] < at[j]
      /\ \A m \in 1..k :
           \/ \E i \in 1..n : at[i] = m
           \/ \E p \in 0..n : (\A i \in 1..n : at[i] < m <=> i <= p) /\ NoRoom(items, p, cand[m])
  BY DEF Taken
<1>5. Take(context, x).items = IF Fits(context, x) THEN more ELSE items
  BY DEF Take, Add
<1>6. /\ context.tokens = Total(Tokens, items, 1..n)
      /\ context.characters = Total(Characters, items, 1..n)
      /\ Fits(context, x) <=>
           /\ n < ContextLimit
           /\ context.tokens + Tokens[Unit(x)] <= TokenBudget
           /\ context.characters + Characters[Unit(x)] <= CharacterBudget
  BY DEF Sums, Fits
<1>7. /\ context.tokens \in Nat /\ context.characters \in Nat
      /\ Tokens[Unit(x)] \in Nat /\ Characters[Unit(x)] \in Nat
      /\ TokenBudget \in Nat /\ CharacterBudget \in Nat /\ ContextLimit \in Nat
  BY <1>2, UnitTyped, RetrievalAssumption DEF Sums, Contexts
<1>8. \A i \in 1..n : at[i] \in 1..k
  BY <1>4
<1>9. next \in [1..(n + 1) -> 1..(k + 1)] /\ next[n + 1] = k + 1
      /\ \A i \in 1..n : next[i] = at[i]
  BY <1>1, <1>8
<1> HIDE DEF items, n, more, x, next
<1>10. CASE ~Fits(context, x)
  <2>1. at \in [1..n -> 1..(k + 1)]
    BY <1>4
  <2>2. NoRoom(items, n, x)
    <3>1. \/ n = ContextLimit
          \/ context.tokens + Tokens[Unit(x)] > TokenBudget
          \/ context.characters + Characters[Unit(x)] > CharacterBudget
      BY <1>1, <1>6, <1>7, <1>10
    <3> QED BY <1>6, <3>1 DEF NoRoom
  <2>3. n \in 0..n /\ \A i \in 1..n : at[i] < k + 1 <=> i <= n
    BY <1>1, <1>8
  <2>4. ASSUME NEW m \in 1..(k + 1)
        PROVE  \/ \E i \in 1..n : at[i] = m
               \/ \E p \in 0..n :
                    (\A i \in 1..n : at[i] < m <=> i <= p) /\ NoRoom(items, p, cand[m])
    <3>1. CASE m = k + 1
      BY <2>2, <2>3, <3>1 DEF x
    <3>2. CASE m # k + 1
      <4>1. m \in 1..k
        BY <3>2
      <4> QED BY <1>4, <4>1
    <3> QED BY <3>1, <3>2
  <2>5. Taken(cand, k + 1, items, at)
    BY <1>4, <2>1, <2>4 DEF Taken, n
  <2> QED BY <1>5, <1>10, <2>5 DEF x
<1>11. CASE Fits(context, x)
  <2>1. ASSUME NEW i \in 1..(n + 1)
        PROVE  more[i] = cand[next[i]]
    <3>1. CASE i = n + 1
      BY <1>3, <1>9, <3>1 DEF x
    <3>2. CASE i # n + 1
      <4>1. i \in 1..n
        BY <1>1, <3>2
      <4> QED BY <1>3, <1>4, <1>9, <4>1
    <3> QED BY <3>1, <3>2
  <2>2. ASSUME NEW i \in 1..(n + 1), NEW j \in 1..(n + 1), i < j
        PROVE  next[i] < next[j]
    <3>1. i \in 1..n
      BY <1>1, <2>2
    <3>2. CASE j = n + 1
      <4>1. next[i] \in 1..k /\ next[j] = k + 1
        BY <1>8, <1>9, <3>1, <3>2
      <4> QED BY <4>1
    <3>3. CASE j # n + 1
      <4>1. j \in 1..n
        BY <1>1, <3>3
      <4> QED BY <1>4, <1>9, <2>2, <3>1, <4>1
    <3> QED BY <3>2, <3>3
  <2>3. ASSUME NEW m \in 1..(k + 1)
        PROVE  \/ \E i \in 1..(n + 1) : next[i] = m
               \/ \E p \in 0..(n + 1) :
                    /\ \A i \in 1..(n + 1) : next[i] < m <=> i <= p
                    /\ NoRoom(more, p, cand[m])
    <3>1. n + 1 \in 1..(n + 1) /\ \A i \in 1..n : i \in 1..(n + 1)
      BY <1>1
    <3>2. CASE m = k + 1
      BY <1>9, <3>1, <3>2
    <3>3. CASE m # k + 1 /\ \E i \in 1..n : at[i] = m
      BY <1>9, <3>1, <3>3
    <3>4. CASE m # k + 1 /\ ~\E i \in 1..n : at[i] = m
      <4>1. m \in 1..k
        BY <3>4
      <4>2. PICK p \in 0..n : (\A i \in 1..n : at[i] < m <=> i <= p) /\ NoRoom(items, p, cand[m])
        BY <1>4, <3>4, <4>1
      <4>3. p \in 0..(n + 1)
        BY <1>1
      <4>4. ASSUME NEW i \in 1..(n + 1)
            PROVE  next[i] < m <=> i <= p
        <5>1. CASE i = n + 1
          BY <1>1, <1>9, <4>1, <5>1
        <5>2. CASE i # n + 1
          <6>1. i \in 1..n
            BY <1>1, <5>2
          <6> QED BY <1>9, <4>2, <6>1
        <5> QED BY <5>1, <5>2
      <4>5. NoRoom(more, p, cand[m])
        BY <1>1, <1>3, <4>2, SameRoom
      <4> QED BY <4>3, <4>4, <4>5
    <3> QED BY <3>2, <3>3, <3>4
  <2>4. Taken(cand, k + 1, more, next)
    BY <1>3, <1>9, <2>1, <2>2, <2>3 DEF Taken
  <2> QED BY <1>5, <1>11, <2>4 DEF x
<1> QED BY <1>10, <1>11

LEMMA TakeFirst ==
    ASSUME NEW cand \in Seq(Chunks), NEW k \in Nat, k < Len(cand), NEW context, Sums(context),
           FirstTaken(cand, k, context)
    PROVE  FirstTaken(cand, k + 1, Take(context, cand[k + 1]))
<1> DEFINE x == cand[k + 1]
           items == context.items
<1>1. items \in Seq(Chunks) /\ Len(items) \in Nat
  BY LenProperties DEF Sums, Contexts
<1>2. x \in Chunks
  <2>1. Len(cand) \in Nat /\ k + 1 \in 1..Len(cand)
    BY LenProperties
  <2> QED BY <2>1, ElementOfSeq
<1>3. /\ Len(Append(items, x)) = Len(items) + 1
      /\ Append(items, x)[Len(items) + 1] = x
      /\ \A i \in 1..Len(items) : Append(items, x)[i] = items[i]
  BY <1>1, <1>2, AppendProperties
<1>4. Take(context, x).items = IF Fits(context, x) THEN Append(items, x) ELSE items
  BY DEF Take, Add
<1> SUFFICES ASSUME Fits(Start, cand[1])
             PROVE  /\ Len(Take(context, x).items) > 0
                    /\ Take(context, x).items[1] = cand[1]
  BY DEF FirstTaken
<1>5. CASE k = 0
  <2>1. x = cand[1] /\ context = Start
    BY <1>5 DEF FirstTaken
  <2>2. Len(items) = 0
    BY <2>1, EmptySeq DEF Start
  <2>3. Take(context, x).items = Append(items, x)
    BY <1>4, <2>1
  <2> HIDE DEF items, x
  <2> QED BY <1>3, <2>1, <2>2, <2>3
<1>6. CASE k # 0
  <2>1. Len(items) > 0 /\ items[1] = cand[1]
    BY <1>6 DEF FirstTaken
  <2> HIDE DEF items, x
  <2>2. 1 \in 1..Len(items)
    BY <1>1, <2>1
  <2> QED BY <1>1, <1>3, <1>4, <2>1, <2>2
<1> QED BY <1>5, <1>6

LEMMA StartSelected ==
    ASSUME NEW cand PROVE Selected(cand, 0, Start)
<1>1. /\ Start.items = <<>> /\ Start.tokens = 0 /\ Start.characters = 0
      /\ <<>> \in Seq(Chunks) /\ Len(<<>>) = 0 /\ Start \in Contexts
  BY EmptySeq DEF Start, Contexts
<1>2. Tokens \in Sizes /\ Characters \in Sizes
  BY RetrievalAssumption DEF Sizes
<1>3. ASSUME NEW size \in Sizes PROVE Total(size, <<>>, 1..0) = 0
  <2>1. \A i \in 1..0 : <<>>[i] \in Chunks
    OBVIOUS
  <2>2. PICK g : Adds(g, size, <<>>, 0)
    BY <2>1, Totals
  <2>3. 1..0 = {} /\ {} \in SUBSET (1..0)
    OBVIOUS
  <2>4. Total(size, <<>>, {}) = 0
    BY <2>2, <2>3 DEF Adds
  <2> QED BY <2>3, <2>4
<1>4. Sums(Start)
  BY <1>1, <1>2, <1>3, RetrievalAssumption DEF Sums
<1>5. \E at : Taken(cand, 0, <<>>, at)
  <2> DEFINE at == [i \in 1..0 |-> i]
  <2>1. at \in [1..0 -> 1..0] /\ \A i \in 1..0 : FALSE
    OBVIOUS
  <2> HIDE DEF at
  <2>2. Taken(cand, 0, <<>>, at)
    BY <1>1, <2>1 DEF Taken
  <2> QED BY <2>2
<1>6. FirstTaken(cand, 0, Start)
  BY DEF FirstTaken
<1> QED BY <1>1, <1>4, <1>5, <1>6 DEF Selected

\* The context that the selection ends with.
LEMMA Selection ==
    ASSUME NEW cand \in Seq(Chunks)
    PROVE  \E context : Selected(cand, Len(cand), context) /\ Select(cand) = context.items
<1>1. PICK r : /\ r[0] = Start
               /\ \A k \in 0..(Len(cand) - 1) : r[k + 1] = Take(r[k], cand[k + 1])
               /\ Select(cand) = r[Len(cand)].items
  BY OneByOne
<1> DEFINE Good == {k \in Nat : k <= Len(cand) => Selected(cand, k, r[k])}
<1>2. Len(cand) \in Nat /\ \A i \in 1..Len(cand) : cand[i] \in Chunks
  BY ElementOfSeq, LenProperties
<1>3. 0 \in Good
  BY <1>1, StartSelected
<1>4. ASSUME NEW k \in Nat, k \in Good
      PROVE  k + 1 \in Good
  <2> SUFFICES ASSUME k + 1 <= Len(cand) PROVE Selected(cand, k + 1, r[k + 1])
    OBVIOUS
  <2>1. k < Len(cand) /\ k <= Len(cand) /\ k \in 0..(Len(cand) - 1) /\ k + 1 \in 1..Len(cand)
    BY <1>2
  <2>2. Selected(cand, k, r[k])
    BY <1>4, <2>1
  <2>3. r[k + 1] = Take(r[k], cand[k + 1]) /\ cand[k + 1] \in Chunks
    BY <1>1, <1>2, <2>1
  <2>4. Sums(r[k + 1])
    BY <2>2, <2>3, TakeSums DEF Selected
  <2>5. \E at : Taken(cand, k + 1, r[k + 1].items, at)
    BY <2>1, <2>2, <2>3, TakeTaken DEF Selected
  <2>6. FirstTaken(cand, k + 1, r[k + 1])
    BY <2>1, <2>2, <2>3, TakeFirst DEF Selected
  <2> QED BY <2>4, <2>5, <2>6 DEF Selected
<1>5. Len(cand) \in Good
  <2> HIDE DEF Good
  <2> QED BY <1>2, <1>3, <1>4, Induction
<1> QED BY <1>1, <1>2, <1>5

-----------------------------------------------------------------------------
(***************************************************************************)
(* What is true of the context of any two lists.                           *)
(***************************************************************************)
LEMMA CandidatesListed ==
    ASSUME NEW lex \in Lists, NEW sem \in Lists
    PROVE  LET cand == Candidates(lex, sem)
           IN  /\ cand \in Seq(Chunks) /\ Len(cand) \in Nat
               /\ \A k \in 1..Len(cand) : cand[k] \in FoundIn(lex, sem)
<1> DEFINE cand == Candidates(lex, sem)
           S == FoundIn(lex, sem)
<1>1. cand \in Seq(S)
  BY CandidatesInLine DEF Line
<1>2. S \subseteq Chunks
  BY FoundChunks
<1> HIDE DEF cand, S
<1>3. Len(cand) \in Nat /\ \A k \in 1..Len(cand) : cand[k] \in S
  BY <1>1, LenProperties, ElementOfSeq
<1>4. cand \in Seq(Chunks)
  BY <1>1, <1>2
<1> QED BY <1>3, <1>4 DEF cand, S

\* The context lists chunks that were found, each of them once and before the others
\* with its text.
LEMMA ContextOfBest ==
    ASSUME NEW lex \in Lists, NEW sem \in Lists
    PROVE  LET items == Select(Candidates(lex, sem))
               n == Len(items)
           IN  /\ items \in Seq(Chunks) /\ n \in Nat /\ DOMAIN items = 1..n
               /\ \A i, j \in 1..n : items[i] = items[j] => i = j
               /\ \A i \in 1..n : items[i] \in FoundIn(lex, sem)
               /\ \A i \in 1..n, y \in FoundIn(lex, sem) :
                    TextOf(items[i]) = TextOf(y) =>
                      items[i] = y \/ Precedes(lex, sem, items[i], y)
<1> DEFINE cand == Candidates(lex, sem)
           items == Select(cand)
           n == Len(items)
           S == FoundIn(lex, sem)
<1>1. /\ cand \in Seq(Chunks) /\ Len(cand) \in Nat
      /\ \A k \in 1..Len(cand) : cand[k] \in S
  BY CandidatesListed
<1>2. /\ \A k, l \in 1..Len(cand) : k < l => Precedes(lex, sem, cand[k], cand[l])
      /\ \A k \in 1..Len(cand), y \in S :
           TextOf(cand[k]) = TextOf(y) => cand[k] = y \/ Precedes(lex, sem, cand[k], y)
  BY CandidatesInLine DEF Line
<1>3. \A x \in S : ~Precedes(lex, sem, x, x)
  <2>1. InLine(S, Ordered(lex, sem))
        /\ \A u, v \in S : <<u, v>> \in Ordered(lex, sem) <=> Precedes(lex, sem, u, v)
    BY PrecedesInLine
  <2> HIDE DEF S
  <2> QED BY <2>1 DEF InLine
<1> HIDE DEF cand, S
<1>4. PICK context, at :
        /\ Sums(context) /\ items = context.items
        /\ Taken(cand, Len(cand), context.items, at)
  <2>1. PICK context : Selected(cand, Len(cand), context) /\ items = context.items
    BY <1>1, Selection
  <2> QED BY <2>1 DEF Selected
<1>5. items \in Seq(Chunks)
  BY <1>4 DEF Sums, Contexts
<1> HIDE DEF items
<1>6. n \in Nat /\ DOMAIN items = 1..n
  BY <1>5, LenProperties
<1>7. /\ \A i \in 1..n : at[i] \in 1..Len(cand) /\ items[i] = cand[at[i]]
      /\ \A i, j \in 1..n : i < j => at[i] < at[j]
  BY <1>4 DEF Taken
<1>8. \A i \in 1..n : items[i] \in S
  BY <1>1, <1>7
<1>9. ASSUME NEW i \in 1..n, NEW j \in 1..n, i < j
      PROVE  items[i] # items[j]
  <2>1. Precedes(lex, sem, items[i], items[j])
    BY <1>2, <1>7, <1>9
  <2> QED BY <1>3, <1>8, <2>1
<1>10. \A i, j \in 1..n : items[i] = items[j] => i = j
  <2>1. \A i, j \in 1..n : i = j \/ i < j \/ j < i
    BY <1>6
  <2> QED BY <1>9, <2>1
<1>11. \A i \in 1..n, y \in S :
         TextOf(items[i]) = TextOf(y) => items[i] = y \/ Precedes(lex, sem, items[i], y)
  BY <1>2, <1>7
<1> QED BY <1>5, <1>6, <1>8, <1>10, <1>11 DEF items, cand, S

\* It keeps within the budgets.
LEMMA ContextInBudget ==
    ASSUME NEW lex \in Lists, NEW sem \in Lists
    PROVE  LET items == Select(Candidates(lex, sem))
           IN  /\ Len(items) <= ContextLimit
               /\ Total(Tokens, items, 1..Len(items)) <= TokenBudget
               /\ Total(Characters, items, 1..Len(items)) <= CharacterBudget
<1> DEFINE cand == Candidates(lex, sem)
<1>1. cand \in Seq(Chunks)
  BY CandidatesListed
<1> HIDE DEF cand
<1>2. PICK context : Selected(cand, Len(cand), context) /\ Select(cand) = context.items
  BY <1>1, Selection
<1>3. Sums(context)
  BY <1>2 DEF Selected
<1> QED BY <1>2, <1>3 DEF Sums, cand

\* What was found and is left out repeats what precedes it, or there is no room for it
\* on top of the items that precede it.
LEMMA ContextLeavesOut ==
    ASSUME NEW lex \in Lists, NEW sem \in Lists, NEW x \in FoundIn(lex, sem),
           NEW items, items = Select(Candidates(lex, sem)),
           \A i \in 1..Len(items) : items[i] # x,
           NEW ahead, ahead = {i \in 1..Len(items) : Precedes(lex, sem, items[i], x)}
    PROVE  \/ \E y \in FoundIn(lex, sem) : TextOf(y) = TextOf(x) /\ Precedes(lex, sem, y, x)
           \/ Cardinality(ahead) = ContextLimit
           \/ Total(Tokens, items, ahead) + Tokens[Unit(x)] > TokenBudget
           \/ Total(Characters, items, ahead) + Characters[Unit(x)] > CharacterBudget
<1> DEFINE cand == Candidates(lex, sem)
           n == Len(items)
           S == FoundIn(lex, sem)
<1>1. /\ cand \in Seq(Chunks) /\ Len(cand) \in Nat
      /\ \A k \in 1..Len(cand) : cand[k] \in S
  BY CandidatesListed
<1>2. /\ \A k, l \in 1..Len(cand) : k < l => Precedes(lex, sem, cand[k], cand[l])
      /\ \A k \in 1..Len(cand), y \in S :
           TextOf(cand[k]) = TextOf(y) => cand[k] = y \/ Precedes(lex, sem, cand[k], y)
      /\ \A y \in S : \E k \in 1..Len(cand) : TextOf(cand[k]) = TextOf(y)
  BY CandidatesInLine DEF Line
<1>3. \A y, z \in S : Precedes(lex, sem, y, z) => ~Precedes(lex, sem, z, y) /\ y # z
  <2>1. InLine(S, Ordered(lex, sem))
        /\ \A u, v \in S : <<u, v>> \in Ordered(lex, sem) <=> Precedes(lex, sem, u, v)
    BY PrecedesInLine
  <2> HIDE DEF S
  <2> QED BY <2>1 DEF InLine
<1>4. x \in S /\ items = Select(cand)
  OBVIOUS
<1> HIDE DEF cand, S
<1>5. PICK k \in 1..Len(cand) : TextOf(cand[k]) = TextOf(x)
  BY <1>2, <1>4
<1>6. CASE cand[k] # x
  BY <1>1, <1>2, <1>4, <1>5, <1>6 DEF S
<1>7. CASE cand[k] = x
  <2>1. PICK context, at :
          /\ Sums(context) /\ items = context.items
          /\ Taken(cand, Len(cand), context.items, at)
    <3>1. PICK context : Selected(cand, Len(cand), context) /\ Select(cand) = context.items
      BY <1>1, Selection
    <3> QED BY <1>4, <3>1 DEF Selected
  <2>2. n \in Nat
    BY <2>1, LenProperties DEF Sums, Contexts
  <2>3. /\ \A i \in 1..n : at[i] \in 1..Len(cand) /\ items[i] = cand[at[i]]
        /\ \/ \E i \in 1..n : at[i] = k
           \/ \E p \in 0..n : (\A i \in 1..n : at[i] < k <=> i <= p) /\ NoRoom(items, p, cand[k])
    BY <1>5, <2>1 DEF Taken
  <2>4. PICK p \in 0..n : (\A i \in 1..n : at[i] < k <=> i <= p) /\ NoRoom(items, p, x)
    <3>1. ~\E i \in 1..n : at[i] = k
      BY <1>7, <2>3
    <3> QED BY <1>7, <2>3, <3>1
  <2>5. ASSUME NEW i \in 1..n
        PROVE  Precedes(lex, sem, items[i], x) <=> i <= p
    <3>1. /\ items[i] = cand[at[i]] /\ x = cand[k]
          /\ at[i] \in 1..Len(cand) /\ items[i] \in S /\ x \in S
      BY <1>1, <1>4, <1>7, <2>3
    <3>2. CASE at[i] < k
      BY <1>2, <1>5, <2>4, <3>1, <3>2
    <3>3. CASE ~(at[i] < k)
      <4>1. k < at[i] \/ at[i] = k
        BY <3>1, <3>3
      <4>2. at[i] # k
        BY <3>1
      <4>3. Precedes(lex, sem, x, items[i])
        BY <1>2, <1>5, <3>1, <4>1, <4>2
      <4> QED BY <1>3, <2>4, <3>1, <3>3, <4>3
    <3> QED BY <3>2, <3>3
  <2>6. ahead = 1..p
    BY <2>2, <2>5
  <2>7. Cardinality(1..p) = p
    BY <2>2, FS_Interval
  <2> QED BY <2>4, <2>6, <2>7, Zenon DEF NoRoom
<1> QED BY <1>6, <1>7

\* A second rank only adds to a score.
LEMMA PlusIsMore == \A p, q \in Fractions : ~Less(Plus(p, q), q)
<1> SUFFICES ASSUME NEW p \in Fractions, NEW q \in Fractions PROVE ~Less(Plus(p, q), q)
  OBVIOUS
<1> DEFINE a == p[1]
           b == p[2]
           c == q[1]
           d == q[2]
<1>1. a \in Nat /\ b \in Nat /\ c \in Nat /\ d \in Nat
  BY DEF Fractions
<1> HIDE DEF a, b, c, d
<1>2. (a * d + c * b) * d = (a * d) * d + c * (b * d)
  BY <1>1
<1>3. (a * d) * d \in Nat /\ c * (b * d) \in Nat
  <2>1. \A i, j \in Nat : i * j \in Nat
    OBVIOUS
  <2> QED BY <1>1, <2>1
<1>4. ~((a * d + c * b) * d < c * (b * d))
  BY <1>2, <1>3
<1> QED BY <1>4 DEF Less, Plus, a, b, c, d

\* The first that a query finds scores at least what the best rank of one query does.
LEMMA BestOfLexical ==
    ASSUME NEW lex \in Lists, NEW sem \in Lists, sem = <<>>, lex # <<>>
    PROVE  /\ lex[1] \in FoundIn(lex, sem)
           /\ ~Less(Score(lex, sem, lex[1]), <<1, RankConstant + 1>>)
<1> DEFINE y == lex[1]
           best == <<1, RankConstant + 1>>
<1>1. 1 \in 1..Len(lex)
  <2>1. Len(lex) \in Nat /\ lex \in Seq(Chunks)
    BY Listed DEF Lists
  <2>2. Len(lex) # 0
    BY <2>1, EmptySeq
  <2> QED BY <2>1, <2>2
<1>2. Rank(lex, y) = 1 /\ y \in ToSet(lex)
  BY <1>1, Ranked, Listed DEF ToSet
<1>3. Found(lex, y) /\ y \in FoundIn(lex, sem)
  BY <1>2, Ranked DEF FoundIn
<1>4. ~Found(sem, y)
  BY DEF Found
<1>5. Score(lex, sem, y) = best /\ best \in Fractions
  BY <1>2, <1>3, <1>4, ReciprocalTyped DEF Score, Reciprocal
<1> HIDE DEF best, y
<1>6. ~Less(Score(lex, sem, y), best)
  BY <1>5, LessOrders
<1> QED BY <1>3, <1>6 DEF best, y

LEMMA BestOfSemantic ==
    ASSUME NEW lex \in Lists, NEW sem \in Lists, sem # <<>>
    PROVE  /\ sem[1] \in FoundIn(lex, sem)
           /\ ~Less(Score(lex, sem, sem[1]), <<1, RankConstant + 1>>)
<1> DEFINE y == sem[1]
           best == <<1, RankConstant + 1>>
<1>1. 1 \in 1..Len(sem)
  <2>1. Len(sem) \in Nat /\ sem \in Seq(Chunks)
    BY Listed DEF Lists
  <2>2. Len(sem) # 0
    BY <2>1, EmptySeq
  <2> QED BY <2>1, <2>2
<1>2. Rank(sem, y) = 1 /\ y \in ToSet(sem)
  BY <1>1, Ranked, Listed DEF ToSet
<1>3. Found(sem, y) /\ y \in FoundIn(lex, sem)
  BY <1>2, Ranked DEF FoundIn
<1>4. Reciprocal(sem, y) = best /\ best \in Fractions
  BY <1>2, <1>3, ReciprocalTyped DEF Reciprocal
<1>5. CASE Found(lex, y)
  <2>1. Score(lex, sem, y) = Plus(Reciprocal(lex, y), best)
    BY <1>3, <1>4, <1>5 DEF Score
  <2>2. Reciprocal(lex, y) \in Fractions
    BY <1>5, ReciprocalTyped
  <2> HIDE DEF best, y
  <2>3. ~Less(Score(lex, sem, y), best)
    BY <1>4, <2>1, <2>2, PlusIsMore
  <2> QED BY <1>3, <2>3 DEF best, y
<1>6. CASE ~Found(lex, y)
  <2>1. Score(lex, sem, y) = best
    BY <1>3, <1>4, <1>6 DEF Score
  <2> HIDE DEF best, y
  <2>2. ~Less(Score(lex, sem, y), best)
    BY <1>4, <2>1, LessOrders
  <2> QED BY <1>3, <2>2 DEF best, y
<1> QED BY <1>5, <1>6

\* So does what comes first after fusion, if a query finds anything.
LEMMA FirstScores ==
    ASSUME NEW lex \in Lists, NEW sem \in Lists, lex # <<>> \/ sem # <<>>
    PROVE  /\ FoundIn(lex, sem) # {}
           /\ Head(Fused(lex, sem)) \in FoundIn(lex, sem)
           /\ ~Less(Score(lex, sem, Head(Fused(lex, sem))), <<1, RankConstant + 1>>)
<1> DEFINE S == FoundIn(lex, sem)
           fused == Fused(lex, sem)
           best == <<1, RankConstant + 1>>
<1>1. \E y \in S : ~Less(Score(lex, sem, y), best)
  BY BestOfLexical, BestOfSemantic
<1>2. PICK y \in S : ~Less(Score(lex, sem, y), best)
  BY <1>1
<1>3. /\ Cardinality(S) \in Nat /\ fused \in [1..Cardinality(S) -> S]
      /\ fused \in Seq(S) /\ Len(fused) = Cardinality(S)
      /\ \A x \in S : \E i \in 1..Cardinality(S) : fused[i] = x
      /\ \A i, j \in 1..Cardinality(S) : i < j => Precedes(lex, sem, fused[i], fused[j])
  BY FusedLine
<1>4. \A x \in S : Score(lex, sem, x) \in Fractions
  BY ScoreTyped
<1>5. best \in Fractions
  BY RetrievalAssumption DEF Fractions
<1> HIDE DEF S, fused, best
<1>7. PICK i \in 1..Cardinality(S) : fused[i] = y
  BY <1>2, <1>3
<1>8. 1 \in 1..Cardinality(S) /\ Head(fused) = fused[1] /\ fused[1] \in S
  <2>1. 1 \in 1..Cardinality(S)
    BY <1>3, <1>7
  <2> QED BY <1>3, <2>1
<1> DEFINE h == fused[1]
<1>9. ~Less(Score(lex, sem, h), Score(lex, sem, y))
  <2>1. CASE i = 1
    BY <1>4, <1>7, <1>8, <2>1, LessOrders
  <2>2. CASE i # 1
    <3>1. Precedes(lex, sem, h, y)
      <4>1. 1 < i
        BY <1>3, <1>7, <2>2
      <4> QED BY <1>3, <1>7, <1>8, <4>1
    <3>2. Score(lex, sem, h) \in Fractions /\ Score(lex, sem, y) \in Fractions
      BY <1>2, <1>4, <1>8
    <3> QED BY <3>1, <3>2, LessOrders DEF Precedes
  <2> QED BY <2>1, <2>2
<1>10. ~Less(Score(lex, sem, h), best)
  <2>1. Score(lex, sem, h) \in Fractions /\ Score(lex, sem, y) \in Fractions
    BY <1>2, <1>4, <1>8
  <2> HIDE DEF h
  <2> QED BY <1>2, <1>5, <1>9, <2>1, LessOrders
<1> QED BY <1>2, <1>8, <1>10 DEF S, fused, best

\* Then, if the threshold is within reach and what comes first fits, there is an
\* answer.
LEMMA StrongIfFits ==
    ASSUME NEW lex \in Lists, NEW sem \in Lists, lex # <<>> \/ sem # <<>>, BestRankReaches,
           Fits(Start, Head(Fused(lex, sem))),
           NEW items, items = Select(Candidates(lex, sem))
    PROVE  ~Weak(lex, sem, items)
<1> DEFINE cand == Candidates(lex, sem)
           h == Head(Fused(lex, sem))
<1>1. cand \in Seq(Chunks) /\ Len(cand) > 0 /\ cand[1] = h
  BY CandidatesListed, CandidatesInLine, FirstScores DEF Line
<1> HIDE DEF cand
<1>2. PICK context : Selected(cand, Len(cand), context) /\ Select(cand) = context.items
  BY <1>1, Selection
<1>3. items = context.items /\ items \in Seq(Chunks)
  BY <1>2 DEF Selected, Sums, Contexts, cand
<1>4. Len(items) > 0 /\ items[1] = h
  BY <1>1, <1>2, <1>3 DEF Selected, FirstTaken
<1>5. items # <<>> /\ Head(items) = h
  BY <1>3, <1>4
<1>6. ~Less(Score(lex, sem, h), Threshold)
  <2>1. /\ h \in FoundIn(lex, sem)
        /\ ~Less(Score(lex, sem, h), <<1, RankConstant + 1>>)
    BY FirstScores
  <2>2. Threshold \in Fractions /\ <<1, RankConstant + 1>> \in Fractions
    BY RetrievalAssumption DEF Fractions
  <2>3. ~Less(<<1, RankConstant + 1>>, Threshold)
    BY DEF BestRankReaches
  <2> HIDE DEF h
  <2>4. Score(lex, sem, h) \in Fractions
    BY <2>1, ScoreTyped
  <2> QED BY <2>1, <2>2, <2>3, <2>4, LessOrders
<1> QED BY <1>5, <1>6 DEF Weak

-----------------------------------------------------------------------------
(***************************************************************************)
(* The invariant: the catalogue is typed and finite, the queries return    *)
(* lists, and an answer is what the code makes of them.                    *)
(***************************************************************************)
CatalogTyped ==
    /\ versions \in [Policies -> SUBSET Contents]
    /\ current \in [Policies -> Contents \cup {Nothing}]
    /\ chunks \subseteq Chunks /\ IsFiniteSet(chunks)

Asked ==
    /\ stage \in {"fts", "vector", "answered"}
    /\ lexical \in Lists /\ semantic \in Lists
    /\ stage # "answered" => semantic = <<>> /\ selected = <<>> /\ noAnswer = FALSE

Answers ==
    stage = "answered" =>
      LET items == Select(Candidates(lexical, semantic))
      IN  /\ noAnswer = Weak(lexical, semantic, items)
          /\ selected = IF Weak(lexical, semantic, items) THEN <<>> ELSE items

RetrievalInv == CatalogTyped /\ Asked /\ Answers

\* What a query returns is a list, whatever chunks there are.
LEMMA ResultsAreLists ==
    ASSUME NEW matching \in Nat, chunks \subseteq Chunks
    PROVE  \A results \in Results(matching) : results \in Lists
<1> DEFINE n == IF matching < CandidateLimit THEN matching ELSE CandidateLimit
<1>1. n \in Nat /\ n <= CandidateLimit
  BY RetrievalAssumption
<1>2. Results(matching) = {results \in [1..n -> chunks] : IsInjective(results)}
  BY DEF Results
<1> HIDE DEF n
<1>3. ASSUME NEW q \in [1..n -> chunks], IsInjective(q) PROVE q \in Lists
  <2>1. q \in Seq(Chunks) /\ Len(q) = n
    BY <1>1
  <2> QED BY <1>1, <1>3, <2>1 DEF Lists
<1> QED BY <1>2, <1>3

LEMMA EmptyListed == <<>> \in Lists
<1>1. <<>> \in Seq(Chunks) /\ Len(<<>>) = 0 /\ IsInjective(<<>>)
  BY EmptySeq DEF IsInjective
<1> QED BY <1>1, RetrievalAssumption DEF Lists

LEMMA InitInv == Init => RetrievalInv
<1> SUFFICES ASSUME Init PROVE RetrievalInv
  OBVIOUS
<1>1. CatalogTyped
  <2>1. Catalog!Documents = Policies
    BY DEF Catalog!Documents
  <2> QED BY <2>1, FS_EmptySet DEF Init, Catalog!Init, CatalogTyped
<1>2. Asked
  BY EmptyListed DEF Init, Asked
<1>3. Answers
  BY DEF Init, Answers
<1> QED BY <1>1, <1>2, <1>3 DEF RetrievalInv

LEMMA CatalogStep ==
    ASSUME CatalogTyped, NEW d \in Policies, NEW c \in Contents, Catalog!PublishVersion(d, c)
    PROVE  CatalogTyped'
<1> DEFINE more == {<<d, c, i>> : i \in DOMAIN Units[c]}
<1>1. versions' \in [Policies -> SUBSET Contents] /\ current' \in [Policies -> Contents \cup {Nothing}]
  BY DEF CatalogTyped, Catalog!PublishVersion
<1>2. chunks' = chunks \cup more
  BY DEF Catalog!PublishVersion
<1>3. more \subseteq Chunks
  <2> SUFFICES ASSUME NEW x \in more PROVE x \in Chunks
    OBVIOUS
  <2> DEFINE all == {{<<e, a, i>> : i \in DOMAIN Units[a]} : e \in Policies, a \in Contents}
  <2>1. \E e \in Policies, a \in Contents : more = {<<e, a, i>> : i \in DOMAIN Units[a]}
    OBVIOUS
  <2> HIDE DEF more
  <2>2. more \in all
    BY <2>1
  <2> HIDE DEF all
  <2>3. x \in UNION all
    BY <2>2
  <2> QED BY <2>3 DEF Chunks, all
<1>4. IsFiniteSet(more)
  <2> DEFINE f == [i \in DOMAIN Units[c] |-> <<d, c, i>>]
  <2>1. IsFiniteSet(DOMAIN Units[c])
    <3>1. Units[c] \in Seq(Keys)
      BY RetrievalAssumption
    <3>2. DOMAIN Units[c] = 1..Len(Units[c]) /\ Len(Units[c]) \in Nat
      BY <3>1, LenProperties
    <3> DEFINE top == Len(Units[c])
    <3>3. IsFiniteSet(1..top)
      <4> HIDE DEF top
      <4>1. top \in Int /\ 1 \in Int
        BY <3>2 DEF top
      <4> QED BY <4>1, FS_Interval
    <3> QED BY <3>2, <3>3
  <2>2. f \in Surjection(DOMAIN Units[c], more)
    BY DEF Surjection
  <2> HIDE DEF f, more
  <2> QED BY <2>1, <2>2, FS_Surjection
<1> HIDE DEF more
<1>5. IsFiniteSet(chunks \cup more)
  BY <1>4, FS_Union DEF CatalogTyped
<1> QED BY <1>1, <1>2, <1>3, <1>5 DEF CatalogTyped

LEMMA StepInv == RetrievalInv /\ [Next]_vars => RetrievalInv'
<1> SUFFICES ASSUME RetrievalInv, [Next]_vars PROVE RetrievalInv'
  OBVIOUS
<1> USE DEF RetrievalInv
<1>0. Cardinality(chunks) \in Nat /\ chunks \subseteq Chunks
  BY FS_CardinalityType DEF CatalogTyped
<1>1. CASE Fts
  <2>1. CatalogTyped'
    BY <1>1 DEF Fts, CatalogTyped
  <2>2. lexical' \in Lists
    <3>1. PICK matching \in 0..Cardinality(chunks) : lexical' \in Results(matching)
      BY <1>1 DEF Fts
    <3>2. matching \in Nat
      BY <1>0
    <3> QED BY <1>0, <3>1, <3>2, ResultsAreLists
  <2>3. Asked' /\ Answers'
    BY <1>1, <2>2 DEF Fts, Asked, Answers
  <2> QED BY <2>1, <2>3
<1>2. CASE Vector
  <2>1. CatalogTyped'
    BY <1>2 DEF Vector, CatalogTyped
  <2>2. semantic' \in Lists
    <3>1. PICK reached \in 0..Cardinality(chunks) :
                 \E found \in Results(reached) : semantic' = found
      BY <1>2 DEF Vector
    <3>2. reached \in Nat
      BY <1>0
    <3> QED BY <1>0, <3>1, <3>2, ResultsAreLists
  <2>3. Asked'
    BY <1>2, <2>2 DEF Vector, Asked
  <2>4. Answers'
    <3> DEFINE items == Select(Candidates(lexical, semantic'))
    <3>1. PICK found :
            /\ semantic' = found
            /\ noAnswer' = Weak(lexical, found, Select(Candidates(lexical, found)))
            /\ selected' = IF Weak(lexical, found, Select(Candidates(lexical, found)))
                             THEN <<>> ELSE Select(Candidates(lexical, found))
      BY <1>2 DEF Vector
    <3>2. /\ noAnswer' = Weak(lexical, semantic', items)
          /\ selected' = IF Weak(lexical, semantic', items) THEN <<>> ELSE items
          /\ lexical' = lexical
      BY <1>2, <3>1 DEF Vector
    <3> QED BY <3>2 DEF Answers
  <2> QED BY <2>1, <2>3, <2>4
<1>3. CASE Ask
  BY <1>3, EmptyListed DEF Ask, CatalogTyped, Asked, Answers
<1>4. CASE Publish
  <2>1. CatalogTyped'
    BY <1>4, CatalogStep DEF Publish
  <2>2. Asked' /\ Answers'
    BY <1>4 DEF Publish, retrieval, Asked, Answers
  <2> QED BY <2>1, <2>2
<1>5. CASE UNCHANGED vars
  BY <1>5 DEF vars, retrieval, CatalogTyped, Asked, Answers
<1> QED BY <1>1, <1>2, <1>3, <1>4, <1>5 DEF Next

\* The invariant holds in every state.
THEOREM RetrievalInductive == Spec => []RetrievalInv
<1> QED BY InitInv, StepInv, PTL DEF Spec

-----------------------------------------------------------------------------
(***************************************************************************)
(* The properties.                                                         *)
(***************************************************************************)

\* The context is what the selection makes of two lists, or empty.
LEMMA SelectedIs ==
    ASSUME RetrievalInv
    PROVE  /\ lexical \in Lists /\ semantic \in Lists
           /\ selected = <<>> \/ selected = Select(Candidates(lexical, semantic))
           /\ stage = "answered" /\ ~noAnswer =>
                selected = Select(Candidates(lexical, semantic))
           /\ noAnswer \in BOOLEAN
<1>1. CASE stage = "answered"
  <2> DEFINE items == Select(Candidates(lexical, semantic))
  <2>1. /\ noAnswer = Weak(lexical, semantic, items)
        /\ selected = IF Weak(lexical, semantic, items) THEN <<>> ELSE items
    BY <1>1 DEF RetrievalInv, Answers
  <2>2. Weak(lexical, semantic, items) \in BOOLEAN
    BY DEF Weak, Less
  <2> HIDE DEF items
  <2>3. /\ selected = <<>> \/ selected = items
        /\ ~noAnswer => selected = items
        /\ noAnswer \in BOOLEAN
    BY <2>1, <2>2
  <2> QED BY <2>3 DEF RetrievalInv, Asked, items
<1>2. CASE stage # "answered"
  BY <1>2 DEF RetrievalInv, Asked
<1> QED BY <1>1, <1>2

LEMMA TypeFromInv == RetrievalInv => RetrievalTypeOK
<1> SUFFICES ASSUME RetrievalInv PROVE RetrievalTypeOK
  OBVIOUS
<1>1. /\ versions \in [Policies -> SUBSET Contents]
      /\ current \in [Policies -> Contents \cup {Nothing}]
      /\ chunks \subseteq Chunks
      /\ stage \in {"fts", "vector", "answered"}
  BY DEF RetrievalInv, CatalogTyped, Asked
<1>2. \A results \in {lexical, semantic} :
        results \in Seq(Chunks) /\ Len(results) <= CandidateLimit
  BY SelectedIs DEF Lists
<1>3. CASE selected = <<>>
  <2>1. selected \in Seq(Chunks) /\ Len(selected) = 0 /\ DOMAIN selected = {}
    BY <1>3, EmptySeq
  <2>2. ASSUME NEW size \in Sizes PROVE Total(size, <<>>, {}) = 0
    <3>1. \A i \in 1..0 : <<>>[i] \in Chunks
      OBVIOUS
    <3>2. PICK g : Adds(g, size, <<>>, 0)
      BY <3>1, Totals
    <3>3. {} \in SUBSET (1..0)
      OBVIOUS
    <3> QED BY <3>2, <3>3 DEF Adds
  <2>3. Tokens \in Sizes /\ Characters \in Sizes
    BY RetrievalAssumption DEF Sizes
  <2>4. Total(Tokens, <<>>, {}) = 0 /\ Total(Characters, <<>>, {}) = 0
    BY <2>2, <2>3
  <2>5. /\ Len(selected) <= ContextLimit
        /\ Total(Tokens, selected, DOMAIN selected) <= TokenBudget
        /\ Total(Characters, selected, DOMAIN selected) <= CharacterBudget
    BY <1>3, <2>1, <2>4, RetrievalAssumption
  <2> QED BY <1>1, <1>2, <2>1, <2>5, SelectedIs DEF RetrievalTypeOK
<1>4. CASE selected # <<>>
  <2>1. lexical \in Lists /\ semantic \in Lists
        /\ selected = Select(Candidates(lexical, semantic))
    BY <1>4, SelectedIs
  <2>2. selected \in Seq(Chunks) /\ DOMAIN selected = 1..Len(selected)
    BY <2>1, ContextOfBest
  <2>3. /\ Len(selected) <= ContextLimit
        /\ Total(Tokens, selected, 1..Len(selected)) <= TokenBudget
        /\ Total(Characters, selected, 1..Len(selected)) <= CharacterBudget
    BY <2>1, ContextInBudget
  <2> QED BY <1>1, <1>2, <2>2, <2>3, SelectedIs DEF RetrievalTypeOK
<1> QED BY <1>3, <1>4

LEMMA AgreementFromInv == RetrievalInv => AgreementWins
<1> SUFFICES ASSUME RetrievalInv, LowRanksOutweigh,
                    NEW x \in ToSet(lexical) \cap ToSet(semantic),
                    NEW y \in Retrieved \ (ToSet(lexical) \cap ToSet(semantic))
             PROVE  Rank(Fused(lexical, semantic), x) < Rank(Fused(lexical, semantic), y)
  BY DEF AgreementWins
<1>1. lexical \in Lists /\ semantic \in Lists
  BY SelectedIs
<1>2. /\ x \in FoundIn(lexical, semantic)
      /\ y \in FoundIn(lexical, semantic) \ (ToSet(lexical) \cap ToSet(semantic))
  BY DEF Retrieved, FoundIn
<1>3. Precedes(lexical, semantic, x, y)
  BY <1>1, <1>2, BothOutweighOne
<1> QED BY <1>1, <1>2, <1>3, RankInFused

LEMMA BestFromInv == RetrievalInv => BestOfText
<1> SUFFICES ASSUME RetrievalInv PROVE BestOfText
  OBVIOUS
<1>1. CASE selected = <<>>
  BY <1>1 DEF BestOfText, IsInjective, ToSet
<1>2. CASE selected # <<>>
  <2>1. lexical \in Lists /\ semantic \in Lists
        /\ selected = Select(Candidates(lexical, semantic))
    BY <1>2, SelectedIs
  <2>2. /\ DOMAIN selected = 1..Len(selected)
        /\ \A i, j \in 1..Len(selected) : selected[i] = selected[j] => i = j
        /\ \A i \in 1..Len(selected), y \in FoundIn(lexical, semantic) :
             TextOf(selected[i]) = TextOf(y) =>
               selected[i] = y \/ Precedes(lexical, semantic, selected[i], y)
    BY <2>1, ContextOfBest
  <2>3. IsInjective(selected)
    BY <2>2 DEF IsInjective
  <2>4. ASSUME NEW x \in ToSet(selected), NEW y \in Retrieved, TextOf(x) = TextOf(y)
        PROVE  x = y \/ Precedes(lexical, semantic, x, y)
    <3>1. PICK i \in 1..Len(selected) : selected[i] = x
      BY <2>2 DEF ToSet
    <3> QED BY <2>2, <2>4, <3>1 DEF Retrieved, FoundIn
  <2> QED BY <2>3, <2>4 DEF BestOfText
<1> QED BY <1>1, <1>2

LEMMA LeftOutFromInv == RetrievalInv => LeftOutForCause
<1> SUFFICES ASSUME RetrievalInv, Answered, ~noAnswer,
                    NEW x \in Retrieved \ ToSet(selected)
             PROVE  \/ \E y \in Retrieved :
                         TextOf(y) = TextOf(x) /\ Precedes(lexical, semantic, y, x)
                    \/ Cardinality(Ahead(x)) = ContextLimit
                    \/ Total(Tokens, selected, Ahead(x)) + Tokens[Unit(x)] > TokenBudget
                    \/ Total(Characters, selected, Ahead(x)) + Characters[Unit(x)]
                         > CharacterBudget
  BY DEF LeftOutForCause
<1>1. lexical \in Lists /\ semantic \in Lists
      /\ selected = Select(Candidates(lexical, semantic))
  BY SelectedIs DEF Answered
<1>2. DOMAIN selected = 1..Len(selected)
  BY <1>1, ContextOfBest
<1>3. x \in FoundIn(lexical, semantic) /\ FoundIn(lexical, semantic) = Retrieved
  BY DEF Retrieved, FoundIn
<1>4. \A i \in 1..Len(selected) : selected[i] # x
  BY <1>2 DEF ToSet
<1>5. Ahead(x) = {i \in 1..Len(selected) : Precedes(lexical, semantic, selected[i], x)}
  BY <1>2 DEF Ahead
<1> DEFINE ahead == Ahead(x)
<1> HIDE DEF ahead
<1>6. ahead = {i \in 1..Len(selected) : Precedes(lexical, semantic, selected[i], x)}
  BY <1>5 DEF ahead
<1>7. \/ \E y \in FoundIn(lexical, semantic) :
           TextOf(y) = TextOf(x) /\ Precedes(lexical, semantic, y, x)
      \/ Cardinality(ahead) = ContextLimit
      \/ Total(Tokens, selected, ahead) + Tokens[Unit(x)] > TokenBudget
      \/ Total(Characters, selected, ahead) + Characters[Unit(x)] > CharacterBudget
  BY <1>1, <1>3, <1>4, <1>6, ContextLeavesOut
<1> QED BY <1>3, <1>7 DEF ahead

LEMMA NoAnswerFromInv == RetrievalInv => NoAnswerForCause
<1> SUFFICES ASSUME RetrievalInv, BestRankReaches, Answered, noAnswer, Retrieved # {},
                    Fits(Start, Head(Fused(lexical, semantic)))
             PROVE  FALSE
  BY DEF NoAnswerForCause
<1>1. lexical \in Lists /\ semantic \in Lists
  BY SelectedIs
<1>2. ~Weak(lexical, semantic, Select(Candidates(lexical, semantic)))
  <2>1. lexical # <<>> \/ semantic # <<>>
    BY DEF Retrieved, ToSet
  <2> QED BY <1>1, <2>1, StrongIfFits
<1>3. noAnswer = Weak(lexical, semantic, Select(Candidates(lexical, semantic)))
  BY DEF RetrievalInv, Answers, Answered
<1> QED BY <1>2, <1>3

\* Every variable has its type, the queries keep within their limit and the context
\* within its limit and its two budgets (the loop of retrieve).
THEOREM Typed == Spec => []RetrievalTypeOK
<1> QED BY RetrievalInductive, TypeFromInv, PTL

\* Two of the ranks that the queries allow outweigh any one rank, so that fusion puts
\* what both found before what only one found (reciprocal_rank_fusion).
THEOREM Agreement == Spec => []AgreementWins
<1> QED BY RetrievalInductive, AgreementFromInv, PTL

\* The context cites of each text the chunk that was found best, and that once
\* (_deduplicate).
THEOREM Best == Spec => []BestOfText
<1> QED BY RetrievalInductive, BestFromInv, PTL

\* Whatever was found and is left out repeats something better or has no room where
\* its turn comes: the selection loses nothing else, though it skips what does not fit
\* and goes on.
THEOREM LeftOut == Spec => []LeftOutForCause
<1> QED BY RetrievalInductive, LeftOutFromInv, PTL

\* If the best rank of one query reaches the threshold, there is an answer wherever
\* there is a chunk and the first of the line fits the budgets.
THEOREM NoAnswer == Spec => []NoAnswerForCause
<1> QED BY RetrievalInductive, NoAnswerFromInv, PTL
=============================================================================
