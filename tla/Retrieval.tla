----------------------------- MODULE Retrieval -----------------------------
(***************************************************************************)
(* HybridRetriever.retrieve over the catalogue that publication keeps: two *)
(* queries, one by words and one by embedding, their fusion, and the       *)
(* selection of the context under budgets.  The catalogue may change       *)
(* between the queries.  It is PublishedCatalog, which Publication         *)
(* implements.                                                             *)
(*                                                                         *)
(* The queries' own scores are used for nothing but their order, so a      *)
(* query returns chunks in any order.  Its repository marks every chunk    *)
(* approved, and no reranker is configured.                                *)
(***************************************************************************)
EXTENDS Integers, Sequences, FiniteSets, FiniteSetsExt, SequencesExt

CONSTANTS
    Policies, Contents, Nothing, Keys, Units,   \* see PublishedCatalog
    Id,               \* document_chunks.id of each chunk
    Text,             \* the cleaned and normalised text of each unit
    Tokens,           \* token_count of each unit
    Characters,       \* length of each unit's cleaned content
    RankConstant,     \* rank_constant
    CandidateLimit,   \* candidate_limit
    ContextLimit,     \* context_limit
    TokenBudget,      \* token_budget
    CharacterBudget,  \* character_budget
    Threshold         \* confidence_threshold, as <<numerator, denominator>>

VARIABLES
    versions, chunks, current,   \* the catalogue
    stage,      \* where retrieve is
    lexical,    \* what the first query returned
    semantic,   \* what the second query returned
    selected,   \* the context's evidence
    noAnswer    \* the context's no_answer

Catalog == INSTANCE PublishedCatalog WITH
    Storage <- {},
    record <- [k \in Keys |-> Nothing],
    origin <- [k \in Keys |-> Nothing],
    mortgagors <- [k \in Keys |-> {}]

retrieval == <<stage, lexical, semantic, selected, noAnswer>>

vars == <<versions, chunks, current, retrieval>>

Chunks == UNION {{<<d, c, i>> : i \in DOMAIN Units[c]} : d \in Policies, c \in Contents}

Unit(x) == Units[x[2]][x[3]]

ASSUME RetrievalAssumption ==
    /\ \A c \in Contents : Units[c] \in Seq(Keys)
    /\ Id \in [Chunks -> Nat]
    /\ \A x, y \in Chunks : Id[x] = Id[y] => x = y
    /\ Tokens \in [Keys -> Nat] /\ Characters \in [Keys -> Nat]
    /\ DOMAIN Text = Keys
    /\ RankConstant \in Nat \ {0}
    /\ CandidateLimit \in 1..100
    /\ ContextLimit \in Nat /\ TokenBudget \in Nat /\ CharacterBudget \in Nat
    /\ Threshold \in Nat \X (Nat \ {0})

(***************************************************************************)
(* reciprocal_rank_fusion.  Scores are fractions, never rounded.           *)
(***************************************************************************)
Rank(results, x) == CHOOSE i \in DOMAIN results : results[i] = x

Found(results, x) == \E i \in DOMAIN results : results[i] = x

Reciprocal(results, x) == <<1, RankConstant + Rank(results, x)>>

Plus(p, q) == <<p[1] * q[2] + q[1] * p[2], p[2] * q[2]>>

Less(p, q) == p[1] * q[2] < q[1] * p[2]

\* Mutation: the second query's score replaces the first's.
ScoreOfLast(lex, sem, x) ==
    IF Found(sem, x) THEN Reciprocal(sem, x) ELSE Reciprocal(lex, x)

Score(lex, sem, x) ==
    IF Found(lex, x) /\ Found(sem, x) THEN Plus(Reciprocal(lex, x), Reciprocal(sem, x))
    ELSE IF Found(lex, x) THEN Reciprocal(lex, x) ELSE Reciprocal(sem, x)

\* The key of sorted(): descending score, then id.
Precedes(lex, sem, x, y) ==
    LET p == Score(lex, sem, x)
        q == Score(lex, sem, y)
    IN  Less(q, p) \/ (~Less(p, q) /\ Id[x] < Id[y])

Fused(lex, sem) ==
    LET found == ToSet(lex) \cup ToSet(sem)
    IN  [i \in 1..Cardinality(found) |->
           CHOOSE x \in found :
             Cardinality({y \in found : Precedes(lex, sem, y, x)}) = i - 1]

(***************************************************************************)
(* _clean_evidence and _deduplicate, and the selection.                    *)
(***************************************************************************)
TextOf(x) == Text[Unit(x)]

\* Mutation: the last item of a text is kept.
DistinctKeepingLast(items) ==
    LET last == {i \in DOMAIN items :
                   \A j \in (i + 1)..Len(items) : TextOf(items[j]) # TextOf(items[i])}
    IN  [n \in 1..Cardinality(last) |->
           items[CHOOSE i \in last : Cardinality(last \cap 1..i) = n]]

\* The first item of each text.
Distinct(items) ==
    LET first == {i \in DOMAIN items : \A j \in 1..(i - 1) : TextOf(items[j]) # TextOf(items[i])}
    IN  [n \in 1..Cardinality(first) |->
           items[CHOOSE i \in first : Cardinality(first \cap 1..i) = n]]

Start == [items |-> <<>>, tokens |-> 0, characters |-> 0]

\* Mutation: one item more.
FitsOneMore(context, x) ==
    /\ Len(context.items) <= ContextLimit
    /\ context.tokens + Tokens[Unit(x)] <= TokenBudget
    /\ context.characters + Characters[Unit(x)] <= CharacterBudget

Fits(context, x) ==
    /\ Len(context.items) < ContextLimit
    /\ context.tokens + Tokens[Unit(x)] <= TokenBudget
    /\ context.characters + Characters[Unit(x)] <= CharacterBudget

Add(context, x) ==
    [items |-> Append(context.items, x),
     tokens |-> context.tokens + Tokens[Unit(x)],
     characters |-> context.characters + Characters[Unit(x)]]

\* Mutation: the first item that does not fit ends the selection.
SelectUntilFull(candidates) ==
    FoldLeft(LAMBDA context, x : IF Fits(context, x) THEN Add(context, x)
                                 ELSE [context EXCEPT !.tokens = TokenBudget + 1],
             Start, candidates).items

\* An item that does not fit is skipped, and later ones may fit.
Select(candidates) ==
    FoldLeft(LAMBDA context, x : IF Fits(context, x) THEN Add(context, x) ELSE context,
             Start, candidates).items

Candidates(lex, sem) == Distinct(Fused(lex, sem))

\* Mutation: the least of the scores counts.
WeakByLast(lex, sem, items) ==
    items = <<>> \/ Less(Score(lex, sem, Last(items)), Threshold)

\* Nothing was selected, or the first of it scores too low.
Weak(lex, sem, items) == items = <<>> \/ Less(Score(lex, sem, Head(items)), Threshold)

(***************************************************************************)
(* retrieve, and the catalogue.                                            *)
(***************************************************************************)

\* The results of a query that matches so many of the chunks there are.
Results(matching) ==
    LET n == IF matching < CandidateLimit THEN matching ELSE CandidateLimit
    IN  {results \in [1..n -> chunks] : IsInjective(results)}

\* The words of the query are in any number of chunks.
Fts ==
    /\ stage = "fts"
    /\ \E matching \in 0..Cardinality(chunks) : lexical' \in Results(matching)
    /\ stage' = "vector"
    /\ UNCHANGED <<versions, chunks, current, semantic, selected, noAnswer>>

\* Every chunk has a distance from the query, however great, but a scan of an
\* approximate index, which the database may have, need not reach them all.
Vector ==
    /\ stage = "vector"
    /\ \E reached \in 0..Cardinality(chunks) : \E found \in Results(reached) :
         LET items == Select(Candidates(lexical, found))
             weak == Weak(lexical, found, items)
         IN  /\ semantic' = found
             /\ selected' = IF weak THEN <<>> ELSE items
             /\ noAnswer' = weak
    /\ stage' = "answered"
    /\ UNCHANGED <<versions, chunks, current, lexical>>

\* The next request.
Ask ==
    /\ stage = "answered"
    /\ stage' = "fts" /\ lexical' = <<>> /\ semantic' = <<>>
    /\ selected' = <<>> /\ noAnswer' = FALSE
    /\ UNCHANGED <<versions, chunks, current>>

Publish ==
    /\ \E d \in Policies, c \in Contents : Catalog!PublishVersion(d, c)
    /\ UNCHANGED retrieval

Init ==
    /\ Catalog!Init
    /\ stage = "fts" /\ lexical = <<>> /\ semantic = <<>>
    /\ selected = <<>> /\ noAnswer = FALSE

Next == Fts \/ Vector \/ Ask \/ Publish

Spec == Init /\ [][Next]_vars
-----------------------------------------------------------------------------
(***************************************************************************)
(* Properties.                                                             *)
(***************************************************************************)
Answered == stage = "answered"

Retrieved == ToSet(lexical) \cup ToSet(semantic)

\* What the items at some places of the context take of a budget.
Total(size, items, places) == MapThenSumSet(LAMBDA i : size[Unit(items[i])], places)

\* The best rank of one query reaches the threshold, as 1/61 does 0.015.
BestRankReaches == ~Less(<<1, RankConstant + 1>>, Threshold)

\* Two of the lowest ranks score more than the best rank of one query, as 2/100 is
\* more than 1/61.
LowRanksOutweigh == CandidateLimit < RankConstant + 2

\* The type of every variable, with the limits of the queries and the budgets of the
\* context.
RetrievalTypeOK ==
    /\ versions \in [Policies -> SUBSET Contents]
    /\ current \in [Policies -> Contents \cup {Nothing}]
    /\ chunks \subseteq Chunks
    /\ stage \in {"fts", "vector", "answered"}
    /\ \A results \in {lexical, semantic} :
         results \in Seq(Chunks) /\ Len(results) <= CandidateLimit
    /\ selected \in Seq(Chunks) /\ Len(selected) <= ContextLimit
    /\ Total(Tokens, selected, DOMAIN selected) <= TokenBudget
    /\ Total(Characters, selected, DOMAIN selected) <= CharacterBudget
    /\ noAnswer \in BOOLEAN

\* What both queries found comes before what only one found, at whatever ranks:
\* with at most CandidateLimit results, two low reciprocals outweigh a high one.
AgreementWins ==
    LowRanksOutweigh /\ Answered =>
      LET order == Fused(lexical, semantic)
          both == ToSet(lexical) \cap ToSet(semantic)
      IN  \A x \in both, y \in Retrieved \ both : Rank(order, x) < Rank(order, y)

\* Of the chunks with one text, the context cites the one that was found best and
\* no other, not even where an older version of a page spaces the text differently
\* ("removes duplicate evidence", README.md:119).
BestOfText ==
    /\ IsInjective(selected)
    /\ \A x \in ToSet(selected), y \in Retrieved :
         TextOf(x) = TextOf(y) => x = y \/ Precedes(lexical, semantic, x, y)

\* The items of the context that come before x.
Ahead(x) == {i \in DOMAIN selected : Precedes(lexical, semantic, selected[i], x)}

\* What was found and is not in the context repeats something found better, or does
\* not fit on top of what is ahead of it.  Nothing else is lost.
LeftOutForCause ==
    Answered /\ ~noAnswer =>
      \A x \in Retrieved \ ToSet(selected) :
        \/ \E y \in Retrieved :
             TextOf(y) = TextOf(x) /\ Precedes(lexical, semantic, y, x)
        \/ Cardinality(Ahead(x)) = ContextLimit
        \/ Total(Tokens, selected, Ahead(x)) + Tokens[Unit(x)] > TokenBudget
        \/ Total(Characters, selected, Ahead(x)) + Characters[Unit(x)] > CharacterBudget

\* There is no answer only where neither query found anything or where the best that
\* was found does not fit the budgets: it is never for want of likeness, if the best
\* rank of one query reaches the threshold.
NoAnswerForCause ==
    BestRankReaches /\ Answered /\ noAnswer =>
      Retrieved = {} \/ ~Fits(Start, Head(Fused(lexical, semantic)))
=============================================================================
