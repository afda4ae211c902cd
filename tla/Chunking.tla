------------------------------ MODULE Chunking ------------------------------
(***************************************************************************)
(* chunk_units (ingestion/chunking.py): the windows of words that the text *)
(* of one parsed unit is cut into.  Words are numbered from 1.             *)
(***************************************************************************)
EXTENDS Integers

CONSTANTS
    MaxTokens,      \* max_tokens
    OverlapTokens   \* overlap_tokens

\* "Chunk budget is invalid." otherwise.
ASSUME ChunkBudget ==
    /\ MaxTokens \in Nat \ {0}
    /\ OverlapTokens \in Nat
    /\ OverlapTokens < MaxTokens

AtLeastOne(n) == IF n < 1 THEN 1 ELSE n

\* Six characters to a word, four to a token.
WordsPerChunk == AtLeastOne((MaxTokens * 4) \div 6)

OverlapWords == (OverlapTokens * 4) \div 6

\* How far the cursor moves.
Step == AtLeastOne(WordsPerChunk - OverlapWords)

\* The loop gets to the k-th window, from 0, of a unit of n words: the window
\* before it, if any, did not reach the end.
HasWindow(k, n) == n > 0 /\ (k = 0 \/ (k - 1) * Step + WordsPerChunk < n)

FirstWord(k) == k * Step + 1

LastWord(k, n) ==
    IF k * Step + WordsPerChunk < n THEN k * Step + WordsPerChunk ELSE n
=============================================================================
