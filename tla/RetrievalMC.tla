---------------------------- MODULE RetrievalMC ----------------------------
(***************************************************************************)
(* Retrieval for TLC.                                                      *)
(***************************************************************************)
EXTENDS Retrieval, TLC

CONSTANTS a, b, k1, k2, k3, k4, k5

\* A page and its next version, which spaces the first unit differently.
SomeUnits == [c \in Contents |-> IF c = a THEN <<k1, k2, k5>> ELSE <<k3, k4>>]

SomeText == [k \in Keys |-> IF k = k3 THEN k1 ELSE k]

\* With budgets of 4 and 5: k5 is too long, k2 and k3 together have too many tokens,
\* and k1, k2 and k4 have room but for the limit.
SomeTokens == k1 :> 1 @@ k2 :> 2 @@ k3 :> 3 @@ k4 :> 1 @@ k5 :> 1

SomeCharacters == k1 :> 2 @@ k2 :> 1 @@ k3 :> 3 @@ k4 :> 1 @@ k5 :> 6

\* Ids are in the order of the units, later versions first.
SomeIds == [x \in Chunks |-> 2 * x[3] + (IF x[2] = a THEN 1 ELSE 0)]

\* Less than the best reciprocal, more than the others.
SomeThreshold == <<3, 10>>
=============================================================================
