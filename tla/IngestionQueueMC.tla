-------------------------- MODULE IngestionQueueMC --------------------------
(***************************************************************************)
(* IngestionQueue for TLC.                                                 *)
(***************************************************************************)
EXTENDS IngestionQueue, TLC

\* Workers can be swapped that keep time alike and have the same codecs.
Symmetry ==
    Permutations(Jobs) \cup
      {p \in Permutations(Workers) :
         \A w \in Workers, S \in {Punctual, JsonbAsDict, IntervalAsText} :
            w \in S <=> p[w] \in S}
=============================================================================
