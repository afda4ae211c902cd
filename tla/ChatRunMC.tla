----------------------------- MODULE ChatRunMC -----------------------------
(***************************************************************************)
(* ChatRun for TLC.                                                        *)
(***************************************************************************)
EXTENDS ChatRun, TLC

CONSTANTS PolicyAnswers, AuctionAnswers, PublicAnswers

SomeOutcomes ==
    [b \in Branches |-> CASE b = "knowledge_rag" -> PolicyAnswers
                         [] b = "sql_auction_search" -> AuctionAnswers
                         [] b = "mcp_public_tools" -> PublicAnswers]

\* retry_budget of api/v1/chat.py.
ChatBudget == [b \in Branches |-> IF b = "mcp_public_tools" THEN 2 ELSE 1]

Symmetry == Permutations(Runs) \cup Permutations(Users)
=============================================================================
