---------------------------- MODULE ChatRunProofs ----------------------------
(***************************************************************************)
(* The safety properties of ChatRun, for every set of runs and users, any  *)
(* retry budget, every subset of what the services may answer and any      *)
(* number of faults.                                                       *)
(*                                                                         *)
(* ChatInv is inductive.  Only the owner is shared: a run's channels are   *)
(* reset before anything is added to them, whatever checkpoint it started  *)
(* from, so what holds of a run (RunOK) depends on nothing but the run.    *)
(* Its core is that until the answer is verified the channels are exactly  *)
(* what the branches returned (Gathered), in whatever order they did.      *)
(*                                                                         *)
(* The runs implement ChatTurn.  Next to ChatInv that takes AllHeard: the  *)
(* graph never moves on from a branch that has returned nothing.           *)
(***************************************************************************)
EXTENDS ChatRun, TLAPS, FiniteSetTheorems

-----------------------------------------------------------------------------
(***************************************************************************)
(* The invariant.                                                          *)
(***************************************************************************)

\* The steps of the graph after the channels are reset, while the branches' results
\* are gathered, and after they are verified.
Gathering == {"validation", "routing", "extraction", "branches", "evidence_correlation"}
Verifying == {"compliance_disclaimer", "synthesis", "trace_finalization", "closing"}
Own == Gathering \cup {"grounding_verification"} \cup Verifying

\* Those in which the services are called, or have been; and all of them.
Called == Own \ {"validation", "routing", "extraction"}
Inside == Own \cup {"initialize_run"}

\* A fact, a citation and a summary of run r.
Of(r, f) == [kind |-> f.kind, cites |-> f.cites, by |-> r]
Cite(r, i) == [id |-> i, by |-> r]
Sum(r, cites) == [cites |-> cites, by |-> r]

FactsFrom(r, got) == UNION {{Of(r, f) : f \in Given(g).facts} : g \in got}
CitesFrom(r, got) == UNION {{Cite(r, i) : i \in Given(g).cites} : g \in got}
MissingFrom(r, got) ==
    {[source |-> g[1], by |-> r] : g \in {k \in got : Given(k).unavailable}}

\* Each branch that is done has returned once, something that its service may answer.
GotOK(x) ==
    /\ \A g \in x.got : /\ g \in Results /\ g[2] \in Outcomes[g[1]]
                        /\ g[1] \in x.ch.caps \ x.left
    /\ \A g, k \in x.got : g[1] = k[1] => g = k

\* Facts, citations and failed sources are those the branches returned.
Gathered(r, x) ==
    /\ x.ch.facts = FactsFrom(r, x.got)
    /\ x.ch.cites = CitesFrom(r, x.got)
    /\ x.ch.unavailable = MissingFrom(r, x.got)

\* So is the summary.
Summarised(r, x) ==
    IF \E g \in x.got : g[1] = "mcp_public_tools" /\ Given(g).summary # None
    THEN \E g \in x.got : /\ g[1] = "mcp_public_tools" /\ Given(g).summary # None
                          /\ x.ch.summary = Sum(r, Given(g).summary)
    ELSE x.ch.summary = None

\* It may have been replaced by a candidate.
Correlated(r, x) ==
    \/ Summarised(r, x)
    \/ \E f \in OfKind(x.ch, "candidate") : x.ch.summary = Sum(r, f.cites)

\* What was found is left out only if it is not grounded.
Checked(r, x) ==
    /\ x.ch.facts \subseteq FactsFrom(r, x.got)
    /\ x.ch.cites = CitesFrom(r, x.got)
    /\ x.ch.unavailable = MissingFrom(r, x.got)
    /\ x.ch.summary # None =>
         /\ x.ch.summary.by = r
         /\ Grounds(CiteIds(x.ch), x.ch.summary.cites)
         /\ "mcp_public_tools" \in x.ch.caps
    /\ \A f \in x.ch.facts :
         Verified(x.ch, f) \/ (f.kind = "candidate" /\ x.ch.summary = None)
    /\ \A f \in FactsFrom(r, x.got) : Verified(x.ch, f) => f \in x.ch.facts
    \* A grounded summary, with grounded candidates only, stays or is replaced by one
    \* of them.
    /\ \A g \in x.got :
         LET ans == Given(g)
         IN  (g[1] = "mcp_public_tools" /\ ans.summary # None /\ ans.summary \subseteq ans.cites)
               => x.ch.summary # None

\* No service has been called yet.
NoCalls(x) == (\A b \in Branches : x.calls[b] = 0) /\ x.left = {} /\ x.got = {}

\* What is asked for is called, as often as the budget allows.
CallsOK(x) ==
    /\ ~x.valid => x.asked = {}
    /\ x.left \subseteq x.ch.caps
    /\ \A b \in Branches : /\ x.calls[b] <= Attempts(b)
                           /\ b \in x.left => x.calls[b] < Attempts(b)
    /\ x.step \notin Own => NoCalls(x)
    /\ x.step \in Own =>
         /\ \A b \in Branches : x.calls[b] > 0 => b \in x.ch.caps
         /\ ~x.valid => x.ch.caps = {}
         /\ x.ch.intent = IntentOf(x.ch.caps)
    /\ x.step \in {"validation", "routing"} => NoCalls(x) /\ ~x.ch.errors /\ x.ch.caps = {}
    /\ x.step = "routing" => x.valid
    /\ x.step = "extraction" => NoCalls(x)
    /\ x.step \in Own \ {"validation", "routing"} =>
         (x.valid /\ x.asked # {} => x.ch.caps = x.asked)
    /\ x.step \in Called => \A b \in x.ch.caps \ x.left : x.calls[b] > 0
    /\ x.step \in Called \ {"branches"} => x.left = {}

\* What has been sent, so far.
Start(r) == <<Event("run.started", r)>>
Delta(r) == Append(Start(r), Event("answer.delta", r))
Complete(r) == Append(Delta(r), Event("answer.completed", r))
Sendings(r) == {<<>>, Start(r), Delta(r), Complete(r)}

StreamOK(r, x) ==
    /\ x.step \in {"new", "claim", "check"} => x.sent = <<>>
    /\ x.step \in {"initialize_run", "grounding_verification", "compliance_disclaimer",
                   "synthesis"} \cup Gathering => x.sent = Start(r)
    /\ x.step = "trace_finalization" => x.sent = Delta(r)
    /\ x.step = "closing" => x.sent = Complete(r) /\ x.saw
    /\ x.step = "ended" =>
         \/ x.sent = Complete(r)
         \/ \E s \in Sendings(r) : x.sent = Append(s, Event("run.failed", r))
    /\ x.step = "cut" => x.sent \in Sendings(r)

\* The answer is made of the channels, with a disclaimer that the intent decides on.
AnswerOK(r, x) ==
    /\ x.step \in {"synthesis", "trace_finalization", "closing"} =>
         x.ch.disclaimer = (x.ch.intent \in {"sql_auction_search", "mcp_public_tools", Combined})
    /\ x.step = "closing" => x.ch.final = Response(r, x.ch)

RunOK(r, x) ==
    /\ x \in RunRecord
    /\ x.step # "new" => x.user \in Users
    /\ x.step = "new" => x.sent = <<>>
    /\ GotOK(x)
    /\ CallsOK(x)
    /\ x.step \in Gathering => Gathered(r, x) /\ Summarised(r, x)
    /\ x.step = "grounding_verification" => Gathered(r, x) /\ Correlated(r, x)
    /\ x.step \in Verifying => Checked(r, x)
    /\ StreamOK(r, x)
    /\ AnswerOK(r, x)

\* Who gets as far as the graph is the owner of the thread.
OwnerOK(x, user) ==
    x.step \in Inside \/ (\E i \in DOMAIN x.sent : x.sent[i].event = "run.started")
      => x.user = user

ChatInv ==
    /\ owner \in Users \cup {NoUser}
    /\ checkpoint \in [Users -> Channels]
    /\ faults \in 0..MaxFaults
    /\ run \in [Runs -> RunRecord]
    /\ \A r \in Runs : RunOK(r, run[r]) /\ OwnerOK(run[r], owner)

-----------------------------------------------------------------------------
(***************************************************************************)
(* What the services answer.                                               *)
(***************************************************************************)

Statements == [kind : Kinds, cites : SUBSET Ids]

Answers ==
    [facts : SUBSET Statements, cites : SUBSET Ids, summary : (SUBSET Ids) \cup {None},
     unavailable : BOOLEAN]

KindOf(b) == IF b = "knowledge_rag" THEN "evidence"
             ELSE IF b = "sql_auction_search" THEN "card" ELSE "candidate"

\* An answer of branch b: its kind of facts, and a summary only of public records.  A
\* grounded summary comes with grounded candidates.
AnswerOf(b, ans) ==
    /\ ans \in Answers
    /\ \A f \in ans.facts : f.kind = KindOf(b)
    /\ b # "mcp_public_tools" => ans.summary = None
    /\ ans.summary # None /\ ans.summary \subseteq ans.cites =>
         ans.summary # {} /\ \A f \in ans.facts : Grounds(ans.cites, f.cites)

LEMMA NothingIsAnswer ==
    /\ \A b \in Branches : AnswerOf(b, Nothing)
    /\ \A b \in Branches : AnswerOf(b, [Nothing EXCEPT !.unavailable = TRUE])
<1>1. Nothing \in Answers /\ Nothing.facts = {} /\ Nothing.summary = None
  BY DEF Nothing, Answers
<1> DEFINE ans == [Nothing EXCEPT !.unavailable = TRUE]
<1>2. ans \in Answers /\ ans.facts = {} /\ ans.summary = None
  BY DEF Nothing, Answers
<1> HIDE DEF ans
<1> QED BY <1>1, <1>2 DEF AnswerOf, ans

LEMMA Known ==
    /\ Policy \subseteq Ids /\ Policy # {} /\ Auction \subseteq Ids /\ Auction # {}
    /\ Schedule \subseteq Ids /\ Schedule # {}
    /\ \A i \in 1..2 : Parcel(i) \subseteq Ids /\ Parcel(i) # {}
    /\ \A i \in 1..2 : Parcel(i) \in {Parcel(1), Parcel(2)}
    /\ Parcel(1) \cap Parcel(2) = {}
<1>1. \A i \in 1..2 : Parcel(i) \in {Parcel(1), Parcel(2)}
  <2>1. \A i \in 1..2 : i = 1 \/ i = 2
    OBVIOUS
  <2> QED BY <2>1
<1>2. Policy \subseteq Ids /\ Auction \subseteq Ids /\ Schedule \subseteq Ids
      /\ Parcel(1) \subseteq Ids /\ Parcel(2) \subseteq Ids
  BY DEF Ids
<1>3. Policy # {} /\ Auction # {} /\ Schedule # {} /\ Parcel(1) # {} /\ Parcel(2) # {}
      /\ Parcel(1) \cap Parcel(2) = {}
  BY DEF Policy, Auction, Schedule, Parcel
<1> QED BY <1>1, <1>2, <1>3

LEMMA PolicyAnswers ==
    ASSUME NEW o \in {"policy", "uncited policy"}
    PROVE  AnswerOf("knowledge_rag", Answer(o))
<1>1. CASE o = "policy"
  <2> DEFINE f == Fact("evidence", Policy)
             ans == [Nothing EXCEPT !.facts = {f}, !.cites = Policy]
  <2>1. Answer(o) = ans
    BY <1>1 DEF Answer
  <2>2. f \in Statements /\ f.kind = "evidence"
    BY Known DEF Fact, Statements, Kinds
  <2> HIDE DEF f
  <2>3. ans \in Answers /\ ans.facts = {f} /\ ans.summary = None
    BY <2>2, Known DEF Nothing, Answers
  <2> HIDE DEF ans
  <2> QED BY <2>1, <2>2, <2>3 DEF AnswerOf, KindOf
<1>2. CASE o = "uncited policy"
  <2> DEFINE f == Fact("evidence", {})
             ans == [Nothing EXCEPT !.facts = {f}]
  <2>1. Answer(o) = ans
    BY <1>2 DEF Answer
  <2>2. f \in Statements /\ f.kind = "evidence"
    BY Known DEF Fact, Statements, Kinds
  <2> HIDE DEF f
  <2>3. ans \in Answers /\ ans.facts = {f} /\ ans.summary = None
    BY <2>2, Known DEF Nothing, Answers
  <2> HIDE DEF ans
  <2> QED BY <2>1, <2>2, <2>3 DEF AnswerOf, KindOf
<1> QED BY <1>1, <1>2

LEMMA AuctionAnswers ==
    ASSUME NEW o \in {"cards", "uncited cards"}
    PROVE  AnswerOf("sql_auction_search", Answer(o))
<1>1. CASE o = "cards"
  <2> DEFINE f == Fact("card", Auction)
             ans == [Nothing EXCEPT !.facts = {f}, !.cites = Auction]
  <2>1. Answer(o) = ans
    BY <1>1 DEF Answer
  <2>2. f \in Statements /\ f.kind = "card"
    BY Known DEF Fact, Statements, Kinds
  <2> HIDE DEF f
  <2>3. ans \in Answers /\ ans.facts = {f} /\ ans.summary = None
    BY <2>2, Known DEF Nothing, Answers
  <2> HIDE DEF ans
  <2> QED BY <2>1, <2>2, <2>3 DEF AnswerOf, KindOf
<1>2. CASE o = "uncited cards"
  <2> DEFINE f == Fact("card", Policy)
             ans == [Nothing EXCEPT !.facts = {f}]
  <2>1. Answer(o) = ans
    BY <1>2 DEF Answer
  <2>2. f \in Statements /\ f.kind = "card"
    BY Known DEF Fact, Statements, Kinds
  <2> HIDE DEF f
  <2>3. ans \in Answers /\ ans.facts = {f} /\ ans.summary = None
    BY <2>2, Known DEF Nothing, Answers
  <2> HIDE DEF ans
  <2> QED BY <2>1, <2>2, <2>3 DEF AnswerOf, KindOf
<1> QED BY <1>1, <1>2

\* The property, or the two, of an answer.
Both == Parcel(1) \cup Parcel(2)
One == Fact("candidate", Parcel(1))
Properties == {Fact("candidate", Parcel(i)) : i \in 1..2}

LEMMA PropertiesTyped ==
    /\ \A f \in Properties : /\ f \in Statements /\ f.kind = "candidate"
                             /\ Grounds(Both, f.cites)
    /\ Both \subseteq Ids /\ Parcel(1) \subseteq Ids /\ Parcel(2) \subseteq Ids
    /\ One \in Statements /\ One.kind = "candidate" /\ Grounds(Parcel(1), One.cites)
    /\ Parcel(1) # {} /\ ~(Parcel(2) \subseteq Parcel(1)) /\ Parcel(1) \subseteq Both
<1>1. 1 \in 1..2 /\ 2 \in 1..2
  OBVIOUS
<1>2. \A i \in 1..2 : /\ Fact("candidate", Parcel(i)) \in Statements
                      /\ Fact("candidate", Parcel(i)).kind = "candidate"
                      /\ Fact("candidate", Parcel(i)).cites = Parcel(i)
  BY Known DEF Fact, Statements, Kinds
<1>3. /\ One \in Statements /\ One.kind = "candidate" /\ One.cites = Parcel(1)
  BY <1>1, <1>2 DEF One
<1>4. ASSUME NEW f \in Properties
      PROVE  /\ f \in Statements /\ f.kind = "candidate" /\ Grounds(Both, f.cites)
  <2>1. PICK i \in 1..2 : f = Fact("candidate", Parcel(i))
    BY DEF Properties
  <2>2. Parcel(i) # {} /\ Parcel(i) \subseteq Both
    BY Known DEF Both
  <2> QED BY <1>2, <2>1, <2>2 DEF Grounds
<1> QED BY <1>1, <1>3, <1>4, Known DEF Both, Grounds

LEMMA PublicAnswers ==
    ASSUME NEW o \in {"schedule", "missing schedule", "property", "properties",
                      "uncited property", "no details", "tool error"}
    PROVE  AnswerOf("mcp_public_tools", Answer(o))
<1>1. CASE o \in {"schedule", "missing schedule"}
  <2> DEFINE ans == [Nothing EXCEPT !.summary = Schedule, !.cites = Schedule]
  <2>1. Answer(o) = ans
    BY <1>1 DEF Answer
  <2>2. ans \in Answers /\ ans.facts = {} /\ ans.summary = Schedule
    BY Known DEF Nothing, Answers
  <2> HIDE DEF ans
  <2> QED BY <2>1, <2>2, Known DEF AnswerOf
<1>2. CASE o = "property"
  <2> DEFINE ans == [Nothing EXCEPT !.facts = {One}, !.cites = Parcel(1), !.summary = Parcel(1)]
  <2>1. Answer(o) = ans
    BY <1>2 DEF Answer, One
  <2>2. ans \in Answers /\ ans.facts = {One} /\ ans.summary = Parcel(1) /\ ans.cites = Parcel(1)
    BY PropertiesTyped DEF Nothing, Answers
  <2> HIDE DEF ans
  <2> QED BY <2>1, <2>2, PropertiesTyped DEF AnswerOf, KindOf
<1>3. CASE o = "properties"
  <2> DEFINE ans == [Nothing EXCEPT !.facts = Properties, !.cites = Both, !.summary = Parcel(1)]
  <2>1. Answer(o) = ans
    BY <1>3 DEF Answer, Properties, Both
  <2>2. ans \in Answers /\ ans.facts = Properties /\ ans.summary = Parcel(1) /\ ans.cites = Both
    BY PropertiesTyped DEF Nothing, Answers
  <2> HIDE DEF ans
  <2> QED BY <2>1, <2>2, PropertiesTyped DEF AnswerOf, KindOf
<1>4. CASE o = "uncited property"
  <2> DEFINE ans == [Nothing EXCEPT !.facts = Properties, !.cites = Parcel(1),
                                    !.summary = Parcel(2)]
  <2>1. Answer(o) = ans
    BY <1>4 DEF Answer, Properties
  <2>2. /\ ans \in Answers /\ ans.facts = Properties
        /\ ans.summary = Parcel(2) /\ ans.cites = Parcel(1)
    BY PropertiesTyped DEF Nothing, Answers
  <2>3. ~(Parcel(2) \subseteq Parcel(1))
    BY PropertiesTyped
  <2> HIDE DEF ans
  <2> QED BY <2>1, <2>2, <2>3, PropertiesTyped DEF AnswerOf, KindOf
<1>5. CASE o = "no details"
  <2> DEFINE ans == [Nothing EXCEPT !.facts = {One}, !.cites = Parcel(1), !.unavailable = TRUE]
  <2>1. Answer(o) = ans
    BY <1>5 DEF Answer, One
  <2>2. ans \in Answers /\ ans.facts = {One} /\ ans.summary = None
    BY PropertiesTyped DEF Nothing, Answers
  <2> HIDE DEF ans
  <2> QED BY <2>1, <2>2, PropertiesTyped DEF AnswerOf, KindOf
<1>6. CASE o = "tool error"
  <2>1. Answer(o) = [Nothing EXCEPT !.unavailable = TRUE]
    BY <1>6 DEF Answer
  <2> QED BY <2>1, NothingIsAnswer DEF Branches
<1> QED BY <1>1, <1>2, <1>3, <1>4, <1>5, <1>6

\* Whatever a branch returns is an answer of it.
LEMMA GivenIsAnswer ==
    ASSUME NEW b \in Branches, NEW o \in Outcomes[b]
    PROVE  AnswerOf(b, Given(<<b, o>>))
<1>1. Given(<<b, o>>) = IF o \in Exceptions THEN [Nothing EXCEPT !.unavailable = TRUE]
                        ELSE Answer(o)
  BY DEF Given
<1>2. o \in Offered(b)
  BY ChatAssumption
<1>3. CASE o \in Exceptions
  BY <1>1, <1>3, NothingIsAnswer
<1>4. CASE o \notin Exceptions
  <2>1. Answer("nothing") = Nothing
    BY DEF Answer
  <2>2. CASE o = "nothing"
    BY <1>1, <1>4, <2>1, <2>2, NothingIsAnswer
  <2>3. CASE o # "nothing" /\ b = "knowledge_rag"
    <3>1. o \in {"policy", "uncited policy"}
      BY <1>2, <1>4, <2>3 DEF Offered
    <3> QED BY <1>1, <1>4, <2>3, <3>1, PolicyAnswers
  <2>4. CASE o # "nothing" /\ b = "sql_auction_search"
    <3>1. o \in {"cards", "uncited cards"}
      BY <1>2, <1>4, <2>4 DEF Offered
    <3> QED BY <1>1, <1>4, <2>4, <3>1, AuctionAnswers
  <2>5. CASE o # "nothing" /\ b = "mcp_public_tools"
    <3>1. o \in {"schedule", "missing schedule", "property", "properties",
                 "uncited property", "no details", "tool error"}
      BY <1>2, <1>4, <2>5 DEF Offered
    <3> QED BY <1>1, <1>4, <2>5, <3>1, PublicAnswers
  <2> QED BY <2>2, <2>3, <2>4, <2>5 DEF Branches
<1> QED BY <1>3, <1>4

-----------------------------------------------------------------------------
(***************************************************************************)
(* Intents, attempts, channels.                                            *)
(***************************************************************************)

\* Of capabilities, those of one alone name their branch.
LEMMA IntentTyped ==
    ASSUME NEW caps \in SUBSET Branches
    PROVE  /\ IntentOf(caps) \in Intents
           /\ caps = {} => IntentOf(caps) = Unsupported
           /\ caps # {} => IntentOf(caps) # Unsupported
           /\ "sql_auction_search" \in caps \/ "mcp_public_tools" \in caps =>
                IntentOf(caps) \in {"sql_auction_search", "mcp_public_tools", Combined}
<1>1. IsFiniteSet(caps)
  <2>1. IsFiniteSet(Branches)
    <3>1. IsFiniteSet({"knowledge_rag"})
      BY FS_Singleton
    <3>2. IsFiniteSet({"knowledge_rag"} \cup {"sql_auction_search"})
      BY <3>1, FS_AddElement
    <3>3. IsFiniteSet({"knowledge_rag"} \cup {"sql_auction_search"} \cup {"mcp_public_tools"})
      BY <3>2, FS_AddElement
    <3>4. Branches = {"knowledge_rag"} \cup {"sql_auction_search"} \cup {"mcp_public_tools"}
      BY DEF Branches
    <3> QED BY <3>3, <3>4
  <2> QED BY <2>1, FS_Subset
<1>2. Cardinality(caps) \in Nat
  BY <1>1, FS_CardinalityType
<1>3. CASE Cardinality(caps) >= 2
  <2>1. IntentOf(caps) = Combined
    BY <1>3 DEF IntentOf
  <2>2. caps # {}
    BY <1>2, <1>3, FS_EmptySet
  <2> QED BY <2>1, <2>2 DEF Intents, Combined, Unsupported
<1>4. CASE caps = {}
  <2>1. ~(Cardinality(caps) >= 2)
    BY <1>4, FS_EmptySet
  <2> QED BY <1>4, <2>1 DEF IntentOf, Intents
<1>5. CASE ~(Cardinality(caps) >= 2) /\ caps # {}
  <2>1. PICK b \in caps : IntentOf(caps) = b
    BY <1>5 DEF IntentOf
  <2>2. caps = {b}
    <3>1. IsFiniteSet(caps \ {b}) /\ Cardinality(caps \ {b}) = Cardinality(caps) - 1
      BY <1>1, FS_RemoveElement
    <3>2. Cardinality(caps \ {b}) \in Nat
      BY <3>1, FS_CardinalityType
    <3>3. Cardinality(caps \ {b}) = 0
      BY <1>2, <1>5, <3>1, <3>2
    <3>4. caps \ {b} = {}
      BY <3>1, <3>3, FS_EmptySet
    <3> QED BY <3>4
  <2>3. b \in Branches
    OBVIOUS
  <2> QED BY <1>5, <2>1, <2>2, <2>3 DEF Intents, Branches, Unsupported
<1> QED BY <1>3, <1>4, <1>5

LEMMA AttemptsTyped ==
    ASSUME NEW b \in Branches
    PROVE  Attempts(b) \in Nat /\ Attempts(b) >= 1
BY ChatAssumption DEF Attempts

LEMMA EmptyTyped ==
    /\ Empty \in Channels
    /\ Empty.facts = {} /\ Empty.cites = {} /\ Empty.unavailable = {} /\ Empty.caps = {}
    /\ Empty.summary = None /\ Empty.intent = Unsupported /\ ~Empty.errors
BY DEF Empty, Channels, Intents

\* Summaries are something.
LEMMA SumTyped ==
    ASSUME NEW r \in Runs, NEW cites \in SUBSET Ids
    PROVE  /\ Sum(r, cites) \in Summaries /\ Sum(r, cites) # None
           /\ Sum(r, cites).by = r /\ Sum(r, cites).cites = cites
BY ChatAssumption DEF Sum, Summaries

\* Where each fact comes from.
LEMMA FactOfBranch ==
    ASSUME NEW r \in Runs, NEW x, GotOK(x), NEW f \in FactsFrom(r, x.got)
    PROVE  \E g \in x.got :
             /\ g[1] \in x.ch.caps /\ g[1] \in Branches /\ AnswerOf(g[1], Given(g))
             /\ \E s \in Given(g).facts : s.kind = f.kind /\ s.cites = f.cites
             /\ f \in Facts /\ f.kind = KindOf(g[1]) /\ f.by = r
<1>1. PICK g \in x.got : f \in {Of(r, s) : s \in Given(g).facts}
  BY DEF FactsFrom
<1>2. PICK s \in Given(g).facts : f = Of(r, s)
  BY <1>1
<1>3. g \in Results /\ g[2] \in Outcomes[g[1]] /\ g[1] \in x.ch.caps
  BY DEF GotOK
<1>4. g[1] \in Branches /\ g = <<g[1], g[2]>>
  BY <1>3 DEF Results
<1>5. AnswerOf(g[1], Given(g))
  BY <1>3, <1>4, GivenIsAnswer
<1>6. s \in Statements /\ s.kind = KindOf(g[1])
  BY <1>5 DEF AnswerOf, Answers
<1>7. f.kind = s.kind /\ f.cites = s.cites /\ f.by = r /\ f \in Facts
  BY <1>2, <1>6 DEF Of, Facts, Statements
<1> QED BY <1>3, <1>4, <1>5, <1>6, <1>7

\* Everything that branches returned has its type.
LEMMA FromTyped ==
    ASSUME NEW r \in Runs, NEW x, GotOK(x)
    PROVE  /\ FactsFrom(r, x.got) \subseteq Facts
           /\ CitesFrom(r, x.got) \subseteq Cites
           /\ MissingFrom(r, x.got) \subseteq Missing
           /\ \A c \in CitesFrom(r, x.got) : c.by = r
           /\ \A m \in MissingFrom(r, x.got) : m.by = r
<1>1. FactsFrom(r, x.got) \subseteq Facts
  BY FactOfBranch
<1>2. \A c \in CitesFrom(r, x.got) : c \in Cites /\ c.by = r
  <2> SUFFICES ASSUME NEW c \in CitesFrom(r, x.got)
               PROVE  c \in Cites /\ c.by = r
    OBVIOUS
  <2>1. PICK g \in x.got : c \in {Cite(r, i) : i \in Given(g).cites}
    BY DEF CitesFrom
  <2>2. PICK i \in Given(g).cites : c = Cite(r, i)
    BY <2>1
  <2>3. g \in Results /\ g[2] \in Outcomes[g[1]]
    BY DEF GotOK
  <2>4. g[1] \in Branches /\ g = <<g[1], g[2]>>
    BY <2>3 DEF Results
  <2>5. AnswerOf(g[1], Given(g))
    BY <2>3, <2>4, GivenIsAnswer
  <2>6. i \in Ids
    BY <2>5 DEF AnswerOf, Answers
  <2> QED BY <2>2, <2>6 DEF Cite, Cites
<1>3. \A m \in MissingFrom(r, x.got) : m \in Missing /\ m.by = r
  BY DEF MissingFrom, GotOK, Results, Missing
<1> QED BY <1>1, <1>2, <1>3

-----------------------------------------------------------------------------
(***************************************************************************)
(* How a step changes a run.                                               *)
(***************************************************************************)

LEMMA ThisRun ==
    ASSUME ChatInv, NEW r \in Runs
    PROVE  run[r] \in RunRecord /\ RunOK(r, run[r]) /\ OwnerOK(run[r], owner)
BY DEF ChatInv

\* One run's record is replaced, the owner stays.
LEMMA Replaced ==
    ASSUME ChatInv, NEW r \in Runs, NEW y, RunOK(r, y), OwnerOK(y, owner),
           run' = [run EXCEPT ![r] = y], owner' = owner,
           checkpoint' \in [Users -> Channels], faults' \in 0..MaxFaults
    PROVE  ChatInv'
<1>1. y \in RunRecord
  BY DEF RunOK
<1>2. run' \in [Runs -> RunRecord]
  BY <1>1 DEF ChatInv
<1>3. ASSUME NEW q \in Runs
      PROVE  RunOK(q, run'[q]) /\ OwnerOK(run'[q], owner')
  <2>1. CASE q = r
    BY <2>1 DEF ChatInv
  <2>2. CASE q # r
    <3>1. run'[q] = run[q]
      BY <2>2 DEF ChatInv
    <3> QED BY <3>1 DEF ChatInv
  <2> QED BY <2>1, <2>2
<1>4. \A q \in Runs : RunOK(q, run[q])' /\ OwnerOK(run[q], owner)'
  BY <1>3
<1> QED BY <1>2, <1>4 DEF ChatInv

\* The same request.
Same(x, y) ==
    /\ y.user = x.user /\ y.valid = x.valid /\ y.asked = x.asked
    /\ y.got = x.got /\ y.left = x.left /\ y.calls = x.calls

\* A run in the graph is its owner's.
LEMMA OwnerStays ==
    ASSUME NEW x, NEW y, NEW user, OwnerOK(x, user), x.step \in Inside, y.user = x.user
    PROVE  OwnerOK(y, user)
BY DEF OwnerOK

\* A superstep that ends.
LEMMA SavedRun ==
    ASSUME ChatInv, NEW r \in Runs, NEW step \in Own, NEW ch \in Channels, Saved(r, step, ch),
           run[r].step \in Inside
    PROVE  /\ \E y \in RunRecord :
                /\ run' = [run EXCEPT ![r] = y]
                /\ y.step = step /\ y.ch = ch /\ y.sent = run[r].sent /\ y.saw = run[r].saw
                /\ Same(run[r], y)
           /\ owner' = owner /\ faults' \in 0..MaxFaults
           /\ checkpoint' \in [Users -> Channels]
<1>1. run[r] \in RunRecord
  BY ThisRun
<1>2. PICK y : y = [run[r] EXCEPT !.step = step, !.ch = ch,
                                  !.final = IF ch.final # None THEN ch.final ELSE @]
  OBVIOUS
<1>3. run' = [run EXCEPT ![r] = y]
  BY <1>2 DEF Saved
<1>4. step \in Steps
  BY DEF Own, Gathering, Verifying, Steps
<1>5. y \in RunRecord /\ y.step = step /\ y.ch = ch /\ y.sent = run[r].sent
      /\ y.saw = run[r].saw /\ Same(run[r], y)
  <2>1. ch.final \in Responses \cup {None}
    BY DEF Channels
  <2> QED BY <1>1, <1>2, <1>4, <2>1 DEF RunRecord, Same
<1>6. checkpoint' \in [Users -> Channels]
  BY DEF Saved, ChatInv
<1> QED BY <1>3, <1>5, <1>6 DEF Saved, ChatInv

\* A run is over.
LEMMA Ended ==
    ASSUME ChatInv, NEW r \in Runs, NEW step \in {"ended", "cut"}, NEW sent \in Seq(Events),
           Over(r, step, sent), run[r].step # "new",
           step = "ended" => \/ sent = Complete(r)
                             \/ \E s \in Sendings(r) : sent = Append(s, Event("run.failed", r)),
           step = "cut" => sent \in Sendings(r),
           (\E i \in DOMAIN sent : sent[i].event = "run.started") => run[r].user = owner,
           UNCHANGED <<owner, checkpoint>>, faults' \in 0..MaxFaults
    PROVE  ChatInv'
<1>1. PICK x : x = run[r] /\ x \in RunRecord /\ RunOK(r, x)
  BY ThisRun
<1>2. PICK y : y = [Idle EXCEPT !.step = step, !.user = x.user, !.sent = sent]
  OBVIOUS
<1>3. run' = [run EXCEPT ![r] = y]
  BY <1>1, <1>2 DEF Over
<1>4. /\ y.step = step /\ y.user = x.user /\ y.sent = sent /\ y.ch = Empty /\ ~y.valid
      /\ y.asked = {} /\ y.left = {} /\ y.got = {} /\ \A b \in Branches : y.calls[b] = 0
  BY <1>2 DEF Idle
<1>5. y \in RunRecord
  <2>1. x.user \in Users \cup {NoUser}
    BY <1>1 DEF RunRecord
  <2>2. step \in Steps
    BY DEF Steps
  <2>3. [b \in Branches |-> 0] \in [Branches -> Nat]
    OBVIOUS
  <2> QED BY <1>2, <2>1, <2>2, <2>3, EmptyTyped DEF Idle, RunRecord
<1>6. step \notin Inside /\ step \notin Own /\ step \notin Gathering /\ step \notin Verifying
      /\ step \notin Called
  BY DEF Inside, Own, Gathering, Verifying, Called
<1>7. step \notin {"new", "claim", "check", "validation", "routing", "extraction",
                   "initialize_run", "grounding_verification", "compliance_disclaimer",
                   "synthesis", "trace_finalization", "closing"}
  OBVIOUS
<1>8. CallsOK(y)
  <2>1. \A b \in Branches : 0 <= Attempts(b)
    BY AttemptsTyped
  <2> QED BY <1>4, <1>6, <1>7, <2>1 DEF CallsOK, NoCalls
<1>9. GotOK(y)
  BY <1>4 DEF GotOK
<1>10. StreamOK(r, y)
  BY <1>4, <1>6, <1>7 DEF StreamOK
<1>11. AnswerOK(r, y)
  BY <1>4, <1>7 DEF AnswerOK
<1>12. y.user \in Users
  BY <1>1, <1>4 DEF RunOK
<1>13. RunOK(r, y)
  BY <1>4, <1>5, <1>6, <1>7, <1>8, <1>9, <1>10, <1>11, <1>12 DEF RunOK
<1>14. OwnerOK(y, owner)
  BY <1>1, <1>4, <1>6 DEF OwnerOK
<1> QED BY <1>3, <1>13, <1>14, Replaced DEF ChatInv

\* What has been sent has its type.
LEMMA SentTyped ==
    ASSUME NEW r \in Runs
    PROVE  /\ Sendings(r) \subseteq Seq(Events)
           /\ \A s \in Sendings(r) : Append(s, Event("run.failed", r)) \in Seq(Events)
           /\ Event("run.started", r) \in Events /\ Event("answer.delta", r) \in Events
           /\ Event("answer.completed", r) \in Events
<1>1. /\ Event("run.started", r) \in Events /\ Event("answer.delta", r) \in Events
      /\ Event("answer.completed", r) \in Events /\ Event("run.failed", r) \in Events
  BY DEF Event, Events
<1>2. /\ <<>> \in Seq(Events) /\ Start(r) \in Seq(Events) /\ Delta(r) \in Seq(Events)
      /\ Complete(r) \in Seq(Events)
  BY <1>1 DEF Start, Delta, Complete
<1> QED BY <1>1, <1>2 DEF Sendings

\* What a run has sent, wherever it is.
LEMMA SentSoFar ==
    ASSUME NEW r, NEW x, x \in RunRecord, StreamOK(r, x), x.step \notin {"ended", "cut"}
    PROVE  x.sent \in Sendings(r)
<1>1. x.step \in Steps
  BY DEF RunRecord
<1> QED BY <1>1 DEF StreamOK, Sendings, Steps, Gathering

\* A failure comes last.
LEMMA FailedRun ==
    ASSUME ChatInv, NEW r \in Runs, RunFails(r), run[r].step \in Inside \cup {"claim", "check"},
           UNCHANGED <<owner, checkpoint>>, faults' \in 0..MaxFaults
    PROVE  ChatInv'
<1>1. PICK x : x = run[r] /\ x \in RunRecord /\ RunOK(r, x) /\ OwnerOK(x, owner)
  BY ThisRun
<1>2. /\ x.step \notin {"ended", "cut", "new"}
  BY <1>1 DEF Inside, Own, Gathering, Verifying
<1>3. x.sent \in Sendings(r)
  BY <1>1, <1>2, SentSoFar DEF RunOK
<1>4. PICK sent : sent = Append(x.sent, Event("run.failed", r))
  OBVIOUS
<1>5. sent \in Seq(Events) /\ Over(r, "ended", sent)
  BY <1>1, <1>3, <1>4, SentTyped DEF RunFails
<1>6. (\E i \in DOMAIN sent : sent[i].event = "run.started") => x.user = owner
  <2>1. CASE x.step \in Inside
    BY <1>1, <2>1 DEF OwnerOK
  <2>2. CASE x.step \in {"claim", "check"}
    <3>1. x.sent = <<>>
      BY <1>1, <2>2 DEF RunOK, StreamOK
    <3>2. sent = <<Event("run.failed", r)>>
      BY <1>4, <3>1
    <3>3. \A i \in DOMAIN sent : sent[i].event = "run.failed"
      BY <3>2 DEF Event
    <3> QED BY <3>3
  <2> QED BY <1>1, <2>1, <2>2
<1> QED BY <1>1, <1>2, <1>3, <1>4, <1>5, <1>6, Ended

-----------------------------------------------------------------------------
(***************************************************************************)
(* Before the branches.                                                    *)
(***************************************************************************)

LEMMA InitOK ==
    ASSUME Init
    PROVE  ChatInv
<1>1. Idle \in RunRecord
  <2>1. Steps # {} /\ "new" \in Steps
    BY DEF Steps
  <2>2. [b \in Branches |-> 0] \in [Branches -> Nat]
    OBVIOUS
  <2> QED BY <2>1, <2>2, EmptyTyped DEF Idle, RunRecord
<1>2. /\ Idle.step = "new" /\ ~Idle.valid /\ Idle.asked = {} /\ Idle.left = {} /\ Idle.got = {}
      /\ Idle.ch = Empty /\ Idle.sent = <<>> /\ \A b \in Branches : Idle.calls[b] = 0
  BY DEF Idle
<1>3. "new" \notin Inside /\ "new" \notin Own /\ "new" \notin Gathering
      /\ "new" \notin Verifying /\ "new" \notin Called
  BY DEF Inside, Own, Gathering, Verifying, Called
<1>4. ASSUME NEW r \in Runs
      PROVE  RunOK(r, Idle) /\ OwnerOK(Idle, owner)
  <2>1. GotOK(Idle)
    BY <1>2 DEF GotOK
  <2>2. CallsOK(Idle)
    <3>1. \A b \in Branches : 0 <= Attempts(b)
      BY AttemptsTyped
    <3> QED BY <1>2, <1>3, <3>1 DEF CallsOK, NoCalls
  <2>3. StreamOK(r, Idle)
    BY <1>2, <1>3 DEF StreamOK
  <2>4. AnswerOK(r, Idle)
    BY <1>2 DEF AnswerOK
  <2>5. OwnerOK(Idle, owner)
    BY <1>2, <1>3 DEF OwnerOK
  <2> QED BY <1>1, <1>2, <1>3, <2>1, <2>2, <2>3, <2>4, <2>5 DEF RunOK
<1>5. run \in [Runs -> RunRecord] /\ \A r \in Runs : run[r] = Idle
  BY <1>1 DEF Init
<1>6. checkpoint \in [Users -> Channels] /\ owner \in Users \cup {NoUser}
  BY EmptyTyped DEF Init
<1>7. faults \in 0..MaxFaults
  BY ChatAssumption DEF Init
<1> QED BY <1>4, <1>5, <1>6, <1>7 DEF ChatInv

\* The steps outside the graph.
LEMMA Outside ==
    ASSUME NEW x, x.step \in {"new", "claim", "check", "initialize_run"}
    PROVE  x.step \notin Own /\ x.step \notin Gathering /\ x.step \notin Verifying
           /\ x.step \notin Called
BY DEF Own, Gathering, Verifying, Called

LEMMA RequestOK ==
    ASSUME ChatInv, NEW r \in Runs, Request(r)
    PROVE  ChatInv'
<1>1. PICK x : x = run[r] /\ x \in RunRecord /\ RunOK(r, x) /\ OwnerOK(x, owner)
  BY ThisRun
<1>2. PICK u \in Users, valid \in BOOLEAN, asked \in SUBSET Capabilities :
        /\ ~valid => asked = {}
        /\ run' = [run EXCEPT ![r].step = "claim", ![r].user = u,
                              ![r].valid = valid, ![r].asked = asked]
  BY DEF Request
<1>3. PICK y : y = [x EXCEPT !.step = "claim", !.user = u, !.valid = valid, !.asked = asked]
  OBVIOUS
<1>4. run' = [run EXCEPT ![r] = y]
  BY <1>1, <1>2, <1>3
<1>5. asked \in SUBSET Branches
  BY DEF Capabilities
<1>6. /\ y \in RunRecord /\ y.step = "claim" /\ y.user = u /\ y.valid = valid
      /\ y.asked = asked /\ y.ch = x.ch /\ y.left = x.left /\ y.calls = x.calls
      /\ y.got = x.got /\ y.sent = x.sent
  BY <1>1, <1>3, <1>5 DEF RunRecord, Steps
<1>7. x.step = "new" /\ x.sent = <<>>
  BY <1>1 DEF Request, At, RunOK
<1>8. /\ x.step \notin Own /\ y.step \notin Own /\ y.step \notin Gathering
      /\ y.step \notin Verifying /\ y.step \notin Called
  BY <1>6, <1>7, Outside
<1>9. NoCalls(x) /\ NoCalls(y)
  BY <1>1, <1>6, <1>8 DEF RunOK, CallsOK, NoCalls
<1>10. CallsOK(y)
  BY <1>1, <1>2, <1>6, <1>8, <1>9 DEF RunOK, CallsOK
<1>11. GotOK(y)
  BY <1>9 DEF GotOK, NoCalls
<1>12. StreamOK(r, y) /\ AnswerOK(r, y)
  BY <1>6, <1>7, <1>8 DEF StreamOK, AnswerOK
<1>13. RunOK(r, y)
  BY <1>6, <1>8, <1>10, <1>11, <1>12 DEF RunOK
<1>14. OwnerOK(y, owner)
  BY <1>6, <1>7, <1>8 DEF OwnerOK, Inside
<1> QED BY <1>4, <1>13, <1>14, Replaced DEF Request, ChatInv

\* A thread is claimed once: nobody was in the graph before.
LEMMA ClaimThreadOK ==
    ASSUME ChatInv, NEW r \in Runs, ClaimThread(r)
    PROVE  ChatInv'
<1>1. PICK x : x = run[r] /\ x \in RunRecord /\ RunOK(r, x) /\ OwnerOK(x, owner)
  BY ThisRun
<1>2. PICK y : y = [x EXCEPT !.step = "check"]
  OBVIOUS
<1>3. run' = [run EXCEPT ![r] = y]
  BY <1>1, <1>2 DEF ClaimThread
<1>4. /\ y \in RunRecord /\ y.step = "check" /\ y.user = x.user /\ y.valid = x.valid
      /\ y.asked = x.asked /\ y.ch = x.ch /\ y.left = x.left /\ y.calls = x.calls
      /\ y.got = x.got /\ y.sent = x.sent
  BY <1>1, <1>2 DEF RunRecord, Steps
<1>5. x.step = "claim" /\ x.sent = <<>> /\ x.user \in Users
  BY <1>1 DEF ClaimThread, At, RunOK, StreamOK
<1>6. /\ x.step \notin Own /\ y.step \notin Own /\ y.step \notin Gathering
      /\ y.step \notin Verifying /\ y.step \notin Called
  BY <1>4, <1>5, Outside
<1>7. NoCalls(x) /\ NoCalls(y)
  BY <1>1, <1>4, <1>6 DEF RunOK, CallsOK, NoCalls
<1>8. CallsOK(y)
  BY <1>1, <1>4, <1>6, <1>7 DEF RunOK, CallsOK
<1>9. GotOK(y)
  BY <1>7 DEF GotOK, NoCalls
<1>10. StreamOK(r, y) /\ AnswerOK(r, y)
  BY <1>4, <1>5, <1>6 DEF StreamOK, AnswerOK
<1>11. RunOK(r, y)
  BY <1>4, <1>5, <1>6, <1>8, <1>9, <1>10 DEF RunOK
<1>12. OwnerOK(y, owner')
  BY <1>4, <1>5, <1>6 DEF OwnerOK, Inside
<1>13. owner' \in Users \cup {NoUser} /\ (owner # NoUser => owner' = owner)
  BY <1>1, <1>5 DEF ClaimThread, ChatInv
<1>14. ASSUME NEW q \in Runs
       PROVE  RunOK(q, run'[q]) /\ OwnerOK(run'[q], owner')
  <2>1. CASE q = r
    BY <1>3, <1>11, <1>12, <2>1 DEF ChatInv
  <2>2. CASE q # r
    <3>1. run'[q] = run[q]
      BY <1>3, <2>2 DEF ChatInv
    <3>2. PICK z : z = run[q] /\ RunOK(q, z) /\ OwnerOK(z, owner)
      BY DEF ChatInv
    <3>3. CASE owner # NoUser
      BY <1>13, <3>1, <3>2, <3>3
    <3>4. CASE owner = NoUser
      <4>1. z.step # "new" => z.user # NoUser
        BY <3>2, ChatAssumption DEF RunOK
      <4>2. z.step = "new" => z.sent = <<>> /\ z.step \notin Inside
        BY <3>2 DEF RunOK, Inside, Own, Gathering, Verifying
      <4>3. OwnerOK(z, owner')
        BY <3>2, <3>4, <4>1, <4>2 DEF OwnerOK
      <4> QED BY <3>1, <3>2, <4>3
    <3> QED BY <3>3, <3>4
  <2> QED BY <2>1, <2>2
<1>15. \A q \in Runs : RunOK(q, run[q])' /\ OwnerOK(run[q], owner)'
  BY <1>14
<1>16. run' \in [Runs -> RunRecord]
  BY <1>3, <1>4 DEF ChatInv
<1> QED BY <1>13, <1>15, <1>16 DEF ChatInv, ClaimThread

LEMMA BeginOK ==
    ASSUME ChatInv, NEW r \in Runs, Begin(r)
    PROVE  ChatInv'
<1>1. PICK x : x = run[r] /\ x \in RunRecord /\ RunOK(r, x) /\ OwnerOK(x, owner)
  BY ThisRun
<1>2. x.step = "check" /\ x.user \in Users
  BY <1>1 DEF Begin, At, RunOK
<1>3. PICK ch : ch = checkpoint[x.user]
  OBVIOUS
<1>4. PICK y : y = [x EXCEPT !.step = "initialize_run", !.ch = ch,
                             !.final = ch.final, !.sent = <<Event("run.started", r)>>]
  OBVIOUS
<1>5. run' = [run EXCEPT ![r] = y]
  BY <1>1, <1>3, <1>4 DEF Begin
<1>6. ch \in Channels /\ ch.final \in Responses \cup {None}
  BY <1>2, <1>3 DEF ChatInv, Channels
<1>7. <<Event("run.started", r)>> \in Seq(Events)
  BY SentTyped
<1>8. /\ y \in RunRecord /\ y.step = "initialize_run" /\ y.user = x.user /\ y.valid = x.valid
      /\ y.asked = x.asked /\ y.left = x.left /\ y.calls = x.calls
      /\ y.got = x.got /\ y.sent = <<Event("run.started", r)>>
  BY <1>1, <1>4, <1>6, <1>7 DEF RunRecord, Steps
<1>9. /\ x.step \notin Own /\ y.step \notin Own /\ y.step \notin Gathering
      /\ y.step \notin Verifying /\ y.step \notin Called
  BY <1>2, <1>8, Outside
<1>10. NoCalls(x) /\ NoCalls(y)
  BY <1>1, <1>8, <1>9 DEF RunOK, CallsOK, NoCalls
<1>11. CallsOK(y)
  <2>1. y.left = {}
    BY <1>10 DEF NoCalls
  <2> QED BY <1>1, <1>8, <1>9, <1>10, <2>1 DEF RunOK, CallsOK
<1>12. GotOK(y)
  BY <1>10 DEF GotOK, NoCalls
<1>13. StreamOK(r, y) /\ AnswerOK(r, y)
  BY <1>8, <1>9 DEF StreamOK, AnswerOK, Start
<1>14. RunOK(r, y)
  BY <1>2, <1>8, <1>9, <1>11, <1>12, <1>13 DEF RunOK
<1>15. OwnerOK(y, owner)
  BY <1>1, <1>8 DEF OwnerOK, Begin
<1> QED BY <1>5, <1>14, <1>15, Replaced DEF Begin, ChatInv

LEMMA RefuseOK ==
    ASSUME ChatInv, NEW r \in Runs, Refuse(r)
    PROVE  ChatInv'
BY FailedRun DEF Refuse, At, ChatInv

LEMMA DisturbedOK ==
    ASSUME ChatInv, NEW r \in Runs, Fail(r) \/ Cancel(r)
    PROVE  ChatInv'
<1>1. PICK x : x = run[r] /\ x \in RunRecord /\ RunOK(r, x) /\ OwnerOK(x, owner)
  BY ThisRun
<1>2. faults' \in 0..MaxFaults
  BY ChatAssumption DEF Fail, Cancel, Disturb, ChatInv
<1>3. x.step \in Inside \cup {"claim", "check"}
  <2>1. x.step \in Steps
    BY <1>1 DEF RunRecord
  <2> QED BY <1>1, <2>1 DEF Fail, Cancel, InGraph, Steps, Inside, Own, Gathering, Verifying
<1>4. CASE Fail(r)
  BY <1>1, <1>2, <1>3, <1>4, FailedRun DEF Fail
<1>5. CASE Cancel(r)
  <2>1. x.step \notin {"ended", "cut", "new"}
    BY <1>3 DEF Inside, Own, Gathering, Verifying
  <2>2. PICK sent : sent = x.sent
    OBVIOUS
  <2>3. sent \in Sendings(r)
    BY <1>1, <2>1, <2>2, SentSoFar DEF RunOK
  <2>4. sent \in Seq(Events)
    BY <2>3, SentTyped
  <2>5. (\E i \in DOMAIN sent : sent[i].event = "run.started") => x.user = owner
    BY <1>1, <2>2 DEF OwnerOK
  <2>6. "cut" \in {"ended", "cut"} /\ "cut" # "ended" /\ Over(r, "cut", sent)
    BY <1>1, <1>5, <2>2 DEF Cancel
  <2> QED BY <1>1, <1>2, <1>5, <2>1, <2>3, <2>4, <2>5, <2>6, Ended DEF Cancel
<1> QED BY <1>4, <1>5

-----------------------------------------------------------------------------
(***************************************************************************)
(* The graph up to the branches.                                           *)
(***************************************************************************)

\* A step of the graph is in one phase.
LEMMA Phases ==
    /\ \A s \in {"validation", "routing", "extraction", "branches", "evidence_correlation"} :
         s \in Own /\ s \in Inside /\ s \in Gathering /\ s \notin Verifying /\ s \in Steps
    /\ \A s \in {"compliance_disclaimer", "synthesis", "trace_finalization", "closing"} :
         s \in Own /\ s \in Inside /\ s \notin Gathering /\ s \in Verifying /\ s \in Steps
         /\ s \in Called
    /\ LET s == "grounding_verification"
       IN  s \in Own /\ s \in Inside /\ s \notin Gathering /\ s \notin Verifying /\ s \in Steps
           /\ s \in Called
    /\ "branches" \in Called /\ "evidence_correlation" \in Called
    /\ "validation" \notin Called /\ "routing" \notin Called /\ "extraction" \notin Called
BY DEF Own, Gathering, Verifying, Inside, Called, Steps

LEMMA InitializeOK ==
    ASSUME ChatInv, NEW r \in Runs, Initialize(r)
    PROVE  ChatInv'
<1>1. PICK x : x = run[r] /\ x \in RunRecord /\ RunOK(r, x) /\ OwnerOK(x, owner)
  BY ThisRun
<1>2. x.step = "initialize_run" /\ x.step \in Inside
  BY <1>1 DEF Initialize, At, Inside
<1>3. Saved(r, "validation", Empty)
  BY DEF Initialize, Reset
<1>4. PICK y \in RunRecord :
                /\ run' = [run EXCEPT ![r] = y]
                /\ y.step = "validation" /\ y.ch = Empty /\ y.sent = x.sent /\ y.saw = x.saw
                /\ Same(x, y)
  BY <1>1, <1>2, <1>3, SavedRun, EmptyTyped, Phases
<1>5. NoCalls(x) /\ NoCalls(y)
  BY <1>1, <1>2, <1>4, Outside DEF RunOK, CallsOK, NoCalls, Same
<1>6. CallsOK(y)
  <2>1. \A b \in Branches : 0 <= Attempts(b) /\ y.calls[b] = 0
    BY <1>5, AttemptsTyped DEF NoCalls
  <2>2. y.ch.intent = IntentOf(y.ch.caps)
    BY <1>4, EmptyTyped, IntentTyped
  <2>3. ~y.valid => y.asked = {}
    BY <1>1, <1>4 DEF RunOK, CallsOK, Same
  <2> QED BY <1>4, <1>5, <2>1, <2>2, <2>3, EmptyTyped, Phases DEF CallsOK, NoCalls
<1>7. GotOK(y)
  BY <1>5 DEF GotOK, NoCalls
<1>8. Gathered(r, y) /\ Summarised(r, y)
  <2>1. y.got = {}
    BY <1>5 DEF NoCalls
  <2> QED BY <1>4, <2>1, EmptyTyped DEF Gathered, Summarised, FactsFrom, CitesFrom, MissingFrom
<1>9. StreamOK(r, y) /\ AnswerOK(r, y)
  BY <1>1, <1>2, <1>4 DEF RunOK, StreamOK, AnswerOK
<1>10. RunOK(r, y)
  BY <1>1, <1>2, <1>4, <1>6, <1>7, <1>8, <1>9, Phases DEF RunOK, Same
<1>11. OwnerOK(y, owner)
  BY <1>1, <1>2, <1>4, OwnerStays DEF Same
<1> QED BY <1>1, <1>2, <1>3, <1>4, <1>10, <1>11, SavedRun, Replaced, EmptyTyped, Phases

\* Nothing was found before the branches.
LEMMA NothingFound ==
    ASSUME NEW r, NEW x, NEW y, Same(x, y), NoCalls(x), Gathered(r, x), Summarised(r, x),
           y.ch.facts = x.ch.facts, y.ch.cites = x.ch.cites,
           y.ch.unavailable = x.ch.unavailable, y.ch.summary = x.ch.summary
    PROVE  GotOK(y) /\ Gathered(r, y) /\ Summarised(r, y) /\ NoCalls(y)
<1>1. y.got = {} /\ x.got = {}
  BY DEF Same, NoCalls
<1> QED BY <1>1 DEF Same, NoCalls, Gathered, Summarised, GotOK

LEMMA ValidateOK ==
    ASSUME ChatInv, NEW r \in Runs, Validate(r)
    PROVE  ChatInv'
<1>1. PICK x : x = run[r] /\ x \in RunRecord /\ RunOK(r, x) /\ OwnerOK(x, owner)
  BY ThisRun
<1>2. x.step = "validation" /\ x.step \in Inside /\ x.step \in Own /\ x.step \in Gathering
  BY <1>1, Phases DEF Validate, At
<1>3. PICK e \in BOOLEAN : e = (x.ch.errors \/ ~x.valid)
  BY <1>1 DEF RunRecord, Channels
<1>4. PICK ch : ch = [x.ch EXCEPT !.errors = e]
  OBVIOUS
<1>5. /\ ch \in Channels /\ ch.errors = e /\ ch.intent = x.ch.intent /\ ch.caps = x.ch.caps
      /\ ch.facts = x.ch.facts /\ ch.cites = x.ch.cites /\ ch.summary = x.ch.summary
      /\ ch.unavailable = x.ch.unavailable
  BY <1>1, <1>4 DEF RunRecord, Channels
<1>6. PICK step \in {"branches", "routing"} : step = IF e THEN "branches" ELSE "routing"
  OBVIOUS
<1>7. Saved(r, step, ch)
  <2>1. ch = [run[r].ch EXCEPT !.errors = @ \/ ~run[r].valid]
    BY <1>1, <1>3, <1>4
  <2> QED BY <1>5, <1>6, <2>1 DEF Validate
<1>8. step \in Own /\ step \in Gathering /\ step \notin Verifying /\ step \in Inside
  BY <1>6, Phases
<1>9. PICK y \in RunRecord :
                /\ run' = [run EXCEPT ![r] = y]
                /\ y.step = step /\ y.ch = ch /\ y.sent = x.sent /\ y.saw = x.saw
                /\ Same(x, y)
  BY <1>1, <1>2, <1>5, <1>7, <1>8, SavedRun
<1>10. NoCalls(x) /\ ~x.ch.errors /\ x.ch.caps = {} /\ CallsOK(x)
  BY <1>1, <1>2 DEF RunOK, CallsOK
<1>11. GotOK(y) /\ Gathered(r, y) /\ Summarised(r, y) /\ NoCalls(y)
  BY <1>1, <1>2, <1>5, <1>9, <1>10, NothingFound DEF RunOK
<1>12. CallsOK(y)
  <2>1. \A b \in Branches : 0 <= Attempts(b) /\ y.calls[b] = 0
    BY <1>11, AttemptsTyped DEF NoCalls
  <2>2. y.ch.intent = IntentOf(y.ch.caps)
    BY <1>1, <1>2, <1>5, <1>9 DEF RunOK, CallsOK
  <2>3. ~y.valid => y.asked = {}
    BY <1>9, <1>10 DEF CallsOK, Same
  <2>4. /\ y.step = "routing" => ~y.ch.errors /\ y.valid
        /\ y.step = "branches" => ~y.valid
    BY <1>3, <1>5, <1>6, <1>9, <1>10 DEF Same
  <2>5. y.ch.caps = {} /\ y.left = {} /\ y.step \in {"branches", "routing"}
    BY <1>5, <1>6, <1>9, <1>10, <1>11 DEF NoCalls
  <2> QED BY <1>11, <2>1, <2>2, <2>3, <2>4, <2>5, Phases DEF CallsOK
<1>13. StreamOK(r, y) /\ AnswerOK(r, y)
  BY <1>1, <1>2, <1>6, <1>8, <1>9, Phases DEF RunOK, StreamOK, AnswerOK
<1>14. RunOK(r, y)
  BY <1>1, <1>2, <1>6, <1>8, <1>9, <1>11, <1>12, <1>13 DEF RunOK, Same
<1>15. OwnerOK(y, owner)
  BY <1>1, <1>2, <1>9, OwnerStays DEF Same
<1> QED BY <1>1, <1>2, <1>5, <1>7, <1>8, <1>9, <1>14, <1>15, SavedRun, Replaced

LEMMA RouteOK ==
    ASSUME ChatInv, NEW r \in Runs, Route(r)
    PROVE  ChatInv'
<1>1. PICK x : x = run[r] /\ x \in RunRecord /\ RunOK(r, x) /\ OwnerOK(x, owner)
  BY ThisRun
<1>2. x.step = "routing" /\ x.step \in Inside /\ x.step \in Own /\ x.step \in Gathering
  BY <1>1, Phases DEF Route, At
<1>3. PICK caps \in IF x.asked = {} /\ Classifier
                   THEN {{}, Capabilities} \cup {{b} : b \in Capabilities}
                   ELSE {x.asked} :
        Saved(r, "extraction", [x.ch EXCEPT !.caps = caps, !.intent = IntentOf(caps)])
  BY <1>1 DEF Route
<1>4. caps \in SUBSET Branches /\ (x.asked # {} => caps = x.asked)
  <2>1. x.asked \in SUBSET Branches
    BY <1>1 DEF RunRecord
  <2> QED BY <2>1 DEF Capabilities
<1>5. PICK ch : ch = [x.ch EXCEPT !.caps = caps, !.intent = IntentOf(caps)]
  OBVIOUS
<1>6. IntentOf(caps) \in Intents
  BY <1>4, IntentTyped
<1>7. /\ ch \in Channels /\ ch.intent = IntentOf(caps) /\ ch.caps = caps
      /\ ch.facts = x.ch.facts /\ ch.cites = x.ch.cites /\ ch.summary = x.ch.summary
      /\ ch.unavailable = x.ch.unavailable
  BY <1>1, <1>4, <1>5, <1>6 DEF RunRecord, Channels
<1>8. PICK y \in RunRecord :
                /\ run' = [run EXCEPT ![r] = y]
                /\ y.step = "extraction" /\ y.ch = ch /\ y.sent = x.sent /\ y.saw = x.saw
                /\ Same(x, y)
  BY <1>1, <1>2, <1>3, <1>5, <1>7, SavedRun, Phases
<1>9. NoCalls(x) /\ x.valid /\ CallsOK(x)
  BY <1>1, <1>2 DEF RunOK, CallsOK
<1>10. GotOK(y) /\ Gathered(r, y) /\ Summarised(r, y) /\ NoCalls(y)
  BY <1>1, <1>2, <1>7, <1>8, <1>9, NothingFound DEF RunOK
<1>11. CallsOK(y)
  <2>1. \A b \in Branches : 0 <= Attempts(b) /\ y.calls[b] = 0
    BY <1>10, AttemptsTyped DEF NoCalls
  <2>2. y.valid /\ y.left = {} /\ y.ch.caps = caps /\ y.ch.intent = IntentOf(caps)
    BY <1>7, <1>8, <1>9, <1>10 DEF NoCalls, Same
  <2>3. y.asked # {} => y.ch.caps = y.asked
    BY <1>4, <1>8, <2>2 DEF Same
  <2> QED BY <1>8, <1>10, <2>1, <2>2, <2>3, Phases DEF CallsOK
<1>12. StreamOK(r, y) /\ AnswerOK(r, y)
  BY <1>1, <1>2, <1>8, Phases DEF RunOK, StreamOK, AnswerOK
<1>13. RunOK(r, y)
  BY <1>1, <1>2, <1>8, <1>10, <1>11, <1>12, Phases DEF RunOK, Same
<1>14. OwnerOK(y, owner)
  BY <1>1, <1>2, <1>8, OwnerStays DEF Same
<1> QED BY <1>1, <1>2, <1>3, <1>5, <1>7, <1>8, <1>13, <1>14, SavedRun, Replaced, Phases

LEMMA ExtractOK ==
    ASSUME ChatInv, NEW r \in Runs, Extract(r)
    PROVE  ChatInv'
<1>1. PICK x : x = run[r] /\ x \in RunRecord /\ RunOK(r, x) /\ OwnerOK(x, owner)
  BY ThisRun
<1>2. x.step = "extraction" /\ x.step \in Inside /\ x.step \in Own /\ x.step \in Gathering
  BY <1>1, Phases DEF Extract, At
<1>3. PICK y : y = [x EXCEPT !.step = "branches", !.left = x.ch.caps]
  OBVIOUS
<1>4. run' = [run EXCEPT ![r] = y]
  BY <1>1, <1>3 DEF Extract
<1>5. x.ch \in Channels /\ x.ch.caps \in SUBSET Branches
  BY <1>1 DEF RunRecord, Channels
<1>6. /\ y \in RunRecord /\ y.step = "branches" /\ y.left = x.ch.caps /\ y.ch = x.ch
      /\ y.sent = x.sent /\ y.user = x.user /\ y.valid = x.valid /\ y.asked = x.asked
      /\ y.got = x.got /\ y.calls = x.calls
  BY <1>1, <1>3, <1>5, Phases DEF RunRecord
<1>7. NoCalls(x) /\ CallsOK(x) /\ GotOK(x) /\ Gathered(r, x) /\ Summarised(r, x)
  BY <1>1, <1>2 DEF RunOK, CallsOK
<1>8. y.got = {} /\ x.got = {}
  BY <1>6, <1>7 DEF NoCalls
<1>9. GotOK(y) /\ Gathered(r, y) /\ Summarised(r, y)
  BY <1>6, <1>7, <1>8 DEF Gathered, Summarised, GotOK
<1>10. CallsOK(y)
  <2>1. \A b \in Branches : y.calls[b] = 0 /\ 0 <= Attempts(b) /\ 0 < Attempts(b)
    BY <1>6, <1>7, AttemptsTyped DEF NoCalls
  <2>2. /\ ~x.valid => x.asked = {} /\ x.ch.caps = {}
        /\ x.ch.intent = IntentOf(x.ch.caps)
        /\ (x.valid /\ x.asked # {} => x.ch.caps = x.asked)
    BY <1>2, <1>7 DEF CallsOK
  <2>3. y.left = y.ch.caps
    BY <1>6
  <2> QED BY <1>6, <2>1, <2>2, <2>3, Phases DEF CallsOK
<1>11. StreamOK(r, y) /\ AnswerOK(r, y)
  BY <1>1, <1>2, <1>6, Phases DEF RunOK, StreamOK, AnswerOK
<1>12. RunOK(r, y)
  BY <1>1, <1>2, <1>6, <1>9, <1>10, <1>11, Phases DEF RunOK
<1>13. OwnerOK(y, owner)
  BY <1>1, <1>2, <1>6, OwnerStays
<1>14. checkpoint' \in [Users -> Channels] /\ faults' \in 0..MaxFaults /\ owner' = owner
  BY <1>1, <1>5 DEF Extract, ChatInv
<1> QED BY <1>4, <1>12, <1>13, <1>14, Replaced

-----------------------------------------------------------------------------
(***************************************************************************)
(* The branches.                                                           *)
(***************************************************************************)

\* What a branch returned is added to the channels.
LEMMA Merged ==
    ASSUME NEW r \in Runs, NEW ch \in Channels, NEW b \in Branches, NEW ans, AnswerOf(b, ans)
    PROVE  /\ Merge(ch, r, b, ans) \in Channels
           /\ Merge(ch, r, b, ans).facts = ch.facts \cup {Of(r, f) : f \in ans.facts}
           /\ Merge(ch, r, b, ans).cites = ch.cites \cup {Cite(r, i) : i \in ans.cites}
           /\ Merge(ch, r, b, ans).unavailable =
                ch.unavailable \cup (IF ans.unavailable THEN {[source |-> b, by |-> r]} ELSE {})
           /\ Merge(ch, r, b, ans).summary =
                IF b = "mcp_public_tools" /\ ans.summary # None THEN Sum(r, ans.summary)
                ELSE ch.summary
           /\ Merge(ch, r, b, ans).caps = ch.caps
           /\ Merge(ch, r, b, ans).intent = ch.intent
<1>1. ans \in Answers
  BY DEF AnswerOf
<1>2. PICK facts : facts = ch.facts \cup {Of(r, f) : f \in ans.facts}
  OBVIOUS
<1>3. PICK cites : cites = ch.cites \cup {Cite(r, i) : i \in ans.cites}
  OBVIOUS
<1>4. PICK missing : missing = IF ans.unavailable
                               THEN ch.unavailable \cup {[source |-> b, by |-> r]}
                               ELSE ch.unavailable
  OBVIOUS
<1>5. PICK summary : summary = IF b = "mcp_public_tools" /\ ans.summary # None
                               THEN Sum(r, ans.summary) ELSE ch.summary
  OBVIOUS
<1>6. facts \in SUBSET Facts
  <2>1. \A f \in ans.facts : Of(r, f) \in Facts
    BY <1>1 DEF Answers, Statements, Of, Facts
  <2> QED BY <1>2, <2>1 DEF Channels
<1>7. cites \in SUBSET Cites
  <2>1. \A i \in ans.cites : Cite(r, i) \in Cites
    BY <1>1 DEF Answers, Cite, Cites
  <2> QED BY <1>3, <2>1 DEF Channels
<1>8. missing \in SUBSET Missing
  <2>1. [source |-> b, by |-> r] \in Missing
    BY DEF Missing
  <2> QED BY <1>4, <2>1 DEF Channels
<1>9. summary \in Summaries \cup {None}
  <2>1. ans.summary # None => Sum(r, ans.summary) \in Summaries
    BY <1>1, SumTyped DEF Answers
  <2> QED BY <1>5, <2>1 DEF Channels
<1>10. Merge(ch, r, b, ans) = [ch EXCEPT !.facts = facts, !.cites = cites,
                                         !.unavailable = missing, !.summary = summary]
  BY <1>2, <1>3, <1>4, <1>5 DEF Merge, Of, Cite, Sum
<1>11. missing = ch.unavailable \cup (IF ans.unavailable THEN {[source |-> b, by |-> r]} ELSE {})
  BY <1>4
<1>12. PICK m : m = Merge(ch, r, b, ans)
  OBVIOUS
<1>13. /\ m \in Channels /\ m.facts = facts /\ m.cites = cites /\ m.unavailable = missing
       /\ m.summary = summary /\ m.caps = ch.caps /\ m.intent = ch.intent
  BY <1>6, <1>7, <1>8, <1>9, <1>10, <1>12 DEF Channels
<1> QED BY <1>2, <1>3, <1>5, <1>11, <1>12, <1>13

LEMMA DoneOK ==
    ASSUME ChatInv, NEW r \in Runs, NEW b \in Branches, Working(r, b), NEW o \in Outcomes[b],
           Done(r, b, o, Given(<<b, o>>))
    PROVE  ChatInv'
<1>1. PICK x : x = run[r] /\ x \in RunRecord /\ RunOK(r, x) /\ OwnerOK(x, owner)
  BY ThisRun
<1>2. x.step = "branches" /\ x.step \in Inside /\ x.step \in Own /\ x.step \in Gathering
      /\ b \in x.left
  BY <1>1, Phases DEF Working, At
<1>3. PICK g : g = <<b, o>>
  OBVIOUS
<1>4. g[1] = b /\ g[2] = o /\ g \in Results
  BY <1>3, ChatAssumption DEF Results
<1>5. PICK ans : ans = Given(g)
  OBVIOUS
<1>6. AnswerOf(b, ans)
  BY <1>3, <1>5, GivenIsAnswer
<1>7. x.ch \in Channels /\ x.left \in SUBSET Branches /\ x.calls \in [Branches -> Nat]
      /\ x.got \in SUBSET Results
  BY <1>1 DEF RunRecord
<1>8. PICK ch : ch = Merge(x.ch, r, b, ans)
  OBVIOUS
<1>9. /\ ch \in Channels /\ ch.caps = x.ch.caps /\ ch.intent = x.ch.intent
      /\ ch.facts = x.ch.facts \cup {Of(r, f) : f \in ans.facts}
      /\ ch.cites = x.ch.cites \cup {Cite(r, i) : i \in ans.cites}
      /\ ch.unavailable =
           x.ch.unavailable \cup (IF ans.unavailable THEN {[source |-> b, by |-> r]} ELSE {})
      /\ ch.summary = IF b = "mcp_public_tools" /\ ans.summary # None THEN Sum(r, ans.summary)
                      ELSE x.ch.summary
  BY <1>6, <1>7, <1>8, Merged
<1> DEFINE calls == [x.calls EXCEPT ![b] = @ + 1]
<1>10. PICK y : y = [x EXCEPT !.ch = ch, !.left = x.left \ {b}, !.calls = calls,
                              !.got = x.got \cup {g}]
  OBVIOUS
<1>11. run' = [run EXCEPT ![r] = y]
  BY <1>1, <1>3, <1>5, <1>8, <1>10 DEF Done
<1>12. /\ y \in RunRecord /\ y.step = "branches" /\ y.user = x.user /\ y.valid = x.valid
       /\ y.asked = x.asked /\ y.ch = ch /\ y.left = x.left \ {b}
       /\ y.calls = [x.calls EXCEPT ![b] = @ + 1] /\ y.got = x.got \cup {g}
       /\ y.sent = x.sent
  <2>1. calls \in [Branches -> Nat]
    BY <1>7
  <2>2. x.left \ {b} \in SUBSET Branches /\ x.got \cup {g} \in SUBSET Results
    BY <1>4, <1>7
  <2> HIDE DEF calls
  <2>3. y.calls = calls
    BY <1>1, <1>10 DEF RunRecord
  <2> QED BY <1>1, <1>2, <1>9, <1>10, <2>1, <2>2, <2>3 DEF RunRecord, calls
<1>13. GotOK(x) /\ CallsOK(x) /\ Gathered(r, x) /\ Summarised(r, x)
  BY <1>1, <1>2 DEF RunOK
<1>14. x.left \subseteq x.ch.caps /\ \A k \in x.got : k[1] # b
  BY <1>2, <1>13 DEF GotOK, CallsOK
<1>15. GotOK(y)
  BY <1>2, <1>4, <1>9, <1>12, <1>13, <1>14 DEF GotOK
<1>16. CallsOK(y)
  <2>1. \A c \in Branches : /\ y.calls[c] = IF c = b THEN x.calls[b] + 1 ELSE x.calls[c]
                            /\ x.calls[c] \in Nat /\ Attempts(c) \in Nat
    BY <1>7, <1>12, AttemptsTyped
  <2>2. x.calls[b] < Attempts(b)
    BY <1>2, <1>13 DEF CallsOK
  <2>3. \A c \in Branches : /\ y.calls[c] <= Attempts(c)
                            /\ c \in y.left => y.calls[c] < Attempts(c)
                            /\ y.calls[c] > 0 => c \in y.ch.caps
    BY <1>2, <1>9, <1>12, <1>13, <1>14, <2>1, <2>2 DEF CallsOK
  <2>4. \A c \in y.ch.caps \ y.left : y.calls[c] > 0
    <3>1. \A c \in x.ch.caps \ x.left : x.calls[c] > 0
      BY <1>2, <1>13, Phases DEF CallsOK
    <3>2. x.ch.caps \in SUBSET Branches
      BY <1>7 DEF Channels
    <3> QED BY <1>9, <1>12, <2>1, <3>1, <3>2
  <2>5. y.left \subseteq y.ch.caps
    BY <1>9, <1>12, <1>14
  <2>6. /\ ~y.valid => y.asked = {} /\ y.ch.caps = {}
        /\ y.ch.intent = IntentOf(y.ch.caps)
        /\ (y.valid /\ y.asked # {} => y.ch.caps = y.asked)
    BY <1>2, <1>9, <1>12, <1>13 DEF CallsOK
  <2> QED BY <1>12, <2>3, <2>4, <2>5, <2>6, Phases DEF CallsOK
<1>17. Gathered(r, y)
  <2>1. FactsFrom(r, y.got) = FactsFrom(r, x.got) \cup {Of(r, f) : f \in ans.facts}
    BY <1>5, <1>12 DEF FactsFrom
  <2>2. CitesFrom(r, y.got) = CitesFrom(r, x.got) \cup {Cite(r, i) : i \in ans.cites}
    BY <1>5, <1>12 DEF CitesFrom
  <2>3. MissingFrom(r, y.got) =
          MissingFrom(r, x.got)
            \cup (IF ans.unavailable THEN {[source |-> b, by |-> r]} ELSE {})
    <3>1. CASE ans.unavailable
      <4>1. {k \in y.got : Given(k).unavailable}
              = {k \in x.got : Given(k).unavailable} \cup {g}
        BY <1>5, <1>12, <3>1
      <4> QED BY <1>4, <3>1, <4>1 DEF MissingFrom
    <3>2. CASE ~ans.unavailable
      <4>1. {k \in y.got : Given(k).unavailable} = {k \in x.got : Given(k).unavailable}
        BY <1>5, <1>12, <3>2
      <4> QED BY <3>2, <4>1 DEF MissingFrom
    <3> QED BY <3>1, <3>2
  <2> QED BY <1>9, <1>12, <1>13, <2>1, <2>2, <2>3 DEF Gathered
<1>18. Summarised(r, y)
  <2>1. CASE b = "mcp_public_tools" /\ ans.summary # None
    BY <1>4, <1>5, <1>9, <1>12, <2>1 DEF Summarised
  <2>2. CASE ~(b = "mcp_public_tools" /\ ans.summary # None)
    <3>1. ch.summary = x.ch.summary
      BY <1>9, <2>2
    <3>2. \A k \in y.got : (k[1] = "mcp_public_tools" /\ Given(k).summary # None)
                             => k \in x.got
      BY <1>4, <1>5, <1>12, <2>2
    <3>3. x.got \subseteq y.got
      BY <1>12
    <3> QED BY <1>12, <1>13, <3>1, <3>2, <3>3 DEF Summarised
  <2> QED BY <2>1, <2>2
<1>19. StreamOK(r, y) /\ AnswerOK(r, y)
  BY <1>1, <1>2, <1>12, Phases DEF RunOK, StreamOK, AnswerOK
<1>20. RunOK(r, y)
  BY <1>1, <1>2, <1>12, <1>15, <1>16, <1>17, <1>18, <1>19, Phases DEF RunOK
<1>21. OwnerOK(y, owner)
  BY <1>1, <1>2, <1>12, OwnerStays
<1> QED BY <1>11, <1>20, <1>21, Replaced DEF Done, ChatInv

LEMMA RetryOK ==
    ASSUME ChatInv, NEW r \in Runs, NEW b \in Branches, Retry(r, b)
    PROVE  ChatInv'
<1>1. PICK x : x = run[r] /\ x \in RunRecord /\ RunOK(r, x) /\ OwnerOK(x, owner)
  BY ThisRun
<1>2. x.step = "branches" /\ x.step \in Inside /\ x.step \in Own /\ x.step \in Gathering
      /\ b \in x.left /\ x.calls[b] + 1 < Attempts(b)
  BY <1>1, Phases DEF Retry, Working, At
<1> DEFINE calls == [x.calls EXCEPT ![b] = @ + 1]
<1>3. PICK y : y = [x EXCEPT !.calls = calls]
  OBVIOUS
<1>4. run' = [run EXCEPT ![r] = y]
  BY <1>1, <1>3 DEF Retry
<1>5. x.calls \in [Branches -> Nat]
  BY <1>1 DEF RunRecord
<1>6. /\ y \in RunRecord /\ y.step = "branches" /\ y.user = x.user /\ y.valid = x.valid
      /\ y.asked = x.asked /\ y.ch = x.ch /\ y.left = x.left
      /\ y.calls = [x.calls EXCEPT ![b] = @ + 1] /\ y.got = x.got /\ y.sent = x.sent
  <2>1. calls \in [Branches -> Nat]
    BY <1>5
  <2> HIDE DEF calls
  <2>2. y.calls = calls
    BY <1>1, <1>3 DEF RunRecord
  <2> QED BY <1>1, <1>2, <1>3, <2>1, <2>2 DEF RunRecord, calls
<1>7. GotOK(x) /\ CallsOK(x) /\ Gathered(r, x) /\ Summarised(r, x)
  BY <1>1, <1>2 DEF RunOK
<1>8. GotOK(y) /\ Gathered(r, y) /\ Summarised(r, y)
  BY <1>6, <1>7 DEF GotOK, Gathered, Summarised
<1>9. CallsOK(y)
  <2>1. \A c \in Branches : /\ y.calls[c] = IF c = b THEN x.calls[b] + 1 ELSE x.calls[c]
                            /\ x.calls[c] \in Nat /\ Attempts(c) \in Nat
    BY <1>5, <1>6, AttemptsTyped
  <2>2. x.left \subseteq x.ch.caps
    BY <1>7 DEF CallsOK
  <2>3. \A c \in Branches : /\ y.calls[c] <= Attempts(c)
                            /\ c \in y.left => y.calls[c] < Attempts(c)
                            /\ y.calls[c] > 0 => c \in y.ch.caps
    BY <1>2, <1>6, <1>7, <2>1, <2>2 DEF CallsOK
  <2>4. \A c \in y.ch.caps \ y.left : y.calls[c] > 0
    <3>1. \A c \in x.ch.caps \ x.left : x.calls[c] > 0
      BY <1>2, <1>7, Phases DEF CallsOK
    <3>2. x.ch.caps \in SUBSET Branches
      BY <1>1 DEF RunRecord, Channels
    <3> QED BY <1>6, <2>1, <3>1, <3>2
  <2>5. /\ ~y.valid => y.asked = {} /\ y.ch.caps = {}
        /\ y.ch.intent = IntentOf(y.ch.caps)
        /\ (y.valid /\ y.asked # {} => y.ch.caps = y.asked)
        /\ y.left \subseteq y.ch.caps
    BY <1>2, <1>6, <1>7, <2>2 DEF CallsOK
  <2> QED BY <1>6, <2>3, <2>4, <2>5, Phases DEF CallsOK
<1>10. StreamOK(r, y) /\ AnswerOK(r, y)
  BY <1>1, <1>2, <1>6, Phases DEF RunOK, StreamOK, AnswerOK
<1>11. RunOK(r, y)
  BY <1>1, <1>2, <1>6, <1>8, <1>9, <1>10, Phases DEF RunOK
<1>12. OwnerOK(y, owner)
  BY <1>1, <1>2, <1>6, OwnerStays
<1> QED BY <1>4, <1>11, <1>12, Replaced DEF Retry, ChatInv

LEMMA BranchOK ==
    ASSUME ChatInv, NEW r \in Runs, NEW b \in Branches, BranchStep(r, b)
    PROVE  ChatInv'
<1>1. CASE Answered(r, b)
  <2>1. PICK o \in Outcomes[b] \ Exceptions : Done(r, b, o, Answer(o))
    BY <1>1 DEF Answered
  <2>2. Given(<<b, o>>) = Answer(o)
    BY <2>1 DEF Given
  <2>3. o \in Outcomes[b] /\ Done(r, b, o, Given(<<b, o>>)) /\ Working(r, b)
    BY <1>1, <2>1, <2>2 DEF Answered
  <2> QED BY <2>3, DoneOK
<1>2. CASE Retry(r, b)
  BY <1>2, RetryOK
<1>3. CASE Unavailable(r, b)
  <2>1. PICK e \in Outcomes[b] \cap Caught(b) :
          Done(r, b, e, [Nothing EXCEPT !.unavailable = TRUE])
    BY <1>3 DEF Unavailable
  <2>2. e \in Exceptions
    BY <2>1 DEF Caught, Exceptions
  <2>3. Given(<<b, e>>) = [Nothing EXCEPT !.unavailable = TRUE]
    BY <2>2 DEF Given
  <2>4. e \in Outcomes[b] /\ Done(r, b, e, Given(<<b, e>>)) /\ Working(r, b)
    BY <1>3, <2>1, <2>3 DEF Unavailable
  <2> QED BY <2>4, DoneOK
<1>4. CASE Raised(r, b)
  <2>1. run[r].step \in Inside \cup {"claim", "check"}
    BY <1>4, Phases DEF Raised, Working, At
  <2> QED BY <1>4, <2>1, FailedRun DEF Raised, ChatInv
<1> QED BY <1>1, <1>2, <1>3, <1>4 DEF BranchStep

-----------------------------------------------------------------------------
(***************************************************************************)
(* After the branches.                                                     *)
(***************************************************************************)

\* The calls are made, and what the branches returned stays.
LEMMA CallsMade ==
    ASSUME NEW x, NEW y, CallsOK(x), GotOK(x), Same(x, y), x.step \in Called,
           y.step \in Called, y.left = {}, y.ch.caps = x.ch.caps, y.ch.intent = x.ch.intent
    PROVE  CallsOK(y) /\ GotOK(y)
<1>1. x.step \in Own /\ x.step \notin {"validation", "routing", "extraction"}
      /\ y.step \in Own /\ y.step \notin {"validation", "routing", "extraction"}
  BY DEF Called
<1>2. GotOK(y)
  BY DEF GotOK, Same
<1>3. CallsOK(y)
  <2>1. \A b \in Branches : /\ y.calls[b] <= Attempts(b)
                            /\ y.calls[b] > 0 => b \in y.ch.caps
    BY <1>1 DEF CallsOK, Same
  <2>2. \A b \in y.ch.caps \ y.left : y.calls[b] > 0
    BY DEF CallsOK, Same
  <2>3. /\ ~y.valid => y.asked = {} /\ y.ch.caps = {}
        /\ y.ch.intent = IntentOf(y.ch.caps)
        /\ (y.valid /\ y.asked # {} => y.ch.caps = y.asked)
    BY <1>1 DEF CallsOK, Same
  <2> QED BY <1>1, <2>1, <2>2, <2>3 DEF CallsOK
<1> QED BY <1>2, <1>3

LEMMA JoinOK ==
    ASSUME ChatInv, NEW r \in Runs, Join(r)
    PROVE  ChatInv'
<1>1. PICK x : x = run[r] /\ x \in RunRecord /\ RunOK(r, x) /\ OwnerOK(x, owner)
  BY ThisRun
<1>2. x.step = "branches" /\ x.step \in Inside /\ x.step \in Gathering /\ x.step \in Called
      /\ x.left = {}
  BY <1>1, Phases DEF Join, At
<1>3. x.ch \in Channels /\ Saved(r, "evidence_correlation", x.ch)
  BY <1>1 DEF Join, RunRecord
<1>4. PICK y \in RunRecord :
                /\ run' = [run EXCEPT ![r] = y]
                /\ y.step = "evidence_correlation" /\ y.ch = x.ch /\ y.sent = x.sent
                /\ y.saw = x.saw /\ Same(x, y)
  BY <1>1, <1>2, <1>3, SavedRun, Phases
<1>5. CallsOK(y) /\ GotOK(y)
  BY <1>1, <1>2, <1>4, CallsMade, Phases DEF RunOK, Same
<1>6. Gathered(r, y) /\ Summarised(r, y)
  BY <1>1, <1>2, <1>4 DEF RunOK, Gathered, Summarised, Same
<1>7. StreamOK(r, y) /\ AnswerOK(r, y)
  BY <1>1, <1>2, <1>4, Phases DEF RunOK, StreamOK, AnswerOK
<1>8. RunOK(r, y)
  BY <1>1, <1>2, <1>4, <1>5, <1>6, <1>7, Phases DEF RunOK, Same
<1>9. OwnerOK(y, owner)
  BY <1>1, <1>2, <1>4, OwnerStays DEF Same
<1> QED BY <1>1, <1>2, <1>3, <1>4, <1>8, <1>9, SavedRun, Replaced, Phases

\* A candidate is a public record of this run.
LEMMA Candidates ==
    ASSUME NEW r \in Runs, NEW x, GotOK(x), NEW f \in FactsFrom(r, x.got), f.kind = "candidate"
    PROVE  /\ f \in Facts /\ f.by = r
           /\ \E g \in x.got : /\ g[1] = "mcp_public_tools" /\ g[1] \in x.ch.caps
                               /\ AnswerOf(g[1], Given(g))
                               /\ \E s \in Given(g).facts : s.cites = f.cites
<1>1. PICK g \in x.got :
             /\ g[1] \in x.ch.caps /\ g[1] \in Branches /\ AnswerOf(g[1], Given(g))
             /\ \E s \in Given(g).facts : s.kind = f.kind /\ s.cites = f.cites
             /\ f \in Facts /\ f.kind = KindOf(g[1]) /\ f.by = r
  BY FactOfBranch
<1>2. g[1] = "mcp_public_tools"
  BY <1>1 DEF KindOf, Branches
<1> QED BY <1>1, <1>2

LEMMA CorrelateOK ==
    ASSUME ChatInv, NEW r \in Runs, Correlate(r)
    PROVE  ChatInv'
<1>1. PICK x : x = run[r] /\ x \in RunRecord /\ RunOK(r, x) /\ OwnerOK(x, owner)
  BY ThisRun
<1>2. x.step = "evidence_correlation" /\ x.step \in Inside /\ x.step \in Gathering
      /\ x.step \in Called
  BY <1>1, Phases DEF Correlate, At
<1>3. CallsOK(x) /\ GotOK(x) /\ Gathered(r, x) /\ Summarised(r, x) /\ x.left = {}
  BY <1>1, <1>2 DEF RunOK, CallsOK
<1> DEFINE cites == {c \in x.ch.cites : c.by = r \/ \A d \in x.ch.cites : d.id = c.id => d.by # r}
           candidates == OfKind(x.ch, "candidate")
<1>4. cites = x.ch.cites
  <2>1. \A c \in x.ch.cites : c.by = r
    BY <1>3, FromTyped DEF Gathered
  <2> QED BY <2>1
<1>5. PICK s : /\ s = x.ch.summary \/ \E c \in candidates : s = [cites |-> c.cites, by |-> c.by]
               /\ Saved(r, "grounding_verification",
                        [x.ch EXCEPT !.cites = cites, !.summary = s])
  <2>1. PICK s \in IF candidates # {} /\ (OfKind(x.ch, "card") # {} \/ x.ch.summary = None)
                   THEN {[cites |-> c.cites, by |-> c.by] : c \in candidates}
                   ELSE {x.ch.summary} :
          Saved(r, "grounding_verification", [x.ch EXCEPT !.cites = cites, !.summary = s])
    BY <1>1 DEF Correlate
  <2> HIDE DEF candidates
  <2>2. s = x.ch.summary \/ \E c \in candidates : s = [cites |-> c.cites, by |-> c.by]
    BY <2>1
  <2> QED BY <2>1, <2>2
<1>6. s = x.ch.summary \/ \E c \in candidates : s = Sum(r, c.cites) /\ c \in Facts
  <2>1. \A c \in candidates : c \in Facts /\ c.by = r
    BY <1>3, Candidates DEF Gathered, OfKind
  <2> QED BY <1>5, <2>1 DEF Sum
<1>7. s \in Summaries \cup {None}
  <2>1. \A c \in Facts : c.cites \in SUBSET Ids
    BY DEF Facts
  <2> QED BY <1>1, <1>6, <2>1, SumTyped DEF RunRecord, Channels
<1>8. PICK ch : ch = [x.ch EXCEPT !.cites = x.ch.cites, !.summary = s]
  OBVIOUS
<1>9. /\ ch \in Channels /\ ch.intent = x.ch.intent /\ ch.caps = x.ch.caps
      /\ ch.facts = x.ch.facts /\ ch.cites = x.ch.cites /\ ch.summary = s
      /\ ch.unavailable = x.ch.unavailable
  BY <1>1, <1>7, <1>8 DEF RunRecord, Channels
<1>10. Saved(r, "grounding_verification", ch)
  BY <1>4, <1>5, <1>8
<1>11. PICK y \in RunRecord :
                /\ run' = [run EXCEPT ![r] = y]
                /\ y.step = "grounding_verification" /\ y.ch = ch /\ y.sent = x.sent
                /\ y.saw = x.saw /\ Same(x, y)
  BY <1>1, <1>2, <1>9, <1>10, SavedRun, Phases
<1>12. CallsOK(y) /\ GotOK(y)
  BY <1>2, <1>3, <1>9, <1>11, CallsMade, Phases DEF Same
<1>13. Gathered(r, y)
  BY <1>3, <1>9, <1>11 DEF Gathered, Same
<1>14. Correlated(r, y)
  <2>1. CASE s = x.ch.summary
    BY <1>3, <1>9, <1>11, <2>1 DEF Correlated, Summarised, Same
  <2>2. CASE \E c \in candidates : s = Sum(r, c.cites)
    BY <1>9, <1>11, <2>2 DEF Correlated, OfKind
  <2> QED BY <1>6, <2>1, <2>2
<1>15. StreamOK(r, y) /\ AnswerOK(r, y)
  BY <1>1, <1>2, <1>11, Phases DEF RunOK, StreamOK, AnswerOK
<1>16. RunOK(r, y)
  BY <1>1, <1>2, <1>11, <1>12, <1>13, <1>14, <1>15, Phases DEF RunOK, Same
<1>17. OwnerOK(y, owner)
  BY <1>1, <1>2, <1>11, OwnerStays DEF Same
<1> QED BY <1>1, <1>2, <1>9, <1>10, <1>11, <1>16, <1>17, SavedRun, Replaced, Phases

\* What a grounded answer of the public tools leaves in the channels is grounded,
\* whether or not a candidate has replaced the summary.
LEMMA SummaryStands ==
    ASSUME NEW r \in Runs, NEW x, GotOK(x), Gathered(r, x), Correlated(r, x), NEW g \in x.got,
           g[1] = "mcp_public_tools", Given(g).summary # None,
           Given(g).summary \subseteq Given(g).cites
    PROVE  x.ch.summary # None /\ Grounds(CiteIds(x.ch), x.ch.summary.cites)
<1>1. g \in Results /\ g[2] \in Outcomes[g[1]]
  BY DEF GotOK
<1>2. g[1] \in Branches /\ g = <<g[1], g[2]>>
  BY <1>1 DEF Results
<1>3. PICK ans : ans = Given(g) /\ AnswerOf(g[1], ans)
  BY <1>1, <1>2, GivenIsAnswer
<1>4. /\ ans.summary # {} /\ \A f \in ans.facts : Grounds(ans.cites, f.cites)
      /\ ans.summary \in SUBSET Ids /\ ans.facts \in SUBSET Statements
  BY <1>3 DEF AnswerOf, Answers
<1>5. ans.cites \subseteq CiteIds(x.ch)
  <2>1. \A i \in ans.cites : Cite(r, i) \in x.ch.cites /\ Cite(r, i).id = i
    BY <1>3 DEF Gathered, CitesFrom, Cite
  <2> QED BY <2>1 DEF CiteIds
<1>6. CASE Summarised(r, x)
  <2>1. PICK k \in x.got : /\ k[1] = "mcp_public_tools" /\ Given(k).summary # None
                           /\ x.ch.summary = Sum(r, Given(k).summary)
    BY <1>6 DEF Summarised
  <2>2. k = g
    BY <2>1 DEF GotOK
  <2>3. x.ch.summary # None /\ x.ch.summary.cites = ans.summary
    BY <1>3, <1>4, <2>1, <2>2, SumTyped
  <2> QED BY <1>3, <1>4, <1>5, <2>3 DEF Grounds
<1>7. CASE \E f \in OfKind(x.ch, "candidate") : x.ch.summary = Sum(r, f.cites)
  <2>1. PICK f \in OfKind(x.ch, "candidate") : x.ch.summary = Sum(r, f.cites)
    BY <1>7
  <2>2. f \in FactsFrom(r, x.got) /\ f.kind = "candidate"
    BY <2>1 DEF Gathered, OfKind
  <2>3. f \in Facts
    BY <2>2, Candidates
  <2>4. PICK k \in x.got : /\ k[1] = "mcp_public_tools"
                           /\ \E s \in Given(k).facts : s.cites = f.cites
    BY <2>2, Candidates
  <2>5. k = g
    BY <2>4 DEF GotOK
  <2>6. Grounds(ans.cites, f.cites)
    BY <1>3, <1>4, <2>4, <2>5
  <2>7. x.ch.summary # None /\ x.ch.summary.cites = f.cites
    BY <2>1, <2>3, SumTyped DEF Facts
  <2> QED BY <1>5, <2>6, <2>7 DEF Grounds
<1> QED BY <1>6, <1>7 DEF Correlated

\* The summary in the channels is a public record's.
LEMMA SummaryIsRecord ==
    ASSUME NEW r \in Runs, NEW x, GotOK(x), Gathered(r, x), Correlated(r, x), x.ch.summary # None
    PROVE  x.ch.summary.by = r /\ "mcp_public_tools" \in x.ch.caps
<1>1. CASE Summarised(r, x)
  <2>1. PICK k \in x.got : /\ k[1] = "mcp_public_tools"
                           /\ x.ch.summary = Sum(r, Given(k).summary)
    BY <1>1 DEF Summarised
  <2> QED BY <2>1 DEF GotOK, Sum
<1>2. CASE \E f \in OfKind(x.ch, "candidate") : x.ch.summary = Sum(r, f.cites)
  <2>1. PICK f \in OfKind(x.ch, "candidate") : x.ch.summary = Sum(r, f.cites)
    BY <1>2
  <2>2. f \in FactsFrom(r, x.got) /\ f.kind = "candidate"
    BY <2>1 DEF Gathered, OfKind
  <2>3. "mcp_public_tools" \in x.ch.caps
    BY <2>2, Candidates
  <2> QED BY <2>1, <2>3 DEF Sum
<1> QED BY <1>1, <1>2 DEF Correlated

LEMMA VerifyOK ==
    ASSUME ChatInv, NEW r \in Runs, Verify(r)
    PROVE  ChatInv'
<1>1. PICK x : x = run[r] /\ x \in RunRecord /\ RunOK(r, x) /\ OwnerOK(x, owner)
  BY ThisRun
<1>2. x.step = "grounding_verification" /\ x.step \in Inside /\ x.step \in Called
  BY <1>1, Phases DEF Verify, At
<1>3. CallsOK(x) /\ GotOK(x) /\ Gathered(r, x) /\ Correlated(r, x) /\ x.left = {}
  BY <1>1, <1>2 DEF RunOK, CallsOK
<1>4. PICK keep \in BOOLEAN :
        keep = (x.ch.summary # None /\ Grounds(CiteIds(x.ch), x.ch.summary.cites))
  OBVIOUS
<1>5. PICK facts : facts = {f \in x.ch.facts :
                              Verified(x.ch, f) \/ (f.kind = "candidate" /\ ~keep)}
  OBVIOUS
<1>6. PICK e \in BOOLEAN : e = (x.ch.errors
                                 \/ (\/ x.ch.summary # None /\ ~keep
                                     \/ \E f \in x.ch.facts \ facts : f.kind # "candidate"))
  OBVIOUS
<1>7. PICK summary : summary = IF keep THEN x.ch.summary ELSE None
  OBVIOUS
<1>8. PICK ch : ch = [x.ch EXCEPT !.facts = facts, !.summary = summary, !.errors = e]
  OBVIOUS
<1>9. /\ ch \in Channels /\ ch.intent = x.ch.intent /\ ch.caps = x.ch.caps
      /\ ch.facts = facts /\ ch.cites = x.ch.cites /\ ch.summary = summary
      /\ ch.unavailable = x.ch.unavailable
  <2>1. facts \in SUBSET Facts /\ summary \in Summaries \cup {None}
    BY <1>1, <1>5, <1>7 DEF RunRecord, Channels
  <2> QED BY <1>1, <1>6, <1>8, <2>1 DEF RunRecord, Channels
<1>10. Saved(r, "compliance_disclaimer", ch)
  BY <1>1, <1>4, <1>5, <1>6, <1>7, <1>8 DEF Verify
<1>11. PICK y \in RunRecord :
                /\ run' = [run EXCEPT ![r] = y]
                /\ y.step = "compliance_disclaimer" /\ y.ch = ch /\ y.sent = x.sent
                /\ y.saw = x.saw /\ Same(x, y)
  BY <1>1, <1>2, <1>9, <1>10, SavedRun, Phases
<1>12. CallsOK(y) /\ GotOK(y)
  BY <1>2, <1>3, <1>9, <1>11, CallsMade, Phases DEF Same
<1>13. Checked(r, y)
  <2>1. /\ y.ch.cites = CitesFrom(r, y.got) /\ y.ch.unavailable = MissingFrom(r, y.got)
        /\ x.ch.facts = FactsFrom(r, y.got) /\ y.ch.facts = facts /\ y.ch.summary = summary
        /\ y.got = x.got /\ y.ch.caps = x.ch.caps
    BY <1>3, <1>9, <1>11 DEF Gathered, Same
  <2>2. CiteIds(y.ch) = CiteIds(x.ch) /\ \A f : Verified(y.ch, f) <=> Verified(x.ch, f)
    BY <1>9, <1>11 DEF CiteIds, Verified
  <2>3. y.ch.summary # None =>
         /\ y.ch.summary.by = r
         /\ Grounds(CiteIds(y.ch), y.ch.summary.cites)
         /\ "mcp_public_tools" \in y.ch.caps
    <3>1. x.ch.summary # None =>
            x.ch.summary.by = r /\ "mcp_public_tools" \in x.ch.caps
      BY <1>3, SummaryIsRecord
    <3> QED BY <1>4, <1>7, <2>1, <2>2, <3>1
  <2>4. \A f \in y.ch.facts :
         Verified(y.ch, f) \/ (f.kind = "candidate" /\ y.ch.summary = None)
    BY <1>5, <1>7, <2>1, <2>2
  <2>5. \A f \in FactsFrom(r, y.got) : Verified(y.ch, f) => f \in y.ch.facts
    BY <1>5, <2>1, <2>2
  <2>6. ASSUME NEW g \in y.got, g[1] = "mcp_public_tools", Given(g).summary # None,
               Given(g).summary \subseteq Given(g).cites
        PROVE  y.ch.summary # None
    <3>1. x.ch.summary # None /\ Grounds(CiteIds(x.ch), x.ch.summary.cites)
      BY <1>3, <2>1, <2>6, SummaryStands
    <3> QED BY <1>4, <1>7, <2>1, <3>1
  <2>7. y.ch.facts \subseteq FactsFrom(r, y.got)
    BY <1>5, <2>1
  <2> QED BY <2>1, <2>3, <2>4, <2>5, <2>6, <2>7 DEF Checked
<1>14. StreamOK(r, y) /\ AnswerOK(r, y)
  BY <1>1, <1>2, <1>11, Phases DEF RunOK, StreamOK, AnswerOK
<1>15. RunOK(r, y)
  BY <1>1, <1>2, <1>11, <1>12, <1>13, <1>14, Phases DEF RunOK, Same
<1>16. OwnerOK(y, owner)
  BY <1>1, <1>2, <1>11, OwnerStays DEF Same
<1> QED BY <1>1, <1>2, <1>9, <1>10, <1>11, <1>15, <1>16, SavedRun, Replaced, Phases

\* What was verified stays so.
LEMMA StaysChecked ==
    ASSUME NEW r, NEW x, NEW y, Checked(r, x), y.got = x.got, y.ch.caps = x.ch.caps,
           y.ch.facts = x.ch.facts, y.ch.cites = x.ch.cites, y.ch.summary = x.ch.summary,
           y.ch.unavailable = x.ch.unavailable
    PROVE  Checked(r, y)
<1>1. CiteIds(y.ch) = CiteIds(x.ch) /\ \A f : Verified(y.ch, f) <=> Verified(x.ch, f)
  BY DEF CiteIds, Verified
<1> QED BY <1>1 DEF Checked

LEMMA ComplyOK ==
    ASSUME ChatInv, NEW r \in Runs, Comply(r)
    PROVE  ChatInv'
<1>1. PICK x : x = run[r] /\ x \in RunRecord /\ RunOK(r, x) /\ OwnerOK(x, owner)
  BY ThisRun
<1>2. x.step = "compliance_disclaimer" /\ x.step \in Inside /\ x.step \in Called
      /\ x.step \in Verifying
  BY <1>1, Phases DEF Comply, At
<1>3. CallsOK(x) /\ GotOK(x) /\ Checked(r, x) /\ x.left = {}
  BY <1>1, <1>2 DEF RunOK, CallsOK
<1>4. PICK d \in BOOLEAN :
        d = (x.ch.intent \in {"sql_auction_search", "mcp_public_tools", Combined})
  <2>1. (x.ch.intent \in {"sql_auction_search", "mcp_public_tools", Combined}) \in BOOLEAN
    OBVIOUS
  <2> QED BY <2>1
<1>5. PICK ch : ch = [x.ch EXCEPT !.disclaimer = d]
  OBVIOUS
<1>6. /\ ch \in Channels /\ ch.intent = x.ch.intent /\ ch.caps = x.ch.caps
      /\ ch.facts = x.ch.facts /\ ch.cites = x.ch.cites /\ ch.summary = x.ch.summary
      /\ ch.unavailable = x.ch.unavailable /\ ch.disclaimer = d
  BY <1>1, <1>5 DEF RunRecord, Channels
<1>7. Saved(r, "synthesis", ch)
  BY <1>1, <1>4, <1>5 DEF Comply
<1>8. PICK y \in RunRecord :
                /\ run' = [run EXCEPT ![r] = y]
                /\ y.step = "synthesis" /\ y.ch = ch /\ y.sent = x.sent
                /\ y.saw = x.saw /\ Same(x, y)
  BY <1>1, <1>2, <1>6, <1>7, SavedRun, Phases
<1>9. CallsOK(y) /\ GotOK(y)
  BY <1>2, <1>3, <1>6, <1>8, CallsMade, Phases DEF Same
<1>10. Checked(r, y)
  BY <1>3, <1>6, <1>8, StaysChecked DEF Same
<1>11. StreamOK(r, y) /\ AnswerOK(r, y)
  BY <1>1, <1>2, <1>4, <1>6, <1>8, Phases DEF RunOK, StreamOK, AnswerOK
<1>12. RunOK(r, y)
  BY <1>1, <1>2, <1>8, <1>9, <1>10, <1>11, Phases DEF RunOK, Same
<1>13. OwnerOK(y, owner)
  BY <1>1, <1>2, <1>8, OwnerStays DEF Same
<1> QED BY <1>1, <1>2, <1>6, <1>7, <1>8, <1>12, <1>13, SavedRun, Replaced, Phases

LEMMA SynthesizeOK ==
    ASSUME ChatInv, NEW r \in Runs, Synthesize(r)
    PROVE  ChatInv'
<1>1. PICK x : x = run[r] /\ x \in RunRecord /\ RunOK(r, x) /\ OwnerOK(x, owner)
  BY ThisRun
<1>2. x.step = "synthesis" /\ x.step \in Inside /\ x.step \in Called /\ x.step \in Verifying
  BY <1>1, Phases DEF Synthesize, At
<1>3. CallsOK(x) /\ GotOK(x) /\ Checked(r, x) /\ x.left = {} /\ x.sent = Start(r)
  BY <1>1, <1>2 DEF RunOK, CallsOK, StreamOK
<1>4. PICK y : y = [x EXCEPT !.step = "trace_finalization", !.sent = Delta(r)]
  OBVIOUS
<1>5. run' = [run EXCEPT ![r] = y]
  <2>1. Append(x.sent, Event("answer.delta", r)) = Delta(r)
    BY <1>3 DEF Delta
  <2> QED BY <1>1, <1>4, <2>1 DEF Synthesize
<1>6. Delta(r) \in Seq(Events)
  BY SentTyped DEF Sendings
<1>7. /\ y \in RunRecord /\ y.step = "trace_finalization" /\ y.ch = x.ch
      /\ y.sent = Delta(r) /\ Same(x, y)
  BY <1>1, <1>4, <1>6, Phases DEF RunRecord, Same
<1>8. CallsOK(y) /\ GotOK(y)
  BY <1>2, <1>3, <1>7, CallsMade, Phases DEF Same
<1>9. Checked(r, y)
  BY <1>3, <1>7, StaysChecked DEF Same
<1>10. StreamOK(r, y) /\ AnswerOK(r, y)
  BY <1>1, <1>2, <1>7, Phases DEF RunOK, StreamOK, AnswerOK
<1>11. RunOK(r, y)
  BY <1>1, <1>2, <1>7, <1>8, <1>9, <1>10, Phases DEF RunOK, Same
<1>12. OwnerOK(y, owner)
  BY <1>1, <1>2, <1>7, OwnerStays DEF Same
<1>13. checkpoint' \in [Users -> Channels] /\ faults' \in 0..MaxFaults /\ owner' = owner
  BY <1>1 DEF Synthesize, ChatInv, RunRecord
<1> QED BY <1>5, <1>11, <1>12, <1>13, Replaced

\* What the channels hold makes a response.
LEMMA ResponseTyped ==
    ASSUME NEW r \in Runs, NEW ch \in Channels
    PROVE  /\ Response(r, ch) \in Responses
           /\ Response(r, ch) # None /\ Response(r, ch).by = r
<1>1. Status(ch) \in {"completed", "partial", "failed"}
  BY DEF Status
<1>2. {f \in ch.facts : f.kind = "candidate" => ch.summary # None} \in SUBSET Facts
  BY DEF Channels
<1>3. Response(r, ch) \in Responses /\ Response(r, ch).by = r
  BY <1>1, <1>2 DEF Response, Responses, Channels
<1> QED BY <1>3, ChatAssumption

LEMMA FinalizeOK ==
    ASSUME ChatInv, NEW r \in Runs, Finalize(r)
    PROVE  ChatInv'
<1>1. PICK x : x = run[r] /\ x \in RunRecord /\ RunOK(r, x) /\ OwnerOK(x, owner)
  BY ThisRun
<1>2. x.step = "trace_finalization" /\ x.step \in Inside /\ x.step \in Called
      /\ x.step \in Verifying
  BY <1>1, Phases DEF Finalize, At
<1>3. CallsOK(x) /\ GotOK(x) /\ Checked(r, x) /\ x.left = {} /\ x.sent = Delta(r)
  BY <1>1, <1>2 DEF RunOK, CallsOK, StreamOK
<1>4. x.ch \in Channels
  BY <1>1 DEF RunRecord
<1>5. PICK response : response = Response(r, x.ch)
  OBVIOUS
<1>6. response \in Responses /\ response.by = r
  BY <1>4, <1>5, ResponseTyped
<1>7. PICK ch : ch = [x.ch EXCEPT !.final = response]
  OBVIOUS
<1>8. /\ ch \in Channels /\ ch.intent = x.ch.intent /\ ch.caps = x.ch.caps
      /\ ch.facts = x.ch.facts /\ ch.cites = x.ch.cites /\ ch.summary = x.ch.summary
      /\ ch.unavailable = x.ch.unavailable /\ ch.disclaimer = x.ch.disclaimer
      /\ ch.final = response
  BY <1>4, <1>6, <1>7 DEF Channels
<1>9. PICK y : y = [x EXCEPT !.step = "closing", !.ch = ch, !.final = response,
                             !.sent = Complete(r), !.saw = TRUE]
  OBVIOUS
<1>10. run' = [run EXCEPT ![r] = y]
  <2>1. Append(x.sent, Event("answer.completed", response.by)) = Complete(r)
    BY <1>3, <1>6 DEF Complete
  <2> QED BY <1>1, <1>5, <1>7, <1>9, <2>1 DEF Finalize
<1>11. Complete(r) \in Seq(Events)
  BY SentTyped DEF Sendings
<1>12. /\ y \in RunRecord /\ y.step = "closing" /\ y.ch = ch
       /\ y.sent = Complete(r) /\ y.saw /\ Same(x, y)
  BY <1>1, <1>6, <1>8, <1>9, <1>11, Phases DEF RunRecord, Same
<1>13. CallsOK(y) /\ GotOK(y)
  BY <1>2, <1>3, <1>8, <1>12, CallsMade, Phases DEF Same
<1>14. Checked(r, y)
  BY <1>3, <1>8, <1>12, StaysChecked DEF Same
<1>15. StreamOK(r, y)
  BY <1>12, Phases DEF StreamOK
<1>16. AnswerOK(r, y)
  <2>1. Status(ch) = Status(x.ch)
    BY <1>8 DEF Status, OfKind
  <2>2. Response(r, ch) = Response(r, x.ch)
    BY <1>8, <2>1 DEF Response
  <2> QED BY <1>1, <1>2, <1>5, <1>8, <1>12, <2>2 DEF RunOK, AnswerOK
<1>17. RunOK(r, y)
  BY <1>1, <1>2, <1>12, <1>13, <1>14, <1>15, <1>16, Phases DEF RunOK, Same
<1>18. OwnerOK(y, owner)
  BY <1>1, <1>2, <1>12, OwnerStays DEF Same
<1>19. checkpoint' \in [Users -> Channels] /\ faults' \in 0..MaxFaults /\ owner' = owner
  BY <1>1, <1>5, <1>7, <1>8 DEF Finalize, ChatInv
<1> QED BY <1>10, <1>17, <1>18, <1>19, Replaced

LEMMA CloseOK ==
    ASSUME ChatInv, NEW r \in Runs, Close(r)
    PROVE  ChatInv'
<1>1. PICK x : x = run[r] /\ x \in RunRecord /\ RunOK(r, x) /\ OwnerOK(x, owner)
  BY ThisRun
<1>2. x.step = "closing" /\ x.step \in Inside
  BY <1>1, Phases DEF Close, At
<1>3. x.sent = Complete(r) /\ x.saw
  BY <1>1, <1>2 DEF RunOK, StreamOK
<1>4. Over(r, "ended", Complete(r))
  BY <1>1, <1>3 DEF Close
<1>5. Complete(r) \in Seq(Events)
  BY SentTyped DEF Sendings
<1>6. x.user = owner
  BY <1>1, <1>2 DEF OwnerOK
<1>7. "ended" \in {"ended", "cut"} /\ "ended" # "cut"
  OBVIOUS
<1> QED BY <1>1, <1>2, <1>4, <1>5, <1>6, <1>7, Ended DEF Close, ChatInv

-----------------------------------------------------------------------------
(***************************************************************************)
(* The theorems.                                                           *)
(***************************************************************************)

LEMMA StepKeepsInv ==
    ASSUME ChatInv, [Next]_vars
    PROVE  ChatInv'
<1>1. CASE Next
  <2>1. PICK r \in Runs : \/ Request(r) \/ RunStep(r) \/ Fail(r) \/ Cancel(r)
                          \/ \E b \in Branches : BranchStep(r, b)
    BY <1>1 DEF Next
  <2>2. CASE Request(r)
    BY <2>2, RequestOK
  <2>3. CASE RunStep(r)
    BY <2>3, ClaimThreadOK, RefuseOK, BeginOK, InitializeOK, ValidateOK, RouteOK, ExtractOK,
       JoinOK, CorrelateOK, VerifyOK, ComplyOK, SynthesizeOK, FinalizeOK, CloseOK DEF RunStep
  <2>4. CASE Fail(r) \/ Cancel(r)
    BY <2>4, DisturbedOK
  <2>5. CASE \E b \in Branches : BranchStep(r, b)
    BY <2>5, BranchOK
  <2> QED BY <2>1, <2>2, <2>3, <2>4, <2>5
<1>2. CASE UNCHANGED vars
  <2>1. run' = run /\ owner' = owner /\ checkpoint' = checkpoint /\ faults' = faults
    BY <1>2 DEF vars
  <2>2. \A r \in Runs : RunOK(r, run[r])' /\ OwnerOK(run[r], owner)'
    BY <2>1 DEF ChatInv
  <2> QED BY <2>1, <2>2 DEF ChatInv
<1> QED BY <1>1, <1>2

\* The invariant holds in every reachable state: every run's channels, calls and
\* stream are in step with what its services returned.
THEOREM ChatInductive == Spec => []ChatInv
<1>1. Init => ChatInv
  BY InitOK
<1>2. ChatInv /\ [Next]_vars => ChatInv'
  BY StepKeepsInv
<1> QED BY <1>1, <1>2, PTL DEF Spec

\* Every variable has its type: in particular only what was dispatched is still to be
\* done, and no branch calls its service more often than it may.
THEOREM TypesKept == Spec => []ChatTypeOK
<1>1. ChatInv => ChatTypeOK
  BY DEF ChatInv, ChatTypeOK, RunOK, CallsOK
<1> QED BY <1>1, ChatInductive, PTL

\* What is known of an answer.
LEMMA AnswerKnown ==
    ASSUME ChatInv, NEW r \in Answering
    PROVE  /\ r \in Runs /\ run[r] \in RunRecord /\ run[r].ch \in Channels
           /\ GotOK(run[r]) /\ CallsOK(run[r]) /\ Checked(r, run[r]) /\ run[r].left = {}
           /\ run[r].ch.final = Response(r, run[r].ch)
           /\ run[r].step = "closing" /\ run[r].step \in Own
           /\ run[r].ch.intent = IntentOf(run[r].ch.caps)
           /\ run[r].ch.caps \in SUBSET Branches
           /\ run[r].ch.disclaimer =
                (run[r].ch.intent \in {"sql_auction_search", "mcp_public_tools", Combined})
<1>1. r \in Runs /\ run[r].step = "closing"
  BY DEF Answering, At
<1>2. PICK x : x = run[r] /\ x \in RunRecord /\ RunOK(r, x)
  BY <1>1, ThisRun
<1>3. GotOK(x) /\ CallsOK(x) /\ Checked(r, x) /\ AnswerOK(r, x)
  BY <1>1, <1>2, Phases DEF RunOK
<1>4. x.ch \in Channels /\ x.ch.caps \in SUBSET Branches
  BY <1>2 DEF RunRecord, Channels
<1>5. x.left = {} /\ x.ch.intent = IntentOf(x.ch.caps)
  BY <1>1, <1>2, <1>3, Phases DEF CallsOK
<1> QED BY <1>1, <1>2, <1>3, <1>4, <1>5, Phases DEF AnswerOK

\* The parts of a response.
LEMMA Parts ==
    ASSUME NEW r, NEW ch
    PROVE  /\ Response(r, ch).by = r /\ Response(r, ch).status = Status(ch)
           /\ Response(r, ch).intent = ch.intent /\ Response(r, ch).cites = ch.cites
           /\ Response(r, ch).facts =
                {f \in ch.facts : f.kind = "candidate" => ch.summary # None}
           /\ Response(r, ch).summary = ch.summary
           /\ Response(r, ch).unavailable = ch.unavailable
           /\ Response(r, ch).disclaimer = ch.disclaimer
BY DEF Response

\* No response holds a fact or a summary without a citation that it lists, whatever
\* the branches returned, in whatever order, and whatever correlation made of it.
THEOREM AnswersAreGrounded == Spec => []Grounded
<1>1. ASSUME ChatInv PROVE Grounded
  <2> SUFFICES ASSUME NEW r \in Answering, NEW response, response = run[r].ch.final,
                      NEW ids, ids = {c.id : c \in response.cites}
               PROVE  /\ \A f \in response.facts :
                           f.cites \subseteq ids
                             /\ (f.cites # {} \/ (f.kind = "evidence" /\ ids # {}))
                      /\ response.summary # None => Grounds(ids, response.summary.cites)
    BY DEF Grounded
  <2>1. PICK x : x = run[r] /\ Checked(r, x) /\ response = Response(r, x.ch)
    BY <1>1, AnswerKnown
  <2>2. ids = CiteIds(x.ch)
    BY <2>1, Parts DEF CiteIds
  <2>3. \A f \in response.facts : Verified(x.ch, f)
    BY <2>1, Parts DEF Checked
  <2>4. response.summary # None => Grounds(ids, response.summary.cites)
    <3>1. x.ch.summary # None => Grounds(CiteIds(x.ch), x.ch.summary.cites)
      BY <2>1 DEF Checked
    <3>2. response.summary = x.ch.summary
      BY <2>1, Parts
    <3> QED BY <2>2, <3>1, <3>2
  <2> QED BY <2>2, <2>3, <2>4 DEF Verified, Grounds
<1> QED BY <1>1, ChatInductive, PTL

\* A response holds nothing of another run, whatever checkpoint its run started from.
THEOREM AnswersOwnRunOnly == Spec => []OwnRunOnly
<1>1. ASSUME ChatInv PROVE OwnRunOnly
  <2> SUFFICES ASSUME NEW r \in Answering, NEW response, response = run[r].ch.final
               PROVE  /\ response.by = r
                      /\ \A x \in response.facts \cup response.cites \cup response.unavailable :
                           x.by = r
                      /\ response.summary # None => response.summary.by = r
    BY DEF OwnRunOnly
  <2>1. PICK x : /\ x = run[r] /\ Checked(r, x) /\ GotOK(x) /\ r \in Runs
                 /\ response = Response(r, x.ch)
    BY <1>1, AnswerKnown
  <2>2. \A f \in response.facts : f.by = r
    BY <2>1, Parts, FactOfBranch DEF Checked
  <2>3. \A c \in response.cites \cup response.unavailable : c.by = r
    BY <2>1, Parts, FromTyped DEF Checked
  <2> QED BY <2>1, <2>2, <2>3, Parts DEF Checked
<1> QED BY <1>1, ChatInductive, PTL

\* Exactly what was asked for is called, as often as the budget allows; an invalid
\* request calls nothing, whatever checkpoint its run started from.
THEOREM CallsAsAsked == Spec => []RoutedAsAsked
<1>1. ASSUME ChatInv, NEW r \in Runs
      PROVE  /\ \A b \in Branches : run[r].calls[b] <= Attempts(b)
             /\ InGraph(r) /\ ~run[r].valid => \A b \in Branches : run[r].calls[b] = 0
             /\ At(r, "closing") /\ run[r].asked # {} =>
                  /\ {b \in Branches : run[r].calls[b] > 0} = run[r].asked
                  /\ run[r].ch.final.intent # Unsupported
  <2>1. PICK x : x = run[r] /\ x \in RunRecord /\ RunOK(r, x)
    BY <1>1, ThisRun
  <2>2. CallsOK(x) /\ \A b \in Branches : x.calls[b] \in Nat
    BY <2>1 DEF RunOK, RunRecord
  <2>3. \A b \in Branches : x.calls[b] <= Attempts(b)
    BY <2>2 DEF CallsOK
  <2>4. ASSUME ~x.valid, NEW b \in Branches
        PROVE  x.calls[b] = 0
    <3>1. CASE x.step \in Own
      BY <2>2, <2>4, <3>1 DEF CallsOK
    <3>2. CASE x.step \notin Own
      BY <2>2, <2>4, <3>2 DEF CallsOK, NoCalls
    <3> QED BY <3>1, <3>2
  <2>5. ASSUME At(r, "closing"), x.asked # {}
        PROVE  /\ {b \in Branches : x.calls[b] > 0} = x.asked
               /\ x.ch.final.intent # Unsupported
    <3>1. r \in Answering
      BY <2>5 DEF Answering
    <3>2. /\ x.step = "closing" /\ x.step \in Own /\ x.step \in Called /\ x.left = {}
          /\ x.ch.final = Response(r, x.ch) /\ x.ch.intent = IntentOf(x.ch.caps)
          /\ x.ch.caps \in SUBSET Branches
      BY <1>1, <2>1, <3>1, AnswerKnown, Phases
    <3>3. x.ch.caps = x.asked
      BY <2>2, <2>5, <3>2 DEF CallsOK
    <3>4. \A b \in Branches : x.calls[b] > 0 <=> b \in x.ch.caps
      BY <2>2, <3>2 DEF CallsOK
    <3>5. x.ch.final.intent # Unsupported
      BY <2>5, <3>2, <3>3, Parts, IntentTyped
    <3> QED BY <3>2, <3>3, <3>4, <3>5
  <2> QED BY <2>1, <2>3, <2>4, <2>5
<1>2. ChatInv => RoutedAsAsked
  BY <1>1 DEF RoutedAsAsked
<1> QED BY <1>2, ChatInductive, PTL

\* No branch's failure, and no order in which branches are merged, loses what another
\* branch found and vouched for.
THEOREM VerifiedIsKept == Spec => []NothingVerifiedLost
<1>1. ASSUME ChatInv, NEW r \in Answering, NEW g \in run[r].got,
             NEW ans, ans = Given(g),
             NEW summarised \in BOOLEAN, summarised = Backed(ans)
      PROVE  /\ \A f \in ans.facts :
                  (Grounds(ans.cites, f.cites) /\ (f.kind = "candidate" => summarised))
                    => Of(r, f) \in run[r].ch.final.facts
             /\ summarised => run[r].ch.final.summary # None
  <2>1. PICK x : /\ x = run[r] /\ Checked(r, x) /\ GotOK(x) /\ r \in Runs
                 /\ x.ch.final = Response(r, x.ch)
    BY <1>1, AnswerKnown
  <2>2. ans = Given(g) /\ g \in x.got
    BY <1>1, <2>1
  <2>3. g \in Results /\ g[2] \in Outcomes[g[1]]
    BY <2>1, <2>2 DEF GotOK
  <2>4. g[1] \in Branches /\ g = <<g[1], g[2]>>
    BY <2>3 DEF Results
  <2>5. AnswerOf(g[1], ans)
    BY <2>2, <2>3, <2>4, GivenIsAnswer
  <2>6. summarised => x.ch.summary # None
    <3>1. summarised => g[1] = "mcp_public_tools"
      BY <1>1, <2>5 DEF AnswerOf, Backed
    <3> QED BY <1>1, <2>1, <2>2, <3>1 DEF Checked, Backed
  <2>7. ASSUME NEW f \in ans.facts, Grounds(ans.cites, f.cites),
               f.kind = "candidate" => summarised
        PROVE  Of(r, f) \in x.ch.final.facts
    <3>1. Of(r, f) \in FactsFrom(r, x.got)
      BY <2>2 DEF FactsFrom
    <3>2. ans.cites \subseteq CiteIds(x.ch)
      <4>1. \A i \in ans.cites : Cite(r, i) \in x.ch.cites /\ Cite(r, i).id = i
        BY <2>1, <2>2 DEF Checked, CitesFrom, Cite
      <4> QED BY <4>1 DEF CiteIds
    <3>3. Of(r, f).cites = f.cites /\ Of(r, f).kind = f.kind
      BY DEF Of
    <3>4. Verified(x.ch, Of(r, f))
      BY <2>7, <3>2, <3>3 DEF Verified, Grounds
    <3>5. Of(r, f) \in x.ch.facts
      BY <2>1, <3>1, <3>4 DEF Checked
    <3> QED BY <2>1, <2>6, <2>7, <3>3, <3>5, Parts
  <2> QED BY <2>1, <2>6, <2>7, Parts
<1>2. ASSUME ChatInv PROVE NothingVerifiedLost
  <2> SUFFICES ASSUME NEW r \in Answering, NEW g \in run[r].got
               PROVE  /\ \A f \in Vouched(g) :
                          [kind |-> f.kind, cites |-> f.cites, by |-> r]
                            \in run[r].ch.final.facts
                      /\ Backed(Given(g)) => run[r].ch.final.summary # None
    BY DEF NothingVerifiedLost
  <2>1. PICK ans : ans = Given(g)
    OBVIOUS
  <2>2. PICK summarised \in BOOLEAN : summarised = Backed(ans)
    BY DEF Backed
  <2> QED BY <1>1, <1>2, <2>1, <2>2 DEF Of, Vouched
<1> QED BY <1>2, ChatInductive, PTL

\* The status of a response is what happened to its branches.
THEOREM StatusIsHonest == Spec => []HonestStatus
<1>1. ASSUME ChatInv, NEW r \in Answering, NEW response, response = run[r].ch.final,
             NEW failed, failed = {g[1] : g \in {k \in run[r].got : Given(k).unavailable}}
      PROVE  /\ {m.source : m \in response.unavailable} = failed
             /\ response.status = "completed" <=> failed = {}
             /\ response.status = "failed" =>
                  /\ response.facts = {} /\ response.cites = {} /\ response.summary = None
  <2>1. PICK x : /\ x = run[r] /\ Checked(r, x) /\ GotOK(x) /\ r \in Runs
                 /\ response = Response(r, x.ch) /\ x.ch \in Channels
    BY <1>1, AnswerKnown
  <2>3. failed = {g[1] : g \in {k \in x.got : Given(k).unavailable}}
    BY <1>1, <2>1
  <2>4. x.ch.unavailable = MissingFrom(r, x.got)
    BY <2>1 DEF Checked
  <2>5. {m.source : m \in x.ch.unavailable} = failed
    <3> DEFINE S == {k \in x.got : Given(k).unavailable}
               M(g) == [source |-> g[1], by |-> r]
    <3>1. x.ch.unavailable = {M(g) : g \in S} /\ failed = {g[1] : g \in S}
      BY <2>3, <2>4 DEF MissingFrom
    <3>2. \A g \in S : M(g).source = g[1]
      OBVIOUS
    <3> HIDE DEF S, M
    <3> QED BY <3>1, <3>2
  <2>6. x.ch.unavailable = {} <=> failed = {}
    BY <2>5
  <2>7. response.status = Status(x.ch) /\ response.unavailable = x.ch.unavailable
        /\ response.cites = x.ch.cites /\ response.summary = x.ch.summary
        /\ response.facts = {f \in x.ch.facts : f.kind = "candidate" => x.ch.summary # None}
    BY <2>1, Parts
  <2>8. Status(x.ch) = "completed" <=> x.ch.unavailable = {}
    BY DEF Status
  <2>9. ASSUME Status(x.ch) = "failed"
        PROVE  response.facts = {} /\ response.cites = {} /\ response.summary = None
    <3>1. /\ x.ch.cites = {} /\ x.ch.summary = None
          /\ OfKind(x.ch, "card") \cup OfKind(x.ch, "evidence") = {}
      BY <2>9 DEF Status
    <3>2. \A f \in x.ch.facts : f.kind \in Kinds
      BY <2>1 DEF Channels, Facts
    <3>3. \A f \in x.ch.facts : f.kind = "candidate"
      BY <3>1, <3>2 DEF OfKind, Kinds
    <3> QED BY <2>7, <3>1, <3>3
  <2> QED BY <2>5, <2>6, <2>7, <2>8, <2>9
<1>2. ChatInv => HonestStatus
  BY <1>1 DEF HonestStatus
<1> QED BY <1>2, ChatInductive, PTL

\* Whenever there are cards or a property, there is the disclaimer.
THEOREM DisclaimerIsGiven == Spec => []Disclaimed
<1>1. ASSUME ChatInv, NEW r \in Answering, NEW response, response = run[r].ch.final,
             response.summary # None \/ \E f \in response.facts : f.kind = "card"
      PROVE  response.disclaimer
  <2>1. PICK x : /\ x = run[r] /\ Checked(r, x) /\ GotOK(x) /\ r \in Runs
                 /\ response = Response(r, x.ch) /\ x.ch.caps \in SUBSET Branches
                 /\ x.ch.intent = IntentOf(x.ch.caps)
                 /\ x.ch.disclaimer = (x.ch.intent \in
                                         {"sql_auction_search", "mcp_public_tools", Combined})
    BY <1>1, AnswerKnown
  <2>2. "sql_auction_search" \in x.ch.caps \/ "mcp_public_tools" \in x.ch.caps
    <3>1. CASE response.summary # None
      BY <2>1, <3>1, Parts DEF Checked
    <3>2. CASE \E f \in response.facts : f.kind = "card"
      <4>1. PICK f \in FactsFrom(r, x.got) : f.kind = "card"
        BY <2>1, <3>2, Parts DEF Checked
      <4>2. PICK b \in x.ch.caps : b \in Branches /\ KindOf(b) = "card"
        BY <2>1, <4>1, FactOfBranch
      <4>3. b = "sql_auction_search"
        BY <4>2 DEF KindOf
      <4> QED BY <4>2, <4>3
    <3> QED BY <1>1, <3>1, <3>2
  <2>3. x.ch.intent \in {"sql_auction_search", "mcp_public_tools", Combined}
    BY <2>1, <2>2, IntentTyped
  <2>4. x.ch.disclaimer
    BY <2>1, <2>3
  <2>5. response.disclaimer = x.ch.disclaimer
    BY <2>1, Parts
  <2> QED BY <2>4, <2>5
<1>2. ChatInv => Disclaimed
  BY <1>1 DEF Disclaimed
<1> QED BY <1>2, ChatInductive, PTL

\* The answer is the third event, and no failure is among the first three.
LEMMA Sent ==
    ASSUME NEW r \in Runs, NEW s \in Sendings(r)
    PROVE  /\ s \in Seq(Events)
           /\ \A i \in DOMAIN s : /\ s[i].by = r /\ s[i].event # "run.failed"
                                  /\ s[i].event = "answer.completed" => i = 3
           /\ s = Complete(r) => s # <<>> /\ s[Len(s)].event = "answer.completed"
<1>1. PICK e1 : e1 = Event("run.started", r)
  OBVIOUS
<1>2. PICK e2 : e2 = Event("answer.delta", r)
  OBVIOUS
<1>3. PICK e3 : e3 = Event("answer.completed", r)
  OBVIOUS
<1>4. /\ e1 \in Events /\ e2 \in Events /\ e3 \in Events
      /\ e1.by = r /\ e2.by = r /\ e3.by = r
      /\ e1.event \notin {"run.failed", "answer.completed"}
      /\ e2.event \notin {"run.failed", "answer.completed"}
      /\ e3.event = "answer.completed" /\ e3.event # "run.failed"
  BY <1>1, <1>2, <1>3, SentTyped DEF Event
<1>5. /\ Start(r) = <<e1>> /\ Delta(r) = Append(Start(r), e2)
      /\ Complete(r) = Append(Delta(r), e3)
  BY <1>1, <1>2, <1>3 DEF Start, Delta, Complete
<1>6. /\ Start(r) \in Seq(Events) /\ Len(Start(r)) = 1 /\ Start(r)[1] = e1
  BY <1>4, <1>5
<1>7. /\ Delta(r) \in Seq(Events) /\ Len(Delta(r)) = 2 /\ Delta(r)[1] = e1 /\ Delta(r)[2] = e2
  BY <1>4, <1>5, <1>6
<1>8. /\ Complete(r) \in Seq(Events) /\ Len(Complete(r)) = 3 /\ Complete(r)[1] = e1
      /\ Complete(r)[2] = e2 /\ Complete(r)[3] = e3
  BY <1>4, <1>5, <1>7
<1>9. s \in Seq(Events)
  BY SentTyped
<1>10. \A i \in DOMAIN s : s[i] \in {e1, e2} \/ (i = 3 /\ s[i] = e3)
  <2>1. CASE s = <<>>
    BY <2>1
  <2>2. CASE s = Start(r)
    BY <1>6, <2>2
  <2>3. CASE s = Delta(r)
    BY <1>7, <2>3
  <2>4. CASE s = Complete(r)
    BY <1>8, <2>4
  <2> QED BY <2>1, <2>2, <2>3, <2>4 DEF Sendings
<1>11. s = Complete(r) => s # <<>> /\ s[Len(s)].event = "answer.completed"
  <2>1. Complete(r)[Len(Complete(r))] = e3 /\ Complete(r) # <<>>
    BY <1>8
  <2> QED BY <1>4, <2>1
<1> QED BY <1>4, <1>9, <1>10, <1>11

\* A stream has at most one answer, a failure comes last, and one that is not cut off
\* ends with either.
THEOREM StreamsAreWellFormed == Spec => []StreamWellFormed
<1>1. ASSUME ChatInv, NEW r \in Runs
      PROVE  LET sent == run[r].sent
                 answers == {i \in DOMAIN sent : sent[i].event = "answer.completed"}
             IN  /\ Cardinality(answers) <= 1
                 /\ \A i \in answers : sent[i].by = r
                 /\ \A i \in DOMAIN sent : sent[i].event = "run.failed" => i = Len(sent)
                 /\ At(r, "ended") =>
                      sent # <<>>
                        /\ sent[Len(sent)].event \in {"answer.completed", "run.failed"}
  <2>0. PICK sent : sent = run[r].sent
    OBVIOUS
  <2> DEFINE answers == {i \in DOMAIN sent : sent[i].event = "answer.completed"}
  <2>1. PICK x : x = run[r] /\ x \in RunRecord /\ RunOK(r, x)
    BY <1>1, ThisRun
  <2>2. StreamOK(r, x)
    BY <2>1 DEF RunOK
  <2>3. PICK e : e = Event("run.failed", r)
    OBVIOUS
  <2>4. e \in Events /\ e.event = "run.failed" /\ e.by = r
    BY <2>3 DEF Event, Events
  <2>5. \/ sent \in Sendings(r) /\ (At(r, "ended") => sent = Complete(r))
        \/ \E s \in Sendings(r) : sent = Append(s, e)
    <3>1. CASE x.step \notin {"ended", "cut"}
      BY <2>0, <2>1, <2>2, <3>1, SentSoFar DEF At
    <3>2. CASE x.step = "cut"
      BY <2>0, <2>1, <2>2, <3>2 DEF StreamOK, At
    <3>3. CASE x.step = "ended"
      <4>1. Complete(r) \in Sendings(r)
        BY DEF Sendings
      <4> QED BY <2>0, <2>1, <2>2, <2>3, <3>3, <4>1 DEF StreamOK
    <3> QED BY <3>1, <3>2, <3>3
  <2>6. /\ \A i \in DOMAIN sent : /\ sent[i].by = r
                                  /\ sent[i].event = "answer.completed" => i = 3
                                  /\ sent[i].event = "run.failed" => i = Len(sent)
        /\ At(r, "ended") =>
             sent # <<>> /\ sent[Len(sent)].event \in {"answer.completed", "run.failed"}
    <3>1. CASE sent \in Sendings(r) /\ (At(r, "ended") => sent = Complete(r))
      BY <3>1, Sent
    <3>2. CASE \E s \in Sendings(r) : sent = Append(s, e)
      <4>1. PICK s \in Sendings(r) : sent = Append(s, e)
        BY <3>2
      <4>2. /\ s \in Seq(Events)
            /\ \A i \in DOMAIN s : /\ s[i].by = r /\ s[i].event # "run.failed"
                                   /\ s[i].event = "answer.completed" => i = 3
        BY Sent
      <4>3. /\ sent # <<>> /\ Len(sent) = Len(s) + 1 /\ DOMAIN sent = 1..Len(s) + 1
            /\ sent[Len(sent)] = e /\ DOMAIN s = 1..Len(s) /\ Len(s) \in Nat
            /\ \A i \in 1..Len(s) : sent[i] = s[i]
        BY <2>4, <4>1, <4>2
      <4>4. \A i \in DOMAIN sent : i \in DOMAIN s \/ i = Len(sent)
        BY <4>3
      <4> QED BY <2>4, <4>2, <4>3, <4>4
    <3> QED BY <2>5, <3>1, <3>2
  <2>7. answers = {} \/ answers = {3}
    BY <2>6
  <2>8. Cardinality(answers) <= 1
    <3>1. Cardinality({3}) = 1
      BY FS_Singleton
    <3>2. Cardinality({}) = 0
      BY FS_EmptySet
    <3> HIDE DEF answers
    <3> QED BY <2>7, <3>1, <3>2
  <2> QED BY <2>0, <2>6, <2>8
<1>2. ChatInv => StreamWellFormed
  BY <1>1 DEF StreamWellFormed
<1> QED BY <1>2, ChatInductive, PTL

\* Whoever got as far as the graph owns the thread, whichever claims race.
THEOREM OneUserPerThread == Spec => []ThreadHasOneUser
<1>1. ASSUME ChatInv, NEW r \in Runs, InGraph(r) \/ Has(r, "run.started")
      PROVE  run[r].user = owner
  <2>1. PICK x : x = run[r] /\ x \in RunRecord /\ OwnerOK(x, owner)
    BY <1>1, ThisRun
  <2>2. InGraph(r) => x.step \in Inside
    BY <2>1 DEF InGraph, RunRecord, Steps, Inside, Own, Gathering, Verifying
  <2> QED BY <1>1, <2>1, <2>2 DEF OwnerOK, Has
<1>2. ChatInv => ThreadHasOneUser
  BY <1>1 DEF ThreadHasOneUser
<1> QED BY <1>2, ChatInductive, PTL

-----------------------------------------------------------------------------
(***************************************************************************)
(* Refinement.  ChatTurn sees of a run its phase, its question, what its   *)
(* branches returned, its answer and what it sent.                         *)
(***************************************************************************)

\* The steps in which a turn is "looking".
Looking == {"initialize_run", "grounding_verification", "compliance_disclaimer",
            "synthesis"} \cup Gathering

\* Each branch that is done has returned something.
Heard(x) ==
    x.step \in Called => \A b \in x.ch.caps \ x.left : \E g \in x.got : g[1] = b

AllHeard == \A r \in Runs : Heard(run[r])

LEMMA HeardStays ==
    ASSUME ChatInv, AllHeard, NEW r \in Runs, NEW y, Heard(y), run' = [run EXCEPT ![r] = y]
    PROVE  AllHeard'
<1>1. \A q \in Runs : run'[q] = IF q = r THEN y ELSE run[q]
  BY DEF ChatInv
<1>2. \A q \in Runs : Heard(run'[q])
  BY <1>1 DEF AllHeard
<1> QED BY <1>2 DEF AllHeard, Heard

\* A superstep before the branches, or one that leaves alone what was dispatched.
LEMMA SavedHeard ==
    ASSUME ChatInv, AllHeard, NEW r \in Runs, NEW step, NEW ch, Saved(r, step, ch),
           \/ step \notin Called
           \/ ch.caps = {}
           \/ run[r].step \in Called /\ ch.caps = run[r].ch.caps
    PROVE  AllHeard'
<1>1. PICK x : x = run[r] /\ x \in RunRecord /\ Heard(x)
  BY ThisRun DEF AllHeard
<1>2. PICK y : y = [x EXCEPT !.step = step, !.ch = ch,
                             !.final = IF ch.final # None THEN ch.final ELSE @]
  OBVIOUS
<1>3. run' = [run EXCEPT ![r] = y]
  BY <1>1, <1>2 DEF Saved
<1>4. y.step = step /\ y.ch = ch /\ y.left = x.left /\ y.got = x.got
  BY <1>1, <1>2 DEF RunRecord
<1>5. Heard(y)
  BY <1>1, <1>4 DEF Heard
<1> QED BY <1>3, <1>5, HeardStays

\* A run that is not in the graph any more, or not yet, has heard nothing.
LEMMA OutsideHeard ==
    ASSUME ChatInv, AllHeard, NEW r \in Runs, NEW y, y.step \notin Called,
           run' = [run EXCEPT ![r] = y]
    PROVE  AllHeard'
BY HeardStays DEF Heard

LEMMA OverHeard ==
    ASSUME ChatInv, AllHeard, NEW r \in Runs, NEW step \in {"ended", "cut"}, NEW sent,
           Over(r, step, sent)
    PROVE  AllHeard'
<1>1. PICK y : y = [Idle EXCEPT !.step = step, !.user = run[r].user, !.sent = sent]
  OBVIOUS
<1>2. y.step \notin Called
  BY <1>1 DEF Idle, Called, Own, Gathering, Verifying
<1> QED BY <1>1, <1>2, OutsideHeard DEF Over

\* A branch that is done is done with what it returned.
LEMMA DoneHeard ==
    ASSUME ChatInv, AllHeard, NEW r \in Runs, NEW b \in Branches, Working(r, b), NEW o,
           NEW ans, Done(r, b, o, ans)
    PROVE  AllHeard'
<1>1. PICK x : x = run[r] /\ x \in RunRecord /\ Heard(x)
  BY ThisRun DEF AllHeard
<1>2. x.step = "branches" /\ x.step \in Called
  BY <1>1, Phases DEF Working, At
<1>3. PICK y : y = [x EXCEPT !.ch = Merge(@, r, b, ans), !.left = @ \ {b},
                             !.calls[b] = @ + 1, !.got = @ \cup {<<b, o>>}]
  OBVIOUS
<1>4. run' = [run EXCEPT ![r] = y]
  BY <1>1, <1>3 DEF Done
<1>5. y.ch = Merge(x.ch, r, b, ans) /\ y.left = x.left \ {b} /\ y.got = x.got \cup {<<b, o>>}
  BY <1>1, <1>3 DEF RunRecord
<1>6. y.ch.caps = x.ch.caps
  <2>1. x.ch \in Channels
    BY <1>1 DEF RunRecord
  <2> QED BY <1>5, <2>1 DEF Merge, Channels
<1>7. \A c \in y.ch.caps \ y.left : \E g \in y.got : g[1] = c
  <2>1. TAKE c \in y.ch.caps \ y.left
  <2>2. CASE c = b
    <3>1. <<b, o>> \in y.got /\ <<b, o>>[1] = b
      BY <1>5
    <3> QED BY <2>2, <3>1
  <2>3. CASE c # b
    BY <1>1, <1>2, <1>5, <1>6, <2>3 DEF Heard
  <2> QED BY <2>2, <2>3
<1> QED BY <1>4, <1>7, HeardStays DEF Heard

LEMMA BranchHeard ==
    ASSUME ChatInv, AllHeard, NEW r \in Runs, NEW b \in Branches, BranchStep(r, b)
    PROVE  AllHeard'
<1>1. CASE Answered(r, b)
  BY <1>1, DoneHeard DEF Answered
<1>2. CASE Retry(r, b)
  <2>1. PICK x : x = run[r] /\ x \in RunRecord /\ Heard(x)
    BY ThisRun DEF AllHeard
  <2>2. PICK y : y = [x EXCEPT !.calls[b] = @ + 1]
    OBVIOUS
  <2>3. run' = [run EXCEPT ![r] = y]
    BY <1>2, <2>1, <2>2 DEF Retry
  <2>4. y.step = x.step /\ y.ch = x.ch /\ y.left = x.left /\ y.got = x.got
    BY <2>1, <2>2 DEF RunRecord
  <2> QED BY <2>1, <2>3, <2>4, HeardStays DEF Heard
<1>3. CASE Unavailable(r, b)
  BY <1>3, DoneHeard DEF Unavailable
<1>4. CASE Raised(r, b)
  BY <1>4, OverHeard DEF Raised, RunFails
<1> QED BY <1>1, <1>2, <1>3, <1>4 DEF BranchStep

\* Every branch that was dispatched is heard.
LEMMA HeardStep ==
    ASSUME ChatInv, AllHeard, [Next]_vars
    PROVE  AllHeard'
<1>1. CASE UNCHANGED vars
  BY <1>1 DEF vars, AllHeard, Heard
<1>2. ASSUME NEW r \in Runs, RunStep(r)
      PROVE  AllHeard'
  <2>1. PICK x : x = run[r] /\ x \in RunRecord /\ RunOK(r, x) /\ x.ch \in Channels
    BY ThisRun DEF RunRecord
  <2>2. CASE ClaimThread(r)
    <3>1. PICK y : y = [x EXCEPT !.step = "check"]
      OBVIOUS
    <3>2. run' = [run EXCEPT ![r] = y] /\ y.step = "check"
      BY <2>1, <2>2, <3>1 DEF ClaimThread, RunRecord
    <3>3. y.step \notin Called
      BY <3>2, Outside
    <3> QED BY <3>2, <3>3, OutsideHeard
  <2>3. CASE Refuse(r)
    BY <2>3, OverHeard DEF Refuse, RunFails
  <2>4. CASE Begin(r)
    <3>1. PICK y : y = [x EXCEPT !.step = "initialize_run", !.ch = checkpoint[x.user],
                                 !.final = checkpoint[x.user].final,
                                 !.sent = <<Event("run.started", r)>>]
      OBVIOUS
    <3>2. run' = [run EXCEPT ![r] = y] /\ y.step = "initialize_run"
      BY <2>1, <2>4, <3>1 DEF Begin, RunRecord
    <3>3. y.step \notin Called
      BY <3>2, Outside
    <3> QED BY <3>2, <3>3, OutsideHeard
  <2>5. CASE Initialize(r)
    BY <2>5, Phases, SavedHeard DEF Initialize
  <2>6. CASE Validate(r)
    <3>1. PICK ch : /\ ch = [x.ch EXCEPT !.errors = @ \/ ~x.valid]
                    /\ Saved(r, IF ch.errors THEN "branches" ELSE "routing", ch)
      BY <2>1, <2>6 DEF Validate
    <3>2. ch.caps = {}
      <4>1. x.ch.caps = {}
        BY <2>1, <2>6 DEF RunOK, CallsOK, Validate, At
      <4> QED BY <2>1, <3>1, <4>1 DEF Channels
    <3> QED BY <3>1, <3>2, SavedHeard
  <2>7. CASE Route(r)
    BY <2>7, Phases, SavedHeard DEF Route
  <2>8. CASE Extract(r)
    <3>1. PICK y : y = [x EXCEPT !.step = "branches", !.left = x.ch.caps]
      OBVIOUS
    <3>2. run' = [run EXCEPT ![r] = y] /\ y.ch.caps \ y.left = {}
      BY <2>1, <2>8, <3>1 DEF Extract, RunRecord
    <3> QED BY <3>2, HeardStays DEF Heard
  <2>9. CASE Join(r)
    BY <2>1, <2>9, Phases, SavedHeard DEF Join, At
  <2>10. CASE Correlate(r)
    <3>1. PICK cites, s : Saved(r, "grounding_verification",
                                [x.ch EXCEPT !.cites = cites, !.summary = s])
      BY <2>1, <2>10 DEF Correlate
    <3>2. x.step \in Called
      BY <2>1, <2>10, Phases DEF Correlate, At
    <3>3. PICK ch : ch = [x.ch EXCEPT !.cites = cites, !.summary = s]
      OBVIOUS
    <3>4. ch.caps = x.ch.caps
      BY <2>1, <3>3 DEF Channels
    <3> QED BY <2>1, <3>1, <3>2, <3>3, <3>4, SavedHeard
  <2>11. CASE Verify(r)
    <3>1. PICK facts, summary, errors :
            Saved(r, "compliance_disclaimer",
                  [x.ch EXCEPT !.facts = facts, !.summary = summary, !.errors = errors])
      BY <2>1, <2>11 DEF Verify
    <3>2. x.step \in Called
      BY <2>1, <2>11, Phases DEF Verify, At
    <3>3. PICK ch : ch = [x.ch EXCEPT !.facts = facts, !.summary = summary,
                                      !.errors = errors]
      OBVIOUS
    <3>4. ch.caps = x.ch.caps
      BY <2>1, <3>3 DEF Channels
    <3> QED BY <2>1, <3>1, <3>2, <3>3, <3>4, SavedHeard
  <2>12. CASE Comply(r)
    <3>1. PICK d : Saved(r, "synthesis", [x.ch EXCEPT !.disclaimer = d])
      BY <2>1, <2>12 DEF Comply
    <3>2. x.step \in Called
      BY <2>1, <2>12, Phases DEF Comply, At
    <3>3. PICK ch : ch = [x.ch EXCEPT !.disclaimer = d]
      OBVIOUS
    <3>4. ch.caps = x.ch.caps
      BY <2>1, <3>3 DEF Channels
    <3> QED BY <2>1, <3>1, <3>2, <3>3, <3>4, SavedHeard
  <2>13. CASE Synthesize(r)
    <3>1. PICK y : y = [x EXCEPT !.step = "trace_finalization",
                                 !.sent = Append(@, Event("answer.delta", r))]
      OBVIOUS
    <3>2. /\ run' = [run EXCEPT ![r] = y]
          /\ y.ch = x.ch /\ y.left = x.left /\ y.got = x.got
      BY <2>1, <2>13, <3>1 DEF Synthesize, RunRecord
    <3>3. Heard(x) /\ x.step \in Called
      BY <2>1, <2>13, Phases DEF AllHeard, Synthesize, At
    <3> QED BY <3>2, <3>3, HeardStays DEF Heard
  <2>14. CASE Finalize(r)
    <3>1. PICK response, ch, y :
            /\ ch = [x.ch EXCEPT !.final = response]
            /\ y = [x EXCEPT !.step = "closing", !.ch = ch, !.final = response,
                             !.sent = Append(@, Event("answer.completed", response.by)),
                             !.saw = TRUE]
            /\ run' = [run EXCEPT ![r] = y]
      BY <2>1, <2>14 DEF Finalize
    <3>2. y.ch.caps = x.ch.caps /\ y.left = x.left /\ y.got = x.got
      <4>1. y.ch = ch /\ y.left = x.left /\ y.got = x.got
        BY <2>1, <3>1 DEF RunRecord
      <4> QED BY <2>1, <3>1, <4>1 DEF Channels
    <3>3. Heard(x) /\ x.step \in Called
      BY <2>1, <2>14, Phases DEF AllHeard, Finalize, At
    <3> QED BY <3>1, <3>2, <3>3, HeardStays DEF Heard
  <2>15. CASE Close(r)
    BY <2>15, OverHeard DEF Close
  <2> QED BY <1>2, <2>2, <2>3, <2>4, <2>5, <2>6, <2>7, <2>8, <2>9, <2>10, <2>11, <2>12,
             <2>13, <2>14, <2>15 DEF RunStep
<1>3. ASSUME NEW r \in Runs, Request(r)
      PROVE  AllHeard'
  <2>1. PICK x : x = run[r] /\ x \in RunRecord
    BY ThisRun
  <2>2. PICK u, valid, asked :
          run' = [run EXCEPT ![r].step = "claim", ![r].user = u,
                             ![r].valid = valid, ![r].asked = asked]
    BY <1>3 DEF Request
  <2>3. PICK y : y = [x EXCEPT !.step = "claim", !.user = u, !.valid = valid, !.asked = asked]
    OBVIOUS
  <2>4. run' = [run EXCEPT ![r] = y] /\ y.step = "claim"
    BY <2>1, <2>2, <2>3 DEF RunRecord
  <2>5. y.step \notin Called
    BY <2>4, Outside
  <2> QED BY <2>4, <2>5, OutsideHeard
<1>4. ASSUME NEW r \in Runs, Fail(r) \/ Cancel(r)
      PROVE  AllHeard'
  BY <1>4, OverHeard DEF Fail, Cancel, RunFails
<1> QED BY <1>1, <1>2, <1>3, <1>4, BranchHeard DEF Next

LEMMA HeardAlways == Spec => []AllHeard
<1>1. Init => AllHeard
  BY Outside DEF Init, AllHeard, Heard, Idle
<1>2. AllHeard /\ ChatInv /\ [Next]_vars => AllHeard'
  BY HeardStep
<1> QED BY <1>1, <1>2, ChatInductive, PTL DEF Spec

\* The runs as ChatTurn sees them.
ThePhase == [r \in Runs |-> PhaseOf(run[r].step)]
TheUser == [r \in Runs |-> run[r].user]
TheValid == [r \in Runs |-> run[r].valid]
TheAsked == [r \in Runs |-> run[r].asked]
TheLooked == [r \in Runs |-> run[r].got]
TheAnswer == [r \in Runs |-> AnswerGiven(run[r])]
TheSent == [r \in Runs |-> run[r].sent]

Becomes(r, y) == run' = [run EXCEPT ![r] = y]

\* A run is replaced, and so is what is seen of it.
LEMMA Seen ==
    ASSUME ChatInv, NEW r \in Runs, NEW y, Becomes(r, y)
    PROVE  /\ ThePhase' = [ThePhase EXCEPT ![r] = PhaseOf(y.step)]
           /\ TheUser' = [TheUser EXCEPT ![r] = y.user]
           /\ TheValid' = [TheValid EXCEPT ![r] = y.valid]
           /\ TheAsked' = [TheAsked EXCEPT ![r] = y.asked]
           /\ TheLooked' = [TheLooked EXCEPT ![r] = y.got]
           /\ TheAnswer' = [TheAnswer EXCEPT ![r] = AnswerGiven(y)]
           /\ TheSent' = [TheSent EXCEPT ![r] = y.sent]
<1>1. \A q \in Runs : run'[q] = IF q = r THEN y ELSE run[q]
  BY DEF ChatInv, Becomes
<1>2. ThePhase' = [ThePhase EXCEPT ![r] = PhaseOf(y.step)]
  <2>1. \A q \in Runs : PhaseOf(run'[q].step) = IF q = r THEN PhaseOf(y.step) ELSE PhaseOf(run[q].step)
    BY <1>1
  <2>2. ThePhase' = [q \in Runs |-> PhaseOf(run'[q].step)]
    BY DEF ThePhase, PhaseOf
  <2> QED BY <2>1, <2>2 DEF ThePhase
<1>3. TheUser' = [TheUser EXCEPT ![r] = y.user]
  <2>1. \A q \in Runs : run'[q].user = IF q = r THEN y.user ELSE run[q].user
    BY <1>1
  <2>2. TheUser' = [q \in Runs |-> run'[q].user]
    BY DEF TheUser
  <2> QED BY <2>1, <2>2 DEF TheUser
<1>4. TheValid' = [TheValid EXCEPT ![r] = y.valid]
  <2>1. \A q \in Runs : run'[q].valid = IF q = r THEN y.valid ELSE run[q].valid
    BY <1>1
  <2>2. TheValid' = [q \in Runs |-> run'[q].valid]
    BY DEF TheValid
  <2> QED BY <2>1, <2>2 DEF TheValid
<1>5. TheAsked' = [TheAsked EXCEPT ![r] = y.asked]
  <2>1. \A q \in Runs : run'[q].asked = IF q = r THEN y.asked ELSE run[q].asked
    BY <1>1
  <2>2. TheAsked' = [q \in Runs |-> run'[q].asked]
    BY DEF TheAsked
  <2> QED BY <2>1, <2>2 DEF TheAsked
<1>6. TheLooked' = [TheLooked EXCEPT ![r] = y.got]
  <2>1. \A q \in Runs : run'[q].got = IF q = r THEN y.got ELSE run[q].got
    BY <1>1
  <2>2. TheLooked' = [q \in Runs |-> run'[q].got]
    BY DEF TheLooked
  <2> QED BY <2>1, <2>2 DEF TheLooked
<1>7. TheAnswer' = [TheAnswer EXCEPT ![r] = AnswerGiven(y)]
  <2>1. \A q \in Runs : AnswerGiven(run'[q]) = IF q = r THEN AnswerGiven(y) ELSE AnswerGiven(run[q])
    BY <1>1
  <2>2. TheAnswer' = [q \in Runs |-> AnswerGiven(run'[q])]
    BY DEF TheAnswer, AnswerGiven
  <2> QED BY <2>1, <2>2 DEF TheAnswer
<1>8. TheSent' = [TheSent EXCEPT ![r] = y.sent]
  <2>1. \A q \in Runs : run'[q].sent = IF q = r THEN y.sent ELSE run[q].sent
    BY <1>1
  <2>2. TheSent' = [q \in Runs |-> run'[q].sent]
    BY DEF TheSent
  <2> QED BY <2>1, <2>2 DEF TheSent
<1> QED BY <1>2, <1>3, <1>4, <1>5, <1>6, <1>7, <1>8

LEMMA SeenNow ==
    ASSUME NEW r \in Runs, NEW x, x = run[r]
    PROVE  /\ ThePhase[r] = PhaseOf(x.step) /\ TheUser[r] = x.user /\ TheValid[r] = x.valid
           /\ TheAsked[r] = x.asked /\ TheLooked[r] = x.got /\ TheSent[r] = x.sent
BY DEF ThePhase, TheUser, TheValid, TheAsked, TheLooked, TheSent

\* What stays the same of a run is seen to stay.
LEMMA SeenSame ==
    ASSUME ChatInv, NEW r \in Runs, NEW y, Becomes(r, y), NEW x, x = run[r]
    PROVE  /\ PhaseOf(y.step) = PhaseOf(x.step) => ThePhase' = ThePhase
           /\ y.user = x.user => TheUser' = TheUser
           /\ y.valid = x.valid => TheValid' = TheValid
           /\ y.asked = x.asked => TheAsked' = TheAsked
           /\ y.got = x.got => TheLooked' = TheLooked
           /\ AnswerGiven(y) = AnswerGiven(x) => TheAnswer' = TheAnswer
           /\ y.sent = x.sent => TheSent' = TheSent
<1>1. PhaseOf(y.step) = PhaseOf(x.step) => ThePhase' = ThePhase
  <2>1. ThePhase' = [ThePhase EXCEPT ![r] = PhaseOf(y.step)]
    BY Seen
  <2> QED BY <2>1 DEF ThePhase
<1>2. y.user = x.user => TheUser' = TheUser
  <2>1. TheUser' = [TheUser EXCEPT ![r] = y.user]
    BY Seen
  <2> QED BY <2>1 DEF TheUser
<1>3. y.valid = x.valid => TheValid' = TheValid
  <2>1. TheValid' = [TheValid EXCEPT ![r] = y.valid]
    BY Seen
  <2> QED BY <2>1 DEF TheValid
<1>4. y.asked = x.asked => TheAsked' = TheAsked
  <2>1. TheAsked' = [TheAsked EXCEPT ![r] = y.asked]
    BY Seen
  <2> QED BY <2>1 DEF TheAsked
<1>5. y.got = x.got => TheLooked' = TheLooked
  <2>1. TheLooked' = [TheLooked EXCEPT ![r] = y.got]
    BY Seen
  <2> QED BY <2>1 DEF TheLooked
<1>6. AnswerGiven(y) = AnswerGiven(x) => TheAnswer' = TheAnswer
  <2>1. TheAnswer' = [TheAnswer EXCEPT ![r] = AnswerGiven(y)]
    BY Seen
  <2> QED BY <2>1 DEF TheAnswer
<1>7. y.sent = x.sent => TheSent' = TheSent
  <2>1. TheSent' = [TheSent EXCEPT ![r] = y.sent]
    BY Seen
  <2> QED BY <2>1 DEF TheSent
<1> QED BY <1>1, <1>2, <1>3, <1>4, <1>5, <1>6, <1>7

LEMMA PhasesSeen ==
    /\ PhaseOf("new") = "new" /\ PhaseOf("claim") = "asked" /\ PhaseOf("check") = "asked"
    /\ \A s \in Looking : PhaseOf(s) = "looking" /\ s # "closing"
    /\ PhaseOf("trace_finalization") = "telling" /\ PhaseOf("closing") = "answered"
    /\ PhaseOf("ended") = "over" /\ PhaseOf("cut") = "over"
    /\ \A x : x.step # "closing" => AnswerGiven(x) = None
<1>1. /\ PhaseOf("new") = "new" /\ PhaseOf("claim") = "asked" /\ PhaseOf("check") = "asked"
      /\ PhaseOf("trace_finalization") = "telling" /\ PhaseOf("closing") = "answered"
      /\ PhaseOf("ended") = "over" /\ PhaseOf("cut") = "over"
  BY DEF PhaseOf
<1>2. ASSUME NEW s \in Looking
      PROVE  PhaseOf(s) = "looking" /\ s # "closing"
  <2>1. s \notin {"new", "claim", "check", "trace_finalization", "closing", "ended", "cut"}
    BY DEF Looking, Gathering
  <2> QED BY <2>1 DEF PhaseOf
<1>3. \A x : x.step # "closing" => AnswerGiven(x) = None
  BY DEF AnswerGiven
<1> QED BY <1>1, <1>2, <1>3

LEMMA LookingSteps ==
    {"initialize_run", "validation", "routing", "extraction", "branches",
     "evidence_correlation", "grounding_verification", "compliance_disclaimer",
     "synthesis"} = Looking
BY DEF Looking, Gathering

\* Nothing is seen of a step within a phase that sends nothing and hears nothing.
LEMMA Unseen ==
    ASSUME ChatInv, NEW r \in Runs, NEW y, Becomes(r, y), owner' = owner,
           NEW x, x = run[r],
           y.user = x.user, y.valid = x.valid, y.asked = x.asked, y.got = x.got,
           y.sent = x.sent, PhaseOf(y.step) = PhaseOf(x.step),
           x.step # "closing", y.step # "closing"
    PROVE  UNCHANGED Turn!vars
<1>1. AnswerGiven(y) = AnswerGiven(x)
  BY PhasesSeen
<1>2. /\ ThePhase' = ThePhase /\ TheUser' = TheUser /\ TheValid' = TheValid
      /\ TheAsked' = TheAsked /\ TheLooked' = TheLooked /\ TheAnswer' = TheAnswer
      /\ TheSent' = TheSent
  BY <1>1, SeenSame
<1> QED BY <1>2 DEF Turn!vars, Turn!question, ThePhase, TheUser, TheValid, TheAsked,
           TheLooked, TheAnswer, TheSent

LEMMA SavedUnseen ==
    ASSUME ChatInv, NEW r \in Runs, NEW step \in Looking, NEW ch, Saved(r, step, ch),
           run[r].step \in Looking
    PROVE  UNCHANGED Turn!vars
<1>1. PICK x : x = run[r] /\ x \in RunRecord
  BY ThisRun
<1>2. PICK y : y = [x EXCEPT !.step = step, !.ch = ch,
                             !.final = IF ch.final # None THEN ch.final ELSE @]
  OBVIOUS
<1>3. Becomes(r, y) /\ owner' = owner
  BY <1>1, <1>2 DEF Saved, Becomes
<1>4. /\ y.step = step /\ y.user = x.user /\ y.valid = x.valid /\ y.asked = x.asked
      /\ y.got = x.got /\ y.sent = x.sent
  BY <1>1, <1>2 DEF RunRecord
<1>5. PhaseOf(y.step) = PhaseOf(x.step) /\ x.step # "closing" /\ y.step # "closing"
  BY <1>1, <1>4, PhasesSeen
<1> QED BY <1>1, <1>3, <1>4, <1>5, Unseen

\* The graph's own steps are not seen, up to the text.
LEMMA GraphUnseen ==
    ASSUME ChatInv, NEW r \in Runs,
           Initialize(r) \/ Validate(r) \/ Route(r) \/ Join(r) \/ Correlate(r) \/ Verify(r)
             \/ Comply(r)
    PROVE  UNCHANGED Turn!vars
<1>1. \E step \in Looking : \E ch : Saved(r, step, ch)
  BY LookingSteps DEF Initialize, Validate, Route, Join, Correlate, Verify, Comply
<1>2. run[r].step \in Looking
  BY LookingSteps DEF Initialize, Validate, Route, Join, Correlate, Verify, Comply, At
<1> QED BY <1>1, <1>2, SavedUnseen

\* Nor is the fan-out.
LEMMA ExtractUnseen ==
    ASSUME ChatInv, NEW r \in Runs, Extract(r)
    PROVE  UNCHANGED Turn!vars
<1>1. PICK x : x = run[r] /\ x \in RunRecord /\ x.step = "extraction"
  BY ThisRun DEF Extract, At
<1>2. PICK y : y = [x EXCEPT !.step = "branches", !.left = x.ch.caps]
  OBVIOUS
<1>3. Becomes(r, y) /\ owner' = owner
  BY <1>1, <1>2 DEF Extract, Becomes
<1>4. /\ y.step = "branches" /\ y.user = x.user /\ y.valid = x.valid /\ y.asked = x.asked
      /\ y.got = x.got /\ y.sent = x.sent
  BY <1>1, <1>2 DEF RunRecord
<1>5. PhaseOf(y.step) = PhaseOf(x.step) /\ x.step # "closing" /\ y.step # "closing"
  BY <1>1, <1>4, PhasesSeen, LookingSteps
<1> QED BY <1>1, <1>3, <1>4, <1>5, Unseen

\* Nor is another try.
LEMMA RetryUnseen ==
    ASSUME ChatInv, NEW r \in Runs, NEW b \in Branches, Retry(r, b)
    PROVE  UNCHANGED Turn!vars
<1>1. PICK x : x = run[r] /\ x \in RunRecord /\ x.step = "branches"
  BY ThisRun DEF Retry, Working, At
<1>2. PICK y : y = [x EXCEPT !.calls[b] = @ + 1]
  OBVIOUS
<1>3. Becomes(r, y) /\ owner' = owner
  BY <1>1, <1>2 DEF Retry, Becomes
<1>4. /\ y.step = x.step /\ y.user = x.user /\ y.valid = x.valid /\ y.asked = x.asked
      /\ y.got = x.got /\ y.sent = x.sent
  BY <1>1, <1>2 DEF RunRecord
<1>5. PhaseOf(y.step) = PhaseOf(x.step) /\ x.step # "closing" /\ y.step # "closing"
  BY <1>1, <1>4
<1> QED BY <1>1, <1>3, <1>4, <1>5, Unseen

\* The steps that are seen, each with the action of ChatTurn it is.
LEMMA RequestSeen ==
    ASSUME ChatInv, NEW r \in Runs, Request(r)
    PROVE  Turn!Ask(r)
<1>1. PICK x : x = run[r] /\ x \in RunRecord /\ x.step = "new"
  BY ThisRun DEF Request, At
<1>2. PICK u \in Users, valid \in BOOLEAN, asked \in SUBSET Capabilities :
        /\ ~valid => asked = {}
        /\ run' = [run EXCEPT ![r].step = "claim", ![r].user = u,
                              ![r].valid = valid, ![r].asked = asked]
        /\ owner' = owner
  BY DEF Request
<1>3. PICK y : y = [x EXCEPT !.step = "claim", !.user = u, !.valid = valid, !.asked = asked]
  OBVIOUS
<1>4. Becomes(r, y)
  BY <1>1, <1>2, <1>3 DEF Becomes, RunRecord
<1>5. /\ y.step = "claim" /\ y.user = u /\ y.valid = valid /\ y.asked = asked
      /\ y.got = x.got /\ y.sent = x.sent
  BY <1>1, <1>3 DEF RunRecord
<1>6. PhaseOf(x.step) = "new" /\ PhaseOf(y.step) = "asked" /\ AnswerGiven(y) = AnswerGiven(x)
  BY <1>1, <1>5, PhasesSeen
<1>7. /\ ThePhase[r] = "new" /\ ThePhase' = [ThePhase EXCEPT ![r] = "asked"]
      /\ TheUser' = [TheUser EXCEPT ![r] = u]
      /\ TheValid' = [TheValid EXCEPT ![r] = valid]
      /\ TheAsked' = [TheAsked EXCEPT ![r] = asked]
  BY <1>1, <1>4, <1>5, <1>6, Seen, SeenNow
<1>8. TheLooked' = TheLooked /\ TheAnswer' = TheAnswer /\ TheSent' = TheSent
  BY <1>1, <1>4, <1>5, <1>6, SeenSame
<1>9. asked \in SUBSET Branches
  BY DEF Capabilities
<1>10. \E v \in BOOLEAN, S \in SUBSET Branches :
         /\ ~v => S = {}
         /\ TheValid' = [TheValid EXCEPT ![r] = v]
         /\ TheAsked' = [TheAsked EXCEPT ![r] = S]
  BY <1>2, <1>7, <1>9
<1>11. \E w \in Users : TheUser' = [TheUser EXCEPT ![r] = w]
  BY <1>7
<1> QED BY <1>2, <1>7, <1>8, <1>10, <1>11
        DEF Turn!Ask, ThePhase, TheUser, TheValid, TheAsked, TheLooked, TheAnswer, TheSent

LEMMA ClaimSeen ==
    ASSUME ChatInv, NEW r \in Runs, ClaimThread(r)
    PROVE  Turn!Own(r) \/ UNCHANGED Turn!vars
<1>1. PICK x : x = run[r] /\ x \in RunRecord /\ x.step = "claim"
  BY ThisRun DEF ClaimThread, At
<1>2. PICK y : y = [x EXCEPT !.step = "check"]
  OBVIOUS
<1>3. Becomes(r, y)
  BY <1>1, <1>2 DEF ClaimThread, Becomes
<1>4. /\ y.step = "check" /\ y.user = x.user /\ y.valid = x.valid /\ y.asked = x.asked
      /\ y.got = x.got /\ y.sent = x.sent
  BY <1>1, <1>2 DEF RunRecord
<1>5. /\ PhaseOf(y.step) = "asked" /\ PhaseOf(x.step) = "asked"
      /\ AnswerGiven(y) = AnswerGiven(x)
  BY <1>1, <1>4, PhasesSeen
<1>6. CASE owner = NoUser
  <2>1. /\ ThePhase' = ThePhase /\ TheUser' = TheUser /\ TheValid' = TheValid
        /\ TheAsked' = TheAsked /\ TheLooked' = TheLooked /\ TheAnswer' = TheAnswer
        /\ TheSent' = TheSent
    BY <1>1, <1>3, <1>4, <1>5, SeenSame
  <2>2. ThePhase[r] = "asked" /\ TheUser[r] = x.user
    BY <1>1, <1>5, SeenNow
  <2>3. owner' = TheUser[r]
    BY <1>1, <1>6, <2>2 DEF ClaimThread
  <2>4. Turn!Own(r)
    BY <1>6, <2>1, <2>2, <2>3
       DEF Turn!Own, Turn!question, ThePhase, TheUser, TheValid, TheAsked, TheLooked,
           TheAnswer, TheSent
  <2> QED BY <2>4
<1>7. CASE owner # NoUser
  <2>1. owner' = owner
    BY <1>7 DEF ClaimThread
  <2>2. x.step # "closing" /\ y.step # "closing"
    BY <1>1, <1>4
  <2> QED BY <1>1, <1>3, <1>4, <1>5, <2>1, <2>2, Unseen
<1> QED BY <1>6, <1>7

LEMMA BeginSeen ==
    ASSUME ChatInv, NEW r \in Runs, Begin(r)
    PROVE  Turn!Start(r)
<1>1. PICK x : x = run[r] /\ x \in RunRecord /\ x.step = "check" /\ StreamOK(r, x)
               /\ owner = x.user
  BY ThisRun DEF Begin, At, RunOK
<1>2. PICK y : y = [x EXCEPT !.step = "initialize_run", !.ch = checkpoint[x.user],
                             !.final = checkpoint[x.user].final,
                             !.sent = <<Event("run.started", r)>>]
  OBVIOUS
<1>3. Becomes(r, y) /\ owner' = owner
  BY <1>1, <1>2 DEF Begin, Becomes
<1>4. /\ y.step = "initialize_run" /\ y.user = x.user /\ y.valid = x.valid
      /\ y.asked = x.asked /\ y.got = x.got /\ y.sent = <<Event("run.started", r)>>
  BY <1>1, <1>2 DEF RunRecord
<1>5. /\ PhaseOf(y.step) = "looking" /\ PhaseOf(x.step) = "asked"
      /\ AnswerGiven(y) = AnswerGiven(x)
  BY <1>1, <1>4, PhasesSeen, LookingSteps
<1>6. y.sent = Append(x.sent, Event("run.started", r))
  BY <1>1, <1>4 DEF StreamOK
<1>7. /\ ThePhase[r] = "asked" /\ TheUser[r] = owner /\ TheSent[r] = x.sent
  BY <1>1, <1>5, SeenNow
<1>8. /\ ThePhase' = [ThePhase EXCEPT ![r] = "looking"]
      /\ TheSent' = [TheSent EXCEPT ![r] = Append(@, Event("run.started", r))]
  BY <1>3, <1>5, <1>6, <1>7, Seen
<1>9. /\ TheUser' = TheUser /\ TheValid' = TheValid
      /\ TheAsked' = TheAsked /\ TheLooked' = TheLooked /\ TheAnswer' = TheAnswer
  BY <1>1, <1>3, <1>4, <1>5, SeenSame
<1> QED BY <1>3, <1>7, <1>8, <1>9
        DEF Turn!Start, Turn!Send, Turn!Event, Event, Turn!question, ThePhase, TheUser,
            TheValid, TheAsked, TheLooked, TheAnswer, TheSent

\* What a branch may return.
LEMMA MayReturn ==
    ASSUME NEW b \in Branches, NEW o \in Outcomes[b]
    PROVE  <<b, o>> \in Returns
<1>1. o \in Offered(b)
  BY ChatAssumption
<1>2. <<b, o>> \in Results
  BY <1>1 DEF Results
<1> QED BY <1>2 DEF Returns

LEMMA DoneSeen ==
    ASSUME ChatInv, NEW r \in Runs, NEW b \in Branches, Working(r, b), NEW o \in Outcomes[b],
           NEW ans, Done(r, b, o, ans)
    PROVE  \E l \in Returns : Turn!Look(r, l)
<1>1. PICK x : x = run[r] /\ x \in RunRecord /\ x.step = "branches" /\ RunOK(r, x)
               /\ b \in x.left
  BY ThisRun DEF Working, At
<1>2. PICK y : y = [x EXCEPT !.ch = Merge(@, r, b, ans), !.left = @ \ {b},
                             !.calls[b] = @ + 1, !.got = @ \cup {<<b, o>>}]
  OBVIOUS
<1>3. Becomes(r, y) /\ owner' = owner
  BY <1>1, <1>2 DEF Done, Becomes
<1>4. /\ y.step = x.step /\ y.user = x.user /\ y.valid = x.valid
      /\ y.asked = x.asked /\ y.got = x.got \cup {<<b, o>>} /\ y.sent = x.sent
  BY <1>1, <1>2 DEF RunRecord
<1>5. /\ PhaseOf(y.step) = "looking" /\ PhaseOf(x.step) = "looking"
      /\ AnswerGiven(y) = AnswerGiven(x)
  BY <1>1, <1>4, PhasesSeen, LookingSteps
<1>6. PICK l : l = <<b, o>> /\ l[1] = b /\ l \in Returns
  BY MayReturn
<1>7. /\ ThePhase[r] = "looking" /\ TheValid[r] = x.valid /\ TheAsked[r] = x.asked
      /\ TheLooked[r] = x.got
  BY <1>1, <1>5, SeenNow
<1>8. TheLooked' = [TheLooked EXCEPT ![r] = @ \cup {l}]
  BY <1>3, <1>4, <1>6, <1>7, Seen
<1>9. /\ ThePhase' = ThePhase /\ TheUser' = TheUser /\ TheValid' = TheValid
      /\ TheAsked' = TheAsked /\ TheSent' = TheSent /\ TheAnswer' = TheAnswer
  BY <1>1, <1>3, <1>4, <1>5, SeenSame
<1>10. CallsOK(x) /\ GotOK(x) /\ x.step \in Own
  BY <1>1, Phases DEF RunOK
<1>11. b \in x.ch.caps /\ x.valid /\ (x.asked # {} => b \in x.asked)
  BY <1>1, <1>10 DEF CallsOK
<1>12. \A k \in x.got : k[1] # b
  BY <1>1, <1>10 DEF GotOK
<1>13. /\ TheValid[r] /\ (TheAsked[r] # {} => l[1] \in TheAsked[r])
       /\ \A k \in TheLooked[r] : k[1] # l[1]
  BY <1>6, <1>7, <1>11, <1>12
<1>14. Turn!Look(r, l)
  BY <1>3, <1>7, <1>8, <1>9, <1>13
     DEF Turn!Look, Turn!question, ThePhase, TheUser, TheValid, TheAsked, TheLooked,
         TheAnswer, TheSent
<1> QED BY <1>6, <1>14

LEMMA SynthesizeSeen ==
    ASSUME ChatInv, AllHeard, NEW r \in Runs, Synthesize(r)
    PROVE  Turn!Tell(r)
<1>1. PICK x : x = run[r] /\ x \in RunRecord /\ x.step = "synthesis" /\ CallsOK(x)
               /\ Heard(x)
  BY ThisRun DEF Synthesize, At, RunOK, AllHeard
<1>2. PICK y : y = [x EXCEPT !.step = "trace_finalization",
                             !.sent = Append(@, Event("answer.delta", r))]
  OBVIOUS
<1>3. Becomes(r, y) /\ owner' = owner
  BY <1>1, <1>2 DEF Synthesize, Becomes
<1>4. /\ y.step = "trace_finalization" /\ y.user = x.user /\ y.valid = x.valid
      /\ y.asked = x.asked /\ y.got = x.got
      /\ y.sent = Append(x.sent, Event("answer.delta", r))
  BY <1>1, <1>2 DEF RunRecord
<1>5. /\ PhaseOf(y.step) = "telling" /\ PhaseOf(x.step) = "looking"
      /\ AnswerGiven(y) = AnswerGiven(x)
  BY <1>1, <1>4, PhasesSeen, LookingSteps
<1>6. /\ ThePhase[r] = "looking" /\ TheAsked[r] = x.asked /\ TheLooked[r] = x.got
      /\ TheSent[r] = x.sent
  BY <1>1, <1>5, SeenNow
<1>7. /\ ThePhase' = [ThePhase EXCEPT ![r] = "telling"]
      /\ TheSent' = [TheSent EXCEPT ![r] = Append(@, Event("answer.delta", r))]
  BY <1>3, <1>4, <1>5, <1>6, Seen
<1>8. /\ TheUser' = TheUser /\ TheValid' = TheValid
      /\ TheAsked' = TheAsked /\ TheLooked' = TheLooked /\ TheAnswer' = TheAnswer
  BY <1>1, <1>3, <1>4, <1>5, SeenSame
<1>9. \A s \in x.asked : \E l \in x.got : l[1] = s
  <2>1. x.step \in Called /\ x.step \in Own /\ x.left = {}
    BY <1>1, Phases DEF CallsOK
  <2>2. x.asked # {} => x.ch.caps = x.asked
    BY <1>1, <2>1 DEF CallsOK
  <2> QED BY <1>1, <2>1, <2>2 DEF Heard
<1>10. \A s \in TheAsked[r] : \E l \in TheLooked[r] : l[1] = s
  BY <1>6, <1>9
<1> QED BY <1>3, <1>6, <1>7, <1>8, <1>10
        DEF Turn!Tell, Turn!Send, Turn!Event, Event, Turn!question, ThePhase, TheUser,
            TheValid, TheAsked, TheLooked, TheAnswer, TheSent

\* A fact is what is said of it.
LEMMA FactsSaid ==
    ASSUME NEW g \in Returns
    PROVE  /\ \A f \in Given(g).facts : Fact(f.kind, f.cites) = f
           /\ Vouched(g) \subseteq Given(g).facts
<1>1. g[1] \in Branches /\ g[2] \in Outcomes[g[1]] /\ g = <<g[1], g[2]>>
  BY DEF Returns, Results
<1>2. AnswerOf(g[1], Given(g))
  BY <1>1, GivenIsAnswer
<1>3. \A f \in Given(g).facts : f \in Statements
  BY <1>2 DEF AnswerOf, Answers
<1>4. \A f \in Statements : Fact(f.kind, f.cites) = f
  BY DEF Statements, Fact
<1> QED BY <1>3, <1>4 DEF Vouched

LEMMA FinalizeSeen ==
    ASSUME ChatInv, NEW r \in Runs, Finalize(r), NothingVerifiedLost', HonestStatus'
    PROVE  Turn!Answer(r)
<1>1. PICK x : /\ x = run[r] /\ x \in RunRecord /\ x.step = "trace_finalization"
               /\ Checked(r, x) /\ GotOK(x) /\ x.ch \in Channels
  BY ThisRun, Phases DEF Finalize, At, RunOK, RunRecord
<1>2. PICK response : response = Response(r, x.ch)
  OBVIOUS
<1>3. PICK ch : ch = [x.ch EXCEPT !.final = response]
  OBVIOUS
<1>4. PICK y : y = [x EXCEPT !.step = "closing", !.ch = ch, !.final = response,
                             !.sent = Append(@, Event("answer.completed", response.by)),
                             !.saw = TRUE]
  OBVIOUS
<1>5. Becomes(r, y) /\ owner' = owner
  BY <1>1, <1>2, <1>3, <1>4 DEF Finalize, Becomes
<1>6. /\ y.step = "closing" /\ y.ch = ch /\ y.user = x.user /\ y.valid = x.valid
      /\ y.asked = x.asked /\ y.got = x.got
      /\ y.sent = Append(x.sent, Event("answer.completed", response.by))
  BY <1>1, <1>4 DEF RunRecord
<1>7. ch.final = response /\ response.by = r
  BY <1>1, <1>2, <1>3, Parts DEF Channels
<1>8. PhaseOf(y.step) = "answered" /\ PhaseOf(x.step) = "telling"
  BY <1>1, <1>6, PhasesSeen
<1>9. PICK a : a = AnswerGiven(y)
  OBVIOUS
<1>10. /\ ThePhase[r] = "telling" /\ TheLooked[r] = x.got /\ TheSent[r] = x.sent
  BY <1>1, <1>8, SeenNow
<1>11. /\ ThePhase' = [ThePhase EXCEPT ![r] = "answered"]
       /\ TheAnswer' = [TheAnswer EXCEPT ![r] = a]
       /\ TheSent' = [TheSent EXCEPT ![r] = Append(@, Event("answer.completed", r))]
  BY <1>5, <1>6, <1>7, <1>8, <1>9, <1>10, Seen
<1>12. /\ TheUser' = TheUser /\ TheValid' = TheValid /\ TheAsked' = TheAsked
       /\ TheLooked' = TheLooked
  BY <1>1, <1>5, <1>6, SeenSame
<1>13. a \in Turn!Truthful(x.got)
  <2>1. a = [facts |-> {Fact(f.kind, f.cites) : f \in response.facts},
             unavailable |-> {m.source : m \in response.unavailable},
             status |-> response.status]
    BY <1>6, <1>7, <1>9 DEF AnswerGiven
  <2>2. PICK facts : facts = {Fact(f.kind, f.cites) : f \in response.facts}
    OBVIOUS
  <2>3. run'[r] = y /\ r \in Answering'
    BY <1>5, <1>6 DEF Becomes, ChatInv, Answering, At
  <2>4. \A g \in x.got : g \in Returns
    BY <1>1 DEF GotOK, Returns
  <2>5. \A f \in facts : \E l \in x.got : f \in ReturnsFound[l]
    <3>1. ASSUME NEW h \in response.facts
          PROVE  \E l \in x.got : Fact(h.kind, h.cites) \in ReturnsFound[l]
      <4>1. h \in x.ch.facts
        BY <1>2, Parts
      <4>2. PICK g \in x.got : \E f \in Given(g).facts : h = Of(r, f)
        BY <1>1, <4>1 DEF Checked, FactsFrom
      <4>3. PICK f \in Given(g).facts : h = Of(r, f)
        BY <4>2
      <4>4. h.kind = f.kind /\ h.cites = f.cites
        BY <4>3 DEF Of
      <4>5. Fact(h.kind, h.cites) \in Given(g).facts
        BY <2>4, <4>4, FactsSaid
      <4> QED BY <2>4, <4>5 DEF ReturnsFound
    <3> QED BY <2>2, <3>1
  <2>6. ASSUME NEW l \in x.got
        PROVE  ReturnsVouched[l] \subseteq facts
    <3>1. SUFFICES ASSUME NEW f \in Vouched(l)
                   PROVE  f \in facts
      BY <2>4 DEF ReturnsVouched
    <3>2. [kind |-> f.kind, cites |-> f.cites, by |-> r] \in response.facts
      BY <1>6, <1>7, <2>3 DEF NothingVerifiedLost
    <3>3. PICK h \in response.facts : h.kind = f.kind /\ h.cites = f.cites
      BY <3>2
    <3>4. Fact(h.kind, h.cites) = f
      BY <2>4, <3>3, FactsSaid
    <3> QED BY <2>2, <3>4
  <2>7. PICK failed : failed = {g[1] : g \in {k \in x.got : Given(k).unavailable}}
    OBVIOUS
  <2>8. /\ {m.source : m \in response.unavailable} = failed
        /\ response.status = "completed" <=> failed = {}
        /\ response.status = "failed" => response.facts = {}
    BY <1>6, <1>7, <2>3, <2>7 DEF HonestStatus
  <2>9. failed = {l[1] : l \in x.got \cap ReturnsFailed}
    <3>1. x.got \cap ReturnsFailed = {k \in x.got : Given(k).unavailable}
      BY <2>4 DEF ReturnsFailed
    <3> QED BY <2>7, <3>1
  <2>10. response.status \in {"completed", "partial", "failed"}
    BY <1>2, Parts DEF Status
  <2>11. a.facts = facts /\ a.status = response.status /\ a.unavailable = failed
    BY <2>1, <2>2, <2>8
  <2>12. a.status = "failed" => a.facts = {}
    BY <2>2, <2>8, <2>11
  <2>13. facts \in SUBSET UNION {ReturnsFound[l] : l \in x.got}
    BY <2>5
  <2>14. a \in [facts : SUBSET UNION {ReturnsFound[l] : l \in x.got}, unavailable : {failed},
                status : {"completed", "partial", "failed"}]
    BY <2>1, <2>2, <2>8, <2>10, <2>13
  <2> QED BY <2>6, <2>8, <2>9, <2>11, <2>12, <2>14 DEF Turn!Truthful
<1>14. \E b \in Turn!Truthful(TheLooked[r]) : TheAnswer' = [TheAnswer EXCEPT ![r] = b]
  BY <1>10, <1>11, <1>13
<1> QED BY <1>5, <1>10, <1>11, <1>12, <1>14
        DEF Turn!Answer, Turn!Send, Turn!Event, Event, Turn!question, ThePhase, TheUser,
            TheValid, TheAsked, TheLooked, TheAnswer, TheSent

\* A run that is under way is seen to be.
LEMMA UnderWay ==
    ASSUME NEW s, s \notin {"new", "ended", "cut"}
    PROVE  PhaseOf(s) \notin {"new", "over"}
BY DEF PhaseOf

\* Of a run that is over only what it sent is seen.
LEMMA OverSeen ==
    ASSUME ChatInv, NEW r \in Runs, NEW step \in {"ended", "cut"}, NEW sent,
           Over(r, step, sent)
    PROVE  /\ ThePhase' = [ThePhase EXCEPT ![r] = "over"]
           /\ TheUser' = TheUser
           /\ TheValid' = [TheValid EXCEPT ![r] = FALSE]
           /\ TheAsked' = [TheAsked EXCEPT ![r] = {}]
           /\ TheLooked' = [TheLooked EXCEPT ![r] = {}]
           /\ TheAnswer' = [TheAnswer EXCEPT ![r] = None]
           /\ TheSent' = [TheSent EXCEPT ![r] = sent]
<1>1. PICK x : x = run[r]
  OBVIOUS
<1>2. PICK y : y = [Idle EXCEPT !.step = step, !.user = x.user, !.sent = sent]
  OBVIOUS
<1>3. Becomes(r, y)
  BY <1>1, <1>2 DEF Over, Becomes
<1>4. /\ y.step = step /\ y.user = x.user /\ y.valid = FALSE /\ y.asked = {} /\ y.got = {}
      /\ y.sent = sent
  BY <1>2 DEF Idle
<1>5. PhaseOf(y.step) = "over" /\ AnswerGiven(y) = None
  BY <1>4, PhasesSeen
<1>6. /\ ThePhase' = [ThePhase EXCEPT ![r] = "over"]
      /\ TheValid' = [TheValid EXCEPT ![r] = FALSE]
      /\ TheAsked' = [TheAsked EXCEPT ![r] = {}]
      /\ TheLooked' = [TheLooked EXCEPT ![r] = {}]
      /\ TheAnswer' = [TheAnswer EXCEPT ![r] = None]
      /\ TheSent' = [TheSent EXCEPT ![r] = sent]
  BY <1>3, <1>4, <1>5, Seen
<1>7. TheUser' = TheUser
  BY <1>1, <1>3, <1>4, SeenSame
<1> QED BY <1>6, <1>7

LEMMA FailsSeen ==
    ASSUME ChatInv, NEW r \in Runs, RunFails(r), owner' = owner,
           run[r].step \notin {"new", "ended", "cut"}
    PROVE  Turn!Fail(r)
<1>1. PICK x : x = run[r]
  OBVIOUS
<1>2. ThePhase[r] \notin {"new", "over"} /\ TheSent[r] = x.sent
  BY <1>1, UnderWay, SeenNow
<1>3. /\ ThePhase' = [ThePhase EXCEPT ![r] = "over"]
      /\ TheUser' = TheUser
      /\ TheValid' = [TheValid EXCEPT ![r] = FALSE]
      /\ TheAsked' = [TheAsked EXCEPT ![r] = {}]
      /\ TheLooked' = [TheLooked EXCEPT ![r] = {}]
      /\ TheAnswer' = [TheAnswer EXCEPT ![r] = None]
      /\ TheSent' = [TheSent EXCEPT ![r] = Append(x.sent, Event("run.failed", r))]
  BY <1>1, OverSeen DEF RunFails
<1>4. TheSent' = [TheSent EXCEPT ![r] = Append(@, Event("run.failed", r))]
  BY <1>2, <1>3
<1> QED BY <1>2, <1>3, <1>4
        DEF Turn!Fail, Turn!Send, Turn!Forget, Turn!Event, Event, ThePhase, TheUser,
            TheValid, TheAsked, TheLooked, TheAnswer, TheSent

LEMMA EndsSeen ==
    ASSUME ChatInv, NEW r \in Runs, NEW step \in {"ended", "cut"}, Over(r, step, run[r].sent),
           owner' = owner, run[r].step \notin {"new", "ended", "cut"}
    PROVE  Turn!End(r)
<1>1. PICK x : x = run[r]
  OBVIOUS
<1>2. ThePhase[r] \notin {"new", "over"} /\ TheSent[r] = x.sent
  BY <1>1, UnderWay, SeenNow
<1>3. /\ ThePhase' = [ThePhase EXCEPT ![r] = "over"]
      /\ TheUser' = TheUser
      /\ TheValid' = [TheValid EXCEPT ![r] = FALSE]
      /\ TheAsked' = [TheAsked EXCEPT ![r] = {}]
      /\ TheLooked' = [TheLooked EXCEPT ![r] = {}]
      /\ TheAnswer' = [TheAnswer EXCEPT ![r] = None]
      /\ TheSent' = [TheSent EXCEPT ![r] = x.sent]
  BY <1>1, OverSeen
<1>4. TheSent' = TheSent
  BY <1>2, <1>3 DEF TheSent
<1> QED BY <1>2, <1>3, <1>4
        DEF Turn!End, Turn!Forget, ThePhase, TheUser, TheValid, TheAsked, TheLooked,
            TheAnswer, TheSent

LEMMA CloseSeen ==
    ASSUME ChatInv, NEW r \in Runs, Close(r)
    PROVE  Turn!End(r)
<1>1. run[r].step = "closing" /\ run[r].saw
  BY ThisRun DEF Close, At, RunOK, StreamOK
<1>2. Over(r, "ended", run[r].sent) /\ owner' = owner
  BY <1>1 DEF Close
<1> QED BY <1>1, <1>2, EndsSeen

LEMMA BranchSeen ==
    ASSUME ChatInv, NEW r \in Runs, NEW b \in Branches, BranchStep(r, b)
    PROVE  Turn!Next \/ UNCHANGED Turn!vars
<1>1. CASE Answered(r, b)
  <2>1. \E l \in Returns : Turn!Look(r, l)
    BY <1>1, DoneSeen DEF Answered
  <2> QED BY <2>1 DEF Turn!Next
<1>2. CASE Retry(r, b)
  BY <1>2, RetryUnseen
<1>3. CASE Unavailable(r, b)
  <2>1. \E l \in Returns : Turn!Look(r, l)
    BY <1>3, DoneSeen DEF Unavailable
  <2> QED BY <2>1 DEF Turn!Next
<1>4. CASE Raised(r, b)
  <2>1. Turn!Fail(r)
    BY <1>4, FailsSeen DEF Raised, Working, At
  <2> QED BY <2>1 DEF Turn!Next
<1> QED BY <1>1, <1>2, <1>3, <1>4 DEF BranchStep

\* Every step is a step of ChatTurn, or is not seen there.
LEMMA StepSeen ==
    ASSUME ChatInv, AllHeard, NothingVerifiedLost', HonestStatus', [Next]_vars
    PROVE  [Turn!Next]_Turn!vars
<1>1. CASE UNCHANGED vars
  <2>1. UNCHANGED Turn!vars
    BY <1>1 DEF vars, Turn!vars, Turn!question, PhaseOf, AnswerGiven
  <2> QED BY <2>1
<1>2. ASSUME NEW r \in Runs, RunStep(r)
      PROVE  [Turn!Next]_Turn!vars
  <2>1. CASE ClaimThread(r)
    BY <2>1, ClaimSeen DEF Turn!Next
  <2>2. CASE Refuse(r)
    <3>1. Turn!Fail(r)
      BY <2>2, FailsSeen DEF Refuse, At
    <3> QED BY <3>1 DEF Turn!Next
  <2>3. CASE Begin(r)
    BY <2>3, BeginSeen DEF Turn!Next
  <2>4. CASE Initialize(r) \/ Validate(r) \/ Route(r) \/ Join(r) \/ Correlate(r)
               \/ Verify(r) \/ Comply(r)
    <3>1. UNCHANGED Turn!vars
      BY <2>4, GraphUnseen
    <3> QED BY <3>1
  <2>5. CASE Extract(r)
    <3>1. UNCHANGED Turn!vars
      BY <2>5, ExtractUnseen
    <3> QED BY <3>1
  <2>6. CASE Synthesize(r)
    BY <2>6, SynthesizeSeen DEF Turn!Next
  <2>7. CASE Finalize(r)
    BY <2>7, FinalizeSeen DEF Turn!Next
  <2>8. CASE Close(r)
    BY <2>8, CloseSeen DEF Turn!Next
  <2> QED BY <1>2, <2>1, <2>2, <2>3, <2>4, <2>5, <2>6, <2>7, <2>8 DEF RunStep
<1>3. ASSUME NEW r \in Runs, Request(r)
      PROVE  [Turn!Next]_Turn!vars
  BY <1>3, RequestSeen DEF Turn!Next
<1>4. ASSUME NEW r \in Runs, Fail(r)
      PROVE  [Turn!Next]_Turn!vars
  <2>1. run[r].step \notin {"new", "ended", "cut"}
    BY <1>4 DEF Fail, InGraph
  <2>2. Turn!Fail(r)
    BY <1>4, <2>1, FailsSeen DEF Fail
  <2> QED BY <2>2 DEF Turn!Next
<1>5. ASSUME NEW r \in Runs, Cancel(r)
      PROVE  [Turn!Next]_Turn!vars
  <2>1. run[r].step \notin {"new", "ended", "cut"}
    BY <1>5 DEF Cancel, InGraph
  <2>2. Turn!End(r)
    BY <1>5, <2>1, EndsSeen DEF Cancel
  <2> QED BY <2>2 DEF Turn!Next
<1>6. ASSUME NEW r \in Runs, NEW b \in Branches, BranchStep(r, b)
      PROVE  [Turn!Next]_Turn!vars
  BY <1>6, BranchSeen
<1> QED BY <1>1, <1>2, <1>3, <1>4, <1>5, <1>6 DEF Next

LEMMA InitSeen == Init => Turn!Init
<1> SUFFICES ASSUME Init PROVE Turn!Init
  OBVIOUS
<1>1. \A r \in Runs : run[r] = Idle
  BY DEF Init
<1>2. /\ Idle.step = "new" /\ Idle.user = NoUser /\ Idle.valid = FALSE /\ Idle.asked = {}
      /\ Idle.got = {} /\ Idle.sent = <<>>
  BY DEF Idle
<1>3. PhaseOf(Idle.step) = "new" /\ AnswerGiven(Idle) = None
  BY <1>2, PhasesSeen
<1> QED BY <1>1, <1>2, <1>3 DEF Init, Turn!Init

\* The runs of a thread, with their checkpoints, channels, branches and streams, are
\* nothing but turns: the thread keeps its first owner, all that was asked for is heard
\* before the text is written, and the one answer is true to it.
THEOREM TurnImplemented == Spec => ImplementsTurn
<1>1. ChatInv /\ AllHeard /\ NothingVerifiedLost' /\ HonestStatus' /\ [Next]_vars
        => [Turn!Next]_Turn!vars
  BY StepSeen
<1> QED BY <1>1, InitSeen, ChatInductive, HeardAlways, VerifiedIsKept, StatusIsHonest, PTL
        DEF Spec, ImplementsTurn, Turn!Spec
==============================================================================
