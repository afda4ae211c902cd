------------------------------ MODULE ChatRun ------------------------------
(***************************************************************************)
(* Chat runs on one conversation thread: the workflow of graph/workflow.py *)
(* as ControlledAgentGraph.astream drives it, with the services that       *)
(* graph/adapters.py gives it and the thread owner of graph/checkpoint.py. *)
(*                                                                         *)
(* A step is a superstep of the graph.  It reads the run's channels,       *)
(* applies what its nodes return, and saves the channels as the thread's   *)
(* checkpoint, from which the next run of the thread starts.  The branches *)
(* that extraction fans out to run in parallel and are merged when the     *)
(* last of them is done.  Several requests for one thread may be under way *)
(* at once, of different users even; each can fail or be cut off anywhere. *)
(*                                                                         *)
(* Facts carry the run they were made in, which the code does not record:  *)
(* it lets the properties tell a fact of this run from an earlier one's.   *)
(***************************************************************************)
EXTENDS Naturals, Sequences, FiniteSets

CONSTANTS
    Runs,        \* requests for this thread, each runs once
    Users,
    NoUser,
    None,        \* no summary, no response
    Budget,      \* retry_budget: how often each branch may call its service
    Outcomes,    \* what each branch's service may answer, see Answer
    Classifier,  \* TRUE: services.classifier is configured
    MaxFaults    \* bound: failures that are no service's answer

Branches == {"knowledge_rag", "sql_auction_search", "mcp_public_tools"}

\* The branches that messages ask for.
Capabilities == {b \in Branches : Outcomes[b] # {}}

VARIABLES
    owner,       \* checkpoint_thread_owners.user_id of the thread
    checkpoint,  \* the thread's last checkpoint, per user
    run,         \* the runs
    faults

vars == <<owner, checkpoint, run, faults>>

(***************************************************************************)
(* What the services answer (graph/adapters.py).  An answer is a set of    *)
(* facts, the ids of its citations, a summary and whether it reports a     *)
(* source as unavailable.  A fact names the citations it rests on.         *)
(***************************************************************************)
Fact(kind, cites) == [kind |-> kind, cites |-> cites]

Nothing == [facts |-> {}, cites |-> {}, summary |-> None, unavailable |-> FALSE]

Policy == {"citation-1"}
Auction == {"auction-1"}
Parcel(i) == IF i = 1 THEN {"wcad-1"} ELSE {"wcad-2"}
Schedule == {"county-schedule"}
Ids == Policy \cup Auction \cup Parcel(1) \cup Parcel(2) \cup Schedule

\* "uncited" answers are what the services' interface allows and the adapters of
\* this repository never give: facts whose citation is not among the answer's.
Answer(outcome) ==
    CASE outcome = "nothing" -> Nothing
      [] outcome = "policy" ->
           [Nothing EXCEPT !.facts = {Fact("evidence", Policy)}, !.cites = Policy]
      [] outcome = "uncited policy" -> [Nothing EXCEPT !.facts = {Fact("evidence", {})}]
      [] outcome = "cards" ->
           [Nothing EXCEPT !.facts = {Fact("card", Auction)}, !.cites = Auction]
      [] outcome = "uncited cards" -> [Nothing EXCEPT !.facts = {Fact("card", Policy)}]
      [] outcome = "schedule" -> [Nothing EXCEPT !.summary = Schedule, !.cites = Schedule]
      \* The calendar was read and the month is not on it.
      [] outcome = "missing schedule" ->
           [Nothing EXCEPT !.summary = Schedule, !.cites = Schedule]
      [] outcome = "property" ->
           [Nothing EXCEPT !.facts = {Fact("candidate", Parcel(1))},
                           !.cites = Parcel(1), !.summary = Parcel(1)]
      [] outcome = "properties" ->
           [Nothing EXCEPT !.facts = {Fact("candidate", Parcel(i)) : i \in 1..2},
                           !.cites = Parcel(1) \cup Parcel(2), !.summary = Parcel(1)]
      [] outcome = "uncited property" ->
           [Nothing EXCEPT !.facts = {Fact("candidate", Parcel(i)) : i \in 1..2},
                           !.cites = Parcel(1), !.summary = Parcel(2)]
      [] outcome = "no details" ->
           [Nothing EXCEPT !.facts = {Fact("candidate", Parcel(1))},
                           !.cites = Parcel(1), !.unavailable = TRUE]
      \* A PublicRecordToolError is answered, not raised.
      [] outcome = "tool error" -> [Nothing EXCEPT !.unavailable = TRUE]

\* Exceptions a service call may end in.  "timeout": TimeoutError or OSError.
\* "invalid": ValueError or RuntimeError.  "raised": any other, among them an
\* httpx.ReadTimeout while the body of a public source's page is read, which
\* ApprovedHttpClient.get translates only while it waits for the response.
Exceptions == {"timeout", "invalid", "raised", "body timeout"}

\* What the service of a branch may answer: policies have evidence, auctions have
\* cards, public records have candidates and a summary.
Offered(b) ==
    Exceptions \cup {"nothing"} \cup
    (CASE b = "knowledge_rag" -> {"policy", "uncited policy"}
       [] b = "sql_auction_search" -> {"cards", "uncited cards"}
       [] b = "mcp_public_tools" ->
            {"schedule", "missing schedule", "property", "properties", "uncited property",
             "no details", "tool error"})

\* What the node of a branch catches, once its attempts are used up.
Caught(b) ==
    {"timeout"} \cup (IF b = "sql_auction_search" THEN {"invalid"} ELSE {})

(***************************************************************************)
(* Channels (graph/state.py).                                              *)
(***************************************************************************)
Unsupported == "unsupported_or_unsafe"
Combined == "combined_research"

Intents == Branches \cup {Unsupported, Combined}

Kinds == {"evidence", "card", "candidate"}

Facts == [kind : Kinds, cites : SUBSET Ids, by : Runs]

Cites == [id : Ids, by : Runs]

Summaries == [cites : SUBSET Ids, by : Runs]

Missing == [source : Branches, by : Runs]

\* final_response
Responses ==
    [by : Runs, status : {"completed", "partial", "failed"}, intent : Intents,
     cites : SUBSET Cites, facts : SUBSET Facts,
     summary : Summaries \cup {None},
     unavailable : SUBSET Missing, disclaimer : BOOLEAN]

Channels ==
    [errors : BOOLEAN, intent : Intents, caps : SUBSET Branches, facts : SUBSET Facts,
     cites : SUBSET Cites, summary : Summaries \cup {None},
     unavailable : SUBSET Missing, disclaimer : BOOLEAN,
     final : Responses \cup {None}]

ASSUME ChatAssumption ==
    /\ NoUser \notin Users
    /\ None \notin Summaries \cup Responses
    /\ Budget \in [Branches -> Nat]
    /\ DOMAIN Outcomes = Branches
    /\ \A b \in Branches : Outcomes[b] \subseteq Offered(b)
    /\ Classifier \in BOOLEAN
    /\ MaxFaults \in Nat

\* The intent of a single capability is named for its branch.
IntentOf(caps) ==
    IF Cardinality(caps) >= 2 THEN Combined
    ELSE IF caps = {} THEN Unsupported ELSE CHOOSE b \in caps : TRUE

Empty == [errors |-> FALSE, intent |-> Unsupported, caps |-> {}, facts |-> {},
          cites |-> {}, summary |-> None, unavailable |-> {}, disclaimer |-> FALSE,
          final |-> None]

\* Mutation: citations are merged with the last run's.
ResetKeepingCitations(ch) == [Empty EXCEPT !.cites = ch.cites]

\* Mutation: errors are merged with the last run's.
ResetKeepingErrors(ch) == [Empty EXCEPT !.errors = ch.errors]

\* _initialize_run: everything but the identity of the run is reset, the channels
\* with a reducer by Overwrite.
Reset(ch) == Empty

CiteIds(ch) == {c.id : c \in ch.cites}

\* grounded_ids
Grounds(ids, cites) == cites # {} /\ cites \subseteq ids

\* A fact of kind "evidence" may omit its citation if there is any.
Verified(ch, f) ==
    \/ Grounds(CiteIds(ch), f.cites)
    \/ f.kind = "evidence" /\ f.cites = {} /\ CiteIds(ch) # {}

OfKind(ch, kind) == {f \in ch.facts : f.kind = kind}

\* Mutation: the last branch wins.
MergeLastOnly(ch, r, b, ans) ==
    [ch EXCEPT !.facts = {[kind |-> f.kind, cites |-> f.cites, by |-> r] : f \in ans.facts},
               !.cites = @ \cup {[id |-> i, by |-> r] : i \in ans.cites},
               !.unavailable = IF ans.unavailable THEN @ \cup {[source |-> b, by |-> r]} ELSE @]

\* merge_lists: what a branch returned is added to what is there.
Merge(ch, r, b, ans) ==
    [ch EXCEPT !.facts = @ \cup {[kind |-> f.kind, cites |-> f.cites, by |-> r] : f \in ans.facts},
               !.cites = @ \cup {[id |-> i, by |-> r] : i \in ans.cites},
               !.unavailable = IF ans.unavailable THEN @ \cup {[source |-> b, by |-> r]} ELSE @,
               !.summary = IF b = "mcp_public_tools" /\ ans.summary # None
                           THEN [cites |-> ans.summary, by |-> r] ELSE @]

(***************************************************************************)
(* The runs.                                                               *)
(***************************************************************************)

\* new: not requested yet.  claim, check: ensure_owner.  The nodes of the graph
\* follow, by their names; "branches" are the four that run in parallel.  closing:
\* the graph is done, astream is not.  cut: cancelled; the stream just stops.
Steps ==
    {"new", "claim", "check", "initialize_run", "validation", "routing", "extraction",
     "branches", "evidence_correlation", "grounding_verification",
     "compliance_disclaimer", "synthesis", "trace_finalization", "closing", "ended", "cut"}

Idle == [step |-> "new", user |-> NoUser, valid |-> FALSE, asked |-> {}, ch |-> Empty,
         left |-> {}, calls |-> [b \in Branches |-> 0], got |-> {}, sent |-> <<>>,
         saw |-> FALSE, final |-> None]

Events ==
    [event : {"run.started", "answer.delta", "answer.completed", "run.failed"}, by : Runs]

Results == Branches \X UNION {Offered(b) : b \in Branches}

RunRecord ==
    [step : Steps, user : Users \cup {NoUser}, valid : BOOLEAN, asked : SUBSET Branches,
     ch : Channels, left : SUBSET Branches, calls : [Branches -> Nat],
     got : SUBSET Results, sent : Seq(Events),
     saw : BOOLEAN, final : Responses \cup {None}]

At(r, step) == run[r].step = step

InGraph(r) == run[r].step \notin {"new", "claim", "check", "ended", "cut"}

Event(name, by) == [event |-> name, by |-> by]

Has(r, name) == \E i \in DOMAIN run[r].sent : run[r].sent[i].event = name

\* A run is over, and its memory is gone; what it sent was sent.
Over(r, step, sent) ==
    run' = [run EXCEPT ![r] = [Idle EXCEPT !.step = step, !.user = run[r].user, !.sent = sent]]

RunFails(r) == Over(r, "ended", Append(run[r].sent, Event("run.failed", r)))

\* A superstep ends: ch is saved, and astream is told of it in a "values" tick.
Saved(r, step, ch) ==
    /\ run' = [run EXCEPT ![r].step = step, ![r].ch = ch,
                          ![r].final = IF ch.final # None THEN ch.final ELSE @]
    /\ checkpoint' = [checkpoint EXCEPT ![run[r].user] = ch]
    /\ UNCHANGED <<owner, faults>>

\* A request: blank or too long or an injection (~valid), or one that asks for
\* some capabilities (_detect_capabilities; none when the message is vague).
Request(r) ==
    /\ At(r, "new")
    /\ \E u \in Users, valid \in BOOLEAN, asked \in SUBSET Capabilities :
        /\ ~valid => asked = {}
        /\ run' = [run EXCEPT ![r].step = "claim", ![r].user = u,
                              ![r].valid = valid, ![r].asked = asked]
    /\ UNCHANGED <<owner, checkpoint, faults>>

\* ensure_owner: on conflict do nothing.
ClaimThread(r) ==
    /\ At(r, "claim")
    /\ owner' = IF owner = NoUser THEN run[r].user ELSE owner
    /\ run' = [run EXCEPT ![r].step = "check"]
    /\ UNCHANGED <<checkpoint, faults>>

\* The thread belongs to somebody else.
Refuse(r) ==
    /\ At(r, "check") /\ owner # run[r].user
    /\ RunFails(r)
    /\ UNCHANGED <<owner, checkpoint, faults>>

\* The graph starts from the thread's checkpoint, which the input updates.
Begin(r) ==
    /\ At(r, "check") /\ owner = run[r].user
    /\ LET ch == checkpoint[run[r].user]
       IN  run' = [run EXCEPT ![r].step = "initialize_run", ![r].ch = ch,
                              ![r].final = ch.final, ![r].sent = <<Event("run.started", r)>>]
    /\ UNCHANGED <<owner, checkpoint, faults>>

Initialize(r) ==
    /\ At(r, "initialize_run")
    /\ Saved(r, "validation", Reset(run[r].ch))

\* An error there is leads to the unsupported node, which adds nothing.
Validate(r) ==
    /\ At(r, "validation")
    /\ LET ch == [run[r].ch EXCEPT !.errors = @ \/ ~run[r].valid]
       IN  Saved(r, IF ch.errors THEN "branches" ELSE "routing", ch)

\* A vague message goes to the classifier, if there is one; one that fails or times
\* out routes nowhere.  (The fallbacks for storage lookups are never taken: a
\* message that looks like one has a capability.)
Route(r) ==
    /\ At(r, "routing")
    /\ \E caps \in IF run[r].asked = {} /\ Classifier
                   THEN {{}, Capabilities} \cup {{b} : b \in Capabilities}
                   ELSE {run[r].asked} :
        Saved(r, "extraction", [run[r].ch EXCEPT !.caps = caps, !.intent = IntentOf(caps)])

\* extraction, and _dispatch_capabilities after it.
Extract(r) ==
    /\ At(r, "extraction")
    /\ run' = [run EXCEPT ![r].step = "branches", ![r].left = run[r].ch.caps]
    /\ checkpoint' = [checkpoint EXCEPT ![run[r].user] = run[r].ch]
    /\ UNCHANGED <<owner, faults>>

Working(r, b) == At(r, "branches") /\ b \in run[r].left

\* _bounded: at least one attempt is made.
Attempts(b) == IF Budget[b] > 1 THEN Budget[b] ELSE 1

\* Branch b of run r is done with what its service answered.
Done(r, b, outcome, ans) ==
    /\ run' = [run EXCEPT ![r].ch = Merge(@, r, b, ans), ![r].left = @ \ {b},
                          ![r].calls[b] = @ + 1, ![r].got = @ \cup {<<b, outcome>>}]
    /\ UNCHANGED <<owner, checkpoint, faults>>

Answered(r, b) ==
    /\ Working(r, b)
    /\ \E outcome \in Outcomes[b] \ Exceptions : Done(r, b, outcome, Answer(outcome))

\* Mutation: <= for <.
RetryOneMore(r, b) ==
    /\ Working(r, b)
    /\ "timeout" \in Outcomes[b]
    /\ run[r].calls[b] + 1 <= Attempts(b)
    /\ run' = [run EXCEPT ![r].calls[b] = @ + 1]
    /\ UNCHANGED <<owner, checkpoint, faults>>

Retry(r, b) ==
    /\ Working(r, b)
    /\ "timeout" \in Outcomes[b]
    /\ run[r].calls[b] + 1 < Attempts(b)
    /\ run' = [run EXCEPT ![r].calls[b] = @ + 1]
    /\ UNCHANGED <<owner, checkpoint, faults>>

\* Mutation: a branch that failed returns nothing.
UnavailableUnreported(r, b) ==
    /\ Working(r, b)
    /\ \E e \in Outcomes[b] \cap Caught(b) :
        /\ e = "timeout" => run[r].calls[b] + 1 = Attempts(b)
        /\ Done(r, b, e, Nothing)

\* The node catches the exception and reports its source as unavailable.
Unavailable(r, b) ==
    /\ Working(r, b)
    /\ \E e \in Outcomes[b] \cap Caught(b) :
        /\ e = "timeout" => run[r].calls[b] + 1 = Attempts(b)
        /\ Done(r, b, e, [Nothing EXCEPT !.unavailable = TRUE])

\* Any other exception ends the run, with what the other branches found.
Raised(r, b) ==
    /\ Working(r, b)
    /\ (Outcomes[b] \cap Exceptions) \ Caught(b) # {}
    /\ RunFails(r)
    /\ UNCHANGED <<owner, checkpoint, faults>>

\* Mutation: the fan-in waits for an answer from every branch.
JoinAnswered(r) ==
    /\ At(r, "branches")
    /\ \A b \in run[r].ch.caps : \E g \in run[r].got : g[1] = b /\ g[2] \notin Exceptions
    /\ Saved(r, "evidence_correlation", run[r].ch)

\* Mutation: the fan-in waits for one branch.
JoinFirst(r) ==
    /\ At(r, "branches") /\ (run[r].left = {} \/ run[r].got # {})
    /\ Saved(r, "evidence_correlation", run[r].ch)

Join(r) ==
    /\ At(r, "branches") /\ run[r].left = {}
    /\ Saved(r, "evidence_correlation", run[r].ch)

\* Of citations with one id the later is kept.  Cards and candidates together make
\* the candidate that fits best the summary, whatever it was; without cards a
\* candidate is the summary if there is none.  Scores are not modelled.
Correlate(r) ==
    LET ch == run[r].ch
        cites == {c \in ch.cites : c.by = r \/ \A d \in ch.cites : d.id = c.id => d.by # r}
        candidates == OfKind(ch, "candidate")
        replace == candidates # {} /\ (OfKind(ch, "card") # {} \/ ch.summary = None)
        summaries == IF replace THEN {[cites |-> c.cites, by |-> c.by] : c \in candidates}
                     ELSE {ch.summary}
    IN  /\ At(r, "evidence_correlation")
        /\ \E s \in summaries :
             Saved(r, "grounding_verification", [ch EXCEPT !.cites = cites, !.summary = s])

\* Mutation: candidates are not looked at.
VerifyAllButCandidates(r) ==
    LET ch == run[r].ch
        keep == ch.summary # None /\ Grounds(CiteIds(ch), ch.summary.cites)
        facts == {f \in ch.facts : Verified(ch, f) \/ f.kind = "candidate"}
    IN  /\ At(r, "grounding_verification")
        /\ Saved(r, "compliance_disclaimer",
                 [ch EXCEPT !.facts = facts, !.summary = IF keep THEN @ ELSE None,
                            !.errors = @ \/ facts # ch.facts])

\* Facts without a citation that was found are removed.  The candidates are
\* verified only when the summary stands (they are returned only with it).
Verify(r) ==
    LET ch == run[r].ch
        keep == ch.summary # None /\ Grounds(CiteIds(ch), ch.summary.cites)
        facts == {f \in ch.facts : Verified(ch, f) \/ (f.kind = "candidate" /\ ~keep)}
        removed == \/ ch.summary # None /\ ~keep
                   \/ \E f \in ch.facts \ facts : f.kind # "candidate"
    IN  /\ At(r, "grounding_verification")
        /\ Saved(r, "compliance_disclaimer",
                 [ch EXCEPT !.facts = facts, !.summary = IF keep THEN @ ELSE None,
                            !.errors = @ \/ removed])

\* Mutation: combined research has no disclaimer.
ComplySingle(r) ==
    /\ At(r, "compliance_disclaimer")
    /\ Saved(r, "synthesis",
             [run[r].ch EXCEPT !.disclaimer =
                @ \/ run[r].ch.intent \in {"sql_auction_search", "mcp_public_tools"}])

Comply(r) ==
    /\ At(r, "compliance_disclaimer")
    /\ Saved(r, "synthesis",
             [run[r].ch EXCEPT !.disclaimer =
                run[r].ch.intent \in {"sql_auction_search", "mcp_public_tools", Combined}])

\* By the model or, when it fails, times out or cites nothing known, by rule.  The
\* wording is not modelled.
Synthesize(r) ==
    /\ At(r, "synthesis")
    /\ run' = [run EXCEPT ![r].step = "trace_finalization",
                          ![r].sent = Append(@, Event("answer.delta", r))]
    /\ checkpoint' = [checkpoint EXCEPT ![run[r].user] = run[r].ch]
    /\ UNCHANGED <<owner, faults>>

Status(ch) ==
    LET payload == ch.cites # {} \/ ch.summary # None
                     \/ OfKind(ch, "card") \cup OfKind(ch, "evidence") # {}
    IN  IF ch.unavailable = {} THEN "completed" ELSE IF payload THEN "partial" ELSE "failed"

\* What run r answers: the evidence is in the answer's text, the candidates are
\* in the summary.
Response(r, ch) ==
    [by |-> r, status |-> Status(ch), intent |-> ch.intent, cites |-> ch.cites,
     facts |-> {f \in ch.facts : f.kind = "candidate" => ch.summary # None},
     summary |-> ch.summary, unavailable |-> ch.unavailable, disclaimer |-> ch.disclaimer]

\* The event is sent from inside the node, before its superstep is saved.
Finalize(r) ==
    LET response == Response(r, run[r].ch)
        ch == [run[r].ch EXCEPT !.final = response]
    IN  /\ At(r, "trace_finalization")
        /\ run' = [run EXCEPT ![r].step = "closing", ![r].ch = ch, ![r].final = response,
                              ![r].sent = Append(@, Event("answer.completed", response.by)),
                              ![r].saw = TRUE]
        /\ checkpoint' = [checkpoint EXCEPT ![run[r].user] = ch]
        /\ UNCHANGED <<owner, faults>>

\* Mutation: the last values tick is sent, too.
CloseTwice(r) ==
    /\ At(r, "closing")
    /\ Over(r, "ended", Append(run[r].sent, Event("answer.completed", run[r].final.by)))
    /\ UNCHANGED <<owner, checkpoint, faults>>

\* The response of the last values tick is sent if none was.
Close(r) ==
    /\ At(r, "closing")
    /\ Over(r, "ended",
            IF run[r].saw \/ run[r].final = None THEN run[r].sent
            ELSE Append(run[r].sent, Event("answer.completed", run[r].final.by)))
    /\ UNCHANGED <<owner, checkpoint, faults>>

Disturb == faults < MaxFaults /\ faults' = faults + 1

\* The owner cannot be read, an exception of a model that is not caught, or a
\* checkpoint that cannot be saved (noticed in the background, even at the end).
Fail(r) ==
    /\ Disturb
    /\ run[r].step \in {"claim", "check"} \/ InGraph(r)
    /\ RunFails(r)
    /\ UNCHANGED <<owner, checkpoint>>

\* The client is gone, or the request timed out.
Cancel(r) ==
    /\ Disturb
    /\ run[r].step \in {"claim", "check"} \/ InGraph(r)
    /\ Over(r, "cut", run[r].sent)
    /\ UNCHANGED <<owner, checkpoint>>

Init ==
    /\ owner = NoUser
    /\ checkpoint = [u \in Users |-> Empty]
    /\ run = [r \in Runs |-> Idle]
    /\ faults = 0

BranchStep(r, b) == Answered(r, b) \/ Retry(r, b) \/ Unavailable(r, b) \/ Raised(r, b)

RunStep(r) ==
    \/ ClaimThread(r) \/ Refuse(r) \/ Begin(r) \/ Initialize(r) \/ Validate(r) \/ Route(r)
    \/ Extract(r) \/ Join(r) \/ Correlate(r) \/ Verify(r) \/ Comply(r) \/ Synthesize(r)
    \/ Finalize(r) \/ Close(r)

Next ==
    \E r \in Runs :
        \/ Request(r) \/ RunStep(r) \/ Fail(r) \/ Cancel(r)
        \/ \E b \in Branches : BranchStep(r, b)

Spec == Init /\ [][Next]_vars

\* The event loop runs what is ready, and every call of a service carries a timeout.
FairSpec ==
    /\ Spec
    /\ \A r \in Runs : WF_vars(RunStep(r))
    /\ \A r \in Runs, b \in Branches : WF_vars(BranchStep(r, b))
-----------------------------------------------------------------------------
(***************************************************************************)
(* Properties.  A run that is closing has sent the response in its channel *)
(* "final".                                                                *)
(***************************************************************************)

Answering == {r \in Runs : At(r, "closing")}

\* What a branch returned, for what came of its calls.
Given(g) ==
    IF g[2] \in Exceptions THEN [Nothing EXCEPT !.unavailable = TRUE] ELSE Answer(g[2])

\* An answer's summary has its citations.
Backed(ans) == ans.summary # None /\ ans.summary \subseteq ans.cites

\* The facts that a branch found and vouched for with its own citations.
Vouched(g) ==
    LET ans == Given(g)
    IN  {f \in ans.facts : Grounds(ans.cites, f.cites) /\ (f.kind = "candidate" => Backed(ans))}

\* The type of every variable.
ChatTypeOK ==
    /\ owner \in Users \cup {NoUser}
    /\ checkpoint \in [Users -> Channels]
    /\ run \in [Runs -> RunRecord]
    /\ \A r \in Runs :
        /\ run[r].left \subseteq run[r].ch.caps
        /\ \A b \in Branches : run[r].calls[b] <= Attempts(b)
    /\ faults \in 0..MaxFaults

\* Every fact of a response names citations that the response lists (evidence may
\* name none if there is any), although branches run in parallel, some of them
\* fail, and correlation may replace the summary (_correlate, _verify).
Grounded ==
    \A r \in Answering :
        LET response == run[r].ch.final
            ids == {c.id : c \in response.cites}
        IN  /\ \A f \in response.facts :
                 f.cites \subseteq ids /\ (f.cites # {} \/ (f.kind = "evidence" /\ ids # {}))
            /\ response.summary # None => Grounds(ids, response.summary.cites)

\* A response holds nothing of another run, although it starts from the checkpoint
\* of whatever run of the thread saved last: one that ended, that failed or was cut
\* off half way, or that is still under way (_initialize_run).
OwnRunOnly ==
    \A r \in Answering :
        LET response == run[r].ch.final
        IN  /\ response.by = r
            /\ \A x \in response.facts \cup response.cites \cup response.unavailable : x.by = r
            /\ response.summary # None => response.summary.by = r

\* A request that asks for capabilities calls exactly their services, each a bounded
\* number of times, and is not turned away; an invalid one reaches no service,
\* whatever happened in the thread before (_after_validation, _dispatch_capabilities,
\* _bounded).
RoutedAsAsked ==
    \A r \in Runs :
        /\ \A b \in Branches : run[r].calls[b] <= Attempts(b)
        /\ InGraph(r) /\ ~run[r].valid => \A b \in Branches : run[r].calls[b] = 0
        /\ At(r, "closing") /\ run[r].asked # {} =>
             /\ {b \in Branches : run[r].calls[b] > 0} = run[r].asked
             /\ run[r].ch.final.intent # Unsupported

\* What a branch found and vouched for with its own citations is in the response,
\* whatever the other branches returned and however many of them failed
\* (merge_lists, _correlate, _verify).
NothingVerifiedLost ==
    \A r \in Answering : \A g \in run[r].got :
        /\ \A f \in Vouched(g) :
             [kind |-> f.kind, cites |-> f.cites, by |-> r] \in run[r].ch.final.facts
        /\ Backed(Given(g)) => run[r].ch.final.summary # None

\* The status says what happened: "completed" only if no source failed, each failed
\* source reported, and "failed" only if there is nothing to answer with (_finalize).
HonestStatus ==
    \A r \in Answering :
        LET response == run[r].ch.final
            failed == {g[1] : g \in {x \in run[r].got : Given(x).unavailable}}
        IN  /\ {x.source : x \in response.unavailable} = failed
            /\ response.status = "completed" <=> failed = {}
            /\ response.status = "failed" =>
                 /\ response.facts = {} /\ response.cites = {} /\ response.summary = None

\* "Auction and public-record answers always state that official records control":
\* there is a disclaimer whenever there are cards or a property, though the
\* disclaimer depends on the intent and the facts on the branches (_compliance).
Disclaimed ==
    \A r \in Answering :
        LET response == run[r].ch.final
        IN  (response.summary # None \/ \E f \in response.facts : f.kind = "card")
              => response.disclaimer

\* A stream that is not cut off ends with an answer or a failure; it has at most one
\* answer, of its own run, and a failure comes last.  (An answer can be followed by a
\* failure: that of saving the last checkpoint.)
StreamWellFormed ==
    \A r \in Runs :
        LET sent == run[r].sent
            answers == {i \in DOMAIN sent : sent[i].event = "answer.completed"}
        IN  /\ Cardinality(answers) <= 1
            /\ \A i \in answers : sent[i].by = r
            /\ \A i \in DOMAIN sent : sent[i].event = "run.failed" => i = Len(sent)
            /\ At(r, "ended") =>
                 sent # <<>> /\ sent[Len(sent)].event \in {"answer.completed", "run.failed"}

\* All runs of a thread that got as far as the graph belong to one user, the first
\* to claim it, even when requests of two users race (ensure_owner).
ThreadHasOneUser ==
    \A r \in Runs : InGraph(r) \/ Has(r, "run.started") => run[r].user = owner

\* A run as ChatTurn sees it: where it is, by its steps; what its branches returned;
\* and what it sent.  (Whose a fact is matters to OwnRunOnly.)
PhaseOf(step) ==
    CASE step = "new" -> "new"
      [] step \in {"claim", "check"} -> "asked"
      [] step = "trace_finalization" -> "telling"
      [] step = "closing" -> "answered"
      [] step \in {"ended", "cut"} -> "over"
      [] OTHER -> "looking"

AnswerGiven(x) ==
    IF x.step = "closing"
    THEN [facts |-> {Fact(f.kind, f.cites) : f \in x.ch.final.facts},
          unavailable |-> {m.source : m \in x.ch.final.unavailable},
          status |-> x.ch.final.status]
    ELSE None

\* All that branches may return.
Returns == {g \in Results : g[2] \in Outcomes[g[1]]}
ReturnsFailed == {g \in Returns : Given(g).unavailable}
ReturnsFound == [g \in Returns |-> Given(g).facts]
ReturnsVouched == [g \in Returns |-> Vouched(g)]

Turn ==
    INSTANCE ChatTurn
        WITH Turns <- Runs, Sources <- Branches, Looks <- Returns,
             Failed <- ReturnsFailed, Found <- ReturnsFound, Proven <- ReturnsVouched,
             phase <- [r \in Runs |-> PhaseOf(run[r].step)],
             user <- [r \in Runs |-> run[r].user],
             valid <- [r \in Runs |-> run[r].valid],
             asked <- [r \in Runs |-> run[r].asked],
             looked <- [r \in Runs |-> run[r].got],
             answer <- [r \in Runs |-> AnswerGiven(run[r])],
             sent <- [r \in Runs |-> run[r].sent]

\* The runs of a thread implement ChatTurn: whatever runs share the thread, fail or are
\* cut off, and in whatever order branches answer, every source that was asked for is
\* heard, once, before the text is written, the one answer is true to what they said,
\* and the thread never changes hands.
ImplementsTurn == Turn!Spec

\* Every requested run ends.
RunsEnd == \A r \in Runs : ~At(r, "new") ~> run[r].step \in {"ended", "cut"}

\* docs/DEPLOYMENT.md: "Missing schedules or MCP timeouts surface as unavailable_sources": a
\* public source that times out does not fail the run.
TimeoutsReported ==
    [][\A r \in Runs : Working(r, "mcp_public_tools") => ~RunFails(r)]_vars
=============================================================================
