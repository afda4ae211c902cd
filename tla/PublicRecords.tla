---------------------------- MODULE PublicRecords ----------------------------
(***************************************************************************)
(* Look-ups of public records: the operations of PublicRecordsService      *)
(* (public_records/service.py) over ApprovedHttp, called by the tools of   *)
(* public_records/mcp.py and, under wait_for and with retries, by          *)
(* public_search of graph/adapters.py in the chat's branch for public      *)
(* records (graph/workflow.py, _public and _bounded).                      *)
(*                                                                         *)
(* A task makes one look-up after the other.  How a page reads is left     *)
(* open: parsing is not modelled.  The outcomes of a chat look-up are the  *)
(* answers of public_search that ChatRun starts from.                      *)
(***************************************************************************)
EXTENDS ApprovedHttp

CONSTANTS
    Uses,            \* Uses[l]: what a task makes look-ups for
    Home,            \* Home[op]: the address an operation reads
    Reads,           \* Reads[op]: what an operation may find on a page
    Budget,          \* retry_budget of the tools
    Patience         \* node_timeout_seconds, in ticks

Operations == {"discover_trustee_sale_sources", "search_property", "get_property_details",
               "search_foreclosure_records", "get_foreclosure_notice"}

\* A question about the county's schedule and one about an address.
ChatUses == {"schedule", "address"}

\* "bad link": an address on the page that HttpUrl does not accept.
Readings == {"none", "some", "several", "layout changed", "bad link"}

ASSUME RecordsAssumption ==
    /\ Uses \in [Calls -> SUBSET (ChatUses \cup Operations)]
    /\ None \notin ChatUses \cup Operations
    /\ Home \in [Operations -> Urls]
    /\ Reads \in [Operations -> SUBSET Readings]
    /\ Budget \in Nat \ {0}
    /\ Patience \in Nat \ {0}

VARIABLES
    lookup  \* the look-up of each task

vars == <<cache, get, lookup>>

\* The results of public_search, in the words of ChatRun, and those of a tool.
Outcomes == {"nothing", "schedule", "missing schedule", "property", "properties",
             "no details", "tool error", "timeout", "body timeout", "raised",
             "result", "left"}

\* tries: attempts of _bounded.  elapsed: ticks since the attempt began.  Tools have
\* neither.
Lookup == [use : ChatUses \cup Operations \cup {None}, op : Operations \cup {None},
           tries : Nat, elapsed : Nat, outcome : Outcomes \cup {None}]

NoLookup == [use |-> None, op |-> None, tries |-> 0, elapsed |-> 0, outcome |-> None]

Done(outcome) == [NoLookup EXCEPT !.outcome = outcome]

Init ==
    /\ HttpInit
    /\ lookup = [l \in Calls |-> NoLookup]

Running(l) == lookup[l].use # None

InChat(l) == lookup[l].use \in ChatUses

FirstOperation(use) ==
    CASE use = "schedule" -> "discover_trustee_sale_sources"
      [] use = "address" -> "search_property"
      [] OTHER -> use

-----------------------------------------------------------------------------
\* The look-up is over: the task has a result or an exception, and its call is gone.
End(l, outcome) ==
    /\ lookup' = [lookup EXCEPT ![l] = Done(outcome)]
    /\ get' = [get EXCEPT ![l] = Idle]
    /\ UNCHANGED cache

\* What a page comes to in the chat, or as a tool's result.
Result(l, outcome) == IF InChat(l) THEN outcome ELSE "result"

\* What a PublicRecordToolError comes to: details may be missing beside the property.
Error(l) ==
    IF InChat(l) /\ lookup[l].op = "get_property_details" THEN "no details" ELSE "tool error"

\* An attempt begins: the operation runs up to its first await.
Attempt(l, use, tries) ==
    /\ lookup' = [lookup EXCEPT ![l] = [NoLookup EXCEPT
                    !.use = use, !.op = FirstOperation(use), !.tries = tries]]
    /\ Get(l, Home[FirstOperation(use)])

Begin(l) ==
    /\ ~Running(l)
    /\ \E use \in Uses[l] : Attempt(l, use, 1)

\* Nothing is asked for: the question names no address, or an argument (also a blank
\* address) is invalid.  The calendar has no argument that is checked.
Decline(l) ==
    /\ ~Running(l)
    /\ \E use \in Uses[l] \ {"schedule", "discover_trustee_sale_sources"} :
         \/ use = "address" /\ lookup' = [lookup EXCEPT ![l] = Done("nothing")]
         \/ lookup' = [lookup EXCEPT ![l] = Done("tool error")]
    /\ UNCHANGED <<cache, get>>

-----------------------------------------------------------------------------
\* What an operation makes of the page it asked for.

HasPage(l, op) == lookup[l].op = op /\ get[l].at = "returned"

\* The calendar.  That nothing on it matches is a result when a period was asked for,
\* and otherwise taken for a change of its layout.
Discover(l) ==
    /\ HasPage(l, "discover_trustee_sale_sources")
    /\ \/ "bad link" \in Reads["discover_trustee_sale_sources"] /\ End(l, "raised")
       \/ "some" \in Reads["discover_trustee_sale_sources"] /\ End(l, Result(l, "schedule"))
       \/ /\ "none" \in Reads["discover_trustee_sale_sources"]
          /\ End(l, Result(l, "missing schedule")) \/ End(l, "tool error")

\* What the chat makes of the properties at an address.  One is looked up at once,
\* several are put to the user.  An id that the details do not accept counts as failed
\* details.
SelectProperty(l) ==
    \/ "none" \in Reads["search_property"] /\ End(l, "nothing")
    \/ "several" \in Reads["search_property"] /\ End(l, "properties")
    \/ /\ "some" \in Reads["search_property"]
       /\ \/ End(l, "no details")
          \/ /\ lookup' = [lookup EXCEPT ![l].op = "get_property_details"]
             /\ Get(l, Home["get_property_details"])

\* The search for an address.
SearchProperty(l) ==
    /\ HasPage(l, "search_property")
    /\ \/ "bad link" \in Reads["search_property"] /\ End(l, "raised")
       \/ "layout changed" \in Reads["search_property"] /\ End(l, "tool error")
       \/ InChat(l) /\ SelectProperty(l)
       \/ ~InChat(l) /\ End(l, "result")

GetPropertyDetails(l) ==
    /\ HasPage(l, "get_property_details")
    /\ \/ "bad link" \in Reads["get_property_details"] /\ End(l, "raised")
       \/ "some" \in Reads["get_property_details"] /\ End(l, Result(l, "property"))
       \/ "layout changed" \in Reads["get_property_details"] /\ End(l, Error(l))

\* Only tools: the county's search and its notices.
ReadRecords(l) ==
    \E op \in {"search_foreclosure_records", "get_foreclosure_notice"} :
        /\ HasPage(l, op)
        /\ \/ "bad link" \in Reads[op] /\ End(l, "raised")
           \/ "layout changed" \in Reads[op] /\ End(l, "tool error")
           \/ {"none", "some"} \cap Reads[op] # {} /\ End(l, "result")

-----------------------------------------------------------------------------
\* A PublicRecordToolError is an unavailable source of the chat, or the error of a tool.
ToolFails(l) ==
    /\ Running(l)
    /\ get[l].at = "failed"
    /\ get[l].error \in ToolErrors
    /\ End(l, Error(l))

\* Any other exception of get is nobody's: neither the adapter nor _public catches it.
Escapes(l) ==
    /\ Running(l)
    /\ get[l].at = "failed"
    /\ get[l].error \in Escaped
    /\ End(l, get[l].error)

\* Mutation: the attempts are not counted.
TimeOutForever(l) ==
    /\ InChat(l)
    /\ lookup[l].elapsed = Patience
    /\ Attempt(l, lookup[l].use, lookup[l].tries)

\* Mutation: the last attempt is shielded from its cancellation.
TimeOutShielded(l) ==
    /\ InChat(l)
    /\ lookup[l].elapsed = Patience
    /\ IF lookup[l].tries < Budget
         THEN Attempt(l, lookup[l].use, lookup[l].tries + 1)
         ELSE /\ lookup' = [lookup EXCEPT ![l] = Done("timeout")]
              /\ UNCHANGED <<cache, get>>

\* wait_for cancels the attempt, and _bounded makes another while the budget lasts.
TimeOut(l) ==
    /\ InChat(l)
    /\ lookup[l].elapsed = Patience
    /\ IF lookup[l].tries < Budget
         THEN Attempt(l, lookup[l].use, lookup[l].tries + 1)
         ELSE End(l, "timeout")

\* The client leaves, or its request times out, and the task is cancelled.  A tool, which
\* the MCP server may run in a task of its own, may also go on.
Leave(l) ==
    /\ Running(l)
    /\ End(l, "left")

-----------------------------------------------------------------------------
\* A step of the call of get.
Fetch(l) == HttpStep(l) /\ UNCHANGED lookup

\* The code between two awaits takes no time, and the timers of wait_for and of a read
\* are not late.
Prompt(l) ==
    /\ get[l].at \notin {"returned", "failed"}
    /\ get[l].at = "reading" => get[l].waited < Timeout
    /\ InChat(l) => lookup[l].elapsed < Patience

Tick ==
    /\ \A l \in Calls : Prompt(l)
    /\ HttpTick
    /\ lookup' = [l \in Calls |->
                    IF InChat(l) THEN [lookup[l] EXCEPT !.elapsed = @ + 1] ELSE lookup[l]]

\* What a task does with its call of get, when that is over.
Continue(l) ==
    \/ Discover(l)
    \/ SearchProperty(l)
    \/ GetPropertyDetails(l)
    \/ ReadRecords(l)
    \/ ToolFails(l)
    \/ Escapes(l)

Next ==
    \/ Tick
    \/ \E l \in Calls :
         \/ Begin(l)
         \/ Decline(l)
         \/ Fetch(l)
         \/ Continue(l)
         \/ TimeOut(l)
         \/ Leave(l)

Spec == Init /\ [][Next]_vars

\* What a task waits for that comes whatever the source does: the resolver's answer, a
\* timer, or its own next step.
Due(l) ==
    \/ Continue(l)
    \/ TimeOut(l)
    \/ /\ Forbid(l) \/ NotResolved(l) \/ Resolve(l) \/ SendTimeout(l) \/ ReadTimeout(l)
       /\ UNCHANGED lookup

\* Time passes, whatever other tasks do in no time; nothing is assumed of the sources.
FairSpec ==
    /\ Spec
    /\ SF_vars(Tick)
    /\ \A l \in Calls : WF_vars(Due(l))

-----------------------------------------------------------------------------
(***************************************************************************)
(* Properties.                                                             *)
(***************************************************************************)

\* The type of every variable; a task that makes no look-up has no call of get left.
RecordsTypeOK ==
    /\ HttpTypeOK
    /\ lookup \in [Calls -> Lookup]
    /\ \A l \in Calls : ~Running(l) => get[l] = Idle

\* What get returns, from the cache or not, is a whole body that fits the limit, and the
\* source sent its head less than the cache's time ago plus the time its body may take:
\* expires_at counts from the end of the body, and the slowest caller fills the cache for
\* all.  So "retrieved_at", stamped when the result is made, is off by less than that.
AnswersFresh ==
    \A l \in Calls : get[l].at = "returned" =>
        /\ get[l].body = Size[get[l].page]
        /\ get[l].body <= SizeLimit
        /\ get[l].age < CacheTTL + Timeout * (SizeLimit + 1)

\* However sources answer, redirect or fail to answer, one call of get sends no more than
\* max_attempts requests per address and follows no more than max_redirects redirects
\* ("Requests have bounded timeouts, retries, redirects", README.md:143).
RequestsBounded ==
    \A l \in Calls : get[l].sent <= Attempts * (MaxRedirects + 1)

\* Every look-up ends, whatever the sources do: also a tool's, which has no time limit of
\* its own, and of a source that redirects in circles or sends its body for ever.
LookupsEnd == \A l \in Calls : Running(l) ~> ~Running(l)
=============================================================================
