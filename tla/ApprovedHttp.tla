---------------------------- MODULE ApprovedHttp ----------------------------
(***************************************************************************)
(* ApprovedHttpClient.get of public_records/http.py: one client, its       *)
(* cache, and calls of get that run side by side on one event loop.  A     *)
(* call looks the address up in the cache and, when there is nothing       *)
(* fresh, validates the address, requests it, follows redirects            *)
(* (validating each), and reads the body up to a limit.                    *)
(*                                                                         *)
(*   idle -> resolving -> sending -> reading -> returned                   *)
(*              ^____________|                                             *)
(*   and from each of them, after an error, to failed                      *)
(*                                                                         *)
(* Sources may serve something else at any moment.  A step is what happens *)
(* between two awaits.  The module has the steps of a call and of time;    *)
(* PublicRecords, which calls get, composes them.                          *)
(***************************************************************************)
EXTENDS Integers, FiniteSets

CONSTANTS
    Calls,         \* tasks that may call get, one call at a time
    Urls,          \* addresses
    Approved,      \* those with the scheme, host and port _validate accepts
    NoUrl,         \* a redirect without a location
    Pages,         \* bodies of answers that are neither errors nor redirects
    Size,          \* Size[p]: length of a body, in chunks
    Serves,        \* Serves[u]: what the source may answer at u
    Attempts,      \* public_http_max_attempts
    MaxRedirects,  \* max_redirects
    SizeLimit,     \* public_http_max_response_bytes, in chunks
    Timeout,       \* public_http_timeout_seconds, in ticks
    CacheTTL,      \* public_http_cache_ttl_seconds, in ticks
    None           \* no page, no address, no error, no entry

Responses ==
    [status : {"ok"}, page : Pages]
        \cup [status : {"redirect"}, location : Urls \cup {NoUrl}]
        \cup [status : {"client error", "server error"}]

ASSUME HttpAssumption ==
    /\ Approved \subseteq Urls
    /\ NoUrl \notin Urls
    /\ None \notin Urls
    /\ None \notin Pages
    /\ Size \in [Pages -> Nat]
    /\ Serves \in [Urls -> SUBSET Responses]
    /\ Attempts \in Nat \ {0}
    /\ MaxRedirects \in Nat
    /\ SizeLimit \in Nat \ {0}
    /\ Timeout \in Nat \ {0}
    /\ CacheTTL \in Nat \ {0}

\* The categories of PublicRecordToolError that get raises, and the exceptions that it
\* does not translate: a timeout while the body is read, and everything else of httpx
\* (a refused connection, a malformed body), of int() (a malformed length) or of _validate
\* (the port of a malformed redirect).
ToolErrors == {"forbidden_destination", "upstream_unavailable", "timeout",
               "response_too_large"}

Escaped == {"body timeout", "raised"}

VARIABLES
    cache,  \* _cache: the entry of each address
    get     \* the call of get of each task

httpVars == <<cache, get>>

\* age: ticks since the source served the page.  It is history, which the code does not
\* have; ttl is what is left until expires_at.
Entry == [page : Pages, body : Nat, age : Nat, ttl : 1..CacheTTL]

\* waited: ticks since the request was sent or the last chunk came.  A request may take
\* longer than the timeout, which is for each of its phases: from there on waited stays.
\* sent: history, the requests sent.
Call ==
    [at : {"idle", "resolving", "sending", "reading", "returned", "failed"},
     url : Urls \cup {None}, current : Urls \cup {None},
     redirects : Nat, attempt : Nat, sent : Nat, waited : 0..Timeout,
     page : Pages \cup {None}, body : Nat, age : Nat,
     error : ToolErrors \cup Escaped \cup {None}]

Idle == [at |-> "idle", url |-> None, current |-> None, redirects |-> 0, attempt |-> 0,
         sent |-> 0, waited |-> 0, page |-> None, body |-> 0, age |-> 0, error |-> None]

HttpInit ==
    /\ cache = [u \in Urls |-> None]
    /\ get = [c \in Calls |-> Idle]

Cached(u) == cache[u] # None

InFlight(c) == get[c].at \in {"resolving", "sending", "reading"}

-----------------------------------------------------------------------------
\* A call as it is when it has returned a page, or raised.

Returned(page, body, age) ==
    [Idle EXCEPT !.at = "returned", !.page = page, !.body = body, !.age = age]

Failed(error) == [Idle EXCEPT !.at = "failed", !.error = error]

Fail(c, error) ==
    /\ get' = [get EXCEPT ![c] = Failed(error)]
    /\ UNCHANGED cache

-----------------------------------------------------------------------------
\* Mutation: a hit renews the entry.
GetCachedRenewing(c, u) ==
    /\ Cached(u)
    /\ get' = [get EXCEPT ![c] = Returned(cache[u].page, cache[u].body, cache[u].age)]
    /\ cache' = [cache EXCEPT ![u].ttl = CacheTTL]

\* A call of get, up to its first await: a page from the cache, or nothing fresh.
GetCached(c, u) ==
    /\ Cached(u)
    /\ get' = [get EXCEPT ![c] = Returned(cache[u].page, cache[u].body, cache[u].age)]
    /\ UNCHANGED cache

GetFresh(c, u) ==
    /\ ~Cached(u)
    /\ get' = [get EXCEPT ![c] =
                 [Idle EXCEPT !.at = "resolving", !.url = u, !.current = u]]
    /\ UNCHANGED cache

Get(c, u) == GetCached(c, u) \/ GetFresh(c, u)

\* _validate: the address is not approved, or its host does not resolve, or resolves to
\* a private address, or all is well and the first request goes out.
Forbid(c) ==
    /\ get[c].at = "resolving"
    /\ Fail(c, "forbidden_destination")

NotResolved(c) ==
    /\ get[c].at = "resolving"
    /\ get[c].current \in Approved
    /\ Fail(c, "upstream_unavailable")

Resolve(c) ==
    /\ get[c].at = "resolving"
    /\ get[c].current \in Approved
    /\ get' = [get EXCEPT ![c].at = "sending", ![c].attempt = 1,
                          ![c].sent = @ + 1, ![c].waited = 0]
    /\ UNCHANGED cache

\* The request is sent again.  The pause before it is far shorter than a tick.
Resend(c) ==
    /\ get' = [get EXCEPT ![c].attempt = @ + 1, ![c].sent = @ + 1, ![c].waited = 0]
    /\ UNCHANGED cache

\* No answer in time.
SendTimeout(c) ==
    /\ get[c].at = "sending"
    /\ get[c].waited = Timeout
    /\ IF get[c].attempt = Attempts THEN Fail(c, "timeout") ELSE Resend(c)

ServerError(c) ==
    /\ get[c].at = "sending"
    /\ \E r \in Serves[get[c].current] : r.status = "server error"
    /\ IF get[c].attempt = Attempts THEN Fail(c, "upstream_unavailable") ELSE Resend(c)

ClientError(c) ==
    /\ get[c].at = "sending"
    /\ \E r \in Serves[get[c].current] : r.status = "client error"
    /\ Fail(c, "upstream_unavailable")

\* Mutation: redirects are followed as long as there are any.
RedirectUncounted(c) ==
    /\ get[c].at = "sending"
    /\ \E r \in Serves[get[c].current] :
         /\ r.status = "redirect"
         /\ IF r.location = NoUrl
              THEN Fail(c, "upstream_unavailable")
              ELSE /\ get' = [get EXCEPT ![c].at = "resolving", ![c].current = r.location,
                                         ![c].attempt = 0, ![c].waited = 0]
                   /\ UNCHANGED cache

\* A redirect is followed, unless it leads nowhere or is one too many.
Redirect(c) ==
    /\ get[c].at = "sending"
    /\ \E r \in Serves[get[c].current] :
         /\ r.status = "redirect"
         /\ IF r.location = NoUrl \/ get[c].redirects = MaxRedirects
              THEN Fail(c, "upstream_unavailable")
              ELSE /\ get' = [get EXCEPT ![c].at = "resolving", ![c].current = r.location,
                                         ![c].redirects = @ + 1, ![c].attempt = 0,
                                         ![c].waited = 0]
                   /\ UNCHANGED cache

\* The head of a successful answer.  Its declared length, if any, may be too much.
Respond(c) ==
    /\ get[c].at = "sending"
    /\ \E r \in Serves[get[c].current] :
         /\ r.status = "ok"
         /\ get' = [get EXCEPT ![c].at = "reading", ![c].page = r.page, ![c].waited = 0]
         /\ UNCHANGED cache

DeclaredTooLarge(c) ==
    /\ get[c].at = "sending"
    /\ \E r \in Serves[get[c].current] : r.status = "ok" /\ Size[r.page] > SizeLimit
    /\ Fail(c, "response_too_large")

\* One more chunk of the body.
ReadChunk(c) ==
    /\ get[c].at = "reading"
    /\ get[c].body < Size[get[c].page]
    /\ IF get[c].body + 1 > SizeLimit
         THEN Fail(c, "response_too_large")
         ELSE /\ get' = [get EXCEPT ![c].body = @ + 1, ![c].waited = 0]
              /\ UNCHANGED cache

\* The body has been read.  It is cached under the address that was asked for, and for
\* the time from now on.
EndOfBody(c) ==
    /\ get[c].at = "reading"
    /\ get[c].body = Size[get[c].page]
    /\ cache' = [cache EXCEPT ![get[c].url] =
                   [page |-> get[c].page, body |-> get[c].body, age |-> get[c].age,
                    ttl |-> CacheTTL]]
    /\ get' = [get EXCEPT ![c] = Returned(get[c].page, get[c].body, get[c].age)]

\* What get does not translate.
ReadTimeout(c) ==
    /\ get[c].at = "reading"
    /\ get[c].waited = Timeout
    /\ Fail(c, "body timeout")

Break(c) ==
    /\ InFlight(c)
    /\ Fail(c, "raised")

HttpStep(c) ==
    \/ Forbid(c)
    \/ NotResolved(c)
    \/ Resolve(c)
    \/ SendTimeout(c)
    \/ ServerError(c)
    \/ ClientError(c)
    \/ Redirect(c)
    \/ Respond(c)
    \/ DeclaredTooLarge(c)
    \/ ReadChunk(c)
    \/ EndOfBody(c)
    \/ ReadTimeout(c)
    \/ Break(c)

-----------------------------------------------------------------------------
\* One tick.  An entry that has expired is never read again: it is as good as none,
\* although the code keeps it until the address is fetched again.

OlderEntry(e) ==
    IF e = None \/ e.ttl = 1 THEN None ELSE [e EXCEPT !.age = @ + 1, !.ttl = @ - 1]

Waited(n) == IF n < Timeout THEN n + 1 ELSE n

OlderCall(g) ==
    CASE g.at = "sending" -> [g EXCEPT !.waited = Waited(@)]
      [] g.at = "reading" -> [g EXCEPT !.waited = Waited(@), !.age = @ + 1]
      [] OTHER -> g

HttpTick ==
    /\ cache' = [u \in Urls |-> OlderEntry(cache[u])]
    /\ get' = [c \in Calls |-> OlderCall(get[c])]

-----------------------------------------------------------------------------
\* The type of the cache and of the calls.
HttpTypeOK ==
    /\ cache \in [Urls -> Entry \cup {None}]
    /\ get \in [Calls -> Call]
=============================================================================
