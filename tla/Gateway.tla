------------------------------ MODULE Gateway ------------------------------
(***************************************************************************)
(* Requests on their way to an endpoint: the middleware of middleware.py   *)
(* in the order install_security_middleware stacks it, and the token       *)
(* validation of auth.py with its key cache.                               *)
(*                                                                         *)
(*   Timeout( Concurrency( RateLimit( ... validate, endpoint )))           *)
(*                                                                         *)
(* The requests run on one event loop, so a step is what happens between   *)
(* two awaits, and the state they share is protected by two asyncio locks  *)
(* (first come first served).  The rate limiter's lock is held while a     *)
(* refusal is sent, which takes as long as the client takes to read it;    *)
(* the key cache's lock is held while the provider's keys are fetched.     *)
(***************************************************************************)
EXTENDS Integers, Sequences, FiniteSets, SequencesExt

CONSTANTS
    MaxRequests,     \* bound: requests, numbered in the order they arrive
    Clients,         \* client addresses
    Keys,            \* key ids
    Limit,           \* rate_limit_requests
    Window,          \* rate_limit_window_seconds, in ticks
    Slots,           \* concurrency_limit
    RequestTimeout,  \* request_timeout_seconds, in ticks
    CacheTTL,        \* jwks_cache_ttl_seconds, in ticks
    LastArrival,     \* bound: requests arrive up to this time
    MaxRotations     \* bound: how often the provider changes its keys

ASSUME GatewayAssumption ==
    /\ MaxRequests \in Nat
    /\ Limit \in Nat \ {0}
    /\ Window \in Nat \ {0}
    /\ Slots \in Nat \ {0}
    /\ RequestTimeout \in Nat \ {0}
    /\ CacheTTL \in Nat \ {0}
    /\ LastArrival \in Nat
    /\ MaxRotations \in Nat

Requests == 1..MaxRequests

VARIABLES
    now,       \* time.monotonic()
    request,   \* the requests
    slots,     \* the semaphore: slots taken
    entries,   \* the limiter's deque of each client
    limiter,   \* the queue for the limiter's lock; its head has the lock
    provider,  \* the keys the identity provider publishes
    cache,     \* the key cache: keys and when they expire
    fetchers,  \* the queue for the cache's lock; its head has the lock
    seen,      \* history: when each key was published last
    rotations  \* how often the provider changed its keys

vars == <<now, request, slots, entries, limiter, provider, cache, fetchers, seen, rotations>>

\* limiter: waits for the limiter's lock, or has just got it.  refusing: has it, and
\* sends a 429.  auth: its token is next.  keys: waits for the cache's lock, or has
\* just got it.  fetching: has it, and waits for the provider.  handling: in the
\* endpoint.
Steps == {"new", "limiter", "refusing", "auth", "keys", "fetching", "handling", "done"}

Statuses == {0, 200, 401, 429, 500, 503, 504}

Request == [step : Steps, client : Clients \cup {""}, kid : Keys \cup {""},
            began : 0..LastArrival, admitted : BOOLEAN, force : BOOLEAN,
            fetched : SUBSET Keys, status : Statuses,
            steady : SUBSET Keys, lag : Nat]

New == [step |-> "new", client |-> "", kid |-> "", began |-> 0, admitted |-> FALSE,
        force |-> FALSE, fetched |-> {}, status |-> 0, steady |-> {}, lag |-> 0]

At(r, step) == request[r].step = step

Inside(r) == ~At(r, "new") /\ ~At(r, "done")

\* Request r has the lock that queue waits for.
Has(queue, r) == queue # <<>> /\ Head(queue) = r

Without(queue, r) ==
    LET places == {i \in DOMAIN queue : queue[i] = r}
    IN  IF places = {} THEN queue ELSE RemoveAt(queue, Min(places))

\* Request r is answered; it gives back its slot and whatever lock it has or
\* waits for (async with).  What the properties do not ask for is forgotten.
Leave(r, status) ==
    /\ request' = [request EXCEPT ![r] =
         [New EXCEPT !.step = "done", !.status = status,
                     !.client = request[r].client, !.began = request[r].began,
                     !.admitted = request[r].admitted,
                     !.kid = IF status = 401 THEN request[r].kid ELSE "",
                     !.steady = IF status = 401 THEN request[r].steady ELSE {}]]
    /\ slots' = slots - 1
    /\ limiter' = Without(limiter, r)
    /\ fetchers' = Without(fetchers, r)

(***************************************************************************)
(* ConcurrencyLimitMiddleware and RateLimitMiddleware.                     *)
(***************************************************************************)

\* Mutation: one request too many is let in.
ArriveUncounted(r) ==
    /\ At(r, "new") /\ now <= LastArrival
    /\ \A earlier \in 1..(r - 1) : ~At(earlier, "new")
    /\ \E c \in Clients :
        LET arrived == [New EXCEPT !.client = c, !.began = now, !.steady = provider]
        IN  IF slots > Slots
            THEN /\ request' = [request EXCEPT ![r] =
                                  [New EXCEPT !.step = "done", !.status = 503]]
                 /\ UNCHANGED <<slots, limiter>>
            ELSE /\ request' = [request EXCEPT ![r] = [arrived EXCEPT !.step = "limiter"]]
                 /\ slots' = slots + 1
                 /\ limiter' = Append(limiter, r)
    /\ UNCHANGED <<now, entries, provider, cache, fetchers, seen, rotations>>

\* The semaphore is free, or the request is refused at once.  The limiter reads
\* the clock before it waits for its lock.
Arrive(r) ==
    /\ At(r, "new") /\ now <= LastArrival
    /\ \A earlier \in 1..(r - 1) : ~At(earlier, "new")
    /\ \E c \in Clients :
        LET arrived == [New EXCEPT !.client = c, !.began = now, !.steady = provider]
        IN  IF slots >= Slots
            THEN /\ request' = [request EXCEPT ![r] =
                                  [New EXCEPT !.step = "done", !.status = 503]]
                 /\ UNCHANGED <<slots, limiter>>
            ELSE /\ request' = [request EXCEPT ![r] = [arrived EXCEPT !.step = "limiter"]]
                 /\ slots' = slots + 1
                 /\ limiter' = Append(limiter, r)
    /\ UNCHANGED <<now, entries, provider, cache, fetchers, seen, rotations>>

\* Mutation: < for <=.
PoppedTooFew(queue, time) ==
    LET kept == {i \in DOMAIN queue : queue[i] >= time - Window}
    IN  IF kept = {} THEN <<>> ELSE SubSeq(queue, Min(kept), Len(queue))

\* Entries are taken off the left end while they are older than the window.
Popped(queue, time) ==
    LET kept == {i \in DOMAIN queue : queue[i] > time - Window}
    IN  IF kept = {} THEN <<>> ELSE SubSeq(queue, Min(kept), Len(queue))

\* The limiter's lock is had: the request is counted and passes, or is refused
\* with the lock kept.
Count(r) ==
    LET c == request[r].client
        recent == Popped(entries[c], request[r].began)
    IN  /\ At(r, "limiter") /\ Has(limiter, r)
        /\ IF Len(recent) >= Limit
           THEN /\ request' = [request EXCEPT ![r].step = "refusing"]
                /\ entries' = [entries EXCEPT ![c] = recent]
                /\ UNCHANGED limiter
           ELSE /\ request' = [request EXCEPT ![r].step = "auth", ![r].admitted = TRUE]
                /\ entries' = [entries EXCEPT ![c] = Append(recent, request[r].began)]
                /\ limiter' = Tail(limiter)
        /\ UNCHANGED <<now, slots, provider, cache, fetchers, seen, rotations>>

\* The client has read the refusal.
Refused(r) ==
    /\ At(r, "refusing")
    /\ Leave(r, 429)
    /\ UNCHANGED <<now, entries, provider, cache, seen, rotations>>

(***************************************************************************)
(* SupabaseJWTValidator.                                                   *)
(***************************************************************************)
Unexpired == cache.expires > now

\* The token's key was found: the request goes on to the endpoint.
Accepted(r, kid) ==
    [New EXCEPT !.step = "handling", !.client = request[r].client,
                !.began = request[r].began, !.admitted = TRUE,
                !.lag = now - seen[kid]]

\* Mutation: the cache does not expire.
AuthenticateForever(r) ==
    /\ At(r, "auth")
    /\ \E kid \in Keys :
        IF kid \in cache.keys
        THEN /\ request' = [request EXCEPT ![r] = Accepted(r, kid)]
             /\ UNCHANGED fetchers
        ELSE /\ request' = [request EXCEPT ![r].step = "keys", ![r].kid = kid,
                                           ![r].force = Unexpired]
             /\ fetchers' = Append(fetchers, r)
    /\ UNCHANGED <<now, slots, entries, limiter, provider, cache, seen, rotations>>

\* validate: the token names a key.  It is in a cache that has not expired, or keys
\* must be fetched; by force, if the cache has not expired and lacks the key.
Authenticate(r) ==
    /\ At(r, "auth")
    /\ \E kid \in Keys :
        IF Unexpired /\ kid \in cache.keys
        THEN /\ request' = [request EXCEPT ![r] = Accepted(r, kid)]
             /\ UNCHANGED fetchers
        ELSE /\ request' = [request EXCEPT ![r].step = "keys", ![r].kid = kid,
                                           ![r].force = Unexpired]
             /\ fetchers' = Append(fetchers, r)
    /\ UNCHANGED <<now, slots, entries, limiter, provider, cache, seen, rotations>>

\* _keys returned keys: they have the key; or they lack it and are fetched once
\* more, by force; or they lack it after that.
LookUp(r, keys) ==
    \/ /\ request[r].kid \in keys
       /\ request' = [request EXCEPT ![r] = Accepted(r, request[r].kid)]
       /\ fetchers' = Tail(fetchers)
       /\ UNCHANGED <<slots, limiter>>
    \/ /\ request[r].kid \notin keys /\ ~request[r].force
       /\ request' = [request EXCEPT ![r].step = "keys", ![r].force = TRUE,
                                     ![r].fetched = {}]
       /\ fetchers' = Append(Tail(fetchers), r)
       /\ UNCHANGED <<slots, limiter>>
    \/ /\ request[r].kid \notin keys /\ request[r].force
       /\ Leave(r, 401)

\* Mutation: a forced fetch takes what another request has just fetched.
TakeLockUnforced(r) ==
    /\ At(r, "keys") /\ Has(fetchers, r)
    /\ IF Unexpired
       THEN LookUp(r, cache.keys)
       ELSE /\ request' = [request EXCEPT ![r].step = "fetching"]
            /\ UNCHANGED <<slots, limiter, fetchers>>
    /\ UNCHANGED <<now, entries, provider, cache, seen, rotations>>

\* The cache's lock is had: another request may have filled the cache meanwhile,
\* which is enough unless force is set.
TakeLock(r) ==
    /\ At(r, "keys") /\ Has(fetchers, r)
    /\ IF ~request[r].force /\ Unexpired
       THEN LookUp(r, cache.keys)
       ELSE /\ request' = [request EXCEPT ![r].step = "fetching"]
            /\ UNCHANGED <<slots, limiter, fetchers>>
    /\ UNCHANGED <<now, entries, provider, cache, seen, rotations>>

\* The provider answers with the keys it has now.
Answer(r) ==
    /\ At(r, "fetching") /\ request[r].fetched = {}
    /\ request' = [request EXCEPT ![r].fetched = provider]
    /\ UNCHANGED <<now, slots, entries, limiter, provider, cache, fetchers, seen, rotations>>

\* The answer has arrived, and is good from then on.
Fetch(r) ==
    /\ At(r, "fetching") /\ request[r].fetched # {}
    /\ cache' = [keys |-> request[r].fetched, expires |-> now + CacheTTL]
    /\ LookUp(r, request[r].fetched)
    /\ UNCHANGED <<now, entries, provider, seen, rotations>>

\* The provider cannot be reached, or what it sends is no key set (which the code
\* answers with 401, and 500 here tells from a key that was looked up and is not
\* there): the cache stays.
FetchFails(r) ==
    /\ At(r, "fetching")
    /\ Leave(r, 500)
    /\ UNCHANGED <<now, entries, provider, cache, seen, rotations>>

Respond(r) ==
    /\ At(r, "handling")
    /\ Leave(r, 200)
    /\ UNCHANGED <<now, entries, provider, cache, seen, rotations>>

(***************************************************************************)
(* TimeoutMiddleware, and time.                                            *)
(***************************************************************************)
Overdue(r) == Inside(r) /\ now >= request[r].began + RequestTimeout

\* Mutation: the timeout covers what comes after the limiter.
TimeOutInner(r) ==
    /\ Overdue(r) /\ ~At(r, "limiter") /\ ~At(r, "refusing")
    /\ Leave(r, 504)
    /\ UNCHANGED <<now, entries, provider, cache, seen, rotations>>

\* Mutation: the slot is not given back.
TimeOutKeepingSlot(r) ==
    /\ Overdue(r)
    /\ request' = [request EXCEPT ![r].step = "done", ![r].status = 504]
    /\ limiter' = Without(limiter, r)
    /\ fetchers' = Without(fetchers, r)
    /\ UNCHANGED <<now, slots, entries, provider, cache, seen, rotations>>

\* Wherever the request is, it is cancelled.
TimeOut(r) ==
    /\ Overdue(r)
    /\ Leave(r, 504)
    /\ UNCHANGED <<now, entries, provider, cache, seen, rotations>>

\* Timers are not late.
Tick ==
    /\ now < LastArrival + RequestTimeout
    /\ \A r \in Requests : ~Overdue(r)
    /\ now' = now + 1
    /\ seen' = [k \in Keys |-> IF k \in provider THEN now + 1 ELSE seen[k]]
    /\ UNCHANGED <<request, slots, entries, limiter, provider, cache, fetchers, rotations>>

\* The provider publishes other keys.
Rotate ==
    /\ rotations < MaxRotations
    /\ \E keys \in (SUBSET Keys) \ {{}, provider} :
        /\ provider' = keys
        /\ seen' = [k \in Keys |-> IF k \in keys THEN now ELSE seen[k]]
        /\ request' = [r \in Requests |->
             [request[r] EXCEPT !.steady = IF Inside(r) THEN @ \cap keys ELSE @]]
    /\ rotations' = rotations + 1
    /\ UNCHANGED <<now, slots, entries, limiter, cache, fetchers>>

Init ==
    /\ now = 0
    /\ request = [r \in Requests |-> New]
    /\ slots = 0
    /\ entries = [c \in Clients |-> <<>>]
    /\ limiter = <<>>
    /\ provider \in (SUBSET Keys) \ {{}}
    /\ cache = [keys |-> {}, expires |-> 0]
    /\ fetchers = <<>>
    /\ seen = [k \in Keys |-> 0]
    /\ rotations = 0

Next ==
    \/ \E r \in Requests :
        \/ Arrive(r) \/ Count(r) \/ Refused(r) \/ Authenticate(r) \/ TakeLock(r)
        \/ Answer(r) \/ Fetch(r) \/ FetchFails(r) \/ Respond(r) \/ TimeOut(r)
    \/ Tick \/ Rotate

Spec == Init /\ [][Next]_vars

\* Time passes and timers fire.  Nothing is assumed of clients, provider, endpoint.
FairSpec ==
    /\ Spec
    /\ WF_vars(Tick)
    /\ \A r \in Requests : WF_vars(TimeOut(r))
-----------------------------------------------------------------------------
(***************************************************************************)
(* Properties.                                                             *)
(***************************************************************************)

\* The state's types; the semaphore's bound among them.
GatewayTypeOK ==
    /\ now \in 0..(LastArrival + RequestTimeout)
    /\ request \in [Requests -> Request]
    /\ slots \in 0..Slots
    /\ entries \in [Clients -> Seq(0..LastArrival)]
    /\ \A c \in Clients : Len(entries[c]) <= Limit
    /\ limiter \in Seq(Requests) /\ fetchers \in Seq(Requests)
    /\ provider \in (SUBSET Keys) \ {{}}
    /\ cache \in [keys : SUBSET Keys, expires : Nat]
    /\ seen \in [Keys -> 0..now]
    /\ rotations \in 0..MaxRotations

\* Every slot taken is one of a request that is inside, whichever way requests left
\* before, and locks are had by requests that are inside.
SlotsAccounted ==
    /\ slots = Cardinality({r \in Requests : Inside(r)})
    /\ \A i \in DOMAIN limiter : request[limiter[i]].step \in {"limiter", "refusing"}
    /\ \A i \in DOMAIN fetchers : request[fetchers[i]].step \in {"keys", "fetching"}

\* Requests of client c that were admitted and began in the window up to time t.
Admitted(c, t) ==
    {r \in Requests : /\ request[r].admitted /\ request[r].client = c
                      /\ request[r].began \in (t - Window + 1)..t}

\* The limit is exact, although the clock is read before the lock is waited for and
\* old entries are only looked for at the left end: no window admits more than Limit
\* requests of a client, and none is refused that Limit others do not account for.
RateExact ==
    /\ \A c \in Clients : \A t \in 0..now : Cardinality(Admitted(c, t)) <= Limit
    /\ \A r \in Requests : At(r, "refusing") \/ request[r].status = 429 =>
         Cardinality(Admitted(request[r].client, request[r].began)) = Limit

\* A token is turned away for its key only if that key was not published all the
\* while: a cache that is older than the key is refreshed first, even one that
\* another request refreshed just before (validate, _keys).
PublishedKeyAccepted ==
    \A r \in Requests : request[r].status = 401 => request[r].kid \notin request[r].steady

\* A key that is withdrawn is accepted for less than the cache's time to live and
\* the time one fetch may take, whatever is fetched meanwhile.
WithdrawnKeyExpires ==
    \A r \in Requests : At(r, "handling") => request[r].lag < CacheTTL + RequestTimeout

\* Every request lets go of its slot and its locks, even if clients do not read, the
\* provider does not answer and the endpoint does not end, while they hold locks others
\* wait for.
RequestsEnd == \A r \in Requests : Inside(r) ~> At(r, "done")
=============================================================================
