------------------------ MODULE PublicRecordsProofs ------------------------
(***************************************************************************)
(* The safety of the look-ups of public records, for every set of tasks,   *)
(* addresses, pages and sources, and every value of the settings.          *)
(*                                                                         *)
(* The argument is about one call of get at a time.  Its requests are      *)
(* those of the addresses it has left, Attempts at most of each, and those *)
(* of the one it is at.  Its page is no older than Timeout for each chunk  *)
(* read and for the one it waits for.  And an entry of the cache is as old *)
(* at most as its page was when it was put there, and what has gone of     *)
(* CacheTTL since.                                                         *)
(***************************************************************************)
EXTENDS PublicRecords, TLAPS

\* What get returns is younger than this.
AgeLimit == CacheTTL + Timeout * (SizeLimit + 1)

\* The body read so far.
PartOK(g) ==
    /\ g.page \in Pages
    /\ g.body <= Size[g.page] /\ g.body <= SizeLimit
    /\ g.age <= Timeout * g.body + g.waited

WholeOK(g) ==
    /\ g.page \in Pages
    /\ g.body = Size[g.page] /\ g.body <= SizeLimit
    /\ g.age < AgeLimit

RequestsOK(g) ==
    /\ g.redirects <= MaxRedirects
    /\ g.attempt <= Attempts
    /\ g.sent <= Attempts * g.redirects + g.attempt

CallOK(g) ==
    /\ g \in Call
    /\ g.at \in {"resolving", "sending", "reading"} => g.url \in Urls /\ g.current \in Urls
    /\ RequestsOK(g)
    /\ g.at = "resolving" => g.attempt = 0
    /\ g.at \in {"resolving", "sending"} => g.body = 0 /\ g.age = 0
    /\ g.at = "reading" => PartOK(g)
    /\ g.at = "returned" => WholeOK(g)

EntryOK(e) ==
    \/ e = None
    \/ /\ e \in Entry
       /\ e.body = Size[e.page] /\ e.body <= SizeLimit
       /\ e.age + e.ttl <= AgeLimit

HttpInv ==
    /\ cache \in [Urls -> Entry \cup {None}]
    /\ \A u \in Urls : EntryOK(cache[u])
    /\ get \in [Calls -> Call]
    /\ \A c \in Calls : CallOK(get[c])

LookupOK ==
    /\ lookup \in [Calls -> Lookup]
    /\ \A l \in Calls : ~Running(l) => get[l] = Idle

RecordsInv == HttpInv /\ LookupOK

-----------------------------------------------------------------------------
(***************************************************************************)
(* Arithmetic.                                                             *)
(***************************************************************************)

LEMMA Settings ==
    /\ Attempts \in Nat /\ 1 <= Attempts
    /\ MaxRedirects \in Nat
    /\ SizeLimit \in Nat /\ 1 <= SizeLimit
    /\ Timeout \in Nat /\ 1 <= Timeout
    /\ CacheTTL \in Nat /\ 1 <= CacheTTL
    /\ \A p \in Pages : Size[p] \in Nat
BY HttpAssumption

\* Products grow with their factor.
LEMMA Products ==
    ASSUME NEW a \in Nat, NEW m \in Nat, NEW n \in Nat
    PROVE  /\ a * m \in Nat
           /\ a * (m + 1) = a * m + a
           /\ m <= n => a * m <= a * n
<1>1. a * m \in Nat /\ a * (m + 1) = a * m + a
  OBVIOUS
<1>2. ASSUME m <= n PROVE a * m <= a * n
  <2>1. n - m \in Nat
    BY <1>2
  <2>2. a * (n - m) \in Nat
    BY <2>1
  <2>3. a * n = a * m + a * (n - m)
    BY <2>1
  <2>4. QED
    BY <1>1, <2>2, <2>3
<1>3. QED
  BY <1>1, <1>2

LEMMA AgeLimitIsNat == AgeLimit \in Nat /\ CacheTTL <= AgeLimit /\ 1 <= AgeLimit
<1>1. Timeout * (SizeLimit + 1) \in Nat
  BY Settings
<1>2. QED
  BY <1>1, Settings DEF AgeLimit

\* A body that fits was read in time.
LEMMA InTime ==
    ASSUME NEW b \in Nat, b <= SizeLimit, NEW w \in 0..Timeout, NEW age \in Nat,
           age <= Timeout * b + w
    PROVE  age + CacheTTL <= AgeLimit
<1>1. Timeout * (b + 1) <= Timeout * (SizeLimit + 1)
  BY Settings, Products
<1>2. Timeout * (b + 1) = Timeout * b + Timeout /\ Timeout * b \in Nat
  BY Settings, Products
<1>3. Timeout * (SizeLimit + 1) \in Nat
  BY Settings
<1>4. QED
  BY <1>1, <1>2, <1>3, Settings DEF AgeLimit

-----------------------------------------------------------------------------
(***************************************************************************)
(* A step of one call leaves the others alone.                             *)
(***************************************************************************)

LEMMA OneCall ==
    ASSUME HttpInv, NEW c \in Calls, NEW g, CallOK(g), get' = [get EXCEPT ![c] = g],
           UNCHANGED cache
    PROVE  HttpInv'
BY DEF HttpInv, CallOK

\* Nothing has been sent.
LEMMA NoRequests ==
    ASSUME NEW g, g.redirects = 0, g.attempt = 0, g.sent = 0
    PROVE  RequestsOK(g)
<1>1. Attempts * 0 = 0
  BY Settings
<1>2. QED
  BY <1>1, Settings DEF RequestsOK

LEMMA IdleIsCall == Idle \in Call
BY Settings DEF Call, Idle

LEMMA IdleOK == CallOK(Idle)
<1>1. /\ Idle.at = "idle" /\ Idle.redirects = 0
      /\ Idle.attempt = 0 /\ Idle.sent = 0
  BY DEF Idle
<1>2. QED
  BY IdleIsCall, <1>1, NoRequests DEF CallOK

LEMMA FailedOK ==
    ASSUME NEW e \in ToolErrors \cup Escaped
    PROVE  CallOK(Failed(e))
<1>1. Failed(e) \in Call
  BY IdleIsCall DEF Call, Failed
<1>2. /\ Failed(e).at = "failed" /\ Failed(e).redirects = 0
      /\ Failed(e).attempt = 0 /\ Failed(e).sent = 0
  BY DEF Failed, Idle
<1>3. QED
  BY <1>1, <1>2, NoRequests DEF CallOK

LEMMA ReturnedOK ==
    ASSUME NEW p \in Pages, NEW b \in Nat, NEW a \in Nat,
           b = Size[p], b <= SizeLimit, a < AgeLimit
    PROVE  CallOK(Returned(p, b, a))
<1> DEFINE g == Returned(p, b, a)
<1>1. g \in Call
  BY IdleIsCall DEF Call, Returned
<1>2. /\ g.at = "returned" /\ g.redirects = 0 /\ g.attempt = 0 /\ g.sent = 0
      /\ g.page = p /\ g.body = b /\ g.age = a
  BY DEF Returned, Idle
<1> HIDE DEF g
<1>3. RequestsOK(g) /\ WholeOK(g)
  BY <1>2, NoRequests DEF WholeOK
<1>4. CallOK(g)
  BY <1>1, <1>2, <1>3 DEF CallOK
<1>5. QED
  BY <1>4 DEF g

LEMMA FailKeeps ==
    ASSUME HttpInv, NEW c \in Calls, NEW e \in ToolErrors \cup Escaped, Fail(c, e)
    PROVE  HttpInv'
BY FailedOK, OneCall DEF Fail

\* The call begins.
LEMMA GetKeeps ==
    ASSUME HttpInv, NEW c \in Calls, NEW u \in Urls, Get(c, u)
    PROVE  HttpInv'
<1>1. CASE GetCached(c, u)
  <2>1. cache[u] \in Entry /\ EntryOK(cache[u]) /\ cache[u] # None
    BY <1>1 DEF GetCached, Cached, HttpInv
  <2>2. /\ cache[u].page \in Pages /\ cache[u].body \in Nat /\ cache[u].age \in Nat
        /\ cache[u].ttl \in 1..CacheTTL
    BY <2>1 DEF Entry
  <2>3. /\ cache[u].body = Size[cache[u].page] /\ cache[u].body <= SizeLimit
        /\ cache[u].age < AgeLimit
    BY <2>1, <2>2, Settings, AgeLimitIsNat DEF EntryOK
  <2>4. CallOK(Returned(cache[u].page, cache[u].body, cache[u].age))
    BY <2>2, <2>3, ReturnedOK
  <2>5. QED
    BY <1>1, <2>4, OneCall DEF GetCached
<1>2. CASE GetFresh(c, u)
  <2> DEFINE g == [Idle EXCEPT !.at = "resolving", !.url = u, !.current = u]
  <2>1. g \in Call
    BY IdleIsCall DEF Call
  <2>2. /\ g.at = "resolving" /\ g.url = u /\ g.current = u /\ g.redirects = 0
        /\ g.attempt = 0 /\ g.sent = 0 /\ g.body = 0 /\ g.age = 0
    BY DEF Idle
  <2>3. get' = [get EXCEPT ![c] = g] /\ UNCHANGED cache
    BY <1>2 DEF GetFresh
  <2> HIDE DEF g
  <2>4. CallOK(g)
    BY <2>1, <2>2, NoRequests DEF CallOK
  <2>5. QED
    BY <2>3, <2>4, OneCall
<1>3. QED
  BY <1>1, <1>2 DEF Get

-----------------------------------------------------------------------------
(***************************************************************************)
(* The steps of a call.                                                    *)
(***************************************************************************)

LEMMA NoWait == 0 \in 0..Timeout
BY Settings

LEMMA CallTypes ==
    ASSUME HttpInv, NEW c \in Calls
    PROVE  /\ CallOK(get[c])
           /\ get[c] \in Call
           /\ get[c].redirects \in Nat /\ get[c].attempt \in Nat /\ get[c].sent \in Nat
           /\ get[c].body \in Nat /\ get[c].age \in Nat
           /\ get[c].waited \in 0..Timeout
<1>1. CallOK(get[c]) /\ get[c] \in Call
  BY DEF HttpInv
<1>2. QED
  BY <1>1 DEF Call

\* One more request for the address it is at.
LEMMA SendKeeps ==
    ASSUME HttpInv, NEW c \in Calls, get[c].at \in {"resolving", "sending"},
           get[c].attempt < Attempts,
           get' = [get EXCEPT ![c].at = "sending", ![c].attempt = get[c].attempt + 1,
                              ![c].sent = get[c].sent + 1, ![c].waited = 0],
           UNCHANGED cache
    PROVE  HttpInv'
<1> DEFINE g == [get[c] EXCEPT !.at = "sending", !.attempt = get[c].attempt + 1,
                               !.sent = get[c].sent + 1, !.waited = 0]
<1>1. get' = [get EXCEPT ![c] = g]
  BY DEF HttpInv
<1>2. g \in Call
  <2>1. get[c] \in Call /\ get[c].attempt + 1 \in Nat /\ get[c].sent + 1 \in Nat
    BY CallTypes
  <2>2. QED
    BY <2>1, NoWait DEF Call
<1>3. /\ g.at = "sending" /\ g.attempt = get[c].attempt + 1
      /\ g.sent = get[c].sent + 1 /\ g.redirects = get[c].redirects
      /\ g.url = get[c].url /\ g.current = get[c].current
      /\ g.body = get[c].body /\ g.age = get[c].age
  BY CallTypes DEF Call
<1> HIDE DEF g
<1>4. RequestsOK(g)
  <2>1. Attempts * get[c].redirects \in Nat
    BY CallTypes, Settings, Products
  <2>2. QED
    BY <1>3, <2>1, CallTypes, Settings DEF CallOK, RequestsOK
<1>5. CallOK(g)
  BY <1>2, <1>3, <1>4, CallTypes DEF CallOK
<1>6. QED
  BY <1>1, <1>5, OneCall

LEMMA ResolveKeeps ==
    ASSUME HttpInv, NEW c \in Calls, Resolve(c)
    PROVE  HttpInv'
<1>1. get[c].at = "resolving" /\ get[c].attempt = 0
  BY CallTypes DEF Resolve, CallOK
<1>2. get' = [get EXCEPT ![c].at = "sending", ![c].attempt = get[c].attempt + 1,
                         ![c].sent = get[c].sent + 1, ![c].waited = 0]
  <2>1. get[c].attempt + 1 = 1
    BY <1>1
  <2>2. QED
    BY <2>1 DEF Resolve, HttpInv
<1>3. get[c].attempt < Attempts /\ UNCHANGED cache
  BY <1>1, Settings DEF Resolve
<1>4. QED
  BY <1>1, <1>2, <1>3, SendKeeps

LEMMA ResendKeeps ==
    ASSUME HttpInv, NEW c \in Calls, get[c].at = "sending", get[c].attempt # Attempts,
           Resend(c)
    PROVE  HttpInv'
<1>1. get[c].attempt < Attempts
  BY CallTypes, Settings DEF CallOK, RequestsOK
<1>2. get' = [get EXCEPT ![c].at = "sending", ![c].attempt = get[c].attempt + 1,
                         ![c].sent = get[c].sent + 1, ![c].waited = 0]
  BY CallTypes DEF Resend, Call, HttpInv
<1>3. QED
  BY <1>1, <1>2, SendKeeps DEF Resend

LEMMA RedirectKeeps ==
    ASSUME HttpInv, NEW c \in Calls, Redirect(c)
    PROVE  HttpInv'
<1>1. PICK r \in Serves[get[c].current] :
        /\ r.status = "redirect"
        /\ IF r.location = NoUrl \/ get[c].redirects = MaxRedirects
             THEN Fail(c, "upstream_unavailable")
             ELSE /\ get' = [get EXCEPT ![c].at = "resolving", ![c].current = r.location,
                                        ![c].redirects = @ + 1, ![c].attempt = 0,
                                        ![c].waited = 0]
                  /\ UNCHANGED cache
  BY DEF Redirect
<1>2. get[c].at = "sending" /\ get[c].current \in Urls /\ get[c].url \in Urls
  BY CallTypes DEF Redirect, CallOK
<1>3. CASE r.location = NoUrl \/ get[c].redirects = MaxRedirects
  BY <1>1, <1>3, FailKeeps DEF ToolErrors
<1>4. CASE ~(r.location = NoUrl \/ get[c].redirects = MaxRedirects)
  <2> DEFINE g == [get[c] EXCEPT !.at = "resolving", !.current = r.location,
                                 !.redirects = get[c].redirects + 1, !.attempt = 0,
                                 !.waited = 0]
  <2>1. r.location \in Urls
    <3>1. r \in Responses
      BY <1>2, HttpAssumption
    <3>2. r.location \in Urls \cup {NoUrl}
      BY <1>1, <3>1 DEF Responses
    <3>3. QED
      BY <1>4, <3>2
  <2>2. get' = [get EXCEPT ![c] = g] /\ UNCHANGED cache
    BY <1>1, <1>4 DEF HttpInv
  <2>3. g \in Call
    <3>1. get[c] \in Call /\ get[c].redirects + 1 \in Nat
      BY CallTypes
    <3>2. QED
      BY <2>1, <3>1, NoWait DEF Call
  <2>4. /\ g.at = "resolving" /\ g.attempt = 0 /\ g.sent = get[c].sent
        /\ g.redirects = get[c].redirects + 1
        /\ g.url = get[c].url /\ g.current = r.location
        /\ g.body = get[c].body /\ g.age = get[c].age
    BY CallTypes DEF Call
  <2> HIDE DEF g
  <2>5. RequestsOK(g)
    <3>1. /\ get[c].redirects < MaxRedirects /\ get[c].attempt <= Attempts
          /\ get[c].sent <= Attempts * get[c].redirects + get[c].attempt
      <4>1. RequestsOK(get[c]) /\ get[c].redirects # MaxRedirects
        BY <1>4, CallTypes DEF CallOK
      <4>2. QED
        BY <4>1, CallTypes, Settings DEF RequestsOK
    <3>2. /\ Attempts * get[c].redirects \in Nat
          /\ Attempts * (get[c].redirects + 1) = Attempts * get[c].redirects + Attempts
      BY CallTypes, Settings, Products
    <3>3. g.sent <= Attempts * g.redirects + g.attempt
      BY <2>4, <3>1, <3>2, CallTypes, Settings
    <3>4. QED
      BY <2>4, <3>1, <3>3, CallTypes, Settings DEF RequestsOK
  <2>6. CallOK(g)
    BY <1>2, <2>1, <2>3, <2>4, <2>5, CallTypes DEF CallOK
  <2>7. QED
    BY <2>2, <2>6, OneCall
<1>5. QED
  BY <1>3, <1>4

LEMMA RespondKeeps ==
    ASSUME HttpInv, NEW c \in Calls, Respond(c)
    PROVE  HttpInv'
<1>1. PICK r \in Serves[get[c].current] :
        /\ r.status = "ok"
        /\ get' = [get EXCEPT ![c].at = "reading", ![c].page = r.page, ![c].waited = 0]
        /\ UNCHANGED cache
  BY DEF Respond
<1>2. /\ get[c].at = "sending" /\ get[c].current \in Urls /\ get[c].url \in Urls
      /\ get[c].body = 0 /\ get[c].age = 0
  BY CallTypes DEF Respond, CallOK
<1>3. r.page \in Pages
  <2>1. r \in Responses
    BY <1>2, HttpAssumption
  <2>2. QED
    BY <1>1, <2>1 DEF Responses
<1> DEFINE g == [get[c] EXCEPT !.at = "reading", !.page = r.page, !.waited = 0]
<1>4. get' = [get EXCEPT ![c] = g]
  BY <1>1 DEF HttpInv
<1>5. g \in Call
  <2>1. get[c] \in Call
    BY CallTypes
  <2>2. QED
    BY <1>3, <2>1, NoWait DEF Call
<1>6. /\ g.at = "reading" /\ g.page = r.page /\ g.waited = 0
      /\ g.attempt = get[c].attempt /\ g.sent = get[c].sent
      /\ g.redirects = get[c].redirects
      /\ g.url = get[c].url /\ g.current = get[c].current
      /\ g.body = 0 /\ g.age = 0
  BY <1>2, CallTypes DEF Call
<1> HIDE DEF g
<1>7. PartOK(g)
  <2>1. Timeout * 0 = 0
    BY Settings
  <2>2. QED
    BY <1>3, <1>6, <2>1, Settings DEF PartOK
<1>8. CallOK(g)
  BY <1>2, <1>5, <1>6, <1>7, CallTypes DEF CallOK, RequestsOK
<1>9. QED
  BY <1>1, <1>4, <1>8, OneCall

LEMMA ReadChunkKeeps ==
    ASSUME HttpInv, NEW c \in Calls, ReadChunk(c)
    PROVE  HttpInv'
<1>1. CASE get[c].body + 1 > SizeLimit
  BY <1>1, FailKeeps DEF ReadChunk, ToolErrors
<1>2. CASE ~(get[c].body + 1 > SizeLimit)
  <2> DEFINE g == [get[c] EXCEPT !.body = get[c].body + 1, !.waited = 0]
  <2>1. get' = [get EXCEPT ![c] = g] /\ UNCHANGED cache
    BY <1>2 DEF ReadChunk, HttpInv
  <2>2. get[c].at = "reading" /\ PartOK(get[c]) /\ get[c].body < Size[get[c].page]
    BY CallTypes DEF ReadChunk, CallOK
  <2>3. g \in Call
    <3>1. get[c] \in Call /\ get[c].body + 1 \in Nat
      BY CallTypes
    <3>2. QED
      BY <3>1, NoWait DEF Call
  <2>4. /\ g.at = "reading" /\ g.page = get[c].page /\ g.waited = 0
        /\ g.attempt = get[c].attempt /\ g.sent = get[c].sent
        /\ g.redirects = get[c].redirects
        /\ g.url = get[c].url /\ g.current = get[c].current
        /\ g.body = get[c].body + 1 /\ g.age = get[c].age
    BY <2>2, CallTypes DEF Call
  <2> HIDE DEF g
  <2>5. PartOK(g)
    <3>1. /\ Timeout * get[c].body \in Nat
          /\ Timeout * (get[c].body + 1) = Timeout * get[c].body + Timeout
      BY CallTypes, Settings, Products
    <3>2. g.age <= Timeout * g.body + g.waited
      BY <2>2, <2>4, <3>1, CallTypes, Settings DEF PartOK
    <3>3. QED
      BY <1>2, <2>2, <2>4, <3>2, CallTypes, Settings DEF PartOK
  <2>6. CallOK(g)
    BY <2>2, <2>3, <2>4, <2>5, CallTypes DEF CallOK, RequestsOK
  <2>7. QED
    BY <2>1, <2>6, OneCall
<1>3. QED
  BY <1>1, <1>2

LEMMA EndOfBodyKeeps ==
    ASSUME HttpInv, NEW c \in Calls, EndOfBody(c)
    PROVE  HttpInv'
<1> DEFINE e == [page |-> get[c].page, body |-> get[c].body, age |-> get[c].age,
                 ttl |-> CacheTTL]
           g == Returned(get[c].page, get[c].body, get[c].age)
<1>1. get[c].at = "reading" /\ PartOK(get[c]) /\ get[c].url \in Urls
  BY CallTypes DEF EndOfBody, CallOK
<1>2. get[c].age + CacheTTL <= AgeLimit /\ get[c].age < AgeLimit
  BY <1>1, CallTypes, InTime, Settings, AgeLimitIsNat DEF PartOK
<1>3. EntryOK(e) /\ e \in Entry
  BY <1>1, <1>2, CallTypes, Settings DEF EntryOK, Entry, PartOK, EndOfBody
<1>4. CallOK(g)
  BY <1>1, <1>2, CallTypes, ReturnedOK DEF PartOK, EndOfBody
<1>5. /\ cache' = [cache EXCEPT ![get[c].url] = e]
      /\ get' = [get EXCEPT ![c] = g]
  BY DEF EndOfBody
<1> HIDE DEF e, g
<1>6. QED
  BY <1>1, <1>3, <1>4, <1>5 DEF HttpInv, CallOK

LEMMA HttpStepKeeps ==
    ASSUME HttpInv, NEW c \in Calls, HttpStep(c)
    PROVE  HttpInv'
<1>1. CASE \/ Forbid(c) \/ NotResolved(c) \/ ClientError(c) \/ DeclaredTooLarge(c)
           \/ ReadTimeout(c) \/ Break(c)
  <2>1. PICK e \in ToolErrors \cup Escaped : Fail(c, e)
    BY <1>1 DEF Forbid, NotResolved, ClientError, DeclaredTooLarge, ReadTimeout, Break,
                ToolErrors, Escaped
  <2>2. QED
    BY <2>1, FailKeeps
<1>2. CASE SendTimeout(c) \/ ServerError(c)
  <2>1. get[c].at = "sending"
    BY <1>2 DEF SendTimeout, ServerError
  <2>2. CASE get[c].attempt = Attempts
    <3>1. PICK e \in ToolErrors \cup Escaped : Fail(c, e)
      BY <1>2, <2>2 DEF SendTimeout, ServerError, ToolErrors
    <3>2. QED
      BY <3>1, FailKeeps
  <2>3. CASE get[c].attempt # Attempts
    BY <1>2, <2>1, <2>3, ResendKeeps DEF SendTimeout, ServerError
  <2>4. QED
    BY <2>2, <2>3
<1>3. QED
  BY <1>1, <1>2, ResolveKeeps, RedirectKeeps, RespondKeeps, ReadChunkKeeps, EndOfBodyKeeps
     DEF HttpStep

-----------------------------------------------------------------------------
(***************************************************************************)
(* The steps of a look-up, and time.                                       *)
(***************************************************************************)

LEMMA FirstOperations ==
    \A use \in ChatUses \cup Operations :
        FirstOperation(use) \in Operations /\ Home[FirstOperation(use)] \in Urls
<1>1. ASSUME NEW use \in ChatUses \cup Operations PROVE FirstOperation(use) \in Operations
  BY DEF FirstOperation, ChatUses, Operations
<1>2. QED
  BY <1>1, RecordsAssumption

LEMMA LookupTypes ==
    /\ NoLookup \in Lookup
    /\ \A o \in Outcomes : Done(o) \in Lookup /\ Done(o).use = None
BY DEF Lookup, NoLookup, Done

LEMMA EndKeeps ==
    ASSUME RecordsInv, NEW l \in Calls, NEW o \in Outcomes, End(l, o)
    PROVE  RecordsInv'
<1>1. HttpInv'
  BY IdleOK, OneCall DEF RecordsInv, End
<1>2. LookupOK'
  BY LookupTypes DEF RecordsInv, LookupOK, HttpInv, End, Running
<1>3. QED
  BY <1>1, <1>2 DEF RecordsInv

\* The look-up l of a task goes on, with a step of its call or without.
LEMMA GoesOn ==
    ASSUME RecordsInv, HttpInv', NEW l \in Calls, NEW x \in Lookup, x.use # None,
           lookup' = [lookup EXCEPT ![l] = x],
           \A k \in Calls \ {l} : get'[k] = get[k]
    PROVE  RecordsInv'
BY DEF RecordsInv, LookupOK, Running

\* An attempt begins.
LEMMA AttemptKeeps ==
    ASSUME RecordsInv, NEW l \in Calls, NEW use \in ChatUses \cup Operations,
           NEW n \in Nat, Attempt(l, use, n)
    PROVE  RecordsInv'
<1> DEFINE x == [NoLookup EXCEPT !.use = use, !.op = FirstOperation(use), !.tries = n]
<1>1. x \in Lookup
  BY LookupTypes, FirstOperations DEF Lookup
<1>2. x.use = use /\ use # None
  BY RecordsAssumption DEF NoLookup
<1>3. lookup' = [lookup EXCEPT ![l] = x]
  BY DEF Attempt
<1>4. Get(l, Home[FirstOperation(use)])
  BY DEF Attempt
<1> HIDE DEF x
<1>5. HttpInv'
  BY <1>4, FirstOperations, GetKeeps DEF RecordsInv
<1>6. \A k \in Calls \ {l} : get'[k] = get[k]
  BY <1>4 DEF Get, GetCached, GetFresh, RecordsInv, HttpInv
<1>7. QED
  BY <1>1, <1>2, <1>3, <1>5, <1>6, GoesOn

LEMMA BeginKeeps ==
    ASSUME RecordsInv, NEW l \in Calls, Begin(l)
    PROVE  RecordsInv'
<1>1. PICK use \in Uses[l] : Attempt(l, use, 1)
  BY DEF Begin
<1>2. use \in ChatUses \cup Operations
  BY RecordsAssumption
<1>3. QED
  BY <1>1, <1>2, AttemptKeeps

LEMMA DeclineKeeps ==
    ASSUME RecordsInv, NEW l \in Calls, Decline(l)
    PROVE  RecordsInv'
<1>1. PICK o \in Outcomes : lookup' = [lookup EXCEPT ![l] = Done(o)]
  BY DEF Decline, Outcomes
<1>2. UNCHANGED <<cache, get>> /\ get[l] = Idle
  BY DEF Decline, RecordsInv, LookupOK
<1>3. HttpInv'
  BY <1>2 DEF RecordsInv, HttpInv
<1>4. LookupOK'
  BY <1>1, <1>2, LookupTypes DEF RecordsInv, LookupOK, Running
<1>5. QED
  BY <1>3, <1>4 DEF RecordsInv

\* The chat goes on from the search to the details.
LEMMA DetailsKeeps ==
    ASSUME RecordsInv, NEW l \in Calls, Running(l),
           lookup' = [lookup EXCEPT ![l].op = "get_property_details"],
           Get(l, Home["get_property_details"])
    PROVE  RecordsInv'
<1> DEFINE x == [lookup[l] EXCEPT !.op = "get_property_details"]
<1>1. lookup[l] \in Lookup /\ lookup[l].use # None
  BY DEF RecordsInv, LookupOK, Running
<1>2. x \in Lookup /\ x.use = lookup[l].use
  BY <1>1 DEF Lookup, Operations
<1>3. lookup' = [lookup EXCEPT ![l] = x]
  BY DEF RecordsInv, LookupOK
<1> HIDE DEF x
<1>4. HttpInv'
  BY RecordsAssumption, GetKeeps DEF RecordsInv, Operations
<1>5. \A k \in Calls \ {l} : get'[k] = get[k]
  BY DEF Get, GetCached, GetFresh, RecordsInv, HttpInv
<1>6. QED
  BY <1>1, <1>2, <1>3, <1>4, <1>5, GoesOn

\* A task whose call returned or failed makes a look-up.
LEMMA AtWork ==
    ASSUME RecordsInv, NEW l \in Calls, get[l].at # "idle"
    PROVE  Running(l)
BY DEF RecordsInv, LookupOK, Idle

LEMMA ContinueKeeps ==
    ASSUME RecordsInv, NEW l \in Calls, Continue(l)
    PROVE  RecordsInv'
<1>1. CASE \E o \in Outcomes : End(l, o)
  BY <1>1, EndKeeps
<1>2. ASSUME lookup' = [lookup EXCEPT ![l].op = "get_property_details"],
             Get(l, Home["get_property_details"]), HasPage(l, "search_property")
      PROVE  RecordsInv'
  <2>1. Running(l)
    BY <1>2, AtWork DEF HasPage
  <2>2. QED
    BY <1>2, <2>1, DetailsKeeps
<1>3. CASE Discover(l) \/ GetPropertyDetails(l) \/ ReadRecords(l) \/ ToolFails(l)
  BY <1>1, <1>3 DEF Discover, GetPropertyDetails, ReadRecords, ToolFails, Result, Error,
                    Outcomes
<1>4. CASE Escapes(l)
  BY <1>1, <1>4 DEF Escapes, Escaped, Outcomes
<1>5. CASE SearchProperty(l)
  BY <1>1, <1>2, <1>5 DEF SearchProperty, SelectProperty, Outcomes
<1>6. QED
  BY <1>3, <1>4, <1>5 DEF Continue

LEMMA TimeOutKeeps ==
    ASSUME RecordsInv, NEW l \in Calls, TimeOut(l)
    PROVE  RecordsInv'
<1>1. CASE lookup[l].tries < Budget
  <2>1. lookup[l].use \in ChatUses /\ lookup[l].tries + 1 \in Nat
    BY DEF TimeOut, InChat, RecordsInv, LookupOK, Lookup
  <2>2. Attempt(l, lookup[l].use, lookup[l].tries + 1)
    BY <1>1 DEF TimeOut
  <2>3. QED
    BY <2>1, <2>2, AttemptKeeps
<1>2. CASE ~(lookup[l].tries < Budget)
  BY <1>2, EndKeeps DEF TimeOut, Outcomes
<1>3. QED
  BY <1>1, <1>2

LEMMA FetchKeeps ==
    ASSUME RecordsInv, NEW l \in Calls, Fetch(l)
    PROVE  RecordsInv'
<1>1. HttpInv'
  BY HttpStepKeeps DEF RecordsInv, Fetch
<1>2. get[l].at # "idle"
  BY DEF Fetch, HttpStep, Forbid, NotResolved, Resolve, SendTimeout, ServerError,
         ClientError, Redirect, Respond, DeclaredTooLarge, ReadChunk, EndOfBody,
         ReadTimeout, Break, InFlight
<1>3. \A k \in Calls \ {l} : get'[k] = get[k]
  BY DEF RecordsInv, HttpInv, Fetch, HttpStep, Forbid, NotResolved, Resolve, SendTimeout,
         ServerError, ClientError, Redirect, Respond, DeclaredTooLarge, ReadChunk,
         EndOfBody, ReadTimeout, Break, Fail, Resend
<1>4. lookup' = lookup
  BY DEF Fetch
<1>5. Running(l)
  BY <1>2, AtWork
<1>6. LookupOK'
  BY <1>3, <1>4, <1>5 DEF RecordsInv, LookupOK, Running
<1>7. QED
  BY <1>1, <1>6 DEF RecordsInv

LEMMA OlderEntryOK ==
    ASSUME NEW e \in Entry \cup {None}, EntryOK(e)
    PROVE  OlderEntry(e) \in Entry \cup {None} /\ EntryOK(OlderEntry(e))
<1>1. CASE e = None \/ e.ttl = 1
  BY <1>1 DEF OlderEntry, EntryOK
<1>2. CASE ~(e = None \/ e.ttl = 1)
  <2> DEFINE f == [e EXCEPT !.age = e.age + 1, !.ttl = e.ttl - 1]
  <2>1. /\ e \in Entry /\ e.body = Size[e.page] /\ e.body <= SizeLimit
        /\ e.age + e.ttl <= AgeLimit
    BY <1>2 DEF EntryOK
  <2>2. /\ e.age \in Nat /\ e.age + 1 \in Nat
        /\ e.ttl \in 1..CacheTTL /\ e.ttl - 1 \in 1..CacheTTL
    <3>1. e.age \in Nat /\ e.ttl \in 1..CacheTTL
      BY <2>1 DEF Entry
    <3>2. QED
      BY <1>2, <3>1, Settings
  <2>3. f \in Entry
    BY <2>1, <2>2 DEF Entry
  <2>4. f.body = e.body /\ f.page = e.page /\ f.age = e.age + 1 /\ f.ttl = e.ttl - 1
    BY <2>1 DEF Entry
  <2>5. OlderEntry(e) = f
    BY <1>2 DEF OlderEntry
  <2> HIDE DEF f
  <2>6. f.age + f.ttl = e.age + e.ttl
    BY <2>2, <2>4
  <2>7. EntryOK(f)
    BY <2>1, <2>3, <2>4, <2>6 DEF EntryOK
  <2>8. QED
    BY <2>3, <2>5, <2>7
<1>3. QED
  BY <1>1, <1>2

LEMMA WaitedTypes ==
    ASSUME NEW w \in 0..Timeout
    PROVE  Waited(w) \in 0..Timeout /\ (w < Timeout => Waited(w) = w + 1)
BY Settings DEF Waited

\* A call that is neither over nor overdue.
LEMMA OlderCallOK ==
    ASSUME NEW g \in Call, CallOK(g), g.at \notin {"returned", "failed"},
           g.at = "reading" => g.waited < Timeout
    PROVE  CallOK(OlderCall(g))
<1>1. g.waited \in 0..Timeout /\ g.age \in Nat /\ g.age + 1 \in Nat /\ g.body \in Nat
  BY DEF Call
<1>2. CASE g.at = "sending"
  <2> DEFINE h == [g EXCEPT !.waited = Waited(g.waited)]
  <2>1. h \in Call
    BY <1>1, WaitedTypes DEF Call
  <2>2. /\ h.at = g.at /\ h.url = g.url /\ h.current = g.current
        /\ h.redirects = g.redirects /\ h.attempt = g.attempt /\ h.sent = g.sent
        /\ h.body = g.body /\ h.age = g.age
    BY DEF Call
  <2>3. OlderCall(g) = h
    BY <1>2 DEF OlderCall
  <2> HIDE DEF h
  <2>4. CallOK(h)
    BY <1>2, <2>1, <2>2 DEF CallOK, RequestsOK
  <2>5. QED
    BY <2>3, <2>4
<1>3. CASE g.at = "reading"
  <2> DEFINE h == [g EXCEPT !.waited = Waited(g.waited), !.age = g.age + 1]
  <2>1. h \in Call
    BY <1>1, WaitedTypes DEF Call
  <2>2. /\ h.at = g.at /\ h.url = g.url /\ h.current = g.current
        /\ h.redirects = g.redirects /\ h.attempt = g.attempt /\ h.sent = g.sent
        /\ h.page = g.page /\ h.body = g.body
        /\ h.age = g.age + 1 /\ h.waited = Waited(g.waited)
    BY DEF Call
  <2>3. OlderCall(g) = h
    BY <1>3 DEF OlderCall
  <2> HIDE DEF h
  <2>4. PartOK(h)
    <3>1. Timeout * g.body \in Nat
      BY <1>1, Settings, Products
    <3>2. h.waited = g.waited + 1
      BY <1>1, <1>3, <2>2, WaitedTypes
    <3>3. PartOK(g)
      BY <1>3 DEF CallOK
    <3>4. h.age <= Timeout * h.body + h.waited
      BY <1>1, <2>2, <3>1, <3>2, <3>3 DEF PartOK
    <3>5. QED
      BY <2>2, <3>3, <3>4 DEF PartOK
  <2>5. CallOK(h)
    BY <1>3, <2>1, <2>2, <2>4 DEF CallOK, RequestsOK
  <2>6. QED
    BY <2>3, <2>5
<1>4. CASE g.at \notin {"sending", "reading"}
  BY <1>4 DEF OlderCall
<1>5. QED
  BY <1>2, <1>3, <1>4

LEMMA TickKeeps ==
    ASSUME RecordsInv, Tick
    PROVE  RecordsInv'
<1>1. HttpInv'
  <2>1. cache' = [u \in Urls |-> OlderEntry(cache[u])]
    BY DEF Tick, HttpTick
  <2>2. get' = [c \in Calls |-> OlderCall(get[c])]
    BY DEF Tick, HttpTick
  <2>3. ASSUME NEW u \in Urls
        PROVE  OlderEntry(cache[u]) \in Entry \cup {None} /\ EntryOK(OlderEntry(cache[u]))
    BY OlderEntryOK DEF RecordsInv, HttpInv
  <2>4. ASSUME NEW c \in Calls PROVE CallOK(OlderCall(get[c]))
    BY OlderCallOK DEF Tick, Prompt, RecordsInv, HttpInv
  <2>5. \A c \in Calls : OlderCall(get[c]) \in Call
    BY <2>4 DEF CallOK
  <2>6. QED
    BY <2>1, <2>2, <2>3, <2>4, <2>5 DEF HttpInv
<1>2. LookupOK'
  <2> DEFINE x(l) == IF InChat(l) THEN [lookup[l] EXCEPT !.elapsed = @ + 1] ELSE lookup[l]
  <2>1. lookup' = [l \in Calls |-> x(l)]
    BY DEF Tick
  <2>2. ASSUME NEW l \in Calls PROVE x(l) \in Lookup /\ x(l).use = lookup[l].use
    <3>1. lookup[l] \in Lookup /\ lookup[l].elapsed + 1 \in Nat
      BY DEF RecordsInv, LookupOK, Lookup
    <3>2. QED
      BY <3>1 DEF Lookup
  <2> HIDE DEF x
  <2>3. lookup' \in [Calls -> Lookup]
    BY <2>1, <2>2
  <2>4. ASSUME NEW l \in Calls, lookup'[l].use = None PROVE get'[l] = Idle
    <3>1. lookup[l].use = None
      BY <2>1, <2>2, <2>4
    <3>2. get[l] = Idle
      BY <3>1 DEF RecordsInv, LookupOK, Running
    <3>3. OlderCall(Idle) = Idle
      BY DEF OlderCall, Idle
    <3>4. QED
      BY <3>2, <3>3 DEF Tick, HttpTick
  <2>5. QED
    BY <2>3, <2>4 DEF LookupOK, Running
<1>3. QED
  BY <1>1, <1>2 DEF RecordsInv

LEMMA InitRecords == Init => RecordsInv
<1> SUFFICES ASSUME Init PROVE RecordsInv
  OBVIOUS
<1>1. HttpInv
  BY IdleIsCall, IdleOK DEF Init, HttpInit, HttpInv, EntryOK
<1>2. LookupOK
  BY LookupTypes DEF Init, HttpInit, LookupOK, Running, NoLookup
<1>3. QED
  BY <1>1, <1>2 DEF RecordsInv

LEMMA NextRecords == RecordsInv /\ [Next]_vars => RecordsInv'
<1> SUFFICES ASSUME RecordsInv, [Next]_vars PROVE RecordsInv'
  OBVIOUS
<1>1. CASE Tick
  BY <1>1, TickKeeps
<1>2. ASSUME NEW l \in Calls,
             \/ Begin(l) \/ Decline(l) \/ Fetch(l) \/ Continue(l) \/ TimeOut(l)
      PROVE  RecordsInv'
  BY <1>2, BeginKeeps, DeclineKeeps, FetchKeeps, ContinueKeeps, TimeOutKeeps
<1>3. ASSUME NEW l \in Calls, Leave(l) PROVE RecordsInv'
  BY <1>3, EndKeeps DEF Leave, Outcomes
<1>4. CASE UNCHANGED vars
  BY <1>4 DEF vars, RecordsInv, HttpInv, LookupOK, Running
<1>5. QED
  BY <1>1, <1>2, <1>3, <1>4 DEF Next

-----------------------------------------------------------------------------
(***************************************************************************)
(* The theorems.                                                           *)
(***************************************************************************)

\* What every step keeps of the cache, the calls of get and the look-ups.
THEOREM RecordsInductive == Spec => []RecordsInv
BY InitRecords, NextRecords, PTL DEF Spec

\* Every variable keeps its type, and a task that makes no look-up has no call of get left.
THEOREM RecordsTyped == Spec => []RecordsTypeOK
<1>1. RecordsInv => RecordsTypeOK
  BY DEF RecordsInv, HttpInv, LookupOK, RecordsTypeOK, HttpTypeOK
<1>2. QED
  BY <1>1, RecordsInductive, PTL

\* What get returns is a whole body that fits the limit, and no older than the cache's time
\* and the time its body may take.
THEOREM FreshAnswers == Spec => []AnswersFresh
<1>1. RecordsInv => AnswersFresh
  BY DEF RecordsInv, HttpInv, CallOK, WholeOK, AgeLimit, AnswersFresh
<1>2. QED
  BY <1>1, RecordsInductive, PTL

\* One call of get sends no more than max_attempts requests per address, and asks no more
\* than max_redirects + 1 addresses.
THEOREM BoundedRequests == Spec => []RequestsBounded
<1>1. RecordsInv => RequestsBounded
  <2> SUFFICES ASSUME RecordsInv, NEW c \in Calls
               PROVE  get[c].sent <= Attempts * (MaxRedirects + 1)
    BY DEF RequestsBounded
  <2>1. HttpInv
    BY DEF RecordsInv
  <2>2. RequestsOK(get[c])
    BY <2>1, CallTypes DEF CallOK
  <2>3. /\ Attempts * get[c].redirects \in Nat
        /\ Attempts * get[c].redirects <= Attempts * MaxRedirects
        /\ Attempts * MaxRedirects \in Nat
        /\ Attempts * (MaxRedirects + 1) = Attempts * MaxRedirects + Attempts
    BY <2>1, <2>2, CallTypes, Settings, Products DEF RequestsOK
  <2>4. QED
    BY <2>1, <2>2, <2>3, CallTypes, Settings DEF RequestsOK
<1>2. QED
  BY <1>1, RecordsInductive, PTL
=============================================================================
