--------------------------- MODULE GatewayProofs ---------------------------
(***************************************************************************)
(* The safety of the gateway, for every number of requests, every set of   *)
(* clients and keys, and every value of the settings.                      *)
(***************************************************************************)
EXTENDS Gateway, FiniteSetTheorems, SequenceTheorems, WellFoundedInduction, TLAPS

(***************************************************************************)
(* The inductive invariant.                                                *)
(***************************************************************************)

\* The clock, the counters, and what is known of keys: a published one is seen now, and
\* a cached one was seen no earlier than one fetch before it was cached.
KeysOK ==
    /\ now \in 0..(LastArrival + RequestTimeout)
    /\ rotations \in 0..MaxRotations
    /\ provider \in (SUBSET Keys) \ {{}}
    /\ cache \in [keys : SUBSET Keys, expires : Nat]
    /\ seen \in [Keys -> 0..now]
    /\ \A k \in provider : seen[k] = now
    /\ \A k \in cache.keys : cache.expires <= seen[k] + CacheTTL + RequestTimeout

\* One request: it is inside for no longer than its timeout, a key that was published all
\* the while is among those published now and among those it fetched, and those were
\* published after it began.
RequestOK(g) ==
    /\ g \in Request
    /\ g.began <= now
    /\ g.step \notin {"new", "done"} =>
         /\ now <= g.began + RequestTimeout
         /\ g.steady \subseteq provider
         /\ g.status = 0
         /\ g.client \in Clients
    /\ g.step \in {"new", "limiter", "refusing"} => ~g.admitted
    /\ g.step \in {"auth", "keys", "fetching", "handling"} => g.admitted
    /\ g.fetched # {} => g.steady \subseteq g.fetched
    /\ \A k \in g.fetched : g.began <= seen[k]
    /\ g.status = 401 => g.kid \notin g.steady
    /\ g.step = "handling" => g.lag < CacheTTL + RequestTimeout

RequestsOK ==
    /\ request \in [Requests -> Request]
    /\ \A r \in Requests : RequestOK(request[r])

SlotsOK ==
    /\ slots \in 0..Slots
    /\ slots = Cardinality({r \in Requests : Inside(r)})

\* Nobody is in a queue twice, or is there while at another step.
Distinct(queue) == \A i, j \in 1..Len(queue) : queue[i] = queue[j] => i = j

Queue(queue, req, steps) ==
    /\ queue \in Seq(Requests)
    /\ Distinct(queue)
    /\ \A i \in 1..Len(queue) : req[queue[i]].step \in steps

QueuesOK ==
    /\ Queue(limiter, request, {"limiter", "refusing"})
    /\ Queue(fetchers, request, {"keys", "fetching"})
    /\ \A r \in Requests : At(r, "fetching") => fetchers # <<>> /\ fetchers[1] = r

\* Requests wait in the order they began, after those admitted so far.
Order(queue, req) ==
    /\ \A i, j \in 1..Len(queue) :
         i <= j => req[queue[i]].began <= req[queue[j]].began
    /\ \A x \in Requests : req[x].admitted =>
         \A i \in 1..Len(queue) : req[x].began <= req[queue[i]].began

\* The requests of client c that were admitted and began after time m.
Since(req, c, m) ==
    {x \in Requests : req[x].admitted /\ req[x].client = c /\ req[x].began > m}

\* The requests of the queue are those of the client that were admitted and began after
\* time m, and times are those they began at, in order.
Counts(times, req, c, m, queue) ==
    /\ queue \in Seq(Requests)
    /\ Distinct(queue)
    /\ Len(queue) = Len(times)
    /\ \A i \in 1..Len(queue) : times[i] = req[queue[i]].began
    /\ \A i, j \in 1..Len(queue) : i <= j => times[i] <= times[j]
    /\ {queue[i] : i \in 1..Len(queue)} = Since(req, c, m)

\* The deque was last cut for a time that no request which is still to be counted
\* began before.
EntriesOK(c) ==
    \E m \in Int :
        /\ m <= now
        /\ \A i \in 1..Len(limiter) : m <= request[limiter[i]].began
        /\ \E queue \in Seq(Requests) : Counts(entries[c], request, c, m - Window, queue)

RateOK ==
    /\ entries \in [Clients -> Seq(0..LastArrival)]
    /\ \A c \in Clients : Len(entries[c]) <= Limit
    /\ Order(limiter, request)
    /\ \A c \in Clients : EntriesOK(c)
    /\ \A c \in Clients : \A t \in Int : Cardinality(Admitted(c, t)) <= Limit
    /\ \A r \in Requests : At(r, "refusing") \/ request[r].status = 429 =>
         /\ request[r].client \in Clients
         /\ Cardinality(Admitted(request[r].client, request[r].began)) = Limit

GatewayInv == KeysOK /\ RequestsOK /\ SlotsOK /\ QueuesOK /\ RateOK

-----------------------------------------------------------------------------
(***************************************************************************)
(* Sequences and sets.                                                     *)
(***************************************************************************)

LEMMA Settings ==
    /\ MaxRequests \in Nat
    /\ Limit \in Nat /\ 1 <= Limit
    /\ Window \in Nat /\ 1 <= Window
    /\ Slots \in Nat /\ 1 <= Slots
    /\ RequestTimeout \in Nat /\ 1 <= RequestTimeout
    /\ CacheTTL \in Nat /\ 1 <= CacheTTL
    /\ LastArrival \in Nat
    /\ MaxRotations \in Nat
    /\ Requests \subseteq Nat
    /\ IsFiniteSet(Requests)
<1>1. IsFiniteSet(Requests)
  BY FS_Interval, GatewayAssumption DEF Requests
<1>2. QED
  BY <1>1, GatewayAssumption DEF Requests

LEMMA Times ==
    ASSUME NEW g \in Request
    PROVE  g.began \in Int /\ g.began \in 0..LastArrival /\ g.lag \in Nat
<1>1. g.began \in 0..LastArrival /\ g.lag \in Nat
  BY DEF Request
<1>2. QED
  BY <1>1, Settings

\* Some of the queue's elements, in their order.
Thinned(queue, thin) ==
    \E place \in [1..Len(thin) -> 1..Len(queue)] :
        /\ \A i \in 1..Len(thin) : thin[i] = queue[place[i]]
        /\ \A i, j \in 1..Len(thin) : i <= j => place[i] <= place[j]
        /\ \A i, j \in 1..Len(thin) : place[i] = place[j] => i = j

LEMMA ThinnedSame ==
    ASSUME NEW S, NEW queue \in Seq(S)
    PROVE  Thinned(queue, queue)
<1> DEFINE place == [i \in 1..Len(queue) |-> i]
<1>1. /\ place \in [1..Len(queue) -> 1..Len(queue)]
      /\ \A i \in 1..Len(queue) : queue[i] = queue[place[i]]
      /\ \A i, j \in 1..Len(queue) : i <= j => place[i] <= place[j]
      /\ \A i, j \in 1..Len(queue) : place[i] = place[j] => i = j
  OBVIOUS
<1>2. QED
  BY <1>1 DEF Thinned

LEMMA ThinnedTail ==
    ASSUME NEW S, NEW queue \in Seq(S), queue # <<>>
    PROVE  Thinned(queue, Tail(queue)) /\ Tail(queue) \in Seq(S)
<1> DEFINE place == [i \in 1..Len(Tail(queue)) |-> i + 1]
<1>1. /\ place \in [1..Len(Tail(queue)) -> 1..Len(queue)]
      /\ \A i \in 1..Len(Tail(queue)) : Tail(queue)[i] = queue[place[i]]
      /\ \A i, j \in 1..Len(Tail(queue)) : i <= j => place[i] <= place[j]
      /\ \A i, j \in 1..Len(Tail(queue)) : place[i] = place[j] => i = j
  OBVIOUS
<1>2. Thinned(queue, Tail(queue))
  BY <1>1 DEF Thinned
<1>3. QED
  BY <1>2

\* What is left when an element goes.
LEMMA Removal ==
    ASSUME NEW S, NEW queue \in Seq(S), Distinct(queue), NEW k \in 1..Len(queue)
    PROVE  /\ Without(queue, queue[k]) \in Seq(S)
           /\ Len(Without(queue, queue[k])) = Len(queue) - 1
           /\ \A i \in 1..(Len(queue) - 1) :
                Without(queue, queue[k])[i] = IF i < k THEN queue[i] ELSE queue[i + 1]
<1> DEFINE left == SubSeq(queue, 1, k - 1)
           right == SubSeq(queue, k + 1, Len(queue))
<1>1. {i \in DOMAIN queue : queue[i] = queue[k]} = {k}
  BY DEF Distinct
<1>2. Min({k}) = k
  BY DEF Min
<1>3. Without(queue, queue[k]) = left \o right
  BY <1>1, <1>2 DEF Without, RemoveAt
<1>4. /\ left \in Seq(S) /\ Len(left) = k - 1
      /\ \A i \in 1..(k - 1) : left[i] = queue[i]
  OBVIOUS
<1>5. /\ right \in Seq(S) /\ Len(right) = Len(queue) - k
      /\ \A i \in 1..(Len(queue) - k) : right[i] = queue[i + k]
  OBVIOUS
<1> HIDE DEF left, right
<1>6. /\ left \o right \in Seq(S)
      /\ Len(left \o right) = Len(queue) - 1
      /\ \A i \in 1..(Len(queue) - 1) :
           (left \o right)[i] = IF i <= k - 1 THEN left[i] ELSE right[i - (k - 1)]
  <2>1. /\ left \o right \in Seq(S)
        /\ Len(left \o right) = Len(left) + Len(right)
        /\ \A i \in 1..(Len(left) + Len(right)) :
             (left \o right)[i] = IF i <= Len(left) THEN left[i] ELSE right[i - Len(left)]
    BY <1>4, <1>5, ConcatProperties
  <2>2. Len(left) + Len(right) = Len(queue) - 1
    BY <1>4, <1>5
  <2>3. QED
    BY <2>1, <2>2, <1>4
<1>7. ASSUME NEW i \in 1..(Len(queue) - 1)
      PROVE  (left \o right)[i] = IF i < k THEN queue[i] ELSE queue[i + 1]
  <2>1. CASE i < k
    BY <2>1, <1>4, <1>6
  <2>2. CASE ~(i < k)
    <3>1. i - (k - 1) \in 1..(Len(queue) - k) /\ (i - (k - 1)) + k = i + 1
      BY <2>2
    <3>2. right[i - (k - 1)] = queue[i + 1]
      BY <3>1, <1>5
    <3>3. ~(i <= k - 1)
      BY <2>2
    <3>4. (left \o right)[i] = right[i - (k - 1)]
      BY <3>3, <1>6
    <3>5. QED
      BY <2>2, <3>2, <3>4
  <2>3. QED
    BY <2>1, <2>2
<1>8. QED
  BY <1>3, <1>6, <1>7

LEMMA ThinnedWithout ==
    ASSUME NEW S, NEW queue \in Seq(S), Distinct(queue), NEW r
    PROVE  /\ Without(queue, r) \in Seq(S)
           /\ Thinned(queue, Without(queue, r))
           /\ \A i \in 1..Len(Without(queue, r)) : Without(queue, r)[i] # r
           /\ queue # <<>> /\ queue[1] # r
                => Without(queue, r) # <<>> /\ Without(queue, r)[1] = queue[1]
<1>1. CASE \A i \in 1..Len(queue) : queue[i] # r
  <2>1. {i \in DOMAIN queue : queue[i] = r} = {}
    BY <1>1
  <2>2. Without(queue, r) = queue
    BY <2>1 DEF Without
  <2>3. QED
    BY <1>1, <2>2, ThinnedSame
<1>2. ASSUME NEW k \in 1..Len(queue), queue[k] = r
      PROVE  /\ Without(queue, r) \in Seq(S)
             /\ Thinned(queue, Without(queue, r))
             /\ \A i \in 1..Len(Without(queue, r)) : Without(queue, r)[i] # r
             /\ queue # <<>> /\ queue[1] # r
                  => Without(queue, r) # <<>> /\ Without(queue, r)[1] = queue[1]
  <2> DEFINE thin == Without(queue, r)
             place == [i \in 1..Len(thin) |-> IF i < k THEN i ELSE i + 1]
  <2>1. /\ thin \in Seq(S)
        /\ Len(thin) = Len(queue) - 1
        /\ \A i \in 1..(Len(queue) - 1) : thin[i] = IF i < k THEN queue[i] ELSE queue[i + 1]
    BY <1>2, Removal
  <2> HIDE DEF thin
  <2>2. Len(queue) \in Nat /\ k \in Nat /\ 1 <= k /\ k <= Len(queue)
    OBVIOUS
  <2>3. /\ place \in [1..Len(thin) -> 1..Len(queue)]
        /\ \A i \in 1..Len(thin) : thin[i] = queue[place[i]]
        /\ \A i, j \in 1..Len(thin) : i <= j => place[i] <= place[j]
        /\ \A i, j \in 1..Len(thin) : place[i] = place[j] => i = j
    BY <2>1, <2>2
  <2>4. Thinned(queue, thin)
    BY <2>3 DEF Thinned
  <2>5. ASSUME NEW i \in 1..Len(thin)
        PROVE  thin[i] # r
    <3>1. i \in 1..(Len(queue) - 1)
      BY <2>1
    <3>2. PICK j \in 1..Len(queue) : j # k /\ thin[i] = queue[j]
      BY <2>1, <2>2, <3>1
    <3>3. QED
      BY <1>2, <3>2 DEF Distinct
  <2>6. queue # <<>> /\ queue[1] # r => thin # <<>> /\ thin[1] = queue[1]
    <3>1. SUFFICES ASSUME queue # <<>>, queue[1] # r
                   PROVE  thin # <<>> /\ thin[1] = queue[1]
      OBVIOUS
    <3>2. k # 1
      BY <1>2, <3>1
    <3>3. 1 \in 1..(Len(queue) - 1) /\ 1 < k
      BY <2>2, <3>2
    <3>4. thin[1] = queue[1] /\ Len(thin) >= 1
      BY <2>1, <2>2, <3>3
    <3>5. QED
      BY <3>4, <2>1
  <2>7. thin \in Seq(S) /\ (\A i \in 1..Len(thin) : thin[i] # r)
    BY <2>1, <2>5
  <2>8. QED
    BY <2>4, <2>6, <2>7 DEF thin
<1>3. QED
  BY <1>1, <1>2

\* A set that a sequence lists without repetition has as many elements as the sequence.
LEMMA Listed ==
    ASSUME NEW S, NEW queue \in Seq(S), Distinct(queue)
    PROVE  Cardinality({queue[i] : i \in 1..Len(queue)}) = Len(queue)
<1> DEFINE T == {queue[i] : i \in 1..Len(queue)}
<1>1. queue \in Bijection(1..Len(queue), T)
  BY DEF Distinct, Bijection, Injection, Surjection, IsInjective
<1>2. ExistsBijection(1..Len(queue), T)
  BY <1>1, Zenon DEF ExistsBijection
<1> HIDE DEF T
<1>3. Cardinality(T) = Len(queue)
  BY <1>2, Len(queue) \in Nat, FS_CountingElements
<1>4. QED
  BY <1>3 DEF T
-----------------------------------------------------------------------------
(***************************************************************************)
(* Queues, when requests leave or join them.                               *)
(***************************************************************************)

\* The same requests are admitted, of the same clients and times.
SameAdmissions(req, req2) ==
    \A x \in Requests :
        /\ req2[x].admitted = req[x].admitted
        /\ req[x].admitted => req2[x].client = req[x].client /\ req2[x].began = req[x].began

LEMMA QueueThinned ==
    ASSUME NEW queue, NEW thin, NEW req, NEW req2, NEW steps,
           Queue(queue, req, steps), thin \in Seq(Requests), Thinned(queue, thin),
           \A i \in 1..Len(thin) : req2[thin[i]].step = req[thin[i]].step
    PROVE  Queue(thin, req2, steps)
<1>1. PICK place \in [1..Len(thin) -> 1..Len(queue)] :
        /\ \A i \in 1..Len(thin) : thin[i] = queue[place[i]]
        /\ \A i, j \in 1..Len(thin) : place[i] = place[j] => i = j
  BY DEF Thinned
<1>2. \A i \in 1..Len(thin) : place[i] \in 1..Len(queue)
  BY <1>1
<1>3. Distinct(thin)
  BY <1>1, <1>2 DEF Distinct, Queue
<1>4. \A i \in 1..Len(thin) : req2[thin[i]].step \in steps
  BY <1>1, <1>2 DEF Queue
<1>5. QED
  BY <1>3, <1>4 DEF Queue

LEMMA QueueJoined ==
    ASSUME NEW queue, NEW r \in Requests, NEW req, NEW steps,
           Queue(queue, req, steps), \A i \in 1..Len(queue) : queue[i] # r,
           req[r].step \in steps
    PROVE  Queue(Append(queue, r), req, steps)
<1> DEFINE longer == Append(queue, r)
<1>1. queue \in Seq(Requests) /\ Len(queue) \in Nat
  BY DEF Queue
<1>2. /\ longer \in Seq(Requests) /\ Len(longer) = Len(queue) + 1
      /\ \A i \in 1..Len(queue) : longer[i] = queue[i]
      /\ longer[Len(queue) + 1] = r
  BY <1>1, AppendProperties
<1> HIDE DEF longer
<1>3. \A i \in 1..Len(queue) : queue[i] \in Requests /\ queue[i] # r
  BY <1>1 DEF Queue
<1>4. \A i \in 1..Len(longer) : i \in 1..Len(queue) \/ i = Len(queue) + 1
  BY <1>1, <1>2
<1>5. Distinct(longer)
  BY <1>2, <1>3, <1>4 DEF Distinct, Queue
<1>6. \A i \in 1..Len(longer) : req[longer[i]].step \in steps
  BY <1>2, <1>3, <1>4 DEF Queue
<1>7. QED
  BY <1>2, <1>5, <1>6 DEF Queue, longer

LEMMA OrderThinned ==
    ASSUME NEW queue, NEW thin, NEW req, NEW req2,
           queue \in Seq(Requests), thin \in Seq(Requests), Thinned(queue, thin),
           \A i \in 1..Len(thin) : req2[thin[i]].began = req[thin[i]].began,
           SameAdmissions(req, req2), Order(queue, req)
    PROVE  Order(thin, req2)
<1>1. PICK place \in [1..Len(thin) -> 1..Len(queue)] :
        /\ \A i \in 1..Len(thin) : thin[i] = queue[place[i]]
        /\ \A i, j \in 1..Len(thin) : i <= j => place[i] <= place[j]
  BY DEF Thinned
<1>2. \A i \in 1..Len(thin) :
        place[i] \in 1..Len(queue) /\ req2[thin[i]].began = req[queue[place[i]]].began
  BY <1>1
<1>3. ASSUME NEW i \in 1..Len(thin), NEW j \in 1..Len(thin), i <= j
      PROVE  req2[thin[i]].began <= req2[thin[j]].began
  BY <1>1, <1>2, <1>3 DEF Order
<1>4. ASSUME NEW x \in Requests, req2[x].admitted, NEW i \in 1..Len(thin)
      PROVE  req2[x].began <= req2[thin[i]].began
  BY <1>2, <1>4 DEF Order, SameAdmissions
<1>5. QED
  BY <1>3, <1>4 DEF Order

LEMMA OrderAppended ==
    ASSUME NEW queue \in Seq(Requests), NEW r \in Requests,
           NEW req \in [Requests -> Request], NEW req2 \in [Requests -> Request],
           \A i \in 1..Len(queue) : queue[i] # r,
           \A x \in Requests : x # r => req2[x] = req[x],
           \A x \in Requests : req[x].began <= req2[r].began,
           SameAdmissions(req, req2), Order(queue, req)
    PROVE  Order(Append(queue, r), req2)
<1> DEFINE longer == Append(queue, r)
<1>1. /\ longer \in Seq(Requests) /\ Len(longer) = Len(queue) + 1
      /\ \A i \in 1..Len(queue) : longer[i] = queue[i]
      /\ longer[Len(queue) + 1] = r
  BY AppendProperties
<1>2. \A i \in 1..Len(longer) : i \in 1..Len(queue) \/ i = Len(queue) + 1
  BY <1>1
<1>3. \A x \in Requests : req[x].began \in Int /\ req2[x].began \in Int
  BY Times
<1>4. \A i \in 1..Len(queue) : queue[i] \in Requests /\ req2[longer[i]].began = req[queue[i]].began
  BY <1>1
<1>5. \A x \in Requests : req2[x].began <= req2[r].began
  BY <1>3
<1> HIDE DEF longer
<1>6. ASSUME NEW i \in 1..Len(longer), NEW j \in 1..Len(longer), i <= j
      PROVE  req2[longer[i]].began <= req2[longer[j]].began
  <2>1. CASE j = Len(queue) + 1
    <3>1. longer[i] \in Requests
      BY <1>1
    <3>2. QED
      BY <2>1, <3>1, <1>1, <1>5
  <2>2. CASE j \in 1..Len(queue)
    <3>1. i \in 1..Len(queue)
      BY <2>2, <1>6
    <3>2. QED
      BY <2>2, <3>1, <1>4, <1>6 DEF Order
  <2>3. QED
    BY <2>1, <2>2, <1>2
<1>7. ASSUME NEW x \in Requests, req2[x].admitted, NEW i \in 1..Len(longer)
      PROVE  req2[x].began <= req2[longer[i]].began
  <2>1. CASE i = Len(queue) + 1
    BY <2>1, <1>1, <1>5
  <2>2. CASE i \in 1..Len(queue)
    <3>1. req[x].admitted /\ req2[x].began = req[x].began
      BY <1>7 DEF SameAdmissions
    <3>2. req[x].began <= req[queue[i]].began
      BY <2>2, <3>1 DEF Order
    <3>3. QED
      BY <2>2, <3>1, <3>2, <1>4
  <2>3. QED
    BY <2>1, <2>2, <1>2
<1>8. QED
  BY <1>6, <1>7 DEF Order, longer
-----------------------------------------------------------------------------
(***************************************************************************)
(* What a step of one request leaves as it was.                            *)
(***************************************************************************)

\* Only request r changes.
Moves(r) ==
    /\ request' = [x \in Requests |-> request'[x]]
    /\ \A x \in Requests : x # r => request'[x] = request[x]

LEMMA MovesOne ==
    ASSUME RequestsOK, NEW r \in Requests, NEW g, request' = [request EXCEPT ![r] = g]
    PROVE  Moves(r) /\ request'[r] = g
BY DEF RequestsOK, Moves

LEMMA OneRequest ==
    ASSUME RequestsOK, NEW r \in Requests, Moves(r), RequestOK(request[r])',
           UNCHANGED <<now, provider, seen>>
    PROVE  RequestsOK'
<1>1. ASSUME NEW x \in Requests
      PROVE  RequestOK(request[x])'
  <2>1. CASE x = r
    BY <2>1
  <2>2. CASE x # r
    <3>1. request'[x] = request[x] /\ RequestOK(request[x])
      BY <2>2 DEF Moves, RequestsOK
    <3>2. QED
      BY <3>1 DEF RequestOK
  <2>3. QED
    BY <2>1, <2>2
<1>2. request' \in [Requests -> Request]
  <2>1. \A x \in Requests : request'[x] \in Request
    BY <1>1 DEF RequestOK
  <2>2. QED
    BY <2>1 DEF Moves
<1>3. QED
  BY <1>1, <1>2 DEF RequestsOK

LEMMA SlotsKept ==
    ASSUME SlotsOK, NEW r \in Requests, Moves(r), Inside(r), Inside(r)', slots' = slots
    PROVE  SlotsOK'
<1>1. \A x \in Requests : Inside(x)' = Inside(x)
  BY DEF Moves, Inside, At
<1>2. {x \in Requests : Inside(x)}' = {x \in Requests : Inside(x)}
  BY <1>1
<1>3. QED
  BY <1>2 DEF SlotsOK

LEMMA SlotsLeft ==
    ASSUME SlotsOK, NEW r \in Requests, Moves(r), Inside(r), ~Inside(r)', slots' = slots - 1
    PROVE  SlotsOK'
<1> DEFINE inside == {x \in Requests : Inside(x)}
<1>1. inside' = inside \ {r} /\ r \in inside
  BY DEF Moves, Inside, At
<1>2. IsFiniteSet(inside)
  BY Settings, FS_Subset
<1> HIDE DEF inside
<1>3. Cardinality(inside \ {r}) = Cardinality(inside) - 1 /\ Cardinality(inside) \in Nat
  BY <1>1, <1>2, FS_RemoveElement, FS_CardinalityType
<1>4. Cardinality(inside \ {r}) \in Nat
  BY <1>2, FS_RemoveElement, FS_CardinalityType
<1>5. slots = Cardinality(inside) /\ slots \in 0..Slots
  BY DEF SlotsOK, inside
<1>6. slots' \in 0..Slots /\ slots' = Cardinality(inside')
  BY <1>1, <1>3, <1>4, <1>5, Settings
<1>7. QED
  BY <1>6 DEF SlotsOK, inside

LEMMA SlotsTaken ==
    ASSUME SlotsOK, NEW r \in Requests, Moves(r), ~Inside(r), Inside(r)', slots < Slots,
           slots' = slots + 1
    PROVE  SlotsOK'
<1> DEFINE inside == {x \in Requests : Inside(x)}
<1>1. inside' = inside \cup {r} /\ r \notin inside
  BY DEF Moves, Inside, At
<1>2. IsFiniteSet(inside)
  BY Settings, FS_Subset
<1> HIDE DEF inside
<1>3. Cardinality(inside \cup {r}) = Cardinality(inside) + 1
  BY <1>1, <1>2, FS_AddElement
<1>4. slots = Cardinality(inside) /\ slots \in 0..Slots
  BY DEF SlotsOK, inside
<1>5. slots' \in 0..Slots /\ slots' = Cardinality(inside')
  BY <1>1, <1>3, <1>4, Settings
<1>6. QED
  BY <1>5 DEF SlotsOK, inside

LEMMA AdmittedSame ==
    ASSUME SameAdmissions(request, request'), NEW c, NEW t
    PROVE  /\ Admitted(c, t)' = Admitted(c, t)
           /\ Since(request', c, t) = Since(request, c, t)
BY DEF SameAdmissions, Admitted, Since

\* As long as nobody is counted, the deque stays right, and so do the windows.
LEMMA RateKept ==
    ASSUME RateOK, RequestsOK, now \in Int, now' \in Int, now <= now', entries' = entries,
           request' \in [Requests -> Request], SameAdmissions(request, request'),
           limiter' \in Seq(Requests), Order(limiter', request'),
           \A i \in 1..Len(limiter') :
              \/ now <= request'[limiter'[i]].began
              \/ \E j \in 1..Len(limiter) :
                   request'[limiter'[i]].began = request[limiter[j]].began,
           \A x \in Requests : request'[x].step = "refusing" \/ request'[x].status = 429 =>
              /\ At(x, "refusing") \/ request[x].status = 429
              /\ request'[x].client = request[x].client
              /\ request'[x].began = request[x].began
    PROVE  RateOK'
<1>1. ASSUME NEW c \in Clients
      PROVE  EntriesOK(c)'
  <2>1. PICK m \in Int :
          /\ m <= now
          /\ \A i \in 1..Len(limiter) : m <= request[limiter[i]].began
          /\ \E queue \in Seq(Requests) : Counts(entries[c], request, c, m - Window, queue)
    BY DEF RateOK, EntriesOK
  <2>2. PICK queue \in Seq(Requests) : Counts(entries[c], request, c, m - Window, queue)
    BY <2>1
  <2>3. ASSUME NEW i \in 1..Len(queue)
        PROVE  request'[queue[i]].began = request[queue[i]].began
    <3>1. queue[i] \in Since(request, c, m - Window)
      BY <2>2 DEF Counts
    <3>2. QED
      BY <3>1 DEF Since, SameAdmissions
  <2>4. Since(request', c, m - Window) = Since(request, c, m - Window)
    BY AdmittedSame
  <2>5. Counts(entries'[c], request', c, m - Window, queue)
    BY <2>2, <2>3, <2>4 DEF Counts
  <2>6. ASSUME NEW i \in 1..Len(limiter')
        PROVE  m <= request'[limiter'[i]].began
    <3>1. CASE now <= request'[limiter'[i]].began
      <4>1. limiter'[i] \in Requests
        OBVIOUS
      <4>2. request'[limiter'[i]].began \in Int
        BY <4>1, Times
      <4>3. QED
        BY <3>1, <4>2, <2>1
    <3>2. CASE \E j \in 1..Len(limiter) :
                 request'[limiter'[i]].began = request[limiter[j]].began
      BY <3>2, <2>1
    <3>3. QED
      BY <3>1, <3>2
  <2>7. m <= now'
    BY <2>1
  <2>8. QED
    BY <2>5, <2>6, <2>7 DEF EntriesOK
<1>2. ASSUME NEW c \in Clients, NEW t \in Int
      PROVE  (Cardinality(Admitted(c, t)) <= Limit)'
  BY AdmittedSame DEF RateOK
<1>3. ASSUME NEW x \in Requests, (At(x, "refusing") \/ request[x].status = 429)'
      PROVE  (/\ request[x].client \in Clients
              /\ Cardinality(Admitted(request[x].client, request[x].began)) = Limit)'
  <2>1. /\ At(x, "refusing") \/ request[x].status = 429
        /\ request'[x].client = request[x].client
        /\ request'[x].began = request[x].began
    BY <1>3 DEF At
  <2>2. /\ request[x].client \in Clients
        /\ Cardinality(Admitted(request[x].client, request[x].began)) = Limit
    BY <2>1 DEF RateOK
  <2>3. Admitted(request[x].client, request[x].began)'
          = Admitted(request[x].client, request[x].began)
    BY <2>1, AdmittedSame DEF Admitted, SameAdmissions
  <2>4. QED
    BY <2>1, <2>2, <2>3
<1>4. entries' \in [Clients -> Seq(0..LastArrival)] /\ \A c \in Clients : Len(entries'[c]) <= Limit
  BY DEF RateOK
<1>5. QED
  BY <1>1, <1>2, <1>3, <1>4 DEF RateOK
LEMMA NewFields ==
    /\ New \in Request
    /\ New.step = "new" /\ New.began = 0 /\ New.admitted = FALSE /\ New.fetched = {}
    /\ New.status = 0 /\ New.lag = 0 /\ New.force = FALSE /\ New.kid = "" /\ New.steady = {}
    /\ New.client = ""
<1>1. "new" \in Steps /\ 0 \in Statuses
  BY DEF Steps, Statuses
<1>2. QED
  BY <1>1, Settings DEF New, Request

\* What an answered request still says.
LEMMA LeaveFields ==
    ASSUME RequestsOK, NEW r \in Requests, NEW status \in Statuses,
           Leave(r, status)
    PROVE  /\ Moves(r)
           /\ request'[r] \in Request
           /\ request'[r].step = "done" /\ request'[r].status = status
           /\ request'[r].client = request[r].client
           /\ request'[r].began = request[r].began
           /\ request'[r].admitted = request[r].admitted
           /\ request'[r].fetched = {}
           /\ status = 401 => /\ request'[r].kid = request[r].kid
                              /\ request'[r].steady = request[r].steady
<1> DEFINE kid == IF status = 401 THEN request[r].kid ELSE ""
           steady == IF status = 401 THEN request[r].steady ELSE {}
           client == request[r].client
           began == request[r].began
           admitted == request[r].admitted
           g == [New EXCEPT !.step = "done", !.status = status, !.client = client,
                     !.began = began, !.admitted = admitted, !.kid = kid, !.steady = steady]
<1>1. request' = [request EXCEPT ![r] = g]
  BY DEF Leave
<1>2. request[r] \in Request
  BY DEF RequestsOK
<1>3. /\ client \in Clients \cup {""} /\ request[r].kid \in Keys \cup {""}
      /\ began \in 0..LastArrival /\ admitted \in BOOLEAN
      /\ request[r].steady \in SUBSET Keys
  BY <1>2 DEF Request
<1>4. kid \in Keys \cup {""} /\ steady \in SUBSET Keys
  BY <1>3
<1>5. status = 401 => kid = request[r].kid /\ steady = request[r].steady
  OBVIOUS
<1> HIDE DEF kid, steady, client, began, admitted
<1>6. g \in Request
  <2>1. "done" \in Steps /\ New \in Request
    BY NewFields DEF Steps
  <2>2. client \in Clients \cup {""} /\ began \in 0..LastArrival /\ admitted \in BOOLEAN
    BY <1>3
  <2>3. QED
    BY <2>1, <2>2, <1>4 DEF Request
<1>7. /\ g.step = "done" /\ g.status = status
      /\ g.client = client /\ g.began = began
      /\ g.admitted = admitted /\ g.fetched = {}
      /\ g.kid = kid /\ g.steady = steady
  BY DEF New
<1> HIDE DEF g
<1>8. request' = [x \in Requests |-> request'[x]]
  BY <1>1 DEF RequestsOK
<1>9. (\A x \in Requests : x # r => request'[x] = request[x]) /\ request'[r] = g
  BY <1>1 DEF RequestsOK
<1>10. QED
  BY <1>5, <1>6, <1>7, <1>8, <1>9 DEF Moves, client, began, admitted

LEMMA LeaveKeeps ==
    ASSUME GatewayInv, NEW r \in Requests, NEW status \in Statuses,
           Inside(r), Leave(r, status), UNCHANGED <<now, entries, provider, seen>>,
           status = 429 => At(r, "refusing"),
           status = 401 => request[r].kid \notin request[r].steady
    PROVE  RequestsOK' /\ SlotsOK' /\ QueuesOK' /\ RateOK'
<1> USE DEF GatewayInv
<1>1. /\ Moves(r)
      /\ request'[r] \in Request
      /\ request'[r].step = "done" /\ request'[r].status = status
      /\ request'[r].client = request[r].client
      /\ request'[r].began = request[r].began
      /\ request'[r].admitted = request[r].admitted
      /\ request'[r].fetched = {}
      /\ status = 401 => /\ request'[r].kid = request[r].kid
                         /\ request'[r].steady = request[r].steady
  BY LeaveFields
<1>2. RequestOK(request[r])'
  BY <1>1 DEF RequestsOK, RequestOK
<1>3. RequestsOK'
  BY <1>1, <1>2, OneRequest
<1>4. SlotsOK'
  <2>1. ~Inside(r)' /\ slots' = slots - 1
    BY <1>1 DEF Inside, At, Leave
  <2>2. QED
    BY <1>1, <2>1, SlotsLeft
<1>5. /\ limiter' = Without(limiter, r) /\ fetchers' = Without(fetchers, r)
      /\ limiter \in Seq(Requests) /\ Distinct(limiter)
      /\ fetchers \in Seq(Requests) /\ Distinct(fetchers)
  BY DEF Leave, QueuesOK, Queue
<1>6. /\ limiter' \in Seq(Requests) /\ Thinned(limiter, limiter')
      /\ \A i \in 1..Len(limiter') : limiter'[i] # r
  BY <1>5, ThinnedWithout
<1>7. /\ fetchers' \in Seq(Requests) /\ Thinned(fetchers, fetchers')
      /\ \A i \in 1..Len(fetchers') : fetchers'[i] # r
      /\ fetchers # <<>> /\ fetchers[1] # r
           => fetchers' # <<>> /\ fetchers'[1] = fetchers[1]
  BY <1>5, ThinnedWithout
<1>8. /\ \A i \in 1..Len(limiter') : request'[limiter'[i]] = request[limiter'[i]]
      /\ \A i \in 1..Len(fetchers') : request'[fetchers'[i]] = request[fetchers'[i]]
  BY <1>1, <1>6, <1>7 DEF Moves
<1>9. QueuesOK'
  <2>1. Queue(limiter', request', {"limiter", "refusing"})
    BY <1>6, <1>8, QueueThinned DEF QueuesOK
  <2>2. Queue(fetchers', request', {"keys", "fetching"})
    BY <1>7, <1>8, QueueThinned DEF QueuesOK
  <2>3. ASSUME NEW x \in Requests, At(x, "fetching")'
        PROVE  fetchers' # <<>> /\ fetchers'[1] = x
    <3>1. x # r /\ At(x, "fetching")
      BY <1>1, <2>3 DEF At, Moves
    <3>2. QED
      BY <3>1, <1>7 DEF QueuesOK
  <2>4. QED
    BY <2>1, <2>2, <2>3 DEF QueuesOK
<1>10. RateOK'
  <2>1. SameAdmissions(request, request')
    BY <1>1 DEF SameAdmissions, Moves
  <2>2. Order(limiter', request')
    BY <2>1, <1>5, <1>6, <1>8, OrderThinned DEF RateOK
  <2>3. \A i \in 1..Len(limiter') : \E j \in 1..Len(limiter) :
          request'[limiter'[i]].began = request[limiter[j]].began
    <3>1. PICK place \in [1..Len(limiter') -> 1..Len(limiter)] :
            \A i \in 1..Len(limiter') : limiter'[i] = limiter[place[i]]
      BY <1>6 DEF Thinned
    <3>2. \A i \in 1..Len(limiter') : place[i] \in 1..Len(limiter)
      BY <3>1
    <3>3. QED
      BY <3>1, <3>2, <1>8
  <2>4. \A x \in Requests : request'[x].step = "refusing" \/ request'[x].status = 429 =>
          /\ At(x, "refusing") \/ request[x].status = 429
          /\ request'[x].client = request[x].client
          /\ request'[x].began = request[x].began
    BY <1>1 DEF Moves, At
  <2>5. now \in Int /\ now' \in Int /\ now <= now' /\ entries' = entries
    BY Settings DEF KeysOK
  <2>6. request' \in [Requests -> Request]
    BY <1>3 DEF RequestsOK
  <2>7. QED
    BY <1>6, <2>1, <2>2, <2>3, <2>4, <2>5, <2>6, RateKept
<1>11. QED
  BY <1>3, <1>4, <1>9, <1>10

\* A request that was counted goes on inside: its own record, the cache's lock, and no
\* more.
LEMMA InsideKeeps ==
    ASSUME GatewayInv, NEW r \in Requests, Moves(r), RequestOK(request[r])',
           request[r].step \in {"auth", "keys", "fetching"},
           request'[r].step \in {"keys", "fetching", "handling"},
           request'[r].client = request[r].client, request'[r].began = request[r].began,
           UNCHANGED <<now, slots, entries, limiter, provider, seen>>
    PROVE  /\ RequestsOK' /\ SlotsOK' /\ RateOK'
           /\ Queue(limiter', request', {"limiter", "refusing"})
<1> USE DEF GatewayInv
<1>1. RequestsOK'
  BY OneRequest
<1>2. SlotsOK'
  <2>1. Inside(r) /\ Inside(r)'
    BY DEF Inside, At
  <2>2. QED
    BY <2>1, SlotsKept
<1>3. limiter \in Seq(Requests) /\ \A i \in 1..Len(limiter) : limiter[i] # r
  BY DEF QueuesOK, Queue
<1>4. \A i \in 1..Len(limiter) : request'[limiter[i]] = request[limiter[i]]
  BY <1>3 DEF Moves
<1>5. Thinned(limiter, limiter)
  BY <1>3, ThinnedSame
<1>6. Queue(limiter, request', {"limiter", "refusing"})
  BY <1>3, <1>4, <1>5, QueueThinned DEF QueuesOK
<1>7. request[r].admitted /\ request'[r].admitted /\ request[r] \in Request /\ request'[r] \in Request
      /\ request'[r].status = 0
  BY DEF RequestsOK, RequestOK
<1>8. SameAdmissions(request, request')
  <2>1. request[r].admitted \in BOOLEAN /\ request'[r].admitted \in BOOLEAN
    BY <1>7 DEF Request
  <2>2. QED
    BY <1>7, <2>1 DEF SameAdmissions, Moves
<1>9. Order(limiter, request')
  BY <1>3, <1>4, <1>5, <1>8, OrderThinned DEF RateOK
<1>10. \A x \in Requests : request'[x].step = "refusing" \/ request'[x].status = 429 =>
         /\ At(x, "refusing") \/ request[x].status = 429
         /\ request'[x].client = request[x].client
         /\ request'[x].began = request[x].began
  BY <1>7 DEF Moves, At
<1>11. now \in Int /\ now' \in Int /\ now <= now' /\ entries' = entries
  BY Settings DEF KeysOK
<1>12. request' \in [Requests -> Request]
  BY <1>1 DEF RequestsOK
<1>13. \A i \in 1..Len(limiter') : \E j \in 1..Len(limiter) :
         request'[limiter'[i]].began = request[limiter[j]].began
  BY <1>4
<1>14. RateOK'
  BY <1>3, <1>8, <1>9, <1>10, <1>11, <1>12, <1>13, RateKept
<1>15. QED
  BY <1>1, <1>2, <1>6, <1>14
-----------------------------------------------------------------------------
(***************************************************************************)
(* The actions.                                                            *)
(***************************************************************************)

LEMMA KeysKept ==
    ASSUME KeysOK, UNCHANGED <<now, provider, cache, seen, rotations>>
    PROVE  KeysOK'
BY DEF KeysOK

LEMMA RefusedKeeps ==
    ASSUME GatewayInv, NEW r \in Requests, Refused(r)
    PROVE  GatewayInv'
<1>1. Inside(r) /\ At(r, "refusing") /\ 429 \in Statuses
  BY DEF Refused, Inside, At, Statuses
<1>2. RequestsOK' /\ SlotsOK' /\ QueuesOK' /\ RateOK'
  BY <1>1, LeaveKeeps DEF Refused
<1>3. KeysOK'
  BY KeysKept DEF Refused, GatewayInv
<1>4. QED
  BY <1>2, <1>3 DEF GatewayInv

LEMMA FetchFailsKeeps ==
    ASSUME GatewayInv, NEW r \in Requests, FetchFails(r)
    PROVE  GatewayInv'
<1>1. Inside(r) /\ 500 \in Statuses
  BY DEF FetchFails, Inside, At, Statuses
<1>2. RequestsOK' /\ SlotsOK' /\ QueuesOK' /\ RateOK'
  BY <1>1, LeaveKeeps DEF FetchFails
<1>3. KeysOK'
  BY KeysKept DEF FetchFails, GatewayInv
<1>4. QED
  BY <1>2, <1>3 DEF GatewayInv

LEMMA RespondKeeps ==
    ASSUME GatewayInv, NEW r \in Requests, Respond(r)
    PROVE  GatewayInv'
<1>1. Inside(r) /\ 200 \in Statuses
  BY DEF Respond, Inside, At, Statuses
<1>2. RequestsOK' /\ SlotsOK' /\ QueuesOK' /\ RateOK'
  BY <1>1, LeaveKeeps DEF Respond
<1>3. KeysOK'
  BY KeysKept DEF Respond, GatewayInv
<1>4. QED
  BY <1>2, <1>3 DEF GatewayInv

LEMMA TimeOutKeeps ==
    ASSUME GatewayInv, NEW r \in Requests, TimeOut(r)
    PROVE  GatewayInv'
<1>1. Inside(r) /\ 504 \in Statuses
  BY DEF TimeOut, Overdue, Statuses
<1>2. RequestsOK' /\ SlotsOK' /\ QueuesOK' /\ RateOK'
  BY <1>1, LeaveKeeps DEF TimeOut
<1>3. KeysOK'
  BY KeysKept DEF TimeOut, GatewayInv
<1>4. QED
  BY <1>2, <1>3 DEF GatewayInv

\* The provider's answer is kept with the request.
LEMMA AnswerKeeps ==
    ASSUME GatewayInv, NEW r \in Requests, Answer(r)
    PROVE  GatewayInv'
<1> USE DEF GatewayInv
<1> DEFINE g == [request[r] EXCEPT !.fetched = provider]
<1>1. request' = [request EXCEPT ![r] = g]
  BY DEF Answer, RequestsOK
<1>2. /\ request[r] \in Request /\ RequestOK(request[r]) /\ request[r].step = "fetching"
      /\ provider \in SUBSET Keys
  BY DEF RequestsOK, KeysOK, Answer, At
<1>3. g \in Request
  BY <1>2 DEF Request
<1>4. /\ g.step = "fetching" /\ g.fetched = provider
      /\ g.client = request[r].client /\ g.began = request[r].began
      /\ g.admitted = request[r].admitted /\ g.status = request[r].status
      /\ g.steady = request[r].steady
  BY <1>2 DEF Request
<1> HIDE DEF g
<1>5. request' = [x \in Requests |-> request'[x]]
  BY <1>1 DEF RequestsOK
<1>6. (\A x \in Requests : x # r => request'[x] = request[x]) /\ request'[r] = g
  BY <1>1 DEF RequestsOK
<1>7. Moves(r)
  BY <1>5, <1>6 DEF Moves
<1>8. RequestOK(g)
  <2>1. \A k \in provider : g.began <= seen[k]
    BY <1>2, <1>4 DEF KeysOK, RequestOK
  <2>2. QED
    BY <1>2, <1>3, <1>4, <2>1 DEF RequestOK
<1>9. RequestOK(request[r])'
  BY <1>6, <1>8 DEF RequestOK, Answer
<1>10. /\ RequestsOK' /\ SlotsOK' /\ RateOK'
       /\ Queue(limiter', request', {"limiter", "refusing"})
  BY <1>2, <1>4, <1>6, <1>7, <1>9, InsideKeeps DEF Answer
<1>11. QueuesOK'
  <2>1. fetchers' = fetchers /\ fetchers \in Seq(Requests)
    BY DEF Answer, QueuesOK, Queue
  <2>2. \A i \in 1..Len(fetchers) : request'[fetchers[i]].step = request[fetchers[i]].step
    BY <1>2, <1>4, <1>6, <2>1
  <2>3. Queue(fetchers', request', {"keys", "fetching"})
    BY <2>1, <2>2, ThinnedSame, QueueThinned DEF QueuesOK
  <2>4. \A x \in Requests : At(x, "fetching")' => At(x, "fetching")
    BY <1>2, <1>6 DEF At
  <2>5. QED
    BY <1>10, <2>1, <2>3, <2>4 DEF QueuesOK
<1>12. KeysOK'
  BY KeysKept DEF Answer
<1>13. QED
  BY <1>10, <1>11, <1>12
\* A request whose key is found goes to the endpoint.
LEMMA AcceptedOK ==
    ASSUME KeysOK, RequestsOK, NEW r \in Requests, NEW kid \in Keys, Inside(r),
           now - seen[kid] < CacheTTL + RequestTimeout
    PROVE  /\ RequestOK(Accepted(r, kid))
           /\ Accepted(r, kid).step = "handling"
           /\ Accepted(r, kid).client = request[r].client
           /\ Accepted(r, kid).began = request[r].began
<1> DEFINE client == request[r].client
           began == request[r].began
           lag == now - seen[kid]
           g == [New EXCEPT !.step = "handling", !.client = client, !.began = began,
                            !.admitted = TRUE, !.lag = lag]
<1>1. request[r] \in Request /\ RequestOK(request[r]) /\ At(r, "new") = FALSE /\ At(r, "done") = FALSE
  BY DEF RequestsOK, Inside, At
<1>2. client \in Clients /\ began \in 0..LastArrival /\ began <= now /\ now <= began + RequestTimeout
  <2>1. client \in Clients /\ now <= began + RequestTimeout /\ began <= now
    BY <1>1 DEF RequestOK, At
  <2>2. QED
    BY <1>1, <2>1, Times
<1>3. lag \in Nat /\ lag < CacheTTL + RequestTimeout
  <2>1. seen[kid] \in 0..now /\ now \in Nat
    BY Settings DEF KeysOK
  <2>2. QED
    BY <2>1
<1>4. Accepted(r, kid) = g
  BY DEF Accepted
<1> HIDE DEF client, began, lag
<1>5. g \in Request
  <2>1. "handling" \in Steps /\ New \in Request
    BY NewFields DEF Steps
  <2>2. QED
    BY <2>1, <1>2, <1>3 DEF Request
<1>6. /\ g.step = "handling" /\ g.client = client /\ g.began = began /\ g.admitted
      /\ g.lag = lag /\ g.fetched = {} /\ g.steady = {} /\ g.status = 0
  BY DEF New
<1> HIDE DEF g
<1>7. RequestOK(g)
  BY <1>2, <1>3, <1>5, <1>6 DEF RequestOK
<1>8. QED
  BY <1>4, <1>6, <1>7 DEF client, began

\* A request that was counted waits for the cache's lock, or for the provider.
LEMMA StillInside ==
    ASSUME RequestsOK, NEW r \in Requests, Inside(r), request[r].admitted,
           NEW g \in Request, g.step \in {"keys", "fetching"},
           g.client = request[r].client, g.began = request[r].began,
           g.admitted = request[r].admitted, g.status = request[r].status,
           g.steady = request[r].steady,
           g.fetched = {} \/ g.fetched = request[r].fetched
    PROVE  RequestOK(g)
<1>1. RequestOK(request[r]) /\ At(r, "new") = FALSE /\ At(r, "done") = FALSE
  BY DEF RequestsOK, Inside, At
<1>2. /\ g.began <= now /\ now <= g.began + RequestTimeout /\ g.steady \subseteq provider
      /\ g.status = 0 /\ g.client \in Clients /\ g.admitted
      /\ g.fetched # {} => g.steady \subseteq g.fetched
      /\ \A k \in g.fetched : g.began <= seen[k]
  BY <1>1 DEF RequestOK, At
<1>3. g.step # "handling" /\ g.step \notin {"new", "limiter", "refusing"}
  OBVIOUS
<1>4. QED
  BY <1>2, <1>3 DEF RequestOK

\* A request that waited for the cache's lock first is not in the queue any more, and
\* nobody fetches.
LEMMA FetchersTail ==
    ASSUME QueuesOK, NEW r \in Requests, Has(fetchers, r), Moves(r)
    PROVE  /\ Tail(fetchers) \in Seq(Requests)
           /\ \A i \in 1..Len(Tail(fetchers)) : Tail(fetchers)[i] # r
           /\ \A x \in Requests : x # r => ~At(x, "fetching")'
           /\ Queue(Tail(fetchers), request', {"keys", "fetching"})
<1>1. /\ fetchers \in Seq(Requests) /\ fetchers # <<>> /\ fetchers[1] = r
      /\ Distinct(fetchers)
  BY DEF QueuesOK, Queue, Has
<1>2. /\ Tail(fetchers) \in Seq(Requests) /\ Thinned(fetchers, Tail(fetchers))
  BY <1>1, ThinnedTail
<1>3. \A i \in 1..Len(Tail(fetchers)) :
        Tail(fetchers)[i] = fetchers[i + 1] /\ i + 1 \in 1..Len(fetchers) /\ i + 1 # 1
  BY <1>1
<1>4. \A i \in 1..Len(Tail(fetchers)) : Tail(fetchers)[i] # r /\ Tail(fetchers)[i] \in Requests
  BY <1>1, <1>2, <1>3 DEF Distinct
<1>5. \A x \in Requests : x # r => ~At(x, "fetching")'
  BY <1>1 DEF QueuesOK, Moves, At
<1>6. \A i \in 1..Len(Tail(fetchers)) :
        request'[Tail(fetchers)[i]].step = request[Tail(fetchers)[i]].step
  BY <1>4 DEF Moves
<1>7. Queue(Tail(fetchers), request', {"keys", "fetching"})
  BY <1>2, <1>6, QueueThinned DEF QueuesOK
<1>8. QED
  BY <1>2, <1>4, <1>5, <1>7

\* The steps of the one that has the cache's lock, with the keys it looks in.
LEMMA LookUpKeeps ==
    ASSUME GatewayInv, NEW r \in Requests, request[r].step \in {"keys", "fetching"},
           Has(fetchers, r), NEW keys \in SUBSET Keys, LookUp(r, keys),
           UNCHANGED <<now, entries, provider, seen>>,
           \A k \in keys : now - seen[k] < CacheTTL + RequestTimeout,
           request[r].force => request[r].steady \subseteq keys
    PROVE  RequestsOK' /\ SlotsOK' /\ QueuesOK' /\ RateOK'
<1> USE DEF GatewayInv
<1>1. Inside(r) /\ request[r].admitted /\ request[r] \in Request
  BY DEF RequestsOK, RequestOK, Inside, At
<1>2. CASE /\ request[r].kid \in keys
           /\ request' = [request EXCEPT ![r] = Accepted(r, request[r].kid)]
           /\ fetchers' = Tail(fetchers)
           /\ UNCHANGED <<slots, limiter>>
  <2> DEFINE g == Accepted(r, request[r].kid)
  <2>1. /\ RequestOK(g) /\ g.step = "handling"
        /\ g.client = request[r].client /\ g.began = request[r].began
    BY <1>1, <1>2, AcceptedOK
  <2> HIDE DEF g
  <2>2. request' = [request EXCEPT ![r] = g]
    BY <1>2 DEF g
  <2>3. request' = [x \in Requests |-> request'[x]]
    BY <2>2 DEF RequestsOK
  <2>4. (\A x \in Requests : x # r => request'[x] = request[x]) /\ request'[r] = g
    BY <2>2 DEF RequestsOK
  <2>5. Moves(r)
    BY <2>3, <2>4 DEF Moves
  <2>6. RequestOK(request[r])'
    BY <2>1, <2>4 DEF RequestOK
  <2>7. /\ RequestsOK' /\ SlotsOK' /\ RateOK'
        /\ Queue(limiter', request', {"limiter", "refusing"})
    BY <1>2, <2>1, <2>4, <2>5, <2>6, InsideKeeps
  <2>8. /\ \A x \in Requests : x # r => ~At(x, "fetching")'
        /\ Queue(fetchers', request', {"keys", "fetching"})
    BY <1>2, <2>5, FetchersTail
  <2>9. ~At(r, "fetching")'
    BY <2>1, <2>4 DEF At
  <2>10. QueuesOK'
    BY <2>7, <2>8, <2>9 DEF QueuesOK
  <2>11. QED
    BY <2>7, <2>10
<1>3. CASE /\ request[r].kid \notin keys /\ ~request[r].force
           /\ request' = [request EXCEPT ![r].step = "keys", ![r].force = TRUE,
                                         ![r].fetched = {}]
           /\ fetchers' = Append(Tail(fetchers), r)
           /\ UNCHANGED <<slots, limiter>>
  <2> DEFINE g == [request[r] EXCEPT !.step = "keys", !.force = TRUE, !.fetched = {}]
  <2>1. request' = [request EXCEPT ![r] = g]
    BY <1>3 DEF RequestsOK
  <2>2. g \in Request
    <3>1. "keys" \in Steps
      BY DEF Steps
    <3>2. QED
      BY <3>1, <1>1 DEF Request
  <2>3. /\ g.step = "keys" /\ g.client = request[r].client /\ g.began = request[r].began
        /\ g.admitted = request[r].admitted /\ g.status = request[r].status
        /\ g.steady = request[r].steady /\ g.fetched = {}
    BY <1>1 DEF Request
  <2> HIDE DEF g
  <2>4. request' = [x \in Requests |-> request'[x]]
    BY <2>1 DEF RequestsOK
  <2>5. (\A x \in Requests : x # r => request'[x] = request[x]) /\ request'[r] = g
    BY <2>1 DEF RequestsOK
  <2>6. Moves(r)
    BY <2>4, <2>5 DEF Moves
  <2>7. RequestOK(request[r])'
    <3>1. RequestOK(g)
      BY <1>1, <2>2, <2>3, StillInside
    <3>2. QED
      BY <2>5, <3>1 DEF RequestOK
  <2>8. /\ RequestsOK' /\ SlotsOK' /\ RateOK'
        /\ Queue(limiter', request', {"limiter", "refusing"})
    BY <1>3, <2>3, <2>5, <2>6, <2>7, InsideKeeps
  <2>9. /\ \A x \in Requests : x # r => ~At(x, "fetching")'
        /\ Queue(Tail(fetchers), request', {"keys", "fetching"})
        /\ Tail(fetchers) \in Seq(Requests)
        /\ \A i \in 1..Len(Tail(fetchers)) : Tail(fetchers)[i] # r
    BY <2>6, FetchersTail
  <2>10. Queue(fetchers', request', {"keys", "fetching"})
    BY <1>3, <2>3, <2>5, <2>9, QueueJoined
  <2>11. ~At(r, "fetching")'
    BY <2>3, <2>5 DEF At
  <2>12. QueuesOK'
    BY <2>8, <2>9, <2>10, <2>11 DEF QueuesOK
  <2>13. QED
    BY <2>8, <2>12
<1>4. CASE /\ request[r].kid \notin keys /\ request[r].force
           /\ Leave(r, 401)
  <2>1. request[r].kid \notin request[r].steady
    BY <1>4
  <2>2. 401 \in Statuses
    BY DEF Statuses
  <2>3. QED
    BY <1>1, <1>4, <2>1, <2>2, LeaveKeeps
<1>5. QED
  BY <1>2, <1>3, <1>4 DEF LookUp
LEMMA AuthenticateKeeps ==
    ASSUME GatewayInv, NEW r \in Requests, Authenticate(r)
    PROVE  GatewayInv'
<1> USE DEF GatewayInv
<1>1. Inside(r) /\ request[r].admitted /\ request[r] \in Request /\ request[r].step = "auth"
  BY DEF RequestsOK, RequestOK, Authenticate, Inside, At
<1>2. PICK kid \in Keys :
        IF Unexpired /\ kid \in cache.keys
        THEN /\ request' = [request EXCEPT ![r] = Accepted(r, kid)]
             /\ UNCHANGED fetchers
        ELSE /\ request' = [request EXCEPT ![r].step = "keys", ![r].kid = kid,
                                           ![r].force = Unexpired]
             /\ fetchers' = Append(fetchers, r)
  BY DEF Authenticate
<1>3. UNCHANGED <<now, slots, entries, limiter, provider, cache, seen, rotations>>
  BY DEF Authenticate
<1>4. /\ fetchers \in Seq(Requests)
      /\ \A i \in 1..Len(fetchers) : fetchers[i] \in Requests /\ fetchers[i] # r
  BY <1>1 DEF QueuesOK, Queue
<1>5. ASSUME Moves(r)
      PROVE  Queue(fetchers, request', {"keys", "fetching"})
  <2>1. \A i \in 1..Len(fetchers) : request'[fetchers[i]].step = request[fetchers[i]].step
    BY <1>4, <1>5 DEF Moves
  <2>2. QED
    BY <1>4, <2>1, ThinnedSame, QueueThinned DEF QueuesOK
<1>6. ASSUME Moves(r), ~At(r, "fetching")', fetchers' = fetchers \/ fetchers' = Append(fetchers, r)
      PROVE  \A x \in Requests : At(x, "fetching")' => fetchers' # <<>> /\ fetchers'[1] = x
  <2>1. \A x \in Requests : At(x, "fetching")' => fetchers # <<>> /\ fetchers[1] = x
    BY <1>6 DEF Moves, At, QueuesOK
  <2>2. fetchers # <<>> => fetchers' # <<>> /\ fetchers'[1] = fetchers[1]
    BY <1>4, <1>6, AppendProperties
  <2>3. QED
    BY <2>1, <2>2
<1>7. CASE Unexpired /\ kid \in cache.keys
  <2> DEFINE g == Accepted(r, kid)
  <2>1. now - seen[kid] < CacheTTL + RequestTimeout
    <3>1. cache.expires <= seen[kid] + CacheTTL + RequestTimeout /\ now < cache.expires
      BY <1>7 DEF KeysOK, Unexpired
    <3>2. now \in Int /\ seen[kid] \in Int /\ cache.expires \in Int
      BY Settings DEF KeysOK
    <3>3. QED
      BY <3>1, <3>2, Settings
  <2>2. /\ RequestOK(g) /\ g.step = "handling"
        /\ g.client = request[r].client /\ g.began = request[r].began
    BY <1>1, <2>1, AcceptedOK
  <2> HIDE DEF g
  <2>3. request' = [request EXCEPT ![r] = g] /\ fetchers' = fetchers
    BY <1>2, <1>7 DEF g
  <2>4. request' = [x \in Requests |-> request'[x]]
    BY <2>3 DEF RequestsOK
  <2>5. (\A x \in Requests : x # r => request'[x] = request[x]) /\ request'[r] = g
    BY <2>3 DEF RequestsOK
  <2>6. Moves(r)
    BY <2>4, <2>5 DEF Moves
  <2>7. RequestOK(request[r])'
    BY <2>2, <2>5, <1>3 DEF RequestOK
  <2>8. /\ RequestsOK' /\ SlotsOK' /\ RateOK'
        /\ Queue(limiter', request', {"limiter", "refusing"})
    BY <1>1, <1>3, <2>2, <2>5, <2>6, <2>7, InsideKeeps
  <2>9. ~At(r, "fetching")'
    BY <2>2, <2>5 DEF At
  <2>10. QueuesOK'
    BY <1>5, <1>6, <2>3, <2>6, <2>8, <2>9 DEF QueuesOK
  <2>11. QED
    BY <1>3, <2>8, <2>10, KeysKept
<1>8. CASE ~(Unexpired /\ kid \in cache.keys)
  <2> DEFINE force == Unexpired
             g == [request[r] EXCEPT !.step = "keys", !.kid = kid, !.force = force]
  <2>1. request' = [request EXCEPT ![r] = g] /\ fetchers' = Append(fetchers, r)
    BY <1>2, <1>8 DEF RequestsOK
  <2>2. force \in BOOLEAN
    BY DEF Unexpired
  <2> HIDE DEF force
  <2>3. g \in Request
    <3>1. "keys" \in Steps
      BY DEF Steps
    <3>2. QED
      BY <3>1, <2>2, <1>1 DEF Request
  <2>4. /\ g.step = "keys" /\ g.client = request[r].client /\ g.began = request[r].began
        /\ g.admitted = request[r].admitted /\ g.status = request[r].status
        /\ g.steady = request[r].steady /\ g.fetched = request[r].fetched
    BY <1>1 DEF Request
  <2> HIDE DEF g
  <2>5. RequestOK(g)
    BY <1>1, <2>3, <2>4, StillInside
  <2>6. request' = [x \in Requests |-> request'[x]]
    BY <2>1 DEF RequestsOK
  <2>7. (\A x \in Requests : x # r => request'[x] = request[x]) /\ request'[r] = g
    BY <2>1 DEF RequestsOK
  <2>8. Moves(r)
    BY <2>6, <2>7 DEF Moves
  <2>9. RequestOK(request[r])'
    BY <2>5, <2>7, <1>3 DEF RequestOK
  <2>10. /\ RequestsOK' /\ SlotsOK' /\ RateOK'
         /\ Queue(limiter', request', {"limiter", "refusing"})
    BY <1>1, <1>3, <2>4, <2>7, <2>8, <2>9, InsideKeeps
  <2>11. ~At(r, "fetching")' /\ request'[r].step \in {"keys", "fetching"}
    BY <2>4, <2>7 DEF At
  <2>12. Queue(fetchers', request', {"keys", "fetching"})
    BY <1>4, <1>5, <2>1, <2>8, <2>11, QueueJoined
  <2>13. QueuesOK'
    BY <1>6, <2>1, <2>8, <2>10, <2>11, <2>12 DEF QueuesOK
  <2>14. QED
    BY <1>3, <2>10, <2>13, KeysKept
<1>9. QED
  BY <1>7, <1>8

LEMMA TakeLockKeeps ==
    ASSUME GatewayInv, NEW r \in Requests, TakeLock(r)
    PROVE  GatewayInv'
<1> USE DEF GatewayInv
<1>1. /\ request[r].step = "keys" /\ request[r] \in Request /\ Has(fetchers, r)
      /\ request[r].admitted /\ Inside(r)
      /\ UNCHANGED <<now, entries, provider, cache, seen, rotations>>
  BY DEF TakeLock, At, Inside, RequestsOK, RequestOK
<1>2. KeysOK'
  BY <1>1, KeysKept
<1>3. CASE ~request[r].force /\ Unexpired
  <2>1. LookUp(r, cache.keys) /\ cache.keys \in SUBSET Keys
    BY <1>3 DEF TakeLock, KeysOK
  <2>2. ASSUME NEW k \in cache.keys
        PROVE  now - seen[k] < CacheTTL + RequestTimeout
    <3>1. cache.expires <= seen[k] + CacheTTL + RequestTimeout /\ now < cache.expires
      BY <1>3 DEF KeysOK, Unexpired
    <3>2. now \in Int /\ seen[k] \in Int /\ cache.expires \in Int
      BY <2>1, Settings DEF KeysOK
    <3>3. QED
      BY <3>1, <3>2, Settings
  <2>3. RequestsOK' /\ SlotsOK' /\ QueuesOK' /\ RateOK'
    BY <1>1, <1>3, <2>1, <2>2, LookUpKeeps
  <2>4. QED
    BY <1>2, <2>3
<1>4. CASE ~(~request[r].force /\ Unexpired)
  <2> DEFINE g == [request[r] EXCEPT !.step = "fetching"]
  <2>1. request' = [request EXCEPT ![r] = g] /\ UNCHANGED <<slots, limiter, fetchers>>
    BY <1>4 DEF TakeLock, RequestsOK
  <2>2. g \in Request
    <3>1. "fetching" \in Steps
      BY DEF Steps
    <3>2. QED
      BY <3>1, <1>1 DEF Request
  <2>3. /\ g.step = "fetching" /\ g.client = request[r].client /\ g.began = request[r].began
        /\ g.admitted = request[r].admitted /\ g.status = request[r].status
        /\ g.steady = request[r].steady /\ g.fetched = request[r].fetched
    BY <1>1 DEF Request
  <2> HIDE DEF g
  <2>4. RequestOK(g)
    BY <1>1, <2>2, <2>3, StillInside
  <2>5. request' = [x \in Requests |-> request'[x]]
    BY <2>1 DEF RequestsOK
  <2>6. (\A x \in Requests : x # r => request'[x] = request[x]) /\ request'[r] = g
    BY <2>1 DEF RequestsOK
  <2>7. Moves(r)
    BY <2>5, <2>6 DEF Moves
  <2>8. RequestOK(request[r])'
    BY <1>1, <2>4, <2>6 DEF RequestOK
  <2>9. /\ RequestsOK' /\ SlotsOK' /\ RateOK'
        /\ Queue(limiter', request', {"limiter", "refusing"})
    BY <1>1, <2>1, <2>3, <2>6, <2>7, <2>8, InsideKeeps
  <2>10. /\ fetchers \in Seq(Requests) /\ fetchers # <<>> /\ fetchers[1] = r
         /\ \A i \in 1..Len(fetchers) : request[fetchers[i]].step \in {"keys", "fetching"}
         /\ Distinct(fetchers)
    BY <1>1 DEF QueuesOK, Queue, Has
  <2>11. \A i \in 1..Len(fetchers) : request'[fetchers[i]].step \in {"keys", "fetching"}
    BY <2>3, <2>6, <2>10
  <2>12. Queue(fetchers', request', {"keys", "fetching"})
    BY <2>1, <2>10, <2>11 DEF Queue
  <2>13. \A x \in Requests : At(x, "fetching")' => fetchers' # <<>> /\ fetchers'[1] = x
    BY <2>1, <2>6, <2>10 DEF At, QueuesOK
  <2>14. QueuesOK'
    BY <2>9, <2>12, <2>13 DEF QueuesOK
  <2>15. QED
    BY <1>2, <2>9, <2>14
<1>5. QED
  BY <1>3, <1>4

LEMMA FetchKeeps ==
    ASSUME GatewayInv, NEW r \in Requests, Fetch(r)
    PROVE  GatewayInv'
<1> USE DEF GatewayInv
<1> DEFINE keys == request[r].fetched
<1>1. /\ request[r].step = "fetching" /\ request[r] \in Request /\ keys # {}
      /\ LookUp(r, keys)
      /\ UNCHANGED <<now, entries, provider, seen, rotations>>
  BY DEF Fetch, At, RequestsOK
<1>2. keys \in SUBSET Keys /\ cache' = [keys |-> keys, expires |-> now + CacheTTL]
  BY <1>1 DEF Request, Fetch
<1>3. Has(fetchers, r)
  BY <1>1 DEF QueuesOK, Queue, At, Has
<1>4. /\ request[r].steady \subseteq keys
      /\ now <= request[r].began + RequestTimeout
      /\ \A k \in keys : request[r].began <= seen[k]
  BY <1>1 DEF RequestsOK, RequestOK
<1> HIDE DEF keys
<1>5. now \in Nat /\ request[r].began \in Int /\ \A k \in keys : seen[k] \in Int
  BY <1>1, <1>2, Settings, Times DEF KeysOK
<1>6. \A k \in keys : now - seen[k] < CacheTTL + RequestTimeout
  BY <1>4, <1>5, Settings
<1>7. RequestsOK' /\ SlotsOK' /\ QueuesOK' /\ RateOK'
  BY <1>1, <1>2, <1>3, <1>4, <1>6, LookUpKeeps
<1>8. KeysOK'
  <2>1. /\ cache' \in [keys : SUBSET Keys, expires : Nat]
        /\ cache'.keys = keys /\ cache'.expires = now + CacheTTL
    BY <1>2, <1>5, Settings
  <2>2. \A k \in keys : now + CacheTTL <= seen[k] + CacheTTL + RequestTimeout
    BY <1>4, <1>5, Settings
  <2>3. QED
    BY <1>1, <2>1, <2>2 DEF KeysOK
<1>9. QED
  BY <1>7, <1>8
\* Requests change in nothing but what is remembered of keys.
LEMMA OthersKept ==
    ASSUME GatewayInv, request' \in [Requests -> Request], now' \in Int, now <= now',
           UNCHANGED <<slots, entries, limiter, fetchers>>,
           \A x \in Requests :
              /\ request'[x].step = request[x].step
              /\ request'[x].status = request[x].status
              /\ request'[x].client = request[x].client
              /\ request'[x].began = request[x].began
              /\ request'[x].admitted = request[x].admitted
    PROVE  SlotsOK' /\ QueuesOK' /\ RateOK'
<1> USE DEF GatewayInv
<1>1. SlotsOK'
  <2>1. \A x \in Requests : Inside(x)' = Inside(x)
    BY DEF Inside, At
  <2>2. {x \in Requests : Inside(x)}' = {x \in Requests : Inside(x)}
    BY <2>1
  <2>3. QED
    BY <2>2 DEF SlotsOK
<1>2. /\ limiter \in Seq(Requests) /\ fetchers \in Seq(Requests)
      /\ Thinned(limiter, limiter) /\ Thinned(fetchers, fetchers)
  BY ThinnedSame DEF QueuesOK, Queue
<1>3. /\ \A i \in 1..Len(limiter) :
           /\ request'[limiter[i]].step = request[limiter[i]].step
           /\ request'[limiter[i]].began = request[limiter[i]].began
      /\ \A i \in 1..Len(fetchers) : request'[fetchers[i]].step = request[fetchers[i]].step
  BY <1>2
<1>4. QueuesOK'
  <2>1. Queue(limiter', request', {"limiter", "refusing"})
    BY <1>2, <1>3, QueueThinned DEF QueuesOK
  <2>2. Queue(fetchers', request', {"keys", "fetching"})
    BY <1>2, <1>3, QueueThinned DEF QueuesOK
  <2>3. \A x \in Requests : At(x, "fetching")' => fetchers' # <<>> /\ fetchers'[1] = x
    BY DEF At, QueuesOK
  <2>4. QED
    BY <2>1, <2>2, <2>3 DEF QueuesOK
<1>5. SameAdmissions(request, request')
  BY DEF SameAdmissions
<1>6. Order(limiter', request')
  BY <1>2, <1>3, <1>5, OrderThinned DEF RateOK
<1>7. \A i \in 1..Len(limiter') : \E j \in 1..Len(limiter) :
        request'[limiter'[i]].began = request[limiter[j]].began
  BY <1>3
<1>8. \A x \in Requests : request'[x].step = "refusing" \/ request'[x].status = 429 =>
        /\ At(x, "refusing") \/ request[x].status = 429
        /\ request'[x].client = request[x].client
        /\ request'[x].began = request[x].began
  BY DEF At
<1>9. now \in Int
  BY Settings DEF KeysOK
<1>10. RateOK'
  BY <1>2, <1>5, <1>6, <1>7, <1>8, <1>9, RateKept
<1>11. QED
  BY <1>1, <1>4, <1>10

LEMMA TickKeeps ==
    ASSUME GatewayInv, Tick
    PROVE  GatewayInv'
<1> USE DEF GatewayInv
<1>1. /\ now \in Nat /\ now' = now + 1 /\ now' \in 0..(LastArrival + RequestTimeout)
      /\ request' = request
      /\ UNCHANGED <<slots, entries, limiter, provider, cache, fetchers, rotations>>
  BY Settings DEF Tick, KeysOK
<1>2. /\ seen' \in [Keys -> 0..now']
      /\ \A k \in Keys : seen[k] <= seen'[k] /\ seen[k] \in Int /\ seen'[k] \in Int
      /\ \A k \in provider : seen'[k] = now'
  BY <1>1 DEF Tick, KeysOK
<1>3. KeysOK'
  <2>1. cache.keys \subseteq Keys /\ cache.expires \in Nat
    BY DEF KeysOK
  <2>2. \A k \in cache.keys : cache.expires <= seen'[k] + CacheTTL + RequestTimeout
    BY <1>2, <2>1, Settings DEF KeysOK
  <2>3. QED
    BY <1>1, <1>2, <2>2 DEF KeysOK
<1>4. ASSUME NEW x \in Requests
      PROVE  RequestOK(request[x])'
  <2>1. request[x] \in Request /\ RequestOK(request[x]) /\ request'[x] = request[x]
    BY <1>1 DEF RequestsOK
  <2>2. request[x].fetched \subseteq Keys /\ request[x].began \in Int
    BY <2>1, Times DEF Request
  <2>3. \A k \in request[x].fetched : request[x].began <= seen'[k]
    BY <1>2, <2>1, <2>2 DEF RequestOK
  <2>4. request[x].began <= now'
    BY <1>1, <2>1, <2>2 DEF RequestOK
  <2>5. request[x].step \notin {"new", "done"} => now' <= request[x].began + RequestTimeout
    <3>1. SUFFICES ASSUME request[x].step \notin {"new", "done"}
                   PROVE  now' <= request[x].began + RequestTimeout
      OBVIOUS
    <3>2. ~(now >= request[x].began + RequestTimeout)
      BY <3>1 DEF Tick, Overdue, Inside, At
    <3>3. QED
      BY <3>2, <1>1, <2>2, Settings
  <2>6. QED
    BY <1>1, <2>1, <2>3, <2>4, <2>5 DEF RequestOK
<1>5. RequestsOK'
  BY <1>1, <1>4 DEF RequestsOK
<1>6. SlotsOK' /\ QueuesOK' /\ RateOK'
  <2>1. request' \in [Requests -> Request] /\ now' \in Int /\ now <= now'
    BY <1>1 DEF RequestsOK
  <2>2. QED
    BY <1>1, <2>1, OthersKept
<1>7. QED
  BY <1>3, <1>5, <1>6

LEMMA RotateKeeps ==
    ASSUME GatewayInv, Rotate
    PROVE  GatewayInv'
<1> USE DEF GatewayInv
<1>1. PICK keys \in (SUBSET Keys) \ {{}, provider} :
        /\ provider' = keys
        /\ seen' = [k \in Keys |-> IF k \in keys THEN now ELSE seen[k]]
        /\ request' = [r \in Requests |->
             [request[r] EXCEPT !.steady = IF Inside(r) THEN @ \cap keys ELSE @]]
  BY DEF Rotate
<1>2. /\ now \in Int /\ keys \in (SUBSET Keys) \ {{}}
      /\ UNCHANGED <<now, slots, entries, limiter, cache, fetchers>>
      /\ rotations' \in 0..MaxRotations
  BY Settings DEF Rotate, KeysOK
<1>3. /\ seen' \in [Keys -> 0..now]
      /\ \A k \in Keys : seen[k] <= seen'[k] /\ seen[k] \in Int /\ seen'[k] \in Int
      /\ \A k \in keys : seen'[k] = now
  BY <1>1, <1>2 DEF KeysOK
<1>4. KeysOK'
  <2>1. cache.keys \subseteq Keys /\ cache.expires \in Nat
    BY DEF KeysOK
  <2>2. \A k \in cache.keys : cache.expires <= seen'[k] + CacheTTL + RequestTimeout
    BY <1>3, <2>1, Settings DEF KeysOK
  <2>3. QED
    BY <1>1, <1>2, <1>3, <2>2 DEF KeysOK
<1>5. ASSUME NEW x \in Requests
      PROVE  /\ request'[x] \in Request
             /\ request'[x].step = request[x].step
             /\ request'[x].status = request[x].status
             /\ request'[x].client = request[x].client
             /\ request'[x].began = request[x].began
             /\ request'[x].admitted = request[x].admitted
             /\ request'[x].fetched = request[x].fetched
             /\ request'[x].kid = request[x].kid
             /\ request'[x].lag = request[x].lag
             /\ request'[x].steady \subseteq request[x].steady
             /\ Inside(x) => request'[x].steady \subseteq keys
  <2> DEFINE steady == IF Inside(x) THEN request[x].steady \cap keys ELSE request[x].steady
  <2>1. request[x] \in Request
    BY DEF RequestsOK
  <2>2. request'[x] = [request[x] EXCEPT !.steady = steady]
    BY <1>1
  <2>3. /\ steady \in SUBSET Keys /\ steady \subseteq request[x].steady
        /\ Inside(x) => steady \subseteq keys
    BY <2>1 DEF Request
  <2> HIDE DEF steady
  <2>4. QED
    BY <2>1, <2>2, <2>3 DEF Request
<1>6. ASSUME NEW x \in Requests
      PROVE  RequestOK(request[x])'
  <2>1. request[x] \in Request /\ RequestOK(request[x])
    BY DEF RequestsOK
  <2>2. request[x].fetched \subseteq Keys /\ request[x].began \in Int
    BY <2>1, Times DEF Request
  <2>3. \A k \in request[x].fetched : request[x].began <= seen'[k]
    BY <1>3, <2>1, <2>2 DEF RequestOK
  <2>4. request'[x].fetched # {} => request'[x].steady \subseteq request'[x].fetched
    BY <1>5, <2>1 DEF RequestOK
  <2>5. request'[x].status = 401 => request'[x].kid \notin request'[x].steady
    BY <1>5, <2>1 DEF RequestOK
  <2>6. request'[x].step \notin {"new", "done"} =>
          /\ now <= request'[x].began + RequestTimeout
          /\ request'[x].steady \subseteq keys
          /\ request'[x].status = 0
          /\ request'[x].client \in Clients
    BY <1>5, <2>1 DEF RequestOK, Inside, At
  <2>7. /\ request'[x].step \in {"new", "limiter", "refusing"} => ~request'[x].admitted
        /\ request'[x].step \in {"auth", "keys", "fetching", "handling"} => request'[x].admitted
        /\ request'[x].step = "handling" => request'[x].lag < CacheTTL + RequestTimeout
        /\ request'[x].began <= now
    BY <1>5, <2>1 DEF RequestOK
  <2>8. QED
    BY <1>1, <1>2, <1>5, <2>3, <2>4, <2>5, <2>6, <2>7 DEF RequestOK
<1>7. request' \in [Requests -> Request]
  BY <1>1, <1>5
<1>8. RequestsOK'
  BY <1>6, <1>7 DEF RequestsOK
<1>9. SlotsOK' /\ QueuesOK' /\ RateOK'
  BY <1>2, <1>5, <1>7, OthersKept
<1>10. QED
  BY <1>4, <1>8, <1>9
\* A request arrives: it is turned away, or takes a slot and queues for the limiter.
LEMMA ArriveKeeps ==
    ASSUME GatewayInv, NEW r \in Requests, Arrive(r)
    PROVE  GatewayInv'
<1> USE DEF GatewayInv
<1>1. /\ request[r] \in Request /\ request[r].step = "new" /\ ~request[r].admitted
      /\ now \in 0..LastArrival /\ now \in Int /\ now <= now
      /\ UNCHANGED <<now, entries, provider, cache, fetchers, seen, rotations>>
  BY Settings DEF Arrive, At, RequestsOK, RequestOK, KeysOK
<1>2. PICK c \in Clients :
        LET arrived == [New EXCEPT !.client = c, !.began = now, !.steady = provider]
        IN  IF slots >= Slots
            THEN /\ request' = [request EXCEPT ![r] =
                                  [New EXCEPT !.step = "done", !.status = 503]]
                 /\ UNCHANGED <<slots, limiter>>
            ELSE /\ request' = [request EXCEPT ![r] = [arrived EXCEPT !.step = "limiter"]]
                 /\ slots' = slots + 1
                 /\ limiter' = Append(limiter, r)
  BY DEF Arrive
<1>3. KeysOK'
  BY <1>1, KeysKept
<1>4. /\ limiter \in Seq(Requests) /\ fetchers \in Seq(Requests)
      /\ \A i \in 1..Len(limiter) : limiter[i] \in Requests /\ limiter[i] # r
      /\ \A i \in 1..Len(fetchers) : fetchers[i] \in Requests /\ fetchers[i] # r
      /\ Thinned(limiter, limiter) /\ Thinned(fetchers, fetchers)
  BY <1>1, ThinnedSame DEF QueuesOK, Queue
<1>5. ASSUME Moves(r), request'[r].admitted = FALSE, request'[r].step # "fetching"
      PROVE  /\ Queue(limiter, request', {"limiter", "refusing"})
             /\ Queue(fetchers', request', {"keys", "fetching"})
             /\ \A x \in Requests : At(x, "fetching")' => fetchers' # <<>> /\ fetchers'[1] = x
             /\ SameAdmissions(request, request')
             /\ Order(limiter, request')
  <2>1. /\ \A i \in 1..Len(limiter) : request'[limiter[i]] = request[limiter[i]]
        /\ \A i \in 1..Len(fetchers) : request'[fetchers[i]] = request[fetchers[i]]
    BY <1>4, <1>5 DEF Moves
  <2>2. Queue(limiter, request', {"limiter", "refusing"})
    BY <1>4, <2>1, QueueThinned DEF QueuesOK
  <2>3. Queue(fetchers', request', {"keys", "fetching"})
    BY <1>1, <1>4, <2>1, QueueThinned DEF QueuesOK
  <2>4. \A x \in Requests : At(x, "fetching")' => fetchers' # <<>> /\ fetchers'[1] = x
    BY <1>1, <1>5 DEF Moves, At, QueuesOK
  <2>5. SameAdmissions(request, request')
    <3>1. \A x \in Requests : x # r => request'[x] = request[x]
      BY <1>5 DEF Moves
    <3>2. request'[r].admitted = request[r].admitted /\ ~request[r].admitted
      <4>1. request[r].admitted = FALSE
        BY <1>1 DEF Request
      <4>2. QED
        BY <4>1, <1>5
    <3>3. QED
      BY <3>1, <3>2 DEF SameAdmissions
  <2>6. Order(limiter, request')
    BY <1>4, <2>1, <2>5, OrderThinned DEF RateOK
  <2>7. QED
    BY <2>2, <2>3, <2>4, <2>5, <2>6
<1>6. CASE slots >= Slots
  <2> DEFINE status == 503
             g == [New EXCEPT !.step = "done", !.status = status]
  <2>1. request' = [request EXCEPT ![r] = g] /\ UNCHANGED <<slots, limiter>>
    BY <1>2, <1>6
  <2>2. g \in Request
    <3>1. "done" \in Steps /\ status \in Statuses /\ New \in Request
      BY NewFields DEF Steps, Statuses
    <3> HIDE DEF status
    <3>2. QED
      BY <3>1 DEF Request
  <2>3. /\ g.step = "done" /\ g.status = 503 /\ g.began = 0 /\ g.fetched = {}
        /\ g.admitted = FALSE
    BY DEF New
  <2> HIDE DEF g
  <2>4. request' = [x \in Requests |-> request'[x]]
    BY <2>1 DEF RequestsOK
  <2>5. (\A x \in Requests : x # r => request'[x] = request[x]) /\ request'[r] = g
    BY <2>1 DEF RequestsOK
  <2>6. Moves(r)
    BY <2>4, <2>5 DEF Moves
  <2>7. RequestOK(request[r])'
    BY <1>1, <2>2, <2>3, <2>5 DEF RequestOK
  <2>8. RequestsOK'
    BY <1>1, <2>6, <2>7, OneRequest
  <2>9. SlotsOK'
    <3>1. \A x \in Requests : Inside(x)' = Inside(x)
      BY <1>1, <2>3, <2>5 DEF Inside, At
    <3>2. {x \in Requests : Inside(x)}' = {x \in Requests : Inside(x)}
      BY <3>1
    <3>3. QED
      BY <2>1, <3>2 DEF SlotsOK
  <2>10. request'[r].admitted = FALSE /\ request'[r].step # "fetching"
    BY <2>3, <2>5
  <2>11. QueuesOK'
    BY <1>5, <2>1, <2>6, <2>10 DEF QueuesOK
  <2>12. RateOK'
    <3>1. \A i \in 1..Len(limiter') : \E j \in 1..Len(limiter) :
            request'[limiter'[i]].began = request[limiter[j]].began
      BY <1>4, <2>1, <2>5
    <3>2. \A x \in Requests : request'[x].step = "refusing" \/ request'[x].status = 429 =>
            /\ At(x, "refusing") \/ request[x].status = 429
            /\ request'[x].client = request[x].client
            /\ request'[x].began = request[x].began
      BY <2>3, <2>5 DEF At
    <3>3. request' \in [Requests -> Request]
      BY <2>8 DEF RequestsOK
    <3>4. SameAdmissions(request, request') /\ Order(limiter', request')
      BY <1>5, <2>1, <2>6, <2>10
    <3>5. limiter' \in Seq(Requests) /\ now' \in Int /\ now <= now' /\ entries' = entries
      BY <1>1, <1>4, <2>1
    <3>6. QED
      BY <1>1, <3>1, <3>2, <3>3, <3>4, <3>5, RateKept
  <2>13. QED
    BY <1>3, <2>8, <2>9, <2>11, <2>12
<1>7. CASE ~(slots >= Slots)
  <2> DEFINE g == [[New EXCEPT !.client = c, !.began = now, !.steady = provider]
                     EXCEPT !.step = "limiter"]
  <2>1. /\ request' = [request EXCEPT ![r] = g] /\ slots' = slots + 1
        /\ limiter' = Append(limiter, r)
    BY <1>2, <1>7
  <2>2. g \in Request
    <3>1. "limiter" \in Steps /\ New \in Request /\ provider \in SUBSET Keys
      BY NewFields DEF Steps, KeysOK
    <3>2. QED
      BY <1>1, <3>1 DEF Request
  <2>3. /\ g.step = "limiter" /\ g.status = 0 /\ g.began = now /\ g.fetched = {}
        /\ g.admitted = FALSE /\ g.client = c /\ g.steady = provider
    BY DEF New
  <2> HIDE DEF g
  <2>4. request' = [x \in Requests |-> request'[x]]
    BY <2>1 DEF RequestsOK
  <2>5. (\A x \in Requests : x # r => request'[x] = request[x]) /\ request'[r] = g
    BY <2>1 DEF RequestsOK
  <2>6. Moves(r)
    BY <2>4, <2>5 DEF Moves
  <2>7. RequestOK(request[r])'
    <3>1. now <= now + RequestTimeout
      BY <1>1, Settings
    <3>2. QED
      BY <1>1, <2>2, <2>3, <2>5, <3>1 DEF RequestOK
  <2>8. RequestsOK'
    BY <1>1, <2>6, <2>7, OneRequest
  <2>9. SlotsOK'
    <3>1. ~Inside(r) /\ Inside(r)'
      BY <1>1, <2>3, <2>5 DEF Inside, At
    <3>2. slots < Slots
      BY <1>7, Settings DEF SlotsOK
    <3>3. QED
      BY <2>1, <2>6, <3>1, <3>2, SlotsTaken
  <2>10. request'[r].admitted = FALSE /\ request'[r].step # "fetching" /\ request'[r].began = now
    BY <2>3, <2>5
  <2>11. QueuesOK'
    <3>1. request'[r].step \in {"limiter", "refusing"}
      BY <2>3, <2>5
    <3>2. Queue(limiter', request', {"limiter", "refusing"})
      BY <1>4, <1>5, <2>1, <2>6, <2>10, <3>1, QueueJoined
    <3>3. QED
      BY <1>5, <2>6, <2>10, <3>2 DEF QueuesOK
  <2>12. RateOK'
    <3>1. /\ limiter' \in Seq(Requests) /\ Len(limiter') = Len(limiter) + 1
          /\ \A i \in 1..Len(limiter) : limiter'[i] = limiter[i]
          /\ limiter'[Len(limiter) + 1] = r
      BY <1>4, <2>1, AppendProperties
    <3>2. \A i \in 1..Len(limiter') : i \in 1..Len(limiter) \/ i = Len(limiter) + 1
      BY <1>4, <3>1
    <3>3. \A i \in 1..Len(limiter') :
            \/ now <= request'[limiter'[i]].began
            \/ \E j \in 1..Len(limiter) :
                 request'[limiter'[i]].began = request[limiter[j]].began
      BY <1>1, <1>4, <2>5, <2>10, <3>1, <3>2
    <3>4. \A x \in Requests : request'[x].step = "refusing" \/ request'[x].status = 429 =>
            /\ At(x, "refusing") \/ request[x].status = 429
            /\ request'[x].client = request[x].client
            /\ request'[x].began = request[x].began
      BY <2>3, <2>5 DEF At
    <3>5. request' \in [Requests -> Request] /\ request \in [Requests -> Request]
      BY <2>8 DEF RequestsOK
    <3>6. SameAdmissions(request, request')
      BY <1>5, <2>6, <2>10
    <3>7. Order(limiter', request')
      <4>1. \A x \in Requests : request[x].began <= request'[r].began
        BY <2>10 DEF RequestsOK, RequestOK
      <4>2. QED
        BY <1>4, <2>1, <2>5, <3>5, <3>6, <4>1, OrderAppended DEF RateOK
    <3>8. now' \in Int /\ now <= now' /\ entries' = entries
      BY <1>1
    <3>9. QED
      BY <1>1, <3>1, <3>3, <3>4, <3>5, <3>6, <3>7, <3>8, RateKept
  <2>13. QED
    BY <1>3, <2>8, <2>9, <2>11, <2>12
<1>8. QED
  BY <1>6, <1>7
-----------------------------------------------------------------------------
(***************************************************************************)
(* Counting a request.                                                     *)
(***************************************************************************)

LEMMA Smallest ==
    ASSUME NEW S \in SUBSET Nat, S # {}
    PROVE  Min(S) \in S /\ \A y \in S : Min(S) <= y
<1> DEFINE R == OpToRel(<, Nat)
<1>1. IsWellFoundedOn(R, Nat)
  BY NatLessThanWellFounded
<1>2. \A x, y \in Nat : x < y => <<x, y>> \in R
  BY DEF OpToRel
<1> HIDE DEF R
<1>3. PICK x \in S : \A y \in S : ~ (<<y, x>> \in R)
  BY <1>1, WFMin
<1>4. ASSUME NEW y \in S
      PROVE  x <= y
  <2>1. x \in Nat /\ y \in Nat /\ ~(y < x)
    BY <1>2, <1>3
  <2>2. QED
    BY <2>1
<1>5. QED
  BY <1>4 DEF Min

\* Entries that are too old are all at the left end, and what is left lists the requests
\* of the shorter window.
LEMMA Cut ==
    ASSUME NEW req \in [Requests -> Request], NEW c, NEW m \in Int, NEW b \in Int, m <= b,
           NEW times \in Seq(0..LastArrival), NEW queue, Counts(times, req, c, m - Window, queue)
    PROVE  /\ \E left \in Seq(Requests) :
                Counts(Popped(times, b), req, c, b - Window, left)
           /\ Popped(times, b) \in Seq(0..LastArrival)
           /\ Len(Popped(times, b)) <= Len(times)
<1> DEFINE old == b - Window
           kept == {i \in DOMAIN times : times[i] > old}
<1>1. /\ queue \in Seq(Requests) /\ Distinct(queue)
      /\ Len(queue) = Len(times) /\ Len(times) \in Nat /\ DOMAIN times = 1..Len(times)
      /\ \A i \in 1..Len(times) : times[i] = req[queue[i]].began
      /\ \A i, j \in 1..Len(times) : i <= j => times[i] <= times[j]
      /\ {queue[i] : i \in 1..Len(times)} = Since(req, c, m - Window)
  BY DEF Counts
<1>2. /\ old \in Int /\ m - Window \in Int /\ m - Window <= old
      /\ \A x \in Requests : req[x].began \in Int
      /\ \A i \in 1..Len(times) : times[i] \in Int
  BY Settings, Times
<1>3. ASSUME NEW x \in Since(req, c, old)
      PROVE  \E i \in kept : queue[i] = x
  <2>1. x \in Requests /\ req[x].began > old /\ x \in Since(req, c, m - Window)
    BY <1>2 DEF Since
  <2>2. PICK i \in 1..Len(times) : queue[i] = x
    BY <1>1, <2>1
  <2>3. QED
    BY <1>1, <2>1, <2>2
<1>4. ASSUME NEW i \in kept
      PROVE  queue[i] \in Since(req, c, old)
  <2>1. i \in 1..Len(times) /\ times[i] > old
    BY <1>1
  <2>2. queue[i] \in Since(req, c, m - Window)
    BY <1>1, <2>1
  <2>3. queue[i] \in Requests /\ req[queue[i]].admitted /\ req[queue[i]].client = c
    BY <2>2 DEF Since
  <2>4. times[i] = req[queue[i]].began
    BY <1>1, <2>1
  <2>5. QED
    BY <2>1, <2>3, <2>4 DEF Since
<1>5. CASE kept = {}
  <2>1. Popped(times, b) = <<>>
    BY <1>5 DEF Popped
  <2>2. Since(req, c, old) = {}
    BY <1>3, <1>5
  <2>3. Counts(<<>>, req, c, old, <<>>)
    BY <2>2 DEF Counts, Distinct
  <2>4. <<>> \in Seq(0..LastArrival) /\ <<>> \in Seq(Requests) /\ Len(<<>>) <= Len(times)
    BY <1>1
  <2> HIDE DEF old
  <2>5. QED
    BY <2>1, <2>3, <2>4 DEF old
<1>6. CASE kept # {}
  <2> DEFINE k == Min(kept)
             n == Len(times)
             last == SubSeq(times, k, n)
             left == SubSeq(queue, k, n)
  <2>1. kept \in SUBSET Nat
    BY <1>1
  <2>2. k \in kept /\ \A i \in kept : k <= i
    BY <1>6, <2>1, Smallest
  <2>3. k \in 1..n /\ times[k] > old /\ n \in Nat
    BY <1>1, <2>2
  <2>4. Popped(times, b) = last
    BY <1>6 DEF Popped
  <2>5. \A i \in 1..n : i \in kept <=> k <= i
    <3>1. \A i \in 1..n : k <= i => times[i] > old
      BY <1>1, <1>2, <2>3
    <3>2. QED
      BY <1>1, <2>2, <3>1
  <2> HIDE DEF k, kept
  <2>6. /\ last \in Seq(0..LastArrival) /\ Len(last) = n - k + 1
        /\ \A i \in 1..(n - k + 1) : last[i] = times[k + i - 1]
    <3>1. ASSUME NEW i \in k..n
          PROVE  times[i] \in 0..LastArrival
      <4>1. i \in 1..Len(times)
        BY <2>3
      <4>2. QED
        BY <4>1, ElementOfSeq
    <3>2. QED
      BY <2>3, <3>1, SubSeqProperties
  <2>7. /\ left \in Seq(Requests) /\ Len(left) = n - k + 1
        /\ \A i \in 1..(n - k + 1) : left[i] = queue[k + i - 1]
    <3>1. \A i \in k..n : queue[i] \in Requests
      BY <1>1, <2>3
    <3>2. QED
      BY <2>3, <3>1, SubSeqProperties
  <2>8. \A i \in 1..(n - k + 1) : k + i - 1 \in 1..n /\ k <= k + i - 1
    BY <2>3
  <2> HIDE DEF last, left, n
  <2>9. /\ \A i \in 1..Len(left) : last[i] = req[left[i]].began
        /\ \A i, j \in 1..Len(left) : i <= j => last[i] <= last[j]
        /\ Distinct(left)
    <3>1. \A i \in 1..Len(left) : last[i] = req[left[i]].began
      BY <1>1, <2>6, <2>7, <2>8 DEF n
    <3>2. ASSUME NEW i \in 1..Len(left), NEW j \in 1..Len(left), i <= j
          PROVE  last[i] <= last[j]
      <4>1. k + i - 1 <= k + j - 1
        BY <2>3, <2>7, <3>2
      <4>2. QED
        BY <1>1, <2>6, <2>7, <2>8, <4>1 DEF n
    <3>3. ASSUME NEW i \in 1..Len(left), NEW j \in 1..Len(left), left[i] = left[j]
          PROVE  i = j
      <4>1. queue[k + i - 1] = queue[k + j - 1]
        BY <2>7, <3>3
      <4>2. k + i - 1 \in 1..Len(queue) /\ k + j - 1 \in 1..Len(queue)
        BY <1>1, <2>7, <2>8 DEF n
      <4>3. k + i - 1 = k + j - 1
        BY <1>1, <4>1, <4>2 DEF Distinct
      <4>4. QED
        BY <2>3, <2>7, <4>3
    <3>4. QED
      BY <3>1, <3>2, <3>3 DEF Distinct
  <2>10. {left[i] : i \in 1..Len(left)} = Since(req, c, old)
    <3>1. ASSUME NEW i \in 1..Len(left)
          PROVE  left[i] \in Since(req, c, old)
      <4>1. k + i - 1 \in kept
        BY <2>5, <2>7, <2>8
      <4>2. QED
        BY <1>4, <2>7, <4>1
    <3>2. ASSUME NEW x \in Since(req, c, old)
          PROVE  \E i \in 1..Len(left) : left[i] = x
      <4>1. PICK j \in kept : queue[j] = x
        BY <1>3
      <4>2. j \in 1..n /\ k <= j
        BY <1>1, <2>2 DEF kept, n
      <4>3. j - k + 1 \in 1..Len(left) /\ k + (j - k + 1) - 1 = j
        BY <2>3, <2>7, <4>2
      <4>4. left[j - k + 1] = x
        BY <2>7, <4>1, <4>3
      <4>5. QED
        BY <4>3, <4>4
    <3>3. QED
      BY <3>1, <3>2
  <2>11. Counts(last, req, c, old, left)
    BY <2>6, <2>7, <2>9, <2>10 DEF Counts
  <2>12. Len(last) <= Len(times)
    BY <2>3, <2>6 DEF n
  <2>13. QED
    BY <2>4, <2>6, <2>7, <2>11, <2>12
<1>7. QED
  BY <1>5, <1>6
\* What the limiter counts for request r.
Recent(r) == Popped(entries[request[r].client], request[r].began)

Older(r) == Since(request, request[r].client, request[r].began - Window)

\* The one that has the limiter's lock sees what was admitted in its window, because it
\* began after all that were admitted and before all that wait.
LEMMA RecentRight ==
    ASSUME GatewayInv, NEW r \in Requests, At(r, "limiter"), Has(limiter, r)
    PROVE  /\ request[r].client \in Clients /\ request[r].began \in Int
           /\ request[r].began <= now /\ ~request[r].admitted
           /\ \A x \in Requests : request[x].admitted => request[x].began <= request[r].began
           /\ \A i \in 1..Len(limiter) : request[r].began <= request[limiter[i]].began
           /\ Recent(r) \in Seq(0..LastArrival) /\ Len(Recent(r)) <= Limit
           /\ \E left \in Seq(Requests) :
                Counts(Recent(r), request, request[r].client, request[r].began - Window, left)
           /\ Cardinality(Older(r)) = Len(Recent(r))
<1> USE DEF GatewayInv
<1> DEFINE c == request[r].client
           b == request[r].began
<1>1. request[r] \in Request /\ RequestOK(request[r]) /\ request[r].step = "limiter"
  BY DEF RequestsOK, At
<1>2. c \in Clients /\ b \in Int /\ b <= now /\ ~request[r].admitted
  BY <1>1, Times DEF RequestOK
<1>3. limiter \in Seq(Requests) /\ limiter # <<>> /\ limiter[1] = r /\ 1 \in 1..Len(limiter)
  BY DEF QueuesOK, Queue, Has
<1>4. /\ \A x \in Requests : request[x].admitted => request[x].began <= b
      /\ \A i \in 1..Len(limiter) : b <= request[limiter[i]].began
  BY <1>3 DEF RateOK, Order
<1>5. PICK m \in Int :
        /\ m <= b
        /\ \E queue \in Seq(Requests) : Counts(entries[c], request, c, m - Window, queue)
  <2>1. PICK m \in Int :
          /\ \A i \in 1..Len(limiter) : m <= request[limiter[i]].began
          /\ \E queue \in Seq(Requests) : Counts(entries[c], request, c, m - Window, queue)
    BY <1>2 DEF RateOK, EntriesOK
  <2>2. m <= b
    BY <1>3, <2>1
  <2>3. QED
    BY <2>1, <2>2
<1>6. PICK queue \in Seq(Requests) : Counts(entries[c], request, c, m - Window, queue)
  BY <1>5
<1>7. entries[c] \in Seq(0..LastArrival) /\ Len(entries[c]) <= Limit
  BY <1>2 DEF RateOK
<1>8. request \in [Requests -> Request]
  BY DEF RequestsOK
<1> HIDE DEF c, b
<1>9. /\ \E left \in Seq(Requests) : Counts(Popped(entries[c], b), request, c, b - Window, left)
      /\ Popped(entries[c], b) \in Seq(0..LastArrival)
      /\ Len(Popped(entries[c], b)) <= Len(entries[c])
  BY <1>2, <1>5, <1>6, <1>7, <1>8, Cut
<1>10. PICK left \in Seq(Requests) : Counts(Popped(entries[c], b), request, c, b - Window, left)
  BY <1>9
<1>11. Cardinality(Since(request, c, b - Window)) = Len(Popped(entries[c], b))
  <2>1. Cardinality({left[i] : i \in 1..Len(left)}) = Len(left)
    BY <1>10, Listed DEF Counts
  <2>2. QED
    BY <2>1, <1>10 DEF Counts
<1>12. Len(Popped(entries[c], b)) <= Limit
  BY <1>7, <1>9, Settings
<1>13. QED
  BY <1>2, <1>4, <1>9, <1>11, <1>12 DEF Recent, Older, c, b

\* The limiter's lock stays with a request that is refused.
LEMMA RefusesKeeps ==
    ASSUME GatewayInv, NEW r \in Requests, At(r, "limiter"), Has(limiter, r),
           Len(Recent(r)) >= Limit,
           request' = [request EXCEPT ![r].step = "refusing"],
           entries' = [entries EXCEPT ![request[r].client] = Recent(r)],
           UNCHANGED <<now, slots, limiter, provider, cache, fetchers, seen, rotations>>
    PROVE  GatewayInv'
<1> USE DEF GatewayInv
<1> DEFINE g == [request[r] EXCEPT !.step = "refusing"]
           c == request[r].client
           b == request[r].began
<1>1. request' = [request EXCEPT ![r] = g]
  BY DEF RequestsOK
<1>2. request[r] \in Request /\ RequestOK(request[r]) /\ request[r].step = "limiter"
  BY DEF RequestsOK, At
<1>3. g \in Request
  <2>1. "refusing" \in Steps
    BY DEF Steps
  <2>2. QED
    BY <2>1, <1>2 DEF Request
<1>4. /\ g.step = "refusing" /\ g.status = request[r].status /\ g.began = b
      /\ g.client = c /\ g.admitted = request[r].admitted /\ g.steady = request[r].steady
      /\ g.fetched = request[r].fetched
  BY <1>2 DEF Request
<1> HIDE DEF g
<1>5. request' = [x \in Requests |-> request'[x]]
  BY <1>1 DEF RequestsOK
<1>6. (\A x \in Requests : x # r => request'[x] = request[x]) /\ request'[r] = g
  BY <1>1 DEF RequestsOK
<1>7. Moves(r)
  BY <1>5, <1>6 DEF Moves
<1>8. RequestOK(request[r])'
  BY <1>2, <1>3, <1>4, <1>6 DEF RequestOK
<1>9. RequestsOK'
  BY <1>7, <1>8, OneRequest
<1>10. SlotsOK'
  <2>1. Inside(r) /\ Inside(r)'
    BY <1>2, <1>4, <1>6 DEF Inside, At
  <2>2. QED
    BY <1>7, <2>1, SlotsKept
<1>11. /\ limiter \in Seq(Requests) /\ fetchers \in Seq(Requests)
       /\ \A i \in 1..Len(limiter) : limiter[i] \in Requests
       /\ \A i \in 1..Len(fetchers) : fetchers[i] \in Requests /\ fetchers[i] # r
       /\ Thinned(limiter, limiter) /\ Thinned(fetchers, fetchers) /\ Distinct(limiter)
  BY <1>2, ThinnedSame DEF QueuesOK, Queue
<1>12. QueuesOK'
  <2>1. \A i \in 1..Len(limiter) : request'[limiter[i]].step \in {"limiter", "refusing"}
    BY <1>4, <1>6, <1>11 DEF QueuesOK, Queue
  <2>2. Queue(limiter', request', {"limiter", "refusing"})
    BY <1>11, <2>1 DEF Queue
  <2>3. Queue(fetchers', request', {"keys", "fetching"})
    <3>1. \A i \in 1..Len(fetchers) : request'[fetchers[i]].step = request[fetchers[i]].step
      BY <1>6, <1>11
    <3>2. QED
      BY <3>1, <1>11, QueueThinned DEF QueuesOK
  <2>4. \A x \in Requests : At(x, "fetching")' => fetchers' # <<>> /\ fetchers'[1] = x
    BY <1>4, <1>6 DEF At, QueuesOK
  <2>5. QED
    BY <2>2, <2>3, <2>4 DEF QueuesOK
<1>13. KeysOK'
  BY KeysKept
<1>14. /\ c \in Clients /\ b \in Int /\ b <= now
       /\ \A x \in Requests : request[x].admitted => request[x].began <= b
       /\ \A i \in 1..Len(limiter) : b <= request[limiter[i]].began
       /\ Recent(r) \in Seq(0..LastArrival) /\ Len(Recent(r)) <= Limit
       /\ \E left \in Seq(Requests) : Counts(Recent(r), request, c, b - Window, left)
       /\ Cardinality(Since(request, c, b - Window)) = Len(Recent(r))
  BY RecentRight DEF Older
<1> HIDE DEF c, b
<1>15. SameAdmissions(request, request')
  BY <1>4, <1>6 DEF SameAdmissions, c, b
<1>16. \A i \in 1..Len(limiter) : request'[limiter[i]].began = request[limiter[i]].began
  BY <1>4, <1>6, <1>11 DEF b
<1>17. Order(limiter', request')
  BY <1>11, <1>15, <1>16, OrderThinned DEF RateOK
<1>18. /\ entries' \in [Clients -> Seq(0..LastArrival)]
       /\ entries'[c] = Recent(r)
       /\ \A d \in Clients : d # c => entries'[d] = entries[d]
  BY <1>14 DEF RateOK, c
<1>19. ASSUME NEW d \in Clients
       PROVE  EntriesOK(d)'
  <2>1. PICK m \in Int :
          /\ m <= now
          /\ \A i \in 1..Len(limiter) : m <= request[limiter[i]].began
          /\ \E queue \in Seq(Requests) : Counts(entries'[d], request, d, m - Window, queue)
    <3>1. CASE d = c
      BY <1>14, <1>18, <3>1
    <3>2. CASE d # c
      BY <1>18, <3>2 DEF RateOK, EntriesOK
    <3>3. QED
      BY <3>1, <3>2
  <2>2. PICK queue \in Seq(Requests) : Counts(entries'[d], request, d, m - Window, queue)
    BY <2>1
  <2>3. Since(request', d, m - Window) = Since(request, d, m - Window)
    BY <1>15, AdmittedSame
  <2>4. \A i \in 1..Len(queue) : request'[queue[i]].began = request[queue[i]].began
    BY <1>4, <1>6 DEF b
  <2>5. Counts(entries'[d], request', d, m - Window, queue)
    BY <2>2, <2>3, <2>4 DEF Counts
  <2>6. \A i \in 1..Len(limiter') : m <= request'[limiter'[i]].began
    BY <1>16, <2>1
  <2>7. QED
    BY <2>1, <2>5, <2>6 DEF EntriesOK
<1>20. ASSUME NEW d \in Clients, NEW t \in Int
       PROVE  (Cardinality(Admitted(d, t)) <= Limit)'
  BY <1>15, AdmittedSame DEF RateOK
<1>21. ASSUME NEW x \in Requests, (At(x, "refusing") \/ request[x].status = 429)'
       PROVE  (/\ request[x].client \in Clients
               /\ Cardinality(Admitted(request[x].client, request[x].began)) = Limit)'
  <2>1. /\ request'[x].client = request[x].client
        /\ request'[x].began = request[x].began
    BY <1>4, <1>6 DEF c, b
  <2>2. Admitted(request[x].client, request[x].began)'
          = Admitted(request[x].client, request[x].began)
    BY <1>15, <2>1 DEF Admitted, SameAdmissions
  <2>3. CASE x # r
    BY <1>6, <1>21, <2>1, <2>2, <2>3 DEF At, RateOK
  <2>4. CASE x = r
    <3>1. Admitted(c, b) = Since(request, c, b - Window)
      <4>1. \A y \in Requests : request[y].began \in Int
        BY Times DEF RequestsOK
      <4>2. ASSUME NEW y \in Requests, request[y].admitted
            PROVE  request[y].began \in (b - Window + 1)..b <=> request[y].began > b - Window
        <5>1. request[y].began <= b /\ request[y].began \in Int /\ b \in Int /\ Window \in Nat
          BY <4>1, <4>2, <1>14, Settings
        <5>2. QED
          BY <5>1
      <4>3. QED
        BY <4>2 DEF Admitted, Since
    <3>2. Len(Recent(r)) = Limit
      BY <1>14, Settings
    <3>3. QED
      BY <1>14, <2>1, <2>2, <2>4, <3>1, <3>2 DEF c, b
  <2>5. QED
    BY <2>3, <2>4
<1>22. \A d \in Clients : Len(entries'[d]) <= Limit
  BY <1>14, <1>18 DEF RateOK
<1>23. RateOK'
  BY <1>17, <1>18, <1>19, <1>20, <1>21, <1>22 DEF RateOK
<1>24. QED
  BY <1>9, <1>10, <1>12, <1>13, <1>23

\* A request that is counted passes on, and the next one has the lock.
Admits(r) ==
    /\ Len(Recent(r)) < Limit
    /\ request' = [request EXCEPT ![r].step = "auth", ![r].admitted = TRUE]
    /\ entries' = [entries EXCEPT ![request[r].client] = Append(Recent(r), request[r].began)]
    /\ limiter' = Tail(limiter)

LEMMA AdmitsKeeps ==
    ASSUME GatewayInv, NEW r \in Requests, At(r, "limiter"), Has(limiter, r), Admits(r),
           UNCHANGED <<now, slots, provider, cache, fetchers, seen, rotations>>
    PROVE  GatewayInv'
<1> USE DEF GatewayInv
<1> DEFINE g == [request[r] EXCEPT !.step = "auth", !.admitted = TRUE]
<1>0. PICK c \in Clients, b \in Int : c = request[r].client /\ b = request[r].began
  BY RecentRight
<1>1. request' = [request EXCEPT ![r] = g]
  BY DEF RequestsOK, Admits
<1>2. /\ request[r] \in Request /\ RequestOK(request[r]) /\ request[r].step = "limiter"
      /\ b \in 0..LastArrival
  BY <1>0, Times DEF RequestsOK, At
<1>3. g \in Request
  <2>1. "auth" \in Steps
    BY DEF Steps
  <2>2. QED
    BY <2>1, <1>2 DEF Request
<1>4. /\ g.step = "auth" /\ g.status = request[r].status /\ g.began = b
      /\ g.client = c /\ g.admitted /\ g.steady = request[r].steady
      /\ g.fetched = request[r].fetched
  BY <1>0, <1>2 DEF Request
<1> HIDE DEF g
<1>5. request' = [x \in Requests |-> request'[x]]
  BY <1>1 DEF RequestsOK
<1>6. (\A x \in Requests : x # r => request'[x] = request[x]) /\ request'[r] = g
  BY <1>1 DEF RequestsOK
<1>7. Moves(r)
  BY <1>5, <1>6 DEF Moves
<1>8. RequestOK(request[r])'
  BY <1>0, <1>2, <1>3, <1>4, <1>6 DEF RequestOK
<1>9. RequestsOK'
  BY <1>7, <1>8, OneRequest
<1>10. SlotsOK'
  <2>1. Inside(r) /\ Inside(r)'
    BY <1>2, <1>4, <1>6 DEF Inside, At
  <2>2. QED
    BY <1>7, <2>1, SlotsKept
<1>11. /\ limiter \in Seq(Requests) /\ Distinct(limiter) /\ limiter # <<>> /\ limiter[1] = r
       /\ limiter' \in Seq(Requests) /\ Thinned(limiter, limiter')
       /\ \A i \in 1..Len(limiter') :
            limiter'[i] = limiter[i + 1] /\ i + 1 \in 1..Len(limiter) /\ i + 1 # 1
  <2>1. limiter \in Seq(Requests) /\ Distinct(limiter) /\ limiter # <<>> /\ limiter[1] = r
    BY DEF QueuesOK, Queue, Has
  <2>2. limiter' = Tail(limiter)
    BY DEF Admits
  <2>3. QED
    BY <2>1, <2>2, ThinnedTail
<1>12. /\ \A i \in 1..Len(limiter') : limiter'[i] # r /\ limiter'[i] \in Requests
       /\ fetchers \in Seq(Requests) /\ Thinned(fetchers, fetchers)
       /\ \A i \in 1..Len(fetchers) : fetchers[i] \in Requests /\ fetchers[i] # r
  <2>1. \A i \in 1..Len(limiter') : limiter'[i] # r /\ limiter'[i] \in Requests
    BY <1>11 DEF Distinct
  <2>2. QED
    BY <1>2, <2>1, ThinnedSame DEF QueuesOK, Queue
<1>13. /\ \A i \in 1..Len(limiter') : request'[limiter'[i]] = request[limiter'[i]]
       /\ \A i \in 1..Len(fetchers) : request'[fetchers[i]] = request[fetchers[i]]
  BY <1>6, <1>12
<1>14. QueuesOK'
  <2>1. Queue(limiter', request', {"limiter", "refusing"})
    BY <1>11, <1>13, QueueThinned DEF QueuesOK
  <2>2. Queue(fetchers', request', {"keys", "fetching"})
    BY <1>12, <1>13, QueueThinned DEF QueuesOK
  <2>3. \A x \in Requests : At(x, "fetching")' => fetchers' # <<>> /\ fetchers'[1] = x
    BY <1>4, <1>6 DEF At, QueuesOK
  <2>4. QED
    BY <2>1, <2>2, <2>3 DEF QueuesOK
<1>15. KeysOK'
  BY KeysKept
<1>16. /\ c \in Clients /\ b \in Int /\ b <= now /\ ~request[r].admitted
       /\ \A x \in Requests : request[x].admitted => request[x].began <= b
       /\ \A i \in 1..Len(limiter) : b <= request[limiter[i]].began
       /\ Recent(r) \in Seq(0..LastArrival) /\ Len(Recent(r)) \in Nat
       /\ \E left \in Seq(Requests) : Counts(Recent(r), request, c, b - Window, left)
       /\ Cardinality(Since(request, c, b - Window)) = Len(Recent(r))
  BY <1>0, RecentRight DEF Older
<1>17. PICK left \in Seq(Requests) : Counts(Recent(r), request, c, b - Window, left)
  BY <1>16
<1>18. Len(Recent(r)) < Limit
  BY DEF Admits
<1> DEFINE longer == Append(Recent(r), b)
           after == Append(left, r)
<1>19. /\ entries' \in [Clients -> Seq(0..LastArrival)]
       /\ entries'[c] = longer
       /\ \A d \in Clients : d # c => entries'[d] = entries[d]
  <2>1. longer \in Seq(0..LastArrival)
    BY <1>2, <1>16, AppendProperties
  <2>2. entries' = [entries EXCEPT ![c] = longer] /\ entries \in [Clients -> Seq(0..LastArrival)]
    BY <1>0 DEF Admits, RateOK
  <2> HIDE DEF longer
  <2>3. QED
    BY <1>16, <2>1, <2>2
<1>20. \A x \in Requests : x # r =>
         /\ request'[x].admitted = request[x].admitted
         /\ request'[x].client = request[x].client
         /\ request'[x].began = request[x].began
  BY <1>6
<1>21. request'[r].admitted /\ request'[r].client = c /\ request'[r].began = b
  BY <1>4, <1>6
<1>22. \A x \in Requests : request[x].began \in Int /\ request'[x].began = request[x].began
  BY <1>0, <1>4, <1>6, Times DEF RequestsOK
<1>23. ASSUME NEW m \in Int, m < b
       PROVE  Since(request', c, m) = Since(request, c, m) \cup {r}
  BY <1>16, <1>20, <1>21, <1>23 DEF Since
<1>24. ASSUME NEW d \in Clients, d # c, NEW m
       PROVE  Since(request', d, m) = Since(request, d, m)
  BY <1>16, <1>20, <1>21, <1>24 DEF Since
<1>25. b - Window \in Int /\ b - Window < b
  BY <1>16, Settings
\* The deque lists the requests of the window up to r.
<1>26. Counts(longer, request', c, b - Window, after)
  <2>1. /\ left \in Seq(Requests) /\ Distinct(left) /\ Len(left) = Len(Recent(r))
        /\ Len(left) \in Nat
        /\ \A i \in 1..Len(left) : Recent(r)[i] = request[left[i]].began
        /\ \A i, j \in 1..Len(left) : i <= j => Recent(r)[i] <= Recent(r)[j]
        /\ {left[i] : i \in 1..Len(left)} = Since(request, c, b - Window)
    BY <1>17 DEF Counts
  <2>2. /\ after \in Seq(Requests) /\ Len(after) = Len(left) + 1
        /\ \A i \in 1..Len(left) : after[i] = left[i]
        /\ after[Len(left) + 1] = r
    BY <2>1, AppendProperties
  <2>3. /\ Len(longer) = Len(left) + 1
        /\ \A i \in 1..Len(left) : longer[i] = Recent(r)[i]
        /\ longer[Len(left) + 1] = b
    <3>1. b \in 0..LastArrival
      BY <1>2
    <3>2. QED
      BY <2>1, <1>16, <3>1, AppendProperties
  <2> HIDE DEF longer, after
  <2>4. \A i \in 1..Len(after) : i \in 1..Len(left) \/ i = Len(left) + 1
    BY <2>1, <2>2
  <2>5. \A i \in 1..Len(left) :
          left[i] \in Since(request, c, b - Window) /\ left[i] \in Requests
    BY <2>1
  <2>6. \A i \in 1..Len(left) : left[i] # r /\ request[left[i]].began <= b
    BY <2>5, <1>16 DEF Since
  <2>7. Distinct(after)
    BY <2>1, <2>2, <2>4, <2>6 DEF Distinct
  <2>8. ASSUME NEW i \in 1..Len(after)
        PROVE  longer[i] = request'[after[i]].began
    <3>1. CASE i \in 1..Len(left)
      <4>1. longer[i] = request[left[i]].began /\ after[i] = left[i]
        BY <2>1, <2>2, <2>3, <3>1
      <4>2. request'[left[i]].began = request[left[i]].began
        BY <2>5, <3>1, <1>22
      <4>3. QED
        BY <4>1, <4>2
    <3>2. CASE i = Len(left) + 1
      BY <2>2, <2>3, <3>2, <1>21
    <3>3. QED
      BY <3>1, <3>2, <2>4
  <2>9. ASSUME NEW i \in 1..Len(after), NEW j \in 1..Len(after), i <= j
        PROVE  longer[i] <= longer[j]
    <3>1. CASE j \in 1..Len(left)
      <4>1. i \in 1..Len(left)
        BY <3>1, <2>9
      <4>2. QED
        BY <3>1, <4>1, <2>1, <2>3, <2>9
    <3>2. CASE j = Len(left) + 1
      <4>1. CASE i \in 1..Len(left)
        BY <3>2, <4>1, <2>1, <2>3, <2>6
      <4>2. CASE i = Len(left) + 1
        BY <3>2, <4>2, <2>3, <1>16
      <4>3. QED
        BY <4>1, <4>2, <2>4
    <3>3. QED
      BY <3>1, <3>2, <2>4
  <2>10. {after[i] : i \in 1..Len(after)} = Since(request', c, b - Window)
    <3>1. Since(request', c, b - Window) = Since(request, c, b - Window) \cup {r}
      BY <1>23, <1>25
    <3>2. ASSUME NEW i \in 1..Len(after)
          PROVE  after[i] \in Since(request, c, b - Window) \cup {r}
      BY <2>2, <2>4, <2>5
    <3>3. ASSUME NEW x \in Since(request, c, b - Window) \cup {r}
          PROVE  \E i \in 1..Len(after) : after[i] = x
      <4>1. CASE x = r
        <5>1. Len(left) + 1 \in 1..Len(after)
          BY <2>1, <2>2
        <5>2. QED
          BY <4>1, <5>1, <2>2
      <4>2. CASE x \in Since(request, c, b - Window)
        <5>1. PICK i \in 1..Len(left) : left[i] = x
          BY <4>2, <2>1
        <5>2. i \in 1..Len(after)
          BY <2>1, <2>2
        <5>3. QED
          BY <5>1, <5>2, <2>2
      <4>3. QED
        BY <4>1, <4>2
    <3>4. QED
      BY <3>1, <3>2, <3>3
  <2>11. QED
    BY <2>2, <2>3, <2>7, <2>8, <2>9, <2>10 DEF Counts
<1>27. /\ after \in Seq(Requests) /\ Len(longer) <= Limit
       /\ Cardinality(Since(request', c, b - Window)) <= Limit
  <2>1. after \in Seq(Requests)
    BY AppendProperties
  <2>2. Len(longer) = Len(Recent(r)) + 1
    <3>1. b \in 0..LastArrival
      BY <1>2
    <3>2. QED
      BY <1>16, <3>1, AppendProperties
  <2>3. Len(longer) <= Limit
    BY <1>16, <1>18, <2>2, Settings
  <2> HIDE DEF after, longer
  <2>4. Cardinality({after[i] : i \in 1..Len(after)}) = Len(after)
    BY <1>26, <2>1, Listed DEF Counts
  <2>5. QED
    BY <1>26, <2>1, <2>3, <2>4 DEF Counts
<1> HIDE DEF longer, after
<1>28. ASSUME NEW d \in Clients
       PROVE  EntriesOK(d)'
  <2>1. CASE d = c
    <3>1. \A i \in 1..Len(limiter') : b <= request'[limiter'[i]].began
      BY <1>11, <1>13, <1>16
    <3>2. QED
      BY <1>16, <1>19, <1>26, <1>27, <2>1, <3>1 DEF EntriesOK
  <2>2. CASE d # c
    <3>1. PICK m \in Int :
            /\ m <= now
            /\ \A i \in 1..Len(limiter) : m <= request[limiter[i]].began
            /\ \E queue \in Seq(Requests) : Counts(entries[d], request, d, m - Window, queue)
      BY DEF RateOK, EntriesOK
    <3>2. PICK queue \in Seq(Requests) : Counts(entries[d], request, d, m - Window, queue)
      BY <3>1
    <3>3. Since(request', d, m - Window) = Since(request, d, m - Window)
      BY <1>24, <2>2
    <3>4. \A i \in 1..Len(queue) : request'[queue[i]].began = request[queue[i]].began
      BY <1>22
    <3>5. Counts(entries'[d], request', d, m - Window, queue)
      BY <1>19, <2>2, <3>2, <3>3, <3>4 DEF Counts
    <3>6. \A i \in 1..Len(limiter') : m <= request'[limiter'[i]].began
      BY <1>11, <1>13, <3>1
    <3>7. QED
      BY <3>1, <3>5, <3>6 DEF EntriesOK
  <2>3. QED
    BY <2>1, <2>2
<1>29. Order(limiter', request')
  <2>1. ASSUME NEW i \in 1..Len(limiter'), NEW j \in 1..Len(limiter'), i <= j
        PROVE  request'[limiter'[i]].began <= request'[limiter'[j]].began
    <3>1. /\ i + 1 \in 1..Len(limiter) /\ j + 1 \in 1..Len(limiter) /\ i + 1 <= j + 1
          /\ limiter'[i] = limiter[i + 1] /\ limiter'[j] = limiter[j + 1]
      BY <1>11, <2>1
    <3>2. request[limiter[i + 1]].began <= request[limiter[j + 1]].began
      BY <3>1 DEF RateOK, Order
    <3>3. QED
      BY <3>1, <3>2, <1>13
  <2>2. ASSUME NEW x \in Requests, request'[x].admitted, NEW i \in 1..Len(limiter')
        PROVE  request'[x].began <= request'[limiter'[i]].began
    <3>1. request'[x].began <= b
      BY <1>16, <1>20, <1>21, <1>22, <2>2
    <3>2. b <= request'[limiter'[i]].began /\ limiter'[i] \in Requests
      BY <1>11, <1>12, <1>13, <1>16
    <3>3. request'[x].began \in Int /\ request'[limiter'[i]].began \in Int
      BY <1>22, <3>2
    <3>4. QED
      BY <1>16, <3>1, <3>2, <3>3
  <2>3. QED
    BY <2>1, <2>2 DEF Order
\* A window with r in it ends at r or later, so that what was admitted in it is among
\* what was counted.
<1>30. ASSUME NEW d, NEW t \in Int, ~(d = c /\ b \in (t - Window + 1)..t)
       PROVE  Admitted(d, t)' = Admitted(d, t)
  BY <1>16, <1>20, <1>21, <1>30 DEF Admitted
<1>31. ASSUME NEW t \in Int, b \in (t - Window + 1)..t
       PROVE  /\ Admitted(c, t)' \subseteq Since(request', c, b - Window)
              /\ Admitted(c, t) \subseteq Since(request, c, b - Window)
  <2>1. Window \in Int /\ b \in Int /\ b <= t
    BY <1>16, <1>31, Settings
  <2>2. ASSUME NEW x \in Requests, request[x].began \in (t - Window + 1)..t
        PROVE  request[x].began > b - Window
    BY <1>22, <2>1, <2>2
  <2>3. Admitted(c, t) \subseteq Since(request, c, b - Window)
    BY <2>2 DEF Admitted, Since
  <2>4. Admitted(c, t)' \subseteq Since(request', c, b - Window)
    BY <1>22, <2>2 DEF Admitted, Since
  <2>5. QED
    BY <2>3, <2>4
<1>32. \A d, m : /\ IsFiniteSet(Since(request, d, m))
                 /\ IsFiniteSet(Since(request', d, m))
  <2>1. \A d, m : Since(request, d, m) \subseteq Requests /\ Since(request', d, m) \subseteq Requests
    BY DEF Since
  <2>2. QED
    BY <2>1, Settings, FS_Subset
<1>33. ASSUME NEW d \in Clients, NEW t \in Int
       PROVE  (Cardinality(Admitted(d, t)) <= Limit)'
  <2>1. CASE d = c /\ b \in (t - Window + 1)..t
    <3>1. Cardinality(Admitted(c, t)') <= Cardinality(Since(request', c, b - Window))
      BY <1>31, <1>32, <2>1, FS_Subset
    <3>2. /\ Cardinality(Since(request', c, b - Window)) \in Nat
          /\ Cardinality(Admitted(c, t)') \in Nat
      BY <1>31, <1>32, <2>1, FS_Subset, FS_CardinalityType
    <3>3. QED
      BY <1>27, <2>1, <3>1, <3>2, Settings
  <2>2. CASE ~(d = c /\ b \in (t - Window + 1)..t)
    BY <1>30, <2>2 DEF RateOK
  <2>3. QED
    BY <2>1, <2>2
<1>34. ASSUME NEW x \in Requests, (At(x, "refusing") \/ request[x].status = 429)'
       PROVE  (/\ request[x].client \in Clients
               /\ Cardinality(Admitted(request[x].client, request[x].began)) = Limit)'
  <2>1. x # r
    BY <1>2, <1>4, <1>6, <1>34 DEF At, RequestOK
  <2>2. request'[x] = request[x]
    BY <1>6, <2>1
  <2>3. PICK d \in Clients, t \in Int :
          /\ d = request[x].client /\ t = request[x].began
          /\ Cardinality(Admitted(d, t)) = Limit
    BY <1>22, <1>34, <2>2 DEF At, RateOK
  <2>4. ~(d = c /\ b \in (t - Window + 1)..t)
    <3>1. SUFFICES ASSUME d = c, b \in (t - Window + 1)..t
                   PROVE  FALSE
      OBVIOUS
    <3>2. Cardinality(Admitted(c, t)) <= Cardinality(Since(request, c, b - Window))
      BY <1>31, <1>32, <2>3, <3>1, FS_Subset
    <3>3. QED
      BY <1>16, <1>18, <2>3, <3>1, <3>2, Settings
  <2>5. Admitted(d, t)' = Admitted(d, t)
    BY <1>30, <2>4
  <2>6. Admitted(d, t)' = Admitted(request[x].client, request[x].began)'
    BY <2>2, <2>3 DEF Admitted
  <2>7. QED
    BY <2>2, <2>3, <2>5, <2>6
<1>35. \A d \in Clients : Len(entries'[d]) <= Limit
  BY <1>19, <1>27 DEF RateOK
<1>36. RateOK'
  BY <1>19, <1>28, <1>29, <1>33, <1>34, <1>35 DEF RateOK
<1>37. QED
  BY <1>9, <1>10, <1>14, <1>15, <1>36
LEMMA CountKeeps ==
    ASSUME GatewayInv, NEW r \in Requests, Count(r)
    PROVE  GatewayInv'
<1>1. /\ At(r, "limiter") /\ Has(limiter, r)
      /\ UNCHANGED <<now, slots, provider, cache, fetchers, seen, rotations>>
  BY DEF Count
<1>2. CASE Len(Recent(r)) >= Limit
  <2>1. /\ request' = [request EXCEPT ![r].step = "refusing"]
        /\ entries' = [entries EXCEPT ![request[r].client] = Recent(r)]
        /\ limiter' = limiter
    BY <1>2 DEF Count, Recent
  <2>2. QED
    BY <1>1, <1>2, <2>1, RefusesKeeps
<1>3. CASE ~(Len(Recent(r)) >= Limit)
  <2>1. Len(Recent(r)) \in Nat
    BY <1>1, RecentRight
  <2>2. Len(Recent(r)) < Limit
    BY <1>3, <2>1, Settings
  <2>3. Admits(r)
    BY <1>3, <2>2 DEF Count, Recent, Admits
  <2>4. QED
    BY <1>1, <2>3, AdmitsKeeps
<1>4. QED
  BY <1>2, <1>3

-----------------------------------------------------------------------------
(***************************************************************************)
(* The theorems.                                                           *)
(***************************************************************************)

LEMMA InitOK ==
    ASSUME Init
    PROVE  GatewayInv
<1> USE DEF Init
<1>1. KeysOK
  BY Settings DEF KeysOK
<1>2. RequestsOK
  <2>1. RequestOK(New)
    <3>1. /\ New \in Request /\ New.step = "new" /\ New.began = 0 /\ New.admitted = FALSE
          /\ New.fetched = {} /\ New.status = 0 /\ now = 0
      BY NewFields
    <3>2. New.began <= now
      BY <3>1
    <3> HIDE DEF Init
    <3>3. QED
      BY <3>1, <3>2 DEF RequestOK
  <2>2. QED
    BY <2>1, NewFields DEF RequestsOK
<1>3. \A r \in Requests : request[r] = New
  OBVIOUS
<1>4. \A r \in Requests :
        /\ request[r].step = "new" /\ request[r].admitted = FALSE /\ request[r].status = 0
  BY <1>3, NewFields
<1>5. SlotsOK
  <2>1. {r \in Requests : Inside(r)} = {}
    BY <1>4 DEF Inside, At
  <2>2. Cardinality({}) = 0 /\ 0 \in 0..Slots
    BY FS_EmptySet, Settings
  <2>3. QED
    BY <2>1, <2>2 DEF SlotsOK
<1>6. QueuesOK
  BY <1>4 DEF QueuesOK, Queue, Distinct, At
<1>7. RateOK
  <2>1. ASSUME NEW c \in Clients
        PROVE  EntriesOK(c)
    <3>1. Since(request, c, 0 - Window) = {}
      BY <1>4 DEF Since
    <3>2. entries[c] = <<>> /\ limiter = <<>> /\ now = 0
      OBVIOUS
    <3>3. Counts(entries[c], request, c, 0 - Window, <<>>)
      BY <3>1, <3>2 DEF Counts, Distinct
    <3>4. <<>> \in Seq(Requests) /\ 0 \in Int /\ 0 <= now
      BY <3>2
    <3>5. \A i \in 1..Len(limiter) : 0 <= request[limiter[i]].began
      BY <3>2
    <3> HIDE DEF Init
    <3>6. QED
      BY <3>3, <3>4, <3>5 DEF EntriesOK
  <2>2. \A c, t : Admitted(c, t) = {}
    BY <1>4 DEF Admitted
  <2>3. \A c \in Clients : \A t \in Int : Cardinality(Admitted(c, t)) <= Limit
    <3>1. Cardinality({}) = 0 /\ 0 <= Limit
      BY FS_EmptySet, Settings
    <3> HIDE DEF Init
    <3>2. QED
      BY <2>2, <3>1
  <2>4. Order(limiter, request)
    BY <1>4 DEF Order
  <2>5. entries \in [Clients -> Seq(0..LastArrival)] /\ \A c \in Clients : Len(entries[c]) <= Limit
    BY Settings
  <2>6. QED
    BY <1>4, <2>1, <2>3, <2>4, <2>5 DEF RateOK, At
<1>8. QED
  BY <1>1, <1>2, <1>5, <1>6, <1>7 DEF GatewayInv

LEMMA NextOK ==
    ASSUME GatewayInv, [Next]_vars
    PROVE  GatewayInv'
<1>1. ASSUME NEW r \in Requests, Arrive(r) \/ Count(r) \/ Refused(r) \/ Authenticate(r)
                                   \/ TakeLock(r)
      PROVE  GatewayInv'
  BY <1>1, ArriveKeeps, CountKeeps, RefusedKeeps, AuthenticateKeeps, TakeLockKeeps
<1>2. ASSUME NEW r \in Requests, Answer(r) \/ Fetch(r) \/ FetchFails(r) \/ Respond(r)
                                   \/ TimeOut(r)
      PROVE  GatewayInv'
  BY <1>2, AnswerKeeps, FetchKeeps, FetchFailsKeeps, RespondKeeps, TimeOutKeeps
<1>3. CASE Tick
  BY <1>3, TickKeeps
<1>4. CASE Rotate
  BY <1>4, RotateKeeps
<1>5. CASE UNCHANGED vars
  <2>1. KeysOK' /\ RequestsOK' /\ SlotsOK' /\ QueuesOK'
    BY <1>5 DEF vars, GatewayInv, KeysOK, RequestsOK, RequestOK, SlotsOK, QueuesOK, Inside, At
  <2>2. RateOK'
    <3>1. RateOK /\ UNCHANGED <<now, request, entries, limiter>>
      BY <1>5 DEF vars, GatewayInv
    <3>2. \A c \in Clients : EntriesOK(c)'
      BY <3>1 DEF RateOK, EntriesOK
    <3>3. ASSUME NEW c, NEW t
          PROVE  Admitted(c, t)' = Admitted(c, t)
      BY <3>1 DEF Admitted
    <3>4. \A c \in Clients : \A t \in Int : (Cardinality(Admitted(c, t)) <= Limit)'
      BY <3>1, <3>3 DEF RateOK
    <3>5. ASSUME NEW r \in Requests, (At(r, "refusing") \/ request[r].status = 429)'
          PROVE  (/\ request[r].client \in Clients
                  /\ Cardinality(Admitted(request[r].client, request[r].began)) = Limit)'
      BY <3>1, <3>5 DEF RateOK, At, Admitted
    <3>6. QED
      BY <3>1, <3>2, <3>4, <3>5 DEF RateOK
  <2>3. QED
    BY <2>1, <2>2 DEF GatewayInv
<1>6. QED
  BY <1>1, <1>2, <1>3, <1>4, <1>5 DEF Next

\* Whatever the requests, the provider and the clock do, the gateway's invariant holds:
\* install_security_middleware's stack and SupabaseJWTValidator with their two locks.
THEOREM GatewayInductive == Spec => []GatewayInv
<1>1. Init => GatewayInv
  BY InitOK
<1>2. GatewayInv /\ [Next]_vars => GatewayInv'
  BY NextOK
<1>3. QED
  BY <1>1, <1>2, PTL DEF Spec

\* The state keeps its types, never more slots are taken than the semaphore has, and the
\* deque of a client never holds more entries than its limit.
THEOREM TypesKept == Spec => []GatewayTypeOK
<1>1. GatewayInv => GatewayTypeOK
  BY DEF GatewayInv, GatewayTypeOK, KeysOK, RequestsOK, SlotsOK, QueuesOK, Queue, RateOK
<1>2. QED
  BY <1>1, GatewayInductive, PTL

\* Every slot taken is given back, whichever of the ways out of the middleware a request
\* takes, and nobody is left in a lock's queue.
THEOREM SlotsAlwaysAccounted == Spec => []SlotsAccounted
<1>1. GatewayInv => SlotsAccounted
  <2>1. ASSUME GatewayInv
        PROVE  SlotsAccounted
    <3>1. limiter \in Seq(Requests) /\ fetchers \in Seq(Requests)
      BY <2>1 DEF GatewayInv, QueuesOK, Queue
    <3>2. DOMAIN limiter = 1..Len(limiter) /\ DOMAIN fetchers = 1..Len(fetchers)
      BY <3>1
    <3>3. QED
      BY <2>1, <3>2 DEF GatewayInv, SlotsOK, QueuesOK, Queue, SlotsAccounted
  <2>2. QED
    BY <2>1
<1>2. QED
  BY <1>1, GatewayInductive, PTL

\* RateLimitMiddleware admits no more than its limit in any window, and refuses only what
\* is over it, although a request reads the clock before it waits for the lock.
THEOREM RateAlwaysExact == Spec => []RateExact
<1>1. GatewayInv => RateExact
  <2>1. ASSUME GatewayInv
        PROVE  RateExact
    <3>1. \A t \in 0..now : t \in Int
      OBVIOUS
    <3>2. QED
      BY <2>1, <3>1 DEF GatewayInv, RateOK, RateExact
  <2>2. QED
    BY <2>1
<1>2. QED
  BY <1>1, GatewayInductive, PTL

\* validate never turns a token away for a key that was published all the while, however
\* the fetches of several requests and the provider's rotations interleave.
THEOREM KeysAccepted == Spec => []PublishedKeyAccepted
<1>1. GatewayInv => PublishedKeyAccepted
  BY DEF GatewayInv, RequestsOK, RequestOK, PublishedKeyAccepted
<1>2. QED
  BY <1>1, GatewayInductive, PTL

\* A key the provider withdrew is accepted for less than jwks_cache_ttl_seconds and one
\* request_timeout_seconds more.
THEOREM KeysExpire == Spec => []WithdrawnKeyExpires
<1>1. GatewayInv => WithdrawnKeyExpires
  BY DEF GatewayInv, RequestsOK, RequestOK, WithdrawnKeyExpires, At
<1>2. QED
  BY <1>1, GatewayInductive, PTL
=============================================================================
