# TLA+ specifications of get-auction-list-api

The service answers chat questions about Texas foreclosure auctions. A FastAPI process
runs a LangGraph workflow per chat request, over three sources: indexed policy pages,
indexed auction spreadsheets and live public records. A second kind of process, the
ingestion worker, fills the index from a queue kept in PostgreSQL.

These modules model the parts in which several actors meet: workers, handlers and the
database; chat runs, their parallel branches and the checkpoint they share; requests and
the locks they wait for on their way to an endpoint; look-ups of public records and the
cache they share. Run

    tlc -config IngestionQueue.cfg IngestionQueueMC.tla
    tlapm IngestionQueueProofs.tla

and likewise for the other configurations and proofs listed below. All paths in this
text are relative to `src/get_auction_list_api/` of the repository unless they start
with `docs/` or `tests/`.

## 1. Inventory

### Components, their state and their operations

| Component | State | Operations | Hard because | Correct when |
|---|---|---|---|---|
| Queue (`ingestion/queue.py`) | rows of `ingestion_jobs`: state, attempts, available_at, heartbeat_at, lease token | claim, heartbeat, succeed, fail, recover_stale: one statement each | several workers; statements whose client gave up | one owner per lease, bounded attempts, final states final |
| Worker (`ingestion/worker.py`) | current job, lease token, stop event | run_worker, _handle_with_heartbeat | killed anywhere; lease lost under a live handler; exceptions in the error path | every claim is settled or recovered; a success is one of its own handler |
| Producers (`ingestion/operations.py`, `domain.py`) | - | enqueue, sync | resubmission of a key | a key's job is created once |
| Handler and publisher (`ingestion/handler.py`, `publisher.py`) | documents, versions, chunks, auction records, mortgagors | ensure_document, find_version, publish, publish_auction_rows | two transactions per file; files that share records; stale find_version | files appear whole; a returned handler has published |
| Database (`database.py`) | pool | execute, fetch, transaction | command timeouts; a driver that refuses parameters | transactions all or nothing |
| Chat workflow (`graph/workflow.py`, `state.py`) | the channels of a run; its stream | thirteen graph nodes, astream | parallel branches, retries, partial failures, a checkpoint left by another run | grounded, complete, honest, disclaimed, well-formed streams |
| Adapters (`graph/adapters.py`) | - | knowledge_search, auction_search, public_search | error kinds | an answer carries its citations |
| Checkpoints, owners (`graph/checkpoint.py`) | `checkpoint_thread_owners`, checkpoints | ensure_owner | two users race | one user per thread |
| Chat endpoints (`api/v1/chat.py`) | - | chat, chat/stream, feedback | clients that leave | a stream ends in an answer or a failure |
| HTTP client (`public_records/http.py`) | response cache | get | retries, redirects, bodies, concurrent misses | failures are tool errors; limits hold; answers are fresh |
| Public-record tools (`public_records/service.py`, `mcp.py`) | - | schedule, search, details, notices | some callers have a time limit, others none | every look-up ends |
| Token validation (`auth.py`) | JWKS cache, lock | validate | key rotation, concurrent refresh | a published key is found, a withdrawn one expires |
| Middleware (`middleware.py`) | request times per client, semaphore | rate limit, concurrency limit, timeout, body size | concurrent requests, late answers | limits hold, slots are given back |
| Retrieval (`rag/retrieval.py`) | - | fusion, deduplication, selection | budgets, ties | budgets hold, order kept |
| Auction search (`tools/auction_search.py`, `repositories.py`) | - | search | (SQL) | read-only |
| Feedback (`runtime.py`) | one dictionary | record | duplicates | one id per message and user |
| Chunking, parsing, normalisation (`ingestion/chunking.py`, `parsers/`, `normalization/`, `ingestion/auction_rows.py`, `path_meta.py`) | - | pure functions | overlapping windows, heading levels, one bad row | no word lost; each chunk under its headings |
| Embeddings (`llm/embeddings.py`, `llm/openai.py`) | - | embed, in batches | items in any order, or missing | each text gets its own vector |
| Wiring, health, metrics, observability, evaluation, schemas | - | I/O and formatting | - | - |

### How they interact

    POST /v1/ingestion/...            POST /v1/chat/stream
            |                                  |
        enqueue                   ensure_owner, then the graph:
            v                       validation -> routing -> extraction
     ingestion_jobs  <--- claim,      -> { knowledge | auction | public }  (parallel)
            |             heartbeat,  -> correlation -> grounding -> disclaimer
        run_worker        settle      -> synthesis -> finalization
            |                                  |  every step saves the checkpoint,
     handle_ingestion_job                      |  events go to the client
            v                                  v
     documents, versions, chunks,  --->  read by retrieval and auction search
     auction_records, mortgagors

* Producers, workers and handlers meet only in database rows; the database's statement
  and transaction semantics are the only synchronisation.
* A handler is run again after a failure, a lost lease or a dead worker, so two runs of
  one job can overlap, the first not knowing yet that it has lost its lease.
* Two chat runs of one thread share its checkpoint: a run starts from whatever was saved
  last and saves its own after every step.
* Chat reads what publication committed; it writes nothing that publication reads.
* The chat's branch for public records and the MCP tools use one HTTP client, whose cache
  one call fills for all.
* Every request passes the timeout, the concurrency limit, the rate limit and the token
  validation, which share a semaphore and two locks between requests.

### Behaviours that are hard to test

Each is listed with its line and the property that covers it under `hazards` in
`PROJECT.json`. The main ones: a lease recovered under a live handler; a statement that
is executed after its client gave up; a kill between any two statements; two files that
lock shared records in opposite order; a stale `find_version`; a checkpoint left by a run
that failed half way or is still running; a driver that refuses a statement, or whose reply
cannot be read after the row was changed; a record with columns of two files; branches that fail beside branches that answer;
a failure after the answer was sent; sources that redirect in a circle or never end their
answer; embeddings that come back in another order.

## 2. Plan

Modules, in order of importance. "Done" ones are described in section 3.

| # | Module | What | Abstract specification | Status |
|---|---|---|---|---|
| 1 | `IngestionQueue` | queue table, workers, producers, lost statements, kills | `JobLifecycle` | done, proved |
| 2 | `Publication` | handlers and tables, transactions, locks | `PublishedCatalog` | done, proved |
| 3 | `ChatRun` | chat workflow, adapters, owners, stream | `ChatTurn` | done, safety and refinement proved |
| 4 | `ChatTurn` | what the users of a thread may rely on: one owner, every source heard once before the text, then one answer true to what was heard, or a failure; implemented by `ChatRun` | itself | done |
| 5 | `ApprovedHttp`, `PublicRecords` | the client of `public_records/http.py` and the look-ups over it; their outcomes are the answers that `ChatRun` starts from | - | done, safety proved |
| 6 | `Gateway` | rate limit, concurrency limit and timeout of `middleware.py` around the key cache of `auth.py` | - | done, safety proved |
| 7 | `Retrieval` | `rag/retrieval.py` over `PublishedCatalog`: two queries, fusion, deduplication, selection | the properties, stated without the algorithm | done, proved |
| 8 | `Chunking`, `Documents` | what a source becomes before `Publication` stores it: rows, chunks, vectors | the page itself | done, proved |

The modules are written to be proved about as well as checked: no `RECURSIVE` operators,
named assumptions on constants, one action per operation. `FoldProofs` is what the proofs
about the pure modules share: what a fold computes, sums, and the order of lists.

## 3. The modules

### IngestionQueue (with JobLifecycle and IngestionQueueProofs)

`job` is the table, one row per idempotency key. The statements of `queue.py` are
operators on it (`ClaimJob`, `HeartbeatJob`, `SucceedJob`, `FailJob`, `RecoverJobs`); the
where clauses are `Candidates`, `Owned` and `Stale`, the case expressions `Released`. Each
statement is atomic: it is one SQL statement, and `for update skip locked` makes
concurrent claims behave as if one came after the other.

`pc[w]` is where a worker is in `run_worker`:

    off -> boot -> loop -> handling -> finishing -> loop
                    ^         |            |
                    +------ failing <------+

`Claim` generates a fresh token and claims one job; `Heartbeat` is one pass of the waiting
loop, which raises when no row was updated; `Succeed` raises when the lease was lost;
`Fail` ignores its result; `Exit` happens only between jobs. A claim that finds no job is
no step.

The driver. `queue.py` passes text for intervals (`_interval`) and dicts for jsonb, and
`IngestionJob` wants dicts back. asyncpg encodes and decodes like that only with a codec set
on the connection, and `create_pool` in `database.py` sets none; elsewhere the code allows
for it (`publisher.py` passes `json.dumps(...)`, `domain.py:146` and `rag/models.py:35`
accept text). `JsonbAsDict` and `IntervalAsText` are the processes whose driver has the
codecs. In the program as it is both are empty, and then no job is ever enqueued and no
worker gets beyond its first statement (`queue_driver`). Sets that are not empty are builds
in which that is put right, wholly or in part; the theorems hold for all of them, the
program as it is included. Without the codec a statement's parameters are not `Sent`, and
the worker meets the exception without a trace in the table (`Refused`). Or the statement is
executed and the rows it returns are not `Readable`: the table has changed, and the worker
meets the exception (`Unread`); a claim read like that leaves a lease that nobody knows of.
`StatementRaises` is what run_worker does with either.

`LoseReply` is a command timeout or a broken connection: the statement goes to `wire`,
where the server may still execute it (`LateExecution`) or not (`Lost`), and the worker
goes on as the code does: inside the `try` it records a failure, elsewhere the exception
ends the process. `Crash` is a kill.

Time is relative. `age` of a running row counts ticks since its heartbeat and saturates
above `StaleAfter`, beyond which the code tells no values apart. `due` of a waiting row is
the time until it may be claimed, and stops at `-MaxLag`. A busy worker in `Punctual`
lets at most `HeartbeatEvery` ticks pass between heartbeats (or until it settles its
job); any other may be arbitrarily late, as when a handler blocks the event loop.

`returned` is a history variable: the leases whose handler returned.

`JobLifecycle` is the promise without workers, leases, time or messages: `Submit`,
`Begin`, `HandlerDone`, `Complete`, `GiveUp`. The refinement mapping takes the phase from
a row's state (queued and retry are "waiting"), the attempts from the row, and the jobs
whose handler has returned from `returned` and the row's current lease.

### Publication (with PublishedCatalog and PublicationProofs)

One run of `handle_ingestion_job` per element of `Handlers`, statement by statement:
`Begin` (the download fixes the content), `EnsureDocument`, `FindVersion` (outside any
transaction), then either the unchanged path (`ReturnUnchanged` for pages,
`RepublishRows` for spreadsheets) or `InsertVersion`, `CommitVersion` and, for a
spreadsheet, `UpsertRow` per row and `CommitRows` in a second transaction.

Uncommitted writes are kept as the position of the run, so they are invisible to
others, and the rows they wrote are locked (`Held`, `Needed`, `Blocked`). The server
breaks a cycle of waiting transactions by failing one of them (`DeadlockVictim`).
`Abort` is any other end of a handler: exception, cancellation after a lost lease, death
of the process. `Edit` changes what a source serves.

A content is a workbook or a page, and `Documents` says what becomes of it: `Units` are
the stable keys of its rows in file order, or its chunks, and `Vectors` the vectors that
the chunks may get. A chunk is stored with its version, its index, its text and its
vector. (`publisher.py` passes jsonb as `json.dumps(...)` and vectors as text, which asyncpg
takes as they are.)

`record` is the version that wrote a record last: on conflict the upsert sets
`document_version_id`, `source_coordinates` and the columns of the sale, address and loan.
`origin` is the version that inserted it, whose `state`, `rid`, `source_url`, `source_name`
and `raw_metadata` the upsert leaves alone, as it does `county` (every writer of a key has
the same, the key is made of it). So one record may have columns of two files.
`RecordsWhole` says what does hold: mortgagors agree with the last writer, and nothing
is from a file that has no such record or that failed.

`PublishedCatalog` has two operations, `PublishVersion` and `PutRows`, each at once.
`Publication` implements it, a stored chunk being mapped to its version and index: all of
its intermediate steps are invisible in the tables.

### Documents and Chunking (with DocumentsProofs and FoldProofs)

`Documents` has no state. `Those` is a loop over 1 to n that keeps some of the numbers:
`Rows` are so the rows of a sheet that are normalized, which are not those under an invalid
header and not blank or anonymous ones, and `Chunks` takes the nodes with text. `StableKeys`
are those of the whole workbook, and none at all if one row is unreadable, since the
exception of its normalization leaves `build_publishable_rows`. `Path` is the section path
that `HtmlParser.parse` keeps, `Chunks` what `chunk_units` makes of the page, and
`Embeddings` what `embed` may return: `Batches` of `MaxBatch` texts, a reply per batch with
items in any order and maybe fewer than asked for (`Replies`), sorted by index (`Transport`:
the p-th vector is of the item with p - 1 smaller indices), joined, and counted. A text's
vector is the text itself, which is enough to see a vector at the wrong chunk.

`Chunking` is the arithmetic of the windows alone: `HasWindow(k, n)` says that the loop of
`chunk_units` gets to its k-th window in a unit of n words.

`VersionsWhole` compares what is stored with the page, without the algorithm: each word is
in a chunk under the headings that stand above it (`Headings`: those that no later heading
of their level or above has closed), in order, with its own vector. It is about pages whose
headings are `Nested`, none more than one level below the one before it. Where a page
skips levels, the code's cut by position (`path[: level - 1]`) can keep a heading that is
closed: from level 1 to 4 and then to 3, the one of level 4 stays above the text. No document
says what the path should be there, so nothing is claimed of such pages.

### ChatRun (with ChatTurn and ChatRunProofs)

One record per request of one thread: where it is (`step`), its channels (`ch`), what
its branches have still to do (`left`), and what was sent to its client (`sent`).
`checkpoint` is the thread's last saved state, per user, because the checkpoint key holds
the user. `owner` is the row of `checkpoint_thread_owners`.

The actions are the graph's nodes under their names, `ClaimThread`, `Refuse` and `Begin`
for `ensure_owner` and the start of the graph, and `Close` for what `astream` does after
the graph's end. The branches of one run interleave with each other (`Answered`,
`Retry`, `Unavailable`, `Raised`) and with the steps of other runs. A step saves the
checkpoint for the next run; what the branches merged is saved at the join, where the
superstep ends. `Fail` and `Cancel` end a run anywhere.

Facts (evidence, auction cards, property candidates) and citations are records with
the run they were made in, which the code does not store: with it, `OwnRunOnly` can say
what "leaks from an earlier turn" means. `Answer` lists what each adapter may return,
with answers marked "uncited" which the `GraphServices` interface allows (and
`tests/test_graph_workflow.py:382` uses) though this repository's adapters never
give them; grounding exists for those. `NothingVerifiedLost` rests on these shapes
(`Offered`): an answer that mixes cards with a candidate that has its citation and one that
has not, which the interface allows and no adapter gives, is not among them. Scores are not modelled: where the code ranks
candidates, the model takes any.

Facts about LangGraph that the model relies on, as the code does: the first "values"
event carries the state the run starts from; state is saved after every superstep, in the
background; what a failed superstep's branches wrote is not part of the state that a new
input starts from.

`ChatTurn` is the promise without a graph, checkpoints, channels or retries: `Ask`, `Own`,
`Start`, `Look` into one source, `Tell`, `Answer`, `End` and `Fail`. The refinement mapping
groups the steps of a run into phases (`PhaseOf`) and takes what was looked up from what
its branches returned (`got`), an exception that a node catches being a source that
failed. `Own` is the insert of an owner that finds none; `Look` is a branch that is done;
`Tell` and `Answer` are synthesis and finalization. The graph's other nodes, retries and a
claim that comes too late are stutters: up to the text nobody outside sees them. An answer
is one of those that are `Truthful` to what was looked up: all facts that a source
vouched for, none that no source found, exactly the failed sources, and a status that
agrees. `Tell` waits for every source the question asks for, which is how the fan-in of
the graph shows outside.

### ApprovedHttp and PublicRecords (with PublicRecordsProofs)

`ApprovedHttp` is `ApprovedHttpClient.get`: `cache` and, per task, the call under way.

    idle -> resolving -> sending -> reading -> returned
               ^____________|                       (an error from each: failed)

A step is what lies between two awaits. `GetCached` and `GetFresh` are the look at the
cache; `Resolve` is `_validate` and the first request; `SendTimeout`, `ServerError`,
`ClientError`, `Redirect` and `Respond` are what becomes of a request; `ReadChunk` and
`EndOfBody` read the body. `Serves[u]` is what a source may answer, chosen anew at every
request. What the code does not translate, a timeout while the body is read and every
other exception (of httpx, or of `_validate` over the port of a malformed redirect), is in
`Escaped`.

`PublicRecords` has a look-up per task: one of the operations of `PublicRecordsService`,
called by a tool or by `public_search` of the chat, which is under `wait_for` and is tried
`Budget` times (`TimeOut`). How a page reads is a choice (`Reads`); what each operation,
and the chat after a search (`SelectProperty`), does then is not: an empty calendar is a
result or a changed layout, one property leads to its details, several are put to the user.
The outcomes of a chat look-up are named as the
answers of `public_search` in `ChatRun`. `Leave` is a client that goes away in the middle.

Time is counted in ticks. A response's phases are timed one by one, as httpx does, so a
body may come slowly for ever but for its size limit; the pause between two requests is far
shorter than a tick. `age` is history: ticks since the source sent the head.

### Retrieval (with RetrievalProofs and FoldProofs)

`HybridRetriever.retrieve` as its two awaits: `Fts` and `Vector`, with `Publish` (the
abstract catalogue's `PublishVersion`, an instance of `PublishedCatalog`) between them or
at any other time. What publication keeps of its promises to readers is thereby used as
well as checked: `Publication` implements the catalogue that `Retrieval` reads.

The queries order chunks by scores that nothing else uses, so `Results` is any injective
list of the length the query has: up to `CandidateLimit` of the matching chunks for
words, and for embeddings of those that a scan reaches (all, or fewer with an approximate
index), of every version of a page. `Fused`, `Distinct` and
`Select` are `reciprocal_rank_fusion`, `_deduplicate` and the selection loop; scores are
fractions. For ranks up to the code's limit of 40 the floating-point sums are in the
same order, but for one tie (ranks 6 and 39 against 12 and 28) that rounding breaks and
the ids break in the model. A unit has a cleaned text, a number of
tokens (of the original) and of characters (of the cleaned content), which are constants.
The repository marks all chunks approved and no reranker is configured, so neither is in
the model.

The properties do not use the algorithm: `LeftOutForCause` and `RetrievalTypeOK` sum over
the context, `BestOfText` and `AgreementWins` compare with everything that was found.
`NoAnswerForCause` shows what the threshold of 0.015 does in the code: nothing unless the
best candidate is too big, since every first rank scores 1/61.

### Gateway (with GatewayProofs)

`request[r]` is a request on its way through `TimeoutMiddleware`,
`ConcurrencyLimitMiddleware`, `RateLimitMiddleware` and `SupabaseJWTValidator.validate`,
in the order `install_security_middleware` stacks them:

    new -> limiter -> auth -> [keys -> fetching]* -> handling -> done
              |
              +-> refusing -> done

`limiter` and `fetchers` are the queues of the two asyncio locks, whose heads have them.
`Arrive` tests and takes the semaphore (no await lies between) and reads the clock;
`Count` is the limiter with its lock; a refusal keeps the lock until the client has read
it (`Refused`). `Authenticate` looks the token's key up, `TakeLock` is the second look
at the cache behind the lock, `Answer` the moment the provider produces its keys and
`Fetch` the later one they are put into the cache. `TimeOut` cancels a request wherever
it is; `Leave` is what the `async with` blocks give back then. `Rotate` changes what the
provider publishes.

Time is a counter, and timers are not late: it does not pass while a request is
overdue. `seen`, `steady` and `lag` are history: when a key was published last, the keys
published ever since a request arrived, how old the accepted key's withdrawal was. Only
requests that carry a well-formed token are modelled; signature and claims are not. A
provider answer that is no key set is 500 in the model and 401 in the code, so that 401
means here that the key was looked up and not found.

## 4. What is checked

| Run | Question | Bounds |
|---|---|---|
| `queue_safety` (`IngestionQueue.cfg`) | Are leases exclusive, is a punctual owner's lease never stale, are successes earned? | 3 workers, 1 of them punctual with both intervals 1, 2 jobs, 2 attempts, 1 disturbance |
| `queue_lifecycle` (`IngestionQueueLifecycle.cfg`) | Does the queue implement `JobLifecycle`, also when some drivers lack codecs? | 3 workers: 1 with both codecs, 1 with that of intervals, 1 with none; 2 jobs, 2 attempts, 1 disturbance |
| `queue_driver` (`IngestionQueueDriver.cfg`) | Does an undisturbed worker claim jobs until it is stopped, with the pool of `database.py`? **No** | 2 workers, no codecs |
| `queue_stale_recovery` (`IngestionQueueStale.cfg`) | Does a healthy worker recover stale leases? **No** | 2 workers, 1 job |
| `publication_rows` (`PublicationRows.cfg`) | Are files and records whole, and do handlers end although they deadlock? | 2 handlers, 2 files with common records in opposite order, 1 abort |
| `publication_versions` (`PublicationVersions.cfg`) | Is a version the page it was made from, also when inserts race, does a return mean published, and is `PublishedCatalog` implemented? | 2 handlers, a page and a file, 3 contents of the file and 2 of the page that come back, 2 edits, 1 abort; windows of 3 words with 1 of overlap, batches of 2 |
| `chat_answers` (`ChatAnswers.cfg`) | Is what a run answers grounded, complete, honest and disclaimed? | 1 run, all answers and exceptions of all services, 1 fault |
| `chat_thread` (`ChatThread.cfg`) | Do runs of one thread keep apart, and is `ChatTurn` implemented? | 2 runs, 2 users, 1 fault |
| `chat_body_timeout` (`ChatBodyTimeout.cfg`) | Is a timeout of a public source reported as unavailable? **Not always** | 1 run |
| `retrieval` (`Retrieval.cfg`) | Does the context hold what it should, for any results of the two queries? | 5 chunks of 2 versions, 3 results each, budgets of which each binds somewhere |
| `public_records` (`PublicRecords.cfg`) | Are answers whole and fresh, requests bounded, and does every look-up end? | a chat task with 2 tries of 2 ticks and a tool's task, 2 attempts, 1 redirect, cache of 2 ticks, bodies of 1 to 3 chunks with a limit of 2 |
| `gateway` (`Gateway.cfg`) | Are limits exact, slots given back, keys current, and does every request end? | 3 requests of 1 client, 2 slots, 2 keys, 1 rotation |

Why the bounds are enough. The queue's rows interact only through the choice of the next job
to claim, so two jobs show every interaction; two workers show every conflict over a lease,
since each conflict is between the owner and one other, and the third is the one that
heartbeats on time among those. In `queue_safety` all have the codecs, so that any of them can
own a lease; in `queue_lifecycle` there is a worker of each kind. Two attempts have a retry
and an exhaustion. One disturbance lets a lease go stale under every step; the
theorems below drop the bound altogether. Two handlers are enough for a lock conflict and
for a deadlock of two, and two files with two common records in opposite order are the
smallest that deadlock; one has a row more than the other, a third is refused for one row.
The page has two windows in one unit, a heading that is replaced by one of its level, a unit
without words, and a second batch of one. In the chat, a run's answers do not depend on
other runs except through the checkpoint, so one run with every outcome, and two runs with a
few, cover both questions. Two requests conflict over each lock of the gateway and a third
is turned away by the semaphore or the limiter; clients meet only in the limiter's lock,
where requests of one client meet as well. Retrieval's ranks are smaller than the code's,
with the same relations: the threshold lies between the first reciprocals, and lists are
shorter than the rank constant plus two (`LowRanksOutweigh`). Its five units are chosen so
that one does not fit at all, two do not fit together, three fit but for the limit, and two
have one text. The sources of the public records include a search that redirects to where it
moved and back, one that leads nowhere or to an address that is not approved, and a body
over the limit; the two tasks share the calendar's address, so a hit of one is of the
other's page. `MaxFaults`, `MaxEdits`, `MaxLag`, `MaxRequests`, `LastArrival` and
`MaxRotations` are bounds that no code has; each is named in its module.

### Fairness

* Queue: the platform restarts workers, the driver answers or refuses, a handler returns or
  raises (its network calls carry timeouts), time passes. Only `queue_stale_recovery`, a
  counterexample, uses it, in a build with the codecs: liveness of the queue is not claimed,
  since of the program as it is nothing of the kind is true.
* Publication: a handler that can go on infinitely often does. This is strong fairness,
  because it may be blocked in between; PostgreSQL queues lock requests. A deadlock is
  found (`deadlock_timeout`).
* Chat: the event loop runs what is ready, and every service call is under
  `asyncio.wait_for`. Requests, faults and cancellations are not fair.

* Public records: the resolver answers, timers fire, a task's own next step is made, and
  time passes. Nothing is assumed of the sources. Time passes strongly fair: it is stopped
  while a task has a step to make that takes no time, and another task that begins and
  ends look-ups without end would stop it again and again.

* Gateway: time passes and timers fire. Nothing is assumed of clients, of the provider
  or of the endpoint: `asyncio.timeout` alone makes requests end. `RequestsEnd` is about
  leaving the locks and the semaphore; the 504 itself is sent outside of them.

### Disagreements between the code and its documentation

1. `docs/DEPLOYMENT.md:149` lets "one healthy worker recover leases" after the old
   replica is stopped. `recover_stale` runs once, when `run_worker` starts
   (`ingestion/worker.py:76`): a worker that is already up never recovers anything.
2. The docstring of `run_worker` (`ingestion/worker.py:61`): "Claim jobs until stopped".
   `recover_stale`, called before the loop, passes text for parameters of type interval
   (`ingestion/queue.py:182`); asyncpg refuses it, and the process ends at every start. The
   tests do not show it because their executor takes any argument. Past that, `enqueue` and
   `succeed` pass dicts for jsonb, and a claimed row cannot be read. Disagreement 1
   is there also where this one is put right.
3. `docs/DEPLOYMENT.md:217`: "Missing schedules or MCP timeouts surface as
   `unavailable_sources`". A source that times out while its body is read raises
   `httpx.ReadTimeout` outside the `try` of `ApprovedHttpClient.get`
   (`public_records/http.py:162`). It is no `PublicRecordToolError`, no `TimeoutError` and
   no `OSError`, so neither the adapter nor the node catches it, and the run fails.

Two more are in the modules, without a run of their own. The same sentence of
`docs/DEPLOYMENT.md`: a month that is not on the calendar ("missing schedule" in `ChatRun`)
is answered with a summary, status "completed" and no unavailable source
(`graph/adapters.py:161`). And `tools/auction_search.py:113`, "verify names and address
against the cited source": the citation gives `source_url` and `source_name`, which on
conflict stay those of the file that inserted the record (`ingestion/publisher.py:76`);
names, address and `document_version_id` are those of the file that wrote it last (`origin`
and `record` in `Publication`). Sheet and row are part of the stable key, so they are the
same in both. Nor does anything remove a record whose row a newer version of its file no
longer has, and no document says that something should.

## 5. What is proved

Every invariant and every action property that a passing run checks, and the three
refinements, for every value of the constants: any set of jobs and workers, handlers,
sources and contents, requests and keys, runs, users and answers, result lists, any setting
and any number of faults.

| Theorem | States |
|---|---|
| `IngestionQueueProofs!Inductive` | `IInv` holds of every reachable state |
| `TypeCorrect`, `ExclusiveLease`, `CleanLoop` | `TypeOK`, `OneOwner`, `NothingLeftBehind` |
| `BoundedRetry` | `AttemptsBounded`: no more attempts than allowed, dead letters only when they are used up |
| `IngestionQueueProofs!FinalStates` | `FinalIsFinal`: a job that succeeded or is dead-lettered stays as it is |
| `IngestionQueueProofs!Refinement` | `Spec => ImplementsLifecycle` |
| `IngestionQueueProofs!EarnedSuccess` | `SuccessIsEarned` |
| `IngestionQueueProofs!PunctualLease` | `PunctualOwnerKeepsLease` |
| `PublicationProofs!PublicationInductive` | `PublicationInv` holds of every reachable state |
| `TypesKept`, `RecordsStayWhole`, `NoFileIsTorn` | `PublicationTypeOK`, `RecordsWhole`, `NoTornFile` |
| `WhatReturnsIsPublished` | `ReturnedIsPublished` |
| `VersionsStayWhole` | `VersionsWhole`, if the pages are `Nested` |
| `CatalogImplemented` | `Spec => ImplementsCatalog` |
| `DocumentsProofs!EveryWordInAWindow` | every word of a unit is in a window that the loop gets to |
| `DocumentsProofs!WindowsAdvance` | each further window starts inside or right after the last, and reaches new words |
| `DocumentsProofs!EmbeddingsInOrder` | `embed` returns each text's own vector at its place, or nothing |
| `ChatRunProofs!ChatInductive` | `ChatInv` holds of every reachable state |
| `TypesKept`, `AnswersAreGrounded`, `AnswersOwnRunOnly` | `ChatTypeOK`, `Grounded`, `OwnRunOnly` |
| `CallsAsAsked`, `VerifiedIsKept`, `StatusIsHonest` | `RoutedAsAsked`, `NothingVerifiedLost`, `HonestStatus` |
| `DisclaimerIsGiven`, `StreamsAreWellFormed`, `OneUserPerThread` | `Disclaimed`, `StreamWellFormed`, `ThreadHasOneUser` |
| `ChatRunProofs!TurnImplemented` | `Spec => ImplementsTurn` |
| `GatewayProofs!GatewayInductive` | `GatewayInv` holds of every reachable state |
| `TypesKept`, `SlotsAlwaysAccounted`, `RateAlwaysExact` | `GatewayTypeOK`, `SlotsAccounted`, `RateExact` |
| `KeysAccepted`, `KeysExpire` | `PublishedKeyAccepted`, `WithdrawnKeyExpires` |
| `PublicRecordsProofs!RecordsInductive` | `RecordsInv` holds of every reachable state |
| `RecordsTyped`, `FreshAnswers`, `BoundedRequests` | `RecordsTypeOK`, `AnswersFresh`, `RequestsBounded` |
| `RetrievalProofs!RetrievalInductive` | `RetrievalInv` holds of every reachable state |
| `Typed`, `Agreement`, `Best` | `RetrievalTypeOK`, `AgreementWins`, `BestOfText` |
| `LeftOut`, `NoAnswer` | `LeftOutForCause`, `NoAnswerForCause` |

### From which assumptions

* Queue: `QueueAssumption`: at least one attempt, positive intervals and delays, `NoJob` not
  a job and the producer not a worker. Nothing is assumed of the codecs.
* Documents: `ChunkBudget`, which `chunk_units` tests (a positive budget and a smaller
  overlap), and `BatchAssumption`, a positive batch size.
* Publication: these and `PublicationAssumption`: contents are workbooks and pages, and no
  content is both. `VersionsStayWhole` alone assumes that headings are `Nested`, for the
  reason given in section 3; `PagesNested` states it of the pages that the run is checked on.
* Chat: `ChatAssumption`: a branch's service answers what its adapter or the interface
  allows (`Offered`), the retry budgets are numbers, and `None` and `NoUser` are none of the
  values that they stand beside.
* Gateway: `GatewayAssumption`: limits, window and timeouts are positive.
* Public records: `HttpAssumption` and `RecordsAssumption`: positive settings, approved
  addresses among the addresses, and `None` none of the values it stands beside.
* Retrieval: `RetrievalAssumption`: limits and sizes are numbers, the chunks' ids are
  distinct, each unit has a text. Two of the properties have a hypothesis of their own, which
  is true of the code's settings and of the run's: `LowRanksOutweigh` of `AgreementWins`
  (the limit of 40 is below 60 + 2) and `BestRankReaches` of `NoAnswerForCause` (1/61 is no
  less than 0.015).

`AttemptsBounded` and `FinalIsFinal` follow from `JobLifecycle` as well and
`ThreadHasOneUser` from `ChatTurn`, which the runs check, and are left to their proofs.

### The queue

`OneOwner` is not inductive: it says nothing of a claim that is still under
way and would be executed for a worker that has gone on. `IInv` adds four facts about
tokens. A row has a lease exactly while it runs, and no two rows have the same
(`LeasesOK`). No two workers have the same token, and a row that carries a worker's token
is the one the worker is busy with (`TokensOK`). The token of a claim under way is used
nowhere else, not even in another claim, and a completion under way is one of a handler
that returned (`WireOK`). A worker that is finishing has seen its handler return
(`ReturnedOK`). Each statement then touches only rows with its own token, or rows that
wait. A claim that cannot be read (`UnreadClaimKeepsOwnership`) puts a token on a row that
no worker holds, like one whose reply is lost. Attempts need a part of their own (`AttemptsOK`): a waiting row always has an
attempt left, since `Released` sends an exhausted one to the dead letters.

The proof is by one step per action. Each statement's effect on a row is first reduced to
what happens to its state, attempts and lease (`Kept` and its companions), which the
steps then use instead of the rows themselves. The refinement maps each step to one of
`JobLifecycle` or to a stutter; recovery of several rows is one `GiveUp` of all of them.

`PunctualOwnerKeepsLease` needs a second invariant, `PunctualInv`: a worker's own clock of
quiet ticks never passes `HeartbeatEvery`, and the age of a lease is no more than the clock
of the punctual worker that owns it. Time moves both together; every other step keeps the
row, renews it or takes its lease away.

### Documents

`EveryWordInAWindow` rests on `StepInWindow`: the cursor moves by at least one word and
never by more than a window, whatever the two integer divisions give. So the window that
holds a word is found by dividing.

The loops over rows, nodes and batches are folds. A fold of the community modules is a
function chosen by its recursive equation, of which nothing is known before such a function
is shown to exist: `FoldExists` of `FoldProofs` constructs one on the prefixes 1..n, by
well-founded induction on sets (`Induction`; the library's theorem for the natural numbers
takes an operator). Each use then has its own induction along the prefixes. `ThoseListed`:
`Those(S, n)` lists S, once and in order. `Flattened`: concatenated lists keep their
elements and their order. `PathIsHeadings`: where headings are nested, the path kept by
cutting is the list of open headings; the induction carries that the k-th of them has level
k. `PageChunks` and `StableKeysListed` put these together. `ReplyInOrder`: in a reply with
as many items as texts, the item with p - 1 smaller indices is the p-th text's.

### Publication

What a handler knows it knows from reads that nothing locks. `PublicationInv` says why it
may rely on them (`RunOK`): documents and versions are only added, and a record is only
replaced by another file's, so that what was found, inserted or written is still there when
the handler goes on. `ChunksOK` says that chunks are exactly those of the published
versions, with their own vectors: a version's chunks are complete from the moment it is
seen, and a handler that lost the race to insert it adds none. `RecordsStayWhole` rests on
`SourcesKept`: a version that is a source of a record stays one, so that what the origin
left in it is vouched for whoever updates it (`RecordsKept`). `NoTornFile` is inductive
only together with `RecordsWhole`: a file's rows are all there because no row is ever taken
away. The refinement has two steps that show, the two commits; everything a transaction does
before its commit is invisible to the tables, and so are the locks, whatever the
interleaving.

### Chat

Of the state that runs share only the owner matters to a run: its channels are reset
before anything is added, so `RunOK` speaks of one run's record alone, and a step of one run
keeps that of every other. The owner is set once, before anybody is in the graph. The core
is `Gathered`: between the reset and the verification a run's facts, citations and failed
sources are the unions of what its branches returned, so neither the order of the branches
nor retries matter, and each branch has returned once (`GotOK`). `Correlated` allows for
the summary that a candidate has replaced. That verification loses no summary that an
adapter vouched for (`SummaryStands`) needs a fact about the adapters, `AnswerOf`: a summary
with its citations comes with candidates that have theirs. `Checked` holds of every later step,
and the properties of an answer follow from it and from the intent, which names the branches
that were dispatched (`IntentTyped`).

The refinement needs one fact more, `AllHeard`: in and after the fan-out each branch that
is not still to be done has returned something. With `CallsOK`, which says that exactly
what was asked for was dispatched, it gives the guard of `Tell`. The guard of `Look`, no
source twice, is `GotOK`; that of `Own` and of `Start` is the owner's row; that a run which
closes sends nothing more is the `saw` of `StreamOK`. That an answer is `Truthful` is
`NothingVerifiedLost` and `HonestStatus` of the state after `Finalize`, and `Checked`, by
which every fact is one that a branch returned. `Seen` says once how a run's new record
changes what `ChatTurn` sees; each action then has a lemma that names its action there.

### Gateway

`SlotsAccounted` is the count of requests inside, and every way in or out changes both.
`RateExact` quantifies over every window, so it is not inductive. `RateOK` says what a
client's deque is: the times of its admitted requests since some moment m, at which it was
last cut, and that no request which is still to be counted began before m. That holds
because requests wait for the limiter's lock in the order they began (`Order`), although each
read the clock before it waited. For the keys, a cached key was published at most one
request's time before it was cached, because a fetch is cut off with its request, and the
keys published all through a request (`steady`) are among those it has fetched.

### Public records

`RequestsBounded` and `AnswersFresh` speak of numbers that many steps add to, so neither is
inductive. `RecordsInv` says where the numbers come from. The requests of a call are at most
`Attempts` for each redirect followed, and those of the address it is at; a redirect is
followed only where the attempts of one address are within `Attempts`. While a body is read,
its page is at most `Timeout` old for each chunk read and for the one awaited, because a tick
cannot pass a read that has waited `Timeout`. So a page that is put into the cache leaves room
for `CacheTTL` below the limit, and an entry's age and what is left of its time add up to no
more, whoever filled it and whoever reads it.

### Retrieval

The state is small and so is the inductive invariant: what the queries returned are lists
without repetition, and the context is what the code makes of them. The work is in three
algorithms, of which each property says something without them, for any two lists.

Fusion sorts by fractions. `LessOrders` shows that comparing them by cross products is a
strict order whose ties the ids break, so that `Precedes` puts what was found in a line
(`PrecedesInLine`). `Fused` chooses at each place the chunk with as many before it as the
place says; `Sorted` shows that there is one at every place, since no two have as many
before them, and that the line comes out of it (`FusedLine`). `BothOutweighOne` is the
arithmetic of `AgreementWins`. Deduplication lists the first places of the texts in the same
way (`FirstOfText`, from `Places`). Selection is a fold whose state is a context: by
induction over the candidates its counters are the sums over its items (`Sums`), each
candidate is in it or met a context in which it had no room (`Taken`), and the first
candidate is in it if it fits at all (`FirstTaken`). What a candidate met is what stands
ahead of it in the end, because later items come behind (`SameRoom`); that makes
`LeftOutForCause` a statement of the result alone. The sums over sets of places are the
community modules' fold over a set; `IsSum` and `SumIsUnique` of `FoldProofs` say what it
computes.

## 6. What is only model-checked, and what is not modelled

Liveness under fairness is beyond the prover and stays with TLC: `HandlersEnd`, `RunsEnd`,
`RequestsEnd`, `LookupsEnd`. So do the three disagreements of section 4, which are counterexamples. Nothing else that the runs check is
left unproved.

Not modelled, with the reasons per component in `PROJECT.json`: how pages of public
records, names, addresses, amounts and paths read; the PDF parser, which no handler calls;
SQL search, wording of answers, entity extraction and scores, the classifier, wiring,
health, metrics, observability, evaluation. Of the queue, error codes and outputs; of
publication, the columns of a record (a record is the version it was last written from and
the one it was inserted from) and the hashes and token estimates of a chunk; of the chat, the call to action and the
non-streaming endpoint, which runs the same graph; of the public records,
`correlate_records`, which fetches nothing, and the audit sink; of retrieval, filters and
the citations' fields; of the gateway, the body size limit, CORS and trusted hosts, and
what a token says.
