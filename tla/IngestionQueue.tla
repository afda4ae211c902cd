--------------------------- MODULE IngestionQueue ---------------------------
(***************************************************************************)
(* The durable ingestion queue: the table public.ingestion_jobs as the     *)
(* statements of ingestion/queue.py change it, and the worker processes of *)
(* ingestion/worker.py that claim, heartbeat and settle its rows.          *)
(*                                                                         *)
(* Each SQL statement is one atomic step on the table.  A statement whose  *)
(* reply the client gave up on (command_timeout, a broken connection) is   *)
(* kept in "wire": the server may still execute it later, or never.  A     *)
(* worker may be killed at any point and is started again by its platform. *)
(*                                                                         *)
(* queue.py passes dicts for jsonb and strings for intervals, and reads    *)
(* jsonb columns as dicts.  asyncpg does that only for a type whose codec  *)
(* was set on the connection; create_pool of database.py sets none, so in  *)
(* the program as it is JsonbAsDict and IntervalAsText are empty.  Other   *)
(* values stand for builds that set the codecs, and for processes of both  *)
(* kinds side by side.                                                     *)
(*                                                                         *)
(* Time is relative, so that it needs no horizon: for a waiting row "due"  *)
(* is available_at - now(), for a running row "age" is now() -             *)
(* heartbeat_at.  Both saturate where the code no longer tells values      *)
(* apart (age) or at the named bound MaxLag (due).                         *)
(***************************************************************************)
EXTENDS Integers, FiniteSets

CONSTANTS
    Jobs,            \* one element per (requested_by, idempotency_key)
    NoJob,           \* what an idle worker holds
    Workers,         \* worker processes
    Producer,        \* the process that submits jobs
    JsonbAsDict,     \* processes whose driver takes and gives a dict for jsonb
    IntervalAsText,  \* workers whose driver takes a string for an interval
    MaxAttempts,     \* settings.ingestion_max_attempts
    StaleAfter,      \* settings.ingestion_stale_seconds, in ticks
    HeartbeatEvery,  \* settings.ingestion_heartbeat_seconds, in ticks
    RetryDelays,     \* the values of retry_delay * (0.75 + random() * 0.5)
    Punctual,        \* workers that, while they live, heartbeat every HeartbeatEvery
    MaxLag,          \* bound: how long past its time a waiting row is told apart
    MaxFaults        \* bound: kills, stop signals and lost replies, all together

ASSUME QueueAssumption ==
    /\ NoJob \notin Jobs
    /\ MaxAttempts \in Nat \ {0}
    /\ StaleAfter \in Nat \ {0}
    /\ HeartbeatEvery \in Nat \ {0}
    /\ RetryDelays \subseteq Nat \ {0}
    /\ RetryDelays # {}
    /\ Punctual \subseteq Workers
    /\ Producer \notin Workers
    /\ JsonbAsDict \subseteq Workers \cup {Producer}
    /\ IntervalAsText \subseteq Workers
    /\ MaxLag \in Nat
    /\ MaxFaults \in Nat

VARIABLES
    job,       \* the table: [Jobs -> Row]
    pc,        \* where each worker is in run_worker
    held,      \* the job each worker is handling
    token,     \* the lease token of each worker's current claim cycle
    stopping,  \* stop.is_set(), per worker
    quiet,     \* ticks since each busy punctual worker last renewed
    minted,    \* lease tokens generated so far (uuid4: no token comes twice)
    wire,      \* statements the client gave up on that the server may execute
    returned,  \* history: the leases <<job, token>> whose handler returned
    faults     \* how many disturbances happened, up to MaxFaults

vars == <<job, pc, held, token, stopping, quiet, minted, wire, returned, faults>>

Waiting == {"queued", "retry"}
Terminal == {"succeeded", "dead_letter"}
States == {"absent", "running"} \cup Waiting \cup Terminal
NoToken == 0

Row == [state : States, attempts : Nat, due : Int, age : Nat, lease : Nat]

Statement ==
    [op : {"recover"}] \cup [op : {"claim"}, token : Nat]
      \cup [op : {"heartbeat", "succeed", "fail"}, job : Jobs, token : Nat]

\* off: not running.  boot: connected, recover_stale next.  loop: at the head of
\* the claim loop.  handling: the handler task runs.  finishing: it returned,
\* succeed next.  failing: an exception is being recorded, fail next.
PCs == {"off", "boot", "loop", "handling", "finishing", "failing"}

(***************************************************************************)
(* The statements of queue.py, as functions of the row they update.        *)
(***************************************************************************)
\* Mutation: attempts are numbered from the first claim on.
NewRowNumberedFromClaim ==
    [state |-> "queued", attempts |-> -1, due |-> 0, age |-> 0, lease |-> NoToken]

NewRow == [state |-> "queued", attempts |-> 0, due |-> 0, age |-> 0, lease |-> NoToken]

\* available_at is not read again before the row is released, which rewrites it.
Claimed(row, t) ==
    [state |-> "running", attempts |-> row.attempts + 1, due |-> 0, age |-> 0, lease |-> t]

\* heartbeat_at is set to null and the token dropped: age and lease are 0.
Settled(row, state, due) ==
    [state |-> state, attempts |-> row.attempts, due |-> due, age |-> 0, lease |-> NoToken]

Succeeded(row) == Settled(row, "succeeded", row.due)

\* What _FAIL and _RECOVER make of a row they may take: dead_letter when its
\* attempts are used up, otherwise retry after a jittered delay d.
Released(row, d) ==
    IF row.attempts >= MaxAttempts
    THEN Settled(row, "dead_letter", row.due)
    ELSE Settled(row, "retry", d)

\* Mutation: the token is not compared.
OwnedByAnyone(j, t) == job[j].state = "running"

\* The where clause of _HEARTBEAT, _SUCCEED and _FAIL.
Owned(j, t) == job[j].state = "running" /\ job[j].lease = t

\* The where clause of _RECOVER: heartbeat_at < now() - stale_after.
Stale(j) == job[j].state = "running" /\ job[j].age > StaleAfter

Candidates == {j \in Jobs : job[j].state \in Waiting /\ job[j].due <= 0}

\* order by available_at, with limit 1; created_at and id break ties.
FirstCandidates ==
    {j \in Candidates : \A k \in Candidates : job[j].due <= job[k].due}

ClaimJob(j, t) ==
    /\ j \in FirstCandidates
    /\ job' = [job EXCEPT ![j] = Claimed(@, t)]

\* Mutation: only updated_at is set.
HeartbeatJobWithoutTime(j, t) == job' = job

HeartbeatJob(j, t) ==
    job' = IF Owned(j, t) THEN [job EXCEPT ![j].age = 0] ELSE job

\* Mutation: where id = $1 and state = 'running'.
SucceedJobOfAnyone(j, t) ==
    job' = IF OwnedByAnyone(j, t) THEN [job EXCEPT ![j] = Succeeded(@)] ELSE job

SucceedJob(j, t) ==
    job' = IF Owned(j, t) THEN [job EXCEPT ![j] = Succeeded(@)] ELSE job

FailJob(j, t) ==
    \E d \in RetryDelays :
        job' = IF Owned(j, t) THEN [job EXCEPT ![j] = Released(@, d)] ELSE job

\* Mutation: recovery always retries.
RecoverJobsForever ==
    \E d \in [Jobs -> RetryDelays] :
        job' = [j \in Jobs |-> IF Stale(j) THEN Settled(job[j], "retry", d[j]) ELSE job[j]]

RecoverJobs ==
    \E d \in [Jobs -> RetryDelays] :
        job' = [j \in Jobs |-> IF Stale(j) THEN Released(job[j], d[j]) ELSE job[j]]

\* The statement a worker has outstanding at each point.
Call(w) ==
    CASE pc[w] = "boot" -> [op |-> "recover"]
      [] pc[w] = "loop" -> [op |-> "claim", token |-> minted + 1]
      [] pc[w] = "handling" -> [op |-> "heartbeat", job |-> held[w], token |-> token[w]]
      [] pc[w] = "finishing" -> [op |-> "succeed", job |-> held[w], token |-> token[w]]
      [] OTHER -> [op |-> "fail", job |-> held[w], token |-> token[w]]

\* What the server does with a statement, also when nobody waits for it any more.
Execute(s) ==
    CASE s.op = "recover" -> RecoverJobs
      [] s.op = "claim" -> IF Candidates = {} THEN UNCHANGED job
                           ELSE \E j \in Jobs : ClaimJob(j, s.token)
      [] s.op = "heartbeat" -> HeartbeatJob(s.job, s.token)
      [] s.op = "succeed" -> SucceedJob(s.job, s.token)
      [] s.op = "fail" -> FailJob(s.job, s.token)

\* The driver encodes the parameters of the worker's statement: fail and recover
\* have intervals, succeed has its output.
Sent(w) ==
    /\ Call(w).op \in {"recover", "fail"} => w \in IntervalAsText
    /\ Call(w).op = "succeed" => w \in JsonbAsDict

\* IngestionJob accepts the rows that come back; all statements but the heartbeat
\* return the rows they changed.
Readable(w) == job' # job => w \in JsonbAsDict

(***************************************************************************)
(* Producers: PostgresIngestionOperations.enqueue (and sync, once per      *)
(* source).  A payload that was already submitted conflicts on its key and *)
(* leaves the row as it is, whatever state it is in.  The payload is a     *)
(* dict for a jsonb parameter: without the codec nothing is sent.          *)
(***************************************************************************)
Enqueue(j) ==
    /\ Producer \in JsonbAsDict
    /\ job' = IF job[j].state = "absent" THEN [job EXCEPT ![j] = NewRow] ELSE job
    /\ UNCHANGED <<pc, held, token, stopping, quiet, minted, wire, returned, faults>>

(***************************************************************************)
(* run_worker and _handle_with_heartbeat.                                  *)
(***************************************************************************)
Start(w) ==
    /\ pc[w] = "off"
    /\ pc' = [pc EXCEPT ![w] = "boot"]
    /\ UNCHANGED <<job, held, token, stopping, quiet, minted, wire, returned, faults>>

\* The process is gone, and its memory with it.
ProcessEnds(w) ==
    /\ pc' = [pc EXCEPT ![w] = "off"]
    /\ held' = [held EXCEPT ![w] = NoJob]
    /\ token' = [token EXCEPT ![w] = NoToken]
    /\ stopping' = [stopping EXCEPT ![w] = FALSE]
    /\ quiet' = [quiet EXCEPT ![w] = 0]

\* The end of one pass of the loop.
NextCycle(w) ==
    /\ pc' = [pc EXCEPT ![w] = "loop"]
    /\ held' = [held EXCEPT ![w] = NoJob]
    /\ quiet' = [quiet EXCEPT ![w] = 0]

\* The one call of recover_stale, before the loop.
RecoverStale(w) ==
    /\ pc[w] = "boot" /\ Sent(w)
    /\ RecoverJobs
    /\ Readable(w)
    /\ pc' = [pc EXCEPT ![w] = "loop"]
    /\ UNCHANGED <<held, token, stopping, quiet, minted, wire, returned, faults>>

\* A fresh token, then _CLAIM with limit 1.  When it finds no row the worker
\* sleeps and comes back to the head of the loop: no step.
Claim(w) ==
    /\ pc[w] = "loop" /\ ~stopping[w]
    /\ \E j \in Jobs :
        /\ ClaimJob(j, minted + 1)
        /\ held' = [held EXCEPT ![w] = j]
    /\ Readable(w)
    /\ token' = [token EXCEPT ![w] = minted + 1]
    /\ minted' = minted + 1
    /\ pc' = [pc EXCEPT ![w] = "handling"]
    /\ UNCHANGED <<stopping, quiet, wire, returned, faults>>

\* The wait timed out with the handler still running.  A heartbeat that updates
\* no row cancels the handler and raises "lease was lost", which is recorded
\* as a failure.
Heartbeat(w) ==
    /\ pc[w] = "handling"
    /\ HeartbeatJob(held[w], token[w])
    /\ pc' = IF Owned(held[w], token[w]) THEN pc ELSE [pc EXCEPT ![w] = "failing"]
    /\ quiet' = [quiet EXCEPT ![w] = 0]
    /\ UNCHANGED <<held, token, stopping, minted, wire, returned, faults>>

HandlerReturns(w) ==
    /\ pc[w] = "handling"
    /\ pc' = [pc EXCEPT ![w] = "finishing"]
    /\ returned' = returned \cup {<<held[w], token[w]>>}
    /\ UNCHANGED <<job, held, token, stopping, quiet, minted, wire, faults>>

\* Mutation: the exception is logged, and fail is not called.
HandlerRaisesUnrecorded(w) ==
    /\ pc[w] = "handling"
    /\ NextCycle(w)
    /\ UNCHANGED <<job, token, stopping, minted, wire, returned, faults>>

HandlerRaises(w) ==
    /\ pc[w] = "handling"
    /\ pc' = [pc EXCEPT ![w] = "failing"]
    /\ UNCHANGED <<job, held, token, stopping, quiet, minted, wire, returned, faults>>

\* succeed updates no row: "completion lost its lease" is raised.
Succeed(w) ==
    /\ pc[w] = "finishing" /\ Sent(w)
    /\ SucceedJob(held[w], token[w])
    /\ Readable(w)
    /\ IF Owned(held[w], token[w])
       THEN NextCycle(w)
       ELSE /\ pc' = [pc EXCEPT ![w] = "failing"]
            /\ UNCHANGED <<held, quiet>>
    /\ UNCHANGED <<token, stopping, minted, wire, returned, faults>>

\* The result of fail is not looked at: a lost lease makes it a no-op.
Fail(w) ==
    /\ pc[w] = "failing" /\ Sent(w)
    /\ FailJob(held[w], token[w])
    /\ Readable(w)
    /\ NextCycle(w)
    /\ UNCHANGED <<token, stopping, minted, wire, returned, faults>>

\* The exception of a statement.  Inside the try block it is recorded with fail;
\* raised by recover_stale, by claim or by fail itself it leaves run_worker and the
\* process ends.
StatementRaises(w) ==
    IF pc[w] \in {"handling", "finishing"}
    THEN /\ pc' = [pc EXCEPT ![w] = "failing"]
         /\ UNCHANGED <<held, token, stopping, quiet>>
    ELSE ProcessEnds(w)

\* A statement is made at every point of run_worker, but not by a worker that is
\* off, or told to stop between two jobs.
Calling(w) == pc[w] # "off" /\ (pc[w] = "loop" => ~stopping[w])

\* The driver refuses a parameter: nothing is sent.
Refused(w) ==
    /\ Calling(w) /\ ~Sent(w)
    /\ StatementRaises(w)
    /\ UNCHANGED <<job, minted, wire, returned, faults>>

\* The statement was executed, and IngestionJob rejects a row that came back: its
\* jsonb columns are strings.  The heartbeat asks for the id only.
Unread(w) ==
    /\ Calling(w) /\ Sent(w) /\ pc[w] # "handling"
    /\ Execute(Call(w))
    /\ ~Readable(w)
    /\ StatementRaises(w)
    /\ minted' = IF pc[w] = "loop" THEN minted + 1 ELSE minted
    /\ UNCHANGED <<wire, returned, faults>>

\* stop is looked at between jobs only.
Exit(w) ==
    /\ pc[w] = "loop" /\ stopping[w]
    /\ ProcessEnds(w)
    /\ UNCHANGED <<job, minted, wire, returned, faults>>

(***************************************************************************)
(* The environment: signals, kills, lost and late statements, time.        *)
(***************************************************************************)
Disturb == faults < MaxFaults /\ faults' = faults + 1

\* SIGINT or SIGTERM.
StopSignal(w) ==
    /\ Disturb
    /\ pc[w] # "off" /\ ~stopping[w]
    /\ stopping' = [stopping EXCEPT ![w] = TRUE]
    /\ UNCHANGED <<job, pc, held, token, quiet, minted, wire, returned>>

\* SIGKILL, out of memory, loss of the host: nothing is cleaned up.
Crash(w) ==
    /\ Disturb
    /\ pc[w] # "off"
    /\ ProcessEnds(w)
    /\ UNCHANGED <<job, minted, wire, returned>>

\* The client gives up on the statement that it sent.
LoseReply(w) ==
    /\ Disturb
    /\ Calling(w) /\ Sent(w)
    /\ wire' = wire \cup {Call(w)}
    /\ StatementRaises(w)
    /\ minted' = IF pc[w] = "loop" THEN minted + 1 ELSE minted
    /\ UNCHANGED <<job, returned>>

LateExecution(s) ==
    /\ s \in wire
    /\ Execute(s)
    /\ wire' = wire \ {s}
    /\ UNCHANGED <<pc, held, token, stopping, quiet, minted, returned, faults>>

Lost(s) ==
    /\ s \in wire
    /\ wire' = wire \ {s}
    /\ UNCHANGED <<job, pc, held, token, stopping, quiet, minted, returned, faults>>

\* A live worker past the head of the loop, with a claim to settle.
Busy(w) == pc[w] \in {"handling", "finishing", "failing"}

\* A worker that has been told of, and still owns, the lease of job j.
Owns(w, j) == Busy(w) /\ held[w] = j /\ Owned(j, token[w])

\* One tick of now().  A punctual worker that is busy heartbeats, or settles its
\* job, before HeartbeatEvery ticks have passed since it claimed or heartbeat
\* last; any other may be arbitrarily late (a handler that parses synchronously
\* holds the event loop).
Tick ==
    /\ \A w \in Punctual : quiet[w] < HeartbeatEvery
    /\ quiet' = [w \in Workers |-> IF w \in Punctual /\ Busy(w) THEN quiet[w] + 1 ELSE 0]
    /\ job' = [j \in Jobs |->
                 CASE job[j].state \in Waiting ->
                        [job[j] EXCEPT !.due = IF @ > -MaxLag THEN @ - 1 ELSE @]
                   [] job[j].state = "running" ->
                        [job[j] EXCEPT !.age = IF @ <= StaleAfter THEN @ + 1 ELSE @]
                   [] OTHER -> job[j]]
    /\ UNCHANGED <<pc, held, token, stopping, minted, wire, returned, faults>>

Init ==
    /\ job = [j \in Jobs |-> [NewRow EXCEPT !.state = "absent"]]
    /\ pc = [w \in Workers |-> "off"]
    /\ held = [w \in Workers |-> NoJob]
    /\ token = [w \in Workers |-> NoToken]
    /\ stopping = [w \in Workers |-> FALSE]
    /\ quiet = [w \in Workers |-> 0]
    /\ minted = 0
    /\ wire = {}
    /\ returned = {}
    /\ faults = 0

WorkerStep(w) ==
    \/ Start(w) \/ RecoverStale(w) \/ Claim(w) \/ Heartbeat(w)
    \/ HandlerReturns(w) \/ HandlerRaises(w) \/ Succeed(w) \/ Fail(w) \/ Exit(w)
    \/ Refused(w) \/ Unread(w)

Environment ==
    \/ \E w \in Workers : StopSignal(w) \/ Crash(w) \/ LoseReply(w)
    \/ \E s \in wire : LateExecution(s) \/ Lost(s)
    \/ Tick

Next ==
    \/ \E j \in Jobs : Enqueue(j)
    \/ \E w \in Workers : WorkerStep(w)
    \/ Environment

Spec == Init /\ [][Next]_vars

\* The platform restarts workers, statements are answered, handlers end (their
\* network calls carry timeouts) and time passes.
Fairness ==
    /\ WF_vars(Tick)
    /\ \A w \in Workers :
        /\ WF_vars(Start(w))
        /\ WF_vars(RecoverStale(w))
        /\ WF_vars(Claim(w))
        /\ WF_vars(HandlerReturns(w) \/ HandlerRaises(w))
        /\ WF_vars(Succeed(w))
        /\ WF_vars(Fail(w))
        /\ WF_vars(Exit(w))
        /\ WF_vars(Refused(w) \/ Unread(w))

FairSpec == Spec /\ Fairness
-----------------------------------------------------------------------------
(***************************************************************************)
(* Properties.                                                             *)
(***************************************************************************)

\* The type of every variable.
TypeOK ==
    /\ job \in [Jobs -> Row]
    /\ pc \in [Workers -> PCs]
    /\ held \in [Workers -> Jobs \cup {NoJob}]
    /\ token \in [Workers -> Nat]
    /\ stopping \in [Workers -> BOOLEAN]
    /\ quiet \in [Workers -> Nat]
    /\ minted \in Nat
    /\ wire \subseteq Statement
    /\ returned \subseteq (Jobs \X Nat)
    /\ faults \in Nat

\* Bounded retry: whatever is lost, delayed or killed, the attempts of a job
\* never exceed max_attempts, a job that may still be retried has one left, and
\* only an exhausted job is in dead_letter (_CLAIM against _FAIL and _RECOVER).
AttemptsBounded ==
    \A j \in Jobs :
        /\ job[j].attempts <= MaxAttempts
        /\ job[j].state \in Waiting => job[j].attempts < MaxAttempts
        /\ job[j].state = "dead_letter" => job[j].attempts = MaxAttempts

\* Owner-checked leases: two live workers never both own the lease of one job,
\* even when a lease was recovered under a worker that still runs its handler,
\* or when a claim was executed after its client gave up (_CLAIM, _RECOVER and
\* the where clauses of _HEARTBEAT, _SUCCEED and _FAIL).
OneOwner ==
    \A j \in Jobs : \A v, w \in Workers : Owns(v, j) /\ Owns(w, j) => v = w

\* A worker that goes back to the head of its loop, or stops there, leaves no
\* lease of its last claim cycle behind: every path out of the try block of
\* run_worker settles or releases the row, or finds that it was taken away.
NothingLeftBehind ==
    \A w \in Workers, j \in Jobs :
        pc[w] = "loop" /\ token[w] # NoToken => ~Owned(j, token[w])

\* Final states are final: no late statement, recovery, claim or repeated
\* submission of the same payload changes a succeeded or dead-lettered job.
FinalIsFinal ==
    [][\A j \in Jobs : job[j].state \in Terminal => job'[j] = job[j]]_vars

\* Completion is earned: a job becomes succeeded only under the lease it holds
\* at that moment, and only if the handler returned under that very lease; a
\* handler whose lease was recovered in the meantime never completes the job.
SuccessIsEarned ==
    [][\A j \in Jobs :
         job[j].state # "succeeded" /\ job'[j].state = "succeeded"
           => <<j, job[j].lease>> \in returned]_vars

\* With heartbeats on time and a stale interval no shorter than theirs, recovery
\* never takes a lease from a live worker, however late the others are: a lease
\* that a punctual worker owns is never stale.  (config.py lets both intervals be
\* set in any order.)
PunctualOwnerKeepsLease ==
    HeartbeatEvery <= StaleAfter
      => \A w \in Punctual, j \in Jobs : Owns(w, j) => ~Stale(j)

\* The table as JobLifecycle sees it.
Phase(j) == IF job[j].state \in Waiting THEN "waiting" ELSE job[j].state

Lifecycle ==
    INSTANCE JobLifecycle
    WITH phase <- [j \in Jobs |-> Phase(j)],
         tries <- [j \in Jobs |-> job[j].attempts],
         done  <- {j \in Jobs : <<j, job[j].lease>> \in returned}

\* The queue implements JobLifecycle: whatever workers crash, whatever statements
\* are lost or late and however many handlers of one job overlap, every job goes
\* through a sequence of bounded attempts and only an attempt whose own handler
\* returned completes it.
ImplementsLifecycle == Lifecycle!Spec

\* No live worker owns the lease of this running job.
Orphaned(j) == job[j].state = "running" /\ \A w \in Workers : ~Owns(w, j)

\* The docstring of run_worker: jobs are claimed until the worker is told to stop.  A
\* worker that nothing disturbs does not end otherwise.
ClaimsUntilStopped ==
    [][\A w \in Workers :
         pc[w] # "off" /\ pc'[w] = "off" => stopping[w] \/ faults' # faults]_vars

\* What docs/DEPLOYMENT.md tells the operator of stale workers: once the stale
\* interval has passed, a healthy worker at work recovers the lease.
HealthyWorkerRecovers ==
    \A j \in Jobs :
        Stale(j) /\ Orphaned(j) /\ (\E w \in Workers : pc[w] = "loop") ~> ~Orphaned(j)
=============================================================================
