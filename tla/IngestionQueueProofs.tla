------------------------ MODULE IngestionQueueProofs ------------------------
(***************************************************************************)
(* Theorems about IngestionQueue, for every set of jobs and workers, every *)
(* value of the settings and any number of disturbances.                   *)
(***************************************************************************)
EXTENDS IngestionQueue, TLAPS

(***************************************************************************)
(* What the statements do to a row.                                        *)
(***************************************************************************)

\* Every statement of queue.py maps rows to rows.
LEMMA RowTypes ==
    /\ NewRow \in Row
    /\ \A row \in Row, t \in Nat : Claimed(row, t) \in Row
    /\ \A row \in Row : Succeeded(row) \in Row
    /\ \A row \in Row, d \in RetryDelays : Released(row, d) \in Row
<1>1. NewRow \in Row
  BY DEF NewRow, Row, States, Waiting, NoToken
<1>2. ASSUME NEW row \in Row, NEW t \in Nat PROVE Claimed(row, t) \in Row
  BY DEF Claimed, Row, States
<1>3. ASSUME NEW row \in Row PROVE Succeeded(row) \in Row
  BY DEF Succeeded, Settled, Row, States, Terminal, NoToken
<1>4. ASSUME NEW row \in Row, NEW d \in RetryDelays PROVE Released(row, d) \in Row
  BY QueueAssumption DEF Released, Settled, Row, States, Waiting, Terminal, NoToken
<1>5. QED
  BY <1>1, <1>2, <1>3, <1>4

\* The effects of the statements on the whole table keep its type.
LEMMA TableTypes ==
    ASSUME job \in [Jobs -> Row]
    PROVE  /\ \A j \in Jobs, t \in Nat : ClaimJob(j, t) => job' \in [Jobs -> Row]
           /\ \A j \in Jobs, t \in Nat : HeartbeatJob(j, t) => job' \in [Jobs -> Row]
           /\ \A j \in Jobs, t \in Nat : SucceedJob(j, t) => job' \in [Jobs -> Row]
           /\ \A j \in Jobs, t \in Nat : FailJob(j, t) => job' \in [Jobs -> Row]
           /\ RecoverJobs => job' \in [Jobs -> Row]
<1>1. ASSUME NEW j \in Jobs, NEW t \in Nat, ClaimJob(j, t) PROVE job' \in [Jobs -> Row]
  BY <1>1, RowTypes DEF ClaimJob
<1>2. ASSUME NEW j \in Jobs, NEW t \in Nat, HeartbeatJob(j, t) PROVE job' \in [Jobs -> Row]
  BY <1>2 DEF HeartbeatJob, Row
<1>3. ASSUME NEW j \in Jobs, NEW t \in Nat, SucceedJob(j, t) PROVE job' \in [Jobs -> Row]
  BY <1>3, RowTypes DEF SucceedJob
<1>4. ASSUME NEW j \in Jobs, NEW t \in Nat, FailJob(j, t) PROVE job' \in [Jobs -> Row]
  BY <1>4, RowTypes DEF FailJob
<1>5. ASSUME RecoverJobs PROVE job' \in [Jobs -> Row]
  BY <1>5, RowTypes DEF RecoverJobs
<1>6. QED
  BY <1>1, <1>2, <1>3, <1>4, <1>5

-----------------------------------------------------------------------------
(***************************************************************************)
(* The inductive invariant.                                                *)
(***************************************************************************)

\* A busy worker has a job and a token; a process that has not claimed since it
\* started has none.
WorkersOK ==
    \A w \in Workers :
        /\ Busy(w) => held[w] \in Jobs /\ token[w] # NoToken
        /\ pc[w] \in {"off", "boot"} => token[w] = NoToken

\* A row has a lease exactly while it runs, and no two rows have the same one.
LeasesOK ==
    /\ \A j \in Jobs : /\ job[j].lease <= minted
                       /\ job[j].lease = NoToken <=> job[j].state # "running"
    /\ \A j, k \in Jobs :
         job[j].lease = job[k].lease /\ job[j].lease # NoToken => j = k

\* No two workers have the same token, and a lease with a worker's token is on
\* the job that this worker is busy with.
TokensOK ==
    /\ \A w \in Workers : token[w] <= minted
    /\ \A v, w \in Workers : token[v] = token[w] /\ token[v] # NoToken => v = w
    /\ \A w \in Workers, j \in Jobs :
         token[w] # NoToken /\ job[j].lease = token[w] => Busy(w) /\ held[w] = j

\* The token of a claim that is still under way is used nowhere else yet; a
\* completion under way is that of a handler that returned.
WireOK ==
    /\ \A s \in wire : s.op = "claim" =>
         /\ s.token # NoToken /\ s.token <= minted
         /\ \A j \in Jobs : job[j].lease # s.token /\ <<j, s.token>> \notin returned
         /\ \A w \in Workers : token[w] # s.token
    /\ \A s, r \in wire :
         s.op = "claim" /\ r.op = "claim" /\ s.token = r.token => s = r
    /\ \A s \in wire : s.op = "succeed" => <<s.job, s.token>> \in returned

\* Handlers return only under tokens that were handed out, and a worker that
\* completes its job did see the handler return.
ReturnedOK ==
    /\ \A lease \in returned : lease[2] # NoToken /\ lease[2] <= minted
    /\ \A w \in Workers : pc[w] = "finishing" => <<held[w], token[w]>> \in returned

\* AttemptsBounded, and no attempt is counted before the job is submitted.
AttemptsOK ==
    /\ AttemptsBounded
    /\ \A j \in Jobs : job[j].state = "absent" => job[j].attempts = 0

IInv ==
    TypeOK /\ WorkersOK /\ LeasesOK /\ TokensOK /\ WireOK /\ ReturnedOK /\ AttemptsOK

-----------------------------------------------------------------------------
(***************************************************************************)
(* What one statement does to one row, in terms of state, attempts and     *)
(* lease only.                                                             *)
(***************************************************************************)
Kept(j) ==
    /\ job'[j].state = job[j].state
    /\ job'[j].attempts = job[j].attempts
    /\ job'[j].lease = job[j].lease

GivenUp(j) ==
    /\ job[j].state = "running"
    /\ job'[j].state = IF job[j].attempts >= MaxAttempts THEN "dead_letter" ELSE "retry"
    /\ job'[j].attempts = job[j].attempts
    /\ job'[j].lease = NoToken

Begun(j, t) ==
    /\ job[j].state \in Waiting
    /\ job'[j].state = "running"
    /\ job'[j].attempts = job[j].attempts + 1
    /\ job'[j].lease = t

Completed(j) ==
    /\ job[j].state = "running"
    /\ job'[j].state = "succeeded"
    /\ job'[j].attempts = job[j].attempts
    /\ job'[j].lease = NoToken

Submitted(j) ==
    /\ job[j].state = "absent"
    /\ job'[j].state = "queued"
    /\ job'[j].attempts = 0
    /\ job'[j].lease = NoToken

\* _CLAIM starts an attempt of one waiting job under the new token.
LEMMA ClaimEffect ==
    ASSUME TypeOK, NEW j \in Jobs, NEW t \in Nat, ClaimJob(j, t)
    PROVE  Begun(j, t) /\ \A k \in Jobs \ {j} : Kept(k)
<1>1. job[j].state \in Waiting
  BY DEF ClaimJob, FirstCandidates, Candidates
<1>2. job' = [job EXCEPT ![j] = Claimed(job[j], t)]
  BY DEF ClaimJob
<1>3. \A k \in Jobs : job'[k] = IF k = j THEN Claimed(job[j], t) ELSE job[k]
  BY <1>2 DEF TypeOK
<1>4. QED
  BY <1>1, <1>3 DEF Begun, Kept, Claimed

\* _HEARTBEAT changes neither state nor attempts nor lease.
LEMMA HeartbeatEffect ==
    ASSUME TypeOK, NEW j \in Jobs, NEW t \in Nat, HeartbeatJob(j, t)
    PROVE  \A k \in Jobs : Kept(k)
BY DEF TypeOK, HeartbeatJob, Kept, Row

\* _SUCCEED completes the job under its lease, and does nothing otherwise.
LEMMA SucceedEffect ==
    ASSUME TypeOK, NEW j \in Jobs, NEW t \in Nat, SucceedJob(j, t)
    PROVE  /\ Owned(j, t) => Completed(j)
           /\ ~Owned(j, t) => Kept(j)
           /\ \A k \in Jobs \ {j} : Kept(k)
<1>1. CASE Owned(j, t)
  <2>1. \A k \in Jobs : job'[k] = IF k = j THEN Succeeded(job[j]) ELSE job[k]
    BY <1>1 DEF SucceedJob, TypeOK
  <2>2. QED
    BY <1>1, <2>1 DEF Owned, Completed, Kept, Succeeded, Settled
<1>2. CASE ~Owned(j, t)
  BY <1>2 DEF SucceedJob, Kept
<1>3. QED
  BY <1>1, <1>2

\* Giving up, row by row.
LEMMA ReleasedGivesUp ==
    ASSUME TypeOK, NEW j \in Jobs, NEW d, job[j].state = "running",
           job'[j] = Released(job[j], d)
    PROVE  GivenUp(j)
BY DEF GivenUp, Released, Settled

\* _FAIL gives the job up under its lease, and does nothing otherwise.
LEMMA FailEffect ==
    ASSUME TypeOK, NEW j \in Jobs, NEW t \in Nat, FailJob(j, t)
    PROVE  /\ Owned(j, t) => GivenUp(j)
           /\ ~Owned(j, t) => Kept(j)
           /\ \A k \in Jobs \ {j} : Kept(k)
<1>1. PICK d \in RetryDelays :
        job' = IF Owned(j, t) THEN [job EXCEPT ![j] = Released(@, d)] ELSE job
  BY DEF FailJob
<1>2. CASE Owned(j, t)
  <2>1. \A k \in Jobs : job'[k] = IF k = j THEN Released(job[j], d) ELSE job[k]
    BY <1>1, <1>2 DEF TypeOK
  <2>2. GivenUp(j)
    BY <1>2, <2>1, ReleasedGivesUp DEF Owned
  <2>3. QED
    BY <1>2, <2>1, <2>2 DEF Kept
<1>3. CASE ~Owned(j, t)
  BY <1>1, <1>3 DEF Kept
<1>4. QED
  BY <1>2, <1>3

\* _RECOVER gives up the stale jobs and leaves the others alone.
LEMMA RecoverEffect ==
    ASSUME TypeOK, RecoverJobs
    PROVE  \A j \in Jobs : Kept(j) \/ GivenUp(j)
<1>1. PICK d \in [Jobs -> RetryDelays] :
        job' = [j \in Jobs |-> IF Stale(j) THEN Released(job[j], d[j]) ELSE job[j]]
  BY DEF RecoverJobs
<1>2. SUFFICES ASSUME NEW j \in Jobs PROVE Kept(j) \/ GivenUp(j)
  OBVIOUS
<1>3. CASE Stale(j)
  BY <1>1, <1>3, ReleasedGivesUp DEF Stale
<1>4. CASE ~Stale(j)
  BY <1>1, <1>4 DEF Kept
<1>5. QED
  BY <1>3, <1>4

\* _ENQUEUE inserts the row of a key that has none.
LEMMA EnqueueEffect ==
    ASSUME TypeOK, NEW j \in Jobs, Enqueue(j)
    PROVE  (Submitted(j) \/ Kept(j)) /\ \A k \in Jobs \ {j} : Kept(k)
<1>1. CASE job[j].state = "absent"
  <2>1. \A k \in Jobs : job'[k] = IF k = j THEN NewRow ELSE job[k]
    BY <1>1 DEF Enqueue, TypeOK
  <2>2. QED
    BY <1>1, <2>1 DEF Submitted, Kept, NewRow
<1>2. CASE job[j].state # "absent"
  BY <1>2 DEF Enqueue, Kept
<1>3. QED
  BY <1>1, <1>2

\* Time changes neither state nor attempts nor lease.
LEMMA TickEffect ==
    ASSUME TypeOK, Tick
    PROVE  job' \in [Jobs -> Row] /\ \A j \in Jobs : Kept(j)
<1>1. ASSUME NEW j \in Jobs PROVE job'[j] \in Row /\ Kept(j)
  <2>0. job[j] \in Row
    BY DEF TypeOK
  <2>1. CASE job[j].state \in Waiting
    <3>1. job'[j] = [job[j] EXCEPT !.due = IF @ > -MaxLag THEN @ - 1 ELSE @]
      BY <2>1 DEF Tick, Waiting
    <3>2. QED
      BY <2>0, <3>1, QueueAssumption DEF Kept, Row
  <2>2. CASE job[j].state = "running"
    <3>1. job'[j] = [job[j] EXCEPT !.age = IF @ <= StaleAfter THEN @ + 1 ELSE @]
      BY <2>2 DEF Tick, Waiting
    <3>2. QED
      BY <2>0, <3>1, QueueAssumption DEF Kept, Row
  <2>3. CASE job[j].state \notin Waiting \cup {"running"}
    BY <2>0, <2>3 DEF Tick, Kept, Waiting
  <2>4. QED
    BY <2>1, <2>2, <2>3
<1>2. job' = [j \in Jobs |-> job'[j]]
  BY DEF Tick
<1>3. QED
  BY <1>1, <1>2

-----------------------------------------------------------------------------
(***************************************************************************)
(* Type correctness.  The only typing that is not local to an action is    *)
(* that of a statement put on the wire: it names the job its worker holds. *)
(***************************************************************************)

\* The outstanding statement of a worker is a statement.
LEMMA CallType ==
    ASSUME TypeOK, WorkersOK, NEW w \in Workers, pc[w] # "off"
    PROVE  Call(w) \in Statement
<1>1. Busy(w) => held[w] \in Jobs
  BY DEF WorkersOK
<1>2. pc[w] \in PCs /\ token[w] \in Nat /\ minted + 1 \in Nat
  BY DEF TypeOK
<1>3. QED
  BY <1>1, <1>2 DEF Call, Statement, Busy, PCs

\* A statement whose rows could not be read was executed.
LEMMA UnreadExecutes ==
    ASSUME TypeOK, WorkersOK, NEW w \in Workers, Unread(w)
    PROVE  Call(w) \in Statement /\ Execute(Call(w))
BY CallType DEF Unread, Calling

\* An exception of a statement keeps the types of what it changes.
LEMMA RaisingTypes ==
    ASSUME TypeOK, NEW w \in Workers, StatementRaises(w)
    PROVE  /\ pc' \in [Workers -> PCs]
           /\ held' \in [Workers -> Jobs \cup {NoJob}]
           /\ token' \in [Workers -> Nat]
           /\ stopping' \in [Workers -> BOOLEAN]
           /\ quiet' \in [Workers -> Nat]
<1>1. CASE pc[w] \in {"handling", "finishing"}
  BY <1>1 DEF StatementRaises, TypeOK, PCs
<1>2. CASE pc[w] \notin {"handling", "finishing"}
  <2>1. ProcessEnds(w)
    BY <1>2 DEF StatementRaises
  <2>2. QED
    BY <2>1 DEF ProcessEnds, TypeOK, PCs, NoToken
<1>3. QED
  BY <1>1, <1>2

\* Executing a statement keeps the table's type.
LEMMA ExecuteType ==
    ASSUME TypeOK, NEW s \in Statement, Execute(s)
    PROVE  job' \in [Jobs -> Row]
<1>1. CASE s.op = "recover"
  BY <1>1, TableTypes DEF Execute, TypeOK
<1>2. CASE s.op = "claim"
  <2>1. s.token \in Nat
    BY <1>2 DEF Statement
  <2>2. QED
    BY <1>2, <2>1, TableTypes DEF Execute, TypeOK
<1>3. CASE s.op \in {"heartbeat", "succeed", "fail"}
  <2>1. s.job \in Jobs /\ s.token \in Nat
    BY <1>3 DEF Statement
  <2>2. QED
    BY <1>3, <2>1, TableTypes DEF Execute, TypeOK
<1>4. QED
  BY <1>1, <1>2, <1>3 DEF Statement

\* Every step of the system keeps the types.
LEMMA TypeStep ==
    ASSUME TypeOK, WorkersOK, [Next]_vars
    PROVE  TypeOK'
<1> USE DEF TypeOK
<1>0. ASSUME NEW w \in Workers, Busy(w) PROVE held[w] \in Jobs
  BY <1>0 DEF WorkersOK
<1>1. ASSUME NEW j \in Jobs, Enqueue(j) PROVE TypeOK'
  BY <1>1, RowTypes DEF Enqueue
<1>2. ASSUME NEW w \in Workers, Start(w) PROVE TypeOK'
  BY <1>2 DEF Start, PCs
<1>3. ASSUME NEW w \in Workers, RecoverStale(w) PROVE TypeOK'
  BY <1>3, TableTypes DEF RecoverStale, PCs
<1>4. ASSUME NEW w \in Workers, Claim(w) PROVE TypeOK'
  <2>1. PICK j \in Jobs : ClaimJob(j, minted + 1) /\ held' = [held EXCEPT ![w] = j]
    BY <1>4 DEF Claim
  <2>2. job' \in [Jobs -> Row]
    BY <2>1, TableTypes
  <2>3. QED
    BY <1>4, <2>1, <2>2 DEF Claim, PCs
<1>5. ASSUME NEW w \in Workers, Heartbeat(w) PROVE TypeOK'
  <2>1. job' \in [Jobs -> Row]
    BY <1>0, <1>5, TableTypes DEF Heartbeat, Busy
  <2>2. QED
    BY <1>5, <2>1 DEF Heartbeat, PCs
<1>6. ASSUME NEW w \in Workers, HandlerReturns(w) PROVE TypeOK'
  <2>1. held[w] \in Jobs
    BY <1>0, <1>6 DEF HandlerReturns, Busy
  <2>2. QED
    BY <1>6, <2>1 DEF HandlerReturns, PCs
<1>7. ASSUME NEW w \in Workers, HandlerRaises(w) PROVE TypeOK'
  BY <1>7 DEF HandlerRaises, PCs
<1>8. ASSUME NEW w \in Workers, Succeed(w) PROVE TypeOK'
  <2>1. job' \in [Jobs -> Row]
    BY <1>0, <1>8, TableTypes DEF Succeed, Busy
  <2>2. QED
    BY <1>8, <2>1 DEF Succeed, NextCycle, PCs
<1>9. ASSUME NEW w \in Workers, Fail(w) PROVE TypeOK'
  <2>1. job' \in [Jobs -> Row]
    BY <1>0, <1>9, TableTypes DEF Fail, Busy
  <2>2. QED
    BY <1>9, <2>1 DEF Fail, NextCycle, PCs
<1>10. ASSUME NEW w \in Workers, Exit(w) PROVE TypeOK'
  BY <1>10 DEF Exit, ProcessEnds, PCs, NoToken
<1>11. ASSUME NEW w \in Workers, StopSignal(w) PROVE TypeOK'
  BY <1>11 DEF StopSignal, Disturb
<1>12. ASSUME NEW w \in Workers, Crash(w) PROVE TypeOK'
  BY <1>12 DEF Crash, ProcessEnds, Disturb, PCs, NoToken
<1>13. ASSUME NEW w \in Workers, LoseReply(w) PROVE TypeOK'
  <2>1. wire' \subseteq Statement
    BY <1>13, CallType DEF LoseReply, Calling
  <2>2. QED
    BY <1>13, <2>1, RaisingTypes DEF LoseReply, Disturb
<1>14. ASSUME NEW s \in wire, LateExecution(s) PROVE TypeOK'
  <2>1. s \in Statement /\ Execute(s)
    BY <1>14 DEF LateExecution
  <2>2. job' \in [Jobs -> Row]
    BY <2>1, ExecuteType
  <2>3. QED
    BY <1>14, <2>2 DEF LateExecution
<1>15. ASSUME NEW s \in wire, Lost(s) PROVE TypeOK'
  BY <1>15 DEF Lost
<1>16. CASE Tick
  <2>1. quiet' \in [Workers -> Nat]
    BY <1>16 DEF Tick
  <2>2. QED
    BY <1>16, <2>1, TickEffect DEF Tick
<1>17. CASE UNCHANGED vars
  BY <1>17 DEF vars
<1>18. ASSUME NEW w \in Workers, Refused(w) PROVE TypeOK'
  BY <1>18, RaisingTypes DEF Refused
<1>19. ASSUME NEW w \in Workers, Unread(w) PROVE TypeOK'
  <2>1. job' \in [Jobs -> Row]
    BY <1>19, UnreadExecutes, ExecuteType
  <2>2. minted' \in Nat
    BY <1>19 DEF Unread
  <2>3. QED
    BY <1>19, <2>1, <2>2, RaisingTypes DEF Unread
<1>20. QED
  BY <1>1, <1>2, <1>3, <1>4, <1>5, <1>6, <1>7, <1>8, <1>9, <1>10, <1>11, <1>12,
     <1>13, <1>14, <1>15, <1>16, <1>17, <1>18, <1>19 DEF Next, WorkerStep, Environment

-----------------------------------------------------------------------------
(***************************************************************************)
(* Every step classified by what it does to the rows, the tokens and the   *)
(* wire; the parts of the invariant are proved preserved from this alone.  *)
(***************************************************************************)

\* Attempts stay bounded: a row is kept, given up, completed, submitted, or
\* begun while it waits.
RowStep ==
    \A j \in Jobs :
        \/ Kept(j) \/ GivenUp(j) \/ Completed(j) \/ Submitted(j)
        \/ \E t \in Nat : Begun(j, t)

\* What a statement does to the rows, late or not.
LEMMA ExecuteRows ==
    ASSUME TypeOK, NEW s \in Statement, Execute(s)
    PROVE  RowStep
<1>1. CASE s.op = "recover"
  BY <1>1, RecoverEffect DEF Execute, RowStep
<1>2. CASE s.op = "claim" /\ Candidates = {}
  BY <1>2 DEF Execute, RowStep, Kept
<1>3. CASE s.op = "claim" /\ Candidates # {}
  <2>1. PICK j \in Jobs : ClaimJob(j, s.token)
    BY <1>3 DEF Execute
  <2>2. s.token \in Nat
    BY <1>3 DEF Statement
  <2>3. QED
    BY <2>1, <2>2, ClaimEffect DEF RowStep
<1>4. CASE s.op = "heartbeat"
  <2>1. s.job \in Jobs /\ s.token \in Nat
    BY <1>4 DEF Statement
  <2>2. QED
    BY <1>4, <2>1, HeartbeatEffect DEF Execute, RowStep
<1>5. CASE s.op = "succeed"
  <2>1. s.job \in Jobs /\ s.token \in Nat
    BY <1>5 DEF Statement
  <2>2. QED
    BY <1>5, <2>1, SucceedEffect DEF Execute, RowStep
<1>6. CASE s.op = "fail"
  <2>1. s.job \in Jobs /\ s.token \in Nat
    BY <1>6 DEF Statement
  <2>2. QED
    BY <1>6, <2>1, FailEffect DEF Execute, RowStep
<1>7. QED
  BY <1>1, <1>2, <1>3, <1>4, <1>5, <1>6 DEF Statement

\* What any step does to the rows.
LEMMA NextRows ==
    ASSUME TypeOK, WorkersOK, [Next]_vars
    PROVE  RowStep
<1>0. ASSUME NEW w \in Workers, Busy(w) PROVE held[w] \in Jobs /\ token[w] \in Nat
  BY <1>0 DEF WorkersOK, TypeOK
<1>1. ASSUME NEW j \in Jobs, Enqueue(j) PROVE RowStep
  BY <1>1, EnqueueEffect DEF RowStep
<1>2. ASSUME NEW w \in Workers, RecoverStale(w) PROVE RowStep
  BY <1>2, RecoverEffect DEF RecoverStale, RowStep
<1>3. ASSUME NEW w \in Workers, Claim(w) PROVE RowStep
  <2>1. PICK j \in Jobs : ClaimJob(j, minted + 1)
    BY <1>3 DEF Claim
  <2>2. minted + 1 \in Nat
    BY DEF TypeOK
  <2>3. QED
    BY <2>1, <2>2, ClaimEffect DEF RowStep
<1>4. ASSUME NEW w \in Workers, Heartbeat(w) PROVE RowStep
  <2>1. HeartbeatJob(held[w], token[w]) /\ held[w] \in Jobs /\ token[w] \in Nat
    BY <1>0, <1>4 DEF Heartbeat, Busy
  <2>2. QED
    BY <2>1, HeartbeatEffect DEF RowStep
<1>5. ASSUME NEW w \in Workers, Succeed(w) PROVE RowStep
  <2>1. SucceedJob(held[w], token[w]) /\ held[w] \in Jobs /\ token[w] \in Nat
    BY <1>0, <1>5 DEF Succeed, Busy
  <2>2. QED
    BY <2>1, SucceedEffect DEF RowStep
<1>6. ASSUME NEW w \in Workers, Fail(w) PROVE RowStep
  <2>1. FailJob(held[w], token[w]) /\ held[w] \in Jobs /\ token[w] \in Nat
    BY <1>0, <1>6 DEF Fail, Busy
  <2>2. QED
    BY <2>1, FailEffect DEF RowStep
<1>7. ASSUME NEW s \in wire, LateExecution(s) PROVE RowStep
  <2>1. s \in Statement /\ Execute(s)
    BY <1>7 DEF LateExecution, TypeOK
  <2>2. QED
    BY <2>1, ExecuteRows
<1>8. CASE Tick
  BY <1>8, TickEffect DEF RowStep
<1>9. ASSUME UNCHANGED job PROVE RowStep
  BY <1>9 DEF RowStep, Kept
<1>10. ASSUME NEW w \in Workers, Unread(w) PROVE RowStep
  BY <1>10, UnreadExecutes, ExecuteRows
<1>11. QED
  BY <1>1, <1>2, <1>3, <1>4, <1>5, <1>6, <1>7, <1>8, <1>9, <1>10
     DEF Next, WorkerStep, Environment, Start, HandlerReturns, HandlerRaises, Exit,
         Refused, StopSignal, Crash, LoseReply, Lost, vars

\* Attempts stay bounded whatever the step.
LEMMA AttemptsStep ==
    ASSUME TypeOK, AttemptsOK, RowStep
    PROVE  AttemptsOK'
<1>1. SUFFICES ASSUME NEW j \in Jobs
               PROVE  /\ job'[j].attempts <= MaxAttempts
                      /\ job'[j].state \in Waiting => job'[j].attempts < MaxAttempts
                      /\ job'[j].state = "dead_letter" => job'[j].attempts = MaxAttempts
                      /\ job'[j].state = "absent" => job'[j].attempts = 0
  BY DEF AttemptsOK, AttemptsBounded
<1>2. job[j].attempts \in Nat /\ MaxAttempts \in Nat \ {0}
  BY QueueAssumption DEF TypeOK, Row
<1>3. /\ job[j].attempts <= MaxAttempts
      /\ job[j].state \in Waiting => job[j].attempts < MaxAttempts
      /\ job[j].state = "dead_letter" => job[j].attempts = MaxAttempts
      /\ job[j].state = "absent" => job[j].attempts = 0
  BY DEF AttemptsOK, AttemptsBounded
<1>4. CASE Kept(j)
  BY <1>3, <1>4 DEF Kept
<1>5. CASE GivenUp(j)
  BY <1>2, <1>3, <1>5 DEF GivenUp, Waiting
<1>6. CASE Completed(j)
  BY <1>3, <1>6 DEF Completed, Waiting
<1>7. CASE Submitted(j)
  BY <1>2, <1>7 DEF Submitted, Waiting
<1>8. ASSUME NEW t \in Nat, Begun(j, t)
      PROVE  /\ job'[j].attempts <= MaxAttempts
             /\ job'[j].state = "running"
  BY <1>2, <1>3, <1>8 DEF Begun
<1>9. QED
  BY <1>4, <1>5, <1>6, <1>7, <1>8 DEF RowStep, Waiting

-----------------------------------------------------------------------------
(***************************************************************************)
(* Ownership of leases: the parts of the invariant that relate rows,       *)
(* workers and the wire.                                                   *)
(***************************************************************************)
OwnershipOK == WorkersOK /\ LeasesOK /\ TokensOK /\ WireOK /\ ReturnedOK

\* A row's lease is kept, or dropped by a row that stops running.
Freed(j) ==
    /\ job'[j].lease = NoToken /\ job'[j].state # "running"

KeptOrFreed == \A j \in Jobs : Kept(j) \/ Freed(j)

\* Releasing leases cannot break what is said of leases.
LEMMA FreeingKeepsLeases ==
    ASSUME TypeOK, LeasesOK, KeptOrFreed, minted' = minted
    PROVE  LeasesOK'
<1>1. \A j \in Jobs : job[j].lease \in Nat
  BY DEF TypeOK, Row
<1>2. QED
  BY <1>1 DEF TypeOK, LeasesOK, KeptOrFreed, Kept, Freed, NoToken

\* Nor can it break what is said of tokens, when workers stay as they are or
\* leave behind a lease that was just released or was never theirs.
LEMMA FreeingKeepsTokens ==
    ASSUME TypeOK, TokensOK, KeptOrFreed, minted' = minted, token' = token,
           \A w \in Workers :
              \/ Busy(w)' /\ held'[w] = held[w]
              \/ \A j \in Jobs : token[w] # NoToken => job'[j].lease # token[w]
              \/ ~Busy(w) /\ ~Busy(w)'
    PROVE  TokensOK'
<1>1. ASSUME NEW w \in Workers, NEW j \in Jobs, token[w] # NoToken, job'[j].lease = token[w]
      PROVE  Busy(w)' /\ held'[w] = j
  <2>1. job[j].lease = token[w]
    BY <1>1 DEF KeptOrFreed, Kept, Freed
  <2>2. Busy(w) /\ held[w] = j
    BY <1>1, <2>1 DEF TokensOK
  <2>3. QED
    BY <1>1, <2>2
<1>2. QED
  BY <1>1 DEF TokensOK

\* Nor what is said of the wire.
LEMMA FreeingKeepsWire ==
    ASSUME WireOK, KeptOrFreed, minted' = minted, returned' = returned,
           wire' \subseteq wire, \A w \in Workers : token'[w] = token[w]
    PROVE  WireOK'
BY DEF WireOK, KeptOrFreed, Kept, Freed, NoToken

\* A process that ends takes its token with it; its last statement may have released
\* leases.
LEMMA EndingKeepsOwnership ==
    ASSUME TypeOK, OwnershipOK, NEW w \in Workers, ProcessEnds(w), KeptOrFreed,
           UNCHANGED <<minted, wire, returned>>
    PROVE  OwnershipOK'
<1> USE DEF OwnershipOK
<1>1. \A v \in Workers :
        /\ v # w => pc'[v] = pc[v] /\ held'[v] = held[v] /\ token'[v] = token[v]
        /\ v = w => pc'[v] = "off" /\ token'[v] = NoToken
  BY DEF ProcessEnds, TypeOK
<1>2. WorkersOK'
  BY <1>1 DEF WorkersOK, Busy
<1>3. LeasesOK'
  BY FreeingKeepsLeases
<1>4. TokensOK'
  <2>1. \A v \in Workers : token'[v] <= minted'
    BY <1>1 DEF TokensOK, TypeOK, NoToken
  <2>2. \A u, v \in Workers : token'[u] = token'[v] /\ token'[u] # NoToken => u = v
    BY <1>1 DEF TokensOK
  <2>3. ASSUME NEW v \in Workers, NEW j \in Jobs,
               token'[v] # NoToken, job'[j].lease = token'[v]
        PROVE  Busy(v)' /\ held'[v] = j
    <3>1. v # w /\ job[j].lease = token[v] /\ token[v] # NoToken
      BY <1>1, <2>3 DEF KeptOrFreed, Kept, Freed
    <3>2. QED
      BY <1>1, <3>1 DEF TokensOK, Busy
  <2>4. QED
    BY <2>1, <2>2, <2>3 DEF TokensOK
<1>5. WireOK'
  <2>1. \A v \in Workers : token'[v] \in {token[v], NoToken}
    BY <1>1
  <2>2. QED
    BY <2>1 DEF WireOK, KeptOrFreed, Kept, Freed, NoToken
<1>6. ReturnedOK'
  BY <1>1 DEF ReturnedOK
<1>7. QED
  BY <1>2, <1>3, <1>4, <1>5, <1>6

\* A worker that goes on to the next pass of its loop has no lease any more.
LEMMA CyclingKeepsOwnership ==
    ASSUME TypeOK, OwnershipOK, NEW w \in Workers, NextCycle(w), KeptOrFreed,
           \A j \in Jobs : job'[j].lease # token[w] \/ token[w] = NoToken,
           UNCHANGED <<token, minted, wire, returned>>
    PROVE  OwnershipOK'
<1> USE DEF OwnershipOK
<1>1. \A v \in Workers :
        /\ v # w => pc'[v] = pc[v] /\ held'[v] = held[v]
        /\ v = w => pc'[v] = "loop"
  BY DEF NextCycle, TypeOK
<1>2. WorkersOK'
  BY <1>1 DEF WorkersOK, Busy
<1>3. LeasesOK'
  BY FreeingKeepsLeases
<1>4. TokensOK'
  <2>1. \A v \in Workers :
           \/ Busy(v)' /\ held'[v] = held[v]
           \/ \A j \in Jobs : token[v] # NoToken => job'[j].lease # token[v]
           \/ ~Busy(v) /\ ~Busy(v)'
    BY <1>1 DEF Busy
  <2>2. QED
    BY <2>1, FreeingKeepsTokens
<1>5. WireOK'
  BY FreeingKeepsWire
<1>6. ReturnedOK'
  BY <1>1 DEF ReturnedOK
<1>7. QED
  BY <1>2, <1>3, <1>4, <1>5, <1>6

\* A step of the table that only releases leases, with the workers unchanged.
LEMMA FreeingKeepsOwnership ==
    ASSUME TypeOK, OwnershipOK, KeptOrFreed, wire' \subseteq wire,
           UNCHANGED <<held, token, minted, returned>>,
           \A w \in Workers : Busy(w) = Busy(w)',
           \A w \in Workers : pc'[w] \in {"off", "boot"} => pc[w] \in {"off", "boot"},
           \A w \in Workers : pc'[w] = "finishing" => pc[w] = "finishing"
    PROVE  OwnershipOK'
<1> USE DEF OwnershipOK
<1>2. WorkersOK'
  BY DEF WorkersOK
<1>3. LeasesOK'
  BY FreeingKeepsLeases
<1>4. TokensOK'
  BY FreeingKeepsTokens
<1>5. WireOK'
  BY FreeingKeepsWire
<1>6. ReturnedOK'
  BY DEF ReturnedOK
<1>7. QED
  BY <1>2, <1>3, <1>4, <1>5, <1>6

\* The result of a claim: a new lease under a token that was used nowhere.
LEMMA BeginningKeepsLeases ==
    ASSUME TypeOK, LeasesOK, NEW j \in Jobs, NEW t \in Nat, Begun(j, t),
           \A k \in Jobs \ {j} : Kept(k), t # NoToken,
           \A k \in Jobs : job[k].lease # t, t <= minted', minted <= minted', minted' \in Nat
    PROVE  LeasesOK'
<1>1. \A k \in Jobs : job[k].lease \in Nat
  BY DEF TypeOK, Row
<1>2. \A k \in Jobs : job'[k].lease = IF k = j THEN t ELSE job[k].lease
  BY DEF Begun, Kept
<1>3. \A k \in Jobs : job'[k].state = "running" <=> (k = j \/ job[k].state = "running")
  BY DEF Begun, Kept
<1>4. \A k \in Jobs : job'[k].lease <= minted'
  BY <1>1, <1>2 DEF LeasesOK, TypeOK
<1>5. \A k \in Jobs : job'[k].lease = NoToken <=> job'[k].state # "running"
  BY <1>2, <1>3 DEF LeasesOK
<1>6. \A k, l \in Jobs : job'[k].lease = job'[l].lease /\ job'[k].lease # NoToken => k = l
  BY <1>2 DEF LeasesOK
<1>7. QED
  BY <1>4, <1>5, <1>6 DEF LeasesOK

\* Claim: the fresh token is on the new lease and with its worker, nowhere else.
LEMMA ClaimKeepsOwnership ==
    ASSUME TypeOK, OwnershipOK, NEW w \in Workers, Claim(w)
    PROVE  OwnershipOK'
<1> USE DEF OwnershipOK
<1> DEFINE t == minted + 1
<1>1. PICK j \in Jobs : ClaimJob(j, t) /\ held' = [held EXCEPT ![w] = j]
  BY DEF Claim
<1>2. t \in Nat /\ minted \in Nat /\ minted < t /\ t # NoToken
  BY DEF TypeOK, NoToken
<1> HIDE DEF t
<1>3. Begun(j, t) /\ \A k \in Jobs \ {j} : Kept(k)
  BY <1>1, <1>2, ClaimEffect
<1>4. /\ pc' = [pc EXCEPT ![w] = "handling"] /\ token' = [token EXCEPT ![w] = t]
      /\ minted' = t /\ UNCHANGED <<wire, returned>> /\ pc[w] = "loop"
  BY DEF Claim, t
<1>5. \A v \in Workers :
        /\ v # w => pc'[v] = pc[v] /\ held'[v] = held[v] /\ token'[v] = token[v]
        /\ v = w => pc'[v] = "handling" /\ held'[v] = j /\ token'[v] = t
  BY <1>1, <1>4 DEF TypeOK
<1>6. \A k \in Jobs : job[k].lease \in Nat /\ job[k].lease < t
  BY <1>2 DEF TypeOK, Row, LeasesOK, t
<1>7. \A v \in Workers : token[v] \in Nat /\ token[v] < t
  BY <1>2 DEF TypeOK, TokensOK, t
<1>8. WorkersOK'
  BY <1>2, <1>5 DEF WorkersOK, Busy
<1>9. LeasesOK'
  BY <1>2, <1>3, <1>4, <1>6, BeginningKeepsLeases
<1>10. \A k \in Jobs : job'[k].lease = IF k = j THEN t ELSE job[k].lease
  BY <1>3 DEF Begun, Kept
<1>11. TokensOK'
  <2>1. \A v \in Workers : token'[v] <= minted'
    BY <1>2, <1>4, <1>5, <1>7
  <2>2. \A u, v \in Workers : token'[u] = token'[v] /\ token'[u] # NoToken => u = v
    BY <1>2, <1>5, <1>7 DEF TokensOK
  <2>3. ASSUME NEW v \in Workers, NEW k \in Jobs,
               token'[v] # NoToken, job'[k].lease = token'[v]
        PROVE  Busy(v)' /\ held'[v] = k
    <3>1. CASE v = w
      BY <1>2, <1>5, <1>6, <1>10, <2>3, <3>1 DEF Busy
    <3>2. CASE v # w
      <4>1. k # j /\ job[k].lease = token[v] /\ token[v] # NoToken
        BY <1>2, <1>5, <1>7, <1>10, <2>3, <3>2
      <4>2. Busy(v) /\ held[v] = k
        BY <4>1 DEF TokensOK
      <4>3. QED
        BY <1>5, <3>2, <4>2 DEF Busy
    <3>3. QED
      BY <3>1, <3>2
  <2>4. QED
    BY <2>1, <2>2, <2>3 DEF TokensOK
<1>12. WireOK'
  <2>1. ASSUME NEW s \in wire, s.op = "claim"
        PROVE  /\ s.token # NoToken /\ s.token <= minted'
               /\ \A k \in Jobs : job'[k].lease # s.token /\ <<k, s.token>> \notin returned
               /\ \A v \in Workers : token'[v] # s.token
    <3>1. s.token \in Nat
      BY <2>1 DEF TypeOK, Statement
    <3>2. s.token < t /\ s.token # NoToken
      BY <1>2, <2>1, <3>1 DEF WireOK, t
    <3>3. QED
      BY <1>2, <1>4, <1>5, <1>10, <2>1, <3>1, <3>2 DEF WireOK
  <2>2. QED
    BY <1>4, <2>1 DEF WireOK
<1>13. ReturnedOK'
  <2>1. \A lease \in returned : lease[2] # NoToken /\ lease[2] <= minted'
    BY <1>2, <1>4 DEF ReturnedOK, TypeOK
  <2>2. QED
    BY <1>4, <1>5, <2>1 DEF ReturnedOK
<1>14. QED
  BY <1>8, <1>9, <1>11, <1>12, <1>13

\* HandlerReturns: one more lease in the history, that of a live claim.
LEMMA ReturningKeepsOwnership ==
    ASSUME TypeOK, OwnershipOK, NEW w \in Workers, HandlerReturns(w)
    PROVE  OwnershipOK'
<1> USE DEF OwnershipOK
<1>1. /\ pc[w] = "handling" /\ held[w] \in Jobs /\ token[w] # NoToken
      /\ UNCHANGED <<job, held, token, minted, wire>>
      /\ returned' = returned \cup {<<held[w], token[w]>>}
  BY DEF HandlerReturns, WorkersOK, Busy
<1>2. \A v \in Workers : pc'[v] = IF v = w THEN "finishing" ELSE pc[v]
  BY DEF HandlerReturns, TypeOK
<1>3. WorkersOK'
  BY <1>1, <1>2 DEF WorkersOK, Busy
<1>4. LeasesOK'
  BY <1>1 DEF LeasesOK
<1>5. TokensOK'
  BY <1>1, <1>2 DEF TokensOK, Busy
<1>6. WireOK'
  BY <1>1 DEF WireOK
<1>7. ReturnedOK'
  BY <1>1, <1>2 DEF ReturnedOK, TokensOK
<1>8. QED
  BY <1>3, <1>4, <1>5, <1>6, <1>7

\* LoseReply: the statement on the wire is one its worker was about to make.
LEMMA LosingKeepsOwnership ==
    ASSUME TypeOK, OwnershipOK, NEW w \in Workers, LoseReply(w)
    PROVE  OwnershipOK'
<1> USE DEF OwnershipOK
<1>1. /\ pc[w] # "off" /\ wire' = wire \cup {Call(w)} /\ UNCHANGED <<job, returned>>
      /\ minted' = IF pc[w] = "loop" THEN minted + 1 ELSE minted
  BY DEF LoseReply, Calling
<1>2. \A v \in Workers :
        /\ v # w => pc'[v] = pc[v] /\ held'[v] = held[v] /\ token'[v] = token[v]
        /\ v = w => \/ pc[v] \in {"handling", "finishing"} /\ pc'[v] = "failing"
                       /\ held'[v] = held[v] /\ token'[v] = token[v]
                    \/ pc'[v] = "off" /\ token'[v] = NoToken
                       /\ pc[v] \notin {"handling", "finishing"}
  <2>1. CASE pc[w] \in {"handling", "finishing"}
    BY <2>1 DEF LoseReply, StatementRaises, TypeOK
  <2>2. CASE pc[w] \notin {"handling", "finishing"}
    <3>1. ProcessEnds(w)
      BY <2>2 DEF LoseReply, StatementRaises
    <3>2. QED
      BY <2>2, <3>1 DEF ProcessEnds, TypeOK
  <2>3. QED
    BY <2>1, <2>2
<1>3. minted \in Nat /\ minted' \in Nat /\ minted <= minted'
  BY <1>1 DEF TypeOK
<1>4. WorkersOK'
  BY <1>2 DEF WorkersOK, Busy
<1>5. LeasesOK'
  <2>1. \A j \in Jobs : job[j].lease \in Nat
    BY DEF TypeOK, Row
  <2>2. QED
    BY <1>1, <1>3, <2>1 DEF LeasesOK
<1>6. TokensOK'
  <2>1. \A v \in Workers : token[v] \in Nat /\ token[v] <= minted
    BY DEF TypeOK, TokensOK
  <2>2. \A v \in Workers : token'[v] <= minted'
    BY <1>2, <1>3, <2>1 DEF NoToken
  <2>3. \A u, v \in Workers : token'[u] = token'[v] /\ token'[u] # NoToken => u = v
    BY <1>2 DEF TokensOK
  <2>4. \A v \in Workers, j \in Jobs :
          token'[v] # NoToken /\ job'[j].lease = token'[v] => Busy(v)' /\ held'[v] = j
    BY <1>1, <1>2 DEF TokensOK, Busy
  <2>5. QED
    BY <2>2, <2>3, <2>4 DEF TokensOK
<1>7. WireOK'
  <2>1. \A j \in Jobs : job[j].lease \in Nat /\ job[j].lease <= minted
    BY DEF TypeOK, Row, LeasesOK
  <2>2. \A v \in Workers : token[v] \in Nat /\ token[v] <= minted /\
          (token'[v] = token[v] \/ token'[v] = NoToken)
    BY <1>2 DEF TypeOK, TokensOK
  <2>3. \A lease \in returned : lease[2] \in Nat /\ lease[2] <= minted
    BY DEF TypeOK, ReturnedOK
  <2>4. ASSUME NEW s \in wire, s.op = "claim"
        PROVE  /\ s.token # NoToken /\ s.token \in Nat /\ s.token <= minted
               /\ \A j \in Jobs : job[j].lease # s.token /\ <<j, s.token>> \notin returned
               /\ \A v \in Workers : token'[v] # s.token
    BY <2>2, <2>4 DEF WireOK, TypeOK, Statement
  <2>5. CASE pc[w] = "loop"
    <3>1. Call(w) = [op |-> "claim", token |-> minted + 1] /\ minted' = minted + 1
      BY <1>1, <2>5 DEF Call
    <3>2. Call(w).op = "claim" /\ Call(w).token = minted + 1
      BY <3>1
    <3>3. /\ minted + 1 # NoToken
          /\ \A j \in Jobs : job[j].lease # minted + 1 /\ <<j, minted + 1>> \notin returned
          /\ \A v \in Workers : token'[v] # minted + 1
      BY <1>3, <2>1, <2>2, <2>3 DEF NoToken
    <3>4. \A s \in wire : s.op = "claim" => s.token # minted + 1 /\ s.token <= minted'
      BY <1>3, <2>4, <3>1
    <3>5. QED
      BY <1>1, <1>3, <2>4, <3>1, <3>2, <3>3, <3>4 DEF WireOK
  <2>6. CASE pc[w] # "loop"
    <3>1. Call(w).op # "claim"
      BY <1>1, <2>6 DEF Call, TypeOK, PCs
    <3>2. Call(w).op = "succeed" => <<Call(w).job, Call(w).token>> \in returned
      BY <1>1, <2>6 DEF Call, ReturnedOK, TypeOK, PCs
    <3>3. minted' = minted
      BY <1>1, <2>6
    <3>4. QED
      BY <1>1, <2>4, <3>1, <3>2, <3>3 DEF WireOK
  <2>7. QED
    BY <2>5, <2>6
<1>8. ReturnedOK'
  <2>1. \A lease \in returned : lease[2] # NoToken /\ lease[2] <= minted'
    BY <1>3 DEF ReturnedOK, TypeOK
  <2>2. QED
    BY <1>1, <1>2, <2>1 DEF ReturnedOK
<1>9. QED
  BY <1>4, <1>5, <1>6, <1>7, <1>8

\* A late claim: its token moves from the wire to a lease that no worker has.
LEMMA LateClaimKeepsOwnership ==
    ASSUME TypeOK, OwnershipOK, NEW s \in wire, s.op = "claim", LateExecution(s),
           NEW j \in Jobs, ClaimJob(j, s.token)
    PROVE  OwnershipOK'
<1> USE DEF OwnershipOK
<1> DEFINE t == s.token
<1>1. /\ t \in Nat /\ t # NoToken /\ t <= minted /\ minted \in Nat
      /\ \A k \in Jobs : job[k].lease # t /\ <<k, t>> \notin returned
      /\ \A v \in Workers : token[v] # t
      /\ \A r \in wire : r.op = "claim" /\ r.token = t => r = s
  BY DEF WireOK, TypeOK, Statement
<1>2. wire' = wire \ {s} /\ UNCHANGED <<pc, held, token, minted, returned>>
  BY DEF LateExecution
<1> HIDE DEF t
<1>3. Begun(j, t) /\ \A k \in Jobs \ {j} : Kept(k)
  BY <1>1, ClaimEffect DEF t
<1>4. \A k \in Jobs : job'[k].lease = IF k = j THEN t ELSE job[k].lease
  BY <1>3 DEF Begun, Kept
<1>5. WorkersOK'
  BY <1>2 DEF WorkersOK, Busy
<1>6. LeasesOK'
  <2>1. LeasesOK /\ minted' \in Nat /\ t <= minted' /\ minted <= minted'
    BY <1>1, <1>2
  <2>2. QED
    BY <1>1, <1>3, <2>1, BeginningKeepsLeases
<1>7. TokensOK'
  BY <1>1, <1>2, <1>4 DEF TokensOK, Busy
<1>8. WireOK'
  BY <1>1, <1>2, <1>4 DEF WireOK
<1>9. ReturnedOK'
  BY <1>2 DEF ReturnedOK
<1>10. QED
  BY <1>5, <1>6, <1>7, <1>8, <1>9

\* A claim whose row could not be read: its token is on a lease that no worker has.
LEMMA UnreadClaimKeepsOwnership ==
    ASSUME TypeOK, OwnershipOK, NEW w \in Workers, ProcessEnds(w), minted' = minted + 1,
           UNCHANGED <<wire, returned>>, NEW j \in Jobs, ClaimJob(j, minted + 1)
    PROVE  OwnershipOK'
<1> USE DEF OwnershipOK
<1> DEFINE t == minted + 1
<1>1. t \in Nat /\ minted \in Nat /\ minted < t /\ t # NoToken /\ minted' = t
  BY DEF TypeOK, NoToken
<1>2. \A k \in Jobs : job[k].lease \in Nat /\ job[k].lease < t
  BY <1>1 DEF TypeOK, Row, LeasesOK
<1>3. \A v \in Workers : token[v] \in Nat /\ token[v] < t
  BY <1>1 DEF TypeOK, TokensOK
<1>4. ClaimJob(j, t)
  OBVIOUS
<1>5. \A s \in wire : s.op = "claim" => s.token \in Nat /\ s.token < t
  BY <1>1 DEF WireOK, TypeOK, Statement
<1>6. ReturnedOK /\ \A lease \in returned : lease[2] \in Nat /\ lease[2] < t
  BY <1>1 DEF ReturnedOK, TypeOK
<1> HIDE DEF t
<1>7. Begun(j, t) /\ \A k \in Jobs \ {j} : Kept(k)
  BY <1>1, <1>4, ClaimEffect
<1>8. \A k \in Jobs : job'[k].lease = IF k = j THEN t ELSE job[k].lease
  BY <1>7 DEF Begun, Kept
<1>9. \A v \in Workers :
        /\ v # w => pc'[v] = pc[v] /\ held'[v] = held[v] /\ token'[v] = token[v]
        /\ v = w => pc'[v] = "off" /\ token'[v] = NoToken
  BY DEF ProcessEnds, TypeOK
<1>10. WorkersOK'
  BY <1>9 DEF WorkersOK, Busy
<1>11. LeasesOK'
  BY <1>1, <1>2, <1>7, BeginningKeepsLeases
<1>12. TokensOK'
  <2>1. \A v \in Workers : token'[v] <= minted'
    BY <1>1, <1>3, <1>9 DEF NoToken
  <2>2. \A u, v \in Workers : token'[u] = token'[v] /\ token'[u] # NoToken => u = v
    BY <1>9 DEF TokensOK
  <2>3. ASSUME NEW v \in Workers, NEW k \in Jobs,
               token'[v] # NoToken, job'[k].lease = token'[v]
        PROVE  Busy(v)' /\ held'[v] = k
    <3>1. v # w /\ token[v] # NoToken /\ job'[k].lease = token[v] /\ token[v] < t
      BY <1>3, <1>9, <2>3
    <3>2. job[k].lease = token[v]
      BY <1>1, <1>3, <1>8, <3>1
    <3>3. QED
      BY <1>9, <3>1, <3>2 DEF TokensOK, Busy
  <2>4. QED
    BY <2>1, <2>2, <2>3 DEF TokensOK
<1>13. WireOK'
  <2>1. ASSUME NEW s \in wire, s.op = "claim"
        PROVE  /\ s.token # NoToken /\ s.token <= minted'
               /\ \A k \in Jobs : job'[k].lease # s.token /\ <<k, s.token>> \notin returned
               /\ \A v \in Workers : token'[v] # s.token
    <3>1. s.token # NoToken /\ s.token \in Nat /\ s.token < t
      BY <1>5, <2>1 DEF WireOK
    <3>2. QED
      BY <1>1, <1>8, <1>9, <2>1, <3>1 DEF WireOK
  <2>2. QED
    BY <2>1 DEF WireOK
<1>14. ReturnedOK'
  <2>1. \A lease \in returned : lease[2] # NoToken /\ lease[2] <= minted'
    BY <1>1, <1>6 DEF ReturnedOK
  <2>2. QED
    BY <1>9, <2>1 DEF ReturnedOK
<1>15. QED
  BY <1>10, <1>11, <1>12, <1>13, <1>14

\* What was executed when its rows could not be read.
LEMMA UnreadEffect ==
    ASSUME TypeOK, WorkersOK, NEW w \in Workers, Unread(w)
    PROVE  \/ /\ pc[w] \in {"boot", "failing"} /\ minted' = minted /\ ProcessEnds(w)
              /\ \A j \in Jobs : Kept(j) \/ GivenUp(j)
           \/ /\ pc[w] = "finishing" /\ minted' = minted
              /\ held[w] \in Jobs /\ token[w] \in Nat /\ SucceedJob(held[w], token[w])
              /\ pc' = [pc EXCEPT ![w] = "failing"] /\ UNCHANGED <<held, token, quiet>>
           \/ /\ pc[w] = "loop" /\ minted' = minted + 1 /\ ProcessEnds(w)
              /\ \E j \in Jobs : ClaimJob(j, minted + 1)
<1>0. /\ Execute(Call(w)) /\ StatementRaises(w) /\ job' # job
      /\ minted' = IF pc[w] = "loop" THEN minted + 1 ELSE minted
      /\ pc[w] \in {"boot", "loop", "finishing", "failing"}
  BY DEF Unread, Calling, Readable, TypeOK, PCs
<1>1. Busy(w) => held[w] \in Jobs /\ token[w] \in Nat
  BY DEF WorkersOK, TypeOK
<1>2. CASE pc[w] = "boot"
  <2>1. Call(w) = [op |-> "recover"]
    BY <1>2 DEF Call
  <2>2. RecoverJobs
    BY <1>0, <2>1 DEF Execute
  <2>3. QED
    BY <1>0, <1>2, <2>2, RecoverEffect DEF StatementRaises
<1>3. CASE pc[w] = "loop"
  <2>1. Call(w) = [op |-> "claim", token |-> minted + 1]
    BY <1>3 DEF Call
  <2>2. Call(w).op = "claim" /\ Call(w).token = minted + 1
    BY <2>1
  <2>3. \E j \in Jobs : ClaimJob(j, minted + 1)
    BY <1>0, <2>2 DEF Execute
  <2>4. QED
    BY <1>0, <1>3, <2>3 DEF StatementRaises
<1>4. CASE pc[w] = "finishing"
  <2>1. Call(w) = [op |-> "succeed", job |-> held[w], token |-> token[w]]
    BY <1>4 DEF Call
  <2>2. Call(w).op = "succeed" /\ Call(w).job = held[w] /\ Call(w).token = token[w]
    BY <2>1
  <2>3. SucceedJob(held[w], token[w])
    BY <1>0, <2>2 DEF Execute
  <2>4. QED
    BY <1>0, <1>1, <1>4, <2>3 DEF StatementRaises, Busy
<1>5. CASE pc[w] = "failing"
  <2>1. Call(w) = [op |-> "fail", job |-> held[w], token |-> token[w]]
    BY <1>5 DEF Call
  <2>2. Call(w).op = "fail" /\ Call(w).job = held[w] /\ Call(w).token = token[w]
    BY <2>1
  <2>3. FailJob(held[w], token[w])
    BY <1>0, <2>2 DEF Execute
  <2>4. QED
    BY <1>0, <1>1, <1>5, <2>3, FailEffect DEF StatementRaises, Busy
<1>6. QED
  BY <1>0, <1>2, <1>3, <1>4, <1>5

\* A worker that could not read what its statement returned.
LEMMA UnreadKeepsOwnership ==
    ASSUME TypeOK, OwnershipOK, NEW w \in Workers, Unread(w)
    PROVE  OwnershipOK'
<1>1. UNCHANGED <<wire, returned>> /\ WorkersOK
  BY DEF Unread, OwnershipOK
<1>2. CASE /\ minted' = minted /\ ProcessEnds(w)
           /\ \A j \in Jobs : Kept(j) \/ GivenUp(j)
  <2>1. KeptOrFreed
    BY <1>2 DEF KeptOrFreed, GivenUp, Freed
  <2>2. QED
    BY <1>1, <1>2, <2>1, EndingKeepsOwnership
<1>3. CASE /\ pc[w] = "finishing" /\ minted' = minted
           /\ held[w] \in Jobs /\ token[w] \in Nat /\ SucceedJob(held[w], token[w])
           /\ pc' = [pc EXCEPT ![w] = "failing"] /\ UNCHANGED <<held, token, quiet>>
  <2>1. KeptOrFreed
    BY <1>3, SucceedEffect DEF KeptOrFreed, Completed, Freed
  <2>2. \A v \in Workers : pc'[v] = pc[v] \/ (v = w /\ pc'[v] = "failing")
    BY <1>3 DEF TypeOK
  <2>3. QED
    BY <1>1, <1>3, <2>1, <2>2, FreeingKeepsOwnership DEF Busy
<1>4. CASE /\ minted' = minted + 1 /\ ProcessEnds(w)
           /\ \E j \in Jobs : ClaimJob(j, minted + 1)
  BY <1>1, <1>4, UnreadClaimKeepsOwnership
<1>5. QED
  BY <1>1, <1>2, <1>3, <1>4, UnreadEffect

\* A worker whose parameters are refused has sent nothing.
LEMMA RefusedKeepsOwnership ==
    ASSUME TypeOK, OwnershipOK, NEW w \in Workers, Refused(w)
    PROVE  OwnershipOK'
<1>1. /\ StatementRaises(w) /\ UNCHANGED <<job, minted, wire, returned>> /\ pc[w] # "off"
      /\ KeptOrFreed
  BY DEF Refused, Calling, KeptOrFreed, Kept
<1>2. CASE pc[w] \in {"handling", "finishing"}
  <2>1. \A v \in Workers : pc'[v] = pc[v] \/ (v = w /\ pc'[v] = "failing")
    BY <1>1, <1>2 DEF StatementRaises, TypeOK
  <2>2. UNCHANGED <<held, token>>
    BY <1>1, <1>2 DEF StatementRaises
  <2>3. QED
    BY <1>1, <1>2, <2>1, <2>2, FreeingKeepsOwnership DEF Busy
<1>3. CASE pc[w] \notin {"handling", "finishing"}
  BY <1>1, <1>3, EndingKeepsOwnership DEF StatementRaises
<1>4. QED
  BY <1>2, <1>3

\* Every other late statement at most releases leases.
LEMMA LateStatementKeepsOwnership ==
    ASSUME TypeOK, OwnershipOK, NEW s \in wire, LateExecution(s)
    PROVE  OwnershipOK'
<1>0. s \in Statement /\ Execute(s)
  BY DEF TypeOK, LateExecution
<1>1. CASE s.op = "claim" /\ Candidates # {}
  <2>1. PICK j \in Jobs : ClaimJob(j, s.token)
    BY <1>0, <1>1 DEF Execute
  <2>2. QED
    BY <1>1, <2>1, LateClaimKeepsOwnership
<1>2. ASSUME s.op # "claim" \/ Candidates = {} PROVE KeptOrFreed
  <2>1. CASE s.op = "recover"
    BY <1>0, <2>1, RecoverEffect DEF Execute, KeptOrFreed, GivenUp, Freed
  <2>2. CASE s.op = "claim"
    BY <1>0, <1>2, <2>2 DEF Execute, KeptOrFreed, Kept
  <2>3. CASE s.op \in {"heartbeat", "succeed", "fail"}
    <3>1. s.job \in Jobs /\ s.token \in Nat
      BY <1>0, <2>3 DEF Statement
    <3>2. CASE s.op = "heartbeat"
      BY <1>0, <3>1, <3>2, HeartbeatEffect DEF Execute, KeptOrFreed
    <3>3. CASE s.op = "succeed"
      BY <1>0, <3>1, <3>3, SucceedEffect DEF Execute, KeptOrFreed, Completed, Freed
    <3>4. CASE s.op = "fail"
      BY <1>0, <3>1, <3>4, FailEffect DEF Execute, KeptOrFreed, GivenUp, Freed
    <3>5. QED
      BY <2>3, <3>2, <3>3, <3>4
  <2>4. QED
    BY <1>0, <2>1, <2>2, <2>3 DEF Statement
<1>3. CASE s.op # "claim" \/ Candidates = {}
  BY <1>2, <1>3, FreeingKeepsOwnership DEF LateExecution, Busy
<1>4. QED
  BY <1>1, <1>3

\* Every step keeps the ownership of leases intact.
LEMMA OwnershipStep ==
    ASSUME TypeOK, OwnershipOK, [Next]_vars
    PROVE  OwnershipOK'
<1>0. ASSUME NEW w \in Workers, Busy(w)
      PROVE  held[w] \in Jobs /\ token[w] \in Nat /\ token[w] # NoToken
  BY <1>0 DEF OwnershipOK, WorkersOK, TypeOK
<1>1. ASSUME NEW j \in Jobs, Enqueue(j) PROVE OwnershipOK'
  <2>1. KeptOrFreed
    BY <1>1, EnqueueEffect DEF KeptOrFreed, Submitted, Freed
  <2>2. QED
    BY <1>1, <2>1, FreeingKeepsOwnership DEF Enqueue, Busy
<1>2. ASSUME NEW w \in Workers, Start(w) PROVE OwnershipOK'
  BY <1>2, FreeingKeepsOwnership DEF Start, Busy, TypeOK, KeptOrFreed, Kept
<1>3. ASSUME NEW w \in Workers, RecoverStale(w) PROVE OwnershipOK'
  <2>1. KeptOrFreed
    BY <1>3, RecoverEffect DEF RecoverStale, KeptOrFreed, GivenUp, Freed
  <2>2. QED
    BY <1>3, <2>1, FreeingKeepsOwnership DEF RecoverStale, Busy, TypeOK
<1>4. ASSUME NEW w \in Workers, Claim(w) PROVE OwnershipOK'
  BY <1>4, ClaimKeepsOwnership
<1>5. ASSUME NEW w \in Workers, Heartbeat(w) PROVE OwnershipOK'
  <2>1. HeartbeatJob(held[w], token[w]) /\ held[w] \in Jobs /\ token[w] \in Nat
    BY <1>0, <1>5 DEF Heartbeat, Busy
  <2>2. KeptOrFreed
    BY <2>1, HeartbeatEffect DEF KeptOrFreed
  <2>3. \A v \in Workers : pc'[v] = pc[v] \/ (v = w /\ pc'[v] = "failing")
    BY <1>5 DEF Heartbeat, TypeOK
  <2>4. pc[w] = "handling" /\ UNCHANGED <<held, token, minted, wire, returned>>
    BY <1>5 DEF Heartbeat
  <2>5. QED
    BY <2>2, <2>3, <2>4, FreeingKeepsOwnership DEF Busy
<1>6. ASSUME NEW w \in Workers, HandlerReturns(w) PROVE OwnershipOK'
  BY <1>6, ReturningKeepsOwnership
<1>7. ASSUME NEW w \in Workers, HandlerRaises(w) PROVE OwnershipOK'
  <2>1. \A v \in Workers : pc'[v] = pc[v] \/ (v = w /\ pc'[v] = "failing")
    BY <1>7 DEF HandlerRaises, TypeOK
  <2>2. pc[w] = "handling" /\ UNCHANGED <<job, held, token, minted, wire, returned>>
    BY <1>7 DEF HandlerRaises
  <2>3. QED
    BY <2>1, <2>2, FreeingKeepsOwnership DEF Busy, KeptOrFreed, Kept
<1>8. ASSUME NEW w \in Workers, Succeed(w) PROVE OwnershipOK'
  <2>1. /\ SucceedJob(held[w], token[w]) /\ held[w] \in Jobs /\ token[w] \in Nat
        /\ pc[w] = "finishing" /\ UNCHANGED <<token, minted, wire, returned>>
    BY <1>0, <1>8 DEF Succeed, Busy
  <2>2. KeptOrFreed
    BY <2>1, SucceedEffect DEF KeptOrFreed, Completed, Freed
  <2>3. CASE Owned(held[w], token[w])
    <3>1. \A j \in Jobs : job'[j].lease # token[w] \/ token[w] = NoToken
      BY <2>1, <2>3, SucceedEffect DEF Completed, Kept, Owned, OwnershipOK, LeasesOK
    <3>2. NextCycle(w)
      BY <1>8, <2>3 DEF Succeed
    <3>3. QED
      BY <2>1, <2>2, <3>1, <3>2, CyclingKeepsOwnership
  <2>4. CASE ~Owned(held[w], token[w])
    <3>1. UNCHANGED held
      BY <1>8, <2>4 DEF Succeed
    <3>2. \A v \in Workers : pc'[v] = pc[v] \/ (v = w /\ pc'[v] = "failing")
      BY <1>8, <2>4 DEF Succeed, TypeOK
    <3>3. QED
      BY <2>1, <2>2, <3>1, <3>2, FreeingKeepsOwnership DEF Busy
  <2>5. QED
    BY <2>3, <2>4
<1>9. ASSUME NEW w \in Workers, Fail(w) PROVE OwnershipOK'
  <2>1. /\ FailJob(held[w], token[w]) /\ held[w] \in Jobs /\ token[w] \in Nat
        /\ Busy(w) /\ NextCycle(w) /\ UNCHANGED <<token, minted, wire, returned>>
    BY <1>0, <1>9 DEF Fail, Busy
  <2>2. KeptOrFreed
    BY <2>1, FailEffect DEF KeptOrFreed, GivenUp, Freed
  <2>3. \A j \in Jobs : job'[j].lease # token[w] \/ token[w] = NoToken
    BY <2>1, FailEffect DEF GivenUp, Kept, Owned, OwnershipOK, LeasesOK, TokensOK
  <2>4. QED
    BY <2>1, <2>2, <2>3, CyclingKeepsOwnership
<1>10. ASSUME NEW w \in Workers, Exit(w) PROVE OwnershipOK'
  BY <1>10, EndingKeepsOwnership DEF Exit, KeptOrFreed, Kept
<1>11. ASSUME NEW w \in Workers, StopSignal(w) PROVE OwnershipOK'
  BY <1>11, FreeingKeepsOwnership DEF StopSignal, Busy, KeptOrFreed, Kept
<1>12. ASSUME NEW w \in Workers, Crash(w) PROVE OwnershipOK'
  BY <1>12, EndingKeepsOwnership DEF Crash, KeptOrFreed, Kept
<1>13. ASSUME NEW w \in Workers, LoseReply(w) PROVE OwnershipOK'
  BY <1>13, LosingKeepsOwnership
<1>14. ASSUME NEW s \in wire, LateExecution(s) PROVE OwnershipOK'
  BY <1>14, LateStatementKeepsOwnership
<1>15. ASSUME NEW s \in wire, Lost(s) PROVE OwnershipOK'
  BY <1>15, FreeingKeepsOwnership DEF Lost, Busy, KeptOrFreed, Kept
<1>16. CASE Tick
  BY <1>16, TickEffect, FreeingKeepsOwnership DEF Tick, Busy, KeptOrFreed
<1>17. CASE UNCHANGED vars
  BY <1>17, FreeingKeepsOwnership DEF vars, Busy, KeptOrFreed, Kept
<1>18. ASSUME NEW w \in Workers, Refused(w) \/ Unread(w) PROVE OwnershipOK'
  BY <1>18, RefusedKeepsOwnership, UnreadKeepsOwnership
<1>19. QED
  BY <1>1, <1>2, <1>3, <1>4, <1>5, <1>6, <1>7, <1>8, <1>9, <1>10, <1>11, <1>12,
     <1>13, <1>14, <1>15, <1>16, <1>17, <1>18 DEF Next, WorkerStep, Environment

-----------------------------------------------------------------------------
(***************************************************************************)
(* The theorems.                                                           *)
(***************************************************************************)

\* IInv holds at the start and is kept by every step.
THEOREM Inductive == Spec => []IInv
<1>1. Init => IInv
  <2> SUFFICES ASSUME Init PROVE IInv
    OBVIOUS
  <2>1. \A j \in Jobs : job[j] = [state |-> "absent", attempts |-> 0, due |-> 0,
                                  age |-> 0, lease |-> NoToken]
    BY DEF Init, NewRow
  <2>2. TypeOK
    <3>1. job \in [Jobs -> Row]
      BY <2>1 DEF Init, Row, States, NoToken
    <3>2. QED
      BY <3>1 DEF Init, TypeOK, PCs, NoToken
  <2>3. WorkersOK
    BY DEF Init, WorkersOK, Busy
  <2>4. LeasesOK /\ TokensOK /\ WireOK /\ ReturnedOK
    BY <2>1 DEF Init, LeasesOK, TokensOK, WireOK, ReturnedOK, NoToken
  <2>5. AttemptsOK
    BY <2>1, QueueAssumption DEF AttemptsOK, AttemptsBounded, Waiting
  <2>6. QED
    BY <2>2, <2>3, <2>4, <2>5 DEF IInv
<1>2. IInv /\ [Next]_vars => IInv'
  <2> SUFFICES ASSUME IInv, [Next]_vars PROVE IInv'
    OBVIOUS
  <2>1. OwnershipOK /\ TypeOK /\ WorkersOK /\ AttemptsOK
    BY DEF IInv, OwnershipOK
  <2>2. TypeOK' /\ OwnershipOK' /\ AttemptsOK'
    BY <2>1, TypeStep, OwnershipStep, NextRows, AttemptsStep
  <2>3. QED
    BY <2>2 DEF IInv, OwnershipOK
<1>3. QED
  BY <1>1, <1>2, PTL DEF Spec

\* Every variable keeps its type.
THEOREM TypeCorrect == Spec => []TypeOK
BY Inductive, PTL DEF IInv

\* Attempts are bounded by max_attempts, whatever is killed, lost or late.
THEOREM BoundedRetry == Spec => []AttemptsBounded
BY Inductive, PTL DEF IInv, AttemptsOK

\* Two live workers never own the lease of one job.
THEOREM ExclusiveLease == Spec => []OneOwner
<1>1. IInv => OneOwner
  BY DEF IInv, OneOwner, Owns, Owned, TokensOK, WorkersOK
<1>2. QED
  BY <1>1, Inductive, PTL

\* A worker between two claims has left no lease behind.
THEOREM CleanLoop == Spec => []NothingLeftBehind
<1>1. IInv => NothingLeftBehind
  BY DEF IInv, NothingLeftBehind, Owned, TokensOK, Busy
<1>2. QED
  BY <1>1, Inductive, PTL

-----------------------------------------------------------------------------
(***************************************************************************)
(* The action properties, and the refinement of JobLifecycle, follow from  *)
(* the inductive invariant one step at a time.  Final states are final.    *)
(***************************************************************************)
Frozen == \A j \in Jobs : job[j].state \in Terminal => job'[j] = job[j]

\* No statement touches a row in a final state.
LEMMA StatementsFreeze ==
    ASSUME TypeOK
    PROVE  /\ \A j \in Jobs, t \in Nat : ClaimJob(j, t) => Frozen
           /\ \A j \in Jobs, t \in Nat : HeartbeatJob(j, t) => Frozen
           /\ \A j \in Jobs, t \in Nat : SucceedJob(j, t) => Frozen
           /\ \A j \in Jobs, t \in Nat : FailJob(j, t) => Frozen
           /\ RecoverJobs => Frozen
<1> USE DEF TypeOK, Frozen, Terminal
<1>1. ASSUME NEW j \in Jobs, NEW t \in Nat, ClaimJob(j, t) PROVE Frozen
  BY <1>1 DEF ClaimJob, FirstCandidates, Candidates, Waiting
<1>2. ASSUME NEW j \in Jobs, NEW t \in Nat, HeartbeatJob(j, t) PROVE Frozen
  BY <1>2 DEF HeartbeatJob, Owned
<1>3. ASSUME NEW j \in Jobs, NEW t \in Nat, SucceedJob(j, t) PROVE Frozen
  BY <1>3 DEF SucceedJob, Owned
<1>4. ASSUME NEW j \in Jobs, NEW t \in Nat, FailJob(j, t) PROVE Frozen
  BY <1>4 DEF FailJob, Owned
<1>5. ASSUME RecoverJobs PROVE Frozen
  BY <1>5 DEF RecoverJobs, Stale
<1>6. QED
  BY <1>1, <1>2, <1>3, <1>4, <1>5

\* So for whatever statement is executed.
LEMMA ExecuteFreezes ==
    ASSUME TypeOK, NEW s \in Statement, Execute(s)
    PROVE  Frozen
<1>1. CASE s.op = "recover"
  BY <1>1, StatementsFreeze DEF Execute
<1>2. CASE s.op = "claim"
  <2>1. s.token \in Nat
    BY <1>2 DEF Statement
  <2>2. UNCHANGED job => Frozen
    BY DEF Frozen
  <2>3. QED
    BY <1>2, <2>1, <2>2, StatementsFreeze DEF Execute
<1>3. CASE s.op \in {"heartbeat", "succeed", "fail"}
  <2>1. s.job \in Jobs /\ s.token \in Nat
    BY <1>3 DEF Statement
  <2>2. QED
    BY <1>3, <2>1, StatementsFreeze DEF Execute
<1>4. QED
  BY <1>1, <1>2, <1>3 DEF Statement

\* No step touches a row in a final state.
LEMMA StepFreezes ==
    ASSUME TypeOK, WorkersOK, [Next]_vars
    PROVE  Frozen
<1>0. ASSUME NEW w \in Workers, Busy(w) PROVE held[w] \in Jobs /\ token[w] \in Nat
  BY <1>0 DEF WorkersOK, TypeOK
<1>1. ASSUME NEW j \in Jobs, Enqueue(j) PROVE Frozen
  BY <1>1 DEF Enqueue, Frozen, Terminal, TypeOK
<1>2. ASSUME NEW w \in Workers, RecoverStale(w) PROVE Frozen
  BY <1>2, StatementsFreeze DEF RecoverStale
<1>3. ASSUME NEW w \in Workers, Claim(w) PROVE Frozen
  BY <1>3, StatementsFreeze DEF Claim, TypeOK
<1>4. ASSUME NEW w \in Workers, Heartbeat(w) PROVE Frozen
  BY <1>0, <1>4, StatementsFreeze DEF Heartbeat, Busy
<1>5. ASSUME NEW w \in Workers, Succeed(w) PROVE Frozen
  BY <1>0, <1>5, StatementsFreeze DEF Succeed, Busy
<1>6. ASSUME NEW w \in Workers, Fail(w) PROVE Frozen
  BY <1>0, <1>6, StatementsFreeze DEF Fail, Busy
<1>7. ASSUME NEW s \in wire, LateExecution(s) PROVE Frozen
  <2>1. s \in Statement /\ Execute(s)
    BY <1>7 DEF TypeOK, LateExecution
  <2>2. QED
    BY <2>1, ExecuteFreezes
<1>8. CASE Tick
  BY <1>8 DEF Tick, Frozen, Terminal, Waiting
<1>9. ASSUME UNCHANGED job PROVE Frozen
  BY <1>9 DEF Frozen
<1>10. ASSUME NEW w \in Workers, Unread(w) PROVE Frozen
  BY <1>10, UnreadExecutes, ExecuteFreezes
<1>11. QED
  BY <1>1, <1>2, <1>3, <1>4, <1>5, <1>6, <1>7, <1>8, <1>9, <1>10
     DEF Next, WorkerStep, Environment, Start, HandlerReturns, HandlerRaises, Exit,
         Refused, StopSignal, Crash, LoseReply, Lost, vars

\* A succeeded or dead-lettered job never changes again.
THEOREM FinalStates == Spec => FinalIsFinal
<1>1. IInv /\ [Next]_vars => Frozen
  BY StepFreezes DEF IInv
<1>2. IInv /\ [Next]_vars =>
        [\A j \in Jobs : job[j].state \in Terminal => job'[j] = job[j]]_vars
  BY <1>1 DEF Frozen
<1>3. QED
  BY <1>2, Inductive, PTL DEF Spec, FinalIsFinal

-----------------------------------------------------------------------------
(***************************************************************************)
(* The refinement.  Each step maps to one step of JobLifecycle.            *)
(***************************************************************************)

\* What the refinement needs of a state.
LEMMA MappedState ==
    ASSUME IInv
    PROVE  /\ \A j \in Jobs : <<j, NoToken>> \notin returned
           /\ \A j \in Jobs : job[j].lease = NoToken <=> job[j].state # "running"
           /\ \A j \in Jobs : /\ job[j].state \in States /\ job[j].attempts \in Nat
                              /\ job[j].attempts <= MaxAttempts
                              /\ job[j].state \in Waiting => job[j].attempts < MaxAttempts
           /\ \A w \in Workers : Busy(w) =>
                 held[w] \in Jobs /\ token[w] \in Nat /\ token[w] # NoToken
BY DEF IInv, ReturnedOK, LeasesOK, AttemptsOK, AttemptsBounded, TypeOK, Row, WorkersOK

\* Statements that keep some rows and give the others up: GiveUp, of all of them.
LEMMA GivingUpMaps ==
    ASSUME IInv, \A j \in Jobs : Kept(j) \/ GivenUp(j), returned' = returned
    PROVE  Lifecycle!Next
<1>1. PICK S \in SUBSET Jobs : S = {j \in Jobs : GivenUp(j)}
  OBVIOUS
<1>2. \A j \in S : [k \in Jobs |-> Phase(k)][j] = "running"
  BY <1>1 DEF GivenUp, Phase, Waiting
<1>3. \A j \in Jobs : job[j].attempts >= MaxAttempts <=> job[j].attempts = MaxAttempts
  BY MappedState, QueueAssumption
<1>4. ASSUME NEW j \in Jobs
      PROVE  Phase(j)' = IF j \notin S THEN [k \in Jobs |-> Phase(k)][j]
                         ELSE IF [k \in Jobs |-> job[k].attempts][j] = MaxAttempts
                         THEN "dead_letter" ELSE "waiting"
  <2>1. CASE j \in S
    BY <1>1, <1>3, <2>1 DEF GivenUp, Phase, Waiting
  <2>2. CASE j \notin S
    BY <1>1, <2>2 DEF Kept, Phase
  <2>3. QED
    BY <2>1, <2>2
<1>5. [j \in Jobs |-> Phase(j)]' =
        [j \in Jobs |-> IF j \notin S THEN [k \in Jobs |-> Phase(k)][j]
                        ELSE IF [k \in Jobs |-> job[k].attempts][j] = MaxAttempts
                        THEN "dead_letter" ELSE "waiting"]
  BY <1>4
<1>6. \A j \in Jobs : (<<j, job[j].lease>> \in returned)' <=>
                         <<j, job[j].lease>> \in returned /\ j \notin S
  BY <1>1, MappedState DEF GivenUp, Kept
<1>7. {j \in Jobs : <<j, job[j].lease>> \in returned}' =
        {j \in Jobs : <<j, job[j].lease>> \in returned} \ S
  BY <1>6
<1>8. UNCHANGED [j \in Jobs |-> job[j].attempts]
  BY DEF Kept, GivenUp
<1>9. Lifecycle!GiveUp(S)
  BY <1>2, <1>5, <1>7, <1>8 DEF Lifecycle!GiveUp
<1>10. QED
  BY <1>9 DEF Lifecycle!Next

\* _CLAIM under a token that no handler has returned under: Begin.
LEMMA BeginningMaps ==
    ASSUME IInv, NEW j \in Jobs, NEW t, Begun(j, t), \A k \in Jobs \ {j} : Kept(k),
           <<j, t>> \notin returned, returned' = returned
    PROVE  Lifecycle!Next
<1>1. [k \in Jobs |-> Phase(k)][j] = "waiting"
  BY DEF Begun, Phase, Waiting
<1>2. [k \in Jobs |-> job[k].attempts][j] < MaxAttempts
  BY MappedState DEF Begun
<1>3. [k \in Jobs |-> Phase(k)]' = [[k \in Jobs |-> Phase(k)] EXCEPT ![j] = "running"]
  BY DEF Begun, Kept, Phase, Waiting
<1>4. [k \in Jobs |-> job[k].attempts]' =
        [[k \in Jobs |-> job[k].attempts] EXCEPT ![j] = @ + 1]
  BY DEF Begun, Kept
<1>5. UNCHANGED {k \in Jobs : <<k, job[k].lease>> \in returned}
  BY MappedState DEF Begun, Kept, Waiting
<1>6. Lifecycle!Begin(j)
  BY <1>1, <1>2, <1>3, <1>4, <1>5 DEF Lifecycle!Begin
<1>7. QED
  BY <1>6 DEF Lifecycle!Next

\* _SUCCEED under a lease whose handler returned: Complete.
LEMMA CompletingMaps ==
    ASSUME IInv, NEW j \in Jobs, Completed(j), \A k \in Jobs \ {j} : Kept(k),
           <<j, job[j].lease>> \in returned, returned' = returned
    PROVE  Lifecycle!Next
<1>1. /\ [k \in Jobs |-> Phase(k)][j] = "running"
      /\ j \in {k \in Jobs : <<k, job[k].lease>> \in returned}
  BY DEF Completed, Phase, Waiting
<1>2. [k \in Jobs |-> Phase(k)]' = [[k \in Jobs |-> Phase(k)] EXCEPT ![j] = "succeeded"]
  BY DEF Completed, Kept, Phase, Waiting
<1>3. {k \in Jobs : <<k, job[k].lease>> \in returned}' =
        {k \in Jobs : <<k, job[k].lease>> \in returned} \ {j}
  BY MappedState DEF Completed, Kept
<1>4. UNCHANGED [k \in Jobs |-> job[k].attempts]
  BY DEF Completed, Kept
<1>5. Lifecycle!Complete(j)
  BY <1>1, <1>2, <1>3, <1>4 DEF Lifecycle!Complete
<1>6. QED
  BY <1>5 DEF Lifecycle!Next

\* _ENQUEUE of a new key: Submit.
LEMMA SubmittingMaps ==
    ASSUME IInv, NEW j \in Jobs, Submitted(j), \A k \in Jobs \ {j} : Kept(k),
           returned' = returned
    PROVE  Lifecycle!Next
<1>1. [k \in Jobs |-> Phase(k)][j] = "absent"
  BY DEF Submitted, Phase, Waiting
<1>2. [k \in Jobs |-> Phase(k)]' = [[k \in Jobs |-> Phase(k)] EXCEPT ![j] = "waiting"]
  BY DEF Submitted, Kept, Phase, Waiting
<1>3. UNCHANGED [k \in Jobs |-> job[k].attempts]
  BY DEF Kept, Submitted, IInv, AttemptsOK
<1>4. UNCHANGED {k \in Jobs : <<k, job[k].lease>> \in returned}
  BY MappedState DEF Kept, Submitted
<1>5. Lifecycle!Submit(j)
  BY <1>1, <1>2, <1>3, <1>4 DEF Lifecycle!Submit
<1>6. QED
  BY <1>5 DEF Lifecycle!Next

\* A handler that returns: HandlerDone if its worker still owns the lease, and
\* nothing that JobLifecycle sees otherwise.
LEMMA ReturningMaps ==
    ASSUME IInv, NEW w \in Workers, HandlerReturns(w)
    PROVE  [Lifecycle!Next]_(Lifecycle!vars)
<1>1. PICK j \in Jobs, t \in Nat : /\ j = held[w] /\ t = token[w] /\ t # NoToken
                                  /\ job' = job /\ returned' = returned \cup {<<j, t>>}
  BY MappedState DEF HandlerReturns, Busy
<1>2. /\ UNCHANGED [k \in Jobs |-> Phase(k)]
      /\ UNCHANGED [k \in Jobs |-> job[k].attempts]
  BY <1>1 DEF Phase
<1>3. CASE Owned(j, t)
  <2>1. [k \in Jobs |-> Phase(k)][j] = "running"
    BY <1>3 DEF Owned, Phase, Waiting
  <2>2. {k \in Jobs : <<k, job[k].lease>> \in returned}' =
          {k \in Jobs : <<k, job[k].lease>> \in returned} \cup {j}
    BY <1>1, <1>3 DEF Owned
  <2>3. Lifecycle!HandlerDone(j)
    BY <1>2, <2>1, <2>2 DEF Lifecycle!HandlerDone
  <2>4. QED
    BY <2>3 DEF Lifecycle!Next
<1>4. CASE ~Owned(j, t)
  <2>1. job[j].lease # t
    BY <1>1, <1>4, MappedState DEF Owned
  <2>2. UNCHANGED {k \in Jobs : <<k, job[k].lease>> \in returned}
    BY <1>1, <2>1
  <2>3. QED
    BY <1>2, <2>2 DEF Lifecycle!vars
<1>5. QED
  BY <1>3, <1>4

\* A completion is sent by workers, and kept on the wire, for handlers that
\* returned: it completes the job, or does nothing.
LEMMA SucceedMaps ==
    ASSUME IInv, NEW j \in Jobs, NEW t \in Nat, SucceedJob(j, t),
           <<j, t>> \in returned, returned' = returned
    PROVE  Lifecycle!Next
<1>1. TypeOK
  BY DEF IInv
<1>2. CASE Owned(j, t)
  BY <1>1, <1>2, SucceedEffect, CompletingMaps DEF Owned
<1>3. CASE ~Owned(j, t)
  <2>1. \A k \in Jobs : Kept(k)
    BY <1>1, <1>3, SucceedEffect
  <2>2. QED
    BY <2>1, GivingUpMaps
<1>4. QED
  BY <1>2, <1>3

\* Every step of the queue is a step of JobLifecycle, or changes nothing there.
LEMMA StepMaps ==
    ASSUME IInv, [Next]_vars
    PROVE  [Lifecycle!Next]_(Lifecycle!vars)
<1>0. /\ TypeOK /\ minted + 1 \in Nat
      /\ \A w \in Workers : Busy(w) => held[w] \in Jobs /\ token[w] \in Nat
      /\ \A j \in Jobs : <<j, minted + 1>> \notin returned
  BY MappedState DEF IInv, TypeOK, ReturnedOK
<1>1. ASSUME NEW j \in Jobs, Enqueue(j) PROVE Lifecycle!Next
  <2>1. (Submitted(j) \/ Kept(j)) /\ \A k \in Jobs \ {j} : Kept(k)
    BY <1>0, <1>1, EnqueueEffect
  <2>2. returned' = returned
    BY <1>1 DEF Enqueue
  <2>3. CASE Submitted(j)
    BY <2>1, <2>2, <2>3, SubmittingMaps
  <2>4. CASE Kept(j)
    BY <2>1, <2>2, <2>4, GivingUpMaps
  <2>5. QED
    BY <2>1, <2>3, <2>4
<1>2. ASSUME NEW w \in Workers, RecoverStale(w) PROVE Lifecycle!Next
  BY <1>0, <1>2, RecoverEffect, GivingUpMaps DEF RecoverStale
<1>3. ASSUME NEW w \in Workers, Claim(w) PROVE Lifecycle!Next
  <2>1. PICK j \in Jobs : ClaimJob(j, minted + 1)
    BY <1>3 DEF Claim
  <2>2. returned' = returned
    BY <1>3 DEF Claim
  <2>3. QED
    BY <1>0, <2>1, <2>2, ClaimEffect, BeginningMaps
<1>4. ASSUME NEW w \in Workers, Heartbeat(w) PROVE Lifecycle!Next
  <2>1. \A k \in Jobs : Kept(k)
    BY <1>0, <1>4, HeartbeatEffect DEF Heartbeat, Busy
  <2>2. returned' = returned
    BY <1>4 DEF Heartbeat
  <2>3. QED
    BY <2>1, <2>2, GivingUpMaps
<1>5. ASSUME NEW w \in Workers, HandlerReturns(w)
      PROVE  [Lifecycle!Next]_(Lifecycle!vars)
  BY <1>5, ReturningMaps
<1>6. ASSUME NEW w \in Workers, Succeed(w) PROVE Lifecycle!Next
  <2>1. /\ SucceedJob(held[w], token[w]) /\ returned' = returned
        /\ held[w] \in Jobs /\ token[w] \in Nat
    BY <1>0, <1>6 DEF Succeed, Busy
  <2>2. <<held[w], token[w]>> \in returned
    BY <1>6 DEF Succeed, IInv, ReturnedOK
  <2>3. QED
    BY <2>1, <2>2, SucceedMaps
<1>7. ASSUME NEW w \in Workers, Fail(w) PROVE Lifecycle!Next
  <2>1. /\ FailJob(held[w], token[w]) /\ returned' = returned
        /\ held[w] \in Jobs /\ token[w] \in Nat
    BY <1>0, <1>7 DEF Fail, Busy
  <2>2. \A k \in Jobs : Kept(k) \/ GivenUp(k)
    BY <1>0, <2>1, FailEffect
  <2>3. QED
    BY <2>1, <2>2, GivingUpMaps
<1>8. ASSUME NEW s \in wire, LateExecution(s) PROVE Lifecycle!Next
  <2>1. s \in Statement /\ Execute(s) /\ returned' = returned
    BY <1>0, <1>8 DEF TypeOK, LateExecution
  <2>2. CASE s.op = "recover"
    BY <1>0, <2>1, <2>2, RecoverEffect, GivingUpMaps DEF Execute
  <2>3. CASE s.op = "claim" /\ Candidates = {}
    BY <2>1, <2>3, GivingUpMaps DEF Execute, Kept
  <2>4. CASE s.op = "claim" /\ Candidates # {}
    <3>1. PICK j \in Jobs : ClaimJob(j, s.token)
      BY <2>1, <2>4 DEF Execute
    <3>2. s.token \in Nat /\ <<j, s.token>> \notin returned
      BY <2>1, <2>4 DEF Statement, IInv, WireOK
    <3>3. QED
      BY <1>0, <2>1, <3>1, <3>2, ClaimEffect, BeginningMaps
  <2>5. CASE s.op \in {"heartbeat", "succeed", "fail"}
    <3>1. s.job \in Jobs /\ s.token \in Nat
      BY <2>1, <2>5 DEF Statement
    <3>2. CASE s.op = "heartbeat"
      BY <1>0, <2>1, <3>1, <3>2, HeartbeatEffect, GivingUpMaps DEF Execute
    <3>3. CASE s.op = "succeed"
      <4>1. SucceedJob(s.job, s.token)
        BY <2>1, <3>3 DEF Execute
      <4>2. <<s.job, s.token>> \in returned
        BY <3>3 DEF IInv, WireOK
      <4>3. QED
        BY <2>1, <3>1, <4>1, <4>2, SucceedMaps
    <3>4. CASE s.op = "fail"
      <4>1. FailJob(s.job, s.token)
        BY <2>1, <3>4 DEF Execute
      <4>2. \A k \in Jobs : Kept(k) \/ GivenUp(k)
        BY <1>0, <3>1, <4>1, FailEffect
      <4>3. QED
        BY <2>1, <4>2, GivingUpMaps
    <3>5. QED
      BY <2>5, <3>2, <3>3, <3>4
  <2>6. QED
    BY <2>1, <2>2, <2>3, <2>4, <2>5 DEF Statement
<1>9. CASE Tick
  <2>1. returned' = returned
    BY <1>9 DEF Tick
  <2>2. QED
    BY <1>0, <1>9, <2>1, TickEffect, GivingUpMaps
<1>10. ASSUME UNCHANGED <<job, returned>> PROVE Lifecycle!Next
  BY <1>10, GivingUpMaps DEF Kept
<1>11. ASSUME NEW w \in Workers, Unread(w) PROVE Lifecycle!Next
  <2>1. returned' = returned /\ WorkersOK
    BY <1>11 DEF Unread, IInv
  <2>2. CASE \A j \in Jobs : Kept(j) \/ GivenUp(j)
    BY <2>1, <2>2, GivingUpMaps
  <2>3. CASE /\ pc[w] = "finishing" /\ held[w] \in Jobs /\ token[w] \in Nat
             /\ SucceedJob(held[w], token[w])
    BY <2>1, <2>3, SucceedMaps DEF IInv, ReturnedOK
  <2>4. ASSUME NEW j \in Jobs, ClaimJob(j, minted + 1) PROVE Lifecycle!Next
    BY <1>0, <2>1, <2>4, ClaimEffect, BeginningMaps
  <2>5. QED
    BY <1>0, <1>11, <2>1, <2>2, <2>3, <2>4, UnreadEffect
<1>12. QED
  BY <1>1, <1>2, <1>3, <1>4, <1>5, <1>6, <1>7, <1>8, <1>9, <1>10, <1>11
     DEF Next, WorkerStep, Environment, Start, HandlerRaises, Exit, Refused, StopSignal,
         Crash, LoseReply, Lost, vars

\* The queue implements JobLifecycle.
THEOREM Refinement == Spec => ImplementsLifecycle
<1>1. Init => Lifecycle!Init
  <2> SUFFICES ASSUME Init PROVE Lifecycle!Init
    OBVIOUS
  <2>1. \A j \in Jobs : job[j].state = "absent" /\ job[j].attempts = 0
    BY DEF Init, NewRow
  <2>2. \A j \in Jobs : Phase(j) = "absent"
    BY <2>1 DEF Phase, Waiting
  <2>3. \A j \in Jobs : <<j, job[j].lease>> \notin returned
    BY DEF Init
  <2>4. QED
    BY <2>1, <2>2, <2>3 DEF Lifecycle!Init
<1>2. IInv /\ [Next]_vars => [Lifecycle!Next]_(Lifecycle!vars)
  BY StepMaps
<1>3. QED
  BY <1>1, <1>2, Inductive, PTL DEF Spec, ImplementsLifecycle, Lifecycle!Spec

\* In JobLifecycle, and so in the queue, a job becomes succeeded only in Complete.
LEMMA EarnedStep ==
    ASSUME IInv, [Next]_vars, NEW j \in Jobs,
           job[j].state # "succeeded", job'[j].state = "succeeded"
    PROVE  <<j, job[j].lease>> \in returned
<1>1. Phase(j) # "succeeded" /\ Phase(j)' = "succeeded"
  BY DEF Phase, Waiting
<1>2. [k \in Jobs |-> Phase(k)][j] # "succeeded" /\ [k \in Jobs |-> Phase(k)]'[j] = "succeeded"
  BY <1>1
<1>3. Lifecycle!Next
  <2>1. [Lifecycle!Next]_(Lifecycle!vars)
    BY StepMaps
  <2>2. QED
    BY <1>2, <2>1 DEF Lifecycle!vars
<1>4. ASSUME NEW k \in Jobs,
             Lifecycle!Submit(k) \/ Lifecycle!Begin(k) \/ Lifecycle!HandlerDone(k)
      PROVE  FALSE
  BY <1>2, <1>4 DEF Lifecycle!Submit, Lifecycle!Begin, Lifecycle!HandlerDone
<1>5. ASSUME NEW S \in SUBSET Jobs, Lifecycle!GiveUp(S) PROVE FALSE
  BY <1>2, <1>5 DEF Lifecycle!GiveUp
<1>6. PICK k \in Jobs : Lifecycle!Complete(k)
  BY <1>3, <1>4, <1>5 DEF Lifecycle!Next
<1>7. k = j
  BY <1>2, <1>6 DEF Lifecycle!Complete
<1>8. QED
  BY <1>6, <1>7 DEF Lifecycle!Complete

\* A job is completed only under the lease whose handler returned.
THEOREM EarnedSuccess == Spec => SuccessIsEarned
<1>1. IInv /\ [Next]_vars =>
        [\A j \in Jobs :
           job[j].state # "succeeded" /\ job'[j].state = "succeeded"
             => <<j, job[j].lease>> \in returned]_vars
  BY EarnedStep
<1>2. QED
  BY <1>1, Inductive, PTL DEF Spec, SuccessIsEarned

-----------------------------------------------------------------------------
(***************************************************************************)
(* The lease of a worker that heartbeats on time is never stale, however   *)
(* late the other workers are.  The argument: a punctual worker renewed    *)
(* the lease it owns at least as recently as its own clock says, which     *)
(* never says more than HeartbeatEvery.  Time moves the lease's age and    *)
(* that clock together; every other step that touches the row renews it or *)
(* takes it away.                                                          *)
(***************************************************************************)
\* The clock of a worker without a job stands at zero.
ClockOK == \A w \in Workers : quiet[w] <= HeartbeatEvery /\ (~Busy(w) => quiet[w] = 0)

\* A lease is no older than the clock of the punctual worker that owns it.
AgeOK == \A w \in Punctual, j \in Jobs : Owns(w, j) => job[j].age <= quiet[w]

PunctualInv == ClockOK /\ AgeOK

-----------------------------------------------------------------------------
(***************************************************************************)
(* What a step other than Tick does to rows and to workers.                *)
(***************************************************************************)

\* Every row is kept, or its heartbeat is now or gone.
Fresh == \A j \in Jobs : job'[j] = job[j] \/ job'[j].age = 0

\* The statements leave rows alone or leave them with age 0.
LEMMA StatementsFresh ==
    ASSUME TypeOK
    PROVE  /\ \A j \in Jobs, t \in Nat : ClaimJob(j, t) => Fresh /\ job'[j].age = 0
           /\ \A j \in Jobs, t \in Nat : HeartbeatJob(j, t) => Fresh
           /\ \A j \in Jobs, t \in Nat : HeartbeatJob(j, t) /\ Owned(j, t) => job'[j].age = 0
           /\ \A j \in Jobs, t \in Nat : SucceedJob(j, t) => Fresh
           /\ \A j \in Jobs, t \in Nat : FailJob(j, t) => Fresh
           /\ RecoverJobs => Fresh
<1>1. ASSUME NEW j \in Jobs, NEW t \in Nat, ClaimJob(j, t) PROVE Fresh /\ job'[j].age = 0
  BY <1>1 DEF ClaimJob, Fresh, Claimed, TypeOK
<1>2. ASSUME NEW j \in Jobs, NEW t \in Nat, HeartbeatJob(j, t)
      PROVE  Fresh /\ (Owned(j, t) => job'[j].age = 0)
  BY <1>2 DEF HeartbeatJob, Fresh, TypeOK, Row
<1>3. ASSUME NEW j \in Jobs, NEW t \in Nat, SucceedJob(j, t) PROVE Fresh
  BY <1>3 DEF SucceedJob, Fresh, Succeeded, Settled, TypeOK
<1>4. ASSUME NEW j \in Jobs, NEW t \in Nat, FailJob(j, t) PROVE Fresh
  BY <1>4 DEF FailJob, Fresh, Released, Settled, TypeOK
<1>5. ASSUME RecoverJobs PROVE Fresh
  BY <1>5 DEF RecoverJobs, Fresh, Released, Settled, TypeOK
<1>6. QED
  BY <1>1, <1>2, <1>3, <1>4, <1>5

\* So does whatever statement is executed.
LEMMA ExecuteFresh ==
    ASSUME TypeOK, NEW s \in Statement, Execute(s)
    PROVE  Fresh
<1>1. CASE s.op = "recover"
  BY <1>1, StatementsFresh DEF Execute
<1>2. CASE s.op = "claim" /\ Candidates = {}
  BY <1>2 DEF Execute, Fresh
<1>3. CASE s.op = "claim" /\ Candidates # {}
  <2>1. s.token \in Nat
    BY <1>3 DEF Statement
  <2>2. PICK j \in Jobs : ClaimJob(j, s.token)
    BY <1>3 DEF Execute
  <2>3. QED
    BY <2>1, <2>2, StatementsFresh
<1>4. CASE s.op \in {"heartbeat", "succeed", "fail"}
  <2>1. s.job \in Jobs /\ s.token \in Nat
    BY <1>4 DEF Statement
  <2>2. QED
    BY <1>4, <2>1, StatementsFresh DEF Execute
<1>5. QED
  BY <1>1, <1>2, <1>3, <1>4 DEF Statement

\* A worker stays with what it does; or is left without a job; or has, of all jobs, only
\* the lease that it just obtained or renewed.
Stays(w) ==
    /\ Busy(w)' = Busy(w)
    /\ held'[w] = held[w]
    /\ token'[w] = token[w]
    /\ quiet'[w] = quiet[w]

Leaves(w) == ~Busy(w)' /\ quiet'[w] = 0

Renews(w) ==
    /\ Busy(w)'
    /\ quiet'[w] \in {0, quiet[w]}
    /\ \A j \in Jobs : Owns(w, j)' => job'[j].age = 0

Moves == Fresh /\ \A w \in Workers : Stays(w) \/ Leaves(w) \/ Renews(w)

\* A worker whose process or whose cycle ends leaves, and the others stay.
LEMMA EndingMoves ==
    ASSUME TypeOK, NEW w \in Workers, ProcessEnds(w) \/ (NextCycle(w) /\ UNCHANGED token), Fresh
    PROVE  Moves
<1>1. \A v \in Workers : Stays(v) \/ Leaves(v)
  BY DEF ProcessEnds, NextCycle, Stays, Leaves, Busy, TypeOK
<1>2. QED
  BY <1>1 DEF Moves

\* Nothing but a worker's place among the busy ones or among the others changes.
LEMMA StayingMoves ==
    ASSUME Fresh, UNCHANGED <<held, token, quiet>>, \A w \in Workers : Busy(w)' = Busy(w)
    PROVE  Moves
BY DEF Moves, Stays

\* A worker whose statement raises ends, or goes on to record the exception.
LEMMA RaisingMoves ==
    ASSUME TypeOK, NEW w \in Workers, StatementRaises(w), Fresh
    PROVE  Moves
<1>1. CASE pc[w] \in {"handling", "finishing"}
  <2>1. \A v \in Workers : Busy(v)' = Busy(v)
    BY <1>1 DEF StatementRaises, Busy, TypeOK
  <2>2. QED
    BY <1>1, <2>1, StayingMoves DEF StatementRaises
<1>2. CASE pc[w] \notin {"handling", "finishing"}
  BY <1>2, EndingMoves DEF StatementRaises
<1>3. QED
  BY <1>1, <1>2

\* A worker that claims has a lease of age 0.
LEMMA ClaimMoves ==
    ASSUME TypeOK, NEW w \in Workers, Claim(w)
    PROVE  Moves
<1>1. PICK j \in Jobs : ClaimJob(j, minted + 1) /\ held' = [held EXCEPT ![w] = j]
  BY DEF Claim
<1>2. minted + 1 \in Nat
  BY DEF TypeOK
<1>3. Fresh /\ job'[j].age = 0
  BY <1>1, <1>2, StatementsFresh
<1>4. Renews(w)
  BY <1>1, <1>3 DEF Claim, Renews, Owns, Busy, TypeOK
<1>5. \A v \in Workers \ {w} : Stays(v)
  BY <1>1 DEF Claim, Stays, Busy, TypeOK
<1>6. QED
  BY <1>3, <1>4, <1>5 DEF Moves

\* A heartbeat renews the lease; when there is none any more, the worker owns nothing.
LEMMA HeartbeatMoves ==
    ASSUME TypeOK, WorkersOK, NEW w \in Workers, Heartbeat(w)
    PROVE  Moves
<1>1. held[w] \in Jobs /\ token[w] \in Nat
  BY DEF TypeOK, WorkersOK, Heartbeat, Busy
<1>2. Fresh /\ (Owned(held[w], token[w]) => job'[held[w]].age = 0)
  BY <1>1, StatementsFresh DEF Heartbeat
<1>3. \A v \in Workers \ {w} : Stays(v)
  BY DEF Heartbeat, Stays, Busy, TypeOK
<1>4. Busy(w)' /\ quiet'[w] = 0 /\ held'[w] = held[w] /\ token'[w] = token[w]
  BY DEF Heartbeat, Busy, TypeOK
<1>5. ~Owned(held[w], token[w]) => ~Owned(held[w], token[w])'
  BY DEF Heartbeat, HeartbeatJob, Owned
<1>6. Renews(w)
  BY <1>2, <1>4, <1>5 DEF Renews, Owns
<1>7. QED
  BY <1>2, <1>3, <1>6 DEF Moves

\* Every step but Tick.
LEMMA MovesStep ==
    ASSUME TypeOK, WorkersOK, [Next]_vars, ~Tick
    PROVE  Moves
<1>0. ASSUME NEW w \in Workers, Busy(w) PROVE held[w] \in Jobs /\ token[w] \in Nat
  BY <1>0 DEF WorkersOK, TypeOK
<1>1. ASSUME UNCHANGED job PROVE Fresh
  BY <1>1 DEF Fresh
<1>2. ASSUME NEW j \in Jobs, Enqueue(j) PROVE Moves
  <2>1. Fresh
    BY <1>2 DEF Enqueue, Fresh, NewRow, TypeOK
  <2>2. QED
    BY <1>2, <2>1, StayingMoves DEF Enqueue, Busy
<1>3. ASSUME NEW w \in Workers, Start(w) PROVE Moves
  BY <1>1, <1>3, StayingMoves DEF Start, Busy, TypeOK
<1>4. ASSUME NEW w \in Workers, RecoverStale(w) PROVE Moves
  <2>1. Fresh
    BY <1>4, StatementsFresh DEF RecoverStale
  <2>2. QED
    BY <1>4, <2>1, StayingMoves DEF RecoverStale, Busy, TypeOK
<1>5. ASSUME NEW w \in Workers, HandlerReturns(w) \/ HandlerRaises(w) PROVE Moves
  BY <1>1, <1>5, StayingMoves DEF HandlerReturns, HandlerRaises, Busy, TypeOK
<1>6. ASSUME NEW w \in Workers, Succeed(w) PROVE Moves
  <2>1. Fresh
    BY <1>0, <1>6, StatementsFresh DEF Succeed, Busy
  <2>2. CASE Owned(held[w], token[w])
    BY <1>6, <2>1, <2>2, EndingMoves DEF Succeed
  <2>3. CASE ~Owned(held[w], token[w])
    BY <1>6, <2>1, <2>3, StayingMoves DEF Succeed, Busy, TypeOK
  <2>4. QED
    BY <2>2, <2>3
<1>7. ASSUME NEW w \in Workers, Fail(w) PROVE Moves
  <2>1. Fresh
    BY <1>0, <1>7, StatementsFresh DEF Fail, Busy
  <2>2. QED
    BY <1>7, <2>1, EndingMoves DEF Fail
<1>8. ASSUME NEW w \in Workers, Exit(w) \/ Crash(w) PROVE Moves
  BY <1>1, <1>8, EndingMoves DEF Exit, Crash
<1>9. ASSUME NEW w \in Workers, StopSignal(w) PROVE Moves
  BY <1>1, <1>9, StayingMoves DEF StopSignal, Busy
<1>10. ASSUME NEW w \in Workers, LoseReply(w) PROVE Moves
  BY <1>1, <1>10, RaisingMoves DEF LoseReply
<1>11. ASSUME NEW s \in wire, LateExecution(s) PROVE Moves
  <2>1. s \in Statement /\ Execute(s)
    BY <1>11 DEF LateExecution, TypeOK
  <2>2. Fresh
    BY <2>1, ExecuteFresh
  <2>3. QED
    BY <1>11, <2>2, StayingMoves DEF LateExecution, Busy
<1>12. ASSUME NEW s \in wire, Lost(s) PROVE Moves
  BY <1>1, <1>12, StayingMoves DEF Lost, Busy
<1>13. CASE UNCHANGED vars
  BY <1>1, <1>13, StayingMoves DEF vars, Busy
<1>14. ASSUME NEW w \in Workers, Refused(w) PROVE Moves
  BY <1>1, <1>14, RaisingMoves DEF Refused
<1>15. ASSUME NEW w \in Workers, Unread(w) PROVE Moves
  <2>1. Fresh
    BY <1>15, UnreadExecutes, ExecuteFresh
  <2>2. QED
    BY <1>15, <2>1, RaisingMoves DEF Unread
<1>16. QED
  BY <1>2, <1>3, <1>4, <1>5, <1>6, <1>7, <1>8, <1>9, <1>10, <1>11, <1>12, <1>13, <1>14, <1>15,
     ClaimMoves, HeartbeatMoves DEF Next, WorkerStep, Environment

-----------------------------------------------------------------------------
(***************************************************************************)
(* The invariant and the theorem.                                          *)
(***************************************************************************)

\* Steps other than Tick keep the invariant.
LEMMA MovesKeepLeases ==
    ASSUME TypeOK, TypeOK', PunctualInv, Moves
    PROVE  PunctualInv'
<1>1. \A w \in Workers : quiet[w] \in Nat /\ quiet'[w] \in Nat
  BY DEF TypeOK
<1>2. ClockOK'
  <2>1. SUFFICES ASSUME NEW w \in Workers
                 PROVE  quiet'[w] <= HeartbeatEvery /\ (~Busy(w)' => quiet'[w] = 0)
    BY DEF ClockOK
  <2>2. quiet[w] <= HeartbeatEvery /\ (~Busy(w) => quiet[w] = 0) /\ HeartbeatEvery \in Nat
    BY QueueAssumption DEF PunctualInv, ClockOK
  <2>3. Stays(w) \/ Leaves(w) \/ Renews(w)
    BY DEF Moves
  <2>4. QED
    BY <1>1, <2>2, <2>3 DEF Stays, Leaves, Renews
<1>3. AgeOK'
  <2>1. SUFFICES ASSUME NEW w \in Punctual, NEW j \in Jobs, Owns(w, j)'
                 PROVE  job'[j].age <= quiet'[w]
    BY DEF AgeOK
  <2>2. w \in Workers
    BY QueueAssumption
  <2>3. CASE job'[j].age = 0
    BY <1>1, <2>2, <2>3
  <2>4. CASE job'[j] = job[j] /\ job'[j].age # 0
    <3>1. Stays(w)
      BY <2>1, <2>2, <2>4 DEF Moves, Leaves, Renews, Owns
    <3>2. Owns(w, j)
      BY <2>1, <2>4, <3>1 DEF Owns, Owned, Stays
    <3>3. QED
      BY <2>4, <3>1, <3>2 DEF PunctualInv, AgeOK, Stays
  <2>5. QED
    BY <2>3, <2>4 DEF Moves, Fresh
<1>4. QED
  BY <1>2, <1>3 DEF PunctualInv

\* Time keeps it: the age of a lease and its owner's clock go up together.
LEMMA TickKeepsLeases ==
    ASSUME TypeOK, PunctualInv, Tick
    PROVE  PunctualInv'
<1>1. \A w \in Workers : Busy(w)' = Busy(w) /\ held'[w] = held[w] /\ token'[w] = token[w]
  BY DEF Tick, Busy
<1>2. HeartbeatEvery \in Nat /\ \A w \in Workers : quiet[w] \in Nat
  BY QueueAssumption DEF TypeOK
<1>3. \A w \in Workers : quiet'[w] = IF w \in Punctual /\ Busy(w) THEN quiet[w] + 1 ELSE 0
  BY DEF Tick
<1>4. ClockOK'
  BY <1>1, <1>2, <1>3 DEF ClockOK, Tick
<1>5. AgeOK'
  <2>1. SUFFICES ASSUME NEW w \in Punctual, NEW j \in Jobs, Owns(w, j)'
                 PROVE  job'[j].age <= quiet'[w]
    BY DEF AgeOK
  <2>2. w \in Workers
    BY QueueAssumption
  <2>3. Kept(j)
    BY TickEffect
  <2>4. Owns(w, j)
    BY <1>1, <2>1, <2>2, <2>3 DEF Owns, Owned, Kept
  <2>5. job[j].age <= quiet[w] /\ job[j].state = "running" /\ job[j] \in Row
    BY <2>4 DEF PunctualInv, AgeOK, Owns, Owned, TypeOK
  <2>6. job'[j] = [job[j] EXCEPT !.age = IF @ <= StaleAfter THEN @ + 1 ELSE @]
    BY <2>5 DEF Tick, Waiting
  <2>7. job'[j].age \in {job[j].age, job[j].age + 1} /\ job[j].age \in Nat
    BY <2>5, <2>6 DEF Row
  <2>8. quiet'[w] = quiet[w] + 1
    BY <1>3, <2>2, <2>4 DEF Owns
  <2>9. QED
    BY <1>2, <2>2, <2>5, <2>7, <2>8
<1>6. QED
  BY <1>4, <1>5 DEF PunctualInv

\* The lease of a punctual worker is never stale, when the stale interval is no shorter
\* than that of the heartbeats: _RECOVER never takes a lease from it.
THEOREM PunctualLease == Spec => []PunctualOwnerKeepsLease
<1>1. Init => PunctualInv
  <2>1. ASSUME Init PROVE ClockOK /\ AgeOK
    BY <2>1, QueueAssumption DEF Init, ClockOK, AgeOK, Owns, Busy
  <2>2. QED
    BY <2>1 DEF PunctualInv
<1>2. IInv /\ IInv' /\ PunctualInv /\ [Next]_vars => PunctualInv'
  <2>1. SUFFICES ASSUME IInv, IInv', PunctualInv, [Next]_vars PROVE PunctualInv'
    OBVIOUS
  <2>2. TypeOK /\ TypeOK' /\ WorkersOK
    BY <2>1 DEF IInv
  <2>3. CASE Tick
    BY <2>1, <2>2, <2>3, TickKeepsLeases
  <2>4. CASE ~Tick
    BY <2>1, <2>2, <2>4, MovesStep, MovesKeepLeases
  <2>5. QED
    BY <2>3, <2>4
<1>3. IInv /\ PunctualInv => PunctualOwnerKeepsLease
  <2>1. SUFFICES ASSUME IInv, PunctualInv, HeartbeatEvery <= StaleAfter,
                        NEW w \in Punctual, NEW j \in Jobs, Owns(w, j)
                 PROVE  ~Stale(j)
    BY DEF PunctualOwnerKeepsLease
  <2>2. w \in Workers /\ HeartbeatEvery \in Nat /\ StaleAfter \in Nat
    BY QueueAssumption
  <2>3. job[j].age \in Nat /\ quiet[w] \in Nat
    BY <2>1, <2>2 DEF IInv, TypeOK, Row
  <2>4. job[j].age <= quiet[w] /\ quiet[w] <= HeartbeatEvery
    BY <2>1, <2>2 DEF PunctualInv, AgeOK, ClockOK
  <2>5. QED
    BY <2>1, <2>2, <2>3, <2>4 DEF Stale
<1>4. QED
  BY <1>1, <1>2, <1>3, Inductive, PTL DEF Spec
=============================================================================
