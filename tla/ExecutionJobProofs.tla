------------------------- MODULE ExecutionJobProofs -------------------------
(***************************************************************************)
(* Safety of Execution Jobs for every set of Jobs and workers and every     *)
(* bound, from one inductive invariant.                                     *)
(***************************************************************************)
EXTENDS ExecutionJob, TLAPS

Exclusive(j) == job[j].retry # "idempotent"

\* A busy worker works on a Job whose row exists.
WorkerHasJob ==
    \A w \in Workers : worker[w].pc # "idle" =>
        worker[w].job \in Jobs /\ job[worker[w].job].status # "absent"

\* A worker past the boundary owns the row, if the tool is not idempotent.
BoundaryOwned ==
    \A w \in Workers :
        worker[w].pc \in {"armed", "executing"} /\ Exclusive(worker[w].job) =>
            /\ job[worker[w].job].started
            /\ job[worker[w].job].token = worker[w].token

\* Every physical start of such a tool happened under the row's own claim.
EffectOwned ==
    \A j \in Jobs : Exclusive(j) =>
        \A t \in effects[j] : job[j].started /\ job[j].token = t

\* Past the boundary such a row is never claimable again.
StartedHeld ==
    \A j \in Jobs : job[j].started /\ Exclusive(j) =>
        job[j].status \in {"running"} \cup TerminalStatus

\* A row that was not inserted has no history.
AbsentUntouched ==
    \A j \in Jobs : job[j].status = "absent" =>
        ~job[j].started /\ effects[j] = {}

\* A worker that claimed a row holds a revision not ahead of it, and a cancel
\* request since then has moved the revision.
ClaimFenced ==
    \A w \in Workers : worker[w].pc = "claimed" =>
        /\ worker[w].seen.revision <= job[worker[w].job].revision
        /\ worker[w].seen.revision = job[worker[w].job].revision =>
             ~job[worker[w].job].cancel

IInv ==
    /\ TypeOK
    /\ WorkerHasJob
    /\ BoundaryOwned
    /\ EffectOwned
    /\ StartedHeld
    /\ AbsentUntouched
    /\ ClaimFenced

-----------------------------------------------------------------------------
(* What one step does to a row and to a worker *)

Held == {"running"} \cup TerminalStatus

\* r is a row before a step that changes it, x the row after it.
RowMoves(r, x) ==
    /\ ~IsTerminal(r)
    /\ x.status # "absent"
    /\ r.status = "absent" => ~x.started
    /\ r.status # "absent" =>
         /\ x.retry = r.retry
         /\ x.revision >= r.revision
         /\ x.revision = r.revision => x.cancel = r.cancel
         /\ r.cancel /\ ~r.started => ~x.started
         /\ r.retry # "idempotent" =>
              /\ r.started => x.started /\ x.token = r.token
              /\ x.started => x.status \in Held

\* The row exists and may still change.
Movable(r) ==
    /\ r.status # "absent" /\ ~IsTerminal(r)
    /\ r.started /\ r.retry # "idempotent" => r.status \in Held

\* v is a worker after a step that changes it.
WorkerFits(v) ==
    /\ v.pc # "idle" => v.job \in Jobs /\ job'[v.job].status # "absent"
    /\ v.pc \in {"armed", "executing"} /\ job'[v.job].retry # "idempotent" =>
         job'[v.job].started /\ job'[v.job].token = v.token
    /\ v.pc = "claimed" =>
         /\ v.seen.revision <= job'[v.job].revision
         /\ v.seen.revision = job'[v.job].revision => ~job'[v.job].cancel

\* A step as the invariant sees it: every row and every worker stays or moves
\* as above, and a tool starts only under a claim past its boundary.
StepShape ==
    /\ TypeOK'
    /\ \A j \in Jobs : job'[j] = job[j] \/ RowMoves(job[j], job'[j])
    /\ \A w \in Workers : worker'[w] = worker[w] \/ WorkerFits(worker'[w])
    /\ \A j \in Jobs : \A t \in effects'[j] \ effects[j] :
         /\ job'[j].status # "absent"
         /\ job'[j].retry # "idempotent" => job'[j].started /\ job'[j].token = t

\* The row before insertion, and the row ensure_job_in_tx inserts.
LEMMA NewRows ==
    ASSUME NEW retry \in RetrySafety, NEW b \in BOOLEAN
    PROVE  /\ AbsentRow \in JobRecord
           /\ NewRow(retry, b) \in JobRecord
           /\ NewRow(retry, b).status # "absent" /\ ~NewRow(retry, b).started
<1>0. AbsentRow \in JobRecord
  BY DEF AbsentRow, JobRecord, JobStatus, RetrySafety, NoToken
<1>1. NewRow(retry, b) \in JobRecord
  BY <1>0 DEF NewRow, JobRecord, JobStatus
<1>2. NewRow(retry, b).status # "absent" /\ ~NewRow(retry, b).started
  BY DEF NewRow, AbsentRow
<1> QED
  BY <1>0, <1>1, <1>2

\* claim_execution_job on a row that is not running.
LEMMA ClaimedRows ==
    ASSUME NEW r \in JobRecord, NEW t \in Nat
    PROVE  /\ ClaimedRow(r, t) \in JobRecord
           /\ Movable(r) /\ r.status # "running" => RowMoves(r, ClaimedRow(r, t))
<1> DEFINE n == r.revision + 1
<1>a. n \in Nat /\ n > r.revision
  BY DEF JobRecord
<1>b. Bump(r) = [r EXCEPT !.revision = n] /\ Bump(r) \in JobRecord
  BY DEF Bump, JobRecord
<1> HIDE DEF n
<1>1. ClaimedRow(r, t) \in JobRecord
  BY <1>b DEF ClaimedRow, JobRecord, JobStatus
<1>2. Movable(r) /\ r.status # "running" => RowMoves(r, ClaimedRow(r, t))
  BY <1>a, <1>b DEF ClaimedRow, RowMoves, Movable, JobRecord, Held, IsTerminal, TerminalStatus
<1> QED
  BY <1>1, <1>2

\* claim_execution_job_with_grant.
LEMMA GrantedRows ==
    ASSUME NEW r \in JobRecord, NEW t \in Nat
    PROVE  /\ [ClaimedRow(r, t) EXCEPT !.granted = TRUE] \in JobRecord
           /\ Movable(r) /\ r.status # "running" =>
                  RowMoves(r, [ClaimedRow(r, t) EXCEPT !.granted = TRUE])
<1> DEFINE n == r.revision + 1
<1>a. n \in Nat /\ n > r.revision
  BY DEF JobRecord
<1>b. Bump(r) = [r EXCEPT !.revision = n] /\ Bump(r) \in JobRecord
  BY DEF Bump, JobRecord
<1> HIDE DEF n
<1>1. [ClaimedRow(r, t) EXCEPT !.granted = TRUE] \in JobRecord
  BY <1>b DEF ClaimedRow, JobRecord, JobStatus
<1>2. Movable(r) /\ r.status # "running" =>
            RowMoves(r, [ClaimedRow(r, t) EXCEPT !.granted = TRUE])
  BY <1>a, <1>b DEF ClaimedRow, RowMoves, Movable, JobRecord, Held, IsTerminal, TerminalStatus
<1> QED
  BY <1>1, <1>2

\* finish_execution_job_with_event.
LEMMA FinishedRows ==
    ASSUME NEW r \in JobRecord, NEW t \in Nat, NEW out \in TerminalStatus
    PROVE  /\ FinishedRow(r, t, out) \in JobRecord
           /\ Movable(r) => RowMoves(r, FinishedRow(r, t, out))
<1> DEFINE n == r.revision + 1
<1>a. n \in Nat /\ n > r.revision
  BY DEF JobRecord
<1>b. Bump(r) = [r EXCEPT !.revision = n] /\ Bump(r) \in JobRecord
  BY DEF Bump, JobRecord
<1> HIDE DEF n
<1>1. FinishedRow(r, t, out) \in JobRecord
  BY <1>b DEF FinishedRow, JobRecord, JobStatus
<1>2. Movable(r) => RowMoves(r, FinishedRow(r, t, out))
  BY <1>a, <1>b DEF FinishedRow, RowMoves, Movable, JobRecord, Held, IsTerminal, TerminalStatus
<1> QED
  BY <1>1, <1>2

\* request_cancel_execution_job.
LEMMA CancelledRows ==
    ASSUME NEW r \in JobRecord
    PROVE  /\ CancelledRow(r) \in JobRecord
           /\ Movable(r) => RowMoves(r, CancelledRow(r))
<1> DEFINE n == r.revision + 1
<1>a. n \in Nat /\ n > r.revision
  BY DEF JobRecord
<1>b. Bump(r) = [r EXCEPT !.revision = n] /\ Bump(r) \in JobRecord
  BY DEF Bump, JobRecord
<1> HIDE DEF n
<1>1. CancelledRow(r) \in JobRecord
  BY <1>b DEF CancelledRow, JobRecord
<1>2. Movable(r) => RowMoves(r, CancelledRow(r))
  <2> DEFINE x == CancelledRow(r)
  <2>1. /\ x.status = r.status /\ x.retry = r.retry /\ x.token = r.token
        /\ x.started = r.started /\ x.revision = n
    BY <1>b DEF CancelledRow, JobRecord
  <2>2. r.revision \in Nat
    BY DEF JobRecord
  <2> HIDE DEF x
  <2>3. Movable(r) => RowMoves(r, x)
    BY <1>a, <2>1, <2>2 DEF RowMoves, Movable
  <2> QED
    BY <2>3 DEF x
<1> QED
  BY <1>1, <1>2

\* heartbeat_execution_job; the boundary only on a row that is not cancelled.
LEMMA HeartbeatRows ==
    ASSUME NEW r \in JobRecord, NEW b \in BOOLEAN
    PROVE  /\ HeartbeatRow(r, b) \in JobRecord
           /\ Movable(r) /\ r.status = "running" /\ (r.cancel => ~b) =>
                  RowMoves(r, HeartbeatRow(r, b))
<1> DEFINE n == r.revision + 1
<1>a. n \in Nat /\ n > r.revision
  BY DEF JobRecord
<1>b. Bump(r) = [r EXCEPT !.revision = n] /\ Bump(r) \in JobRecord
  BY DEF Bump, JobRecord
<1> HIDE DEF n
<1>1. HeartbeatRow(r, b) \in JobRecord
  BY <1>b DEF HeartbeatRow, JobRecord
<1>2. Movable(r) /\ r.status = "running" /\ (r.cancel => ~b) => RowMoves(r, HeartbeatRow(r, b))
  BY <1>a, <1>b DEF HeartbeatRow, RowMoves, Movable, JobRecord, Held, IsTerminal,
             TerminalStatus
<1> QED
  BY <1>1, <1>2

\* requeue_execution_job.
LEMMA RequeuedRows ==
    ASSUME NEW r \in JobRecord
    PROVE  /\ RequeuedRow(r) \in JobRecord
           /\ Movable(r) /\ r.status = "running" /\ (~r.started \/ r.retry = "idempotent") =>
                  RowMoves(r, RequeuedRow(r))
<1> DEFINE n == r.revision + 1
<1>a. n \in Nat /\ n > r.revision
  BY DEF JobRecord
<1>b. Bump(r) = [r EXCEPT !.revision = n] /\ Bump(r) \in JobRecord
  BY DEF Bump, JobRecord
<1> HIDE DEF n
<1>1. RequeuedRow(r) \in JobRecord
  BY <1>b DEF RequeuedRow, JobRecord, JobStatus, NoToken
<1>2. Movable(r) /\ r.status = "running" /\ (~r.started \/ r.retry = "idempotent") =>
            RowMoves(r, RequeuedRow(r))
  BY <1>a, <1>b DEF RequeuedRow, RowMoves, Movable, JobRecord, Held, IsTerminal, TerminalStatus
<1> QED
  BY <1>1, <1>2

\* A lease that runs out.
LEMMA ExpiredRows ==
    ASSUME NEW r \in JobRecord
    PROVE  /\ [r EXCEPT !.lease = "expired"] \in JobRecord
           /\ Movable(r) /\ r.status = "running" => RowMoves(r, [r EXCEPT !.lease = "expired"])
<1>1. [r EXCEPT !.lease = "expired"] \in JobRecord
  BY DEF JobRecord
<1>2. Movable(r) /\ r.status = "running" => RowMoves(r, [r EXCEPT !.lease = "expired"])
  BY DEF RowMoves, Movable, JobRecord, Held, IsTerminal, TerminalStatus
<1> QED
  BY <1>1, <1>2

\* A worker keeps its type at every program counter.
LEMMA IdleType == IdleWorker \in WorkerRecord
BY NewRows DEF IdleWorker, WorkerRecord, NoToken, TerminalStatus, RetrySafety

\* ensure: a worker that read the row of its Job.
LEMMA PreparedType ==
    ASSUME NEW j \in Jobs, NEW row \in JobRecord
    PROVE  /\ Prepared(j, row) \in WorkerRecord
           /\ Prepared(j, row).pc = "prepared" /\ Prepared(j, row).job = j
BY IdleType DEF Prepared, WorkerRecord, IdleWorker

\* A worker after its claim.
LEMMA ClaimedType ==
    ASSUME NEW v \in WorkerRecord, NEW t \in Nat, NEW row \in JobRecord
    PROVE  /\ Claimed(v, t, row) \in WorkerRecord
           /\ Claimed(v, t, row).pc = "claimed" /\ Claimed(v, t, row).job = v.job
           /\ Claimed(v, t, row).seen = row
BY DEF Claimed, WorkerRecord

\* A worker after the side-effect boundary.
LEMMA ArmedType ==
    ASSUME NEW v \in WorkerRecord, NEW row \in JobRecord
    PROVE  /\ Armed(v, row) \in WorkerRecord
           /\ Armed(v, row).pc = "armed" /\ Armed(v, row).job = v.job
           /\ Armed(v, row).token = v.token
BY DEF Armed, WorkerRecord

\* A worker whose tool runs.
LEMMA ExecutingType ==
    ASSUME NEW v \in WorkerRecord
    PROVE  /\ Executing(v) \in WorkerRecord
           /\ Executing(v).pc = "executing" /\ Executing(v).job = v.job
           /\ Executing(v).token = v.token
BY DEF Executing, WorkerRecord

\* A worker with an output.
LEMMA DoneType ==
    ASSUME NEW v \in WorkerRecord, NEW out \in TerminalStatus
    PROVE  /\ Done(v, out) \in WorkerRecord
           /\ Done(v, out).pc = "done" /\ Done(v, out).job = v.job
BY DEF Done, WorkerRecord

\* A worker about to commit its output.
LEMMA FinishingType ==
    ASSUME NEW v \in WorkerRecord, NEW row \in JobRecord,
                           NEW out \in TerminalStatus
    PROVE  /\ Finishing(v, row, out) \in WorkerRecord
           /\ Finishing(v, row, out).pc = "finishing" /\ Finishing(v, row, out).job = v.job
BY DEF Finishing, WorkerRecord

\* A step that changes one row, one worker, or both, has the shape if the
\* changed row moves and the changed worker fits.
LEMMA ShapeBoth ==
    ASSUME IInv, NEW w \in Workers, NEW v \in WorkerRecord, NEW j \in Jobs,
           NEW row \in JobRecord, RowMoves(job[j], row),
           job' = [job EXCEPT ![j] = row], worker' = [worker EXCEPT ![w] = v],
           WorkerFits(v), approval' \in [Jobs -> ApprovalStatus],
           plan' \in [Jobs -> JobRecord], effects' = effects, lastToken' \in Nat
    PROVE  StepShape
BY DEF IInv, TypeOK, StepShape

\* The same for a step that changes one row only.
LEMMA ShapeRow ==
    ASSUME IInv, NEW j \in Jobs, NEW row \in JobRecord, RowMoves(job[j], row),
           job' = [job EXCEPT ![j] = row],
           approval' \in [Jobs -> ApprovalStatus], plan' \in [Jobs -> JobRecord],
           UNCHANGED <<worker, effects, lastToken>>
    PROVE  StepShape
BY DEF IInv, TypeOK, StepShape

\* The same for a step that changes one worker only.
LEMMA ShapeWorker ==
    ASSUME IInv, NEW w \in Workers, NEW v \in WorkerRecord, job' = job,
           worker' = [worker EXCEPT ![w] = v], WorkerFits(v),
           UNCHANGED <<approval, plan, effects, lastToken>>
    PROVE  StepShape
BY DEF IInv, TypeOK, StepShape


-----------------------------------------------------------------------------
(* Every step has the shape *)

\* What the invariant gives about the Job of a busy worker.
LEMMA Busy ==
    ASSUME IInv, NEW w \in Workers, worker[w].pc # "idle"
    PROVE  /\ worker[w] \in WorkerRecord
           /\ worker[w].token \in Nat /\ worker[w].out \in TerminalStatus
           /\ worker[w].job \in Jobs
           /\ job[worker[w].job] \in JobRecord
           /\ job[worker[w].job].status # "absent"
           /\ ~IsTerminal(job[worker[w].job]) => Movable(job[worker[w].job])
BY DEF IInv, TypeOK, WorkerRecord, WorkerHasJob, StartedHeld, Exclusive, Movable, Held

\* A worker that gives up has the shape.
LEMMA IdleShape ==
    ASSUME IInv, NEW w \in Workers, worker' = [worker EXCEPT ![w] = IdleWorker],
           UNCHANGED <<job, approval, plan, effects, lastToken>>
    PROVE  StepShape
<1>1. WorkerFits(IdleWorker)
  BY DEF WorkerFits, IdleWorker
<1> QED
  BY <1>1, IdleType, ShapeWorker

\* Claims have the shape.
LEMMA ClaimSteps ==
    ASSUME IInv, NEW w \in Workers, ClaimJob(w) \/ ClaimWithGrant(w)
    PROVE  StepShape
<1> DEFINE j == worker[w].job
           t == lastToken + 1
<1>i. j \in Jobs /\ job[j] \in JobRecord /\ worker[w] \in WorkerRecord
      /\ t \in Nat /\ (~IsTerminal(job[j]) => Movable(job[j]))
  BY Busy DEF ClaimJob, ClaimWithGrant, IInv, TypeOK
<1>1. ASSUME NEW row \in JobRecord, RowMoves(job[j], row), ~row.cancel,
             job' = [job EXCEPT ![j] = row],
             worker' = [worker EXCEPT ![w] = Claimed(@, t, row)],
             lastToken' = t, approval' \in [Jobs -> ApprovalStatus],
             UNCHANGED <<plan, effects>>
      PROVE  StepShape
  <2> DEFINE v == Claimed(worker[w], t, row)
  <2>1. v \in WorkerRecord /\ v.pc = "claimed" /\ v.job = j /\ v.seen = row
    BY <1>i, ClaimedType
  <2>2. job'[j] = row
    BY <1>1, <1>i DEF IInv, TypeOK
  <2>3. WorkerFits(v)
    <3> HIDE DEF v, j
    <3> QED
      BY <2>1, <2>2, <1>1, <1>i DEF WorkerFits, RowMoves, JobRecord
  <2>4. worker' = [worker EXCEPT ![w] = v]
    BY <1>1 DEF IInv, TypeOK
  <2> HIDE DEF v, j, t
  <2> QED
    BY <2>1, <2>3, <2>4, <1>1, <1>i, ShapeBoth DEF IInv, TypeOK
<1>2. CASE ClaimJob(w)
  <2>1. CASE Claimable(job[j], worker[w].seen.revision)
    <3>1. /\ ClaimedRow(job[j], t) \in JobRecord
          /\ RowMoves(job[j], ClaimedRow(job[j], t))
      BY <2>1, <1>i, ClaimedRows DEF Claimable, IsTerminal, TerminalStatus
    <3>2. ~ClaimedRow(job[j], t).cancel
      BY <2>1, <1>i DEF Claimable, ClaimedRow, Bump, JobRecord
    <3> QED
      BY <1>2, <2>1, <3>1, <3>2, <1>1 DEF ClaimJob, IInv, TypeOK
  <2>2. CASE ~Claimable(job[j], worker[w].seen.revision)
    BY <1>2, <2>2, IdleShape DEF ClaimJob
  <2> QED
    BY <2>1, <2>2
<1>3. CASE ClaimWithGrant(w)
  <2> DEFINE row == [ClaimedRow(job[j], t) EXCEPT !.granted = TRUE]
  <2>1. CASE GrantClaimable(j, worker[w].seen.revision)
    <3>1. row \in JobRecord /\ RowMoves(job[j], row)
      BY <2>1, <1>i, GrantedRows DEF GrantClaimable, IsTerminal, TerminalStatus
    <3>2. ~row.cancel
      BY <2>1, <1>i DEF GrantClaimable, ClaimedRow, Bump, JobRecord
    <3>3. approval' \in [Jobs -> ApprovalStatus]
      BY <1>3, <2>1 DEF ClaimWithGrant, IInv, TypeOK, ApprovalStatus
    <3> QED
      BY <1>3, <2>1, <3>1, <3>2, <3>3, <1>1 DEF ClaimWithGrant
  <2>2. CASE ~GrantClaimable(j, worker[w].seen.revision)
    BY <1>3, <2>2, IdleShape DEF ClaimWithGrant
  <2> QED
    BY <2>1, <2>2
<1> QED
  BY <1>2, <1>3

\* The worker ends, whether or not it changed its Job's row on the way.
LEMMA EndShape ==
    ASSUME IInv, NEW w \in Workers, NEW j \in Jobs, NEW row \in JobRecord,
           RowMoves(job[j], row), job' = [job EXCEPT ![j] = row],
           worker' = [worker EXCEPT ![w] = IdleWorker],
           UNCHANGED <<approval, plan, effects, lastToken>>
    PROVE  StepShape
<1>1. WorkerFits(IdleWorker)
  BY DEF WorkerFits, IdleWorker
<1> QED
  BY <1>1, IdleType, ShapeBoth DEF IInv, TypeOK

\* The worker has an output, whether or not it changed its Job's row.
LEMMA DoneShape ==
    ASSUME IInv, NEW w \in Workers, NEW out \in TerminalStatus,
           worker[w].pc # "idle", worker' = [worker EXCEPT ![w] = Done(@, out)],
           \/ job' = job
           \/ \E row \in JobRecord : /\ RowMoves(job[worker[w].job], row)
                                     /\ job' = [job EXCEPT ![worker[w].job] = row],
           UNCHANGED <<approval, plan, effects, lastToken>>
    PROVE  StepShape
<1> DEFINE v == Done(worker[w], out)
           j == worker[w].job
<1>1. v \in WorkerRecord /\ v.pc = "done" /\ v.job = j /\ j \in Jobs
      /\ job[j].status # "absent"
  BY Busy, DoneType
<1>2. worker' = [worker EXCEPT ![w] = v]
  BY DEF IInv, TypeOK
<1>3. CASE job' = job
  <2> HIDE DEF v, j
  <2>1. WorkerFits(v)
    BY <1>1, <1>3 DEF WorkerFits
  <2> QED
    BY <1>1, <1>2, <1>3, <2>1, ShapeWorker
<1>4. ASSUME NEW row \in JobRecord, RowMoves(job[j], row), job' = [job EXCEPT ![j] = row]
      PROVE  StepShape
  <2> HIDE DEF v, j
  <2>1. WorkerFits(v)
    BY <1>1, <1>4 DEF WorkerFits, RowMoves, IInv, TypeOK
  <2> QED
    BY <1>1, <1>2, <1>4, <2>1, ShapeBoth DEF IInv, TypeOK
<1> QED
  BY <1>3, <1>4

\* Outputs, commits, refusals, panics and crashes have the shape.
LEMMA FinishSteps ==
    ASSUME IInv, NEW w \in Workers,
           \/ DeniedFinish(w) \/ FenceRevoked(w) \/ ToolReturns(w) \/ ReadForFinish(w)
           \/ CommitFinish(w) \/ FinishConflict(w) \/ FinishFails(w)
           \/ TaskPanics(w) \/ Crash(w)
    PROVE  StepShape
<1> DEFINE j == worker[w].job
<1>i. /\ worker[w].pc # "idle" /\ worker[w] \in WorkerRecord
      /\ worker[w].token \in Nat /\ worker[w].out \in TerminalStatus
      /\ j \in Jobs /\ job[j] \in JobRecord /\ job[j].status # "absent"
      /\ (~IsTerminal(job[j]) => Movable(job[j]))
  BY Busy DEF DeniedFinish, FenceRevoked, ToolReturns, ReadForFinish, CommitFinish,
              FinishConflict, FinishFails, TaskPanics, Crash
<1>t. {"succeeded", "failed", "cancelled", "lost"} = TerminalStatus /\ NoToken \in Nat
  BY DEF TerminalStatus, NoToken
<1>1. CASE DeniedFinish(w)
  <2>1. CASE CanFinish(job[j], worker[w].seen.revision, NoToken, "cancelled")
    <3>1. /\ FinishedRow(job[j], NoToken, "cancelled") \in JobRecord
          /\ RowMoves(job[j], FinishedRow(job[j], NoToken, "cancelled"))
      BY <2>1, <1>i, <1>t, FinishedRows DEF CanFinish
    <3> QED
      BY <1>1, <1>i, <2>1, <3>1, EndShape DEF DeniedFinish
  <2>2. CASE ~CanFinish(job[j], worker[w].seen.revision, NoToken, "cancelled")
    BY <1>1, <2>2, IdleShape DEF DeniedFinish
  <2> QED
    BY <2>1, <2>2
<1>2. CASE FenceRevoked(w)
  <2>1. \/ job' = job
        \/ job' = [job EXCEPT ![j] = CancelledRow(job[j])] /\ ~IsTerminal(job[j])
    BY <1>2 DEF FenceRevoked
  <2>2. /\ CancelledRow(job[j]) \in JobRecord
        /\ ~IsTerminal(job[j]) => RowMoves(job[j], CancelledRow(job[j]))
    BY <1>i, CancelledRows
  <2> QED
    BY <1>2, <1>i, <1>t, <2>1, <2>2, DoneShape DEF FenceRevoked
<1>3. CASE ToolReturns(w)
  BY <1>3, <1>i, <1>t, DoneShape DEF ToolReturns
<1>4. CASE ReadForFinish(w)
  <2>1. CASE IsTerminal(job[j])
    BY <1>4, <2>1, IdleShape DEF ReadForFinish
  <2>2. CASE ~IsTerminal(job[j])
    <3>1. PICK out \in TerminalStatus :
            worker' = [worker EXCEPT ![w] = Finishing(worker[w], job[j], out)]
      BY <1>4, <1>i, <1>t, <2>2 DEF ReadForFinish
    <3> DEFINE v == Finishing(worker[w], job[j], out)
    <3>2. v \in WorkerRecord /\ v.pc = "finishing" /\ v.job = j
      BY <1>i, FinishingType
    <3>3. WorkerFits(v)
      <4> HIDE DEF v, j
      <4> QED
        BY <1>4, <1>i, <3>2 DEF WorkerFits, ReadForFinish
    <3> HIDE DEF v
    <3>4. worker' = [worker EXCEPT ![w] = v]
      BY <3>1 DEF v
    <3> QED
      BY <1>4, <3>2, <3>3, <3>4, ShapeWorker DEF ReadForFinish
  <2> QED
    BY <2>1, <2>2
<1>5. CASE CommitFinish(w)
  <2> DEFINE row == FinishedRow(job[j], worker[w].token, worker[w].out)
  <2>1. row \in JobRecord /\ RowMoves(job[j], row)
    BY <1>5, <1>i, FinishedRows DEF CommitFinish, CanFinish
  <2> QED
    BY <1>5, <1>i, <2>1, EndShape DEF CommitFinish
<1>6. CASE FinishConflict(w)
  BY <1>6, <1>i, DoneShape DEF FinishConflict
<1>7. CASE FinishFails(w)
  <2>1. CASE worker[w].spawned /\ worker[w].out # "lost"
    BY <1>7, <2>1, <1>i, <1>t, DoneShape DEF FinishFails, RecoverTask, IInv, TypeOK
  <2>2. CASE ~(worker[w].spawned /\ worker[w].out # "lost")
    BY <1>7, <2>2, IdleShape DEF FinishFails, RecoverTask, IInv, TypeOK
  <2> QED
    BY <2>1, <2>2
<1>8. CASE TaskPanics(w)
  BY <1>8, <1>i, <1>t, DoneShape DEF TaskPanics
<1>9. CASE Crash(w)
  BY <1>9, IdleShape DEF Crash
<1> QED
  BY <1>1, <1>2, <1>3, <1>4, <1>5, <1>6, <1>7, <1>8, <1>9

\* The boundary, the start of the tool and lease renewals have the shape.
LEMMA RunSteps ==
    ASSUME IInv, NEW w \in Workers,
           CrossBoundary(w) \/ StartTool(w) \/ RenewLease(w)
    PROVE  StepShape
<1> DEFINE j == worker[w].job
<1>i. /\ worker[w].pc # "idle" /\ worker[w] \in WorkerRecord /\ worker[w].token \in Nat
      /\ j \in Jobs /\ job[j] \in JobRecord /\ job[j].status # "absent"
      /\ (~IsTerminal(job[j]) => Movable(job[j]))
  BY Busy DEF CrossBoundary, StartTool, RenewLease
<1>1. CASE CrossBoundary(w)
  <2> DEFINE row == HeartbeatRow(job[j], TRUE)
  <2>1. CASE CanHeartbeat(job[j], worker[w].seen.revision, worker[w].token)
    <3>1. ~job[j].cancel
      BY <1>1, <2>1 DEF CrossBoundary, CanHeartbeat, IInv, ClaimFenced
    <3>2. row \in JobRecord /\ RowMoves(job[j], row)
      BY <1>i, <2>1, <3>1, HeartbeatRows DEF CanHeartbeat, IsTerminal, TerminalStatus
    <3>3. row.started /\ row.token = worker[w].token /\ row.status # "absent"
      BY <1>i, <2>1 DEF HeartbeatRow, Bump, CanHeartbeat, JobRecord
    <3> DEFINE v == Armed(worker[w], row)
    <3>4. v \in WorkerRecord /\ v.pc = "armed" /\ v.job = j /\ v.token = worker[w].token
      BY <1>i, <3>2, ArmedType
    <3>5. worker' = [worker EXCEPT ![w] = v] /\ job' = [job EXCEPT ![j] = row]
      BY <1>1, <2>1 DEF CrossBoundary, IInv, TypeOK
    <3>6. job'[j] = row
      BY <1>i, <3>5 DEF IInv, TypeOK
    <3>7. UNCHANGED <<approval, plan, effects, lastToken>>
      BY <1>1 DEF CrossBoundary
    <3> HIDE DEF v, row, j
    <3>8. WorkerFits(v)
      BY <1>i, <3>3, <3>4, <3>6 DEF WorkerFits
    <3> QED
      BY <1>i, <3>2, <3>4, <3>5, <3>7, <3>8, ShapeBoth DEF IInv, TypeOK
  <2>2. CASE ~CanHeartbeat(job[j], worker[w].seen.revision, worker[w].token)
    BY <1>1, <2>2, IdleShape DEF CrossBoundary
  <2> QED
    BY <2>1, <2>2
<1>2. CASE StartTool(w)
  <2> DEFINE v == Executing(worker[w])
  <2>1. v \in WorkerRecord /\ v.pc = "executing" /\ v.job = j /\ v.token = worker[w].token
    BY <1>i, ExecutingType
  <2>2. job[j].retry # "idempotent" => job[j].started /\ job[j].token = worker[w].token
    BY <1>2 DEF StartTool, IInv, BoundaryOwned, Exclusive
  <2>3. /\ worker' = [worker EXCEPT ![w] = v] /\ UNCHANGED <<job, approval, plan, lastToken>>
        /\ effects' = [effects EXCEPT ![j] = effects[j] \cup {worker[w].token}]
    BY <1>2 DEF StartTool, IInv, TypeOK
  <2> HIDE DEF v, j
  <2>4. WorkerFits(v)
    BY <1>i, <2>1, <2>2, <2>3 DEF WorkerFits
  <2>5. TypeOK'
    BY <1>i, <2>1, <2>3 DEF IInv, TypeOK
  <2>6. \A w2 \in Workers : worker'[w2] = worker[w2] \/ WorkerFits(worker'[w2])
    BY <2>3, <2>4 DEF IInv, TypeOK
  <2>7. \A k \in Jobs : \A t \in effects'[k] \ effects[k] :
          k = j /\ t = worker[w].token
    BY <1>i, <2>3 DEF IInv, TypeOK
  <2> QED
    BY <1>i, <2>2, <2>3, <2>5, <2>6, <2>7 DEF StepShape
<1>3. CASE RenewLease(w)
  <2> DEFINE row == HeartbeatRow(job[j], FALSE)
  <2>1. row \in JobRecord /\ RowMoves(job[j], row)
    BY <1>3, <1>i, HeartbeatRows DEF RenewLease, CanHeartbeat, IsTerminal, TerminalStatus
  <2>2. job' = [job EXCEPT ![j] = row]
        /\ UNCHANGED <<approval, worker, plan, effects, lastToken>>
    BY <1>3 DEF RenewLease
  <2> HIDE DEF row, j
  <2> QED
    BY <1>i, <2>1, <2>2, ShapeRow DEF IInv, TypeOK
<1> QED
  BY <1>1, <1>2, <1>3

\* Creating and adopting a Job have the shape.
LEMMA CreateSteps ==
    ASSUME IInv, NEW w \in Workers, NEW j \in Jobs, CreateJob(w, j) \/ AdoptJob(w, j)
    PROVE  StepShape
<1>1. CASE CreateJob(w, j)
  <2>1. PICK retry \in RetrySafety, needs \in BOOLEAN :
          /\ job' = [job EXCEPT ![j] = NewRow(retry, needs)]
          /\ approval' = [approval EXCEPT ![j] = IF needs THEN "pending" ELSE "none"]
          /\ worker' = [worker EXCEPT ![w] = Prepared(j, NewRow(retry, needs))]
    BY <1>1 DEF CreateJob
  <2> DEFINE row == NewRow(retry, needs)
             v == Prepared(j, row)
  <2>2. row \in JobRecord /\ row.status # "absent" /\ ~row.started
    BY NewRows
  <2>3. RowMoves(job[j], row)
    <3> HIDE DEF row
    <3> QED
      BY <1>1, <2>2 DEF CreateJob, RowMoves, IsTerminal, TerminalStatus
  <2>4. v \in WorkerRecord /\ v.pc = "prepared" /\ v.job = j
    BY <2>2, PreparedType
  <2>5. job'[j] = row
    BY <2>1 DEF IInv, TypeOK
  <2>6. approval' \in [Jobs -> ApprovalStatus]
    BY <2>1 DEF IInv, TypeOK, ApprovalStatus
  <2>7. UNCHANGED <<plan, effects, lastToken>>
    BY <1>1 DEF CreateJob
  <2>8. job' = [job EXCEPT ![j] = row] /\ worker' = [worker EXCEPT ![w] = v]
    BY <2>1
  <2> HIDE DEF row, v
  <2>9. WorkerFits(v)
    BY <2>2, <2>4, <2>5 DEF WorkerFits
  <2> QED
    BY <2>2, <2>3, <2>4, <2>6, <2>7, <2>8, <2>9, ShapeBoth DEF IInv, TypeOK
<1>2. CASE AdoptJob(w, j)
  <2> DEFINE v == Prepared(j, job[j])
  <2>1. v \in WorkerRecord /\ v.pc = "prepared" /\ v.job = j
    BY PreparedType DEF IInv, TypeOK
  <2>2. /\ job[j].status # "absent" /\ worker' = [worker EXCEPT ![w] = v]
        /\ UNCHANGED <<job, approval, plan, effects, lastToken>>
    BY <1>2 DEF AdoptJob
  <2> HIDE DEF v
  <2>3. WorkerFits(v)
    BY <2>1, <2>2 DEF WorkerFits
  <2> QED
    BY <2>1, <2>2, <2>3, ShapeWorker
<1> QED
  BY <1>1, <1>2

\* Time, approvals, cancellation and the reconciler have the shape.
LEMMA ControlSteps ==
    ASSUME IInv, NEW j \in Jobs,
           \/ LeaseExpires(j) \/ DecideApproval(j) \/ RequestCancel(j)
           \/ WithdrawApproval(j) \/ CloseUnstarted(j) \/ ListAbandoned(j) \/ Reconcile(j)
    PROVE  StepShape
<1>i. job[j] \in JobRecord /\ NoToken \in Nat /\ {"cancelled", "lost"} \subseteq TerminalStatus
  BY DEF IInv, TypeOK, NoToken, TerminalStatus
<1>m. job[j].status # "absent" /\ ~IsTerminal(job[j]) => Movable(job[j])
  BY DEF IInv, StartedHeld, Exclusive, Movable, Held
<1>1. CASE LeaseExpires(j)
  <2>1. /\ [job[j] EXCEPT !.lease = "expired"] \in JobRecord
        /\ RowMoves(job[j], [job[j] EXCEPT !.lease = "expired"])
    BY <1>1, <1>i, <1>m, ExpiredRows DEF LeaseExpires, IsTerminal, TerminalStatus
  <2> QED
    BY <1>1, <2>1, ShapeRow DEF LeaseExpires, IInv, TypeOK
<1>2. CASE DecideApproval(j) \/ WithdrawApproval(j)
  <2>1. approval' \in [Jobs -> ApprovalStatus]
        /\ UNCHANGED <<job, worker, plan, effects, lastToken>>
    BY <1>2 DEF DecideApproval, WithdrawApproval, IInv, TypeOK, ApprovalStatus
  <2> QED
    BY <2>1 DEF StepShape, IInv, TypeOK
<1>3. CASE RequestCancel(j)
  <2>1. CancelledRow(job[j]) \in JobRecord /\ RowMoves(job[j], CancelledRow(job[j]))
    BY <1>3, <1>i, <1>m, CancelledRows DEF RequestCancel
  <2> QED
    BY <1>3, <2>1, ShapeRow DEF RequestCancel, IInv, TypeOK
<1>4. CASE CloseUnstarted(j)
  <2>1. /\ FinishedRow(job[j], NoToken, "cancelled") \in JobRecord
        /\ RowMoves(job[j], FinishedRow(job[j], NoToken, "cancelled"))
    BY <1>4, <1>i, <1>m, FinishedRows DEF CloseUnstarted, Closable, IsTerminal, TerminalStatus
  <2> QED
    BY <1>4, <2>1, ShapeRow DEF CloseUnstarted, IInv, TypeOK
<1>5. CASE ListAbandoned(j)
  BY <1>5, <1>i DEF ListAbandoned, StepShape, IInv, TypeOK
<1>6. CASE Reconcile(j)
  <2>1. plan' \in [Jobs -> JobRecord] /\ UNCHANGED <<approval, worker, effects, lastToken>>
    <3>1. AbsentRow \in JobRecord
      BY NewRows DEF RetrySafety
    <3> QED
      BY <1>6, <3>1 DEF Reconcile, IInv, TypeOK
  <2>2. CASE job' = job
    BY <2>1, <2>2 DEF StepShape, IInv, TypeOK
  <2>3. CASE /\ CanRequeue(job[j], plan[j].revision)
             /\ job' = [job EXCEPT ![j] = RequeuedRow(job[j])]
    <3>1. RequeuedRow(job[j]) \in JobRecord /\ RowMoves(job[j], RequeuedRow(job[j]))
      BY <2>3, <1>i, <1>m, RequeuedRows DEF CanRequeue, IsTerminal, TerminalStatus
    <3> QED
      BY <2>1, <2>3, <3>1, ShapeRow DEF IInv, TypeOK
  <2>4. CASE /\ CanFinish(job[j], plan[j].revision, NoToken, "lost")
             /\ job' = [job EXCEPT ![j] = FinishedRow(job[j], NoToken, "lost")]
    <3>1. /\ FinishedRow(job[j], NoToken, "lost") \in JobRecord
          /\ RowMoves(job[j], FinishedRow(job[j], NoToken, "lost"))
      BY <2>4, <1>i, <1>m, FinishedRows DEF CanFinish
    <3> QED
      BY <2>1, <2>4, <3>1, ShapeRow DEF IInv, TypeOK
  <2> QED
    BY <1>6, <2>2, <2>3, <2>4 DEF Reconcile
<1> QED
  BY <1>1, <1>2, <1>3, <1>4, <1>5, <1>6

\* Every step of the specification has the shape.
LEMMA EveryStep == IInv /\ Next => StepShape
<1> SUFFICES ASSUME IInv, Next PROVE StepShape
  OBVIOUS
<1>1. ASSUME NEW w \in Workers, NEW j \in Jobs, CreateJob(w, j) \/ AdoptJob(w, j)
      PROVE  StepShape
  BY <1>1, CreateSteps
<1>2. ASSUME NEW w \in Workers,
             WorkerStep(w) \/ FenceRevoked(w) \/ TaskPanics(w) \/ RenewLease(w) \/ Crash(w)
      PROVE  StepShape
  BY <1>2, ClaimSteps, FinishSteps, RunSteps DEF WorkerStep
<1>3. ASSUME NEW j \in Jobs,
             \/ LeaseExpires(j) \/ DecideApproval(j) \/ RequestCancel(j)
             \/ WithdrawApproval(j) \/ CloseUnstarted(j) \/ ListAbandoned(j) \/ Reconcile(j)
      PROVE  StepShape
  BY <1>3, ControlSteps
<1> QED
  BY <1>1, <1>2, <1>3 DEF Next

-----------------------------------------------------------------------------
(* The invariant *)

\* The invariant holds initially.
LEMMA InvariantInit == Init => IInv
<1> SUFFICES ASSUME Init PROVE IInv
  OBVIOUS
<1>1. AbsentRow \in JobRecord /\ IdleWorker \in WorkerRecord
  BY NewRows, IdleType DEF RetrySafety
<1>2. TypeOK
  BY <1>1 DEF Init, TypeOK, ApprovalStatus
<1>3. WorkerHasJob /\ BoundaryOwned /\ ClaimFenced
  BY DEF Init, IdleWorker, WorkerHasJob, BoundaryOwned, ClaimFenced
<1>4. EffectOwned /\ StartedHeld /\ AbsentUntouched
  BY DEF Init, AbsentRow, EffectOwned, StartedHeld, AbsentUntouched
<1> QED
  BY <1>2, <1>3, <1>4 DEF IInv

\* A step of that shape preserves the invariant.
LEMMA ShapePreserves == IInv /\ StepShape => IInv'
<1> SUFFICES ASSUME IInv, StepShape PROVE IInv'
  OBVIOUS
<1>t. TypeOK /\ TypeOK'
  BY DEF IInv, StepShape
<1>r. \A j \in Jobs : job'[j] = job[j] \/ RowMoves(job[j], job'[j])
  BY DEF StepShape
<1>w. \A w \in Workers : worker'[w] = worker[w] \/ WorkerFits(worker'[w])
  BY DEF StepShape
<1>1. WorkerHasJob'
  BY <1>r, <1>w DEF IInv, WorkerHasJob, RowMoves, WorkerFits
<1>2. BoundaryOwned'
  <2> SUFFICES ASSUME NEW w \in Workers, worker'[w].pc \in {"armed", "executing"},
                      job'[worker'[w].job].retry # "idempotent"
               PROVE  /\ job'[worker'[w].job].started
                      /\ job'[worker'[w].job].token = worker'[w].token
    BY DEF BoundaryOwned, Exclusive
  <2>1. CASE worker'[w] = worker[w]
    <3> DEFINE j == worker[w].job
    <3>1. j \in Jobs /\ job[j].status # "absent"
      BY <2>1 DEF IInv, WorkerHasJob
    <3>2. job[j].retry # "idempotent" => job[j].started /\ job[j].token = worker[w].token
      BY <2>1 DEF IInv, BoundaryOwned, Exclusive
    <3> QED
      BY <1>r, <2>1, <3>1, <3>2 DEF RowMoves
  <2>2. CASE WorkerFits(worker'[w])
    BY <2>2 DEF WorkerFits
  <2> QED
    BY <1>w, <2>1, <2>2
<1>3. EffectOwned'
  <2> SUFFICES ASSUME NEW j \in Jobs, job'[j].retry # "idempotent", NEW t \in effects'[j]
               PROVE  job'[j].started /\ job'[j].token = t
    BY DEF EffectOwned, Exclusive
  <2>1. CASE t \in effects[j]
    <3>1. job[j].status # "absent"
      BY <2>1 DEF IInv, AbsentUntouched
    <3>2. job[j].retry # "idempotent" => job[j].started /\ job[j].token = t
      BY <2>1 DEF IInv, EffectOwned, Exclusive
    <3> QED
      BY <1>r, <3>1, <3>2 DEF RowMoves
  <2>2. CASE t \notin effects[j]
    BY <2>2 DEF StepShape
  <2> QED
    BY <2>1, <2>2
<1>4. StartedHeld'
  BY <1>r DEF IInv, StartedHeld, AbsentUntouched, Exclusive, RowMoves, Held
<1>5. AbsentUntouched'
  <2> SUFFICES ASSUME NEW j \in Jobs, job'[j].status = "absent"
               PROVE  ~job'[j].started /\ effects'[j] = {}
    BY DEF AbsentUntouched
  <2>1. job'[j] = job[j]
    BY <1>r DEF RowMoves
  <2>2. ~job[j].started /\ effects[j] = {}
    BY <2>1 DEF IInv, AbsentUntouched
  <2> QED
    BY <2>1, <2>2 DEF StepShape
<1>6. ClaimFenced'
  <2> SUFFICES ASSUME NEW w \in Workers, worker'[w].pc = "claimed"
               PROVE  /\ worker'[w].seen.revision <= job'[worker'[w].job].revision
                      /\ worker'[w].seen.revision = job'[worker'[w].job].revision =>
                           ~job'[worker'[w].job].cancel
    BY DEF ClaimFenced
  <2>1. CASE worker'[w] = worker[w]
    <3> DEFINE j == worker[w].job
    <3>1. j \in Jobs /\ job[j].status # "absent"
      BY <2>1 DEF IInv, WorkerHasJob
    <3>2. /\ worker[w].seen.revision <= job[j].revision
          /\ worker[w].seen.revision = job[j].revision => ~job[j].cancel
      BY <2>1 DEF IInv, ClaimFenced
    <3>3. /\ worker[w].seen.revision \in Nat /\ job[j].revision \in Nat
          /\ job'[j].revision \in Nat
      BY <1>t, <3>1 DEF TypeOK, WorkerRecord, JobRecord
    <3>4. /\ job'[j].revision >= job[j].revision
          /\ job'[j].revision = job[j].revision => job'[j].cancel = job[j].cancel
      BY <1>r, <3>1, <3>3 DEF RowMoves
    <3> QED
      BY <2>1, <3>2, <3>3, <3>4
  <2>2. CASE WorkerFits(worker'[w])
    BY <2>2 DEF WorkerFits
  <2> QED
    BY <1>w, <2>1, <2>2
<1> QED
  BY <1>t, <1>1, <1>2, <1>3, <1>4, <1>5, <1>6 DEF IInv

\* The invariant holds in every reachable state.
THEOREM Invariant == Spec => []IInv
<1>1. Init => IInv
  BY InvariantInit
<1>2. IInv /\ [Next]_vars => IInv'
  <2>1. IInv /\ Next => IInv'
    BY EveryStep, ShapePreserves
  <2>2. IInv /\ UNCHANGED vars => IInv'
    BY DEF vars, IInv, TypeOK, WorkerHasJob, BoundaryOwned, EffectOwned, StartedHeld,
           AbsentUntouched, ClaimFenced, Exclusive
  <2> QED
    BY <2>1, <2>2
<1> QED
  BY <1>1, <1>2, PTL DEF Spec

-----------------------------------------------------------------------------
(* The theorems *)

\* Every reachable state is well typed, for any Jobs, workers and bounds.
THEOREM TypeCorrect == Spec => []TypeOK
<1>1. IInv => TypeOK
  BY DEF IInv
<1> QED
  BY <1>1, Invariant, PTL

\* A tool that is not idempotent is physically started under at most one
\* claim, whatever crashes, expires, is requeued or replayed.
THEOREM AtMostOnce == Spec => []AtMostOnceEffect
<1>1. IInv => AtMostOnceEffect
  BY DEF IInv, EffectOwned, Exclusive, AtMostOnceEffect
<1> QED
  BY <1>1, Invariant, PTL

\* A cancellation persisted before the side-effect boundary keeps every worker
\* from persisting it, because the boundary is written at the claim's revision.
THEOREM CancelFencesBoundary == Spec => CancelBeforeBoundary
<1>1. IInv /\ [Next]_vars =>
        [\A j \in Jobs : job[j].cancel /\ ~job[j].started => ~job'[j].started]_vars
  <2> SUFFICES ASSUME IInv, Next, NEW j \in Jobs, job[j].cancel, ~job[j].started
               PROVE  ~job'[j].started
    BY DEF vars
  <2>1. job'[j] = job[j] \/ RowMoves(job[j], job'[j])
    BY EveryStep DEF StepShape
  <2> QED
    BY <2>1 DEF RowMoves
<1> QED
  BY <1>1, Invariant, PTL DEF Spec, CancelBeforeBoundary

\* A terminal row never changes again.
THEOREM TerminalStays == Spec => TerminalIrreversible
<1>1. IInv /\ [Next]_vars =>
        [\A j \in Jobs : IsTerminal(job[j]) => job'[j] = job[j]]_vars
  <2> SUFFICES ASSUME IInv, Next, NEW j \in Jobs, IsTerminal(job[j])
               PROVE  job'[j] = job[j]
    BY DEF vars
  <2> QED
    BY EveryStep DEF StepShape, RowMoves
<1> QED
  BY <1>1, Invariant, PTL DEF Spec, TerminalIrreversible
=============================================================================
