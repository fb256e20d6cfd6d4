---------------------------- MODULE ExecutionJob ----------------------------
(***************************************************************************)
(* Execution Jobs: the durable record of one physical tool execution, the   *)
(* Runtime workers that claim and run it, the approval grant some Jobs      *)
(* need, and the reconciler that takes over when a worker disappears.       *)
(*                                                                          *)
(* The store (memory/postgres/execution.rs, approval.rs) protects every     *)
(* write by a compare-and-set on the row's revision, and worker writes by   *)
(* the claim token as well.  Workers (orchestrator.rs) and the reconciler   *)
(* (execution.rs) read a row, decide, and write later: `seen' and `plan'    *)
(* hold what they read.                                                     *)
(***************************************************************************)
EXTENDS Integers, FiniteSets

CONSTANTS
    Jobs,         \* Execution Jobs, one per (activation, tool call)
    Workers,      \* Runtime worker tasks that can execute a Job
    MaxClaims,    \* bound on claim tokens handed out
    MaxRevision   \* bound on the revisions lease renewals may reach

ASSUME BoundsAssumption == MaxClaims \in Nat /\ MaxRevision \in Nat

VARIABLES
    job,        \* the execution_jobs rows
    approval,   \* the approval_requests rows, one per Job
    worker,     \* the local state of each worker task
    plan,       \* rows the reconciler has listed and not yet handled
    effects,    \* claim tokens under which the tool was physically started
    lastToken   \* last claim token handed out

vars == <<job, approval, worker, plan, effects, lastToken>>

-----------------------------------------------------------------------------
(* The rows *)

NoToken == 0    \* SQL NULL; also the author of a control-plane result

TerminalStatus == {"succeeded", "failed", "cancelled", "lost"}
JobStatus      == {"queued", "waiting_approval", "running"} \cup TerminalStatus
RetrySafety    == {"idempotent", "reconcile_required", "at_most_once"}
ApprovalStatus == {"none", "pending", "allowed", "denied", "cancelled", "consumed"}

\* "absent" is a row that has not been inserted.  `started' is
\* side_effect_started_at, `cancel' is cancel_requested_at, `granted' is
\* approval_ref, `author' the claim that wrote the result Event.
JobRecord ==
    [status    : JobStatus \cup {"absent"},
     revision  : Nat,
     retry     : RetrySafety,
     needsApproval : BOOLEAN,
     token     : Nat,
     lease     : {"none", "live", "expired"},
     started   : BOOLEAN,
     cancel    : BOOLEAN,
     granted   : BOOLEAN,
     author    : Nat]

AbsentRow ==
    [status |-> "absent", revision |-> 0, retry |-> "at_most_once",
     needsApproval |-> FALSE, token |-> NoToken, lease |-> "none",
     started |-> FALSE, cancel |-> FALSE, granted |-> FALSE,
     author |-> NoToken]

\* Worker program counters: `prepared' has read the row, `claimed' owns it,
\* `armed' persisted the side-effect boundary, `executing' runs the tool,
\* `done' has an output, `finishing' has re-read the row to commit it.
\* `spawned': the tool task exists, so its failure is recovered.
WorkerRecord ==
    [pc    : {"idle", "prepared", "claimed", "armed", "executing", "done", "finishing"},
     job   : Jobs \cup {NoToken},
     token : Nat,
     seen  : JobRecord,
     spawned : BOOLEAN,
     out   : TerminalStatus]

IdleWorker ==
    [pc |-> "idle", job |-> NoToken, token |-> NoToken, seen |-> AbsentRow,
     spawned |-> FALSE, out |-> "lost"]

\* What a worker holds at each program counter.
Prepared(j, row)     == [IdleWorker EXCEPT !.pc = "prepared", !.job = j, !.seen = row]
Claimed(v, tok, row) == [v EXCEPT !.pc = "claimed", !.token = tok, !.seen = row]
Armed(v, row)        == [v EXCEPT !.pc = "armed", !.spawned = TRUE, !.seen = row]
Executing(v)         == [v EXCEPT !.pc = "executing"]
Done(v, out)         == [v EXCEPT !.pc = "done", !.out = out]
Finishing(v, row, out) == [v EXCEPT !.pc = "finishing", !.seen = row, !.out = out]

IsTerminal(r) == r.status \in TerminalStatus

\* UPDATE execution_jobs SET revision = revision + 1, ...
Bump(r) == [r EXCEPT !.revision = @ + 1]

Init ==
    /\ job       = [j \in Jobs |-> AbsentRow]
    /\ approval  = [j \in Jobs |-> "none"]
    /\ worker    = [w \in Workers |-> IdleWorker]
    /\ plan      = [j \in Jobs |-> AbsentRow]
    /\ effects   = [j \in Jobs |-> {}]
    /\ lastToken = 0

-----------------------------------------------------------------------------
(* Creation and claim *)

\* ensure_job_in_tx: insert the row, or adopt the row of the same causal key.
NewRow(retry, needs) ==
    [AbsentRow EXCEPT !.status = IF needs THEN "waiting_approval" ELSE "queued",
                      !.revision = 1, !.retry = retry, !.needsApproval = needs]

CreateJob(w, j) ==
    /\ worker[w].pc = "idle"
    /\ job[j].status = "absent"
    /\ \E retry \in RetrySafety, needs \in BOOLEAN :
         /\ job' = [job EXCEPT ![j] = NewRow(retry, needs)]
         /\ approval' = [approval EXCEPT ![j] = IF needs THEN "pending" ELSE "none"]
         /\ worker' = [worker EXCEPT ![w] = Prepared(j, NewRow(retry, needs))]
    /\ UNCHANGED <<plan, effects, lastToken>>

\* A replay of the Activation adopts the row only in its initial status; a
\* running row, or an approved row that was requeued, is refused, and a
\* terminal row returns its stored result.
AdoptJob(w, j) ==
    /\ worker[w].pc = "idle"
    /\ job[j].status = IF job[j].needsApproval THEN "waiting_approval" ELSE "queued"
    /\ worker' = [worker EXCEPT ![w] = Prepared(j, job[j])]
    /\ UNCHANGED <<job, approval, plan, effects, lastToken>>

Claimable(r, expected) ==
    /\ r.revision = expected
    /\ r.status \in {"queued", "waiting_approval"}
    /\ ~r.cancel

ClaimedRow(r, token) ==
    [Bump(r) EXCEPT !.status = "running", !.token = token, !.lease = "live"]

\* claim_execution_job with the revision read before; a conflict or a
\* rejection makes the worker give up.
ClaimJob(w) ==
    LET j == worker[w].job
        row == ClaimedRow(job[j], lastToken + 1)
    IN  /\ worker[w].pc = "prepared"
        /\ ~worker[w].seen.needsApproval
        /\ IF Claimable(job[j], worker[w].seen.revision)
             THEN /\ lastToken < MaxClaims
                  /\ job' = [job EXCEPT ![j] = row]
                  /\ worker' = [worker EXCEPT ![w] = Claimed(@, lastToken + 1, row)]
                  /\ lastToken' = lastToken + 1
             ELSE /\ worker' = [worker EXCEPT ![w] = IdleWorker]
                  /\ UNCHANGED <<job, lastToken>>
        /\ UNCHANGED <<approval, plan, effects>>

\* claim_execution_job_with_grant consumes the grant and claims the Job in
\* one transaction.
GrantClaimable(j, expected) ==
    /\ job[j].revision = expected
    /\ job[j].status = "waiting_approval"
    /\ ~job[j].cancel
    /\ ~job[j].granted
    /\ approval[j] = "allowed"

\* Mutant: the claim does not consume the grant.
ClaimLeavesGrant(w) ==
    LET j == worker[w].job
        row == ClaimedRow(job[j], lastToken + 1)
    IN  /\ worker[w].pc = "prepared" /\ worker[w].seen.needsApproval
        /\ GrantClaimable(j, worker[w].seen.revision)
        /\ lastToken < MaxClaims
        /\ job' = [job EXCEPT ![j] = row]
        /\ worker' = [worker EXCEPT ![w] = Claimed(@, lastToken + 1, row)]
        /\ lastToken' = lastToken + 1
        /\ UNCHANGED <<approval, plan, effects>>

ClaimWithGrant(w) ==
    LET j == worker[w].job
        row == [ClaimedRow(job[j], lastToken + 1) EXCEPT !.granted = TRUE]
    IN  /\ worker[w].pc = "prepared"
        /\ worker[w].seen.needsApproval
        /\ approval[j] \in {"allowed", "consumed"}
        /\ IF GrantClaimable(j, worker[w].seen.revision)
             THEN /\ lastToken < MaxClaims
                  /\ job' = [job EXCEPT ![j] = row]
                  /\ approval' = [approval EXCEPT ![j] = "consumed"]
                  /\ worker' = [worker EXCEPT ![w] = Claimed(@, lastToken + 1, row)]
                  /\ lastToken' = lastToken + 1
             ELSE /\ worker' = [worker EXCEPT ![w] = IdleWorker]
                  /\ UNCHANGED <<job, approval, lastToken>>
        /\ UNCHANGED <<plan, effects>>

-----------------------------------------------------------------------------
(* Terminal commits *)

\* Mutant: any worker may end a running Job.
TerminalWithoutToken(row, token, out) == row.status = "running"

\* validate_terminal_transition: succeeded/failed need the running claim and
\* no cancel request, lost needs a running row, cancelled of a running row
\* needs the claim or a cancel request.
TerminalAllowed(row, token, out) ==
    /\ out \in {"succeeded", "failed"} =>
         row.status = "running" /\ row.token = token /\ token # NoToken /\ ~row.cancel
    /\ out = "lost" => row.status = "running"
    /\ out = "cancelled" /\ row.status = "running" /\ ~row.cancel => row.token = token

\* finish_execution_job_with_event: row and result Event in one transaction.
CanFinish(r, expected, token, out) ==
    /\ r.status # "absent"
    /\ ~IsTerminal(r)
    /\ r.revision = expected
    /\ TerminalAllowed(r, token, out)

FinishedRow(r, token, out) ==
    [Bump(r) EXCEPT !.status = out, !.lease = "none", !.author = token]

\* The approval was denied or withdrawn: the prepared worker closes the Job.
DeniedFinish(w) ==
    LET j == worker[w].job
    IN  /\ worker[w].pc = "prepared"
        /\ worker[w].seen.needsApproval
        /\ approval[j] \in {"denied", "cancelled"}
        /\ job' = IF CanFinish(job[j], worker[w].seen.revision, NoToken, "cancelled")
                    THEN [job EXCEPT ![j] = FinishedRow(job[j], NoToken, "cancelled")]
                    ELSE job
        /\ worker' = [worker EXCEPT ![w] = IdleWorker]
        /\ UNCHANGED <<approval, plan, effects, lastToken>>

-----------------------------------------------------------------------------
(* Execution *)

\* Mutant: a cancel request leaves the revision alone.
CancelKeepsRevision(r) == [r EXCEPT !.cancel = TRUE]

CancelledRow(r) == [Bump(r) EXCEPT !.cancel = TRUE]

\* The Objective fence was revoked before the tool started: ask for
\* cancellation (the receipt is ignored) and report an output that is not a
\* success.  execution_job_outcome makes it a failure unless the row read
\* for the commit carries the cancel request.
FenceRevoked(w) ==
    LET j == worker[w].job
    IN  /\ worker[w].pc \in {"claimed", "armed"}
        /\ job' = IF /\ job[j].revision = worker[w].seen.revision
                     /\ ~IsTerminal(job[j]) /\ ~job[j].cancel
                    THEN [job EXCEPT ![j] = CancelledRow(job[j])]
                    ELSE job
        /\ worker' = [worker EXCEPT ![w] = Done(@, "failed")]
        /\ UNCHANGED <<approval, plan, effects, lastToken>>

\* heartbeat_execution_job
CanHeartbeat(r, expected, token) ==
    /\ r.revision = expected
    /\ r.status = "running"
    /\ r.token = token

\* Mutant: a later heartbeat overwrites the boundary (no COALESCE).
HeartbeatOverwrites(r, boundary) ==
    [Bump(r) EXCEPT !.lease = "live", !.started = boundary]

HeartbeatRow(r, boundary) ==
    [Bump(r) EXCEPT !.lease = "live", !.started = @ \/ boundary]

\* The side-effect boundary is persisted before the tool starts.
CrossBoundary(w) ==
    LET j == worker[w].job
    IN  /\ worker[w].pc = "claimed"
        /\ IF CanHeartbeat(job[j], worker[w].seen.revision, worker[w].token)
             THEN /\ job' = [job EXCEPT ![j] = HeartbeatRow(job[j], TRUE)]
                  /\ worker' = [worker EXCEPT ![w] = Armed(@, HeartbeatRow(job[j], TRUE))]
             ELSE /\ worker' = [worker EXCEPT ![w] = IdleWorker]
                  /\ UNCHANGED job
        /\ UNCHANGED <<approval, plan, effects, lastToken>>

StartTool(w) ==
    /\ worker[w].pc = "armed"
    /\ effects' = [effects EXCEPT ![worker[w].job] = @ \cup {worker[w].token}]
    /\ worker' = [worker EXCEPT ![w] = Executing(@)]
    /\ UNCHANGED <<job, approval, plan, lastToken>>

\* spawn_execution_heartbeat: a long-running executor re-reads the row and
\* renews its lease unless it lost the claim or was asked to stop.
RenewLease(w) ==
    LET j == worker[w].job
    IN  /\ worker[w].pc = "executing"
        /\ job[j].revision < MaxRevision
        /\ ~job[j].cancel
        /\ CanHeartbeat(job[j], job[j].revision, worker[w].token)
        /\ job' = [job EXCEPT ![j] = HeartbeatRow(job[j], FALSE)]
        /\ UNCHANGED <<approval, worker, plan, effects, lastToken>>

ToolReturns(w) ==
    /\ worker[w].pc = "executing"
    /\ \E out \in {"succeeded", "failed"} :
         worker' = [worker EXCEPT ![w] = Done(@, out)]
    /\ UNCHANGED <<job, approval, plan, effects, lastToken>>

\* finish_claimed_physical_job, first half: re-read the row.  A row that is
\* already terminal ends the task; a cancel request turns the output into a
\* cancelled one, except on the lost path of recover_failed_tool_task.
ReadForFinish(w) ==
    LET v == worker[w]
        row == job[v.job]
        out == IF row.cancel /\ v.out # "lost" THEN "cancelled" ELSE v.out
    IN  /\ v.pc = "done"
        /\ worker' = [worker EXCEPT ![w] =
             IF IsTerminal(row) THEN IdleWorker ELSE Finishing(v, row, out)]
        /\ UNCHANGED <<job, approval, plan, effects, lastToken>>

CommitFinish(w) ==
    LET j == worker[w].job
    IN  /\ worker[w].pc = "finishing"
        /\ CanFinish(job[j], worker[w].seen.revision, worker[w].token, worker[w].out)
        /\ job' = [job EXCEPT ![j] = FinishedRow(job[j], worker[w].token, worker[w].out)]
        /\ worker' = [worker EXCEPT ![w] = IdleWorker]
        /\ UNCHANGED <<approval, plan, effects, lastToken>>

\* Second half, refused by a revision conflict: read again.  (A rejection
\* that carries a cancel request is retried too; at an unchanged revision it
\* does not happen, the outcome already is `cancelled'.)
FinishConflict(w) ==
    /\ worker[w].pc = "finishing"
    /\ ~IsTerminal(job[worker[w].job])
    /\ job[worker[w].job].revision # worker[w].seen.revision
    /\ worker' = [worker EXCEPT ![w] = Done(@, worker[w].out)]
    /\ UNCHANGED <<job, approval, plan, effects, lastToken>>

\* A tool task that fails is recovered by reporting the Job lost, with the
\* claim token it started with; a failed recovery, or a failure before the
\* task was spawned, ends the worker.
RecoverTask(v) ==
    IF v.spawned /\ v.out # "lost" THEN Done(v, "lost") ELSE IdleWorker

\* The commit was rejected, or conflicted for the eighth time.
FinishFails(w) ==
    /\ worker[w].pc = "finishing"
    /\ ~CanFinish(job[worker[w].job], worker[w].seen.revision, worker[w].token, worker[w].out)
    /\ worker' = [worker EXCEPT ![w] = RecoverTask(@)]
    /\ UNCHANGED <<job, approval, plan, effects, lastToken>>

\* The spawned tool task panics; whether the tool ran is unknown.
TaskPanics(w) ==
    /\ worker[w].pc \in {"armed", "executing"}
    /\ worker' = [worker EXCEPT ![w] = Done(@, "lost")]
    /\ UNCHANGED <<job, approval, plan, effects, lastToken>>

\* The worker's process dies; what it wrote stays.
Crash(w) ==
    /\ worker[w].pc # "idle"
    /\ worker' = [worker EXCEPT ![w] = IdleWorker]
    /\ UNCHANGED <<job, approval, plan, effects, lastToken>>

-----------------------------------------------------------------------------
(* Time, control plane, reconciler *)

LeaseExpires(j) ==
    /\ job[j].status = "running" /\ job[j].lease = "live"
    /\ job' = [job EXCEPT ![j] = [@ EXCEPT !.lease = "expired"]]
    /\ UNCHANGED <<approval, worker, plan, effects, lastToken>>

\* commit_authorized_approval_decision
DecideApproval(j) ==
    /\ approval[j] = "pending"
    /\ \E verdict \in {"allowed", "denied"} :
         approval' = [approval EXCEPT ![j] = verdict]
    /\ UNCHANGED <<job, worker, plan, effects, lastToken>>

\* request_cancel_execution_job: the first request only.
RequestCancel(j) ==
    /\ job[j].status # "absent" /\ ~IsTerminal(job[j]) /\ ~job[j].cancel
    /\ job' = [job EXCEPT ![j] = CancelledRow(job[j])]
    /\ UNCHANGED <<approval, worker, plan, effects, lastToken>>

\* Mutant: every cancelled Job that is not closed as cancelled is closed.
ClosableUntilCancelled(j) ==
    job[j].cancel /\ ~job[j].started /\ job[j].status # "cancelled"

\* request_cancel_execution_jobs_for_activation: a cancelled Job nobody runs
\* is closed, after its unconsumed approval was withdrawn in a transaction of
\* its own, unless it had crossed the side-effect boundary.
Closable(j) ==
    /\ job[j].cancel /\ ~job[j].started
    /\ job[j].status \in {"queued", "waiting_approval"}

\* cancel_pending_approval_for_job
WithdrawApproval(j) ==
    /\ Closable(j)
    /\ approval[j] \in {"pending", "allowed"}
    /\ approval' = [approval EXCEPT ![j] = "cancelled"]
    /\ UNCHANGED <<job, worker, plan, effects, lastToken>>

CloseUnstarted(j) ==
    /\ Closable(j)
    /\ approval[j] \notin {"pending", "allowed"}
    /\ job' = [job EXCEPT ![j] = FinishedRow(job[j], NoToken, "cancelled")]
    /\ UNCHANGED <<approval, worker, plan, effects, lastToken>>

\* Mutant: only Jobs before their boundary are taken over.
ListOnlyUnstarted(j) ==
    /\ plan[j].status = "absent"
    /\ job[j].status = "running" /\ job[j].lease = "expired" /\ ~job[j].started
    /\ plan' = [plan EXCEPT ![j] = job[j]]
    /\ UNCHANGED <<job, approval, worker, effects, lastToken>>

\* reconcile_abandoned_runtime_jobs and reconcile_startup in a shared-lease
\* store: only a running row whose lease has expired is acted on.
ListAbandoned(j) ==
    /\ plan[j].status = "absent"
    /\ job[j].status = "running" /\ job[j].lease = "expired"
    /\ plan' = [plan EXCEPT ![j] = job[j]]
    /\ UNCHANGED <<job, approval, worker, effects, lastToken>>

\* Mutant: a cancelled Job is planned for another attempt.
PlanRequeuesCancelled(row) == ~row.started \/ row.retry = "idempotent"

\* restart_plan, on the row as listed
PlanRequeues(row) == ~row.cancel /\ (~row.started \/ row.retry = "idempotent")

\* Mutant: a row that is still running is requeued at whatever revision.
RequeuesAnyRevision(r, expected) ==
    r.status = "running" /\ ~r.cancel /\ (~r.started \/ r.retry = "idempotent")

\* requeue_execution_job
CanRequeue(r, expected) ==
    /\ r.revision = expected
    /\ r.status = "running"
    /\ ~r.started \/ r.retry = "idempotent"
    /\ ~r.cancel

\* Mutant: a status the table does not know.
RequeuedAsPending(r) == [r EXCEPT !.status = "pending", !.token = NoToken]

RequeuedRow(r) ==
    [Bump(r) EXCEPT !.status = "queued", !.token = NoToken, !.lease = "none"]

\* reconcile_jobs: a lost revision fence preserves the newer row.
Reconcile(j) ==
    /\ plan[j].status = "running"
    /\ job' = IF PlanRequeues(plan[j])
                THEN IF CanRequeue(job[j], plan[j].revision)
                       THEN [job EXCEPT ![j] = RequeuedRow(job[j])] ELSE job
                ELSE IF CanFinish(job[j], plan[j].revision, NoToken, "lost")
                       THEN [job EXCEPT ![j] = FinishedRow(job[j], NoToken, "lost")]
                       ELSE job
    /\ plan' = [plan EXCEPT ![j] = AbsentRow]
    /\ UNCHANGED <<approval, worker, effects, lastToken>>

-----------------------------------------------------------------------------

WorkerStep(w) ==
    \/ ClaimJob(w) \/ ClaimWithGrant(w) \/ DeniedFinish(w)
    \/ CrossBoundary(w) \/ StartTool(w) \/ ToolReturns(w)
    \/ ReadForFinish(w) \/ CommitFinish(w) \/ FinishConflict(w) \/ FinishFails(w)

Next ==
    \/ \E w \in Workers :
         \/ \E j \in Jobs : CreateJob(w, j) \/ AdoptJob(w, j)
         \/ WorkerStep(w)
         \/ FenceRevoked(w)
         \/ TaskPanics(w)
         \/ RenewLease(w)
         \/ Crash(w)
    \/ \E j \in Jobs :
         \/ LeaseExpires(j) \/ DecideApproval(j)
         \/ RequestCancel(j) \/ WithdrawApproval(j) \/ CloseUnstarted(j)
         \/ ListAbandoned(j) \/ Reconcile(j)

Spec == Init /\ [][Next]_vars

\* A live worker task and the periodic reconciler keep taking steps, and time
\* passes.  Crashes, cancellations, approvals and replays of the Activation are
\* not promised; nor is that anyone closes a cancelled Job nobody runs, since
\* Runtime::request_execution_job_cancel only writes the intent.
Fairness ==
    /\ \A w \in Workers : WF_vars(WorkerStep(w))
    /\ \A j \in Jobs :
         /\ WF_vars(LeaseExpires(j))
         /\ WF_vars(ListAbandoned(j))
         /\ WF_vars(Reconcile(j))

FairSpec == Spec /\ Fairness

-----------------------------------------------------------------------------
(* Properties *)

\* Rows, approvals, workers, listed rows and physical starts are well formed.
TypeOK ==
    /\ job       \in [Jobs -> JobRecord]
    /\ approval  \in [Jobs -> ApprovalStatus]
    /\ worker    \in [Workers -> WorkerRecord]
    /\ plan      \in [Jobs -> JobRecord]
    /\ effects   \in [Jobs -> SUBSET Nat]
    /\ lastToken \in Nat

\* A tool that is not declared idempotent is physically started under at most
\* one claim, whatever crashes, lease expiries, requeues and replays of the
\* Activation happen in between (retry_safety of execution_jobs).
AtMostOnceEffect ==
    \A j \in Jobs : job[j].retry # "idempotent" =>
        \A t1, t2 \in effects[j] : t1 = t2

\* A succeeded or failed row was written by the claim that still owns it, and
\* that claim really started the tool: a worker that lost its claim, or was
\* fenced before it started, never publishes a result as its own.
ResultByOwner ==
    \A j \in Jobs : job[j].status \in {"succeeded", "failed"} =>
        job[j].author = job[j].token /\ job[j].author \in effects[j]

\* Once cancellation is persisted before the side-effect boundary, no worker
\* persists the boundary any more, although heartbeat_execution_job does not
\* test cancel_requested_at.
CancelBeforeBoundary ==
    [][\A j \in Jobs : job[j].cancel /\ ~job[j].started => ~job'[j].started]_vars

\* A tool that needs an approval starts only after its grant was consumed, and
\* under one claim only: a decision, a withdrawal and a requeue never let a
\* grant be used for a second run.
GrantUsedOnce ==
    \A j \in Jobs : job[j].needsApproval /\ effects[j] # {} =>
        /\ approval[j] = "consumed"
        /\ \A t1, t2 \in effects[j] : t1 = t2

\* The reconciler takes a Job from a worker only while its lease is expired: a
\* worker that was slow and renewed its lease after the reconciler had listed
\* the row (reconcile_jobs acts on what it listed) keeps the Job.
LiveLeaseKeepsJob ==
    [][\A j \in Jobs : job[j].status = "running" /\ job[j].lease = "live" =>
         /\ job'[j].status # "queued"
         /\ ~(job'[j].status = "lost" /\ job'[j].author = NoToken)]_vars

\* A terminal row never changes again, whatever stale worker, cancellation or
\* reconciler still holds an older copy of it.
TerminalIrreversible ==
    [][\A j \in Jobs : IsTerminal(job[j]) => job'[j] = job[j]]_vars

Verdict(row) ==
    CASE row.status = "absent" -> "none"
      [] IsTerminal(row)       -> row.status
      [] OTHER                 -> "open"

\* To the Activation that submitted it an Execution Job is a physical tool
\* call (PhysicalCall): approvals, claims, expired leases, requeues, stale
\* workers and cancellations only decide which of its behaviours happens.
Call == INSTANCE PhysicalCall WITH
    Calls      <- Jobs,
    Definite   <- {"succeeded", "failed"},
    verdict    <- [j \in Jobs |-> Verdict(job[j])],
    repeatable <- [j \in Jobs |-> job[j].retry = "idempotent"],
    acts       <- [j \in Jobs |-> Cardinality(effects[j])]

JobIsPhysicalCall == Call!Spec

\* A running Job does not stay running for ever: its executor ends it, or its
\* lease expires and the reconciler requeues or closes it ("Do not leave its
\* callers waiting forever", reconcile_abandoned_runtime_jobs).
RunningSettles ==
    \A j \in Jobs : job[j].status = "running" ~> job[j].status # "running"

\* What the scheduler document says: every terminal commit is fenced by the
\* claim token, so a worker does not end a Job that another claim owns.
TerminalFencedByClaim ==
    \A j \in Jobs :
        IsTerminal(job[j]) /\ job[j].author # NoToken /\ job[j].token # NoToken =>
            job[j].author = job[j].token

\* A running Job that is cancelled converges with completion, lease expiry and
\* recovery: it ends, and is not put back into the queue, where its cancel
\* intent would keep it from ever being claimed.
CancelSettles ==
    \A j \in Jobs :
        job[j].cancel /\ job[j].status = "running" ~> IsTerminal(job[j])

\* What the comment on RestartAction::Requeue (execution.rs:337) and the scheduler
\* document say: an abandoned Job is put back into the queue only if its Action
\* is idempotent and no side-effect boundary was persisted.
RequeueNeedsBoth ==
    [][\A j \in Jobs : job[j].status = "running" /\ job'[j].status = "queued" =>
         job[j].retry = "idempotent" /\ ~job[j].started]_vars
=============================================================================
