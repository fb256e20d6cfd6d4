# Morphz runtime: TLA+ verification project

Morphz (`src/morphz`) is an agent runtime: models think in *Activations*,
Activations belong to durable *Threads*, and everything they do to the outside
world is an *Execution Job*. All authority is in a store (SQLite for one
process, PostgreSQL for several Runtimes that share it); processes only hold
copies of rows and commit with compare-and-set on `revision`, plus claim tokens,
leases and generations. This project models the parts whose correctness depends
on the order of those commits.

## Inventory

| Component | State it keeps | Operations | What is hard | What makes it correct |
|---|---|---|---|---|
| Execution Jobs (`memory/postgres/execution.rs`, `execution.rs`, `orchestrator.rs`) | one `execution_jobs` row per tool call: status, revision, claim token, lease, side-effect boundary, cancel intent | ensure, claim, heartbeat, finish, request cancel, requeue, reconcile | crash between claim and start, slow workers whose lease expired, cancel against boundary, stale reconciler plans | no second start of a non-idempotent tool; only the owner publishes a result; terminal rows frozen; nobody waits for ever |
| Approvals (`memory/postgres/approval.rs`) | approval row with decision and one-shot grant | request, escalate, decide, withdraw, consume with claim | consume against withdraw, replay | a denied or withdrawn action never starts; a grant starts one run |
| Scheduler kernel: Threads, Signals, Activations, Thread Groups (`scheduler/*`, `memory/postgres/{activation,thread,thread_group,scheduler,schedule}.rs`) | thread lifecycle, generation and revision; signal queue; activation rows; group counters and barrier; dependencies | append signal, claim batch, start, commit outcome, cancel / pause / resume / supersede / restart, evaluate group, satisfy dependency | generations against stale reads, several writers of one group, exactly one barrier | no live activation of a terminal thread; group counters agree with members; one wake per barrier |
| Plan executions and action groups (`plan_execution.rs`, `memory/postgres/{plan_execution,action_group}.rs`) | a row per suspended S-expression program with its machine, claim and lease; groups of parallel branches with member results | ensure, claim, suspend on a Job, an evaluation, branches or a child program, Host effect with receipt, resume, finish, cancel, member result | a slow worker beside its successor, a crash between suspension and the creation of children, children that end before or after a cancellation | a program is given its children's own outcomes, starts nothing ahead of a durable suspension, never goes back, and ends |
| Objectives (`objective.rs`, `memory/postgres/objective*`) | objective lifecycle, wait condition, evaluation lease | wake, begin / finish evaluation, wait, complete, cancel | lease takeover, stale evaluation | one evaluation at a time; a revoked evaluation has no effect |
| Timers and schedules (`timer.rs`, `memory/postgres/schedule.rs`, `tool.rs`) | a Schedule row with revision, a timer row with generation and claim lease | create, pause, resume, reschedule, cancel, dependency wake, dispatch, retry, recover | two rows written in two transactions, claims that outlive their lease | a one-shot fires once and never early; a due Schedule fires |
| Edge nodes (`edge_node.rs`, `memory/postgres/edge.rs`) | command rows with claim, lease and boundary; node registration | create, claim, heartbeat, finish, cancel, revoke, reconcile | disconnects at the boundary, cancellation through the Job, late answers | a command acts at most once, never after a definite verdict, and ends |
| Delivery and outbox (`memory/postgres/delivery.rs`, `terminal.rs`) | pending deliveries, outbox events | claim, deliver, ack, flush | crash between send and ack | at-least-once, in order |
| Session IO (`session_io/*`) | file lock, fence, response streams | acquire, renew, release, append | owner change | one writer |
| Context store (`context_db.rs`, mind projections) | context head, frames, snapshots | begin, commit (CAS), fork, recall | concurrent commits | no lost update |
| Remote store (`memory/remote/*`) | one disposable replica, pending reads, an invalidation flag, an ownership flag | execute (read, write), restore, park, renew | cancellation at any await, late requests, reads validated outside the mutex, another owner | the store is linearizable; an ambiguous park fences the process |
| Provider streaming, tools, identity, secrets, harness, dashboard, applications | - | - | I/O and protocol translation | outside the model |

Components interact through the store only: a finished Job appends an Event and a
Signal to its Thread in the same transaction, a claimed Signal becomes an
Activation, an Activation's outcome closes its Thread, changes its Group's
counters and may satisfy another Thread's dependency, which appends a Signal
again.

## Modules

| Module | What it is |
|---|---|
| `ExecutionJob` | one physical tool execution: Job row, approval, workers, reconciler |
| `MCExecutionJob`, `ExecutionJob*.cfg` | its instances for TLC |
| `ExecutionJobProofs`, `ExecutionJobResultProofs` | its theorems: starts and the boundary; results, grants, the refinement |
| `ThreadActivation` | one Thread: mailbox, Activations, evaluation tasks, lease recovery, control |
| `MCThreadActivation`, `ThreadActivation*.cfg` | its instances for TLC |
| `ThreadActivationProofs` | its theorems |
| `PhysicalCall` | abstract: what a caller may assume of a physical tool call |
| `PlanExecution`, `MCPlanExecution`, `PlanExecution.cfg` | the programs of one Activation, their workers and their parallel groups |
| `PlanExecutionProofs` | its theorems |
| `EdgeCommand`, `MCEdgeCommand`, `EdgeCommand.cfg` | the command queue of one Edge Node |
| `EdgeCommandProofs` | its theorems |
| `Schedule`, `MCSchedule`, `Schedule*.cfg` | one Schedule, its Runtime Timer and the dispatchers |
| `ScheduleProofs` | its theorems |
| `ThreadGroup`, `MCThreadGroup`, `ThreadGroup.cfg` | one Thread Group, the transactions that end its members, its parent |
| `ThreadGroupProofs` | its theorems |
| `AtomicStore` | abstract: a linearizable store |
| `RemoteStore`, `MCRemoteStore`, `RemoteStore.cfg` | the remote Runtime store, its read barrier and its authority |
| `RemoteStoreProofs` | its theorems |

They follow one pattern. A store transaction is one atomic action where
PostgreSQL row locks and `UPDATE ... WHERE revision = ?` make it one; where a
transaction has statements that others can come between (the recount of a Thread
Group, the count before an Edge claim) it is split at them. What a process read
before a transaction is a variable of the process (`worker.seen`, `plan`,
`task.revision`, `probe`, `engine.copy`), so that any number of other
transactions can come between the read and the write. The definitions named as
mutants in `PROJECT.json` are plausible bugs; no specification uses them.

Two abstract specifications are implemented. `PhysicalCall` (submitted, acts,
settled) is what both `ExecutionJob` (`JobIsPhysicalCall`) and `EdgeCommand`
(`EdgeIsPhysicalCall`) show to their callers: the action of a call that is not
repeatable happens at most once, success is only reported of an action that
happened, a verdict is final, and nothing happens after a definite verdict. The
two differ in what is definite: an Edge Command reported `cancelled` never acts
afterwards, an Execution Job may, because of the finding `execution_job_stale_end`.
`AtomicStore` is what `RemoteStore` implements (`StoreIsAtomic`).

### ExecutionJob

State: `job` is the `execution_jobs` table (`started` = `side_effect_started_at`,
`cancel` = `cancel_requested_at`, `granted` = `approval_ref`, `author` = the claim
that wrote the result Event); `approval` the `approval_requests` table, one
request per Job; `worker` a Runtime's task for one tool call; `plan` the rows the
reconciler has listed; `effects` a history variable, the claims under which the
tool was really started; `lastToken` numbers the claim tokens.

| Actions | Code |
|---|---|
| `CreateJob`, `AdoptJob` | `ensure_job_in_tx` |
| `ClaimJob`, `ClaimWithGrant` | `claim_execution_job`, `claim_execution_job_with_grant` |
| `DeniedFinish` | a denied or withdrawn approval closes the Job |
| `FenceRevoked`, `CrossBoundary`, `StartTool`, `RenewLease`, `ToolReturns` | the claimed run in `orchestrator.rs`, `heartbeat_execution_job` |
| `ReadForFinish`, `CommitFinish`, `FinishConflict`, `FinishFails` | `finish_claimed_physical_job` and `finish_execution_job_with_event` |
| `TaskPanics`, `Crash` | `recover_failed_tool_task`; the process exits |
| `RequestCancel`, `WithdrawApproval`, `CloseUnstarted` | cancellation of one Job and of an Activation's Jobs |
| `ListAbandoned`, `Reconcile` | `reconcile_abandoned_runtime_jobs`, `restart_plan`, `requeue_execution_job` |

Abstractions: a lease is none, live or expired; an approval decision does not
test that the Job still waits, which only adds behaviours; `RenewLease` re-reads
and writes in one step, because its read is only used to build the expected
revision and a conflict just ends the heartbeat; the store is in its shared-lease
mode, where only rows with an expired lease are taken over. `WithdrawApproval` and
`CloseUnstarted` belong to the cancellation of an Activation
(`request_cancel_execution_jobs_for_activation`); a cancellation of one Job by its
id (`Runtime::request_execution_job_cancel`) is `RequestCancel` alone, so they may
or may not follow.

### ThreadActivation

State: `thread` is the `threads` row together with its `thread_outcomes` row and
its pending provider-resource dependency; `signal` the `thread_signals` rows with
their `activation_signals` link (`batch`); `act` the `thread_activations` rows;
`task` the evaluation task of each Runtime; `probe` a lease recovery that has been
decided and not yet written; `faults` counts the bounded events.

| Actions | Code |
|---|---|
| `AppendSignal`, `SatisfyDependency` | `append_direct_thread_signal_in_tx`, `satisfy_thread_resource_dependency` |
| `DispatchStale`, `DispatchLinked`, `DispatchTerminal`, `DispatchBusy`, `DispatchClaim` | the branches of `claim_thread_signal_batch_observed` |
| `AdmissionRefused`, `Start` | admission and the start of the evaluation in `claim_thread_activation` |
| `BindInput` | `bind_activation_input_signals` |
| `Suspend`, `CommitTerminal` | `commit_activation_outcome` |
| `ReturnOpen`, `ObserveRevocation`, `Interrupt` | the other ways an evaluation ends |
| `Close` | `finish_thread_activation` |
| `Renew`, `LeaseExpires`, `ProbeLease`, `Recover`, `Crash` | lease renewal, `dispatch_activation_lease`, startup recovery |
| `Pause`, `Resume`, `Cancel`, `Supersede`, `Restart` | `control_thread`, `supersede_thread`, `restart_dialogue_turn` |

Abstractions: Threads share no rows in this part, so one Thread stands for all;
every transaction here locks the Thread row, so the compare-and-set on the
Thread's own revision cannot fail in between; `thread_gate` admits one task per
Runtime; the lease Timer is claimed by one Runtime, so one recovery is in
progress at a time; `Close` retries five times and giving up is a `Crash`;
redelivery by the EventBus is that `Dispatch` may happen at any time for any
Signal; the content of messages is reduced to whether it is input, steering
(directed at the running turn) or the output of an Activation. A recovered
Activation is dispatched again by the Runtime that recovered it or from the
admission queue; both are `DispatchLinked`. `Restart` is
allowed for every failed Thread (the code asks in addition for a failure of the
Runtime itself). Left out: joining turns in the dialogue lane, questions to the
user, approvals that an Activation waits for, Objective-supervised Threads whose
outcome leaves them open.

### PlanExecution

State: `plan` is the `plan_executions` table; a program is deterministic, so its
machine is the log of the outcomes it was given and the constant `Program` says
which effect comes next. An effect is named by its program and its sequence
number in it (`Slots`, `deterministic_plan_effect_id`), and with it everything it
creates: `group` is the `action_groups` row of a `par` with its members, `child`
the Job or evaluation it handed off, `receipt` its Host effect Event, and
`Branches` the programs it spawns. `worker` is what a runner of
`execute_durable_plan` holds in memory, `owner` the Thread and Activation rows
that enrolment locks. `FamilyAssumption` is what the code makes true of the names:
children of different effects differ because their ids are derived from the
effect, the branches of a `par` have different names (the Yao analysis refuses
duplicates) and there is at least one (`parallel_group_request` asks for two).

| Actions | Code |
|---|---|
| `Ensure`, `Claim` | `PlanExecutionCoordinator::ensure`, `claim_plan_execution` |
| `HandOffCall`, `HandOffInfer`, `CreateGroup`, `SuspendOnChildren`, `CallRefused` | `drive_once` with `create_execution_job_and_suspend_plan`, `create_evaluation_and_suspend_plan`, `create_action_group`, `suspend_plan_execution` |
| `ReplayReceipt`, `RunHost`, `HostRefused`, `AppendReceipt` | `execute_host_effect`, `execute_new_host_operation`, `append_event` |
| `Finish`, `LoseFence`, `DriveError` | `finish_plan_execution`, a lost fence, `release_plan_execution_claim` |
| `ReadWaiting`, `JoinChild`, `SpawnKid`, `SpawnRefused`, `CommitMember`, `JoinWaits`, `JoinGroup`, `JoinProgram` | `resume_execution_job`, `resume_evaluation`, `materialize_parallel_children`, `materialize_program_child`, `reconcile_action_group`, `reconcile_program_child` |
| `ReadTimeout`, `CancelTimedOut` | an evaluation that does not appear for 60 seconds |
| `RecoverExpired`, `ExpireLease`, `Crash` | `recover_expired_running`, leases, processes |
| `CancelOwner`, `SupersedeOwner` | `control_thread`, `supersede_thread` |
| `Materialize`, `SettleChild` | the children, whose own life is `ExecutionJob` and `ThreadActivation` |

Abstractions: the interpreter (a pure function) is the sequence of effects; a
handler that survives a failed effect is membership in `Catches`; a claim token
is the revision it was issued with. What a program is given for a child is not
always the child's status: the answer of an evaluation that succeeded is decoded,
typed and admitted (`resume_evaluation`, `decode_infer_result_with_admission`), any
of which may turn it into an error, so `OutcomesOf` has both outcomes for it and
`RefillIsTheChildsOutcome` says that success is only ever made of success. Only
the Activation that owns a program drives it (`BeginStep`, `DriveStep`); joining,
creating lost children and giving back dead claims is also done by the periodic
scan (`JoinStep`, `ReadWaiting`, `RecoverExpired`).

### EdgeCommand

State: `cmd` is `edge_execution_commands`, `wanted` the cancel intent of each
command's Execution Job, `worker` one `poll_once` loop, `effects` a history
variable, `node` the registration. Commands in `Gated` are those whose tool
declares its boundary itself (`exec`, artifact publication).

| Actions | Code |
|---|---|
| `Create`, `CancelJob`, `RequestCancel`, `Revoke` | `EdgeNodeBackend::execute`, `request_execution_job_cancel`, `request_edge_command_cancel`, `revoke_execution_node` |
| `ClaimBegin`, `ClaimTake`, `ClaimNone` | `claim_edge_command`: expire and count, then take |
| `FirstBeat`, `GateBeat`, `Tick` | `heartbeat_edge_command` in its three uses |
| `StartTool`, `PreflightFail`, `Act` | preflight, the tool's action after `mark_physical_side_effect` |
| `FinishSucceeded`, `FinishFailed`, `FinishCancelled`, `GiveUp` | `finish_edge_command`; a conflict, an error or a crash ends `poll_once` |
| `ExpireLease`, `Reconcile` | `reconcile_edge_execution` |

The first half of a claim is visible at once, which only adds behaviours. The
revision fence of a finish is that the row still has the status the worker last
saw. Left out: output chunks, background leases, the order of claims.

### Schedule

State: `sched` is the `schedules` row, `timer` the `runtime_timers` row
`schedule:<id>`, `occ` the occurrences whose Event and Signal are committed,
`engine` the dispatcher and `caller` the control call of each Runtime, `dep` and
`owner` the Threads it depends on and wakes. Time is `due`: whether `not_before`,
or a timer's `due_at`, has been reached. `faults` counts failed dispatches, claims
that ran out under their dispatcher, and the rest, because what may be left
without a timer depends on which of them happened.

| Actions | Code |
|---|---|
| `Create`, `Pause`, `Resume`, `Reschedule`, `Cancel`; then `ArmAfter` or `CancelAfter` | the owner row in `schedule.rs`, then `reconcile_control_mutation` in `tool.rs` |
| `DependencyEnds`, `Wake`, `DependencyCancelled`, `CancelOwner`, `OwnerEnds` | `dependency_completed`, `wake_schedules_for_dependency`, `control_thread` |
| `CallFails` | `reconcile_control_mutation(..).await?` or `dependency_completed` returns an error after the owner row was committed |
| `Claim`, `Read`, `ReadEarly`, `Commit`, `ArmNext`, `Complete`, `Later`, `HandlerFails` | `dispatch_due_once`, `dispatch_timer`, `commit_scheduled_dispatch` |
| `Crash`, `RecoverTimers`, `RecoverCancel`, `RecoverQueued`, `RecoverArm` | `ThreadScheduler::recover`, before the engine starts |

`missed` is a history variable: the revisions whose call failed before it reached
the timer, a cause that `QuiescentArmed` and `DueServed` name (`Uncalled`). Left
out: `Reschedule` can also set `interval_seconds` (`schedule.rs:326`), so a Schedule
of the model never turns from one-shot to recurring. `commit_scheduled_dispatch`
tests in addition that the Schedule's Objective is active (`schedule.rs:1378-1389`);
`update_objective_state` cancels the Schedules of the Objective's generation in the
transaction that ends it (`memory/postgres.rs:8038-8055`), which is `Cancel` here, and
a Schedule that a Thread of an earlier generation creates afterwards is not
modelled.

### ThreadGroup

State: `thread`, `member`, `group` and `contract` are the rows of one group;
`target` is the group of an Objective that a promoted member moved to; `txn` and
`lock` the transactions in progress and the holder of the group row; `parent`
the waiting Thread, its generation, whether it was retried after a failure, and
the barriers it was sent. The group belongs to the parent's first generation
(`GroupGeneration`).

| Actions | Code |
|---|---|
| `Begin`, `LockAndCount`, `Commit`, `Abort` | `commit_activation_outcome` (a Thread ends by itself) and `control_thread` (it is cancelled): lock the Thread, write its member row, lock the group, recount, decide, commit |
| `Promote`, `CommitPromoted` | `promote_attached_thread`; the end of a promoted member |
| `ParentCompletes`, `ParentStops` | the parent's own outcome; completion is refused while a group of its generation is open |
| `ParentSuperseded`, `ParentRetried` | `supersede_thread` and `restart_dialogue_turn` of the parent, which look at no group |

`Evaluate` is `evaluate_thread_group_contract` with its saturating arithmetic.
The two paths differ and both are modelled: `control_thread` writes the counters
of a closed group, `commit_activation_outcome` leaves them alone. `RequiredCheck` is
the `CHECK(required_count > 0)` of the PostgreSQL table, which refuses to promote
the last required member; the SQLite table has no such check. How the group of the
Objective that took a promoted member decides is left open (`CommitPromoted`).

### RemoteStore

State: `slot`, `mutex`, `pending`, `invalidated` and `lost` are the fields of
`RemoteRuntimeStore` and `ReadBarrier`; `op` is the program counter of each
future with the replica it holds; `wire` the requests that have not arrived;
`auth` the authority, which is external and modelled from the transport traits.
The contents of a replica are the set of writes it holds.

| Actions | Code |
|---|---|
| `Call`, `Acquire`, `Check`, `Reset`, `Take` | the start of `execute` and `try_park`, `restore` |
| `Enable`, `Test`, `Sleep`, `Wake` | the loop of `ReadBarrier::wait` |
| `ComputeRead`, `ServeHead`, `FinishRead` | `begin`, the head call, `validated` and the drop |
| `ComputeWrite`, `SendCommit`, `ServeCommit`, `FinishWrite` | the compare-and-swap commit |
| `ParkNotIdle`, `ParkDeclined`, `SendPark`, `ServePark`, `FinishPark` | `try_park` and `ParkDecision` |
| `Fails` | an error, a timeout or a dropped future at any await |
| `LoseOwnership`, `TakeOver`, `ForeignWrite` | the lease; another owner |

Restoring is one step: `restore` compares the head again after the last page and
fails if it moved.

## Runs

| Run | Bounds | What it shows |
|---|---|---|
| `execution_job` | 1 Job, 2 workers, 2 claims, renewals up to revision 7 | at-most-once start, results only by the owner, one use of a grant, a Job is not taken from a worker whose lease lives, cancellation before the boundary, the refinement of `PhysicalCall`; a running Job is always ended or requeued, and ended if it was cancelled (420 000 states) |
| `execution_job_requeue_rule` | 2 claims | violated: see Findings |
| `execution_job_stale_end` | 2 claims | violated: see Findings |
| `thread` | 2 Runtimes, batch limit 1, 2 generations; 2 Signals with 2 faults, or 3 Signals without one | single flight, outcomes owned by the current generation and final in it, no stranded claim, no steering lost to a completion, and every Signal is served with the exceptions `PendingSettles` names (661 000 states) |
| `thread_batch_overflow` | smallest that reaches the case | violated: see Findings |
| `thread_lost_lease_close` | smallest that reaches the case | violated: see Findings |
| `plan_execution` | 2 workers, a root, a child program and two branches with every kind of effect, 1 fault | outcomes are the children's own, nothing starts ahead of a suspension, joins are barriers, one settled Event, final cancellation, no step back, and no program is stranded between its owner's turns (306 000 states) |
| `edge_command` | 2 workers, 2 commands (one gated), window of 1, 1 fault | the refinement of `PhysicalCall`, no action after an early cancellation, every command ends (121 000 states) |
| `schedule` | 2 Runtimes, 3 revisions, 1 fault, one-shot and recurring, with and without a dependency | fires once, never early, stays armed and is served, with the exceptions the properties name (1.39 million states) |
| `schedule_lost_timer` | the same | violated: see Findings |
| `thread_group` | 3 members, 2 sets of required ones, 16 contracts, 3 generations of the parent | the verdict is not lost in a race, stands on the committed rows, is delivered once, and promotion neither loses nor doubles a wait (4.2 million states) |
| `remote_store` | 3 operations in every mix of kinds, 1 foreign write, 2 pending reads | the refinement of `AtomicStore`, no read is passed, only acknowledged state is cached, an ambiguous park fences, every call returns (158 000 states) |

Why the bounds are enough to be interesting. Jobs do not interact in
`ExecutionJob`; two workers with two claims give a stale worker, a current one
and a reconciler that read at different times. In `ThreadActivation` two Signals
with a limit of one overflow a batch, and `BindInput` still gives an Activation
both; two generations give a task of the old generation beside the new one; two
faults give a crash, a lost lease, a renewal or a refused admission at any two
points. The third Signal reopens a failed Thread over a Signal it left pending;
`FaultySignals` keeps those longer histories free of faults. In `PlanExecution` the two branches of a
`par` and their parent give three rows that two workers race on, and one fault
lets one of the workers be stale at any point. Two Edge workers with a window of
one make both the second claim and the soft bound happen. A Schedule needs three
revisions for a pause, a resume and the late half of the pause. Three members
make a contract with an early verdict and a late member, and the contracts include
those that are decided before any member ends; three generations let the parent
be superseded and then retried, or retried twice. Three operations are
two reads that overlap and a write or park that waits, or a write that was
cancelled, its late request and a read that meets it. The theorems remove the bounds for the
properties they state. `CHECK_DEADLOCK FALSE` is set because the system may stop:
a terminal Job or Thread has nothing left to do once the bounded events are used.
Symmetry of the Runtimes is used in `thread_lost_lease_close` only, whose property
is a safety property that treats them alike.

Fairness. `ExecutionJob`: a worker task that is alive takes its next step, the
reconciler polls and time passes. Crashes, cancel requests, the rest of a
cancellation, decisions and replays of the Activation are not assumed.
`ThreadActivation`: `Reconcile` is a polling loop (`start_pending_signal_reconciler`);
an evaluation ends (model and tool calls have timeouts) and closes; an abandoned
lease runs out and its Timer is served. Nothing is assumed of the admission queue:
`start_activation_admission_refill` wakes on notifications of its own process and
at start-up, and "never polls" by its own comment, so an Activation that was
refused or whose Runtime went away may stay queued, and `PendingSettles` excepts
exactly the behaviours in which one does for ever. `PlanExecution`: a worker that
has claimed a program goes on, the periodic scan (`reconcile_durable_plans`)
recovers dead claims and serves waiting programs, and deserted leases run out.
That a queued program is claimed is not assumed, since only the Activation that
owns it does that; `NoProgramIsStranded` therefore speaks of what the scan owes.
Children need not end; crashes, timeouts and store errors are bounded by
`MaxFaults`. `EdgeCommand`: a worker polls
for ever with bounded back-off (`run_until_shutdown`), its tool ends, deserted
leases run out and the Runtime reconciles every interval. `Schedule`: Runtimes
finish the calls they began or fail in them (`CallFails`, bounded by `MaxFaults`),
poll their timers and restart after a crash; that the time of a Schedule comes is
not assumed, nor that a failed call is tried again. `RemoteStore`: a task that can go on
does and a remote call returns, with whatever result; nothing is assumed of the
authority. Fairness of `Acquire` stands for the FIFO mutex of the code.

## Proofs

Every safety invariant, every action property and every refinement that a passing
run checks is also a theorem, for every set of Jobs, workers, commands, programs,
members, operations and Runtimes and for every value of the bounds. The theorems
use only the named assumptions on the constants, which TLC evaluates on the runs'
instances. Each inductive invariant below was first checked by TLC on the
instance of its run, those of `EdgeCommand` and `Schedule` with two faults also.

*ExecutionJob.* `AtMostOnceEffect` is not inductive: it must be known that a
worker past the boundary still owns the row. `IInv` adds that such a worker's
token is the row's (`BoundaryOwned`), that every physical start happened under it
(`EffectOwned`), that a started row that is not idempotent can never be claimed
again (`StartedHeld`), and that a claimed worker's copy is not ahead of the row
and equal to it only if no cancel request came since (`ClaimFenced`). The last
one is why a heartbeat that ignores `cancel_requested_at` is nevertheless safe
(`CancelFencesBoundary`). Each action is shown to move a row in one of a few ways
(`RowMoves`, `StepShape`), and a step of that shape preserves `IInv`.

*ThreadActivation.* `update_thread_activation` compares the revision and the
generation, but neither the status nor the claimant. So `SingleFlight` needs to
know that what a Runtime read is stale in the right way: `TaskFenced` and
`ProbeFenced` say the revision it read is not ahead of the row, and that a row
still at that revision is still live. With `MailboxFenced` (no Signal is ahead of
the Thread, a claimed one has its link), `OutcomeOwned` and `ClaimedIsHeld` this
is inductive. Every step is quiet, claims, commits or fences (`StepShape`).
`SteeringNotLost` has a second invariant, `SteeringKept`: an open Thread has no
acknowledged steering that reached nobody, and a completed one has none pending.

*ExecutionJob, results and grants.* `RInv` is inductive together with `IInv`. A
token is handed out once (`TokensBounded`, `TokensUnique`), so "the row has my
token" means "nobody claimed since". `ClaimsBacked` says that before its tool
starts a worker finds the row as it left it, or cancelled, ended or claimed by
another: this is what keeps a worker that never started its tool from publishing a
result, and gives `ResultByOwner`. `PlanFenced` says that a row still at the
revision the reconciler listed still has an expired lease, so a worker that renewed
its lease since keeps its Job (`LiveLeaseKeepsJob`). `GrantHeld` and `GrantOnce` tie the
consumed grant to one claim. Under the mapping to `PhysicalCall` an `effects` set
becomes a count, which needs `EffectsFinite`.

*PlanExecution.* The claim fence alone is not inductive, because a driver keeps
executing Host effects without writing the row. `DriverOK` is the exact relation
between a driver's memory and its row: its log is a prefix of the row's, or it
holds the claim and its log continues the row's by outcomes of Host effects only.
`JoinerOK` is the same for a worker that joins: the row was suspended on the effect
it joins and the log it read is a prefix. `GroupsOK` (a group counts its members
and a member's result is how its branch ended), `Refills` (an outcome in a log is
one that its child, its branches or its child program allow), `ChildrenOK` and
`KidsOK` (children exist for effects that were reached) complete it. Each action is
shown to be a `Step`, which says how rows, groups, children and workers may move
(`Advances`, `Fills`, `Spawns`, `GroupSteps`, ...); `Preserved`
then shows once that a `Step` keeps the invariant.

*EdgeCommand.* Neither the status nor the boundary of a row alone excludes a second
action: the gate lets a cancelled command act without recording its boundary.
`CrossedHolds` says why this is harmless: a worker that nothing but its own steps
separates from its action has a row that can not be served again, because its
boundary is stored or because a cancellation or a loss took it out of the queue.
`ActedCounts` and `ActedHolds` carry this over to the worker that has acted.
`CancelledBeforeClaimNeverActs` follows from a stable predicate, `Doomed`: the Job
is cancelled and no worker of the command can pass its next heartbeat.

*Schedule.* `QuiescentArmed` speaks of states in which nobody is doing anything, so
its invariant must say who is going to arm the timer while someone is: for a timer
of an older revision, `StaleIsArmed` names a caller, a dispatcher or a recovery
that will arm the current one, the call that failed to (`missed`), or the fault
that lost it; `FiredForCause` says the
current revision's timer is completed without a dispatch only for a cause the
property names. `OneClaim` says that a generation is in one dispatcher's hands
as long as no claim ran out. `EnginesOK` relates a dispatcher's copy to the row and gives
`OneShotOnce` and `NeverEarly` without any bound on faults.

*ThreadGroup.* The group row is locked before the members are counted. `CountHeld`
says that what was counted under the lock is what the commit will make true;
`Ending` and `PendingRow` that a Thread whose end is under way stays open and in
its group. `FirstGeneration` says that a parent that was never superseded or
retried still has the group's generation, which is what `NoOpenGroup` compares and
what makes both exceptions of `OneBarrier` and `CompletedParentWaited` exact. With
`RequiredCounted` the arithmetic of the contract then gives the
verdict from the rows, for any contract and any number of members.

*RemoteStore.* `BarrierHolds` and `MutexHeld` say which futures can be between which
awaits at once; `CopiesOK` what a replica in a future's hands is (acknowledged at
its revision or an older one, or that plus the future's own write); `WireOwned` and
`OneRequest` that a request on the wire is exactly what its operation sent, or
belongs to one that failed (`ReadsAreNotPassed` needs this for what may still be on
the wire under a read); `ParkOwned` that a park that failed has fenced the
process. A write takes effect, in `AtomicStore`, when the authority serves its
request, even if its future was dropped long before.

| Theorem | Statement |
|---|---|
| `ExecutionJobProofs!TypeCorrect`, `AtMostOnce`, `CancelFencesBoundary`, `TerminalStays` | `TypeOK`, `AtMostOnceEffect`, `CancelBeforeBoundary`, `TerminalIrreversible` |
| `ThreadActivationProofs!TypeCorrect`, `OneActivation`, `OutcomeCurrent`, `NoStrandedInput`, `OutcomeStands`, `SteeringNotLost` | `TypeOK`, `SingleFlight`, `OutcomeOwned`, `ClaimedIsHeld`, `FirstOutcomeStands`, `SteeringSurvivesCompletion` |
| `ExecutionJobResultProofs!ResultsByOwner`, `GrantsUsedOnce`, `LeasesHonoured`, `JobsArePhysicalCalls` | `ResultByOwner`, `GrantUsedOnce`, `LiveLeaseKeepsJob`, `JobIsPhysicalCall` |
| `PlanExecutionProofs!TypeCorrect`, `RefillsAreOutcomes`, `NothingIsAhead`, `JoinsAreBarriers`, `GroupsSettleOnce`, `CancellationStays`, `MachinesOnlyAdvance` | `TypeOK`, `RefillIsTheChildsOutcome`, `NothingRunsAhead`, `JoinIsABarrier`, `GroupSettlesOnce`, `CancellationIsFinal`, `MachineOnlyAdvances` |
| `EdgeCommandProofs!TypeCorrect`, `CancelledNeverActs`, `CommandsArePhysicalCalls` | `TypeOK`, `CancelledBeforeClaimNeverActs`, `EdgeIsPhysicalCall` |
| `ScheduleProofs!TypeCorrect`, `OneShotWakesOnce`, `RestIsArmed`, `NeverTakenEarly` | `TypeOK`, `OneShotOnce`, `QuiescentArmed`, `NeverEarly` |
| `ThreadGroupProofs!TypeCorrect`, `VerdictNotLost`, `VerdictStands`, `BarrierOnce`, `ParentWaits`, `PromotionEnds` | `TypeOK`, `NoLostVerdict`, `VerdictStandsOnRows`, `OneBarrier`, `CompletedParentWaited`, `PromotedWaitEnds` |
| `RemoteStoreProofs!TypeCorrect`, `ReadsNotPassed`, `ParkFences`, `CacheAcknowledged`, `StoreAtomic` | `TypeOK`, `ReadsAreNotPassed`, `ParkedIsFenced`, `CacheIsAcknowledged`, `StoreIsAtomic` |

`TerminalStays` goes beyond `JobIsPhysicalCall`, which the run checks: not only the
verdict, the whole terminal row is frozen.

Only model-checked: the liveness properties (`RunningSettles`, `CancelSettles`,
`PendingSettles`, `NoProgramIsStranded`, `CommandEnds`, `DueServed`, `OperationsEnd`). They
rest on fairness and `ENABLED`, which the prover does not handle. `PhysicalCall` and `AtomicStore` are safety specifications, so the
refinement theorems claim nothing about termination.

## Findings

Five runs end in a violation; `PROJECT.json` quotes the statements they contradict.

1. `execution_job_stale_end`: `lost` is accepted from any caller while a row is
   running, so the recovery of a failed tool task can end the Job another claim
   is running.
2. `execution_job_requeue_rule`: an abandoned Job is requeued if it has no boundary
   *or* is idempotent, where the comment and the document ask for both.
   `AtMostOnceEffect` shows that the wider rule is safe all the same.
3. `thread_lost_lease_close`: `finish_thread_activation` does not compare the
   claimant, so a Runtime that lost its lease ends the Activation its successor
   is evaluating and acknowledges its input.
4. `thread_batch_overflow`: a Signal beyond the batch limit whose own dispatch
   created the Activation finds its Activation id taken for ever. The mailbox
   stands still behind it until a new Signal is dispatched.
5. `schedule_lost_timer`: the timer half of a pause, when it comes late, cancels
   the timer that a resume has armed meanwhile, because `cancel_runtime_timer`
   does not name a generation. The Schedule stays queued and nothing fires it
   until a process restarts.

### Observations

What the models also showed, with TLC counterexamples of the formula given, and
which has no run of its own. Paths are under `src/`.

* A Job that is cancelled while nobody runs it need not end:
  `job[j].cancel ~> IsTerminal(job[j])` fails. A cancellation by the Job's id writes
  the intent only (`runtime.rs:5741-5788`), a queued row with an intent is not
  claimable, and the reconciler keeps it (`execution.rs:354`). An idempotent Job that
  was requeued past its boundary cannot be closed even by the cancellation of its
  Activation. `CancelSettles` speaks of running Jobs.
  `docs/morphz_scheduler_kernel_and_domain_model_v1.md:1372` says cancellation,
  completion and recovery converge.
* After a restart the next batch of a Thread can contain Signals of the failed
  generation (`signal[s].batch # None => act[signal[s].batch].generation =
  signal[s].generation` fails; `activation.rs:1356`), against
  `docs/morphz_scheduler_kernel_stabilization_v2.md:422`.
* The running Activation of a paused Thread goes on taking new Signals
  (`activation.rs:2013`), against line 401 of the same document.
* An Activation left in the admission queue by a Runtime that went away is offered
  again only by a notification in, or the start of, some Runtime
  (`orchestrator.rs:5834-5866`); `PendingSettles` without its last disjunct fails.
* A queued program whose `drive_once` returned an error (`orchestrator.rs:19659`) has
  no driver until its Activation is replayed, and the error of one row ends the
  whole cycle of `reconcile_durable_plans`. `NoProgramIsStranded` claims nothing of a
  queued program.
* The receipt of a Host effect is appended without the claim fence. A worker that
  lost its claim can store its receipt first; the current owner's append of a
  differing Event then fails and the program is given an error although a result
  is stored (`plan_execution.rs:644-766`, `memory/postgres.rs:5280-5362`).
* `supersede_thread` (`memory/postgres/thread.rs:1963-2050`) cancels Activations,
  Signals, Schedules and dependencies of the old generation and leaves its
  programs and groups live, so they can start new children; `memory/mod.rs:4156`
  describes the old generation as fenced. `CancellationIsFinal` therefore speaks of
  cancellation only, and `NoProgramIsStranded` excepts a superseded owner.
* At the gate of an Edge tool the answer `cancel_requested` is not looked at
  (`edge_node.rs:1573-1580`): the tool acts although its boundary was not
  recorded on the row. `EdgeIsPhysicalCall` shows that it is still not run twice.
  A command created after its Node was revoked stays queued for ever, and
  `max_in_flight` can be passed by the number of workers (`edge.rs:715`).
* A dependency Thread that is cancelled by control does not wake the Schedules
  that wait for it until a restart replays it (`orchestrator.rs:23742-23800`),
  against `docs/morphz_scheduler_kernel_and_domain_model_v1.md:1340`;
  `QuiescentArmed` names the case.
* A control call or a dependency wake that commits the Schedule row and then fails
  (`tool.rs:3277-3336`, `orchestrator.rs:18244-18256`, which logs it) leaves a queued
  Schedule without a timer until a restart; `QuiescentArmed` names the case
  (`Uncalled`).
* A dispatcher that outlives its claim lease and whose timer another Runtime
  claims under the same generation can complete the timer for both: the other
  commits a recurring occurrence and fails before it arms the next one, the first
  finds its fence lost and answers `Complete` (`tool.rs:3643`). The Schedule is
  queued without a timer until a restart. It takes two faults, so the run with one
  does not show it; the proof of `QuiescentArmed` did, and the property names the
  case (`Overtaken`).
* A contract that is decided before any member ends (no success needed, or more
  than there are members) is accepted, and its group stays open until a member
  ends or is promoted: `commit_schedule_transaction` does not evaluate it.
  `NoLostVerdict` names the case (`Untouched`). The promotion of the last required
  member is stopped by the table's `CHECK` only (`RequiredCheck`).
* `restart_dialogue_turn` reopens a failed parent without looking at its groups
  (`activation.rs:4142-4276`): one that closed while the parent was failed sent it no
  Signal and never will. The completion test compares the generation
  (`activation.rs:3135`), so a superseded or retried parent completes over its old,
  open group, and `supersede_thread` acknowledges a barrier Signal of the old
  generation that was still pending (`thread.rs:2000-2010`). `OneBarrier` and
  `CompletedParentWaited` name both.
* `read_barrier.rs:2` says that no write may pass the reads that were handed off.
  It holds of operations, not of requests: the commit of a write that was cancelled
  after it was sent can reach the authority while a later read is validated. The
  read then finds another head and fails, and its replica is dropped.
* The supervision audit (`scheduler/domain.rs:599-622`) quarantines a group whose
  counters differ from its member rows or that is closed with a required member
  pending. Both are ordinary states: an `all` group fails with its first member,
  and `commit_activation_outcome` does not touch the counters of a closed group.

A smaller divergence has no run: `commit_activation_outcome` does not compare the
lease although `stabilization_v2` section 11.1 asks for it, which
`FirstOutcomeStands` shows never gives a Thread two outcomes.

## Plan

1. A `Turn` (asked, answered once per generation) that `ThreadActivation`
   implements, and a `Barrier` that `ThreadGroup` implements.
2. `ObjectiveEvaluation` (evaluation leases, waits, generations of supervised
   Threads), `DialogueLane` and `ContextStore` (base revisions, node conflicts,
   receipts).

## Not modelled

Provider protocols, prompt and context assembly, the S-expression interpreter,
sandboxing, identity, secrets, packaging, the Yao compiler, user interfaces and
SDKs: input, output and sequential computation without a concurrent state machine
of their own. The SQLite store implements the same traits under one writer lock
and allows no order of transactions that PostgreSQL does not. `PROJECT.json`
lists every part with its reason.
