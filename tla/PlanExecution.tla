--------------------------- MODULE PlanExecution ---------------------------
(***************************************************************************)
(* Plan Executions: S-expression programs that are suspended at every       *)
(* effect, stored as a row, and continued by whichever worker claims the    *)
(* row next (memory/postgres/plan_execution.rs, plan_execution.rs, the       *)
(* driver loop execute_durable_plan of the orchestrator and its background   *)
(* reconciler reconcile_durable_plans), with the Action Group that joins the *)
(* branches of a `par' (memory/postgres/action_group.rs).                    *)
(*                                                                          *)
(* The program itself is deterministic, so its machine state is the log of   *)
(* the outcomes it has been given: the next effect is a function of it.      *)
(* A worker's machine lives in memory (worker[w].log) and becomes durable     *)
(* (plan[p].log) only by a fenced write.                                     *)
(***************************************************************************)
EXTENDS Naturals, Sequences, FiniteSets

CONSTANTS Workers,      \* each takes turns of a driver and of a reconciler
          Plans,        \* the programs of one Activation: a root, its children
          Root,
          Program,      \* Program[p]: the effects of p, in order
          Branches,     \* Branches[<<p, i>>]: the child programs of effect i of p
          Catches,      \* programs whose handlers survive a failed effect
          MaxSteps,     \* bound on the length of a program
          MaxFaults     \* bound on crashes, early lease losses and store errors

Effects == {"call", "infer", "par", "program", "host"}

ASSUME PlansAssumption == Root \in Plans /\ Catches \subseteq Plans
ASSUME BoundsAssumption == MaxSteps \in Nat /\ MaxFaults \in Nat

\* An effect is named by its program and its sequence number in it
\* (deterministic_plan_effect_id), and so are its Action Group and its children.
Steps == 1..MaxSteps
Slots == Plans \X Steps
Kids(e) == { Branches[e][j] : j \in DOMAIN Branches[e] }

ASSUME ProgramAssumption ==
    /\ Program \in [Plans -> Seq(Effects)]
    /\ Branches \in [Slots -> Seq(Plans)]
    /\ \A p \in Plans : Len(Program[p]) <= MaxSteps

\* A child is named by its parent's effect and its branch name, and the names of
\* a par are distinct.  A par has branches (parallel_group_request wants two)
\* and a program effect has one child.
ASSUME FamilyAssumption ==
    /\ \A e \in Slots : /\ Root \notin Kids(e)
                        /\ \A j, k \in DOMAIN Branches[e] :
                              Branches[e][j] = Branches[e][k] => j = k
    /\ \A e, f \in Slots : e # f => Kids(e) \cap Kids(f) = {}
    /\ \A p \in Plans : \A i \in DOMAIN Program[p] :
          /\ Program[p][i] = "par" => Len(Branches[<<p, i>>]) > 0
          /\ Program[p][i] = "program" => Len(Branches[<<p, i>>]) = 1

VARIABLES
    owner,      \* the owner Thread and Activation, as enrolment reads them
    plan,       \* plan_executions rows
    group,      \* the Action Group of each par effect
    child,      \* Execution Jobs and Evaluations the programs handed off
    receipt,    \* Host effect Events: 0, or the claim that stamped them
    worker,     \* what each runner holds in memory
    faults

vars == <<owner, plan, group, child, receipt, worker, faults>>

Outcomes == {"ok", "err"}
Terminal == {"succeeded", "failed", "cancelled"}
Live == {"queued", "running", "waiting"}

PlanRow == [status : {"absent"} \cup Live \cup Terminal, rev : Nat,
            token : Nat, leased : BOOLEAN, log : Seq(Outcomes)]
GroupRow == [status : {"absent", "running", "settled", "cancelled"},
             member : [Plans -> {"pending"} \cup Terminal],
             count : Nat, settledEvents : Nat]
ChildStatus == {"absent", "requested", "open"} \cup Terminal
WorkerRow == [pc : {"idle", "drive", "suspend", "host", "join", "timeout"},
              plan : Plans, rev : Nat, log : Seq(Outcomes), at : Nat]

TypeOK ==
    /\ owner \in {"live", "cancelled", "superseded"}
    /\ plan \in [Plans -> PlanRow]
    /\ group \in [Slots -> GroupRow]
    /\ child \in [Slots -> ChildStatus]
    /\ receipt \in [Slots -> Nat]
    /\ worker \in [Workers -> WorkerRow]
    /\ faults \in 0..MaxFaults

AbsentPlan == [status |-> "absent", rev |-> 0, token |-> 0, leased |-> FALSE,
               log |-> << >>]
NewPlan == [AbsentPlan EXCEPT !.status = "queued", !.rev = 1]
AbsentGroup == [status |-> "absent", member |-> [c \in Plans |-> "pending"],
                count |-> 0, settledEvents |-> 0]
Idle == [pc |-> "idle", plan |-> Root, rev |-> 0, log |-> << >>, at |-> 0]

Init ==
    /\ owner = "live"
    /\ plan = [p \in Plans |-> AbsentPlan]
    /\ group = [e \in Slots |-> AbsentGroup]
    /\ child = [e \in Slots |-> "absent"]
    /\ receipt = [e \in Slots |-> 0]
    /\ worker = [w \in Workers |-> Idle]
    /\ faults = 0

-----------------------------------------------------------------------------
(* The machine: advance and resume_effect. *)

\* A failed effect ends the program unless a handler catches it.
Dead(p, log) == log # << >> /\ log[Len(log)] = "err" /\ p \notin Catches

NextEffect(p, log) ==
    IF Dead(p, log) THEN "failed"
    ELSE IF Len(log) < Len(Program[p]) THEN Program[p][Len(log) + 1]
    ELSE "complete"

PendingEffect(p) == NextEffect(p, plan[p].log)

\* The effect the row waits for, or the worker's machine stands at.
Here(p) == <<p, Len(plan[p].log) + 1>>
At(w) == <<worker[w].plan, Len(worker[w].log) + 1>>

\* Mutant: a cancelled child is refilled as a success.
OutcomeUnlessFailed(status) == IF status = "failed" THEN "err" ELSE "ok"

\* normalize_job_outcome and the durable outcomes: anything but success
\* reaches the machine as a failed effect.
OutcomeOf(status) == IF status = "succeeded" THEN "ok" ELSE "err"

\* decode_infer_result_with_admission: the text a model ended with is decoded,
\* typed and, for a Program, admitted, and each of these can reject it; an
\* answer that is rejected is a failed effect although its child succeeded.
DecodedOutcomes(status) ==
    IF OutcomeOf(status) = "ok" THEN {"ok", "err"} ELSE {"err"}

\* What the machine may be given for an effect whose child ended so.
OutcomesOf(effect, status) ==
    IF effect = "infer" THEN DecodedOutcomes(status) ELSE {OutcomeOf(status)}

\* Mutant: one successful branch is enough.
JoinAny(e) ==
    IF \E c \in Kids(e) : plan[c].status = "succeeded" THEN "ok" ELSE "err"

\* par returns the record of its branches' values, or one error.
JoinOutcome(e) ==
    IF \A c \in Kids(e) : plan[c].status = "succeeded" THEN "ok" ELSE "err"

Effect(w) == NextEffect(worker[w].plan, worker[w].log)

Release(w) == worker' = [worker EXCEPT ![w] = Idle]

Learn(w, outcome) ==
    worker' = [worker EXCEPT ![w].log = Append(@, outcome), ![w].pc = "drive"]

-----------------------------------------------------------------------------
(* Enrolment: create_plan_execution and create_action_group take the row    *)
(* lock that cancellation takes and insert only under a live owner.          *)

\* Mutant: enrolment without the live owner test.
EnrolsAlways == TRUE

Enrols == owner = "live"

\* PlanExecutionCoordinator::ensure of the program a model turn submits.
Ensure ==
    /\ plan[Root].status = "absent"
    /\ Enrols
    /\ plan' = [plan EXCEPT ![Root] = NewPlan]
    /\ UNCHANGED <<owner, group, child, receipt, worker, faults>>

-----------------------------------------------------------------------------
(* Reading a row and claiming it. *)

Claimable(p) ==
    \/ plan[p].status = "queued"
    \/ plan[p].status = "running" /\ ~plan[p].leased

\* Mutant: a child that was never created is not looked for again.
ReadyWithoutAbsent(p) ==
    /\ plan[p].status = "waiting"
    /\ \/ /\ PendingEffect(p) \in {"call", "infer"}
          /\ child[Here(p)] \in Terminal
       \/ /\ PendingEffect(p) \in {"par", "program"}
          /\ \A c \in Kids(Here(p)) : plan[c].status \in Terminal

\* A waiting row is worth a visit when what it waits for has moved.
Ready(p) ==
    /\ plan[p].status = "waiting"
    /\ \/ /\ PendingEffect(p) \in {"call", "infer"}
          /\ child[Here(p)] \in Terminal
       \/ /\ PendingEffect(p) \in {"par", "program"}
          /\ \/ \E c \in Kids(Here(p)) : plan[c].status = "absent"
             \/ \A c \in Kids(Here(p)) : plan[c].status \in Terminal

\* get_plan_execution: the worker joins on this revision of the row.
ReadWaiting(w, p) ==
    /\ worker[w].pc = "idle" /\ Ready(p)
    /\ worker' = [worker EXCEPT ![w] = [pc |-> "join", plan |-> p, at |-> 0,
                      rev |-> plan[p].rev, log |-> plan[p].log]]
    /\ UNCHANGED <<owner, plan, group, child, receipt, faults>>

\* An infer whose child Activation has not appeared for 60 seconds, in the
\* driver's loop.
ReadTimeout(w, p) ==
    /\ plan[p].status = "waiting" /\ PendingEffect(p) = "infer"
    /\ child[Here(p)] = "requested"
    /\ faults < MaxFaults
    /\ worker[w].pc = "idle"
    /\ worker' = [worker EXCEPT ![w] = [pc |-> "timeout", plan |-> p, at |-> 0,
                      rev |-> plan[p].rev, log |-> plan[p].log]]
    /\ faults' = faults + 1
    /\ UNCHANGED <<owner, plan, group, child, receipt>>

\* claim_plan_execution is a compare-and-swap on the revision just read: it
\* takes a row that has not moved since, or has no effect.  The token is
\* fresh, here the revision it was issued with.  Only a driver claims,
\* never the reconciler: execute_durable_plan, run by the Activation that owns
\* the program, in whatever Runtime holds it now or held it before.
Claim(w, p) ==
    /\ worker[w].pc = "idle" /\ Claimable(p)
    /\ plan' = [plan EXCEPT ![p].status = "running", ![p].rev = @ + 1,
                    ![p].leased = TRUE, ![p].token = plan[p].rev + 1]
    /\ worker' = [worker EXCEPT ![w] = [pc |-> "drive", plan |-> p, at |-> 0,
                      rev |-> plan[p].rev + 1, log |-> plan[p].log]]
    /\ UNCHANGED <<owner, group, child, receipt, faults>>

-----------------------------------------------------------------------------
(* drive_once, after the claim. *)

\* Mutant: a write that checks neither the revision nor the token.
Unfenced(w) == plan[worker[w].plan].status \in Live

\* Every write of the driver: revision = r AND running AND claim_token = t.
Fenced(w) ==
    /\ plan[worker[w].plan].rev = worker[w].rev
    /\ plan[worker[w].plan].status = "running"
    /\ plan[worker[w].plan].token = worker[w].rev

\* The row leaves `running': the claim is cleared with the state it writes.
Settle(row, status, log) ==
    [row EXCEPT !.status = status, !.rev = @ + 1, !.token = 0,
                !.leased = FALSE, !.log = log]

Write(w, status) ==
    plan' = [plan EXCEPT ![worker[w].plan] =
                Settle(@, status, worker[w].log)]

\* Mutant: the Job is created before the claim is checked.
HandOffUnfenced(w) ==
    /\ worker[w].pc = "drive" /\ Effect(w) = "call"
    /\ IF Fenced(w) THEN Write(w, "waiting") ELSE UNCHANGED plan
    /\ child' = [child EXCEPT ![At(w)] = IF @ = "absent" THEN "open" ELSE @]
    /\ Release(w)
    /\ UNCHANGED <<owner, group, receipt, faults>>

\* create_execution_job_and_suspend_plan: the Job row and the suspension
\* are one transaction, and an existing Job is taken over.
HandOffCall(w) ==
    /\ worker[w].pc = "drive" /\ Effect(w) = "call" /\ Fenced(w)
    /\ Write(w, "waiting")
    /\ child' = [child EXCEPT ![At(w)] = IF @ = "absent" THEN "open" ELSE @]
    /\ Release(w)
    /\ UNCHANGED <<owner, group, receipt, faults>>

\* The call cannot be planned, or its plan does not validate.
CallRefused(w) ==
    /\ worker[w].pc = "drive" /\ Effect(w) = "call" /\ Fenced(w)
    /\ Write(w, "failed")
    /\ Release(w)
    /\ UNCHANGED <<owner, group, child, receipt, faults>>

\* create_evaluation_and_suspend_plan: Event, child Thread, pending Signal
\* and suspension in one transaction.
HandOffInfer(w) ==
    /\ worker[w].pc = "drive" /\ Effect(w) = "infer" /\ Fenced(w)
    /\ Write(w, "waiting")
    /\ child' = [child EXCEPT ![At(w)] =
                    IF @ = "absent" THEN "requested" ELSE @]
    /\ Release(w)
    /\ UNCHANGED <<owner, group, receipt, faults>>

\* par, first transaction: the Action Group, under no claim fence.
CreateGroup(w) ==
    /\ worker[w].pc = "drive" /\ Effect(w) = "par"
    /\ \/ group[At(w)].status # "absent" /\ UNCHANGED group
       \/ /\ group[At(w)].status = "absent" /\ Enrols
          /\ group' = [group EXCEPT ![At(w)].status = "running"]
    /\ worker' = [worker EXCEPT ![w].pc = "suspend"]
    /\ UNCHANGED <<owner, plan, child, receipt, faults>>

\* Second transaction of par, and the only one of program; the children
\* follow, each in a transaction of its own.
SuspendOnChildren(w) ==
    /\ \/ worker[w].pc = "suspend"
       \/ worker[w].pc = "drive" /\ Effect(w) = "program"
    /\ Fenced(w)
    /\ Write(w, "waiting")
    /\ worker' = [worker EXCEPT ![w].pc = "join", ![w].rev = @ + 1]
    /\ UNCHANGED <<owner, group, child, receipt, faults>>

\* execute_host_effect: a stored Event is the outcome ...
ReplayReceipt(w) ==
    /\ worker[w].pc = "drive" /\ Effect(w) = "host"
    /\ receipt[At(w)] # 0
    /\ Learn(w, "ok")
    /\ UNCHANGED <<owner, plan, group, child, receipt, faults>>

\* ... and without one the operation runs.
RunHost(w) ==
    /\ worker[w].pc = "drive" /\ Effect(w) = "host"
    /\ receipt[At(w)] = 0
    /\ worker' = [worker EXCEPT ![w].pc = "host"]
    /\ UNCHANGED <<owner, plan, group, child, receipt, faults>>

\* An operation that is refused leaves no Event.
HostRefused(w) ==
    /\ worker[w].pc = "host"
    /\ Learn(w, "err")
    /\ UNCHANGED <<owner, plan, group, child, receipt, faults>>

\* The operation is done; its Event is stamped with the claim's updated_at and appended under no
\* claim fence; an Event with the same id and another stamp is an error,
\* and the error is the outcome the machine sees.
AppendReceipt(w) ==
    /\ worker[w].pc = "host"
    /\ IF receipt[At(w)] = 0
       THEN /\ receipt' = [receipt EXCEPT ![At(w)] = worker[w].rev]
            /\ Learn(w, "ok")
       ELSE /\ Learn(w, "err")
            /\ UNCHANGED receipt
    /\ UNCHANGED <<owner, plan, group, child, faults>>

\* finish_plan_execution.
Finish(w) ==
    /\ worker[w].pc = "drive" /\ Effect(w) \in {"complete", "failed"}
    /\ Fenced(w)
    /\ Write(w, IF Effect(w) = "complete" THEN "succeeded" ELSE "failed")
    /\ Release(w)
    /\ UNCHANGED <<owner, group, child, receipt, faults>>

\* Any write of a worker whose claim is gone fails, and so does its release.
LoseFence(w) ==
    /\ \/ worker[w].pc = "suspend"
       \/ worker[w].pc = "drive" /\ Effect(w) \notin {"par", "host"}
    /\ ~Fenced(w)
    /\ Release(w)
    /\ UNCHANGED <<owner, plan, group, child, receipt, faults>>

\* An error after the claim (the store, or create_action_group under an
\* owner that is no longer live): release_plan_execution_claim.  A program
\* left behind by a superseded generation would retry for ever: its retries
\* are bounded with the faults.
DriveError(w) ==
    /\ worker[w].pc \in {"drive", "suspend"}
    /\ \/ /\ Effect(w) = "par" /\ worker[w].pc = "drive"
          /\ group[At(w)].status = "absent" /\ ~Enrols
          /\ ~Fenced(w) /\ UNCHANGED faults
       \/ faults < MaxFaults /\ faults' = faults + 1
    /\ plan' = IF Fenced(w)
               THEN [plan EXCEPT ![worker[w].plan] =
                        Settle(@, "queued", @.log)]
               ELSE plan
    /\ Release(w)
    /\ UNCHANGED <<owner, group, child, receipt>>

-----------------------------------------------------------------------------
(* Joining: resume_execution_job, resume_evaluation, reconcile_action_group *)
(* and reconcile_program_child, from the driver loop or the reconciler.      *)

\* resume_plan_execution: revision = r AND waiting AND pending = this child.
MayResume(w) ==
    /\ plan[worker[w].plan].rev = worker[w].rev
    /\ plan[worker[w].plan].status = "waiting"

Resume(w, outcome) ==
    /\ plan' = IF MayResume(w)
               THEN [plan EXCEPT ![worker[w].plan] =
                        Settle(@, "queued", Append(worker[w].log, outcome))]
               ELSE plan
    /\ Release(w)

\* The terminal Job or Evaluation is read after the Plan row.
JoinChild(w) ==
    /\ worker[w].pc = "join" /\ Effect(w) \in {"call", "infer"}
    /\ child[At(w)] \in Terminal
    /\ \E outcome \in OutcomesOf(Effect(w), child[At(w)]) : Resume(w, outcome)
    /\ UNCHANGED <<owner, group, child, receipt, faults>>

AbsentKids(w) ==
    { j \in DOMAIN Branches[At(w)] : plan[Branches[At(w)][j]].status = "absent" }

Joins(w) == worker[w].pc = "join" /\ Effect(w) \in {"par", "program"}

\* materialize_parallel_children, materialize_program_child: one row a
\* transaction, in branch order.
SpawnKid(w) ==
    /\ Joins(w) /\ AbsentKids(w) # {} /\ Enrols
    /\ \E j \in AbsentKids(w) :
          /\ \A k \in AbsentKids(w) : j <= k
          /\ plan' = [plan EXCEPT ![Branches[At(w)][j]] = NewPlan]
    /\ UNCHANGED <<owner, group, child, receipt, worker, faults>>

SpawnRefused(w) ==
    /\ Joins(w) /\ AbsentKids(w) # {} /\ ~Enrols
    /\ Release(w)
    /\ UNCHANGED <<owner, plan, group, child, receipt, faults>>

\* The branch this worker commits next.
NextKid(w) == Branches[At(w)][worker[w].at + 1]

SettlesNow(g, n) == g.status = "running" /\ g.count + 1 = n

\* Mutant: a repeated result is counted again.
CommitRepeats(g, c, status, n) ==
    [g EXCEPT !.member[c] = status, !.count = @ + 1,
              !.status = IF SettlesNow(g, n) THEN "settled" ELSE @,
              !.settledEvents = IF SettlesNow(g, n) THEN @ + 1 ELSE @]

\* commit_action_group_member_result: the first result of a member counts,
\* in a running or a cancelled group; only a running one settles.
CommitResult(g, c, status, n) ==
    IF g.member[c] # "pending" \/ g.status \notin {"running", "cancelled"}
    THEN g
    ELSE [g EXCEPT !.member[c] = status, !.count = @ + 1,
                   !.status = IF SettlesNow(g, n) THEN "settled" ELSE @,
                   !.settledEvents = IF SettlesNow(g, n) THEN @ + 1 ELSE @]

CommitMember(w) ==
    /\ Joins(w) /\ Effect(w) = "par" /\ AbsentKids(w) = {}
    /\ worker[w].at < Len(Branches[At(w)])
    /\ plan[NextKid(w)].status \in Terminal
    /\ group' = [group EXCEPT ![At(w)] = CommitResult(@, NextKid(w),
                    plan[NextKid(w)].status, Len(Branches[At(w)]))]
    /\ worker' = [worker EXCEPT ![w].at = @ + 1]
    /\ UNCHANGED <<owner, plan, child, receipt, faults>>

\* A child that is not terminal ends the visit.
JoinWaits(w) ==
    /\ Joins(w) /\ AbsentKids(w) = {}
    /\ worker[w].at < Len(Branches[At(w)])
    /\ plan[NextKid(w)].status \notin Terminal
    /\ Release(w)
    /\ UNCHANGED <<owner, plan, group, child, receipt, faults>>

JoinMay(w) == group[At(w)].status = "settled"

JoinGroup(w) ==
    /\ Joins(w) /\ Effect(w) = "par"
    /\ worker[w].at = Len(Branches[At(w)])
    /\ IF JoinMay(w) THEN Resume(w, JoinOutcome(At(w)))
                     ELSE Release(w) /\ UNCHANGED plan
    /\ UNCHANGED <<owner, group, child, receipt, faults>>

JoinProgram(w) ==
    /\ Joins(w) /\ Effect(w) = "program" /\ AbsentKids(w) = {}
    /\ plan[NextKid(w)].status \in Terminal
    /\ Resume(w, OutcomeOf(plan[NextKid(w)].status))
    /\ UNCHANGED <<owner, group, child, receipt, faults>>

\* cancel_plan_execution: compare-and-swap on the revision, any live row.
CancelTimedOut(w) ==
    LET p == worker[w].plan IN
    /\ worker[w].pc = "timeout"
    /\ plan' = IF plan[p].rev = worker[w].rev /\ plan[p].status \in Live
               THEN [plan EXCEPT ![p] = Settle(@, "cancelled", @.log)]
               ELSE plan
    /\ Release(w)
    /\ UNCHANGED <<owner, group, child, receipt, faults>>

-----------------------------------------------------------------------------
(* The rest of the system. *)

\* recover_expired_running: the reconciler requeues under the row's fence.
RecoverExpired(p) ==
    /\ plan[p].status = "running" /\ ~plan[p].leased
    /\ plan' = [plan EXCEPT ![p] = Settle(@, "queued", @.log)]
    /\ UNCHANGED <<owner, group, child, receipt, worker, faults>>

\* The 60 second lease runs out: always for a worker that is gone, and as
\* a fault for one that is merely slow (drive_once never renews it).
HeldByWorker(p) ==
    \E w \in Workers : /\ worker[w].pc \in {"drive", "suspend", "host"}
                       /\ worker[w].plan = p /\ worker[w].rev = plan[p].token

ExpireLease(p) ==
    /\ plan[p].status = "running" /\ plan[p].leased
    /\ \/ ~HeldByWorker(p) /\ UNCHANGED faults
       \/ HeldByWorker(p) /\ faults < MaxFaults /\ faults' = faults + 1
    /\ plan' = [plan EXCEPT ![p].leased = FALSE]
    /\ UNCHANGED <<owner, group, child, receipt, worker>>

Crash(w) ==
    /\ worker[w].pc # "idle" /\ faults < MaxFaults
    /\ Release(w)
    /\ faults' = faults + 1
    /\ UNCHANGED <<owner, plan, group, child, receipt>>

\* The scheduler materialises the child Activation of an infer.
Materialize(p, i) ==
    /\ child[<<p, i>>] = "requested"
    /\ child' = [child EXCEPT ![<<p, i>>] = "open"]
    /\ UNCHANGED <<owner, plan, group, receipt, worker, faults>>

\* A Job or an Evaluation reaches its terminal status.
SettleChild(p, i, status) ==
    /\ child[<<p, i>>] = "open"
    /\ child' = [child EXCEPT ![<<p, i>>] = status]
    /\ UNCHANGED <<owner, plan, group, receipt, worker, faults>>

\* control_thread Cancel, or a cancelled or failed Activation: one
\* transaction closes every program and group of the generation.
CancelOwner ==
    /\ owner = "live"
    /\ owner' = "cancelled"
    /\ plan' = [p \in Plans |-> IF plan[p].status \in Live
                    THEN Settle(plan[p], "cancelled", plan[p].log) ELSE plan[p]]
    /\ group' = [e \in Slots |-> IF group[e].status = "running"
                    THEN [group[e] EXCEPT !.status = "cancelled"] ELSE group[e]]
    /\ UNCHANGED <<child, receipt, worker, faults>>

\* supersede_thread: the Activations of the generation are cancelled and
\* the Thread moves on; programs and groups are not touched.
SupersedeOwner ==
    /\ owner = "live"
    /\ owner' = "superseded"
    /\ UNCHANGED <<plan, group, child, receipt, worker, faults>>

-----------------------------------------------------------------------------
\* drive_once, once its row is claimed.
DriveStep(w) ==
    \/ HandOffCall(w) \/ HandOffInfer(w) \/ CreateGroup(w)
    \/ SuspendOnChildren(w)
    \/ ReplayReceipt(w) \/ RunHost(w) \/ AppendReceipt(w)
    \/ Finish(w) \/ LoseFence(w)

JoinStep(w) ==
    \/ JoinChild(w) \/ SpawnKid(w) \/ SpawnRefused(w) \/ CommitMember(w)
    \/ JoinWaits(w) \/ JoinGroup(w) \/ JoinProgram(w) \/ CancelTimedOut(w)

\* What begins a turn of the driver's loop, or a visit of the reconciler.
BeginStep(w) == \E p \in Plans : Claim(w, p) \/ ReadWaiting(w, p)

WorkerTrouble(w) ==
    \/ CallRefused(w) \/ HostRefused(w) \/ DriveError(w) \/ Crash(w)
    \/ \E p \in Plans : ReadTimeout(w, p)

External ==
    \/ \E p \in Plans, i \in Steps : Materialize(p, i)
    \/ \E p \in Plans, i \in Steps, s \in Terminal : SettleChild(p, i, s)

Next ==
    \/ Ensure
    \/ \E w \in Workers : \/ BeginStep(w) \/ DriveStep(w) \/ JoinStep(w)
                       \/ WorkerTrouble(w)
    \/ \E p \in Plans : RecoverExpired(p) \/ ExpireLease(p)
    \/ External
    \/ CancelOwner \/ SupersedeOwner

Spec == Init /\ [][Next]_vars

\* The reconcilers poll (PLAN_RECONCILE_FALLBACK_INTERVAL), the clock goes on,
\* and a turn that was begun goes to its end.  Nobody owes a queued program a
\* claim: only its live owner drives it, and an error of drive_once sends that
\* owner away.  Nor is a child owed its end, a fault, a cancellation or a
\* supersede its arrival.
Fairness ==
    /\ \A w \in Workers : WF_vars(DriveStep(w) \/ JoinStep(w))
    /\ WF_vars(\E w \in Workers, p \in Plans : ReadWaiting(w, p))
    /\ WF_vars(\E p \in Plans : RecoverExpired(p) \/ ExpireLease(p))

FairSpec == Spec /\ Fairness

-----------------------------------------------------------------------------
(* Properties. *)

\* Refilled(p, i): the durable machine of p has been given outcome i.
Refilled(p, i) == i <= Len(plan[p].log)

\* p stands at effect i, suspended on it or cancelled while it was.
SuspendedAt(p, i) ==
    /\ Len(plan[p].log) + 1 = i
    /\ plan[p].status \in {"waiting", "cancelled"}

\* Every outcome a program has been given is that of its own child, which
\* had ended: for a Job or a child program `ok' exactly for a success, for a
\* question to a model `ok' only for a success (whose answer may still have
\* been rejected), whoever refilled it and however often workers and
\* reconcilers raced to do it (resume_execution_job, resume_evaluation,
\* reconcile_program_child).
RefillIsTheChildsOutcome ==
    \A p \in Plans : \A i \in DOMAIN Program[p] :
        Refilled(p, i) =>
            /\ Program[p][i] \in {"call", "infer"} =>
                 /\ child[<<p, i>>] \in Terminal
                 /\ plan[p].log[i] = "ok" => child[<<p, i>>] = "succeeded"
            /\ Program[p][i] = "call" =>
                 (child[<<p, i>>] = "succeeded" => plan[p].log[i] = "ok")
            /\ Program[p][i] = "program" =>
                 /\ plan[Branches[<<p, i>>][1]].status \in Terminal
                 /\ plan[p].log[i] = "ok"
                      <=> plan[Branches[<<p, i>>][1]].status = "succeeded"

\* A Job, an Evaluation, a branch or a child program exists only for an
\* effect its parent durably suspended on: a worker that lost its claim, or
\* crashed before its hand-off, has started nothing
\* (create_execution_job_and_suspend_plan, materialize_parallel_children).
NothingRunsAhead ==
    \A p \in Plans : \A i \in DOMAIN Program[p] :
        (\/ child[<<p, i>>] # "absent"
         \/ /\ Program[p][i] \in {"par", "program"}
            /\ \E c \in Kids(<<p, i>>) : plan[c].status # "absent")
        => Refilled(p, i) \/ SuspendedAt(p, i)

\* The join of a par is a barrier: its outcome is refilled only when the
\* group is settled, every branch has ended, every member records how its
\* branch ended, and the outcome is the conjunction of the branches
\* (reconcile_action_group).
JoinIsABarrier ==
    \A p \in Plans : \A i \in DOMAIN Program[p] :
        Program[p][i] = "par" /\ Refilled(p, i) =>
            /\ group[<<p, i>>].status = "settled"
            /\ \A c \in Kids(<<p, i>>) :
                  /\ plan[c].status \in Terminal
                  /\ group[<<p, i>>].member[c] = plan[c].status
            /\ plan[p].log[i] = "ok"
                 <=> \A c \in Kids(<<p, i>>) : plan[c].status = "succeeded"

\* A group counts each member once, publishes its settled Event once, and
\* only when the last member of a running group ends; late results of a
\* cancelled group are counted and never settle it
\* (commit_action_group_member_result).
GroupSettlesOnce ==
    \A e \in Slots :
        LET g == group[e] IN
        /\ g.count = Cardinality({ c \in Kids(e) : g.member[c] # "pending" })
        /\ g.settledEvents = IF g.status = "settled" THEN 1 ELSE 0
        /\ g.status = "settled" => g.count = Len(Branches[e])
        /\ g.status = "running" => g.count < Len(Branches[e])

\* Once the owner is cancelled no program is live and no group is open, and
\* none ever is again: a child enrols before the cancellation, and is closed
\* by it, or not at all (control_thread, create_plan_execution).
CancellationIsFinal ==
    owner = "cancelled" =>
        /\ \A p \in Plans : plan[p].status \notin Live
        /\ \A e \in Slots : group[e].status # "running"

\* The durable machine only advances and an ended program never changes: no
\* late write of a worker whose lease ran out, and no second refill, takes
\* it back or resurrects it (the revision and token fences).
MachineOnlyAdvances ==
    [][\A p \in Plans :
          /\ Len(plan[p].log) <= Len(plan'[p].log)
          /\ SubSeq(plan'[p].log, 1, Len(plan[p].log)) = plan[p].log
          /\ plan[p].status \in Terminal => plan'[p] = plan[p]]_vars

\* Somebody other than its owner owes p a step: it is claimed, or what it
\* waits for has ended, or was never created.
Owed(p) ==
    \/ plan[p].status = "running"
    \/ /\ plan[p].status = "waiting"
       /\ \/ /\ PendingEffect(p) \in {"call", "infer"}
             /\ child[Here(p)] \in Terminal
          \/ /\ PendingEffect(p) \in {"par", "program"}
             /\ \/ \E c \in Kids(Here(p)) : plan[c].status = "absent"
                \/ \A c \in Kids(Here(p)) : plan[c].status \in Terminal

\* No program is stranded between its owner's turns: a claim whose worker
\* died is given back, a program whose children ended is refilled, and
\* children lost in a crash between the suspension and their creation are
\* created, with no driver left to do it; unless the Thread has moved to
\* another generation, where enrolment is refused (reconcile_durable_plans).
NoProgramIsStranded ==
    \A p \in Plans : []<>(~Owed(p) \/ owner = "superseded")
=============================================================================
