------------------------------ MODULE Schedule ------------------------------
(***************************************************************************)
(* A Schedule and the Runtime Timer that serves it.  The schedules row       *)
(* (memory/postgres/schedule.rs) is the authority; the runtime_timers row     *)
(* (memory/postgres.rs) only says when to look at it again.  They are written *)
(* in separate transactions: ThreadScheduler (tool.rs) commits the owner row,  *)
(* then arms or cancels the timer, and the TimerEngine (timer.rs) of any       *)
(* Runtime claims a due timer and has ThreadScheduler dispatch it.            *)
(*                                                                          *)
(* Time is abstracted to `due': whether not_before, or a timer's due_at, has  *)
(* been reached.                                                             *)
(***************************************************************************)
EXTENDS Naturals, FiniteSets

CONSTANTS Runtimes,     \* each runs a timer dispatcher and serves control calls
          NoRuntime,
          MaxRevision,  \* bound on the revisions of the Schedule
          MaxFaults     \* bound on the faults of all kinds

ASSUME RuntimesAssumption == NoRuntime \notin Runtimes
ASSUME BoundsAssumption == MaxRevision \in Nat /\ MaxFaults \in Nat

VARIABLES
    sched,      \* the schedules row
    recurring,  \* interval_seconds is set
    dep,        \* the Thread the Schedule depends on
    owner,      \* the Thread the Schedule wakes
    timer,      \* the runtime_timers row `schedule:<id>'
    occ,        \* occurrence revisions whose due Event and Signal are committed
    engine,     \* the dispatcher of each Runtime
    caller,     \* the control call each Runtime is serving
    faults,     \* how many of each kind there were
    missed      \* the revisions whose call failed before it reached the timer

vars ==
    <<sched, recurring, dep, owner, timer, occ, engine, caller, faults, missed>>

SchedRow == [status : {"absent", "queued", "paused", "dispatched", "cancelled"},
             rev : Nat, due : BOOLEAN]
TimerRow == [status : {"absent", "pending", "claimed", "fired", "cancelled"},
             gen : Nat, due : BOOLEAN, holder : Runtimes \cup {NoRuntime},
             leased : BOOLEAN]
\* copy is the Schedule row a process has read and not yet acted on.
EngineRow == [pc : {"idle", "claimed", "commit", "arm", "complete", "later",
                    "recover", "recover_cancel", "recover_queued",
                    "recover_arm"},
              gen : Nat, copy : SchedRow]
CallerRow == [pc : {"idle", "wake", "arm", "cancel"}, copy : SchedRow]

\* A dispatch that fails, a claim that runs out under its dispatcher, and the
\* rest: crashes, clocks that are set back, and calls that fail half-way.
FaultKinds == {"failure", "overrun", "other"}

TypeOK ==
    /\ sched \in SchedRow
    /\ recurring \in BOOLEAN
    /\ dep \in {"none", "open", "completed", "cancelled"}
    /\ owner \in {"open", "terminal"}
    /\ timer \in TimerRow
    /\ occ \subseteq Nat
    /\ engine \in [Runtimes -> EngineRow]
    /\ caller \in [Runtimes -> CallerRow]
    /\ faults \in [FaultKinds -> Nat]
    /\ missed \subseteq Nat

NoSched == [status |-> "absent", rev |-> 0, due |-> FALSE]
IdleEngine == [pc |-> "idle", gen |-> 0, copy |-> NoSched]
IdleCaller == [pc |-> "idle", copy |-> NoSched]

Init ==
    /\ sched = NoSched
    /\ recurring \in BOOLEAN
    /\ dep \in {"none", "open"}
    /\ owner = "open"
    /\ timer = [status |-> "absent", gen |-> 0, due |-> FALSE,
                holder |-> NoRuntime, leased |-> FALSE]
    /\ occ = {}
    /\ engine = [r \in Runtimes |-> IdleEngine]
    /\ caller = [r \in Runtimes |-> IdleCaller]
    /\ faults = [k \in FaultKinds |-> 0]
    /\ missed = {}

Fault(kind) ==
    /\ faults["failure"] + faults["overrun"] + faults["other"] < MaxFaults
    /\ faults' = [faults EXCEPT ![kind] = @ + 1]

-----------------------------------------------------------------------------
(* The timer store. *)

Live == {"pending", "claimed"}

\* upsert_runtime_timer: a newer generation, or the cancelled same one.
Upsert(gen, due) ==
    IF \/ timer.status = "absent"
       \/ gen > timer.gen
       \/ gen = timer.gen /\ timer.status = "cancelled"
    THEN [status |-> "pending", gen |-> gen, due |-> due, holder |-> NoRuntime,
          leased |-> FALSE]
    ELSE timer

\* ThreadScheduler::arm with the row that was read.
ArmWith(copy) == timer' = Upsert(copy.rev, copy.due)

\* complete_runtime_timer and retry_runtime_timer are fenced by generation
\* and claim.
Holds(r) ==
    /\ timer.gen = engine[r].gen
    /\ timer.status = "claimed"
    /\ timer.holder = r

\* cancel_runtime_timer: any pending generation.
CancelledTimer ==
    IF timer.status = "pending" THEN [timer EXCEPT !.status = "cancelled"]
    ELSE timer

Released(status) == [timer EXCEPT !.status = status, !.holder = NoRuntime,
                                  !.leased = FALSE, !.due = FALSE]

-----------------------------------------------------------------------------
(* Control calls: one transaction on the owner row, then one on the timer.    *)
(* The expected revision is the current one, or the call has no effect.       *)

Serving(r) ==
    caller[r].pc = "idle" /\ engine[r].pc \notin
        {"recover", "recover_cancel", "recover_queued", "recover_arm"}

Open == sched.status \in {"queued", "paused"}

\* The owner row moves; the caller goes on to arm or cancel the timer.
Mutate(r, row) ==
    /\ Serving(r)
    /\ row.rev <= MaxRevision
    /\ sched' = row
    /\ caller' = [caller EXCEPT ![r] =
         IF row.status = "queued" THEN [pc |-> "arm", copy |-> row]
                                  ELSE [pc |-> "cancel", copy |-> NoSched]]
    /\ UNCHANGED <<recurring, dep, owner, timer, occ, engine, faults, missed>>

Bumped(status, due) == [status |-> status, rev |-> sched.rev + 1, due |-> due]

\* commit_schedule_transaction.
Create(r) ==
    /\ sched.status = "absent"
    /\ \E due \in BOOLEAN : Mutate(r, Bumped("queued", due))

Pause(r) == sched.status = "queued" /\ Mutate(r, Bumped("paused", sched.due))

Resume(r) == sched.status = "paused" /\ Mutate(r, Bumped("queued", sched.due))

Reschedule(r) ==
    /\ Open
    /\ \E due \in BOOLEAN : Mutate(r, Bumped(sched.status, due))

Cancel(r) ==
    /\ Open
    /\ Mutate(r, Bumped("cancelled", sched.due))

\* reconcile_control_mutation.
ArmAfter(r) ==
    /\ caller[r].pc = "arm"
    /\ ArmWith(caller[r].copy)
    /\ caller' = [caller EXCEPT ![r] = IdleCaller]
    /\ UNCHANGED <<sched, recurring, dep, owner, occ, engine, faults, missed>>

CancelAfter(r) ==
    /\ caller[r].pc = "cancel"
    /\ timer' = CancelledTimer
    /\ caller' = [caller EXCEPT ![r] = IdleCaller]
    /\ UNCHANGED <<sched, recurring, dep, owner, occ, engine, faults, missed>>

\* The revision that is left without its timer call: the one to be armed, or
\* for a wake the one that is not woken.
Missed(r) ==
    CASE caller[r].pc = "arm" -> missed \cup {caller[r].copy.rev}
      [] caller[r].pc = "wake" -> missed \cup {sched.rev}
      [] OTHER -> missed

\* The store refuses the second transaction of a call, or the first one of
\* dependency_completed.  The owner row stands; the error goes to the client
\* or to the log, and nothing tries again before a recovery.
CallFails(r) ==
    /\ caller[r].pc # "idle"
    /\ Fault("other")
    /\ missed' = Missed(r)
    /\ caller' = [caller EXCEPT ![r] = IdleCaller]
    /\ UNCHANGED <<sched, recurring, dep, owner, timer, occ, engine>>

-----------------------------------------------------------------------------
(* The Threads.  Their ends matter while the Schedule is open.               *)

\* The owner Thread is cancelled or superseded, or its Objective stops: its
\* Schedules are cancelled in the same transaction, their timers left alone.
CancelOwner ==
    /\ Open
    /\ sched.rev < MaxRevision
    /\ owner = "open"
    /\ owner' = "terminal"
    /\ sched' = Bumped("cancelled", sched.due)
    /\ UNCHANGED <<recurring, dep, timer, occ, engine, caller, faults, missed>>

\* The owner Thread ends by itself; only a one-shot wake looks at it.
OwnerEnds ==
    /\ Open /\ ~ recurring
    /\ owner = "open"
    /\ owner' = "terminal"
    /\ UNCHANGED <<sched, recurring, dep, timer, occ, engine, caller, faults, missed>>

\* The dependency commits its outcome; its Runtime then tells the scheduler.
DependencyEnds(r) ==
    /\ Open /\ dep = "open"
    /\ Serving(r)
    /\ dep' = "completed"
    /\ caller' = [caller EXCEPT ![r] = [pc |-> "wake", copy |-> NoSched]]
    /\ UNCHANGED <<sched, recurring, owner, timer, occ, engine, faults, missed>>

\* control_thread cancels the dependency; no one tells the scheduler.
DependencyCancelled ==
    /\ Open /\ dep = "open"
    /\ dep' = "cancelled"
    /\ UNCHANGED <<sched, recurring, owner, timer, occ, engine, caller, faults, missed>>

\* Mutant: the wake does not advance the revision.
WokenInPlace == sched

\* wake_schedules_for_dependency.
Woken == Bumped("queued", sched.due)

\* dependency_completed, first half.
Wake(r) ==
    /\ caller[r].pc = "wake"
    /\ IF sched.status = "queued"
       THEN /\ sched' = Woken
            /\ caller' = [caller EXCEPT ![r] = [pc |-> "arm", copy |-> sched']]
       ELSE /\ UNCHANGED sched
            /\ caller' = [caller EXCEPT ![r] = IdleCaller]
    /\ UNCHANGED <<recurring, dep, owner, timer, occ, engine, faults, missed>>

-----------------------------------------------------------------------------
(* Time. *)

\* not_before is reached; a timer of the current revision is due with it.
Ripen ==
    /\ Open /\ ~ sched.due
    /\ sched.rev < MaxRevision
    /\ sched' = [sched EXCEPT !.due = TRUE]
    /\ timer' = [timer EXCEPT !.due = @ \/ (timer.status = "pending"
                                            /\ timer.gen = sched.rev)]
    /\ UNCHANGED <<recurring, dep, owner, occ, engine, caller, faults, missed>>

\* The due_at of a retried timer, or of an older generation, is reached.
TimerRipens ==
    /\ timer.status = "pending" /\ ~ timer.due
    /\ timer.gen = sched.rev => sched.due
    /\ timer' = [timer EXCEPT !.due = TRUE]
    /\ UNCHANGED <<sched, recurring, dep, owner, occ, engine, caller, faults, missed>>

\* The claim of a dispatcher that is gone, or slow, runs out.
Attended == timer.holder \in Runtimes /\ engine[timer.holder].pc # "idle"
            /\ engine[timer.holder].gen = timer.gen

LeaseExpires ==
    /\ timer.status = "claimed" /\ timer.leased
    /\ timer' = [timer EXCEPT !.leased = FALSE]
    /\ IF Attended THEN Fault("overrun") ELSE UNCHANGED faults
    /\ UNCHANGED <<sched, recurring, dep, owner, occ, engine, caller, missed>>

-----------------------------------------------------------------------------
(* dispatch_due_once and ThreadScheduler::dispatch_timer. *)

\* Mutant: only pending timers are claimed.
DuePending == timer.status = "pending" /\ timer.due

Due ==
    \/ timer.status = "pending" /\ timer.due
    \/ timer.status = "claimed" /\ ~ timer.leased

Claim(r) ==
    /\ engine[r].pc = "idle"
    /\ Due
    /\ timer' = [timer EXCEPT !.status = "claimed", !.holder = r, !.leased = TRUE]
    /\ engine' = [engine EXCEPT ![r] =
         [pc |-> "claimed", gen |-> timer.gen, copy |-> NoSched]]
    /\ UNCHANGED <<sched, recurring, dep, owner, occ, caller, faults, missed>>

\* The dispatcher goes on with the row it has read.
Goes(r, pc, copy) ==
    engine' = [engine EXCEPT ![r] = [pc |-> pc, gen |-> engine[r].gen,
                                     copy |-> copy]]

\* What the row read says; a one-shot wake never revives a terminal Thread.
Decision(r) ==
    IF sched.status # "queued" \/ sched.rev # engine[r].gen
        THEN IF sched.status = "queued" THEN "arm" ELSE "complete"
    ELSE IF ~ sched.due THEN "later"
    ELSE IF dep = "open" THEN "complete"
    ELSE IF ~ recurring /\ owner = "terminal" THEN "complete"
    ELSE "commit"

Read(r) ==
    /\ engine[r].pc = "claimed"
    /\ Goes(r, Decision(r),
            IF Decision(r) \in {"commit", "arm"} THEN sched ELSE NoSched)
    /\ UNCHANGED <<sched, recurring, dep, owner, timer, occ, caller, faults, missed>>

\* The same read by a Runtime whose wall clock was set back after the claim:
\* a timer is due when its Schedule is, so nothing else makes it early.
ReadEarly(r) ==
    /\ engine[r].pc = "claimed"
    /\ Decision(r) \in {"commit", "complete"} /\ sched.status = "queued"
    /\ Fault("other")
    /\ Goes(r, "later", NoSched)
    /\ UNCHANGED <<sched, recurring, dep, owner, timer, occ, caller, missed>>

\* Mutant: only the status is tested.
QueuedStill(r) == sched.status = "queued"

\* Mutant: the row that was read is trusted.
Unfenced(r) == TRUE

Fenced(r) == sched.status = "queued" /\ sched.rev = engine[r].copy.rev

\* commit_scheduled_dispatch: owner row, due Event and Signal in one
\* transaction.  A recurring Schedule stays queued and is armed again.
Commit(r) ==
    /\ engine[r].pc = "commit"
    /\ IF Fenced(r)
       THEN /\ sched' = Bumped(IF recurring THEN "queued" ELSE "dispatched", FALSE)
            /\ occ' = occ \cup {engine[r].copy.rev}
            /\ IF recurring THEN Goes(r, "arm", sched')
                            ELSE Goes(r, "complete", NoSched)
       ELSE /\ Goes(r, "complete", NoSched)
            /\ UNCHANGED <<sched, occ>>
    /\ UNCHANGED <<recurring, dep, owner, timer, caller, faults, missed>>

ArmNext(r) ==
    /\ engine[r].pc = "arm"
    /\ ArmWith(engine[r].copy)
    /\ Goes(r, "complete", NoSched)
    /\ UNCHANGED <<sched, recurring, dep, owner, occ, caller, faults, missed>>

\* Complete; a no-op when a newer generation was armed meanwhile.
Complete(r) ==
    /\ engine[r].pc = "complete"
    /\ timer' = IF Holds(r) THEN Released("fired") ELSE timer
    /\ engine' = [engine EXCEPT ![r] = IdleEngine]
    /\ UNCHANGED <<sched, recurring, dep, owner, occ, caller, faults, missed>>

\* Reschedule to not_before.
Later(r) ==
    /\ engine[r].pc = "later"
    /\ timer' = IF Holds(r) THEN Released("pending") ELSE timer
    /\ engine' = [engine EXCEPT ![r] = IdleEngine]
    /\ UNCHANGED <<sched, recurring, dep, owner, occ, caller, faults, missed>>

\* The handler fails: the timer is retried later, or, when that fails too,
\* left to its lease.
HandlerFails(r) ==
    /\ engine[r].pc \in {"claimed", "commit", "arm", "complete", "later"}
    /\ Fault("failure")
    /\ timer' \in {timer, IF Holds(r) THEN Released("pending") ELSE timer}
    /\ engine' = [engine EXCEPT ![r] = IdleEngine]
    /\ UNCHANGED <<sched, recurring, dep, owner, occ, caller, missed>>

-----------------------------------------------------------------------------
(* Crash and restart: recover runs before the TimerEngine starts. *)

Crash(r) ==
    /\ Fault("other")
    /\ engine' = [engine EXCEPT ![r] = [pc |-> "recover", gen |-> 0,
                                        copy |-> NoSched]]
    /\ caller' = [caller EXCEPT ![r] = IdleCaller]
    /\ UNCHANGED <<sched, recurring, dep, owner, timer, occ, missed>>

\* A live timer whose owner is not queued is about to be cancelled.
RecoverTimers(r) ==
    /\ engine[r].pc = "recover"
    /\ Goes(r, IF timer.status \in Live /\ sched.status # "queued"
               THEN "recover_cancel" ELSE "recover_queued", NoSched)
    /\ UNCHANGED <<sched, recurring, dep, owner, timer, occ, caller, faults, missed>>

RecoverCancel(r) ==
    /\ engine[r].pc = "recover_cancel"
    /\ timer' = CancelledTimer
    /\ Goes(r, "recover_queued", NoSched)
    /\ UNCHANGED <<sched, recurring, dep, owner, occ, caller, faults, missed>>

\* The dependency is replayed when it is terminal.
Replayed == IF dep \in {"completed", "cancelled"} THEN Woken ELSE sched

RecoverQueued(r) ==
    /\ engine[r].pc = "recover_queued"
    /\ IF sched.status = "queued"
       THEN /\ sched' = Replayed
            /\ Goes(r, "recover_arm", sched')
       ELSE /\ engine' = [engine EXCEPT ![r] = IdleEngine]
            /\ UNCHANGED sched
    /\ UNCHANGED <<recurring, dep, owner, timer, occ, caller, faults, missed>>

RecoverArm(r) ==
    /\ engine[r].pc = "recover_arm"
    /\ ArmWith(engine[r].copy)
    /\ engine' = [engine EXCEPT ![r] = IdleEngine]
    /\ UNCHANGED <<sched, recurring, dep, owner, occ, caller, faults, missed>>

-----------------------------------------------------------------------------
Control(r) == Create(r) \/ Pause(r) \/ Resume(r) \/ Reschedule(r) \/ Cancel(r)

CallerStep(r) == ArmAfter(r) \/ CancelAfter(r) \/ Wake(r)

EngineStep(r) ==
    \/ Claim(r) \/ Read(r) \/ Commit(r) \/ ArmNext(r) \/ Complete(r) \/ Later(r)
    \/ RecoverTimers(r) \/ RecoverCancel(r) \/ RecoverQueued(r) \/ RecoverArm(r)

Environment ==
    \/ CancelOwner \/ OwnerEnds \/ DependencyCancelled
    \/ Ripen \/ TimerRipens \/ LeaseExpires

Next ==
    \/ Environment
    \/ \E r \in Runtimes :
          \/ Control(r) \/ CallerStep(r) \/ EngineStep(r)
          \/ DependencyEnds(r) \/ CallFails(r) \/ ReadEarly(r)
          \/ HandlerFails(r) \/ Crash(r)

Spec == Init /\ [][Next]_vars

\* Every Runtime goes on with what it has begun (to its end, or to its error),
\* its dispatcher polls for ever and restarts after a crash; retries become
\* due, and a claim nobody attends runs out.
Fairness ==
    /\ \A r \in Runtimes : WF_vars(CallerStep(r)) /\ WF_vars(EngineStep(r))
    /\ WF_vars(TimerRipens) /\ WF_vars(~ Attended /\ LeaseExpires)

FairSpec == Spec /\ Fairness

-----------------------------------------------------------------------------
(* Properties *)

\* An occurrence is committed only while the Schedule is queued, its time has
\* come and its dependency has ended, whatever the timer's generation was when
\* the dispatcher claimed it: a pause, a cancel or a reschedule that commits
\* first always wins (commit_scheduled_dispatch is fenced by the revision read).
NeverEarly ==
    [][occ' # occ =>
         sched.status = "queued" /\ sched.due /\ dep # "open"]_vars

\* A one-shot Schedule wakes its Thread at most once, even when two
\* dispatchers hold the same generation because a claim lease ran out.
OneShotOnce == ~ recurring => Cardinality(occ) <= 1

AtRest == \A r \in Runtimes : engine[r].pc = "idle" /\ caller[r].pc = "idle"

\* Two faults together lose a timer: the claim runs out under a dispatcher,
\* another claims the same generation, one of them commits the occurrence and
\* fails before it has armed the next, and the other finds the occurrence taken
\* and completes the timer (dispatch_timer answers Complete without reading the
\* row again).
Overtaken ==
    /\ faults["failure"] > 0 /\ faults["overrun"] > 0
    /\ timer.status = "fired" /\ timer.gen < sched.rev

\* The call that was to give this revision its timer, or to wake it when its
\* dependency ended, has failed.
Uncalled == sched.rev \in missed /\ timer.status \notin Live

\* No call or dispatch in flight: a queued Schedule has a live timer, of its
\* revision or of an older one whose dispatch will arm it again.  It has none
\* only when its dispatch found the dependency open, or its Thread already
\* terminal; when the dependency was cancelled, which nobody reports; when the
\* call that owed this very revision its timer, or its wake, failed after the
\* row it follows was committed; when a late pause cancelled the newer timer
\* (NoLostTimer); or when two faults met (reconcile_control_mutation,
\* dependency_completed, dispatch_timer).
QuiescentArmed ==
    AtRest /\ sched.status = "queued" =>
        \/ timer.status \in Live
        \/ timer.gen = sched.rev /\ timer.status = "fired"
           /\ (dep \in {"open", "cancelled"} \/ (~ recurring /\ owner = "terminal"))
        \/ Uncalled
        \/ timer.status = "cancelled"
        \/ Overtaken

\* A queued Schedule whose time has come and whose dependency has ended is
\* dispatched, although the dispatcher that claims it may crash, fail or be
\* slow: its claim runs out and another takes the timer
\* (claim_due_runtime_timers), and recovery arms what a crash left unarmed.
\* Excepted: a one-shot wake of a terminal Thread, a revision whose own timer
\* call failed, and a timer that is lost.
DueServed ==
    LET Waiting == sched.status = "queued" /\ sched.due
                   /\ dep \in {"none", "completed"}
        Stuck == \/ timer.status = "cancelled" \/ Uncalled \/ Overtaken
                 \/ ~ recurring /\ owner = "terminal"
    IN Waiting ~> (~ Waiting \/ Stuck)

\* Violated by the code: `pause/cancel invalidates the timer not yet claimed;
\* resume/reschedule advances the revision and creates a new timer generation'
\* (docs/morphz_scheduler_kernel_and_domain_model_v1.md:1396).  A resume that
\* committed last leaves a Schedule whose timer is not cancelled.
NoLostTimer ==
    AtRest /\ sched.status = "queued" => timer.status # "cancelled"

=============================================================================
