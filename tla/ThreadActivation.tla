-------------------------- MODULE ThreadActivation --------------------------
(***************************************************************************)
(* One Thread of the scheduler kernel: its mailbox of Signals, the          *)
(* Activations that consume them in batches, and the Runtimes that admit,   *)
(* evaluate, lose, recover and close those Activations.                     *)
(*                                                                          *)
(* Every action is one transaction of the store (memory/postgres/           *)
(* activation.rs, thread.rs, scheduler.rs) or one local step of an          *)
(* evaluation task (orchestrator.rs).  Transactions that lock the Thread    *)
(* row are serial; `task' and `probe' hold what a Runtime read before it    *)
(* writes.  Threads do not share rows here, so one Thread is enough.        *)
(***************************************************************************)
EXTENDS Integers, FiniteSets

CONSTANTS
    Runtimes,       \* Runtime processes sharing the store
    NoRuntime,      \* SQL NULL in claimed_by
    MaxSignals,     \* bound on the Signals the mailbox ever receives
    MaxBatch,       \* DEFAULT_THREAD_SIGNAL_BATCH_LIMIT
    MaxGeneration,  \* bound on the generations control operations reach
    MaxFaults,      \* bound on crashes, refusals, renewals and leases a slow owner loses
    FaultySignals   \* bound on the Signals of a history that has such events

ASSUME ConstantsAssumption ==
    /\ NoRuntime \notin Runtimes
    /\ MaxSignals \in Nat \ {0}
    /\ MaxBatch \in Nat \ {0}
    /\ MaxGeneration \in Nat
    /\ FaultySignals \in Nat
    /\ MaxFaults \in Nat

VARIABLES
    thread,   \* the threads row, its outcome and its pending resource wait
    signal,   \* the thread_signals rows with their activation_signals link
    act,      \* the thread_activations rows
    task,     \* the evaluation task each Runtime runs for this Thread
    probe,    \* the lease recovery a Runtime has decided and not yet written
    faults    \* how many bounded events have happened

vars == <<thread, signal, act, task, probe, faults>>

-----------------------------------------------------------------------------
(* The rows *)

\* Signals are numbered by the sequence of their Event.  An Activation's id is
\* derived from the Event whose dispatch created it, so it shares the number.
Signals == 1 .. MaxSignals
None == 0                          \* SQL NULL
ControlOutcome == MaxSignals + 1   \* the control Activation Cancel inserts

Terminal == {"completed", "failed", "cancelled"}
LiveStatus == {"queued", "running"}

\* `outcome' is the Activation of the thread_outcomes row, `waiting' a pending
\* provider-resource dependency of this generation.
ThreadRecord ==
    [status     : {"open"} \cup Terminal,
     control    : {"active", "paused"},
     generation : Nat,
     outcome    : Signals \cup {None, ControlOutcome},
     waiting    : BOOLEAN]

\* `batch' is the unique activation_signals link.
SignalRecord ==
    [status     : {"absent", "pending", "claimed", "acknowledged"},
     generation : Nat,
     kind       : {"input", "steering", "output"},
     parent     : Signals \cup {None},
     batch      : Signals \cup {None}]

ActRecord ==
    [status     : {"absent"} \cup LiveStatus \cup Terminal,
     generation : Nat,
     revision   : Nat,
     trigger    : Signals \cup {None},
     owner      : Runtimes \cup {NoRuntime},
     lease      : {"none", "live", "expired"}]

AbsentSignal ==
    [status |-> "absent", generation |-> 0, kind |-> "input",
     parent |-> None, batch |-> None]

AbsentAct ==
    [status |-> "absent", generation |-> 0, revision |-> 0, trigger |-> None,
     owner |-> NoRuntime, lease |-> "none"]

\* An evaluation task: `admitting' has the Activation and waits to start it,
\* `evaluating' runs the model loop, `closing' must write `final'.
TaskRecord ==
    [pc       : {"idle", "admitting", "evaluating", "closing"},
     act      : Signals \cup {None},
     revision : Nat,
     final    : Terminal]

IdleTask == [pc |-> "idle", act |-> None, revision |-> 0, final |-> "completed"]

\* The lease Timer is claimed by one Runtime at a time.
ProbeRecord ==
    [by : Runtimes \cup {NoRuntime}, act : Signals \cup {None}, revision : Nat,
     verdict : {"queued", "cancelled"}]

NoProbe == [by |-> NoRuntime, act |-> None, revision |-> 0, verdict |-> "queued"]

NewSignal(kind, parent, generation) ==
    [AbsentSignal EXCEPT !.status = "pending", !.kind = kind,
                         !.parent = parent, !.generation = generation]

\* A user message creates the root Thread and its first Signal together.
Init ==
    /\ thread = [status |-> "open", control |-> "active", generation |-> 1,
                 outcome |-> None, waiting |-> FALSE]
    /\ signal = [s \in Signals |-> IF s = 1 THEN NewSignal("input", None, 1)
                                            ELSE AbsentSignal]
    /\ act    = [a \in Signals |-> AbsentAct]
    /\ task   = [r \in Runtimes |-> IdleTask]
    /\ probe  = NoProbe
    /\ faults = 0

-----------------------------------------------------------------------------
(* Row operations *)

Live(row) == row.status \in LiveStatus
Current(row) == row.generation = thread.generation

\* Mutant: the status of signal_outbox written to thread_signals.
Discarded(sig) == [sig EXCEPT !.status = "discarded"]

Acknowledged(sig) == [sig EXCEPT !.status = "acknowledged"]

\* UPDATE thread_activations SET revision = revision + 1, status = ...,
\* claimed_by = NULL, lease_expires_at = NULL
Released(row, status) ==
    [row EXCEPT !.status = status, !.revision = @ + 1,
                !.owner = NoRuntime, !.lease = "none"]

Held(row, r) ==
    [row EXCEPT !.status = "running", !.revision = @ + 1,
                !.owner = r, !.lease = "live"]

\* Mutant: the Activation ends and its Signals stay claimed.
KeepBatch(a) == signal

\* The claimed Signals linked to Activation a become acknowledged.
AckBatch(a) ==
    [s \in Signals |->
        IF signal[s].batch = a /\ signal[s].status = "claimed"
        THEN Acknowledged(signal[s]) ELSE signal[s]]

\* A terminal status and the acknowledgement of the batch are one transaction.
EndActivation(a, status) ==
    /\ act' = [act EXCEPT ![a] = Released(act[a], status)]
    /\ signal' = AckBatch(a)

\* Every open Signal of the Thread's current generation is acknowledged.
AckGeneration ==
    [s \in Signals |->
        IF Current(signal[s]) /\ signal[s].status \in {"pending", "claimed"}
        THEN Acknowledged(signal[s]) ELSE signal[s]]

AckPending ==
    [s \in Signals |->
        IF signal[s].status = "pending" THEN Acknowledged(signal[s]) ELSE signal[s]]

\* A pending Signal whose parent Activation belongs to another generation.
Orphan(sig) ==
    sig.status = "pending" /\ sig.parent # None /\ ~Current(act[sig.parent])

AckOrphans ==
    [s \in Signals |->
        IF Orphan(signal[s]) THEN Acknowledged(signal[s]) ELSE signal[s]]

CancelLive ==
    [a \in Signals |->
        IF Live(act[a]) /\ Current(act[a]) THEN Released(act[a], "cancelled") ELSE act[a]]

\* The next Event sequence number.
Fresh(s) ==
    /\ signal[s].status = "absent"
    /\ \A x \in Signals : x < s => signal[x].status # "absent"
    /\ s > FaultySignals => faults = 0

\* One of the events that happen at most MaxFaults times, in a history of at
\* most FaultySignals Signals.
Bounded ==
    /\ faults < MaxFaults
    /\ \A x \in Signals : x > FaultySignals => signal[x].status = "absent"
    /\ faults' = faults + 1

-----------------------------------------------------------------------------
(* Mailbox *)

\* append_direct_thread_signal_in_tx: a terminal Thread is refused; the Signal
\* carries the Thread's generation and the Activation that caused it.
AppendSignal(s) ==
    /\ Fresh(s)
    /\ thread.status = "open"
    /\ \/ signal' = [signal EXCEPT ![s] = NewSignal("steering", None, thread.generation)]
       \/ \E a \in Signals :
            /\ act[a].status # "absent"
            /\ signal' = [signal EXCEPT ![s] = NewSignal("output", a, thread.generation)]
    /\ UNCHANGED <<thread, act, task, probe, faults>>

\* satisfy_thread_resource_dependency: the wake Signal and the satisfied
\* dependency are one transaction.
SatisfyDependency(s) ==
    /\ Fresh(s)
    /\ thread.waiting
    /\ thread.status = "open"
    /\ thread' = [thread EXCEPT !.waiting = FALSE]
    /\ signal' = [signal EXCEPT ![s] = NewSignal("input", None, thread.generation)]
    /\ UNCHANGED <<act, task, probe, faults>>

-----------------------------------------------------------------------------
(* Dispatch: claim_thread_activation and claim_thread_signal_batch_observed. *)
(* A Signal may be dispatched any number of times (EventBus delivery,        *)
(* reconciliation, recovery); thread_gate admits one task per Runtime.       *)

Linked(s) == signal[s].batch # None /\ Current(act[signal[s].batch])

\* A Signal of an older generation is quarantined.
DispatchStale(r, s) ==
    /\ task[r].pc = "idle"
    /\ signal[s].status = "pending"
    /\ ~Current(signal[s])
    /\ signal' = [signal EXCEPT ![s] = Acknowledged(signal[s])]
    /\ UNCHANGED <<thread, act, task, probe, faults>>

Admissible(row) == row.status = "queued" \/ (row.status = "running" /\ row.lease # "live")

Admitting(a, revision) ==
    [pc |-> "admitting", act |-> a, revision |-> revision, final |-> "completed"]

\* A Signal that has a batch returns that batch's Activation.
DispatchLinked(r, s) ==
    LET a == signal[s].batch
    IN  /\ task[r].pc = "idle"
        /\ Current(signal[s])
        /\ Linked(s)
        /\ Admissible(act[a])
        /\ task' = [task EXCEPT ![r] = Admitting(a, act[a].revision)]
        /\ UNCHANGED <<thread, signal, act, probe, faults>>

\* A terminal Thread acknowledges its whole mailbox.
DispatchTerminal(r, s) ==
    /\ task[r].pc = "idle"
    /\ signal[s].status # "absent"
    /\ Current(signal[s])
    /\ ~Linked(s)
    /\ thread.status # "open"
    /\ signal' = AckPending
    /\ UNCHANGED <<thread, act, task, probe, faults>>

\* The batch: the first MaxBatch pending Signals in sequence order, of
\* whatever generation.
PendingIn(sigs) == {s \in Signals : sigs[s].status = "pending"}

FirstPending(sigs) ==
    {s \in PendingIn(sigs) : Cardinality({x \in PendingIn(sigs) : x < s}) < MaxBatch}

Runnable(r, s) ==
    /\ task[r].pc = "idle"
    /\ signal[s].status # "absent"
    /\ Current(signal[s])
    /\ ~Linked(s)
    /\ thread.status = "open"
    /\ thread.control = "active"

\* Mutant: a queued Activation does not count.
RunningNow == \E a \in Signals : act[a].status = "running" /\ Current(act[a])

LiveNow == \E a \in Signals : Live(act[a]) /\ Current(act[a])

\* With a live Activation, or nothing left to claim, only orphans change.
DispatchBusy(r, s) ==
    /\ Runnable(r, s)
    /\ LiveNow \/ PendingIn(AckOrphans) = {}
    /\ signal' = AckOrphans
    /\ UNCHANGED <<thread, act, task, probe, faults>>

\* The dispatched Signal is the trigger if it is in the batch, else the first.
IsTrigger(t, s, batch) == IF s \in batch THEN t = s ELSE \A y \in batch : t <= y

Queued(trigger) ==
    [AbsentAct EXCEPT !.status = "queued", !.revision = 1, !.trigger = trigger,
                      !.generation = thread.generation]

LinkBatch(sigs, batch, a) ==
    [x \in Signals |-> IF x \in batch
                       THEN [sigs[x] EXCEPT !.status = "claimed", !.batch = a]
                       ELSE sigs[x]]

\* INSERT INTO thread_activations has no ON CONFLICT: an Activation of the
\* same id makes the whole transaction fail.
DispatchClaim(r, s) ==
    LET batch == FirstPending(AckOrphans)
    IN  /\ Runnable(r, s)
        /\ ~LiveNow
        /\ act[s].status = "absent"
        /\ \E t \in batch :
             IsTrigger(t, s, batch) /\ act' = [act EXCEPT ![s] = Queued(t)]
        /\ signal' = LinkBatch(AckOrphans, batch, s)
        /\ task' = [task EXCEPT ![r] = Admitting(s, 1)]
        /\ UNCHANGED <<thread, probe, faults>>

Dispatch(r, s) ==
    \/ DispatchStale(r, s)
    \/ DispatchLinked(r, s)
    \/ DispatchTerminal(r, s)
    \/ DispatchBusy(r, s)
    \/ DispatchClaim(r, s)

\* The admission window is full, or a racing transition wins: the Activation
\* stays queued for the refill.
AdmissionRefused(r) ==
    /\ task[r].pc = "admitting"
    /\ Bounded
    /\ task' = [task EXCEPT ![r] = IdleTask]
    /\ UNCHANGED <<thread, signal, act, probe>>

-----------------------------------------------------------------------------
(* Evaluation *)

\* update_thread_activation: compare-and-set on the revision; a row of an older
\* generation is not found.  Neither the status nor the claimant is compared.
Updates(a, revision) == act[a].revision = revision /\ Current(act[a])

Start(r) ==
    LET a == task[r].act
    IN  /\ task[r].pc = "admitting"
        /\ IF Updates(a, task[r].revision)
           THEN /\ act' = [act EXCEPT ![a] = Held(act[a], r)]
                /\ task' = [task EXCEPT ![r].pc = "evaluating", ![r].revision = 0]
           ELSE /\ task' = [task EXCEPT ![r] = IdleTask]
                /\ act' = act
        /\ UNCHANGED <<thread, signal, probe, faults>>

\* bind_activation_input_signals: a later model request of the same evaluation
\* takes over input that has become visible; a Signal of another generation in
\* the batch makes the request fail.
BindInput(r, s) ==
    LET a == task[r].act
    IN  /\ task[r].pc = "evaluating"
        /\ act[a].status = "running"
        /\ Current(act[a])
        /\ \A x \in Signals : signal[x].batch = a => Current(signal[x])
        /\ signal[s].status = "pending"
        /\ Current(signal[s])
        /\ signal' = [signal EXCEPT ![s].status = "claimed", ![s].batch = a]
        /\ UNCHANGED <<thread, act, task, probe, faults>>

Closing(t, final) == [t EXCEPT !.pc = "closing", !.final = final]

\* Mutant: the first commit wins whatever became of its Activation.
FirstCommit(a) == thread.outcome = None

\* commit_activation_outcome, which reads the Activation's generation and
\* status but neither its claimant nor its lease.
CanCommit(a) ==
    /\ Current(act[a])
    /\ thread.outcome = None
    /\ act[a].status = "running"

\* Mutant: completion does not look at the mailbox.
NoDirectedInput == FALSE

DirectedInputPending ==
    \E s \in Signals : signal[s].status = "pending" /\ signal[s].kind = "steering"

\* disposition = provider_wait: the Thread stays open behind a dependency.
Suspend(r) ==
    LET a == task[r].act
    IN  /\ task[r].pc = "evaluating"
        /\ CanCommit(a)
        /\ thread' = [thread EXCEPT !.waiting = TRUE]
        /\ EndActivation(a, "completed")
        /\ task' = [task EXCEPT ![r] = Closing(task[r], "completed")]
        /\ UNCHANGED <<probe, faults>>

\* The Thread's terminal outcome: completion yields to pending directed input.
CommitTerminal(r, status) ==
    LET a == task[r].act
    IN  /\ task[r].pc = "evaluating"
        /\ CanCommit(a)
        /\ status = "completed" => ~DirectedInputPending
        /\ thread' = [thread EXCEPT !.status = status, !.outcome = a, !.waiting = FALSE]
        /\ EndActivation(a, status)
        /\ task' = [task EXCEPT ![r] = Closing(task[r], status)]
        /\ UNCHANGED <<probe, faults>>

\* The evaluation ends without a commit of its own: it only started tools, its
\* outcome was suppressed (stale, existing or deferred), or it failed and the
\* failure outcome could not be committed.
ReturnOpen(r) ==
    /\ task[r].pc = "evaluating"
    /\ \E final \in {"completed", "failed"} :
         task' = [task EXCEPT ![r] = Closing(task[r], final)]
    /\ UNCHANGED <<thread, signal, act, probe, faults>>

\* wait_for_durable_activation_revocation sees that the row was requeued,
\* cancelled, or claimed by another Runtime.
Revoked(r, row) ==
    /\ row.status \notin {"completed", "failed"}
    /\ row.status = "running" => row.owner # r

ObserveRevocation(r) ==
    /\ task[r].pc = "evaluating"
    /\ Revoked(r, act[task[r].act])
    /\ task' = [task EXCEPT ![r] = Closing(task[r], "cancelled")]
    /\ UNCHANGED <<thread, signal, act, probe, faults>>

\* A cancelled Session or Objective Evaluation interrupts the local future.
Interrupt(r) ==
    /\ task[r].pc = "evaluating"
    /\ task' = [task EXCEPT ![r] = Closing(task[r], "cancelled")]
    /\ UNCHANGED <<thread, signal, act, probe, faults>>

\* finish_thread_activation: re-reads the row and, unless it is terminal, ends
\* it whoever owns it by now.
Closes(r, row) == Live(row) /\ Current(row)

Close(r) ==
    LET a == task[r].act
    IN  /\ task[r].pc = "closing"
        /\ IF Closes(r, act[a])
           THEN EndActivation(a, task[r].final)
           ELSE UNCHANGED <<act, signal>>
        /\ task' = [task EXCEPT ![r] = IdleTask]
        /\ UNCHANGED <<thread, probe, faults>>

-----------------------------------------------------------------------------
(* Leases, failure and recovery *)

InFlight(r, a) == task[r].pc \in {"evaluating", "closing"} /\ task[r].act = a
Abandoned(a) == \A r \in Runtimes : ~InFlight(r, a)

\* renew_local_activation_leases
Renew(r) ==
    LET a == task[r].act
    IN  /\ InFlight(r, a)
        /\ act[a].status = "running"
        /\ act[a].owner = r
        /\ Current(act[a])
        /\ Bounded
        /\ act' = [act EXCEPT ![a] = Held(act[a], r)]
        /\ UNCHANGED <<thread, signal, task, probe>>

\* Time passes.  A slow owner can lose its lease, and the lease of a row that
\* nobody works on runs out.
LeaseExpires(a) ==
    /\ act[a].status = "running"
    /\ act[a].lease = "live"
    /\ IF Abandoned(a) THEN UNCHANGED faults ELSE Bounded
    /\ act' = [act EXCEPT ![a].lease = "expired"]
    /\ UNCHANGED <<thread, signal, task, probe>>

\* dispatch_activation_lease and startup recovery read the row and the Thread.
Verdict(row) ==
    IF thread.status # "open" \/ ~Current(row) THEN "cancelled" ELSE "queued"

ProbeLease(r, a) ==
    /\ probe = NoProbe
    /\ act[a].status = "running"
    /\ act[a].lease # "live"
    /\ ~(act[a].owner = r /\ InFlight(r, a))
    /\ probe' = [by |-> r, act |-> a, revision |-> act[a].revision,
                  verdict |-> Verdict(act[a])]
    /\ UNCHANGED <<thread, signal, act, task, faults>>

\* Mutant: compares with the revision before the one that was read.
RecoversPriorRevision(p) == Updates(p.act, p.revision - 1)

\* The verdict is written if the row has not changed since.
Recovers(p) == Updates(p.act, p.revision)

Recover(r) ==
    LET a == probe.act
    IN  /\ probe.by = r
        /\ IF Recovers(probe)
           THEN /\ act' = [act EXCEPT ![a] = Released(act[a], probe.verdict)]
                /\ signal' = IF probe.verdict = "cancelled" THEN AckBatch(a) ELSE signal
           ELSE UNCHANGED <<act, signal>>
        /\ probe' = NoProbe
        /\ UNCHANGED <<thread, task, faults>>

\* The process exits, or gives up after its write retries; a restarted process
\* is a new claimant, and nothing local survives.
Crash(r) ==
    /\ task[r].pc # "idle" \/ probe.by = r
    /\ Bounded
    /\ task' = [task EXCEPT ![r] = IdleTask]
    /\ probe' = IF probe.by = r THEN NoProbe ELSE probe
    /\ UNCHANGED <<thread, signal, act>>

-----------------------------------------------------------------------------
(* Control *)

Pause ==
    /\ thread.status = "open"
    /\ thread.control = "active"
    /\ thread' = [thread EXCEPT !.control = "paused"]
    /\ UNCHANGED <<signal, act, task, probe, faults>>

Resume ==
    /\ thread.status = "open"
    /\ thread.control = "paused"
    /\ thread' = [thread EXCEPT !.control = "active"]
    /\ UNCHANGED <<signal, act, task, probe, faults>>

\* control_thread(Cancel): the outcome is written under the old generation and
\* the Thread moves past it.
Cancel ==
    /\ thread.status = "open"
    /\ thread.generation < MaxGeneration
    /\ thread' = [status |-> "cancelled", control |-> "active",
                  generation |-> thread.generation + 1,
                  outcome |-> ControlOutcome, waiting |-> FALSE]
    /\ act' = CancelLive
    /\ signal' = AckGeneration
    /\ UNCHANGED <<task, probe, faults>>

\* supersede_thread: the same fence, and the replacing input in the new
\* generation.
Supersede(s) ==
    /\ Fresh(s)
    /\ thread.status = "open"
    /\ thread.generation < MaxGeneration
    /\ thread' = [thread EXCEPT !.control = "active", !.waiting = FALSE,
                                !.generation = @ + 1]
    /\ act' = CancelLive
    /\ signal' = [AckGeneration EXCEPT ![s] = NewSignal("input", None, thread.generation + 1)]
    /\ UNCHANGED <<task, probe, faults>>

\* Mutant: the retried Thread keeps its generation.
RestartInPlace(s) ==
    /\ Fresh(s)
    /\ thread.status = "failed"
    /\ thread' = [thread EXCEPT !.status = "open", !.outcome = None]
    /\ act' = CancelLive
    /\ signal' = [signal EXCEPT ![s] = NewSignal("input", None, thread.generation)]
    /\ UNCHANGED <<task, probe, faults>>

\* restart_dialogue_turn: a Runtime failure is retried in place.  Signals of
\* the failed generation are left as they are.
Restart(s) ==
    /\ Fresh(s)
    /\ thread.status = "failed"
    /\ thread.generation < MaxGeneration
    /\ thread' = [thread EXCEPT !.status = "open", !.outcome = None,
                                !.generation = @ + 1]
    /\ act' = CancelLive
    /\ signal' = [signal EXCEPT ![s] = NewSignal("input", None, thread.generation + 1)]
    /\ UNCHANGED <<task, probe, faults>>

-----------------------------------------------------------------------------
(* Specification *)

EvaluationEnds(r) ==
    \/ Suspend(r)
    \/ \E status \in {"completed", "failed"} : CommitTerminal(r, status)
    \/ ReturnOpen(r)
    \/ ObserveRevocation(r)
    \/ Interrupt(r)

RuntimeStep(r) ==
    \/ \E s \in Signals : Dispatch(r, s)
    \/ AdmissionRefused(r)
    \/ Start(r)
    \/ \E s \in Signals : BindInput(r, s)
    \/ EvaluationEnds(r)
    \/ Close(r)
    \/ Renew(r)
    \/ \E a \in Signals : ProbeLease(r, a)
    \/ Recover(r)
    \/ Crash(r)

ControlStep ==
    \/ Pause
    \/ Resume
    \/ Cancel
    \/ \E s \in Signals : Supersede(s) \/ Restart(s)

Next ==
    \/ \E s \in Signals : AppendSignal(s) \/ SatisfyDependency(s)
    \/ \E r \in Runtimes : RuntimeStep(r)
    \/ \E a \in Signals : LeaseExpires(a)
    \/ ControlStep

Spec == Init /\ [][Next]_vars

\* reconcile_runnable_pending_thread_signals dispatches the first pending
\* Signal of a runnable Thread.
Reconcile(r) ==
    \E s \in Signals :
        /\ signal[s].status = "pending"
        /\ Current(signal[s])
        /\ \A x \in Signals : x < s => signal[x].status # "pending" \/ ~Current(signal[x])
        /\ ~LiveNow
        /\ thread.status = "open"
        /\ Dispatch(r, s)

\* The polling loops of a Runtime run for as long as it does; an evaluation
\* returns; the lease of an abandoned row runs out.  The admission queue is
\* offered again on notifications only, so nothing is assumed of it.
Fairness ==
    /\ WF_vars(\E r \in Runtimes : Reconcile(r))
    /\ \A r \in Runtimes :
         /\ WF_vars(Start(r))
         /\ WF_vars(EvaluationEnds(r))
         /\ WF_vars(Close(r))
         /\ WF_vars(Recover(r))
    /\ \A a \in Signals :
         /\ WF_vars(Abandoned(a) /\ LeaseExpires(a))
         /\ WF_vars(\E r \in Runtimes : ProbeLease(r, a))

FairSpec == Spec /\ Fairness

-----------------------------------------------------------------------------
(* Properties *)

\* The rows and the local state of every Runtime have their types.
TypeOK ==
    /\ thread \in ThreadRecord
    /\ signal \in [Signals -> SignalRecord]
    /\ act \in [Signals -> ActRecord]
    /\ task \in [Runtimes -> TaskRecord]
    /\ probe \in ProbeRecord
    /\ faults \in 0 .. MaxFaults

\* Single flight: a Thread has at most one queued or running Activation, it
\* belongs to the current generation, and a terminal Thread has none, across
\* racing dispatches, recoveries and control operations of several Runtimes
\* (claim_thread_signal_batch_observed; scheduler_kernel_stabilization_v2 11.1).
SingleFlight ==
    \A a \in Signals :
        Live(act[a]) =>
            /\ Current(act[a])
            /\ thread.status = "open"
            /\ \A b \in Signals : Live(act[b]) => b = a

\* A Thread is terminal exactly when it has an outcome, and an outcome written
\* by an evaluation comes from an Activation of the current generation that
\* ended the same way, so a superseded or restarted evaluation never answers
\* for the new generation (commit_activation_outcome).
OutcomeOwned ==
    /\ thread.status = "open" <=> thread.outcome = None
    /\ thread.outcome \in Signals =>
         /\ Current(act[thread.outcome])
         /\ act[thread.outcome].status = thread.status
    /\ thread.status # "open" => ~thread.waiting

\* Within one generation the first outcome stands: nothing reopens, replaces
\* or re-answers a terminal Thread (thread_outcomes is unique per Thread).
FirstOutcomeStands ==
    [][thread.outcome # None =>
         \/ thread'.generation > thread.generation
         \/ thread'.outcome = thread.outcome /\ thread'.status = thread.status]_vars

\* A claimed Signal of the current generation is held by a live Activation: no
\* close, recovery or control operation leaves input claimed by a dead one.
ClaimedIsHeld ==
    \A s \in Signals :
        signal[s].status = "claimed" /\ Current(signal[s]) => Live(act[signal[s].batch])

\* Directed input is never lost to a completion: a steering Signal that was
\* acknowledged without reaching an Activation belongs to a fenced generation
\* or to a Thread that did not complete (DeferredByDirectedInput).
SteeringSurvivesCompletion ==
    \A s \in Signals :
        /\ signal[s].kind = "steering"
        /\ signal[s].status = "acknowledged"
        /\ signal[s].batch = None
        /\ Current(signal[s])
        => thread.status # "completed"

\* A queued Activation that no Runtime is about to start: its admission was
\* refused or its Runtime went away, and it waits to be offered again.
AwaitsAdmission ==
    \E a \in Signals :
        /\ act[a].status = "queued"
        /\ \A r \in Runtimes : task[r].pc = "admitting" => task[r].act # a

\* A pending Signal whose dispatch created an Activation for those before it:
\* the id of its own Activation is taken.
Outrun(s) ==
    signal[s].status = "pending" /\ Current(signal[s]) /\ act[s].status # "absent"

\* Every Signal in the mailbox is eventually acknowledged through crashes, lost
\* leases and recoveries (reconcile_runnable_pending_thread_signals), unless the
\* Thread is paused or terminal, the mailbox is behind a Signal that overflowed a
\* batch (OverflowIsServed), or an Activation is left in the admission queue for
\* ever.
PendingSettles ==
    \/ \A s \in Signals :
         []<>(\/ signal[s].status \notin {"pending", "claimed"}
              \/ thread.control = "paused"
              \/ thread.status # "open"
              \/ \E x \in Signals : Outrun(x))
    \/ <>[]AwaitsAdmission

\* Documented: a Signal beyond the batch limit is kept for a later Activation
\* (domain_model_v1 3.7.1 rule 3).
OverflowIsServed ==
    \A s \in Signals :
        Outrun(s) ~> \/ signal[s].status # "pending"
                     \/ thread.control = "paused"
                     \/ thread.status # "open"

\* Documented: input whose Activation lost its lease stays with the recovered
\* Activation; the Runtime that lost it cannot acknowledge it (domain_model_v1
\* 3.7.1 rule 7).
LostLeaseKeepsInput ==
    [][\A r \in Runtimes, s \in Signals :
         /\ task[r].pc = "closing"
         /\ task'[r].pc = "idle"
         /\ signal[s].status = "claimed"
         /\ signal[s].batch = task[r].act
         /\ act[task[r].act].owner # r
         => signal'[s].status = "claimed"]_vars
=============================================================================
