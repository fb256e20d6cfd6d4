---------------------------- MODULE EdgeCommand ----------------------------
(***************************************************************************)
(* Edge execution: tool calls that run on a user's own machine.  The         *)
(* Runtime stores one Edge Command per Execution Job                         *)
(* (memory/postgres/edge.rs); the workers of a paired Node poll it over HTTP, *)
(* claim a command under a lease, heartbeat it, run the tool and submit its   *)
(* end (edge_node.rs).                                                       *)
(*                                                                          *)
(* Every transition of a row is fenced by its revision and claim token.  A    *)
(* token is drawn for each claim and a worker serves one command at a time,   *)
(* so the holder stands for the token; and under one claim only a            *)
(* cancellation request moves the revision behind the holder's back, so the   *)
(* status the holder last saw stands for the revision it last saw.           *)
(***************************************************************************)
EXTENDS Naturals, FiniteSets

CONSTANTS Commands,     \* Edge Commands of one Node
          Gated,        \* those whose boundary is persisted at the tool's gate
                        \* (exec, artifact transfer), not by the first heartbeat
          Workers,      \* pollers holding the Node's credentials
          NoWorker,
          MaxInFlight,  \* edge_execution.max_in_flight_per_node
          MaxFaults     \* bound on crashes, lost replies and slow workers

ASSUME CommandsAssumption ==
    Commands # {} /\ IsFiniteSet(Commands) /\ Gated \subseteq Commands
ASSUME WorkersAssumption == NoWorker \notin Workers /\ IsFiniteSet(Workers)
ASSUME BoundsAssumption == MaxInFlight \in Nat \ {0} /\ MaxFaults \in Nat

VARIABLES
    node,       \* the Node's registration
    cmd,        \* edge_execution_commands rows
    wanted,     \* cancel_requested_at of the Execution Job of each command
    worker,     \* what each poller holds in memory
    effects,    \* how often each command's physical action happened
    faults

vars == <<node, cmd, wanted, worker, effects, faults>>

Held == {"claimed", "cancel_requested"}
Terminal == {"succeeded", "failed", "cancelled", "lost"}

CommandRow == [status : {"absent", "queued"} \cup Held \cup Terminal,
               holder : Workers \cup {NoWorker},
               leased : BOOLEAN, started : BOOLEAN]
WorkerRow == [pc : {"idle", "counted", "held", "preflight", "running",
                    "cancelling"},
              cmd : Commands, seen : Held, gate : BOOLEAN, acted : BOOLEAN]

TypeOK ==
    /\ node \in {"paired", "revoked"}
    /\ cmd \in [Commands -> CommandRow]
    /\ wanted \in [Commands -> BOOLEAN]
    /\ worker \in [Workers -> WorkerRow]
    /\ effects \in [Commands -> Nat]
    /\ faults \in 0..MaxFaults

AbsentRow == [status |-> "absent", holder |-> NoWorker, leased |-> FALSE,
              started |-> FALSE]
Fresh(c) == [pc |-> "held", cmd |-> c, seen |-> "claimed", gate |-> FALSE,
             acted |-> FALSE]
Idle == [Fresh(CHOOSE c \in Commands : TRUE) EXCEPT !.pc = "idle"]

Init ==
    /\ node = "paired"
    /\ cmd = [c \in Commands |-> AbsentRow]
    /\ wanted = [c \in Commands |-> FALSE]
    /\ worker = [w \in Workers |-> Idle]
    /\ effects = [c \in Commands |-> 0]
    /\ faults = 0

-----------------------------------------------------------------------------
(* The Runtime's side: dispatch, cancellation, revocation. *)

\* EdgeNodeBackend::execute: one row per Job, however often the Job is
\* dispatched; the Node may have been revoked since the target was resolved.
Create(c) ==
    /\ cmd[c].status = "absent"
    /\ cmd' = [cmd EXCEPT ![c].status = "queued"]
    /\ UNCHANGED <<node, wanted, worker, effects, faults>>

\* Thread, Objective and Session control cancel the Job, not the command.
CancelJob(c) ==
    /\ ~ wanted[c]
    /\ cmd[c].status \notin Terminal
    /\ wanted' = [wanted EXCEPT ![c] = TRUE]
    /\ UNCHANGED <<node, cmd, worker, effects, faults>>

CancelRow(row) ==
    CASE row.status = "queued"  -> [row EXCEPT !.status = "cancelled"]
      [] row.status = "claimed" -> [row EXCEPT !.status = "cancel_requested"]
      [] OTHER                  -> row

\* request_edge_command_cancel, after the Job's own cancellation.
RequestCancel(c) ==
    /\ wanted[c]
    /\ cmd[c].status \in {"queued", "claimed"}
    /\ cmd' = [cmd EXCEPT ![c] = CancelRow(@)]
    /\ UNCHANGED <<node, wanted, worker, effects, faults>>

RevokeRow(row) ==
    CASE row.status = "queued" -> [row EXCEPT !.status = "cancelled"]
      [] row.status \in Held   -> [row EXCEPT !.status = "lost"]
      [] OTHER                 -> row

Revoke ==
    /\ node = "paired"
    /\ node' = "revoked"
    /\ cmd' = [c \in Commands |-> RevokeRow(cmd[c])]
    /\ UNCHANGED <<wanted, worker, effects, faults>>

-----------------------------------------------------------------------------
(* Leases. *)

Expired(row) == row.status \in Held /\ ~ row.leased

\* An expired claim that did not cross the boundary may be served again.
ExpireClaim(row) ==
    IF row.status # "claimed" \/ row.leased THEN row
    ELSE IF row.started THEN [row EXCEPT !.status = "lost"]
    ELSE [row EXCEPT !.status = "queued", !.holder = NoWorker]

\* Mutant: the reconciler sees expired claims only.
ReconcileClaims(row) == ExpireClaim(row)

ReconcileRow(row) ==
    IF row.status = "cancel_requested" /\ ~ row.leased
    THEN [row EXCEPT !.status = "lost"] ELSE ExpireClaim(row)

\* reconcile_edge_execution, every reconcile_interval.
Reconcile ==
    /\ \E c \in Commands : Expired(cmd[c])
    /\ cmd' = [c \in Commands |-> ReconcileRow(cmd[c])]
    /\ UNCHANGED <<node, wanted, worker, effects, faults>>

\* No worker is at work on the claim any more.
Deserted(c) ==
    \A w \in Workers : cmd[c].holder = w =>
        worker[w].pc \in {"idle", "counted"} \/ worker[w].cmd # c

\* The lease of a worker that is gone runs out; one that is alive is only
\* overtaken by its lease when it is slow.
ExpireLease(c) ==
    /\ cmd[c].status \in Held
    /\ cmd[c].leased
    /\ cmd' = [cmd EXCEPT ![c].leased = FALSE]
    /\ \/ Deserted(c) /\ UNCHANGED faults
       \/ ~ Deserted(c) /\ faults < MaxFaults /\ faults' = faults + 1
    /\ UNCHANGED <<node, wanted, worker, effects>>

-----------------------------------------------------------------------------
(* claim_edge_command: a transaction at READ COMMITTED.  It counts, then      *)
(* takes; two claims may count before either takes.                          *)

Active(rows) == { c \in Commands : rows[c].status \in Held }
Queued == { c \in Commands : cmd[c].status = "queued" }

HasRoom(rows) == Cardinality(Active(rows)) < MaxInFlight

ClaimBegin(w) ==
    /\ worker[w].pc = "idle"
    /\ node = "paired"
    /\ \/ \E c \in Commands : cmd[c].status = "claimed" /\ Expired(cmd[c])
       \/ Queued # {} /\ HasRoom(cmd)
    /\ cmd' = [c \in Commands |-> ExpireClaim(cmd[c])]
    /\ worker' = [worker EXCEPT
                    ![w].pc = IF HasRoom(cmd') THEN "counted" ELSE "idle"]
    /\ UNCHANGED <<node, wanted, effects, faults>>

ClaimTake(w, c) ==
    /\ worker[w].pc = "counted"
    /\ c \in Queued
    /\ cmd' = [cmd EXCEPT ![c].status = "claimed", ![c].holder = w,
                          ![c].leased = TRUE]
    /\ worker' = [worker EXCEPT ![w] = Fresh(c)]
    /\ UNCHANGED <<node, wanted, effects, faults>>

ClaimNone(w) ==
    /\ worker[w].pc = "counted"
    /\ Queued = {}
    /\ worker' = [worker EXCEPT ![w] = Idle]
    /\ UNCHANGED <<node, cmd, wanted, effects, faults>>

-----------------------------------------------------------------------------
(* Heartbeats.  The row of the worker's command, when the worker still owns   *)
(* it: anything else is a conflict, and the worker gives up.                  *)

Row(w) == cmd[worker[w].cmd]

Owns(w) == node = "paired" /\ Row(w).holder = w /\ Row(w).status \in Held

\* Mutant: only an explicit cancellation of the command is noticed.
BeatIgnoringJob(w, boundary) ==
    IF Row(w).status = "cancel_requested" THEN Row(w)
    ELSE [Row(w) EXCEPT !.leased = TRUE, !.started = @ \/ boundary]

\* The store's heartbeat, then the Runtime's: a claim whose Job is cancelled
\* becomes a cancellation request.  The answer is the row itself; a row
\* already being cancelled is answered unchanged, boundary and lease included.
BeatRow(w, boundary) ==
    IF Row(w).status = "cancel_requested" THEN Row(w)
    ELSE LET row == [Row(w) EXCEPT !.leased = TRUE, !.started = @ \/ boundary]
         IN  IF wanted[worker[w].cmd] THEN CancelRow(row) ELSE row

Beat(w, boundary) ==
    /\ Owns(w)
    /\ cmd' = [cmd EXCEPT ![worker[w].cmd] = BeatRow(w, boundary)]

\* !reconcile_safe_transfer && !exec_defers_side_effect_until_spawn
BoundaryFirst(w) == worker[w].cmd \notin Gated

FirstBeat(w) ==
    /\ worker[w].pc = "held"
    /\ Beat(w, BoundaryFirst(w))
    /\ LET seen == BeatRow(w, BoundaryFirst(w)).status IN
       worker' = [worker EXCEPT ![w].seen = seen,
                    ![w].pc = IF seen = "claimed" THEN "preflight"
                                                  ELSE "cancelling"]
    /\ UNCHANGED <<node, wanted, effects, faults>>

\* prepare_execution_command and authorize_local_capability said yes.
StartTool(w) ==
    /\ worker[w].pc = "preflight"
    /\ worker' = [worker EXCEPT ![w].pc = "running"]
    /\ UNCHANGED <<node, cmd, wanted, effects, faults>>

\* The tool waits at its gate; the worker heartbeats the boundary and lets it
\* pass, whatever status the answer carries.
GateBeat(w) ==
    /\ worker[w].pc = "running" /\ ~ worker[w].gate
    /\ worker[w].cmd \in Gated
    /\ Beat(w, TRUE)
    /\ worker' = [worker EXCEPT ![w].seen = BeatRow(w, TRUE).status,
                                ![w].gate = TRUE]
    /\ UNCHANGED <<node, wanted, effects, faults>>

\* The tool's irreversible action.
Act(w) ==
    /\ worker[w].pc = "running" /\ ~ worker[w].acted
    /\ worker[w].cmd \in Gated => worker[w].gate
    /\ worker' = [worker EXCEPT ![w].acted = TRUE]
    /\ effects' = [effects EXCEPT ![worker[w].cmd] = @ + 1]
    /\ UNCHANGED <<node, cmd, wanted, faults>>

\* The periodic heartbeat; a cancellation drops the tool's future.
Tick(w) ==
    /\ worker[w].pc = "running"
    /\ Beat(w, BoundaryFirst(w) \/ worker[w].gate)
    /\ LET seen == BeatRow(w, BoundaryFirst(w) \/ worker[w].gate).status IN
       worker' = [worker EXCEPT ![w].seen = seen,
                    ![w].pc = IF seen = "claimed" THEN "running"
                                                  ELSE "cancelling"]
    /\ UNCHANGED <<node, wanted, effects, faults>>

-----------------------------------------------------------------------------
(* finish_edge_command: fenced by token and revision. *)

\* Mutant: whoever finishes last writes the row.
FencedNever(w) == node = "paired"

Fenced(w) == Owns(w) /\ Row(w).status = worker[w].seen

End(w, status) ==
    /\ Fenced(w)
    /\ cmd' = [cmd EXCEPT ![worker[w].cmd].status = status]
    /\ worker' = [worker EXCEPT ![w] = Idle]
    /\ UNCHANGED <<node, wanted, effects, faults>>

PreflightFail(w) == worker[w].pc = "preflight" /\ End(w, "failed")

FinishSucceeded(w) ==
    worker[w].pc = "running" /\ worker[w].acted /\ End(w, "succeeded")

FinishFailed(w) == worker[w].pc = "running" /\ End(w, "failed")

FinishCancelled(w) == worker[w].pc = "cancelling" /\ End(w, "cancelled")

\* The call in flight was answered with a conflict, not at all, or the worker
\* crashed: poll_once returns an error and its tool future is dropped.
Refused(w) == worker[w].pc # "counted" /\ ~ Fenced(w)

GiveUp(w) ==
    /\ worker[w].pc # "idle"
    /\ worker' = [worker EXCEPT ![w] = Idle]
    /\ \/ Refused(w) /\ UNCHANGED faults
       \/ faults < MaxFaults /\ faults' = faults + 1
    /\ UNCHANGED <<node, cmd, wanted, effects>>

-----------------------------------------------------------------------------
WorkerStep(w) ==
    \/ ClaimBegin(w)
    \/ \E c \in Commands : ClaimTake(w, c)
    \/ ClaimNone(w)
    \/ FirstBeat(w)
    \/ StartTool(w)
    \/ GateBeat(w)
    \/ Act(w)
    \/ Tick(w)
    \/ PreflightFail(w)
    \/ FinishSucceeded(w)
    \/ FinishFailed(w)
    \/ FinishCancelled(w)
    \/ GiveUp(w)

ControlStep ==
    \/ \E c \in Commands :
          Create(c) \/ CancelJob(c) \/ RequestCancel(c) \/ ExpireLease(c)
    \/ Revoke
    \/ Reconcile

Next == ControlStep \/ \E w \in Workers : WorkerStep(w)

Spec == Init /\ [][Next]_vars

\* run_until_shutdown polls for ever, a request is answered, a tool ends, a
\* deserted lease runs out, and the reconciler runs every reconcile_interval.
Fairness ==
    /\ \A w \in Workers :
          /\ WF_vars(ClaimBegin(w))
          /\ WF_vars((\E c \in Commands : ClaimTake(w, c)) \/ ClaimNone(w))
          /\ WF_vars(FirstBeat(w))
          /\ WF_vars(StartTool(w) \/ PreflightFail(w))
          /\ WF_vars(FinishSucceeded(w) \/ FinishFailed(w))
          /\ WF_vars(FinishCancelled(w))
          /\ WF_vars(Refused(w) /\ GiveUp(w))
    /\ \A c \in Commands : WF_vars(Deserted(c) /\ ExpireLease(c))
    /\ WF_vars(Reconcile)

FairSpec == Spec /\ Fairness

-----------------------------------------------------------------------------
(* Properties *)

Verdict(row) ==
    CASE row.status = "absent"                 -> "none"
      [] row.status \in {"queued"} \cup Held   -> "open"
      [] OTHER                                 -> row.status

\* To the Runtime an Edge Command is a physical tool call that cannot be
\* repeated (PhysicalCall): claims, leases, requeues, late heartbeats, lost
\* replies and the revocation of the Node never let the action happen twice,
\* nor after the command was reported succeeded, failed or cancelled.
Call == INSTANCE PhysicalCall WITH
    Calls      <- Commands,
    Definite   <- {"succeeded", "failed", "cancelled"},
    verdict    <- [c \in Commands |-> Verdict(cmd[c])],
    repeatable <- [c \in Commands |-> FALSE],
    acts       <- effects

EdgeIsPhysicalCall == Call!Spec

\* A Job that was cancelled before its command was claimed never acts: "Every
\* still-owning Edge heartbeat must observe that intent, including the first
\* heartbeat before local execution" (heartbeat_edge_command of the Runtime).
CancelledBeforeClaimNeverActs ==
    \A c \in Commands :
        [](wanted[c] /\ cmd[c].status \in {"absent", "queued"}
              => [](effects[c] = 0))

\* Every command ends, so the Execution Job that waits for it in
\* EdgeNodeBackend::execute goes on, unless its Node is revoked.
CommandEnds ==
    \A c \in Commands :
        cmd[c].status # "absent"
            ~> cmd[c].status \in Terminal \/ node = "revoked"
=============================================================================
