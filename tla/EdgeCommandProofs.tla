------------------------- MODULE EdgeCommandProofs -------------------------
(***************************************************************************)
(* What EdgeCommand promises, proved for every set of commands and workers,   *)
(* every limit and any number of faults: a command acts at most once and      *)
(* never after a definite verdict (the refinement of PhysicalCall), and one    *)
(* that was cancelled before it was claimed never acts.                       *)
(***************************************************************************)
EXTENDS EdgeCommand, TLAPS

-----------------------------------------------------------------------------
(* The inductive invariant. *)

\* A worker that has a command and has not been told to cancel it.
Working == {"held", "preflight", "running"}

\* A row nobody has, or has yet, claimed has left no trace.
FreeRows ==
    \A c \in Commands : cmd[c].status \in {"absent", "queued"} =>
        ~ cmd[c].started /\ cmd[c].holder = NoWorker /\ effects[c] = 0

\* The gate is passed by a running tool only.
GateShut ==
    \A w \in Workers : worker[w].pc \in {"held", "preflight"} =>
        ~ worker[w].gate /\ ~ worker[w].acted

\* Nothing but the worker's own steps is left between it and its action.
Crossed(w) ==
    \/ worker[w].pc = "preflight" /\ worker[w].cmd \notin Gated
    \/ worker[w].pc = "running" /\ (worker[w].cmd \notin Gated \/ worker[w].gate)

\* Such a worker's row can not be served again: its boundary is persisted, or a
\* cancellation or a loss has taken it out of the queue for good.
Unservable(row) ==
    \/ row.status = "claimed" /\ row.started
    \/ row.status \in {"cancel_requested", "lost"}
CrossedHolds ==
    \A w \in Workers : Crossed(w) => Row(w).holder = w /\ Unservable(Row(w))

\* A tool that has acted ...
ActedCounts ==
    \A w \in Workers : worker[w].pc = "running" /\ worker[w].acted =>
        Crossed(w) /\ effects[worker[w].cmd] > 0

\* ... and a command whose action happened is served to nobody else.
ActedHolds ==
    \A c \in Commands : effects[c] > 0 =>
        /\ cmd[c].status = "claimed" => cmd[c].started
        /\ \A w \in Workers :
              worker[w].cmd = c /\ cmd[c].holder = w /\ worker[w].pc \in Working
                  => worker[w].acted

IInv ==
    /\ TypeOK
    /\ FreeRows /\ GateShut /\ CrossedHolds /\ ActedCounts /\ ActedHolds

\* The Job is cancelled, and no worker of the command can get past its next
\* heartbeat.
Doomed(c) ==
    /\ wanted[c] /\ effects[c] = 0
    /\ \A w \in Workers :
          worker[w].cmd = c /\ worker[w].pc \in {"preflight", "running"} =>
              c \in Gated /\ ~ worker[w].gate /\ cmd[c].holder # w

\* A step keeps the invariant and dooms for good.
Keeps == IInv' /\ \A c \in Commands : Doomed(c) => Doomed(c)'

-----------------------------------------------------------------------------
(* The rows and their types. *)

\* The idle worker is a worker, and at rest.
LEMMA IdleRow == Idle \in WorkerRow /\ Idle.pc = "idle"
<1>1. (CHOOSE c \in Commands : TRUE) \in Commands
  BY CommandsAssumption
<1> QED  BY <1>1 DEF Idle, Fresh, WorkerRow, Held

\* The fields of the rows.
LEMMA Fields ==
    ASSUME TypeOK
    PROVE  /\ \A c \in Commands :
                 /\ cmd[c] \in CommandRow /\ effects[c] \in Nat
                 /\ wanted[c] \in BOOLEAN
                 /\ cmd[c].started \in BOOLEAN /\ cmd[c].leased \in BOOLEAN
                 /\ cmd[c].holder \in Workers \cup {NoWorker}
                 /\ cmd[c].status \in {"absent", "queued"} \cup Held \cup Terminal
           /\ \A w \in Workers :
                 /\ worker[w] \in WorkerRow /\ worker[w].cmd \in Commands
                 /\ worker[w].gate \in BOOLEAN /\ worker[w].acted \in BOOLEAN
BY DEF TypeOK, CommandRow, WorkerRow

\* How control, leases and claims that are given up move a row: it is never put
\* back into the queue once it can not be served, and is never handed to a
\* worker.
Quiet(a, b) ==
    /\ b \in CommandRow
    /\ b.started = a.started
    /\ b.holder \in {a.holder, NoWorker}
    /\ Unservable(a) => Unservable(b) /\ b.holder = a.holder
    /\ b.status = "claimed" => a.status = "claimed"
    /\ b.status \in {"absent", "queued"} =>
         /\ a.status \in {"absent", "queued"} \/ (a.status = "claimed" /\ ~ a.started)
         /\ b.holder = NoWorker

\* A row that is not touched.
LEMMA QuietSame == ASSUME IInv, NEW c \in Commands PROVE Quiet(cmd[c], cmd[c])
<1>1. cmd[c].status \in {"absent", "queued"} => cmd[c].holder = NoWorker
  BY DEF IInv, FreeRows
<1>2. cmd[c] \in CommandRow
  BY Fields DEF IInv
<1> QED  BY <1>1, <1>2 DEF Quiet

\* What the Runtime and the clock do to a row.
LEMMA QuietMoves ==
    ASSUME IInv, NEW c \in Commands
    PROVE  /\ cmd[c].status = "absent" =>
                Quiet(cmd[c], [cmd[c] EXCEPT !.status = "queued"])
           /\ Quiet(cmd[c], CancelRow(cmd[c]))
           /\ Quiet(cmd[c], RevokeRow(cmd[c]))
           /\ Quiet(cmd[c], ExpireClaim(cmd[c]))
           /\ Quiet(cmd[c], ReconcileRow(cmd[c]))
           /\ cmd[c].status \in Held => Quiet(cmd[c], [cmd[c] EXCEPT !.leased = FALSE])
<1> DEFINE a == cmd[c]
<1>1. /\ a \in CommandRow
      /\ a.status \in {"absent", "queued"} => ~ a.started /\ a.holder = NoWorker
  BY Fields DEF IInv, FreeRows
<1> HIDE DEF a
<1>2. Quiet(a, a)
  BY <1>1 DEF Quiet
<1>3. a.status = "absent" => Quiet(a, [a EXCEPT !.status = "queued"])
  BY <1>1 DEF Quiet, CommandRow, Unservable
<1>4. Quiet(a, CancelRow(a))
  <2>1. CASE a.status = "queued"
    BY <1>1, <2>1 DEF Quiet, CommandRow, Unservable, CancelRow, Terminal
  <2>2. CASE a.status = "claimed"
    BY <1>1, <2>2 DEF Quiet, CommandRow, Unservable, CancelRow, Held
  <2>3. CASE a.status \notin {"queued", "claimed"}
    BY <1>2, <2>3 DEF CancelRow
  <2> QED  BY <2>1, <2>2, <2>3
<1>5. Quiet(a, RevokeRow(a))
  <2>1. CASE a.status = "queued"
    BY <1>1, <2>1 DEF Quiet, CommandRow, Unservable, RevokeRow, Terminal
  <2>2. CASE a.status \in Held
    BY <1>1, <2>2 DEF Quiet, CommandRow, Unservable, RevokeRow, Terminal, Held
  <2>3. CASE a.status \notin {"queued"} \cup Held
    BY <1>2, <2>3 DEF RevokeRow
  <2> QED  BY <2>1, <2>2, <2>3
<1>6. Quiet(a, ExpireClaim(a))
  <2>1. CASE a.status # "claimed" \/ a.leased
    BY <1>2, <2>1 DEF ExpireClaim
  <2>2. CASE a.status = "claimed" /\ ~ a.leased /\ a.started
    BY <1>1, <2>2 DEF Quiet, CommandRow, Unservable, ExpireClaim, Terminal
  <2>3. CASE a.status = "claimed" /\ ~ a.leased /\ ~ a.started
    BY <1>1, <2>3 DEF Quiet, CommandRow, Unservable, ExpireClaim
  <2> QED  BY <2>1, <2>2, <2>3
<1>7. Quiet(a, ReconcileRow(a))
  <2>1. CASE a.status = "cancel_requested" /\ ~ a.leased
    BY <1>1, <2>1 DEF Quiet, CommandRow, Unservable, ReconcileRow, Terminal
  <2>2. CASE ~ (a.status = "cancel_requested" /\ ~ a.leased)
    BY <1>6, <2>2 DEF ReconcileRow
  <2> QED  BY <2>1, <2>2
<1>8. a.status \in Held => Quiet(a, [a EXCEPT !.leased = FALSE])
  BY <1>1 DEF Quiet, CommandRow, Unservable, Held
<1> QED  BY <1>3, <1>4, <1>5, <1>6, <1>7, <1>8 DEF a

-----------------------------------------------------------------------------
(* Steps that hand no command to a worker. *)

\* A worker is left as it was, or has nothing to do any more.
Rests(u) == worker'[u] = worker[u] \/ worker'[u].pc \notin Working

\* The steps of the Runtime, of the clock, and of a worker that gives up.
LEMMA QuietStep ==
    ASSUME IInv, TypeOK', effects' = effects,
           \A c \in Commands : Quiet(cmd[c], cmd'[c]),
           \A c \in Commands : wanted[c] => wanted'[c],
           \A u \in Workers : Rests(u)
    PROVE  Keeps
<1>1. FreeRows'
  <2> SUFFICES ASSUME NEW c \in Commands, cmd'[c].status \in {"absent", "queued"}
               PROVE  ~ cmd'[c].started /\ cmd'[c].holder = NoWorker /\ effects[c] = 0
    BY DEF FreeRows
  <2>1. /\ cmd'[c].started = cmd[c].started /\ cmd'[c].holder = NoWorker
        /\ cmd[c].status \in {"absent", "queued"} \/ (cmd[c].status = "claimed" /\ ~ cmd[c].started)
    BY DEF Quiet
  <2>2. CASE cmd[c].status \in {"absent", "queued"}
    BY <2>1, <2>2 DEF IInv, FreeRows
  <2>3. CASE cmd[c].status = "claimed" /\ ~ cmd[c].started
    <3>1. effects[c] \in Nat /\ ~ (effects[c] > 0)
      BY <2>3, Fields DEF IInv, ActedHolds
    <3> QED  BY <2>1, <2>3, <3>1
  <2> QED  BY <2>1, <2>2, <2>3
<1>2. GateShut'
  BY DEF IInv, GateShut, Rests, Working
<1>3. CrossedHolds'
  <2> SUFFICES ASSUME NEW w \in Workers, Crossed(w)'
               PROVE  Row(w)'.holder = w /\ Unservable(Row(w)')
    BY DEF CrossedHolds
  <2>1. worker'[w] = worker[w]
    BY DEF Crossed, Rests, Working
  <2>2. Crossed(w) /\ worker[w].cmd \in Commands
    BY <2>1, Fields DEF Crossed, IInv
  <2>3. Row(w).holder = w /\ Unservable(Row(w))
    BY <2>2 DEF IInv, CrossedHolds
  <2>4. Quiet(Row(w), Row(w)')
    BY <2>1, <2>2 DEF Row
  <2> QED  BY <2>3, <2>4 DEF Quiet
<1>4. ActedCounts'
  <2> SUFFICES ASSUME NEW w \in Workers, worker'[w].pc = "running", worker'[w].acted
               PROVE  Crossed(w)' /\ effects[worker'[w].cmd] > 0
    BY DEF ActedCounts
  <2>1. worker'[w] = worker[w]
    BY DEF Rests, Working
  <2>2. Crossed(w) /\ effects[worker[w].cmd] > 0
    BY <2>1 DEF IInv, ActedCounts
  <2> QED  BY <2>1, <2>2 DEF Crossed
<1>5. ActedHolds'
  <2> SUFFICES ASSUME NEW c \in Commands, effects[c] > 0
               PROVE  /\ cmd'[c].status = "claimed" => cmd'[c].started
                      /\ \A w \in Workers :
                            worker'[w].cmd = c /\ cmd'[c].holder = w
                               /\ worker'[w].pc \in Working => worker'[w].acted
    BY DEF ActedHolds
  <2>1. Quiet(cmd[c], cmd'[c])
    OBVIOUS
  <2>2. cmd'[c].status = "claimed" => cmd'[c].started
    BY <2>1 DEF Quiet, IInv, ActedHolds
  <2>3. ASSUME NEW w \in Workers, worker'[w].cmd = c, cmd'[c].holder = w,
               worker'[w].pc \in Working
        PROVE  worker'[w].acted
    <3>1. worker'[w] = worker[w] /\ cmd[c].holder = w
      BY <2>1, <2>3, WorkersAssumption DEF Rests, Quiet
    <3> QED  BY <2>3, <3>1 DEF IInv, ActedHolds
  <2> QED  BY <2>2, <2>3
<1>6. ASSUME NEW c \in Commands, Doomed(c) PROVE Doomed(c)'
  <2>1. Quiet(cmd[c], cmd'[c]) /\ wanted'[c] /\ effects'[c] = 0
    BY <1>6 DEF Doomed
  <2>2. ASSUME NEW w \in Workers, worker'[w].cmd = c,
               worker'[w].pc \in {"preflight", "running"}
        PROVE  c \in Gated /\ ~ worker'[w].gate /\ cmd'[c].holder # w
    <3>1. worker'[w] = worker[w]
      BY <2>2 DEF Rests, Working
    <3>2. c \in Gated /\ ~ worker[w].gate /\ cmd[c].holder # w
      BY <1>6, <2>2, <3>1 DEF Doomed
    <3> QED  BY <2>1, <3>1, <3>2, WorkersAssumption DEF Quiet
  <2> QED  BY <2>1, <2>2 DEF Doomed
<1> QED  BY <1>1, <1>2, <1>3, <1>4, <1>5, <1>6 DEF IInv, Keeps

\* EdgeNodeBackend::execute stores the command, and the Job is cancelled.
LEMMA CreateStep == ASSUME IInv, NEW c \in Commands, Create(c) PROVE Keeps
<1>1. /\ TypeOK /\ cmd[c].status = "absent"
      /\ cmd' = [cmd EXCEPT ![c] = [cmd[c] EXCEPT !.status = "queued"]]
      /\ UNCHANGED <<node, wanted, worker, effects, faults>>
  BY DEF IInv, Create
<1>2. \A d \in Commands : Quiet(cmd[d], cmd'[d])
  BY <1>1, QuietSame, QuietMoves, Fields DEF TypeOK
<1>3. TypeOK'
  BY <1>1, <1>2 DEF TypeOK, Quiet
<1> QED  BY <1>1, <1>2, <1>3, QuietStep DEF Rests

\* Control of the Thread cancels the Job, and the command is told.
LEMMA CancelStep ==
    ASSUME IInv, NEW c \in Commands, CancelJob(c) \/ RequestCancel(c)
    PROVE  Keeps
<1>0. TypeOK
  BY DEF IInv
<1>1. CASE CancelJob(c)
  <2>1. TypeOK'
    BY <1>0, <1>1 DEF TypeOK, CancelJob
  <2>2. \A d \in Commands : Quiet(cmd[d], cmd'[d])
    BY <1>1, QuietSame DEF CancelJob
  <2>3. \A d \in Commands : wanted[d] => wanted'[d]
    BY <1>0, <1>1 DEF CancelJob, TypeOK
  <2> QED  BY <1>1, <2>1, <2>2, <2>3, QuietStep DEF Rests, CancelJob
<1>2. CASE RequestCancel(c)
  <2>1. /\ cmd' = [cmd EXCEPT ![c] = CancelRow(cmd[c])]
        /\ UNCHANGED <<node, wanted, worker, effects, faults>>
    BY <1>2 DEF RequestCancel
  <2>2. \A d \in Commands : Quiet(cmd[d], cmd'[d])
    BY <1>0, <2>1, QuietSame, QuietMoves DEF TypeOK
  <2>3. TypeOK'
    BY <1>0, <2>1, <2>2 DEF TypeOK, Quiet
  <2> QED  BY <2>1, <2>2, <2>3, QuietStep DEF Rests
<1> QED  BY <1>1, <1>2

\* A lease runs out.
LEMMA ExpireLeaseStep == ASSUME IInv, NEW c \in Commands, ExpireLease(c) PROVE Keeps
<1>1. /\ TypeOK /\ cmd[c].status \in Held
      /\ cmd' = [cmd EXCEPT ![c] = [cmd[c] EXCEPT !.leased = FALSE]]
      /\ UNCHANGED <<node, wanted, worker, effects>>
  BY DEF IInv, ExpireLease
<1>2. \A d \in Commands : Quiet(cmd[d], cmd'[d])
  BY <1>1, QuietSame, QuietMoves DEF TypeOK
<1>3. faults' \in 0..MaxFaults
  BY <1>1, BoundsAssumption DEF ExpireLease, TypeOK
<1>4. TypeOK'
  BY <1>1, <1>2, <1>3 DEF TypeOK, Quiet
<1> QED  BY <1>1, <1>2, <1>4, QuietStep DEF Rests

\* The Node is revoked, or the reconciler visits its rows.
LEMMA SweepStep == ASSUME IInv, Revoke \/ Reconcile PROVE Keeps
<1>0. TypeOK
  BY DEF IInv
<1>1. /\ node' \in {"paired", "revoked"}
      /\ UNCHANGED <<wanted, worker, effects, faults>>
      /\ \/ cmd' = [c \in Commands |-> RevokeRow(cmd[c])]
         \/ cmd' = [c \in Commands |-> ReconcileRow(cmd[c])]
  BY <1>0 DEF Revoke, Reconcile, TypeOK
<1>2. \A c \in Commands : Quiet(cmd[c], cmd'[c])
  BY <1>1, QuietMoves
<1>3. cmd' \in [Commands -> CommandRow]
  BY <1>1, <1>2 DEF Quiet
<1>4. TypeOK'
  BY <1>0, <1>1, <1>3 DEF TypeOK
<1> QED  BY <1>1, <1>2, <1>4, QuietStep DEF Rests

\* A claim expires what has run out and counts; it finds nothing; a worker gives up.
LEMMA NoClaimStep ==
    ASSUME IInv, NEW w \in Workers, ClaimBegin(w) \/ ClaimNone(w) \/ GiveUp(w)
    PROVE  Keeps
<1>0. TypeOK /\ worker[w] \in WorkerRow
  BY Fields DEF IInv
<1>1. CASE ClaimBegin(w)
  <2>1. /\ cmd' = [c \in Commands |-> ExpireClaim(cmd[c])]
        /\ UNCHANGED <<node, wanted, effects, faults>>
    BY <1>1 DEF ClaimBegin
  <2>2. PICK pc \in {"counted", "idle"} :
           worker' = [worker EXCEPT ![w] = [worker[w] EXCEPT !.pc = pc]]
    BY <1>1 DEF ClaimBegin
  <2>3. /\ [worker[w] EXCEPT !.pc = pc] \in WorkerRow
        /\ [worker[w] EXCEPT !.pc = pc].pc = pc
    BY <1>0, <2>2 DEF WorkerRow
  <2>4. \A c \in Commands : Quiet(cmd[c], cmd'[c])
    BY <2>1, QuietMoves
  <2>5. TypeOK'
    BY <1>0, <2>1, <2>2, <2>3, <2>4 DEF TypeOK, Quiet
  <2>6. \A u \in Workers : Rests(u)
    BY <1>0, <2>2, <2>3 DEF Rests, Working, TypeOK
  <2> QED  BY <2>1, <2>4, <2>5, <2>6, QuietStep
<1>2. CASE ClaimNone(w) \/ GiveUp(w)
  <2>1. /\ worker' = [worker EXCEPT ![w] = Idle]
        /\ UNCHANGED <<node, cmd, wanted, effects>>
    BY <1>2 DEF ClaimNone, GiveUp
  <2>2. faults' \in 0..MaxFaults
    BY <1>0, <1>2, BoundsAssumption DEF ClaimNone, GiveUp, TypeOK
  <2>3. TypeOK'
    BY <1>0, <2>1, <2>2, IdleRow DEF TypeOK
  <2>4. \A u \in Workers : Rests(u)
    BY <1>0, <2>1, IdleRow DEF Rests, Working, TypeOK
  <2>5. \A c \in Commands : Quiet(cmd[c], cmd'[c])
    BY <2>1, QuietSame
  <2> QED  BY <2>1, <2>3, <2>4, <2>5, QuietStep
<1> QED  BY <1>1, <1>2

-----------------------------------------------------------------------------
(* A claim, and what its worker does with it. *)

\* finish_edge_command: the holder's own row ends, and the holder rests.
LEMMA EndStep ==
    ASSUME IInv, NEW w \in Workers, NEW status \in Terminal, End(w, status)
    PROVE  Keeps
<1> DEFINE c == worker[w].cmd
<1>1. /\ TypeOK /\ c \in Commands /\ cmd[c] \in CommandRow
      /\ cmd[c].holder = w /\ cmd[c].status \in Held
      /\ cmd' = [cmd EXCEPT ![c] = [cmd[c] EXCEPT !.status = status]]
      /\ worker' = [worker EXCEPT ![w] = Idle]
      /\ UNCHANGED <<node, wanted, effects, faults>>
  BY Fields DEF IInv, End, Fenced, Owns, Row
<1> HIDE DEF c
<1>2. /\ cmd'[c] \in CommandRow /\ cmd'[c].status = status
      /\ cmd'[c].holder = w /\ cmd'[c].started = cmd[c].started
      /\ \A d \in Commands : d # c => cmd'[d] = cmd[d]
      /\ worker'[w].pc = "idle"
      /\ \A u \in Workers : u # w => worker'[u] = worker[u]
  BY <1>1, IdleRow DEF CommandRow, TypeOK
<1>3. TypeOK'
  BY <1>1, <1>2, IdleRow DEF TypeOK
<1>4. status \notin {"absent", "queued", "claimed"}
  BY DEF Terminal
<1>5. FreeRows' /\ GateShut'
  BY <1>1, <1>2, <1>4 DEF IInv, FreeRows, GateShut
<1>6. \A u \in Workers : Crossed(u)' =>
         /\ Crossed(u) /\ worker'[u] = worker[u] /\ worker[u].cmd # c
  <2> SUFFICES ASSUME NEW u \in Workers, Crossed(u)'
               PROVE  Crossed(u) /\ worker'[u] = worker[u] /\ worker[u].cmd # c
    OBVIOUS
  <2>1. u # w
    BY <1>2 DEF Crossed
  <2>2. worker'[u] = worker[u] /\ Crossed(u)
    BY <1>2, <2>1 DEF Crossed
  <2>3. Row(u).holder = u
    BY <2>2 DEF IInv, CrossedHolds
  <2> QED  BY <1>1, <2>1, <2>2, <2>3 DEF Row
<1>7. CrossedHolds'
  <2> SUFFICES ASSUME NEW u \in Workers, Crossed(u)'
               PROVE  Row(u)'.holder = u /\ Unservable(Row(u)')
    BY DEF CrossedHolds
  <2>1. /\ Crossed(u) /\ worker'[u] = worker[u] /\ worker[u].cmd # c
        /\ worker[u].cmd \in Commands
    BY <1>1, <1>6, Fields
  <2>2. Row(u)' = Row(u)
    BY <1>2, <2>1 DEF Row
  <2> QED  BY <2>1, <2>2 DEF IInv, CrossedHolds
<1>8. ActedCounts'
  <2> SUFFICES ASSUME NEW u \in Workers, worker'[u].pc = "running", worker'[u].acted
               PROVE  Crossed(u)' /\ effects[worker'[u].cmd] > 0
    BY <1>1 DEF ActedCounts
  <2>1. worker'[u] = worker[u]
    BY <1>2
  <2> QED  BY <2>1 DEF IInv, ActedCounts, Crossed
<1>9. ActedHolds'
  <2> SUFFICES ASSUME NEW d \in Commands, effects[d] > 0
               PROVE  /\ cmd'[d].status = "claimed" => cmd'[d].started
                      /\ \A u \in Workers :
                            worker'[u].cmd = d /\ cmd'[d].holder = u
                               /\ worker'[u].pc \in Working => worker'[u].acted
    BY <1>1 DEF ActedHolds
  <2>1. cmd'[d].status = "claimed" => cmd'[d].started
    BY <1>2, <1>4 DEF IInv, ActedHolds
  <2>2. ASSUME NEW u \in Workers, worker'[u].cmd = d, cmd'[d].holder = u,
               worker'[u].pc \in Working
        PROVE  worker'[u].acted
    <3>1. u # w /\ worker'[u] = worker[u] /\ cmd[d].holder = u
      BY <1>1, <1>2, <2>2 DEF Working
    <3> QED  BY <2>2, <3>1 DEF IInv, ActedHolds
  <2> QED  BY <2>1, <2>2
<1>10. ASSUME NEW d \in Commands, Doomed(d) PROVE Doomed(d)'
  <2>1. wanted'[d] /\ effects'[d] = 0 /\ cmd'[d].holder = cmd[d].holder
    BY <1>1, <1>2, <1>10 DEF Doomed
  <2>2. \A u \in Workers : worker'[u].pc \in {"preflight", "running"} => worker'[u] = worker[u]
    BY <1>2
  <2> QED  BY <1>10, <2>1, <2>2 DEF Doomed
<1> QED  BY <1>3, <1>5, <1>7, <1>8, <1>9, <1>10 DEF IInv, Keeps

\* claim_edge_command takes a queued row: no one has acted for it.
LEMMA ClaimTakeStep ==
    ASSUME IInv, NEW w \in Workers, NEW c \in Commands, ClaimTake(w, c)
    PROVE  Keeps
<1>1. /\ TypeOK /\ cmd[c] \in CommandRow /\ cmd[c].status = "queued"
      /\ cmd' = [cmd EXCEPT ![c] = [cmd[c] EXCEPT !.status = "claimed",
                                        !.holder = w, !.leased = TRUE]]
      /\ worker' = [worker EXCEPT ![w] = Fresh(c)]
      /\ UNCHANGED <<node, wanted, effects, faults>>
  <2>1. cmd' = [cmd EXCEPT ![c] = [cmd[c] EXCEPT !.status = "claimed",
                                        !.holder = w, !.leased = TRUE]]
    BY DEF ClaimTake, IInv, TypeOK
  <2> QED  BY <2>1, Fields DEF IInv, ClaimTake, Queued
<1>2. ~ cmd[c].started /\ cmd[c].holder = NoWorker /\ effects[c] = 0
  BY <1>1 DEF IInv, FreeRows
<1>3. /\ cmd'[c] \in CommandRow /\ cmd'[c].status = "claimed" /\ cmd'[c].holder = w
      /\ \A d \in Commands : d # c => cmd'[d] = cmd[d]
  BY <1>1 DEF CommandRow, TypeOK, Held
<1>4. /\ worker'[w] \in WorkerRow /\ worker'[w].pc = "held" /\ worker'[w].cmd = c
      /\ ~ worker'[w].gate /\ ~ worker'[w].acted
      /\ \A u \in Workers : u # w => worker'[u] = worker[u]
  BY <1>1 DEF Fresh, WorkerRow, TypeOK, Held
<1>5. TypeOK'
  BY <1>1, <1>3, <1>4 DEF TypeOK
<1>6. FreeRows' /\ GateShut'
  BY <1>1, <1>3, <1>4 DEF IInv, FreeRows, GateShut
<1>7. CrossedHolds'
  <2> SUFFICES ASSUME NEW u \in Workers, Crossed(u)'
               PROVE  Row(u)'.holder = u /\ Unservable(Row(u)')
    BY DEF CrossedHolds
  <2>1. worker'[u] = worker[u] /\ Crossed(u) /\ worker[u].cmd \in Commands
    BY <1>1, <1>4, Fields DEF Crossed
  <2>2. Row(u).holder = u /\ Unservable(Row(u))
    BY <2>1 DEF IInv, CrossedHolds
  <2>3. Row(u)' = Row(u)
    BY <1>1, <1>3, <2>1, <2>2 DEF Row, Unservable
  <2> QED  BY <2>2, <2>3
<1>8. ActedCounts'
  <2> SUFFICES ASSUME NEW u \in Workers, worker'[u].pc = "running", worker'[u].acted
               PROVE  Crossed(u)' /\ effects[worker'[u].cmd] > 0
    BY <1>1 DEF ActedCounts
  <2>1. worker'[u] = worker[u]
    BY <1>4
  <2> QED  BY <2>1 DEF IInv, ActedCounts, Crossed
<1>9. ActedHolds'
  <2> SUFFICES ASSUME NEW d \in Commands, effects[d] > 0
               PROVE  /\ cmd'[d].status = "claimed" => cmd'[d].started
                      /\ \A u \in Workers :
                            worker'[u].cmd = d /\ cmd'[d].holder = u
                               /\ worker'[u].pc \in Working => worker'[u].acted
    BY <1>1 DEF ActedHolds
  <2>1. d # c
    BY <1>2
  <2>2. cmd'[d] = cmd[d] /\ (worker'[w].cmd # d)
    BY <1>3, <1>4, <2>1
  <2> QED  BY <1>4, <2>2 DEF IInv, ActedHolds
<1>10. ASSUME NEW d \in Commands, Doomed(d) PROVE Doomed(d)'
  <2>1. wanted'[d] /\ effects'[d] = 0
    BY <1>1, <1>10 DEF Doomed
  <2>2. ASSUME NEW u \in Workers, worker'[u].cmd = d,
               worker'[u].pc \in {"preflight", "running"}
        PROVE  d \in Gated /\ ~ worker'[u].gate /\ cmd'[d].holder # u
    <3>1. u # w /\ worker'[u] = worker[u]
      BY <1>4, <2>2
    <3>2. d \in Gated /\ ~ worker[u].gate /\ cmd[d].holder # u
      BY <1>10, <2>2, <3>1 DEF Doomed
    <3> QED  BY <1>3, <3>1, <3>2
  <2> QED  BY <2>1, <2>2 DEF Doomed
<1> QED  BY <1>5, <1>6, <1>7, <1>8, <1>9, <1>10 DEF IInv, Keeps

\* The preflight lets the tool run.
LEMMA StartToolStep == ASSUME IInv, NEW w \in Workers, StartTool(w) PROVE Keeps
<1>1. /\ TypeOK /\ worker[w] \in WorkerRow /\ worker[w].pc = "preflight"
      /\ worker' = [worker EXCEPT ![w] = [worker[w] EXCEPT !.pc = "running"]]
      /\ UNCHANGED <<node, cmd, wanted, effects, faults>>
  BY Fields DEF IInv, StartTool
<1>2. /\ worker'[w] \in WorkerRow /\ worker'[w].pc = "running"
      /\ worker'[w].cmd = worker[w].cmd /\ worker'[w].gate = worker[w].gate
      /\ worker'[w].acted = worker[w].acted
      /\ \A u \in Workers : u # w => worker'[u] = worker[u]
  BY <1>1 DEF WorkerRow, TypeOK
<1>3. ~ worker[w].gate /\ ~ worker[w].acted
  BY <1>1 DEF IInv, GateShut
<1>4. TypeOK'
  BY <1>1, <1>2 DEF TypeOK
<1>5. FreeRows' /\ GateShut'
  BY <1>1, <1>2 DEF IInv, FreeRows, GateShut
<1>6. \A u \in Workers : (Crossed(u)' <=> Crossed(u)) /\ Row(u)' = Row(u)
  BY <1>1, <1>2, <1>3 DEF Crossed, Row
<1>7. CrossedHolds'
  BY <1>6 DEF IInv, CrossedHolds
<1>8. ActedCounts'
  BY <1>1, <1>2, <1>3, <1>6 DEF IInv, ActedCounts
<1>9. ActedHolds'
  <2>1. \A u \in Workers :
           /\ worker'[u].cmd = worker[u].cmd /\ worker'[u].acted = worker[u].acted
           /\ worker'[u].pc \in Working <=> worker[u].pc \in Working
    BY <1>1, <1>2 DEF Working
  <2> QED  BY <1>1, <2>1 DEF IInv, ActedHolds
<1>10. ASSUME NEW d \in Commands, Doomed(d) PROVE Doomed(d)'
  <2>1. \A u \in Workers :
           /\ worker'[u].cmd = worker[u].cmd /\ worker'[u].gate = worker[u].gate
           /\ worker'[u].pc \in {"preflight", "running"} =>
                 worker[u].pc \in {"preflight", "running"}
    BY <1>1, <1>2
  <2> QED  BY <1>1, <1>10, <2>1 DEF Doomed
<1> QED  BY <1>4, <1>5, <1>7, <1>8, <1>9, <1>10 DEF IInv, Keeps

\* The action: the first of its command, and past every heartbeat.
LEMMA ActIsFirst ==
    ASSUME IInv, NEW w \in Workers, Act(w)
    PROVE  /\ Crossed(w) /\ effects[worker[w].cmd] = 0 /\ worker[w].cmd \in Commands
           /\ Row(w).holder = w /\ Unservable(Row(w))
<1>1. /\ TypeOK /\ worker[w].cmd \in Commands /\ effects[worker[w].cmd] \in Nat
      /\ worker[w].pc = "running" /\ ~ worker[w].acted
  BY Fields DEF IInv, Act
<1>2. Crossed(w)
  BY DEF Act, Crossed
<1>3. Row(w).holder = w /\ Unservable(Row(w))
  BY <1>2 DEF IInv, CrossedHolds
<1>4. ~ (effects[worker[w].cmd] > 0)
  BY <1>1, <1>3 DEF IInv, ActedHolds, Row, Working
<1> QED  BY <1>1, <1>2, <1>3, <1>4

\* The tool acts.
LEMMA ActStep == ASSUME IInv, NEW w \in Workers, Act(w) PROVE Keeps
<1> DEFINE c == worker[w].cmd
<1>1. /\ TypeOK /\ worker[w] \in WorkerRow /\ worker[w].pc = "running"
      /\ worker' = [worker EXCEPT ![w] = [worker[w] EXCEPT !.acted = TRUE]]
      /\ effects' = [effects EXCEPT ![c] = effects[c] + 1]
      /\ UNCHANGED <<node, cmd, wanted, faults>>
  BY Fields DEF IInv, Act
<1>2. /\ Crossed(w) /\ effects[c] = 0 /\ c \in Commands
      /\ cmd[c].holder = w /\ Unservable(cmd[c])
  BY ActIsFirst DEF Row
<1> HIDE DEF c
<1>3. /\ worker'[w] \in WorkerRow /\ worker'[w].pc = "running"
      /\ worker'[w].cmd = worker[w].cmd /\ worker'[w].gate = worker[w].gate
      /\ worker'[w].acted
      /\ \A u \in Workers : u # w => worker'[u] = worker[u]
  BY <1>1 DEF WorkerRow, TypeOK
<1>4. /\ effects'[c] = 1 /\ effects' \in [Commands -> Nat]
      /\ \A d \in Commands : d # c => effects'[d] = effects[d]
  BY <1>1, <1>2 DEF TypeOK
<1>5. TypeOK'
  BY <1>1, <1>3, <1>4 DEF TypeOK
<1>6. FreeRows' /\ GateShut'
  <2>1. cmd[c].status \notin {"absent", "queued"}
    BY <1>2 DEF Unservable
  <2> QED  BY <1>1, <1>3, <1>4, <2>1 DEF IInv, FreeRows, GateShut
<1>7. \A u \in Workers : (Crossed(u)' <=> Crossed(u)) /\ Row(u)' = Row(u)
  BY <1>1, <1>3 DEF Crossed, Row
<1>8. CrossedHolds'
  BY <1>7 DEF IInv, CrossedHolds
<1>9. ActedCounts'
  <2> SUFFICES ASSUME NEW u \in Workers, worker'[u].pc = "running", worker'[u].acted
               PROVE  Crossed(u)' /\ effects'[worker'[u].cmd] > 0
    BY DEF ActedCounts
  <2>1. CASE u = w
    BY <1>2, <1>3, <1>4, <1>7, <2>1 DEF c
  <2>2. CASE u # w
    <3>1. worker'[u] = worker[u] /\ Crossed(u) /\ effects[worker[u].cmd] > 0
      BY <1>3, <2>2 DEF IInv, ActedCounts
    <3>2. worker[u].cmd # c /\ worker[u].cmd \in Commands
      BY <1>1, <1>2, <3>1, Fields
    <3> QED  BY <1>4, <1>7, <3>1, <3>2
  <2> QED  BY <2>1, <2>2
<1>10. ActedHolds'
  <2> SUFFICES ASSUME NEW d \in Commands, effects'[d] > 0
               PROVE  /\ cmd'[d].status = "claimed" => cmd'[d].started
                      /\ \A u \in Workers :
                            worker'[u].cmd = d /\ cmd'[d].holder = u
                               /\ worker'[u].pc \in Working => worker'[u].acted
    BY DEF ActedHolds
  <2>1. CASE d = c
    BY <1>1, <1>2, <1>3, <2>1 DEF Unservable
  <2>2. CASE d # c
    <3>1. effects[d] > 0
      BY <1>4, <2>2
    <3> QED  BY <1>1, <1>3, <3>1 DEF IInv, ActedHolds
  <2> QED  BY <2>1, <2>2
<1>11. ASSUME NEW d \in Commands, Doomed(d) PROVE Doomed(d)'
  <2>1. d # c
    BY <1>1, <1>2, <1>11 DEF Doomed, c
  <2>2. effects'[d] = 0 /\ wanted'[d]
    BY <1>1, <1>4, <1>11, <2>1 DEF Doomed
  <2>3. \A u \in Workers :
           /\ worker'[u].cmd = worker[u].cmd /\ worker'[u].gate = worker[u].gate
           /\ worker'[u].pc = worker[u].pc
    BY <1>1, <1>3
  <2> QED  BY <1>1, <1>11, <2>2, <2>3 DEF Doomed
<1> QED  BY <1>5, <1>6, <1>8, <1>9, <1>10, <1>11 DEF IInv, Keeps

-----------------------------------------------------------------------------
(* Heartbeats. *)

\* What an owner's heartbeat answers: its own row, being cancelled when its Job
\* is, and with the boundary persisted when it asked for it and is not.
LEMMA BeatMeans ==
    ASSUME IInv, NEW w \in Workers, NEW b \in BOOLEAN, Owns(w)
    PROVE  LET row == BeatRow(w, b)
           IN /\ row \in CommandRow /\ row.holder = w /\ row.status \in Held
              /\ Row(w).started => row.started
              /\ row.status = "claimed" =>
                   /\ Row(w).status = "claimed" /\ ~ wanted[worker[w].cmd]
                   /\ b => row.started
<1> DEFINE a == Row(w)
           n == [a EXCEPT !.leased = TRUE, !.started = @ \/ b]
<1>1. /\ a \in CommandRow /\ a.holder = w /\ a.status \in Held
      /\ wanted[worker[w].cmd] \in BOOLEAN
  BY Fields DEF IInv, Owns, Row
<1>2. BeatRow(w, b) = IF a.status = "cancel_requested" THEN a
                      ELSE IF wanted[worker[w].cmd] THEN CancelRow(n) ELSE n
  BY DEF BeatRow
<1> HIDE DEF a
<1>3. /\ n \in CommandRow /\ n.holder = w /\ n.status = a.status
      /\ n.started = (a.started \/ b)
  BY <1>1 DEF CommandRow
<1> HIDE DEF n
<1>4. CASE a.status = "cancel_requested"
  BY <1>1, <1>2, <1>4 DEF a
<1>5. CASE a.status = "claimed" /\ wanted[worker[w].cmd]
  <2>1. BeatRow(w, b) = [n EXCEPT !.status = "cancel_requested"]
    BY <1>2, <1>3, <1>5 DEF CancelRow
  <2>2. /\ BeatRow(w, b) \in CommandRow /\ BeatRow(w, b).holder = w
        /\ BeatRow(w, b).status = "cancel_requested"
        /\ BeatRow(w, b).started = n.started
    BY <1>3, <2>1 DEF CommandRow, Held
  <2> QED  BY <1>3, <2>2 DEF a, Held
<1>6. CASE a.status = "claimed" /\ ~ wanted[worker[w].cmd]
  <2>1. BeatRow(w, b) = n
    BY <1>2, <1>6
  <2> QED  BY <1>3, <1>6, <2>1 DEF a, Held
<1> QED  BY <1>1, <1>4, <1>5, <1>6 DEF Held

\* A heartbeat keeps the invariant when the worker goes on past its boundary only
\* with the boundary persisted, or with a row that is being cancelled.
LEMMA BeatStep ==
    ASSUME IInv, NEW w \in Workers, NEW b \in BOOLEAN, Beat(w, b),
           UNCHANGED <<node, wanted, effects, faults>>,
           NEW x \in WorkerRow, worker' = [worker EXCEPT ![w] = x],
           x.cmd = worker[w].cmd, x.acted = worker[w].acted,
           x.pc \in Working => worker[w].pc \in Working,
           x.pc \in {"held", "preflight"} => ~ x.gate /\ ~ x.acted,
           Crossed(w)' => b,
           x.pc = "running" /\ x.acted => Crossed(w)' /\ worker[w].pc = "running",
           x.pc \in {"preflight", "running"} =>
               worker[w].pc = "running" \/ BeatRow(w, b).status = "claimed"
    PROVE  Keeps
<1> DEFINE c == worker[w].cmd
           row == BeatRow(w, b)
<1>1. /\ TypeOK /\ c \in Commands
      /\ cmd[c].holder = w /\ cmd[c].status \in Held
      /\ cmd' = [cmd EXCEPT ![c] = row]
  BY Fields DEF IInv, Beat, Owns, Row
<1>2. /\ row \in CommandRow /\ row.holder = w /\ row.status \in Held
      /\ cmd[c].started => row.started
      /\ row.status = "claimed" =>
           cmd[c].status = "claimed" /\ ~ wanted[c] /\ (b => row.started)
  BY BeatMeans DEF Beat, Row
<1> HIDE DEF c, row
<1>3. /\ cmd'[c] = row /\ \A d \in Commands : d # c => cmd'[d] = cmd[d]
      /\ worker'[w] = x /\ \A u \in Workers : u # w => worker'[u] = worker[u]
  BY <1>1 DEF TypeOK
<1>4. TypeOK'
  BY <1>1, <1>2 DEF TypeOK
<1>5. FreeRows' /\ GateShut'
  BY <1>1, <1>2, <1>3 DEF IInv, FreeRows, GateShut, Held
<1>6. ASSUME NEW u \in Workers, u # w, Crossed(u)'
      PROVE  worker'[u] = worker[u] /\ Crossed(u) /\ Row(u)' = Row(u)
  <2>1. worker'[u] = worker[u] /\ Crossed(u) /\ worker[u].cmd \in Commands
    BY <1>1, <1>3, <1>6, Fields DEF Crossed
  <2>2. Row(u).holder = u
    BY <2>1 DEF IInv, CrossedHolds
  <2>3. worker[u].cmd # c
    BY <1>1, <1>6, <2>2 DEF Row
  <2> QED  BY <1>3, <2>1, <2>3 DEF Row
<1>7. CrossedHolds'
  <2> SUFFICES ASSUME NEW u \in Workers, Crossed(u)'
               PROVE  Row(u)'.holder = u /\ Unservable(Row(u)')
    BY DEF CrossedHolds
  <2>1. CASE u = w
    <3>1. Row(w)' = row /\ b
      BY <1>3, <2>1 DEF Row, c
    <3> QED  BY <1>2, <2>1, <3>1 DEF Unservable, Held
  <2>2. CASE u # w
    BY <1>6, <2>2 DEF IInv, CrossedHolds
  <2> QED  BY <2>1, <2>2
<1>8. ActedCounts'
  <2> SUFFICES ASSUME NEW u \in Workers, worker'[u].pc = "running", worker'[u].acted
               PROVE  Crossed(u)' /\ effects[worker'[u].cmd] > 0
    BY DEF ActedCounts
  <2>1. CASE u = w
    BY <1>3, <2>1 DEF IInv, ActedCounts
  <2>2. CASE u # w
    BY <1>3, <2>2 DEF IInv, ActedCounts, Crossed
  <2> QED  BY <2>1, <2>2
<1>9. ActedHolds'
  <2> SUFFICES ASSUME NEW d \in Commands, effects[d] > 0
               PROVE  /\ cmd'[d].status = "claimed" => cmd'[d].started
                      /\ \A u \in Workers :
                            worker'[u].cmd = d /\ cmd'[d].holder = u
                               /\ worker'[u].pc \in Working => worker'[u].acted
    BY DEF ActedHolds
  <2>1. cmd'[d].status = "claimed" => cmd'[d].started
    BY <1>2, <1>3 DEF IInv, ActedHolds
  <2>2. cmd'[d].holder = cmd[d].holder
    BY <1>1, <1>2, <1>3
  <2>3. \A u \in Workers :
           /\ worker'[u].cmd = worker[u].cmd /\ worker'[u].acted = worker[u].acted
           /\ worker'[u].pc \in Working => worker[u].pc \in Working
    BY <1>3
  <2> QED  BY <2>1, <2>2, <2>3 DEF IInv, ActedHolds
<1>10. ASSUME NEW d \in Commands, Doomed(d) PROVE Doomed(d)'
  <2>1. wanted'[d] /\ effects'[d] = 0
    BY <1>10 DEF Doomed
  <2>2. ASSUME NEW u \in Workers, worker'[u].cmd = d,
               worker'[u].pc \in {"preflight", "running"}
        PROVE  d \in Gated /\ ~ worker'[u].gate /\ cmd'[d].holder # u
    <3>1. CASE u = w
      <4>1. d = c /\ worker[w].cmd = c
        BY <1>3, <2>2, <3>1 DEF c
      <4>2. worker[w].pc # "running"
        BY <1>1, <1>10, <4>1 DEF Doomed
      <4>3. row.status = "claimed"
        BY <1>3, <2>2, <3>1, <4>2 DEF row
      <4> QED  BY <1>2, <1>10, <4>1, <4>3 DEF Doomed
    <3>2. CASE u # w
      BY <1>1, <1>2, <1>3, <1>10, <2>2, <3>2 DEF Doomed
    <3> QED  BY <3>1, <3>2
  <2> QED  BY <2>1, <2>2 DEF Doomed
<1> QED  BY <1>4, <1>5, <1>7, <1>8, <1>9, <1>10 DEF IInv, Keeps

\* The first heartbeat, before anything runs.
LEMMA FirstBeatStep == ASSUME IInv, NEW w \in Workers, FirstBeat(w) PROVE Keeps
<1> DEFINE b == BoundaryFirst(w)
           s == BeatRow(w, b).status
           x == [pc |-> IF s = "claimed" THEN "preflight" ELSE "cancelling",
                 cmd |-> worker[w].cmd, seen |-> s, gate |-> worker[w].gate,
                 acted |-> worker[w].acted]
<1>1. /\ TypeOK /\ worker[w] \in WorkerRow /\ worker[w].pc = "held"
      /\ Beat(w, b) /\ Owns(w) /\ b \in BOOLEAN
      /\ UNCHANGED <<node, wanted, effects, faults>>
  BY Fields DEF IInv, FirstBeat, Beat, BoundaryFirst
<1>2. s \in Held
  BY <1>1, BeatMeans
<1>3. worker' = [worker EXCEPT ![w] = x]
  BY <1>1 DEF FirstBeat, TypeOK, WorkerRow
<1>4. x \in WorkerRow
  BY <1>1, <1>2 DEF WorkerRow
<1>5. ~ worker[w].gate /\ ~ worker[w].acted
  BY <1>1 DEF IInv, GateShut
<1>6. worker'[w] = x
  BY <1>1, <1>3 DEF TypeOK
<1>7. /\ x.cmd = worker[w].cmd /\ x.acted = worker[w].acted /\ x.gate = worker[w].gate
      /\ x.pc \in {"preflight", "cancelling"}
      /\ x.pc = "preflight" => BeatRow(w, b).status = "claimed"
  OBVIOUS
<1> HIDE DEF x
<1>8. Crossed(w)' => b
  BY <1>6, <1>7 DEF Crossed, BoundaryFirst
<1> HIDE DEF b
<1> QED  BY <1>1, <1>3, <1>4, <1>5, <1>7, <1>8, BeatStep DEF Working

\* The heartbeat a tool at its gate waits for.
LEMMA GateBeatStep == ASSUME IInv, NEW w \in Workers, GateBeat(w) PROVE Keeps
<1> DEFINE s == BeatRow(w, TRUE).status
           x == [pc |-> "running", cmd |-> worker[w].cmd, seen |-> s, gate |-> TRUE,
                 acted |-> worker[w].acted]
<1>1. /\ TypeOK /\ worker[w] \in WorkerRow /\ worker[w].pc = "running"
      /\ Beat(w, TRUE) /\ Owns(w)
      /\ UNCHANGED <<node, wanted, effects, faults>>
  BY Fields DEF IInv, GateBeat, Beat
<1>2. s \in Held
  BY <1>1, BeatMeans
<1>3. worker' = [worker EXCEPT ![w] = x]
  BY <1>1 DEF GateBeat, TypeOK, WorkerRow
<1>4. x \in WorkerRow
  BY <1>1, <1>2 DEF WorkerRow
<1>5. worker'[w] = x
  BY <1>1, <1>3 DEF TypeOK
<1>6. /\ x.cmd = worker[w].cmd /\ x.acted = worker[w].acted /\ x.gate
      /\ x.pc = "running"
  OBVIOUS
<1> HIDE DEF x
<1>7. Crossed(w)'
  BY <1>5, <1>6 DEF Crossed
<1> QED  BY <1>1, <1>3, <1>4, <1>6, <1>7, BeatStep DEF Working

\* The periodic heartbeat.
LEMMA TickStep == ASSUME IInv, NEW w \in Workers, Tick(w) PROVE Keeps
<1> DEFINE b == BoundaryFirst(w) \/ worker[w].gate
           s == BeatRow(w, b).status
           p == IF s = "claimed" THEN "running" ELSE "cancelling"
           x == [worker[w] EXCEPT !.seen = s, !.pc = p]
<1>1. /\ TypeOK /\ worker[w] \in WorkerRow /\ worker[w].pc = "running"
      /\ Beat(w, b) /\ Owns(w) /\ b \in BOOLEAN
      /\ UNCHANGED <<node, wanted, effects, faults>>
  BY Fields DEF IInv, Tick, Beat, BoundaryFirst
<1>2. s \in Held
  BY <1>1, BeatMeans
<1>3. worker' = [worker EXCEPT ![w] = x]
  BY Zenon DEF Tick
<1>4. /\ x \in WorkerRow /\ x.cmd = worker[w].cmd /\ x.acted = worker[w].acted
      /\ x.gate = worker[w].gate /\ x.pc \in {"running", "cancelling"}
  <2>1. worker[w] \in WorkerRow /\ p \in {"running", "cancelling"}
    BY <1>1
  <2> HIDE DEF s, p
  <2> QED  BY <1>2, <2>1 DEF WorkerRow
<1>5. worker'[w] = x
  BY <1>1, <1>3 DEF TypeOK
<1> HIDE DEF x
<1>7. Crossed(w)' => b
  BY <1>4, <1>5 DEF Crossed, BoundaryFirst
<1>8. x.pc = "running" /\ x.acted => Crossed(w)'
  BY <1>1, <1>4, <1>5 DEF Crossed, IInv, ActedCounts
<1> HIDE DEF b
<1> QED  BY <1>1, <1>3, <1>4, <1>7, <1>8, BeatStep DEF Working

-----------------------------------------------------------------------------
(* The invariant. *)

\* It holds of a Node with no commands.
LEMMA InitIInv == Init => IInv
<1> SUFFICES ASSUME Init PROVE IInv
  OBVIOUS
<1>1. \A w \in Workers : worker[w].pc = "idle"
  BY IdleRow DEF Init
<1>2. TypeOK
  BY IdleRow, BoundsAssumption DEF Init, TypeOK, AbsentRow, CommandRow
<1>3. FreeRows /\ ActedHolds
  BY DEF Init, FreeRows, ActedHolds, AbsentRow
<1>4. GateShut /\ CrossedHolds /\ ActedCounts
  BY <1>1 DEF GateShut, CrossedHolds, Crossed, ActedCounts
<1> QED  BY <1>2, <1>3, <1>4 DEF IInv

\* Every step preserves it.
LEMMA NextKeeps == ASSUME IInv, Next PROVE Keeps
<1>1. ASSUME NEW c \in Commands,
             Create(c) \/ CancelJob(c) \/ RequestCancel(c) \/ ExpireLease(c)
      PROVE  Keeps
  BY <1>1, CreateStep, CancelStep, ExpireLeaseStep
<1>2. ASSUME Revoke \/ Reconcile PROVE Keeps
  BY <1>2, SweepStep
<1>3. ASSUME NEW w \in Workers, WorkerStep(w) PROVE Keeps
  <2>1. ASSUME ClaimBegin(w) \/ ClaimNone(w) \/ GiveUp(w) PROVE Keeps
    BY <2>1, NoClaimStep
  <2>2. ASSUME NEW c \in Commands, ClaimTake(w, c) PROVE Keeps
    BY <2>2, ClaimTakeStep
  <2>3. ASSUME FirstBeat(w) \/ GateBeat(w) \/ Tick(w) PROVE Keeps
    BY <2>3, FirstBeatStep, GateBeatStep, TickStep
  <2>4. ASSUME StartTool(w) \/ Act(w) PROVE Keeps
    BY <2>4, StartToolStep, ActStep
  <2>5. ASSUME \E s \in Terminal : End(w, s) PROVE Keeps
    BY <2>5, EndStep
  <2>6. ASSUME PreflightFail(w) \/ FinishSucceeded(w) \/ FinishFailed(w)
               \/ FinishCancelled(w)
        PROVE  Keeps
    BY <2>5, <2>6 DEF PreflightFail, FinishSucceeded, FinishFailed, FinishCancelled,
                      Terminal
  <2> QED  BY <1>3, <2>1, <2>2, <2>3, <2>4, <2>6 DEF WorkerStep
<1> QED  BY <1>1, <1>2, <1>3 DEF Next, ControlStep

\* The same of a step that may stutter.
LEMMA StepKeeps == IInv /\ [Next]_vars => Keeps
<1>1. IInv /\ UNCHANGED vars => Keeps
  BY DEF vars, Keeps, IInv, TypeOK, FreeRows, GateShut, CrossedHolds, Crossed, Row,
         ActedCounts, ActedHolds, Doomed
<1> QED  BY <1>1, NextKeeps

\* For every set of commands and workers, every limit and any number of faults,
\* every reachable state satisfies the inductive invariant: a worker that nothing
\* but its own steps keeps from acting holds a row that is never served again.
THEOREM Invariant == Spec => []IInv
<1>1. IInv /\ [Next]_vars => IInv'
  BY StepKeeps DEF Keeps
<1> QED  BY InitIInv, <1>1, PTL DEF Spec

\* The rows stay of their types.
THEOREM TypeCorrect == Spec => []TypeOK
<1>1. IInv => TypeOK
  BY DEF IInv
<1> QED  BY <1>1, Invariant, PTL

\* A Job that was cancelled before its command was claimed never acts, whichever
\* stale workers still hold an earlier claim of the command.
THEOREM CancelledNeverActs == Spec => CancelledBeforeClaimNeverActs
<1> SUFFICES ASSUME NEW c \in Commands
             PROVE  Spec => [](wanted[c] /\ cmd[c].status \in {"absent", "queued"}
                                  => [](effects[c] = 0))
  BY DEF CancelledBeforeClaimNeverActs
<1> DEFINE P == wanted[c] /\ cmd[c].status \in {"absent", "queued"}
           D == Doomed(c)
           Q == effects[c] = 0
<1>1. IInv /\ P => D
  <2> SUFFICES ASSUME IInv, P PROVE D
    OBVIOUS
  <2>1. cmd[c].holder = NoWorker /\ effects[c] = 0
    BY DEF IInv, FreeRows
  <2>2. ASSUME NEW w \in Workers, worker[w].cmd = c,
               worker[w].pc \in {"preflight", "running"}
        PROVE  c \in Gated /\ ~ worker[w].gate /\ cmd[c].holder # w
    <3>1. ~ Crossed(w)
      BY <2>1, <2>2, WorkersAssumption DEF IInv, CrossedHolds, Row
    <3> QED  BY <2>1, <2>2, <3>1, WorkersAssumption DEF IInv, GateShut, Crossed
  <2> QED  BY <2>1, <2>2 DEF Doomed
<1>2. IInv /\ [Next]_vars /\ D => D'
  BY StepKeeps DEF Keeps
<1>3. D => Q
  BY DEF Doomed
<1> HIDE DEF P, D, Q
<1>4. Spec => [](P => []Q)
  BY <1>1, <1>2, <1>3, Invariant, PTL DEF Spec
<1> QED  BY <1>4 DEF P, Q

-----------------------------------------------------------------------------
(* The refinement of PhysicalCall. *)

Open == {"queued"} \cup Held

\* What a step may do to the status of a row it does not insert.
Moves(c) ==
    LET a == cmd[c].status  b == cmd'[c].status
    IN \/ a = b
       \/ a \in Open /\ b \in Open
       \/ /\ a \in Open /\ b \in Terminal
          /\ b = "succeeded" => effects[c] > 0

\* What the Runtime is told of each status.
LEMMA VerdictOf ==
    ASSUME NEW row
    PROVE  /\ row.status = "absent" => Verdict(row) = "none"
           /\ row.status \in Open => Verdict(row) = "open"
           /\ row.status \in Terminal => Verdict(row) = row.status
<1>1. CASE row.status = "absent"
  BY <1>1 DEF Verdict, Open, Held, Terminal
<1>2. CASE row.status \in Open
  BY <1>2 DEF Verdict, Open, Held, Terminal
<1>3. CASE row.status \in Terminal
  BY <1>3 DEF Verdict, Open, Held, Terminal
<1> QED  BY <1>1, <1>2, <1>3 DEF Open, Held, Terminal

\* Control, leases and claims that run out.
LEMMA SweepMoves ==
    ASSUME IInv, NEW c \in Commands,
           cmd'[c] \in {cmd[c], CancelRow(cmd[c]), RevokeRow(cmd[c]),
                        ExpireClaim(cmd[c]), ReconcileRow(cmd[c]),
                        [cmd[c] EXCEPT !.leased = FALSE]}
    PROVE  Moves(c)
<1> DEFINE a == cmd[c]
<1>1. a \in CommandRow
  BY Fields DEF IInv
<1> HIDE DEF a
<1>2. /\ CancelRow(a).status = a.status
         \/ (a.status \in Open /\ CancelRow(a).status \in {"cancelled", "cancel_requested"})
      /\ [a EXCEPT !.leased = FALSE].status = a.status
  BY <1>1 DEF CancelRow, CommandRow, Open, Held
<1>3. RevokeRow(a).status = a.status
         \/ (a.status \in Open /\ RevokeRow(a).status \in {"cancelled", "lost"})
  <2>1. CASE a.status = "queued"
    BY <1>1, <2>1 DEF RevokeRow, CommandRow, Open
  <2>2. CASE a.status \in Held
    BY <1>1, <2>2 DEF RevokeRow, CommandRow, Open, Held
  <2>3. CASE a.status \notin {"queued"} \cup Held
    BY <2>3 DEF RevokeRow
  <2> QED  BY <2>1, <2>2, <2>3
<1>4. ExpireClaim(a).status = a.status
         \/ (a.status = "claimed" /\ ExpireClaim(a).status \in {"queued", "lost"})
  BY <1>1 DEF ExpireClaim, CommandRow
<1>5. ReconcileRow(a).status = a.status
         \/ (a.status \in Held /\ ReconcileRow(a).status \in {"queued", "lost"})
  <2>1. CASE a.status = "cancel_requested" /\ ~ a.leased
    BY <1>1, <2>1 DEF ReconcileRow, CommandRow, Held
  <2>2. CASE ~ (a.status = "cancel_requested" /\ ~ a.leased)
    BY <1>4, <2>2 DEF ReconcileRow, Held
  <2> QED  BY <2>1, <2>2
<1>6. cmd'[c].status = a.status
      \/ (a.status \in Open
          /\ cmd'[c].status \in {"queued", "cancel_requested", "cancelled", "lost"})
  BY <1>2, <1>3, <1>4, <1>5 DEF a, Open, Held
<1> QED  BY <1>6 DEF Moves, a, Open, Held, Terminal

\* Every step but the insertion of a command and the action of a tool.
LEMMA EveryMove ==
    ASSUME IInv, Next,
           ~ (\E c \in Commands : Create(c)), ~ (\E w \in Workers : Act(w))
    PROVE  effects' = effects /\ \A c \in Commands : Moves(c)
<1>0. TypeOK /\ cmd \in [Commands -> CommandRow]
  BY DEF IInv, TypeOK
<1>1. ASSUME NEW d \in Commands, CancelJob(d) \/ RequestCancel(d) \/ ExpireLease(d)
      PROVE  effects' = effects /\ \A c \in Commands : Moves(c)
  <2>1. effects' = effects
    BY <1>1 DEF CancelJob, RequestCancel, ExpireLease
  <2>2. \A c \in Commands :
           cmd'[c] \in {cmd[c], CancelRow(cmd[c]), [cmd[c] EXCEPT !.leased = FALSE]}
    BY <1>0, <1>1 DEF CancelJob, RequestCancel, ExpireLease
  <2> QED  BY <2>1, <2>2, SweepMoves
<1>2. ASSUME Revoke \/ Reconcile
      PROVE  effects' = effects /\ \A c \in Commands : Moves(c)
  BY <1>2, SweepMoves DEF Revoke, Reconcile
<1>3. ASSUME NEW w \in Workers, ClaimBegin(w) \/ ClaimNone(w) \/ GiveUp(w)
                                 \/ StartTool(w)
      PROVE  effects' = effects /\ \A c \in Commands : Moves(c)
  BY <1>3, SweepMoves DEF ClaimBegin, ClaimNone, GiveUp, StartTool
<1>4. ASSUME NEW w \in Workers, NEW d \in Commands, ClaimTake(w, d)
      PROVE  effects' = effects /\ \A c \in Commands : Moves(c)
  <2>1. /\ effects' = effects /\ cmd[d].status = "queued"
        /\ cmd'[d].status = "claimed"
        /\ \A c \in Commands : c # d => cmd'[c] = cmd[c]
    BY <1>0, <1>4 DEF ClaimTake, Queued, CommandRow
  <2> QED  BY <2>1 DEF Moves, Open, Held
<1>5. ASSUME NEW w \in Workers, NEW b \in BOOLEAN, Beat(w, b), effects' = effects
      PROVE  effects' = effects /\ \A c \in Commands : Moves(c)
  <2>1. /\ BeatRow(w, b).status \in Held /\ worker[w].cmd \in Commands
        /\ cmd[worker[w].cmd].status \in Held
    BY <1>0, <1>5, BeatMeans, Fields DEF Beat, Owns, Row
  <2>2. /\ cmd'[worker[w].cmd] = BeatRow(w, b)
        /\ \A c \in Commands : c # worker[w].cmd => cmd'[c] = cmd[c]
    BY <1>0, <1>5, <2>1 DEF Beat
  <2> QED  BY <1>5, <2>1, <2>2 DEF Moves, Open
<1>6. ASSUME NEW w \in Workers, FirstBeat(w) \/ GateBeat(w) \/ Tick(w)
      PROVE  effects' = effects /\ \A c \in Commands : Moves(c)
  <2>1. /\ effects' = effects
        /\ Beat(w, BoundaryFirst(w)) \/ Beat(w, TRUE)
           \/ Beat(w, BoundaryFirst(w) \/ worker[w].gate)
    BY <1>6 DEF FirstBeat, GateBeat, Tick
  <2>2. /\ BoundaryFirst(w) \in BOOLEAN /\ TRUE \in BOOLEAN
        /\ (BoundaryFirst(w) \/ worker[w].gate) \in BOOLEAN
    BY DEF BoundaryFirst
  <2> QED  BY <1>5, <2>1, <2>2
<1>7. ASSUME NEW w \in Workers, NEW s \in Terminal, End(w, s),
             s = "succeeded" => effects[worker[w].cmd] > 0
      PROVE  effects' = effects /\ \A c \in Commands : Moves(c)
  <2>1. /\ worker[w].cmd \in Commands /\ cmd[worker[w].cmd].status \in Held
        /\ effects' = effects
    BY <1>0, <1>7, Fields DEF End, Fenced, Owns, Row
  <2>2. /\ cmd'[worker[w].cmd].status = s
        /\ \A c \in Commands : c # worker[w].cmd => cmd'[c] = cmd[c]
    BY <1>0, <1>7, <2>1 DEF End, CommandRow
  <2> QED  BY <1>7, <2>1, <2>2 DEF Moves, Open
<1>8. ASSUME NEW w \in Workers, PreflightFail(w) \/ FinishSucceeded(w)
                                 \/ FinishFailed(w) \/ FinishCancelled(w)
      PROVE  effects' = effects /\ \A c \in Commands : Moves(c)
  <2>1. PICK s \in Terminal : End(w, s) /\ (s = "succeeded" => FinishSucceeded(w))
    BY <1>8 DEF PreflightFail, FinishSucceeded, FinishFailed, FinishCancelled, Terminal
  <2>2. s = "succeeded" => effects[worker[w].cmd] > 0
    BY <2>1 DEF FinishSucceeded, IInv, ActedCounts
  <2> QED  BY <1>7, <2>1, <2>2
<1> QED  BY <1>1, <1>2, <1>3, <1>4, <1>6, <1>8 DEF Next, ControlStep, WorkerStep

verdicts == [c \in Commands |-> Verdict(cmd[c])]
never == [c \in Commands |-> FALSE]

\* Such a step settles open calls, or none.
LEMMA MovesSettle ==
    ASSUME IInv, TypeOK', effects' = effects, \A c \in Commands : Moves(c)
    PROVE  Call!Settle
<1>1. \A c \in Commands :
         /\ cmd[c].status \in {"absent"} \cup Open \cup Terminal
         /\ cmd'[c].status \in {"absent"} \cup Open \cup Terminal
  BY DEF IInv, TypeOK, CommandRow, Open
<1>2. Call!Final = Terminal /\ Call!Verdicts = {"none", "open"} \cup Terminal
  BY DEF Call!Final, Call!Verdicts, Terminal
<1>3. verdicts' \in [Commands -> Call!Verdicts]
  BY <1>1, <1>2, VerdictOf DEF verdicts
<1>4. ASSUME NEW c \in Commands, verdicts'[c] # verdicts[c]
      PROVE  /\ verdicts[c] = "open" /\ verdicts'[c] \in Call!Final
             /\ verdicts'[c] = "succeeded" => effects[c] > 0
  <2>1. verdicts[c] = Verdict(cmd[c]) /\ verdicts'[c] = Verdict(cmd'[c])
    BY DEF verdicts
  <2>2. CASE cmd[c].status = cmd'[c].status
    BY <1>1, <1>4, <2>1, <2>2, VerdictOf
  <2>3. CASE cmd[c].status \in Open /\ cmd'[c].status \in Open
    BY <1>4, <2>1, <2>3, VerdictOf
  <2>4. CASE /\ cmd[c].status \in Open /\ cmd'[c].status \in Terminal
             /\ cmd'[c].status = "succeeded" => effects[c] > 0
    BY <1>2, <2>1, <2>4, VerdictOf
  <2> QED  BY <2>2, <2>3, <2>4 DEF Moves
<1>5. never' = never
  BY DEF never
<1> QED  BY <1>3, <1>4, <1>5 DEF Call!Settle, verdicts, never

\* An Edge Command is a physical call that is never repeated: its action happens
\* at most once and never after it was reported succeeded, failed or cancelled,
\* although workers crash, are overtaken by their leases, or finish late.
THEOREM CommandsArePhysicalCalls == Spec => EdgeIsPhysicalCall
<1>1. Init => Call!Init
  <2> SUFFICES ASSUME Init PROVE Call!Init
    OBVIOUS
  <2>1. \A c \in Commands : Verdict(cmd[c]) = "none"
    BY VerdictOf DEF Init, AbsentRow
  <2>2. never \in [Commands -> BOOLEAN]
    BY DEF never
  <2> QED  BY <2>1, <2>2 DEF Call!Init, Init, never
<1>2. IInv /\ [Next]_vars => [Call!Next]_(Call!callVars)
  <2> SUFFICES ASSUME IInv, [Next]_vars PROVE [Call!Next]_(Call!callVars)
    OBVIOUS
  <2>1. CASE UNCHANGED vars
    <3>1. cmd' = cmd /\ effects' = effects
      BY <2>1 DEF vars
    <3> QED  BY <3>1 DEF Call!callVars
  <2>2. ASSUME NEW c \in Commands, Create(c) PROVE Call!Submit(c)
    <3>1. /\ cmd \in [Commands -> CommandRow] /\ cmd[c].status = "absent"
          /\ cmd' = [cmd EXCEPT ![c].status = "queued"] /\ effects' = effects
      BY <2>2 DEF IInv, TypeOK, Create
    <3>2. /\ cmd'[c].status = "queued"
          /\ \A d \in Commands : d # c => cmd'[d] = cmd[d]
      BY <3>1 DEF CommandRow
    <3>3. Verdict(cmd[c]) = "none" /\ Verdict(cmd'[c]) = "open"
      BY <3>1, <3>2, VerdictOf DEF Open
    <3>4. verdicts[c] = "none" /\ verdicts' = [verdicts EXCEPT ![c] = "open"]
      BY <3>2, <3>3 DEF verdicts
    <3>5. never' = [never EXCEPT ![c] = FALSE]
      BY DEF never
    <3> QED  BY <3>1, <3>4, <3>5 DEF Call!Submit, verdicts, never
  <2>3. ASSUME NEW w \in Workers, Act(w) PROVE Call!Perform(worker[w].cmd)
    <3> DEFINE c == worker[w].cmd
    <3>1. /\ c \in Commands /\ effects[c] = 0 /\ Unservable(cmd[c]) /\ cmd' = cmd
          /\ effects' = [effects EXCEPT ![c] = @ + 1]
      BY <2>3, ActIsFirst DEF Act, Row
    <3>2. Verdict(cmd[c]) \in {"open", "lost"}
      BY <3>1, VerdictOf DEF Unservable, Open, Held, Terminal
    <3>3. Call!MayAct(c)
      BY <3>1, <3>2 DEF Call!MayAct
    <3> QED  BY <3>1, <3>3 DEF Call!Perform
  <2>4. CASE Next /\ ~ (\E c \in Commands : Create(c)) /\ ~ (\E w \in Workers : Act(w))
    BY <2>4, NextKeeps, EveryMove, MovesSettle DEF Keeps, IInv, Call!Next
  <2>5. \A w \in Workers : worker[w].cmd \in Commands
    BY Fields DEF IInv
  <2> QED  BY <2>1, <2>2, <2>3, <2>4, <2>5 DEF Call!Next
<1> QED  BY <1>1, <1>2, Invariant, PTL DEF Spec, EdgeIsPhysicalCall, Call!Spec
=============================================================================
