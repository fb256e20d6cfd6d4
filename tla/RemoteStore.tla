---------------------------- MODULE RemoteStore ----------------------------
(***************************************************************************)
(* RemoteRuntimeStore (memory/remote/mod.rs): every operation of the Runtime  *)
(* is computed on a disposable local replica and is answered only after the   *)
(* remote authority has validated it, a read by comparing the authority's     *)
(* head, a write by a compare-and-swap commit.  The replica mutex is held      *)
(* throughout, except that reads release it while their head call is under     *)
(* way; the ReadBarrier (read_barrier.rs) makes writes, restores and parking   *)
(* wait for them.                                                             *)
(*                                                                          *)
(* The contents of a replica are the set of writes it holds.  A call may fail *)
(* or be cancelled at any await; a request already sent can still arrive.     *)
(***************************************************************************)
EXTENDS Naturals, FiniteSets

CONSTANTS Ops,         \* operations of this store, each called once
          Foreign,     \* writes of the owner that takes over
          Kinds,       \* what the operations may be
          MaxPending,  \* MAX_PENDING_READS
          NoOp,
          NoReplica

ASSUME OpsAssumption ==
    /\ IsFiniteSet(Ops) /\ NoOp \notin Ops /\ Ops \cap Foreign = {}
    /\ Kinds \subseteq [Ops -> {"read", "write", "park"}]
    /\ MaxPending \in Nat \ {0}

VARIABLES
    kind,         \* each operation is a read, a write or a park
    op,           \* the future of each operation
    slot,         \* the acknowledged replica, or none
    mutex,        \* the operation that holds the replica mutex
    pending,      \* reads whose validation is under way
    invalidated,  \* a validation failed since the last reset
    lost,         \* ownership is known to be lost
    wire,         \* requests that have not reached the authority
    auth          \* the authority

vars == <<kind, op, slot, mutex, pending, invalidated, lost, wire, auth>>

Contents == SUBSET (Ops \cup Foreign)
Replica == [rev : Nat, contents : Contents]
MaybeReplica == Replica \cup {NoReplica}

Running == {"lock", "wait", "test", "tested", "asleep", "check", "reset", "take",
            "compute", "send", "validate", "sent", "answered", "busy"}

\* `then' is where a wait for the readers goes on.
Future == [pc : {"idle", "ok", "failed"} \cup Running,
           then : {"check", "reset", "send"}, woken : BOOLEAN,
           copy : MaybeReplica]

Request == [op : Ops, base : Nat, contents : Contents]

TypeOK ==
    /\ kind \in Kinds
    /\ op \in [Ops -> Future]
    /\ slot \in MaybeReplica
    /\ mutex \in Ops \cup {NoOp}
    /\ pending \subseteq Ops
    /\ invalidated \in BOOLEAN /\ lost \in BOOLEAN
    /\ wire \subseteq Request
    /\ auth \in [rev : Nat, contents : Contents, owner : {"this", "other", "none"}]

NewFuture == [pc |-> "idle", then |-> "check", woken |-> FALSE,
              copy |-> NoReplica]

\* connect_owned restores the replica before it returns.
Init ==
    /\ kind \in Kinds
    /\ op = [o \in Ops |-> NewFuture]
    /\ slot = [rev |-> 0, contents |-> {}]
    /\ mutex = NoOp
    /\ pending = {}
    /\ invalidated = FALSE /\ lost = FALSE
    /\ wire = {}
    /\ auth = [rev |-> 0, contents |-> {}, owner |-> "this"]

-----------------------------------------------------------------------------
(* ReadBarrier. *)

AtCapacity == Cardinality(pending) >= MaxPending

Goes(o, pc) == op' = [op EXCEPT ![o].pc = pc]

WaitThen(o, then) == op' = [op EXCEPT ![o].pc = "wait", ![o].then = then]

\* Mutant: nobody waits.
DrainedAlways == TRUE

Drained == pending = {}

\* Mutant: the waiter registers when it goes to sleep, after the test.
RegisteredAsleep == {"asleep"}

\* notified.enable() comes before the test.
Registered == {"test", "tested", "asleep"}

\* notify_waiters, when the last read leaves.
Notified(ops, left) ==
    [o \in Ops |-> IF left = {} /\ ops[o].pc \in Registered
                   THEN [ops[o] EXCEPT !.woken = TRUE] ELSE ops[o]]

\* The loop of wait().
Enable(o) ==
    /\ op[o].pc = "wait"
    /\ op' = [op EXCEPT ![o].pc = "test", ![o].woken = FALSE]
    /\ UNCHANGED <<kind, slot, mutex, pending, invalidated, lost, wire, auth>>

Test(o) ==
    /\ op[o].pc = "test"
    /\ Goes(o, IF Drained THEN op[o].then ELSE "tested")
    /\ UNCHANGED <<kind, slot, mutex, pending, invalidated, lost, wire, auth>>

Sleep(o) ==
    /\ op[o].pc = "tested"
    /\ Goes(o, "asleep")
    /\ UNCHANGED <<kind, slot, mutex, pending, invalidated, lost, wire, auth>>

Wake(o) ==
    /\ op[o].pc = "asleep" /\ op[o].woken
    /\ Goes(o, "wait")
    /\ UNCHANGED <<kind, slot, mutex, pending, invalidated, lost, wire, auth>>

-----------------------------------------------------------------------------
(* execute and try_park, up to the authority. *)

Call(o) ==
    /\ op[o].pc = "idle"
    /\ Goes(o, "lock")
    /\ UNCHANGED <<kind, slot, mutex, pending, invalidated, lost, wire, auth>>

Acquire(o) ==
    /\ op[o].pc = "lock" /\ mutex = NoOp
    /\ mutex' = o
    /\ IF AtCapacity /\ kind[o] # "park" THEN WaitThen(o, "check")
                                         ELSE Goes(o, "check")
    /\ UNCHANGED <<kind, slot, pending, invalidated, lost, wire, auth>>

\* A park always drains the reads; the others when they need a new replica.
Check(o) ==
    /\ op[o].pc = "check" /\ ~ lost
    /\ IF kind[o] = "park" \/ slot = NoReplica \/ invalidated
       THEN WaitThen(o, "reset") ELSE Goes(o, "take")
    /\ UNCHANGED <<kind, slot, mutex, pending, invalidated, lost, wire, auth>>

Reset(o) ==
    /\ op[o].pc = "reset" /\ ~ lost /\ pending = {}
    /\ slot' = IF kind[o] = "park" /\ ~ invalidated THEN slot ELSE NoReplica
    /\ invalidated' = FALSE
    /\ Goes(o, "take")
    /\ UNCHANGED <<kind, mutex, pending, lost, wire, auth>>

Snapshot == [rev |-> auth.rev, contents |-> auth.contents]

\* Taking the replica out of the slot means a dropped future leaves none.
\* restore, when there is none; a park also compares the head.
Take(o) ==
    /\ op[o].pc = "take"
    /\ LET current == slot # NoReplica
                      /\ (kind[o] = "park" => slot.rev = auth.rev)
       IN /\ ~ current \/ kind[o] = "park" => auth.owner = "this"
          /\ op' = [op EXCEPT ![o].pc = "compute",
                              ![o].copy = IF current THEN slot ELSE Snapshot]
    /\ slot' = NoReplica
    /\ UNCHANGED <<kind, mutex, pending, invalidated, lost, wire, auth>>

\* A journal-empty result: enrol, put the replica back, let the mutex go.
ComputeRead(o) ==
    /\ op[o].pc = "compute" /\ kind[o] = "read"
    /\ ~ lost /\ ~ invalidated /\ Cardinality(pending) < MaxPending
    /\ pending' = pending \cup {o}
    /\ slot' = op[o].copy
    /\ mutex' = NoOp
    /\ Goes(o, "validate")
    /\ UNCHANGED <<kind, invalidated, lost, wire, auth>>

ComputeWrite(o) ==
    /\ op[o].pc = "compute" /\ kind[o] = "write" /\ ~ lost
    /\ op' = [op EXCEPT ![o].copy.contents = @ \cup {o}, ![o].pc = "wait",
                        ![o].then = "send"]
    /\ UNCHANGED <<kind, slot, mutex, pending, invalidated, lost, wire, auth>>

\* process_idle says no before anything was read.
ParkNotIdle(o) ==
    /\ op[o].pc = "check" /\ kind[o] = "park" /\ ~ lost
    /\ mutex' = NoOp
    /\ Goes(o, "ok")
    /\ UNCHANGED <<kind, slot, pending, invalidated, lost, wire, auth>>

\* Native owners are busy: the replica goes back and the park is declined.
ParkDeclined(o) ==
    /\ op[o].pc = "compute" /\ kind[o] = "park"
    /\ slot' = op[o].copy
    /\ mutex' = NoOp
    /\ op' = [op EXCEPT ![o].pc = "ok", ![o].copy = NoReplica]
    /\ UNCHANGED <<kind, pending, invalidated, lost, wire, auth>>

RequestOf(o) == [op |-> o, base |-> op[o].copy.rev,
                 contents |-> op[o].copy.contents]

SendPark(o) ==
    /\ op[o].pc = "compute" /\ kind[o] = "park"
    /\ wire' = wire \cup {RequestOf(o)}
    /\ Goes(o, "sent")
    /\ UNCHANGED <<kind, slot, mutex, pending, invalidated, lost, auth>>

SendCommit(o) ==
    /\ op[o].pc = "send" /\ ~ lost /\ ~ invalidated
    /\ wire' = wire \cup {RequestOf(o)}
    /\ Goes(o, "sent")
    /\ UNCHANGED <<kind, slot, mutex, pending, invalidated, lost, auth>>

-----------------------------------------------------------------------------
(* The authority (external): requests are fenced by owner and epoch, commits   *)
(* and parks by the revision they are based on.                              *)

\* Mutant: the head is not compared.
HeadIgnored(o) == TRUE

HeadUnchanged(o) == auth.rev = op[o].copy.rev

ServeHead(o) ==
    /\ op[o].pc = "validate" /\ auth.owner = "this" /\ HeadUnchanged(o)
    /\ Goes(o, "answered")
    /\ UNCHANGED <<kind, slot, mutex, pending, invalidated, lost, wire, auth>>

Current(m) == auth.owner = "this" /\ m.base = auth.rev

Answered(m, pc) == op' = IF op[m.op].pc = "sent"
                         THEN [op EXCEPT ![m.op].pc = pc] ELSE op

ServeCommit(m) ==
    /\ kind[m.op] = "write" /\ Current(m)
    /\ auth' = [rev |-> auth.rev + 1, contents |-> m.contents, owner |-> auth.owner]
    /\ Answered(m, "answered")
    /\ wire' = wire \ {m}
    /\ UNCHANGED <<kind, slot, mutex, pending, invalidated, lost>>

ServePark(m) ==
    /\ kind[m.op] = "park" /\ auth.owner = "this"
    /\ \/ m.base = auth.rev /\ auth' = [auth EXCEPT !.owner = "none"]
          /\ Answered(m, "answered")
       \/ UNCHANGED auth /\ Answered(m, "busy")
    /\ wire' = wire \ {m}
    /\ UNCHANGED <<kind, slot, mutex, pending, invalidated, lost>>

\* The lease runs out, or the parked data is claimed, by another process.
TakeOver ==
    /\ auth.owner # "other"
    /\ auth' = [auth EXCEPT !.owner = "other"]
    /\ UNCHANGED <<kind, op, slot, mutex, pending, invalidated, lost, wire>>

ForeignWrite ==
    /\ auth.owner = "other"
    /\ \E f \in Foreign \ auth.contents :
          auth' = [rev |-> auth.rev + 1, contents |-> auth.contents \cup {f},
                   owner |-> auth.owner]
    /\ UNCHANGED <<kind, op, slot, mutex, pending, invalidated, lost, wire>>

\* LeaseGuard: a renewal failed or came too late.
LoseOwnership ==
    /\ ~ lost
    /\ lost' = TRUE
    /\ UNCHANGED <<kind, op, slot, mutex, pending, invalidated, wire, auth>>

-----------------------------------------------------------------------------
(* The end of an operation. *)

Ends(o, pc, left) ==
    op' = Notified([op EXCEPT ![o].pc = pc, ![o].copy = NoReplica], left)

\* validated(), and the drop of the ReadValidation.
FinishRead(o) ==
    /\ op[o].pc = "answered" /\ kind[o] = "read"
    /\ pending' = pending \ {o}
    /\ op' = Notified([op EXCEPT ![o].pc = "ok"], pending')
    /\ UNCHANGED <<kind, slot, mutex, invalidated, lost, wire, auth>>

\* The receipt is one above the base, so the replica is the authority's.
FinishWrite(o) ==
    /\ op[o].pc = "answered" /\ kind[o] = "write"
    /\ slot' = [op[o].copy EXCEPT !.rev = @ + 1]
    /\ mutex' = NoOp
    /\ op' = [op EXCEPT ![o].pc = "ok", ![o].copy = NoReplica]
    /\ UNCHANGED <<kind, pending, invalidated, lost, wire, auth>>

\* A busy receipt alone lets this owner go on.
FinishPark(o) ==
    /\ kind[o] = "park"
    /\ \/ op[o].pc = "answered" /\ lost' = TRUE /\ UNCHANGED slot
       \/ op[o].pc = "busy" /\ slot' = op[o].copy /\ UNCHANGED lost
    /\ mutex' = NoOp
    /\ op' = [op EXCEPT ![o].pc = "ok", ![o].copy = NoReplica]
    /\ UNCHANGED <<kind, pending, invalidated, wire, auth>>

\* The drop of a ReadValidation that was not validated.
Poisons(o) == o \in pending

\* Mutant: only a receipt ends the ownership.
FencesOnReceipt(o) == FALSE

\* The drop of a ParkDecision without a busy receipt.
FencesOwner(o) == kind[o] = "park" /\ op[o].pc \in {"sent", "answered", "busy"}

\* Mutant: the speculative replica is put back.
KeptReplica(o) == IF mutex = o /\ op[o].copy # NoReplica THEN op[o].copy ELSE slot

\* What a failure leaves in the slot: a poisoning read empties it if no one
\* holds the mutex, the holder has emptied it itself.
SlotAfter(o) == IF Poisons(o) /\ mutex = NoOp THEN NoReplica ELSE slot

\* An error, a timeout or a cancellation at an await.
Fails(o) ==
    /\ op[o].pc \in Running
    /\ pending' = pending \ {o}
    /\ invalidated' = (invalidated \/ Poisons(o))
    /\ slot' = SlotAfter(o)
    /\ lost' = (lost \/ FencesOwner(o))
    /\ mutex' = IF mutex = o THEN NoOp ELSE mutex
    /\ Ends(o, "failed", pending')
    /\ UNCHANGED <<kind, wire, auth>>

\* Refusals of the code itself, and remote calls, which always return.
Refused(o) ==
    \/ op[o].pc \in {"check", "reset", "compute", "send"} /\ (lost \/ invalidated)
    \/ op[o].pc \in {"take", "validate", "sent"}

-----------------------------------------------------------------------------
Step(o) ==
    \/ Enable(o) \/ Test(o) \/ Sleep(o) \/ Wake(o)
    \/ Acquire(o) \/ Check(o) \/ Reset(o) \/ Take(o)
    \/ ComputeRead(o) \/ ComputeWrite(o)
    \/ ParkNotIdle(o) \/ ParkDeclined(o) \/ SendPark(o)
    \/ SendCommit(o) \/ FinishRead(o) \/ FinishWrite(o) \/ FinishPark(o)

Authority ==
    \/ \E o \in Ops : ServeHead(o)
    \/ \E m \in wire : ServeCommit(m) \/ ServePark(m)
    \/ TakeOver \/ ForeignWrite

Next ==
    \/ \E o \in Ops : Call(o) \/ Step(o) \/ Fails(o)
    \/ Authority \/ LoseOwnership

Spec == Init /\ [][Next]_vars

\* A task that can go on does, and a remote call comes to an end.  Nothing is
\* assumed of the authority or of cancellations.
Fairness ==
    \A o \in Ops : WF_vars(Step(o) \/ (Refused(o) /\ Fails(o)))

FairSpec == Spec /\ Fairness

-----------------------------------------------------------------------------
(* Properties *)

\* A read has observed the authority when its head call was answered; a park is
\* no operation on the data.
CallOf(k, f) ==
    IF k = "park" \/ f.pc = "idle" THEN "idle"
    ELSE IF f.pc \in {"ok", "failed"} THEN f.pc
    ELSE IF k = "read" /\ f.pc = "answered" THEN "seen" ELSE "called"

SeenOf(k, f) == IF k = "read" /\ f.pc \in {"answered", "ok"} THEN f.copy.contents ELSE {}

Atomic == INSTANCE AtomicStore WITH
    log <- auth.contents,
    call <- [o \in Ops |-> CallOf(kind[o], op[o])],
    seen <- [o \in Ops |-> SeenOf(kind[o], op[o])]

\* Whatever fails, is cancelled or arrives late, the store with its speculative
\* replica behaves as one that computes on the authority: no caller ever sees a
\* write that was not applied, misses one that was acknowledged before it
\* called, or is told of a write that did not happen.
StoreIsAtomic == Atomic!Spec

\* `no write, restore or park may pass them' (read_barrier.rs): while a read is
\* being validated no operation that is alive sends or awaits a commit or a park
\* or drops its replica for a new one.  The promise does not reach the request of
\* a caller that gave up: that alone may still be on the wire then, and if the
\* authority applies it the read finds another head and fails (StoreIsAtomic).
ReadsAreNotPassed ==
    pending # {} =>
        /\ \A o \in Ops : /\ op[o].pc \notin {"send", "sent", "busy", "reset"}
                          /\ op[o].pc = "answered" => kind[o] = "read"
        /\ \A m \in wire : op[m.op].pc = "failed"

\* Once the authority has parked the data, this process has fenced itself before
\* anyone can take the mutex again, even if the receipt was lost.
ParkedIsFenced ==
    auth.owner = "none" /\ mutex = NoOp => lost

\* The cache holds only what the authority acknowledged: nothing a failed or
\* cancelled operation computed stays in it, and the replica of a revision is
\* what the authority held at that revision (`a speculative or ambiguously
\* committed cache is never reused', mod.rs).
CacheIsAcknowledged ==
    slot # NoReplica =>
        /\ slot.contents \subseteq auth.contents
        /\ slot.rev = auth.rev => slot.contents = auth.contents

\* No wake-up is lost and nobody waits for ever: every operation that is called
\* returns.
OperationsEnd ==
    \A o \in Ops : op[o].pc = "lock" ~> op[o].pc \in {"ok", "failed"}
=============================================================================
