------------------------- MODULE RemoteStoreProofs -------------------------
(***************************************************************************)
(* The remote store implements AtomicStore, and its read barrier, its cache *)
(* and its park keep their promises, for every set of operations, every     *)
(* assignment of kinds to them and every number of pending reads.           *)
(***************************************************************************)
EXTENDS RemoteStore, TLAPS

Waiting == {"wait", "test", "tested", "asleep"}

\* A write that has been computed and waits for the readers to be sent.
WaitsToSend(f) == f.pc \in Waiting /\ f.then = "send"

\* The pcs of a future between the replica mutex and its release.
Inside(k, f) ==
    \/ f.pc \in Waiting \cup {"check", "reset", "take", "compute", "send", "sent", "busy"}
    \/ f.pc = "answered" /\ k # "read"

\* The pcs at which no read may be under way.
Excludes(k, f) ==
    \/ f.pc \in {"reset", "send", "sent", "busy"}
    \/ f.pc = "answered" /\ k # "read"
    \/ f.pc \in {"take", "compute"} /\ k = "park"

HasCopy(f) ==
    f.pc \in {"compute", "validate", "answered", "busy", "send", "sent"} \/ WaitsToSend(f)

\* Which kind of operation comes to which point, and what it holds there.
RoleOK(k, f) ==
    /\ f.pc = "validate" => k = "read"
    /\ f.pc = "send" \/ WaitsToSend(f) => k = "write"
    /\ f.pc = "sent" => k # "read"
    /\ f.pc = "busy" => k = "park"
    /\ HasCopy(f) => f.copy \in Replica

\* A replica the authority acknowledged, at its revision or an older one.
Acknowledged(r, a) ==
    /\ r.rev <= a.rev
    /\ r.contents \subseteq a.contents
    /\ r.rev = a.rev => r.contents = a.contents

\* The speculative replica of the write o.
Speculative(o, r, a) ==
    /\ r.rev <= a.rev
    /\ r.rev = a.rev => r.contents = a.contents \cup {o}

\* The replica of a write that has been committed on the revision after its own.
Committed(r, a) ==
    /\ r.rev + 1 <= a.rev
    /\ r.contents \subseteq a.contents
    /\ r.rev + 1 = a.rev => r.contents = a.contents

CopyOK(o, k, f, a) ==
    /\ f.pc \in {"compute", "validate"} \/ (k = "park" /\ f.pc \in {"sent", "busy"}) =>
         Acknowledged(f.copy, a)
    /\ k = "write" /\ (f.pc \in {"send", "sent"} \/ WaitsToSend(f)) =>
         Speculative(o, f.copy, a)
    /\ k = "write" /\ f.pc = "answered" => Committed(f.copy, a)

\* A write is in the log only from its commit on.
LoggedOK(o, k, f, a) ==
    /\ o \in a.contents => k = "write" /\ f.pc \in {"answered", "ok", "failed"}
    /\ k = "write" /\ f.pc = "answered" => o \in a.contents

\* A request on the wire belongs to an operation that waits for its answer, and
\* then is exactly what that operation sent, or that has failed; a park that
\* failed has fenced the process.
RequestOK(m, k, f, l, a) ==
    /\ k # "read"
    /\ f.pc \in {"sent", "failed"}
    /\ f.pc = "sent" => m.base = f.copy.rev /\ m.contents = f.copy.contents
    /\ k = "park" /\ f.pc = "failed" => l
    /\ k = "write" =>
         /\ m.op \notin a.contents
         /\ m.base <= a.rev
         /\ m.base = a.rev => m.contents = a.contents \cup {m.op}

Roles        == \A o \in Ops : RoleOK(kind[o], op[o])
MutexHeld    == \A o \in Ops : Inside(kind[o], op[o]) => mutex = o
BarrierHolds == \A o \in Ops : Excludes(kind[o], op[o]) => pending = {}
CopiesOK     == \A o \in Ops : CopyOK(o, kind[o], op[o], auth)
LogOwned     == \A o \in Ops : LoggedOK(o, kind[o], op[o], auth)
WireOwned    == \A m \in wire : RequestOK(m, kind[m.op], op[m.op], lost, auth)
OneRequest   == \A m, n \in wire : m.op = n.op => m = n
SlotOK       == slot # NoReplica => Acknowledged(slot, auth)
ParkOwned    ==
    auth.owner = "none" => lost \/ \E o \in Ops : kind[o] = "park" /\ op[o].pc = "answered"

IInv ==
    /\ TypeOK
    /\ Roles
    /\ MutexHeld
    /\ BarrierHolds
    /\ CopiesOK
    /\ LogOwned
    /\ WireOwned
    /\ OneRequest
    /\ SlotOK
    /\ ParkOwned

-----------------------------------------------------------------------------
(* A step of one operation, as the invariant sees it *)

OpOK(o, k, f, mx, pend, a) ==
    /\ RoleOK(k, f)
    /\ Inside(k, f) => mx = o
    /\ Excludes(k, f) => pend = {}
    /\ CopyOK(o, k, f, a)
    /\ LoggedOK(o, k, f, a)

\* Futures that differ in `woken' only.
Same(f, g) == f.pc = g.pc /\ f.then = g.then /\ f.copy = g.copy

\* Only o moves: it fits where it goes; the mutex is taken when free and given
\* back by its holder; reads are enrolled by its holder; the request it sends is
\* its first; what it leaves in the slot is acknowledged; a park that ends is
\* fenced.
LocalShape(o) ==
    /\ TypeOK'
    /\ kind' = kind /\ auth' = auth
    /\ \A p \in Ops \ {o} : Same(op'[p], op[p])
    /\ OpOK(o, kind[o], op'[o], mutex', pending', auth)
    /\ mutex' = mutex \/ mutex \in {NoOp, o}
    /\ pending' \subseteq pending \/ mutex = o
    /\ lost => lost'
    /\ \A m \in wire' : \/ m \in wire
                        \/ m = RequestOf(o) /\ op[o].pc \notin {"sent", "failed"}
    /\ \A m \in wire' : m.op = o => RequestOK(m, kind[o], op'[o], lost', auth)
    /\ slot' # NoReplica => Acknowledged(slot', auth)
    /\ kind[o] = "park" /\ op[o].pc = "answered" => lost' \/ op'[o].pc = "answered"

\* What the predicates say of a future does not depend on `woken'.
LEMMA SameFits ==
    ASSUME NEW o, NEW k, NEW f, NEW g, NEW mx, NEW pend, NEW a, Same(f, g)
    PROVE  /\ OpOK(o, k, g, mx, pend, a) <=> OpOK(o, k, f, mx, pend, a)
           /\ Inside(k, f) <=> Inside(k, g)
           /\ Excludes(k, f) <=> Excludes(k, g)
BY DEF Same, OpOK, RoleOK, Inside, Excludes, CopyOK, LoggedOK, WaitsToSend, HasCopy

\* Nobody excludes readers without the mutex.
LEMMA ExcludesInside ==
    ASSUME NEW k, NEW f, Excludes(k, f)
    PROVE  Inside(k, f)
BY DEF Excludes, Inside

\* A step of that shape preserves the invariant.
LEMMA LocalPreserves ==
    ASSUME IInv, NEW o \in Ops, LocalShape(o)
    PROVE  IInv'
<1>t. TypeOK /\ TypeOK' /\ kind' = kind /\ auth' = auth
  BY DEF IInv, LocalShape
<1>a. NoOp \notin Ops
  BY OpsAssumption
<1>1. \A p \in Ops : OpOK(p, kind[p], op'[p], mutex', pending', auth)
  <2> SUFFICES ASSUME NEW p \in Ops, p # o
               PROVE  OpOK(p, kind[p], op'[p], mutex', pending', auth)
    BY DEF LocalShape
  <2>1. Same(op'[p], op[p])
    BY DEF LocalShape
  <2>2. /\ RoleOK(kind[p], op[p]) /\ CopyOK(p, kind[p], op[p], auth)
        /\ LoggedOK(p, kind[p], op[p], auth)
        /\ Inside(kind[p], op[p]) => mutex = p
        /\ Excludes(kind[p], op[p]) => pending = {}
    BY DEF IInv, Roles, CopiesOK, LogOwned, MutexHeld, BarrierHolds
  <2>3. Inside(kind[p], op[p]) => mutex' = p
    BY <1>a, <2>2 DEF LocalShape
  <2>4. Excludes(kind[p], op[p]) => pending' = {}
    BY <2>2, ExcludesInside DEF LocalShape
  <2>5. OpOK(p, kind[p], op[p], mutex', pending', auth)
    BY <2>2, <2>3, <2>4 DEF OpOK
  <2> QED
    BY <2>1, <2>5, SameFits
<1>2. Roles' /\ MutexHeld' /\ BarrierHolds' /\ CopiesOK' /\ LogOwned'
  BY <1>1, <1>t DEF OpOK, Roles, MutexHeld, BarrierHolds, CopiesOK, LogOwned
<1>3. WireOwned'
  <2> SUFFICES ASSUME NEW m \in wire'
               PROVE  RequestOK(m, kind[m.op], op'[m.op], lost', auth)
    BY <1>t DEF WireOwned
  <2>1. CASE m.op = o
    BY <2>1 DEF LocalShape
  <2>2. CASE m.op # o
    <3>1. m \in wire /\ m.op \in Ops
      BY <2>2, <1>t DEF LocalShape, RequestOf, TypeOK, Request
    <3>2. RequestOK(m, kind[m.op], op[m.op], lost, auth)
      BY <3>1 DEF IInv, WireOwned
    <3>3. Same(op'[m.op], op[m.op]) /\ (lost => lost')
      BY <2>2, <3>1 DEF LocalShape
    <3> QED
      BY <3>2, <3>3 DEF RequestOK, Same
  <2> QED
    BY <2>1, <2>2
<1>4. OneRequest'
  <2> SUFFICES ASSUME NEW m \in wire', NEW n \in wire', m.op = n.op
               PROVE  m = n
    BY DEF OneRequest
  <2>1. CASE m \in wire /\ n \in wire
    BY <2>1 DEF IInv, OneRequest
  <2>2. CASE m \notin wire /\ n \notin wire
    BY <2>2 DEF LocalShape
  <2>3. ASSUME NEW x \in wire, x.op = o, op[o].pc \notin {"sent", "failed"} PROVE FALSE
    BY <2>3 DEF IInv, WireOwned, RequestOK
  <2>4. RequestOf(o).op = o
    BY DEF RequestOf
  <2>5. CASE m \in wire /\ n \notin wire
    BY <2>3, <2>4, <2>5 DEF LocalShape
  <2>6. CASE m \notin wire /\ n \in wire
    BY <2>3, <2>4, <2>6 DEF LocalShape
  <2> QED
    BY <2>1, <2>2, <2>5, <2>6
<1>5. SlotOK'
  BY <1>t DEF SlotOK, LocalShape
<1>6. ParkOwned'
  <2> SUFFICES ASSUME auth.owner = "none", ~lost'
               PROVE  \E p \in Ops : kind[p] = "park" /\ op'[p].pc = "answered"
    BY <1>t DEF ParkOwned
  <2>1. PICK p \in Ops : kind[p] = "park" /\ op[p].pc = "answered"
    BY DEF IInv, ParkOwned, LocalShape
  <2>2. op'[p].pc = "answered"
    BY <2>1 DEF LocalShape, Same
  <2> QED
    BY <2>1, <2>2
<1> QED
  BY <1>t, <1>2, <1>3, <1>4, <1>5, <1>6 DEF IInv

\* The same when only the future of o changes, and o has no request out.
LEMMA FutureMoves ==
    ASSUME IInv, NEW o \in Ops, op' \in [Ops -> Future],
           \A p \in Ops \ {o} : op'[p] = op[p],
           OpOK(o, kind[o], op'[o], mutex, pending, auth),
           op[o].pc \notin {"sent", "failed", "answered"},
           UNCHANGED <<kind, slot, mutex, pending, invalidated, lost, wire, auth>>
    PROVE  LocalShape(o)
<1>1. TypeOK'
  BY DEF IInv, TypeOK
<1>2. \A m \in wire : m.op # o
  BY DEF IInv, WireOwned, RequestOK
<1>3. slot # NoReplica => Acknowledged(slot, auth)
  BY DEF IInv, SlotOK
<1> QED
  BY <1>1, <1>2, <1>3 DEF LocalShape, Same

-----------------------------------------------------------------------------
(* Every step of an operation has the shape *)

\* What the invariant says of one operation.
LEMMA Known ==
    ASSUME IInv, NEW o \in Ops
    PROVE  /\ op[o] \in Future
           /\ kind[o] \in {"read", "write", "park"}
           /\ OpOK(o, kind[o], op[o], mutex, pending, auth)
           /\ op[o].pc \notin {"sent", "failed"} => \A m \in wire : m.op # o
<1>1. kind \in [Ops -> {"read", "write", "park"}]
  BY OpsAssumption DEF IInv, TypeOK
<1> QED
  BY <1>1 DEF IInv, TypeOK, OpOK, Roles, MutexHeld, BarrierHolds, CopiesOK, LogOwned,
              WireOwned, RequestOK

\* The loop of the read barrier, the call, and the check of the replica.
LEMMA BarrierSteps ==
    ASSUME IInv, NEW o \in Ops, Enable(o) \/ Test(o) \/ Sleep(o) \/ Wake(o) \/ Call(o) \/ Check(o)
    PROVE  LocalShape(o)
<1>k. op \in [Ops -> Future] /\ op[o] \in Future
      /\ OpOK(o, kind[o], op[o], mutex, pending, auth)
  BY Known DEF IInv, TypeOK
<1>1. /\ op' \in [Ops -> Future] /\ \A p \in Ops \ {o} : op'[p] = op[p]
      /\ UNCHANGED <<kind, slot, mutex, pending, invalidated, lost, wire, auth>>
      /\ op'[o].copy = op[o].copy
  BY <1>k DEF Enable, Test, Sleep, Wake, Call, Check, Goes, WaitThen, Future, Running
<1>2. CASE Enable(o)
  <2>1. op[o].pc = "wait" /\ op'[o].pc = "test" /\ op'[o].then = op[o].then
    BY <1>2, <1>k DEF Enable, Future
  <2>2. OpOK(o, kind[o], op'[o], mutex, pending, auth)
    BY <1>k, <1>1, <2>1 DEF OpOK, RoleOK, Inside, Excludes, CopyOK, LoggedOK, WaitsToSend,
                            HasCopy, Waiting
  <2> QED
    BY <1>1, <2>1, <2>2, FutureMoves
<1>3. CASE Test(o)
  <2>1. /\ op[o].pc = "test" /\ op'[o].then = op[o].then
        /\ op'[o].pc = IF pending = {} THEN op[o].then ELSE "tested"
        /\ op[o].then \in {"check", "reset", "send"}
    BY <1>3, <1>k DEF Test, Goes, Drained, Future
  <2>2. OpOK(o, kind[o], op'[o], mutex, pending, auth)
    BY <1>k, <1>1, <2>1 DEF OpOK, RoleOK, Inside, Excludes, CopyOK, LoggedOK, WaitsToSend,
                            HasCopy, Waiting
  <2> QED
    BY <1>1, <2>1, <2>2, FutureMoves
<1>4. CASE Sleep(o)
  <2>1. op[o].pc = "tested" /\ op'[o].pc = "asleep" /\ op'[o].then = op[o].then
    BY <1>4, <1>k DEF Sleep, Goes, Future
  <2>2. OpOK(o, kind[o], op'[o], mutex, pending, auth)
    BY <1>k, <1>1, <2>1 DEF OpOK, RoleOK, Inside, Excludes, CopyOK, LoggedOK, WaitsToSend,
                            HasCopy, Waiting
  <2> QED
    BY <1>1, <2>1, <2>2, FutureMoves
<1>5. CASE Wake(o)
  <2>1. op[o].pc = "asleep" /\ op'[o].pc = "wait" /\ op'[o].then = op[o].then
    BY <1>5, <1>k DEF Wake, Goes, Future
  <2>2. OpOK(o, kind[o], op'[o], mutex, pending, auth)
    BY <1>k, <1>1, <2>1 DEF OpOK, RoleOK, Inside, Excludes, CopyOK, LoggedOK, WaitsToSend,
                            HasCopy, Waiting
  <2> QED
    BY <1>1, <2>1, <2>2, FutureMoves
<1>6. CASE Call(o)
  <2>1. op[o].pc = "idle" /\ op'[o].pc = "lock" /\ op'[o].then = op[o].then
    BY <1>6, <1>k DEF Call, Goes, Future
  <2>2. OpOK(o, kind[o], op'[o], mutex, pending, auth)
    BY <1>k, <1>1, <2>1 DEF OpOK, RoleOK, Inside, Excludes, CopyOK, LoggedOK, WaitsToSend,
                            HasCopy, Waiting
  <2> QED
    BY <1>1, <2>1, <2>2, FutureMoves
<1>7. CASE Check(o)
  <2>1. /\ op[o].pc = "check"
        /\ \/ op'[o].pc = "wait" /\ op'[o].then = "reset"
           \/ op'[o].pc = "take" /\ kind[o] # "park"
    BY <1>7, <1>k DEF Check, Goes, WaitThen, Future
  <2>2. OpOK(o, kind[o], op'[o], mutex, pending, auth)
    BY <1>k, <1>1, <2>1 DEF OpOK, RoleOK, Inside, Excludes, CopyOK, LoggedOK, WaitsToSend,
                            HasCopy, Waiting
  <2> QED
    BY <1>1, <2>1, <2>2, FutureMoves
<1> QED
  BY <1>2, <1>3, <1>4, <1>5, <1>6, <1>7

\* The mutex is taken when it is free.
LEMMA AcquireStep ==
    ASSUME IInv, NEW o \in Ops, Acquire(o)
    PROVE  LocalShape(o)
<1>k. op \in [Ops -> Future] /\ op[o] \in Future
      /\ OpOK(o, kind[o], op[o], mutex, pending, auth)
      /\ (op[o].pc \notin {"sent", "failed"} => \A m \in wire : m.op # o)
  BY Known DEF IInv, TypeOK
<1>1. /\ op' \in [Ops -> Future] /\ \A p \in Ops \ {o} : op'[p] = op[p]
      /\ op'[o].copy = op[o].copy /\ op[o].pc = "lock" /\ mutex = NoOp /\ mutex' = o
      /\ (op'[o].pc = "wait" /\ op'[o].then = "check") \/ op'[o].pc = "check"
      /\ UNCHANGED <<kind, slot, pending, invalidated, lost, wire, auth>>
  BY <1>k DEF Acquire, Goes, WaitThen, Future, Running
<1>2. OpOK(o, kind[o], op'[o], o, pending, auth)
  BY <1>k, <1>1 DEF OpOK, RoleOK, Inside, Excludes, CopyOK, LoggedOK, WaitsToSend, HasCopy, Waiting
<1>3. TypeOK'
  BY <1>1 DEF IInv, TypeOK
<1>4. slot # NoReplica => Acknowledged(slot, auth)
  BY DEF IInv, SlotOK
<1> QED
  BY <1>k, <1>1, <1>2, <1>3, <1>4 DEF LocalShape, Same

\* A replica is dropped, taken out of the slot, or restored.
LEMMA ReplicaSteps ==
    ASSUME IInv, NEW o \in Ops, Reset(o) \/ Take(o)
    PROVE  LocalShape(o)
<1>k. op \in [Ops -> Future] /\ op[o] \in Future
      /\ OpOK(o, kind[o], op[o], mutex, pending, auth)
      /\ (op[o].pc \notin {"sent", "failed"} => \A m \in wire : m.op # o)
  BY Known DEF IInv, TypeOK
<1>s. (slot # NoReplica => Acknowledged(slot, auth)) /\ slot \in MaybeReplica
  BY DEF IInv, SlotOK, TypeOK
<1>1. CASE Reset(o)
  <2>1. /\ op' \in [Ops -> Future] /\ \A p \in Ops \ {o} : op'[p] = op[p]
        /\ op'[o].copy = op[o].copy /\ op[o].pc = "reset" /\ op'[o].pc = "take"
        /\ pending = {} /\ slot' \in {slot, NoReplica} /\ invalidated' = FALSE
        /\ UNCHANGED <<kind, mutex, pending, lost, wire, auth>>
    BY <1>1, <1>k DEF Reset, Goes, Future, Running
  <2>2. OpOK(o, kind[o], op'[o], mutex, pending, auth)
    BY <1>k, <2>1 DEF OpOK, RoleOK, Inside, Excludes, CopyOK, LoggedOK, WaitsToSend, HasCopy,
                      Waiting
  <2>3. TypeOK'
    BY <2>1 DEF IInv, TypeOK, MaybeReplica
  <2> QED
    BY <1>k, <1>s, <2>1, <2>2, <2>3 DEF LocalShape, Same
<1>2. CASE Take(o)
  <2>0. Snapshot \in Replica /\ Acknowledged(Snapshot, auth)
    BY DEF IInv, TypeOK, Snapshot, Replica, Acknowledged
  <2>1. PICK c : /\ c = Snapshot \/ (c = slot /\ slot # NoReplica)
                 /\ op' = [op EXCEPT ![o].pc = "compute", ![o].copy = c]
    BY <1>2 DEF Take
  <2>2. c \in Replica /\ Acknowledged(c, auth)
    BY <2>0, <2>1, <1>s DEF MaybeReplica
  <2>3. /\ op' \in [Ops -> Future] /\ \A p \in Ops \ {o} : op'[p] = op[p]
        /\ op'[o].copy = c /\ op[o].pc = "take" /\ op'[o].pc = "compute"
        /\ slot' = NoReplica
        /\ UNCHANGED <<kind, mutex, pending, invalidated, lost, wire, auth>>
    <3>1. c \in MaybeReplica
      BY <2>2 DEF MaybeReplica
    <3>2. /\ op' \in [Ops -> Future] /\ \A p \in Ops \ {o} : op'[p] = op[p]
          /\ op'[o].copy = c /\ op'[o].pc = "compute"
      BY <1>k, <2>1, <3>1 DEF Future, Running
    <3> QED
      BY <1>2, <3>2 DEF Take
  <2>4. OpOK(o, kind[o], op'[o], mutex, pending, auth)
    BY <1>k, <2>2, <2>3 DEF OpOK, RoleOK, Inside, Excludes, CopyOK, LoggedOK, WaitsToSend,
                            HasCopy, Waiting
  <2>5. TypeOK'
    BY <2>3 DEF IInv, TypeOK, MaybeReplica
  <2> QED
    BY <1>k, <2>3, <2>4, <2>5 DEF LocalShape, Same
<1> QED
  BY <1>1, <1>2

\* The computed operation: a read is enrolled, a write becomes speculative, a
\* park is declined or sent.
LEMMA ComputeSteps ==
    ASSUME IInv, NEW o \in Ops,
           ComputeRead(o) \/ ComputeWrite(o) \/ ParkNotIdle(o) \/ ParkDeclined(o)
    PROVE  LocalShape(o)
<1>k. op \in [Ops -> Future] /\ op[o] \in Future
      /\ OpOK(o, kind[o], op[o], mutex, pending, auth)
      /\ (op[o].pc \notin {"sent", "failed"} => \A m \in wire : m.op # o)
  BY Known DEF IInv, TypeOK
<1>s. slot # NoReplica => Acknowledged(slot, auth)
  BY DEF IInv, SlotOK
<1>c. op[o].pc = "compute" => op[o].copy \in Replica /\ Acknowledged(op[o].copy, auth) /\ mutex = o
  BY <1>k DEF OpOK, RoleOK, CopyOK, HasCopy, Inside
<1>1. CASE ComputeRead(o)
  <2>1. /\ op' \in [Ops -> Future] /\ \A p \in Ops \ {o} : op'[p] = op[p]
        /\ op'[o].copy = op[o].copy /\ op[o].pc = "compute" /\ op'[o].pc = "validate"
        /\ kind[o] = "read" /\ pending' = pending \cup {o} /\ slot' = op[o].copy
        /\ mutex' = NoOp
        /\ UNCHANGED <<kind, invalidated, lost, wire, auth>>
    BY <1>1, <1>k DEF ComputeRead, Goes, Future, Running
  <2>2. OpOK(o, kind[o], op'[o], mutex', pending', auth)
    BY <1>k, <2>1 DEF OpOK, RoleOK, Inside, Excludes, CopyOK, LoggedOK, WaitsToSend, HasCopy,
                      Waiting
  <2>3. TypeOK'
    BY <1>c, <2>1 DEF IInv, TypeOK, MaybeReplica
  <2> QED
    BY <1>k, <1>c, <2>1, <2>2, <2>3 DEF LocalShape, Same
<1>2. CASE ComputeWrite(o)
  <2> DEFINE c == [op[o].copy EXCEPT !.contents = @ \cup {o}]
  <2>0. /\ op[o].pc = "compute" /\ kind[o] = "write"
        /\ op[o].copy \in Replica /\ Acknowledged(op[o].copy, auth)
        /\ op' = [op EXCEPT ![o].copy = c, ![o].pc = "wait", ![o].then = "send"]
    BY <1>2, <1>c, <1>k DEF ComputeWrite
  <2>1. c \in Replica /\ c.rev = op[o].copy.rev /\ c.contents = op[o].copy.contents \cup {o}
    BY <2>0 DEF Replica, Contents
  <2>2. Speculative(o, c, auth)
    BY <2>0, <2>1 DEF Speculative, Acknowledged
  <2>3. c \in MaybeReplica
    BY <2>1 DEF MaybeReplica
  <2> HIDE DEF c
  <2>4. /\ op' \in [Ops -> Future] /\ \A p \in Ops \ {o} : op'[p] = op[p]
        /\ op'[o].copy = c /\ op'[o].pc = "wait" /\ op'[o].then = "send"
    BY <1>k, <2>0, <2>3 DEF Future, Running
  <2>5. OpOK(o, kind[o], op'[o], mutex, pending, auth)
    BY <1>k, <2>0, <2>1, <2>2, <2>4 DEF OpOK, RoleOK, Inside, Excludes, CopyOK, LoggedOK,
                                        WaitsToSend, HasCopy, Waiting
  <2> QED
    BY <1>2, <2>0, <2>4, <2>5, FutureMoves DEF ComputeWrite
<1>3. CASE ParkNotIdle(o)
  <2>1. /\ op' \in [Ops -> Future] /\ \A p \in Ops \ {o} : op'[p] = op[p]
        /\ op'[o].copy = op[o].copy /\ op[o].pc = "check" /\ op'[o].pc = "ok"
        /\ mutex' = NoOp
        /\ UNCHANGED <<kind, slot, pending, invalidated, lost, wire, auth>>
    BY <1>3, <1>k DEF ParkNotIdle, Goes, Future
  <2>2. OpOK(o, kind[o], op'[o], mutex', pending', auth) /\ mutex = o
    BY <1>k, <2>1 DEF OpOK, RoleOK, Inside, Excludes, CopyOK, LoggedOK, WaitsToSend, HasCopy,
                      Waiting
  <2>3. TypeOK'
    BY <2>1 DEF IInv, TypeOK
  <2> QED
    BY <1>k, <1>s, <2>1, <2>2, <2>3 DEF LocalShape, Same
<1>4. CASE ParkDeclined(o)
  <2>1. /\ op' \in [Ops -> Future] /\ \A p \in Ops \ {o} : op'[p] = op[p]
        /\ op[o].pc = "compute" /\ op'[o].pc = "ok" /\ slot' = op[o].copy /\ mutex' = NoOp
        /\ UNCHANGED <<kind, pending, invalidated, lost, wire, auth>>
    BY <1>4, <1>k DEF ParkDeclined, Future, MaybeReplica
  <2>2. OpOK(o, kind[o], op'[o], mutex', pending', auth) /\ mutex = o
    BY <1>k, <2>1 DEF OpOK, RoleOK, Inside, Excludes, CopyOK, LoggedOK, WaitsToSend, HasCopy,
                      Waiting
  <2>3. TypeOK'
    BY <1>c, <2>1 DEF IInv, TypeOK, MaybeReplica
  <2> QED
    BY <1>k, <1>c, <2>1, <2>2, <2>3 DEF LocalShape, Same
<1> QED
  BY <1>1, <1>2, <1>3, <1>4

\* A commit or a park is sent.
LEMMA SendSteps ==
    ASSUME IInv, NEW o \in Ops, SendPark(o) \/ SendCommit(o)
    PROVE  LocalShape(o)
<1>k. op \in [Ops -> Future] /\ op[o] \in Future
      /\ OpOK(o, kind[o], op[o], mutex, pending, auth)
      /\ (op[o].pc \notin {"sent", "failed"} => \A m \in wire : m.op # o)
  BY Known DEF IInv, TypeOK
<1>1. /\ op' \in [Ops -> Future] /\ \A p \in Ops \ {o} : op'[p] = op[p]
      /\ op'[o].copy = op[o].copy /\ op'[o].pc = "sent"
      /\ \/ op[o].pc = "compute" /\ kind[o] = "park"
         \/ op[o].pc = "send"
      /\ wire' = wire \cup {RequestOf(o)}
      /\ UNCHANGED <<kind, slot, mutex, pending, invalidated, lost, auth>>
  BY <1>k DEF SendPark, SendCommit, Goes, Future, Running
<1>2. OpOK(o, kind[o], op'[o], mutex, pending, auth)
  BY <1>k, <1>1 DEF OpOK, RoleOK, Inside, Excludes, CopyOK, LoggedOK, WaitsToSend, HasCopy, Waiting
<1>3. op[o].copy \in Replica
  BY <1>k, <1>1 DEF OpOK, RoleOK, HasCopy
<1>4. /\ RequestOf(o) \in Request /\ RequestOf(o).op = o
      /\ RequestOf(o).base = op[o].copy.rev /\ RequestOf(o).contents = op[o].copy.contents
  BY <1>3 DEF RequestOf, Request, Replica
<1>5. RequestOK(RequestOf(o), kind[o], op'[o], lost, auth)
  BY <1>k, <1>1, <1>4 DEF RequestOK, OpOK, RoleOK, CopyOK, LoggedOK, Speculative
<1>6. TypeOK'
  BY <1>1, <1>4 DEF IInv, TypeOK
<1>7. slot # NoReplica => Acknowledged(slot, auth)
  BY DEF IInv, SlotOK
<1> QED
  BY <1>k, <1>1, <1>2, <1>4, <1>5, <1>6, <1>7 DEF LocalShape, Same

\* notify_waiters changes nothing but `woken'.
LEMMA NotifiedSame ==
    ASSUME NEW ops \in [Ops -> Future], NEW left
    PROVE  /\ Notified(ops, left) \in [Ops -> Future]
           /\ \A p \in Ops : Same(Notified(ops, left)[p], ops[p])
BY DEF Notified, Future, Same

\* The head is unchanged, and the end of a read, a write and a park.
LEMMA FinishSteps ==
    ASSUME IInv, NEW o \in Ops, ServeHead(o) \/ FinishRead(o) \/ FinishWrite(o) \/ FinishPark(o)
    PROVE  LocalShape(o)
<1>k. op \in [Ops -> Future] /\ op[o] \in Future
      /\ OpOK(o, kind[o], op[o], mutex, pending, auth)
      /\ (op[o].pc \notin {"sent", "failed"} => \A m \in wire : m.op # o)
  BY Known DEF IInv, TypeOK
<1>s. slot # NoReplica => Acknowledged(slot, auth)
  BY DEF IInv, SlotOK
<1>1. CASE ServeHead(o)
  <2>1. /\ op' \in [Ops -> Future] /\ \A p \in Ops \ {o} : op'[p] = op[p]
        /\ op'[o].copy = op[o].copy /\ op[o].pc = "validate" /\ op'[o].pc = "answered"
        /\ UNCHANGED <<kind, slot, mutex, pending, invalidated, lost, wire, auth>>
    BY <1>1, <1>k DEF ServeHead, Goes, Future, Running
  <2>2. OpOK(o, kind[o], op'[o], mutex, pending, auth)
    BY <1>k, <2>1 DEF OpOK, RoleOK, Inside, Excludes, CopyOK, LoggedOK, WaitsToSend, HasCopy,
                      Waiting
  <2> QED
    BY <2>1, <2>2, FutureMoves
<1>2. CASE FinishRead(o)
  <2> DEFINE ops == [op EXCEPT ![o].pc = "ok"]
  <2>0. ops \in [Ops -> Future] /\ (\A p \in Ops \ {o} : ops[p] = op[p]) /\ ops[o].pc = "ok"
    BY <1>k DEF Future
  <2>1. /\ op[o].pc = "answered" /\ kind[o] = "read" /\ pending' = pending \ {o}
        /\ op' = Notified(ops, pending')
        /\ UNCHANGED <<kind, slot, mutex, invalidated, lost, wire, auth>>
    BY <1>2 DEF FinishRead
  <2> HIDE DEF ops
  <2>2. op' \in [Ops -> Future] /\ \A p \in Ops : Same(op'[p], ops[p])
    BY <2>0, <2>1, NotifiedSame
  <2>3. op'[o].pc = "ok" /\ \A p \in Ops \ {o} : Same(op'[p], op[p])
    BY <2>0, <2>2 DEF Same
  <2>4. OpOK(o, kind[o], op'[o], mutex, pending', auth)
    BY <1>k, <2>1, <2>3 DEF OpOK, RoleOK, Inside, Excludes, CopyOK, LoggedOK, WaitsToSend,
                            HasCopy, Waiting
  <2>5. TypeOK'
    BY <2>1, <2>2 DEF IInv, TypeOK
  <2> QED
    BY <1>k, <1>s, <2>1, <2>3, <2>4, <2>5 DEF LocalShape
<1>3. CASE FinishWrite(o)
  <2>1. /\ op' \in [Ops -> Future] /\ \A p \in Ops \ {o} : op'[p] = op[p]
        /\ op[o].pc = "answered" /\ op'[o].pc = "ok" /\ kind[o] = "write"
        /\ slot' = [op[o].copy EXCEPT !.rev = @ + 1] /\ mutex' = NoOp
        /\ UNCHANGED <<kind, pending, invalidated, lost, wire, auth>>
    BY <1>3, <1>k DEF FinishWrite, Future, MaybeReplica
  <2>2. op[o].copy \in Replica /\ Committed(op[o].copy, auth) /\ mutex = o
    BY <1>k, <2>1 DEF OpOK, RoleOK, HasCopy, CopyOK, Inside
  <2>3. slot' \in Replica /\ Acknowledged(slot', auth)
    BY <2>1, <2>2 DEF Replica, Committed, Acknowledged
  <2>4. OpOK(o, kind[o], op'[o], mutex', pending, auth)
    BY <1>k, <2>1 DEF OpOK, RoleOK, Inside, Excludes, CopyOK, LoggedOK, WaitsToSend, HasCopy,
                      Waiting
  <2>5. TypeOK'
    BY <2>1, <2>3 DEF IInv, TypeOK, MaybeReplica
  <2> QED
    BY <1>k, <2>1, <2>2, <2>3, <2>4, <2>5 DEF LocalShape, Same
<1>4. CASE FinishPark(o)
  <2>1. /\ op' \in [Ops -> Future] /\ \A p \in Ops \ {o} : op'[p] = op[p]
        /\ op'[o].pc = "ok" /\ kind[o] = "park" /\ mutex' = NoOp
        /\ \/ op[o].pc = "answered" /\ lost' = TRUE /\ slot' = slot
           \/ op[o].pc = "busy" /\ lost' = lost /\ slot' = op[o].copy
        /\ UNCHANGED <<kind, pending, invalidated, wire, auth>>
    BY <1>4, <1>k DEF FinishPark, Future, MaybeReplica
  <2>2. /\ op[o].pc = "busy" => op[o].copy \in Replica /\ Acknowledged(op[o].copy, auth)
        /\ mutex = o
    BY <1>k, <2>1 DEF OpOK, RoleOK, HasCopy, CopyOK, Inside
  <2>3. slot' # NoReplica => Acknowledged(slot', auth)
    BY <1>s, <2>1, <2>2
  <2>4. OpOK(o, kind[o], op'[o], mutex', pending, auth)
    BY <1>k, <2>1 DEF OpOK, RoleOK, Inside, Excludes, CopyOK, LoggedOK, WaitsToSend, HasCopy,
                      Waiting
  <2>5. TypeOK'
    BY <2>1, <2>2 DEF IInv, TypeOK, MaybeReplica
  <2> QED
    BY <1>k, <2>1, <2>2, <2>3, <2>4, <2>5 DEF LocalShape, Same
<1> QED
  BY <1>1, <1>2, <1>3, <1>4

\* A failure or cancellation at any await.
LEMMA FailStep ==
    ASSUME IInv, NEW o \in Ops, Fails(o)
    PROVE  LocalShape(o)
<1>k. op \in [Ops -> Future] /\ op[o] \in Future
      /\ OpOK(o, kind[o], op[o], mutex, pending, auth)
      /\ (op[o].pc \notin {"sent", "failed"} => \A m \in wire : m.op # o)
  BY Known DEF IInv, TypeOK
<1> DEFINE ops == [op EXCEPT ![o].pc = "failed", ![o].copy = NoReplica]
<1>0. ops \in [Ops -> Future] /\ (\A p \in Ops \ {o} : ops[p] = op[p]) /\ ops[o].pc = "failed"
  BY <1>k DEF Future, MaybeReplica
<1>1. /\ op[o].pc \in Running
      /\ pending' = pending \ {o}
      /\ invalidated' = (invalidated \/ Poisons(o))
      /\ slot' \in {slot, NoReplica}
      /\ lost' = (lost \/ FencesOwner(o))
      /\ mutex' = IF mutex = o THEN NoOp ELSE mutex
      /\ op' = Notified(ops, pending')
      /\ UNCHANGED <<kind, wire, auth>>
  BY DEF Fails, SlotAfter, Ends
<1> HIDE DEF ops
<1>2. op' \in [Ops -> Future] /\ \A p \in Ops : Same(op'[p], ops[p])
  BY <1>0, <1>1, NotifiedSame
<1>3. op'[o].pc = "failed" /\ \A p \in Ops \ {o} : Same(op'[p], op[p])
  BY <1>0, <1>2 DEF Same
<1>4. OpOK(o, kind[o], op'[o], mutex', pending', auth)
  BY <1>k, <1>1, <1>3 DEF OpOK, RoleOK, Inside, Excludes, CopyOK, LoggedOK, WaitsToSend, HasCopy,
                          Waiting
<1>5. TypeOK'
  BY <1>1, <1>2 DEF IInv, TypeOK, MaybeReplica, Poisons, FencesOwner
<1>6. \A m \in wire : m.op = o => RequestOK(m, kind[o], op'[o], lost', auth)
  <2> SUFFICES ASSUME NEW m \in wire, m.op = o PROVE RequestOK(m, kind[o], op'[o], lost', auth)
    OBVIOUS
  <2>1. RequestOK(m, kind[o], op[o], lost, auth)
    BY DEF IInv, WireOwned
  <2>2. op[o].pc = "sent"
    BY <1>k, <1>1 DEF Running
  <2> QED
    BY <1>1, <1>3, <2>1, <2>2 DEF RequestOK, FencesOwner
<1>7. slot' # NoReplica => Acknowledged(slot', auth)
  BY <1>1 DEF IInv, SlotOK
<1>8. kind[o] = "park" /\ op[o].pc = "answered" => lost'
  BY <1>1 DEF FencesOwner
<1> QED
  BY <1>k, <1>1, <1>3, <1>4, <1>5, <1>6, <1>7, <1>8 DEF LocalShape

-----------------------------------------------------------------------------
(* The authority *)

\* A commit advances the revision and only adds to the contents, so what was
\* acknowledged stays acknowledged.
LEMMA RevisionAdvances ==
    ASSUME NEW a, NEW b, a.rev \in Nat, b.rev = a.rev + 1, a.contents \subseteq b.contents,
           NEW r, r.rev \in Nat
    PROVE  /\ Acknowledged(r, a) => Acknowledged(r, b)
           /\ Committed(r, a) => Committed(r, b)
           /\ \A o : Speculative(o, r, a) => Speculative(o, r, b)
BY DEF Acknowledged, Committed, Speculative

\* The writes of the futures and requests that are not committed by the step.
LEMMA OthersAdvance ==
    ASSUME IInv, NEW b, b.rev = auth.rev + 1, auth.contents \subseteq b.contents
    PROVE  /\ \A o \in Ops : CopyOK(o, kind[o], op[o], b)
           /\ \A m \in wire : m.op \notin b.contents =>
                RequestOK(m, kind[m.op], op[m.op], lost, b)
           /\ slot # NoReplica => Acknowledged(slot, b)
<1>a. auth.rev \in Nat
  BY DEF IInv, TypeOK
<1>1. ASSUME NEW o \in Ops PROVE CopyOK(o, kind[o], op[o], b)
  <2>1. CopyOK(o, kind[o], op[o], auth) /\ RoleOK(kind[o], op[o])
    BY DEF IInv, CopiesOK, Roles
  <2>2. HasCopy(op[o]) => op[o].copy.rev \in Nat
    BY <2>1 DEF RoleOK, Replica
  <2> QED
    BY <1>a, <2>1, <2>2, RevisionAdvances DEF CopyOK, HasCopy
<1>2. ASSUME NEW m \in wire, m.op \notin b.contents
      PROVE  RequestOK(m, kind[m.op], op[m.op], lost, b)
  <2>1. RequestOK(m, kind[m.op], op[m.op], lost, auth) /\ m.base \in Nat
    BY DEF IInv, WireOwned, TypeOK, Request
  <2> QED
    BY <1>a, <1>2, <2>1 DEF RequestOK
<1>3. slot # NoReplica => Acknowledged(slot, b)
  <2>1. slot # NoReplica => slot.rev \in Nat /\ Acknowledged(slot, auth)
    BY DEF IInv, SlotOK, TypeOK, MaybeReplica, Replica
  <2> QED
    BY <1>a, <2>1, RevisionAdvances
<1> QED
  BY <1>1, <1>2, <1>3

\* A request whose base is the head is committed.
LEMMA CommitStep ==
    ASSUME IInv, NEW m \in wire, ServeCommit(m)
    PROVE  /\ IInv'
           /\ m.op \in Ops /\ m.op \notin auth.contents /\ kind[m.op] = "write"
           /\ auth'.contents = auth.contents \cup {m.op}
           /\ op[m.op].pc \in {"sent", "failed"}
           /\ op'[m.op].pc = IF op[m.op].pc = "sent" THEN "answered" ELSE "failed"
           /\ \A p \in Ops \ {m.op} : op'[p] = op[p]
<1> DEFINE x == m.op
<1>k. /\ x \in Ops /\ m.base \in Nat /\ op \in [Ops -> Future] /\ op[x] \in Future
      /\ OpOK(x, kind[x], op[x], mutex, pending, auth)
      /\ auth \in [rev : Nat, contents : Contents, owner : {"this", "other", "none"}]
      /\ RequestOK(m, kind[x], op[x], lost, auth)
  BY Known DEF IInv, TypeOK, Request, WireOwned
<1>1. /\ kind[x] = "write" /\ auth.owner = "this" /\ m.base = auth.rev
      /\ auth' = [rev |-> auth.rev + 1, contents |-> m.contents, owner |-> auth.owner]
      /\ op' = IF op[x].pc = "sent" THEN [op EXCEPT ![x].pc = "answered"] ELSE op
      /\ wire' = wire \ {m}
      /\ UNCHANGED <<kind, slot, mutex, pending, invalidated, lost>>
  BY DEF ServeCommit, Current, Answered
<1>2. x \notin auth.contents /\ m.contents = auth.contents \cup {x}
      /\ op[x].pc \in {"sent", "failed"}
      /\ (op[x].pc = "sent" => m.base = op[x].copy.rev /\ m.contents = op[x].copy.contents)
  BY <1>k, <1>1 DEF RequestOK
<1>3. /\ auth'.rev = auth.rev + 1 /\ auth'.contents = auth.contents \cup {x}
      /\ auth'.owner = auth.owner
      /\ auth' \in [rev : Nat, contents : Contents, owner : {"this", "other", "none"}]
  <2>1. m.contents \in Contents
    <3>1. auth.contents \in Contents
      BY <1>k
    <3> QED
      BY <1>k, <1>2, <3>1 DEF Contents
  <2> QED
    BY <1>k, <1>1, <1>2, <2>1
<1>4. /\ op' \in [Ops -> Future] /\ \A p \in Ops \ {x} : op'[p] = op[p]
      /\ op'[x].copy = op[x].copy /\ op'[x].then = op[x].then
      /\ op'[x].pc = IF op[x].pc = "sent" THEN "answered" ELSE "failed"
  BY <1>k, <1>1, <1>2 DEF Future, Running
<1> HIDE DEF x
<1>5. /\ \A o \in Ops : CopyOK(o, kind[o], op[o], auth')
      /\ \A n \in wire : n.op \notin auth'.contents =>
           RequestOK(n, kind[n.op], op[n.op], lost, auth')
      /\ slot # NoReplica => Acknowledged(slot, auth')
  BY <1>3, OthersAdvance
<1>6. OpOK(x, kind[x], op'[x], mutex, pending, auth')
  <2>1. CASE op[x].pc = "failed"
    BY <1>k, <1>1, <1>3, <1>4, <2>1 DEF OpOK, RoleOK, Inside, Excludes, CopyOK, LoggedOK,
                                        WaitsToSend, HasCopy, Waiting
  <2>2. CASE op[x].pc = "sent"
    <3>1. Committed(op[x].copy, auth')
      BY <1>k, <1>1, <1>2, <1>3, <2>2 DEF Committed
    <3> QED
      BY <1>k, <1>1, <1>3, <1>4, <2>2, <3>1 DEF OpOK, RoleOK, Inside, Excludes, CopyOK, LoggedOK,
                                                WaitsToSend, HasCopy, Waiting
  <2> QED
    BY <1>2, <2>1, <2>2
<1>7. \A p \in Ops : OpOK(p, kind[p], op'[p], mutex, pending, auth')
  <2> SUFFICES ASSUME NEW p \in Ops, p # x
               PROVE  OpOK(p, kind[p], op[p], mutex, pending, auth')
    BY <1>4, <1>6
  <2>1. OpOK(p, kind[p], op[p], mutex, pending, auth) /\ CopyOK(p, kind[p], op[p], auth')
    BY <1>5, Known
  <2> QED
    BY <1>3, <2>1 DEF OpOK, LoggedOK
<1>8. TypeOK'
  BY <1>1, <1>3, <1>4 DEF IInv, TypeOK
<1>9. Roles' /\ MutexHeld' /\ BarrierHolds' /\ CopiesOK' /\ LogOwned'
  BY <1>1, <1>7 DEF OpOK, Roles, MutexHeld, BarrierHolds, CopiesOK, LogOwned
<1>10. WireOwned'
  <2> SUFFICES ASSUME NEW n \in wire, n # m
               PROVE  RequestOK(n, kind[n.op], op'[n.op], lost, auth')
    BY <1>1 DEF WireOwned
  <2>1. n.op \in Ops /\ n.op # x
    BY DEF IInv, OneRequest, TypeOK, Request, x
  <2>2. kind[n.op] = "write" => n.op \notin auth.contents
    BY DEF IInv, WireOwned, RequestOK
  <2>3. kind[n.op] # "write" => n.op \notin auth.contents
    BY <2>1 DEF IInv, LogOwned, LoggedOK
  <2> QED
    BY <1>3, <1>4, <1>5, <2>1, <2>2, <2>3
<1>11. OneRequest' /\ SlotOK' /\ ParkOwned'
  BY <1>1, <1>3, <1>5 DEF IInv, OneRequest, SlotOK, ParkOwned
<1> QED
  BY <1>k, <1>1, <1>2, <1>3, <1>4, <1>8, <1>9, <1>10, <1>11 DEF IInv, x

\* A park is accepted, or answered busy.
LEMMA ParkStep ==
    ASSUME IInv, NEW m \in wire, ServePark(m)
    PROVE  /\ IInv' /\ m.op \in Ops
           /\ kind[m.op] = "park"
           /\ auth'.contents = auth.contents
           /\ \A p \in Ops \ {m.op} : op'[p] = op[p]
<1> DEFINE x == m.op
<1>k. /\ x \in Ops /\ op \in [Ops -> Future] /\ op[x] \in Future
      /\ OpOK(x, kind[x], op[x], mutex, pending, auth)
      /\ auth \in [rev : Nat, contents : Contents, owner : {"this", "other", "none"}]
      /\ RequestOK(m, kind[x], op[x], lost, auth)
  BY Known DEF IInv, TypeOK, Request, WireOwned
<1>1. PICK pc \in {"answered", "busy"} :
        /\ kind[x] = "park" /\ auth.owner = "this"
        /\ op' = IF op[x].pc = "sent" THEN [op EXCEPT ![x].pc = pc] ELSE op
        /\ auth' = auth \/ (auth' = [auth EXCEPT !.owner = "none"] /\ pc = "answered")
        /\ wire' = wire \ {m}
        /\ UNCHANGED <<kind, slot, mutex, pending, invalidated, lost>>
  BY DEF ServePark, Answered
<1>2. /\ auth'.rev = auth.rev /\ auth'.contents = auth.contents
      /\ auth' \in [rev : Nat, contents : Contents, owner : {"this", "other", "none"}]
      /\ auth'.owner = "none" => pc = "answered"
  BY <1>k, <1>1
<1>3. /\ op' \in [Ops -> Future] /\ \A p \in Ops \ {x} : op'[p] = op[p]
      /\ op'[x].copy = op[x].copy
      /\ \/ op[x].pc = "sent" /\ op'[x].pc = pc
         \/ op[x].pc = "failed" /\ op'[x] = op[x] /\ lost
  <2>1. op[x].pc = "sent" \/ (op[x].pc = "failed" /\ lost)
    BY <1>k, <1>1 DEF RequestOK
  <2>2. pc \in {"idle", "ok", "failed"} \cup Running
    BY <1>1 DEF Running
  <2> HIDE DEF x
  <2>3. CASE op[x].pc = "sent"
    <3>1. op' = [op EXCEPT ![x].pc = pc]
      BY <1>1, <2>3
    <3> QED
      BY <1>k, <2>2, <2>3, <3>1 DEF Future
  <2>4. CASE op[x].pc = "failed" /\ lost
    <3>1. op' = op
      BY <1>1, <2>4
    <3> QED
      BY <1>k, <2>4, <3>1
  <2> QED
    BY <2>1, <2>3, <2>4
<1> HIDE DEF x
<1>4. OpOK(x, kind[x], op'[x], mutex, pending, auth)
  BY <1>k, <1>1, <1>3 DEF OpOK, RoleOK, Inside, Excludes, CopyOK, LoggedOK, WaitsToSend, HasCopy,
                          Waiting
<1>5. \A p \in Ops : OpOK(p, kind[p], op'[p], mutex, pending, auth)
  BY <1>3, <1>4, Known
<1>6. \A p \in Ops : OpOK(p, kind[p], op'[p], mutex, pending, auth')
  BY <1>2, <1>5 DEF OpOK, CopyOK, LoggedOK, Acknowledged, Speculative, Committed
<1>7. TypeOK'
  BY <1>1, <1>2, <1>3 DEF IInv, TypeOK
<1>8. Roles' /\ MutexHeld' /\ BarrierHolds' /\ CopiesOK' /\ LogOwned'
  BY <1>1, <1>6 DEF OpOK, Roles, MutexHeld, BarrierHolds, CopiesOK, LogOwned
<1>9. WireOwned'
  <2> SUFFICES ASSUME NEW n \in wire, n # m
               PROVE  RequestOK(n, kind[n.op], op'[n.op], lost, auth')
    BY <1>1 DEF WireOwned
  <2>1. n.op \in Ops /\ n.op # x /\ RequestOK(n, kind[n.op], op[n.op], lost, auth)
    BY DEF IInv, OneRequest, TypeOK, Request, x, WireOwned
  <2> QED
    BY <1>2, <1>3, <2>1 DEF RequestOK
<1>10. OneRequest' /\ SlotOK'
  BY <1>1, <1>2 DEF IInv, OneRequest, SlotOK, Acknowledged
<1>11. ParkOwned'
  BY <1>k, <1>1, <1>2, <1>3 DEF ParkOwned
<1> QED
  BY <1>k, <1>1, <1>2, <1>3, <1>7, <1>8, <1>9, <1>10, <1>11 DEF IInv, x

\* Another owner takes over and writes; this one may learn of it.
LEMMA OwnerSteps ==
    ASSUME IInv, TakeOver \/ ForeignWrite \/ LoseOwnership
    PROVE  /\ IInv' /\ op' = op
           /\ \/ auth'.contents = auth.contents
              \/ \E f \in Foreign \ auth.contents : auth'.contents = auth.contents \cup {f}
<1>k. /\ auth \in [rev : Nat, contents : Contents, owner : {"this", "other", "none"}]
      /\ TypeOK /\ Roles /\ MutexHeld /\ BarrierHolds /\ CopiesOK /\ LogOwned /\ WireOwned
      /\ OneRequest /\ SlotOK /\ ParkOwned
  BY DEF IInv, TypeOK
<1>1. CASE LoseOwnership
  <2>1. lost' = TRUE /\ UNCHANGED <<kind, op, slot, mutex, pending, invalidated, wire, auth>>
    BY <1>1 DEF LoseOwnership
  <2>2. TypeOK' /\ ParkOwned'
    BY <1>k, <2>1 DEF TypeOK, ParkOwned
  <2>3. Roles' /\ MutexHeld' /\ BarrierHolds' /\ CopiesOK' /\ LogOwned' /\ OneRequest' /\ SlotOK'
    BY <1>k, <2>1 DEF Roles, MutexHeld, BarrierHolds, CopiesOK, LogOwned, OneRequest, SlotOK
  <2>4. WireOwned'
    BY <1>k, <2>1 DEF WireOwned, RequestOK
  <2> QED
    BY <2>1, <2>2, <2>3, <2>4 DEF IInv
<1>2. CASE TakeOver
  <2>1. /\ auth'.rev = auth.rev /\ auth'.contents = auth.contents /\ auth'.owner = "other"
        /\ auth' \in [rev : Nat, contents : Contents, owner : {"this", "other", "none"}]
        /\ UNCHANGED <<kind, op, slot, mutex, pending, invalidated, lost, wire>>
    BY <1>2, <1>k DEF TakeOver
  <2>2. TypeOK' /\ ParkOwned'
    BY <1>k, <2>1 DEF TypeOK, ParkOwned
  <2>3. Roles' /\ MutexHeld' /\ BarrierHolds' /\ OneRequest'
    BY <1>k, <2>1 DEF Roles, MutexHeld, BarrierHolds, OneRequest
  <2>4. CopiesOK' /\ SlotOK'
    BY <1>k, <2>1 DEF CopiesOK, CopyOK, SlotOK, Acknowledged, Speculative, Committed
  <2>5. LogOwned' /\ WireOwned'
    BY <1>k, <2>1 DEF LogOwned, LoggedOK, WireOwned, RequestOK
  <2> QED
    BY <2>1, <2>2, <2>3, <2>4, <2>5 DEF IInv
<1>3. CASE ForeignWrite
  <2>1. PICK f \in Foreign \ auth.contents :
          /\ auth'.rev = auth.rev + 1 /\ auth'.contents = auth.contents \cup {f}
          /\ auth'.owner = "other"
          /\ auth' \in [rev : Nat, contents : Contents, owner : {"this", "other", "none"}]
          /\ UNCHANGED <<kind, op, slot, mutex, pending, invalidated, lost, wire>>
    <3>1. PICK f \in Foreign \ auth.contents :
            auth' = [rev |-> auth.rev + 1, contents |-> auth.contents \cup {f},
                     owner |-> auth.owner]
      BY <1>3 DEF ForeignWrite
    <3>2. auth.contents \cup {f} \in Contents
      <4>1. auth.contents \in Contents
        BY <1>k
      <4> QED
        BY <3>1, <4>1 DEF Contents
    <3>3. /\ auth.owner = "other"
          /\ UNCHANGED <<kind, op, slot, mutex, pending, invalidated, lost, wire>>
      BY <1>3 DEF ForeignWrite
    <3> QED
      BY <1>k, <3>1, <3>2, <3>3
  <2>2. TypeOK' /\ ParkOwned'
    BY <1>k, <2>1 DEF TypeOK, ParkOwned
  <2>3. Roles' /\ MutexHeld' /\ BarrierHolds' /\ OneRequest'
    BY <1>k, <2>1 DEF Roles, MutexHeld, BarrierHolds, OneRequest
  <2>4. /\ \A o \in Ops : CopyOK(o, kind[o], op[o], auth')
        /\ \A m \in wire : m.op \notin auth'.contents =>
             RequestOK(m, kind[m.op], op[m.op], lost, auth')
        /\ slot # NoReplica => Acknowledged(slot, auth')
    BY <2>1, OthersAdvance
  <2>5. \A o \in Ops : o \in auth'.contents => o \in auth.contents
    BY <2>1, OpsAssumption
  <2>6. CopiesOK' /\ SlotOK' /\ LogOwned'
    BY <1>k, <2>1, <2>4, <2>5 DEF CopiesOK, SlotOK, LogOwned, LoggedOK
  <2>7. \A m \in wire : m.op \in Ops /\ m.op \notin auth.contents
    BY <1>k DEF WireOwned, RequestOK, LogOwned, LoggedOK, TypeOK, Request
  <2>8. WireOwned'
    BY <2>1, <2>4, <2>5, <2>7 DEF WireOwned
  <2> QED
    BY <2>1, <2>2, <2>3, <2>6, <2>8 DEF IInv
<1> QED
  BY <1>1, <1>2, <1>3

-----------------------------------------------------------------------------
(* The invariant *)

\* The store as connect_owned leaves it.
LEMMA InitLemma == Init => IInv
<1> SUFFICES ASSUME Init PROVE IInv
  OBVIOUS
<1>1. /\ kind \in Kinds /\ op = [o \in Ops |-> NewFuture]
      /\ slot = [rev |-> 0, contents |-> {}] /\ mutex = NoOp /\ pending = {}
      /\ invalidated = FALSE /\ lost = FALSE /\ wire = {}
      /\ auth = [rev |-> 0, contents |-> {}, owner |-> "this"]
  BY DEF Init
<1>2. NewFuture \in Future /\ NewFuture.pc = "idle"
  BY DEF NewFuture, Future, MaybeReplica
<1>3. \A o \in Ops : op[o].pc = "idle"
  BY <1>1, <1>2
<1>4. {} \in Contents
  BY DEF Contents
<1>5. TypeOK
  <2>1. slot \in MaybeReplica
    BY <1>1, <1>4 DEF MaybeReplica, Replica
  <2>2. auth \in [rev : Nat, contents : Contents, owner : {"this", "other", "none"}]
    BY <1>1, <1>4
  <2> QED
    BY <1>1, <1>2, <2>1, <2>2 DEF TypeOK
<1>6. Roles /\ MutexHeld /\ BarrierHolds
  BY <1>3 DEF Roles, RoleOK, MutexHeld, Inside, BarrierHolds, Excludes, HasCopy, WaitsToSend,
              Waiting
<1>7. CopiesOK /\ LogOwned
  <2>1. auth.contents = {}
    BY <1>1
  <2> QED
    BY <1>3, <2>1 DEF CopiesOK, CopyOK, LogOwned, LoggedOK, WaitsToSend, Waiting
<1>8. WireOwned /\ OneRequest /\ ParkOwned
  BY <1>1 DEF WireOwned, OneRequest, ParkOwned
<1>9. SlotOK
  BY <1>1 DEF SlotOK, Acknowledged
<1> QED
  BY <1>5, <1>6, <1>7, <1>8, <1>9 DEF IInv

\* Every step of an operation, the answer to its head call included, is local.
LEMMA LocalSteps ==
    ASSUME IInv, NEW o \in Ops, Call(o) \/ Step(o) \/ Fails(o) \/ ServeHead(o)
    PROVE  LocalShape(o)
<1>1. CASE Call(o) \/ Enable(o) \/ Test(o) \/ Sleep(o) \/ Wake(o) \/ Check(o)
  BY <1>1, BarrierSteps
<1>2. CASE Acquire(o)
  BY <1>2, AcquireStep
<1>3. CASE Reset(o) \/ Take(o)
  BY <1>3, ReplicaSteps
<1>4. CASE ComputeRead(o) \/ ComputeWrite(o) \/ ParkNotIdle(o) \/ ParkDeclined(o)
  BY <1>4, ComputeSteps
<1>5. CASE SendPark(o) \/ SendCommit(o)
  BY <1>5, SendSteps
<1>6. CASE ServeHead(o) \/ FinishRead(o) \/ FinishWrite(o) \/ FinishPark(o)
  BY <1>6, FinishSteps
<1>7. CASE Fails(o)
  BY <1>7, FailStep
<1> QED
  BY <1>1, <1>2, <1>3, <1>4, <1>5, <1>6, <1>7 DEF Step

\* Every step preserves the invariant.
LEMMA NextLemma == IInv /\ [Next]_vars => IInv'
<1> SUFFICES ASSUME IInv, [Next]_vars PROVE IInv'
  OBVIOUS
<1>1. CASE UNCHANGED vars
  BY <1>1 DEF vars, IInv, TypeOK, Roles, MutexHeld, BarrierHolds, CopiesOK, LogOwned, WireOwned,
              OneRequest, SlotOK, ParkOwned
<1>2. CASE \E o \in Ops : Call(o) \/ Step(o) \/ Fails(o) \/ ServeHead(o)
  BY <1>2, LocalSteps, LocalPreserves
<1>3. CASE \E m \in wire : ServeCommit(m) \/ ServePark(m)
  BY <1>3, CommitStep, ParkStep
<1>4. CASE TakeOver \/ ForeignWrite \/ LoseOwnership
  BY <1>4, OwnerSteps
<1> QED
  BY <1>1, <1>2, <1>3, <1>4 DEF Next, Authority

\* The inductive invariant holds throughout.
THEOREM Invariant == Spec => []IInv
  BY InitLemma, NextLemma, PTL DEF Spec

\* Every reachable state of the store is well typed.
THEOREM TypeCorrect == Spec => []TypeOK
<1>1. IInv => TypeOK
  BY DEF IInv
<1> QED
  BY <1>1, Invariant, PTL

\* No operation of this process that is alive commits, parks or drops its replica
\* past a read whose validation is under way, and the requests that are on the
\* wire meanwhile are those of callers that gave up (read_barrier.rs).
THEOREM ReadsNotPassed == Spec => []ReadsAreNotPassed
<1>1. IInv => ReadsAreNotPassed
  <2> SUFFICES ASSUME IInv, pending # {}
               PROVE  /\ \A o \in Ops : /\ op[o].pc \notin {"send", "sent", "busy", "reset"}
                                        /\ op[o].pc = "answered" => kind[o] = "read"
                      /\ \A m \in wire : op[m.op].pc = "failed"
    BY DEF ReadsAreNotPassed
  <2>1. \A o \in Ops : ~ Excludes(kind[o], op[o])
    BY DEF IInv, BarrierHolds
  <2>2. \A o \in Ops : /\ op[o].pc \notin {"send", "sent", "busy", "reset"}
                       /\ op[o].pc = "answered" => kind[o] = "read"
    BY <2>1 DEF Excludes
  <2>3. ASSUME NEW m \in wire
        PROVE  op[m.op].pc = "failed"
    <3>1. m.op \in Ops
      BY DEF IInv, TypeOK, Request
    <3>2. op[m.op].pc \in {"sent", "failed"}
      BY DEF IInv, WireOwned, RequestOK
    <3> QED
      BY <3>1, <3>2, <2>2
  <2> QED
    BY <2>2, <2>3
<1> QED
  BY <1>1, Invariant, PTL

\* Once the authority has parked the data, nobody takes the mutex of a process
\* that has not fenced itself (the drop of the ParkDecision).
THEOREM ParkFences == Spec => []ParkedIsFenced
<1>1. IInv => ParkedIsFenced
  BY OpsAssumption DEF IInv, ParkOwned, MutexHeld, Inside, ParkedIsFenced
<1> QED
  BY <1>1, Invariant, PTL

\* The cached replica is always one the authority acknowledged.
THEOREM CacheAcknowledged == Spec => []CacheIsAcknowledged
<1>1. IInv => CacheIsAcknowledged
  BY DEF IInv, SlotOK, Acknowledged, CacheIsAcknowledged
<1> QED
  BY <1>1, Invariant, PTL

-----------------------------------------------------------------------------
(* The refinement of AtomicStore *)

\* What the refinement mapping substitutes for `call' and `seen'.
calls == [o \in Ops |-> CallOf(kind[o], op[o])]
sights == [o \in Ops |-> SeenOf(kind[o], op[o])]

\* What a step of o is to its caller.
Maps(o) ==
    /\ kind' = kind /\ auth'.contents = auth.contents
    /\ \A p \in Ops \ {o} : Same(op'[p], op[p])
    /\ LET c == CallOf(kind[o], op[o])  d == CallOf(kind[o], op'[o])
           s == SeenOf(kind[o], op[o])  t == SeenOf(kind[o], op'[o])
       IN \/ d = c /\ t = s
          \/ c = "idle" /\ d = "called" /\ t = s
          \/ c = "called" /\ d = "seen" /\ t = auth.contents
          \/ (c = "seen" \/ (c = "called" /\ o \in auth.contents)) /\ d = "ok" /\ t = s
          \/ c \in {"called", "seen"} /\ d = "failed" /\ t = {}

\* A step of one operation is a step of AtomicStore or a stutter.
LEMMA MapsToAtomic ==
    ASSUME NEW o \in Ops, Maps(o)
    PROVE  [Atomic!Next]_(Atomic!avars)
<1> DEFINE c == CallOf(kind[o], op[o])
           d == CallOf(kind[o], op'[o])
           s == SeenOf(kind[o], op[o])
           t == SeenOf(kind[o], op'[o])
<1>1. \A p \in Ops \ {o} : /\ CallOf(kind'[p], op'[p]) = CallOf(kind[p], op[p])
                           /\ SeenOf(kind'[p], op'[p]) = SeenOf(kind[p], op[p])
  BY DEF Maps, Same, CallOf, SeenOf
<1>2. /\ calls' = [calls EXCEPT ![o] = d] /\ calls[o] = c
      /\ sights' = [sights EXCEPT ![o] = t] /\ sights[o] = s
  BY <1>1 DEF Maps, calls, sights
<1>3. /\ t = s => sights' = sights
      /\ d = c => calls' = calls
  BY <1>2 DEF sights, calls
<1>4. auth'.contents = auth.contents
      /\ \/ d = c /\ t = s
         \/ c = "idle" /\ d = "called" /\ t = s
         \/ c = "called" /\ d = "seen" /\ t = auth.contents
         \/ (c = "seen" \/ (c = "called" /\ o \in auth.contents)) /\ d = "ok" /\ t = s
         \/ c \in {"called", "seen"} /\ d = "failed" /\ t = {}
  BY DEF Maps
<1> HIDE DEF c, d, s, t
<1>5. CASE d = c /\ t = s
  BY <1>3, <1>4, <1>5 DEF Atomic!avars, calls, sights
<1>6. CASE c = "idle" /\ d = "called" /\ t = s
  <2>1. Atomic!Call(o)
    BY <1>2, <1>3, <1>4, <1>6 DEF Atomic!Call, calls, sights
  <2> QED
    BY <2>1 DEF Atomic!Next
<1>7. CASE c = "called" /\ d = "seen" /\ t = auth.contents
  <2>1. Atomic!Read(o)
    BY <1>2, <1>3, <1>4, <1>7 DEF Atomic!Read, calls, sights
  <2> QED
    BY <2>1 DEF Atomic!Next
<1>8. CASE (c = "seen" \/ (c = "called" /\ o \in auth.contents)) /\ d = "ok" /\ t = s
  <2>1. Atomic!Return(o)
    BY <1>2, <1>3, <1>4, <1>8 DEF Atomic!Return, calls, sights
  <2> QED
    BY <2>1 DEF Atomic!Next
<1>9. CASE c \in {"called", "seen"} /\ d = "failed" /\ t = {}
  <2>1. Atomic!Fail(o)
    BY <1>2, <1>3, <1>4, <1>9 DEF Atomic!Fail, calls, sights
  <2> QED
    BY <2>1 DEF Atomic!Next
<1> QED
  BY <1>4, <1>5, <1>6, <1>7, <1>8, <1>9

\* Until it is answered an operation has only been called; a park is none.
LEMMA QuietSteps ==
    ASSUME IInv, NEW o \in Ops, Step(o) \/ Call(o)
    PROVE  \/ kind[o] = "park"
           \/ /\ op[o].pc = "idle" => op'[o].pc = "lock"
              /\ op[o].pc \in {"idle"} \cup (Running \ {"answered"})
              /\ op'[o].pc \in Running \ {"answered"}
           \/ FinishRead(o) \/ FinishWrite(o)
<1>k. /\ op \in [Ops -> Future] /\ op[o] \in Future
      /\ op[o].then \in {"check", "reset", "send"}
  BY DEF IInv, TypeOK, Future
<1>5. CASE Call(o)
  BY <1>5, <1>k DEF Call, Goes, WaitThen, Running
<1>6. CASE Enable(o)
  BY <1>6, <1>k DEF Enable, Goes, WaitThen, Running
<1>7. CASE Test(o)
  BY <1>7, <1>k DEF Test, Goes, WaitThen, Running
<1>8. CASE Sleep(o)
  BY <1>8, <1>k DEF Sleep, Goes, WaitThen, Running
<1>9. CASE Wake(o)
  BY <1>9, <1>k DEF Wake, Goes, WaitThen, Running
<1>10. CASE Acquire(o)
  <2>1. op[o].pc = "lock" /\ (WaitThen(o, "check") \/ Goes(o, "check"))
    BY <1>10 DEF Acquire
  <2>2. op'[o].pc \in {"wait", "check"}
    BY <1>k, <2>1 DEF Goes, WaitThen, Future
  <2> QED
    BY <2>1, <2>2 DEF Running
<1>11. CASE Check(o)
  <2>1. op[o].pc = "check" /\ (WaitThen(o, "reset") \/ Goes(o, "take"))
    BY <1>11 DEF Check
  <2>2. op'[o].pc \in {"wait", "take"}
    BY <1>k, <2>1 DEF Goes, WaitThen, Future
  <2> QED
    BY <2>1, <2>2 DEF Running
<1>12. CASE Reset(o)
  BY <1>12, <1>k DEF Reset, Goes, WaitThen, Running
<1>13. CASE Take(o)
  BY <1>13, <1>k DEF Take, Goes, WaitThen, Running
<1>14. CASE ComputeRead(o)
  BY <1>14, <1>k DEF ComputeRead, Goes, WaitThen, Running
<1>15. CASE ComputeWrite(o)
  BY <1>15, <1>k DEF ComputeWrite, Goes, WaitThen, Running
<1>16. CASE SendCommit(o)
  BY <1>16, <1>k DEF SendCommit, Goes, WaitThen, Running
<1>4. CASE ParkNotIdle(o) \/ ParkDeclined(o) \/ SendPark(o) \/ FinishPark(o)
  BY <1>4 DEF ParkNotIdle, ParkDeclined, SendPark, FinishPark
<1> QED
  BY <1>4, <1>5, <1>6, <1>7, <1>8, <1>9, <1>10, <1>11, <1>12, <1>13, <1>14, <1>15, <1>16
     DEF Step

\* Every step of an operation is a step of its caller's view, or none.
LEMMA LocalViews ==
    ASSUME IInv, NEW o \in Ops, Call(o) \/ Step(o) \/ Fails(o) \/ ServeHead(o)
    PROVE  Maps(o)
<1>k. /\ op \in [Ops -> Future] /\ op[o] \in Future /\ OpOK(o, kind[o], op[o], mutex, pending, auth)
      /\ kind[o] \in {"read", "write", "park"}
  BY Known DEF IInv, TypeOK
<1>1. kind' = kind /\ auth' = auth /\ \A p \in Ops \ {o} : Same(op'[p], op[p])
  BY LocalSteps DEF LocalShape
<1>2. CASE kind[o] = "park"
  BY <1>1, <1>2 DEF Maps, CallOf, SeenOf
<1>3. CASE kind[o] # "park" /\ (Step(o) \/ Call(o)) /\ ~FinishRead(o) /\ ~FinishWrite(o)
  BY <1>1, <1>3, QuietSteps DEF Maps, CallOf, SeenOf, Running
<1>4. CASE FinishRead(o)
  <2>1. /\ kind[o] = "read" /\ op[o].pc = "answered"
        /\ op' = Notified([op EXCEPT ![o].pc = "ok"], pending')
    BY <1>4 DEF FinishRead
  <2>2. [op EXCEPT ![o].pc = "ok"] \in [Ops -> Future]
    BY <1>k DEF Future
  <2> DEFINE g == [op EXCEPT ![o].pc = "ok"]
  <2>4. g[o].pc = "ok" /\ g[o].copy = op[o].copy
    BY <1>k DEF Future
  <2>5. g \in [Ops -> Future] /\ op' = Notified(g, pending')
    BY <2>1, <2>2
  <2> HIDE DEF g
  <2>3. op'[o].pc = "ok" /\ op'[o].copy = op[o].copy
    BY <2>4, <2>5, NotifiedSame DEF Same
  <2> QED
    BY <1>1, <2>1, <2>3 DEF Maps, CallOf, SeenOf
<1>5. CASE FinishWrite(o)
  <2>1. kind[o] = "write" /\ op[o].pc = "answered" /\ op'[o].pc = "ok"
    BY <1>5, <1>k DEF FinishWrite
  <2>2. o \in auth.contents
    BY <1>k, <2>1 DEF OpOK, LoggedOK
  <2> QED
    BY <1>1, <2>1, <2>2 DEF Maps, CallOf, SeenOf
<1>6. CASE Fails(o) /\ kind[o] # "park"
  <2>1. /\ op[o].pc \in Running
        /\ op' = Notified([op EXCEPT ![o].pc = "failed", ![o].copy = NoReplica], pending')
    BY <1>6 DEF Fails, Ends
  <2>2. [op EXCEPT ![o].pc = "failed", ![o].copy = NoReplica] \in [Ops -> Future]
    BY <1>k DEF Future, MaybeReplica
  <2> DEFINE g == [op EXCEPT ![o].pc = "failed", ![o].copy = NoReplica]
  <2>4. g[o].pc = "failed"
    BY <1>k DEF Future
  <2>5. g \in [Ops -> Future] /\ op' = Notified(g, pending')
    BY <2>1, <2>2
  <2> HIDE DEF g
  <2>3. op'[o].pc = "failed"
    BY <2>4, <2>5, NotifiedSame DEF Same
  <2> QED
    BY <1>1, <1>6, <2>1, <2>3 DEF Maps, CallOf, SeenOf, Running
<1>7. CASE ServeHead(o)
  <2>1. /\ op[o].pc = "validate" /\ auth.rev = op[o].copy.rev /\ op'[o].pc = "answered"
        /\ op'[o].copy = op[o].copy
    BY <1>7, <1>k DEF ServeHead, HeadUnchanged, Goes, Future
  <2>2. kind[o] = "read" /\ op[o].copy.contents = auth.contents
    BY <1>k, <2>1 DEF OpOK, RoleOK, CopyOK, Acknowledged
  <2> QED
    BY <1>1, <2>1, <2>2 DEF Maps, CallOf, SeenOf
<1> QED
  BY <1>2, <1>3, <1>4, <1>5, <1>6, <1>7

\* A step of the authority leaves the calls alone and is a write or nothing.
LEMMA AuthorityViews ==
    ASSUME IInv, (\E m \in wire : ServeCommit(m) \/ ServePark(m))
                 \/ TakeOver \/ ForeignWrite \/ LoseOwnership
    PROVE  [Atomic!Next]_(Atomic!avars)
<1>1. ASSUME NEW m \in wire, ServeCommit(m)
      PROVE  Atomic!Next
  <2> DEFINE x == m.op
  <2>1. /\ x \in Ops /\ x \notin auth.contents /\ kind[x] = "write"
        /\ auth'.contents = auth.contents \cup {x}
        /\ op[x].pc \in {"sent", "failed"}
        /\ op'[x].pc = IF op[x].pc = "sent" THEN "answered" ELSE "failed"
        /\ \A p \in Ops \ {x} : op'[p] = op[p]
    BY <1>1, CommitStep
  <2>2. kind' = kind
    BY <1>1 DEF ServeCommit
  <2> HIDE DEF x
  <2>3. \A p \in Ops : /\ CallOf(kind'[p], op'[p]) = CallOf(kind[p], op[p])
                       /\ SeenOf(kind'[p], op'[p]) = SeenOf(kind[p], op[p])
    BY <2>1, <2>2 DEF CallOf, SeenOf
  <2>4. calls' = calls /\ sights' = sights /\ calls[x] \in {"called", "failed"}
    BY <2>1, <2>3 DEF calls, sights, CallOf
  <2>5. Atomic!Write(x)
    BY <2>1, <2>4 DEF Atomic!Write, calls, sights
  <2> QED
    BY <2>1, <2>5 DEF Atomic!Next
<1>2. ASSUME NEW m \in wire, ServePark(m)
      PROVE  UNCHANGED Atomic!avars
  <2>1. /\ m.op \in Ops /\ kind[m.op] = "park" /\ auth'.contents = auth.contents
        /\ \A p \in Ops \ {m.op} : op'[p] = op[p]
    BY <1>2, ParkStep
  <2>2. kind' = kind
    BY <1>2 DEF ServePark
  <2>3. \A p \in Ops : /\ CallOf(kind'[p], op'[p]) = CallOf(kind[p], op[p])
                       /\ SeenOf(kind'[p], op'[p]) = SeenOf(kind[p], op[p])
    BY <2>1, <2>2 DEF CallOf, SeenOf
  <2> QED
    BY <2>1, <2>3 DEF Atomic!avars
<1>3. CASE TakeOver \/ ForeignWrite \/ LoseOwnership
  <2>1. kind' = kind /\ op' = op
    BY <1>3 DEF TakeOver, ForeignWrite, LoseOwnership
  <2>2. calls' = calls /\ sights' = sights
    BY <2>1 DEF calls, sights
  <2>3. \/ auth'.contents = auth.contents
        \/ \E f \in Foreign \ auth.contents : auth'.contents = auth.contents \cup {f}
    BY <1>3, OwnerSteps
  <2> QED
    BY <2>2, <2>3 DEF Atomic!avars, Atomic!Next, Atomic!WriteElsewhere, calls, sights
<1> QED
  BY <1>1, <1>2, <1>3

\* The store is atomic for its callers: every step of the operations, of the
\* requests in flight and of the authority is a step of AtomicStore or is not
\* visible to them, whatever fails, is cancelled or arrives late.
THEOREM StoreAtomic == Spec => StoreIsAtomic
<1>1. Init => Atomic!Init
  <2> SUFFICES ASSUME Init PROVE Atomic!Init
    OBVIOUS
  <2>1. op = [o \in Ops |-> NewFuture] /\ auth.contents = {}
    BY DEF Init
  <2>2. \A o \in Ops : CallOf(kind[o], op[o]) = "idle" /\ SeenOf(kind[o], op[o]) = {}
    BY <2>1 DEF NewFuture, CallOf, SeenOf
  <2> QED
    BY <2>1, <2>2 DEF Atomic!Init
<1>2. IInv /\ [Next]_vars => [Atomic!Next]_(Atomic!avars)
  <2> SUFFICES ASSUME IInv, [Next]_vars PROVE [Atomic!Next]_(Atomic!avars)
    OBVIOUS
  <2>1. CASE UNCHANGED vars
    BY <2>1 DEF vars, Atomic!avars
  <2>2. CASE \E o \in Ops : Call(o) \/ Step(o) \/ Fails(o) \/ ServeHead(o)
    BY <2>2, LocalViews, MapsToAtomic
  <2>3. CASE \/ \E m \in wire : ServeCommit(m) \/ ServePark(m)
             \/ TakeOver \/ ForeignWrite \/ LoseOwnership
    BY <2>3, AuthorityViews
  <2> QED
    BY <2>1, <2>2, <2>3 DEF Next, Authority
<1> QED
  BY <1>1, <1>2, Invariant, PTL DEF Spec, StoreIsAtomic, Atomic!Spec
=============================================================================
