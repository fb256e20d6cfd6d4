----------------------- MODULE ThreadActivationProofs -----------------------
(***************************************************************************)
(* Safety of a Thread's mailbox and Activations for every set of Runtimes   *)
(* and every bound, from one inductive invariant.                           *)
(***************************************************************************)
EXTENDS ThreadActivation, TLAPS

\* A task works on an Activation whose row exists.  While it waits for
\* admission the row is not behind what it read, and a row that is still at
\* that revision is still live.
TaskFenced ==
    \A r \in Runtimes : task[r].pc # "idle" =>
        /\ task[r].act \in Signals
        /\ act[task[r].act].status # "absent"
        /\ task[r].pc = "admitting" =>
             /\ task[r].revision <= act[task[r].act].revision
             /\ task[r].revision = act[task[r].act].revision => Live(act[task[r].act])

\* The same for a recovery that was decided and not yet written.
ProbeFenced ==
    probe.by # NoRuntime =>
        /\ probe.act \in Signals
        /\ act[probe.act].status # "absent"
        /\ probe.revision <= act[probe.act].revision
        /\ probe.revision = act[probe.act].revision => Live(act[probe.act])

\* No Signal is ahead of the Thread, and a claimed one has its link.
MailboxFenced ==
    \A s \in Signals :
        /\ signal[s].generation <= thread.generation
        /\ signal[s].status = "claimed" => signal[s].batch \in Signals

IInv ==
    /\ TypeOK
    /\ TaskFenced
    /\ ProbeFenced
    /\ MailboxFenced
    /\ SingleFlight
    /\ OutcomeOwned
    /\ ClaimedIsHeld

-----------------------------------------------------------------------------
(* What one step does, as the invariant sees it *)

\* A live row stays live, or ends and moves its revision.
RowKeeps(x, y) ==
    Live(x) /\ Live(y) /\ y.generation = x.generation /\ y.revision >= x.revision
RowEnds(x, y) ==
    /\ Live(x) /\ y.status \in Terminal
    /\ y.generation = x.generation /\ y.revision > x.revision

\* The Thread keeps its lifecycle and no Activation becomes live.
Quiet ==
    /\ thread'.status = thread.status
    /\ thread'.generation = thread.generation
    /\ thread'.outcome = thread.outcome
    /\ thread.status # "open" => ~thread'.waiting
    /\ \A a \in Signals :
         \/ act'[a] = act[a]
         \/ RowKeeps(act[a], act'[a])
         \/ RowEnds(act[a], act'[a])

\* An open Thread without a live Activation gets one.
Claims ==
    /\ thread' = thread /\ thread.status = "open"
    /\ ~LiveNow
    /\ \E s \in Signals :
         /\ act[s].status = "absent"
         /\ Live(act'[s]) /\ act'[s].generation = thread.generation
         /\ \A a \in Signals \ {s} : act'[a] = act[a]

\* The live Activation ends and its outcome becomes the Thread's.
Commits ==
    /\ thread.status = "open"
    /\ thread'.status \in Terminal
    /\ thread'.generation = thread.generation
    /\ ~thread'.waiting
    /\ \E a \in Signals :
         /\ Live(act[a]) /\ act[a].generation = thread.generation
         /\ RowEnds(act[a], act'[a])
         /\ thread'.outcome = a /\ act'[a].status = thread'.status
         /\ \A b \in Signals \ {a} : act'[b] = act[b]

\* A new generation begins and every live Activation is cancelled.
Fences ==
    /\ thread'.generation = thread.generation + 1
    /\ \/ thread'.status = "open" /\ thread'.outcome = None
       \/ thread'.status = "cancelled" /\ thread'.outcome = ControlOutcome /\ ~thread'.waiting
    /\ \A a \in Signals :
         \/ act'[a] = act[a] /\ ~(Live(act[a]) /\ act[a].generation = thread.generation)
         \/ RowEnds(act[a], act'[a])

\* A Signal stays, is acknowledged, appears, or is claimed by a live row.
SignalMoves(s) ==
    \/ signal'[s] = signal[s]
    \/ /\ signal'[s].status = "acknowledged"
       /\ signal'[s].generation = signal[s].generation
    \/ /\ signal'[s].status = "pending"
       /\ signal'[s].generation <= thread'.generation
    \/ /\ signal'[s].status = "claimed"
       /\ signal'[s].generation = signal[s].generation
       /\ signal'[s].batch \in Signals /\ Live(act'[signal'[s].batch])

\* An Activation that ends within a generation leaves no Signal claimed.
BatchReleased ==
    \A a \in Signals :
        Live(act[a]) /\ ~Live(act'[a]) /\ thread'.generation = thread.generation =>
            \A s \in Signals : ~(signal'[s].status = "claimed" /\ signal'[s].batch = a)

\* v is a task after a step that changes it, p such a probe.
TaskFits(v) ==
    v.pc # "idle" =>
        /\ v.act \in Signals
        /\ act'[v.act].status # "absent"
        /\ v.pc = "admitting" =>
             /\ v.revision <= act'[v.act].revision
             /\ v.revision = act'[v.act].revision => Live(act'[v.act])

ProbeFits(p) ==
    p.by # NoRuntime =>
        /\ p.act \in Signals
        /\ act'[p.act].status # "absent"
        /\ p.revision <= act'[p.act].revision
        /\ p.revision = act'[p.act].revision => Live(act'[p.act])

StepShape ==
    /\ TypeOK'
    /\ Quiet \/ Claims \/ Commits \/ Fences
    /\ \A s \in Signals : SignalMoves(s)
    /\ BatchReleased
    /\ \A r \in Runtimes : task'[r] = task[r] \/ TaskFits(task'[r])
    /\ probe' = probe \/ ProbeFits(probe')

-----------------------------------------------------------------------------
(* Facts about the constants and the rows *)

\* Signal numbers, NULL and the control Activation are distinct.
LEMMA SignalNumbers ==
    /\ Signals \subseteq Nat /\ 1 \in Signals
    /\ None \notin Signals /\ ControlOutcome \notin Signals /\ None # ControlOutcome
BY ConstantsAssumption DEF Signals, None, ControlOutcome

\* The statuses of an Activation are disjoint.
LEMMA Statuses ==
    /\ \A x : Live(x) <=> x.status = "queued" \/ x.status = "running"
    /\ "absent" \notin LiveStatus /\ LiveStatus \cap Terminal = {}
    /\ "open" \notin Terminal /\ "absent" \notin Terminal
BY DEF Live, LiveStatus, Terminal

\* UPDATE thread_activations that gives the row up.
LEMMA ReleasedRows ==
    ASSUME NEW x \in ActRecord, NEW st \in Terminal \cup {"queued"}
    PROVE  /\ Released(x, st) \in ActRecord
           /\ Released(x, st).status = st
           /\ Released(x, st).generation = x.generation
           /\ Released(x, st).revision > x.revision
<1> DEFINE n == x.revision + 1
<1>1. n \in Nat /\ n > x.revision
  BY DEF ActRecord
<1> HIDE DEF n
<1>2. Released(x, st) = [x EXCEPT !.status = st, !.revision = n,
                                  !.owner = NoRuntime, !.lease = "none"]
  BY DEF Released, n, ActRecord
<1>3. Released(x, st) \in ActRecord
  BY <1>1, <1>2 DEF ActRecord, LiveStatus, Terminal
<1> QED
  BY <1>1, <1>2, <1>3 DEF ActRecord

\* UPDATE thread_activations that takes or renews the row.
LEMMA HeldRows ==
    ASSUME NEW x \in ActRecord, NEW r \in Runtimes
    PROVE  /\ Held(x, r) \in ActRecord
           /\ Held(x, r).status = "running"
           /\ Held(x, r).generation = x.generation
           /\ Held(x, r).revision > x.revision
<1> DEFINE n == x.revision + 1
<1>1. n \in Nat /\ n > x.revision
  BY DEF ActRecord
<1> HIDE DEF n
<1>2. Held(x, r) = [x EXCEPT !.status = "running", !.revision = n,
                             !.owner = r, !.lease = "live"]
  BY DEF Held, n, ActRecord
<1>3. Held(x, r) \in ActRecord
  BY <1>1, <1>2 DEF ActRecord, LiveStatus, Terminal
<1> QED
  BY <1>1, <1>2, <1>3 DEF ActRecord

\* INSERT INTO thread_signals.
LEMMA NewSignals ==
    ASSUME NEW kind \in {"input", "steering", "output"},
           NEW parent \in Signals \cup {None}, NEW g \in Nat
    PROVE  /\ NewSignal(kind, parent, g) \in SignalRecord
           /\ NewSignal(kind, parent, g).status = "pending"
           /\ NewSignal(kind, parent, g).generation = g
BY DEF NewSignal, AbsentSignal, SignalRecord

\* UPDATE thread_signals SET status = 'acknowledged'.
LEMMA AckedSignals ==
    ASSUME NEW x \in SignalRecord
    PROVE  /\ Acknowledged(x) \in SignalRecord
           /\ Acknowledged(x).status = "acknowledged"
           /\ Acknowledged(x).generation = x.generation
BY DEF Acknowledged, SignalRecord

-----------------------------------------------------------------------------
(* A step of this shape keeps the invariant *)

\* Whatever the step, an existing row keeps existing, its revision does not go
\* back, and a live row that is no longer live has a newer revision.
LEMMA RowsAdvance ==
    ASSUME IInv, StepShape, NEW a \in Signals, act[a].status # "absent"
    PROVE  /\ act'[a].status # "absent"
           /\ act[a].revision \in Nat /\ act'[a].revision \in Nat
           /\ act'[a].revision >= act[a].revision
           /\ act'[a].revision = act[a].revision /\ Live(act[a]) => Live(act'[a])
<1>1. act[a] \in ActRecord /\ act'[a] \in ActRecord
  BY DEF IInv, StepShape, TypeOK
<1>2. act[a].revision \in Nat /\ act'[a].revision \in Nat
  BY <1>1 DEF ActRecord
<1>3. act'[a] = act[a] \/ RowKeeps(act[a], act'[a]) \/ RowEnds(act[a], act'[a])
  BY DEF StepShape, Quiet, Claims, Commits, Fences
<1>4. CASE act'[a] = act[a]
  BY <1>2, <1>4
<1>5. CASE RowKeeps(act[a], act'[a])
  BY <1>2, <1>5, Statuses DEF RowKeeps
<1>6. CASE RowEnds(act[a], act'[a])
  BY <1>2, <1>6, Statuses DEF RowEnds
<1> QED
  BY <1>3, <1>4, <1>5, <1>6

\* What a Runtime read stays behind the rows, so a stale reader whose revision
\* still matches finds a live row.
LEMMA ShapeTasks ==
    ASSUME IInv, StepShape
    PROVE  TaskFenced' /\ ProbeFenced'
<1>1. TaskFenced'
  <2> SUFFICES ASSUME NEW r \in Runtimes
               PROVE  TaskFits(task'[r])
    BY DEF TaskFenced, TaskFits, Live
  <2>1. CASE TaskFits(task'[r])
    BY <2>1
  <2>2. CASE task'[r] = task[r]
    <3> SUFFICES ASSUME task[r].pc # "idle"
                 PROVE  TaskFits(task[r])
      BY <2>2 DEF TaskFits
    <3>1. /\ task[r].act \in Signals
          /\ act[task[r].act].status # "absent"
          /\ task[r].pc = "admitting" =>
               /\ task[r].revision <= act[task[r].act].revision
               /\ task[r].revision = act[task[r].act].revision => Live(act[task[r].act])
      BY DEF IInv, TaskFenced
    <3>2. task[r].revision \in Nat
      BY DEF IInv, TypeOK, TaskRecord
    <3> QED
      BY <3>1, <3>2, RowsAdvance DEF TaskFits
  <2> QED
    BY <2>1, <2>2 DEF StepShape
<1>2. ProbeFenced'
  <2> SUFFICES ProbeFits(probe')
    BY DEF ProbeFenced, ProbeFits, Live
  <2>1. CASE ProbeFits(probe')
    BY <2>1
  <2>2. CASE probe' = probe
    <3> SUFFICES ASSUME probe.by # NoRuntime
                 PROVE  ProbeFits(probe)
      BY <2>2 DEF ProbeFits
    <3>1. /\ probe.act \in Signals
          /\ act[probe.act].status # "absent"
          /\ probe.revision <= act[probe.act].revision
          /\ probe.revision = act[probe.act].revision => Live(act[probe.act])
      BY DEF IInv, ProbeFenced
    <3>2. probe.revision \in Nat
      BY DEF IInv, TypeOK, ProbeRecord
    <3> QED
      BY <3>1, <3>2, RowsAdvance DEF ProbeFits
  <2> QED
    BY <2>1, <2>2 DEF StepShape
<1> QED
  BY <1>1, <1>2

\* No shape makes a second row live, revives a row under a terminal Thread, or
\* leaves an outcome without its Activation.
LEMMA ShapeFlight ==
    ASSUME IInv, StepShape
    PROVE  SingleFlight' /\ OutcomeOwned'
<1> DEFINE g == thread.generation
<1>1. /\ g \in Nat /\ g + 1 # g
      /\ \A a \in Signals : Live(act[a]) =>
           /\ act[a].generation = g /\ thread.status = "open"
           /\ \A b \in Signals : Live(act[b]) => b = a
  BY DEF IInv, TypeOK, ThreadRecord, SingleFlight, Current
<1>2. /\ thread.status = "open" <=> thread.outcome = None
      /\ thread.outcome \in Signals =>
           act[thread.outcome].generation = g /\ act[thread.outcome].status = thread.status
      /\ thread.status # "open" => ~thread.waiting
  BY DEF IInv, OutcomeOwned, Current
<1>3. /\ (\A a \in Signals : Live(act'[a]) =>
           /\ act'[a].generation = thread'.generation /\ thread'.status = "open"
           /\ \A b \in Signals : Live(act'[b]) => b = a)
      => SingleFlight'
  BY DEF SingleFlight, Current, Live
<1>4. /\ thread'.status = "open" <=> thread'.outcome = None
      /\ thread'.outcome \in Signals =>
           /\ act'[thread'.outcome].generation = thread'.generation
           /\ act'[thread'.outcome].status = thread'.status
      /\ thread'.status # "open" => ~thread'.waiting
      => OutcomeOwned'
  BY DEF OutcomeOwned, Current
<1> HIDE DEF g
<1>5. CASE Quiet
  <2>1. \A a \in Signals :
          Live(act'[a]) => Live(act[a]) /\ act'[a].generation = act[a].generation
    BY <1>5, Statuses DEF Quiet, RowKeeps, RowEnds
  <2>2. thread.outcome \in Signals => act'[thread.outcome] = act[thread.outcome]
    BY <1>1, <1>2, <1>5, SignalNumbers DEF Quiet, RowKeeps, RowEnds
  <2> QED
    BY <1>1, <1>2, <1>3, <1>4, <1>5, <2>1, <2>2 DEF Quiet, g
<1>6. CASE Claims
  <2>1. \A a \in Signals : ~Live(act[a])
    BY <1>1, <1>6 DEF Claims, LiveNow, Current, g
  <2>2. PICK s \in Signals : /\ Live(act'[s]) /\ act'[s].generation = thread.generation
                             /\ \A a \in Signals \ {s} : act'[a] = act[a]
    BY <1>6 DEF Claims
  <2>3. \A a \in Signals : Live(act'[a]) => a = s
    BY <2>1, <2>2
  <2>4. thread' = thread /\ thread.status = "open" /\ thread.outcome = None
    BY <1>2, <1>6 DEF Claims
  <2> QED
    BY <1>3, <1>4, <2>2, <2>3, <2>4, SignalNumbers
<1>7. CASE Commits
  <2>1. PICK a \in Signals :
          /\ Live(act[a]) /\ act[a].generation = thread.generation
          /\ RowEnds(act[a], act'[a])
          /\ thread'.outcome = a /\ act'[a].status = thread'.status
          /\ \A b \in Signals \ {a} : act'[b] = act[b]
    BY <1>7 DEF Commits
  <2>2. \A b \in Signals : ~Live(act'[b])
    BY <1>1, <2>1 DEF RowEnds, Live, LiveStatus, Terminal
  <2>3. /\ act'[a].generation = thread'.generation
        /\ thread'.status # "open" /\ ~thread'.waiting /\ a # None
    BY <1>7, <2>1, Statuses, SignalNumbers DEF RowEnds, Commits
  <2> QED
    BY <1>3, <1>4, <2>1, <2>2, <2>3
<1>8. CASE Fences
  <2>1. \A a \in Signals : ~Live(act'[a])
    BY <1>1, <1>8 DEF Fences, RowEnds, g, Live, LiveStatus, Terminal
  <2>2. /\ thread'.outcome \notin Signals
        /\ thread'.status = "open" <=> thread'.outcome = None
        /\ thread'.status # "open" => ~thread'.waiting
    BY <1>8, SignalNumbers DEF Fences
  <2> QED
    BY <1>3, <1>4, <2>1, <2>2
<1> QED
  BY <1>5, <1>6, <1>7, <1>8 DEF StepShape

\* Signals are not ahead of the Thread, and a claim ends with its Activation.
LEMMA ShapeMailbox ==
    ASSUME IInv, StepShape
    PROVE  MailboxFenced' /\ ClaimedIsHeld'
<1>1. thread.generation \in Nat /\ thread'.generation \in Nat
  BY DEF IInv, StepShape, TypeOK, ThreadRecord
<1>2. thread'.generation >= thread.generation
  BY <1>1 DEF StepShape, Quiet, Claims, Commits, Fences
<1>3. \A s \in Signals : signal[s].generation \in Nat /\ signal'[s].generation \in Nat
  BY DEF IInv, StepShape, TypeOK, SignalRecord
<1>4. MailboxFenced'
  BY <1>1, <1>2, <1>3 DEF IInv, MailboxFenced, StepShape, SignalMoves
<1>5. ASSUME NEW s \in Signals, signal'[s].status = "claimed",
             signal'[s].generation = thread'.generation
      PROVE  Live(act'[signal'[s].batch])
  <2>1. CASE signal'[s] = signal[s]
    <3>1. signal[s].generation <= thread.generation /\ signal[s].batch \in Signals
      BY <1>5, <2>1 DEF IInv, MailboxFenced
    <3>2. thread'.generation = thread.generation
      BY <1>1, <1>2, <1>3, <1>5, <2>1, <3>1
    <3>3. Live(act[signal[s].batch])
      BY <1>5, <2>1, <3>2 DEF IInv, ClaimedIsHeld, Current
    <3> QED
      BY <1>5, <2>1, <3>1, <3>2, <3>3 DEF StepShape, BatchReleased
  <2>2. CASE signal'[s] # signal[s]
    BY <1>5, <2>2 DEF StepShape, SignalMoves
  <2> QED
    BY <2>1, <2>2
<1>6. ClaimedIsHeld'
  BY <1>5 DEF ClaimedIsHeld, Current, Live
<1> QED
  BY <1>4, <1>6

\* A step of the shape preserves the whole invariant.
LEMMA ShapeKeeps ==
    ASSUME IInv, StepShape
    PROVE  IInv'
BY ShapeTasks, ShapeFlight, ShapeMailbox DEF StepShape, IInv

-----------------------------------------------------------------------------
(* Ways to have the shape *)

\* f is the mailbox with some Signals acknowledged.
AcksOnly(f) ==
    /\ f \in [Signals -> SignalRecord]
    /\ \A s \in Signals :
         \/ f[s] = signal[s]
         \/ f[s].status = "acknowledged" /\ f[s].generation = signal[s].generation

\* The bulk acknowledgements only acknowledge, and AckBatch leaves nothing
\* claimed by its Activation.
LEMMA Acks ==
    ASSUME TypeOK, NEW a
    PROVE  /\ AcksOnly(signal) /\ AcksOnly(AckBatch(a)) /\ AcksOnly(AckGeneration)
           /\ AcksOnly(AckPending) /\ AcksOnly(AckOrphans)
           /\ \A s \in Signals :
                ~(AckBatch(a)[s].status = "claimed" /\ AckBatch(a)[s].batch = a)
<1>1. \A s \in Signals : signal[s] \in SignalRecord
  BY DEF TypeOK
<1>2. AcksOnly(signal)
  BY DEF TypeOK, AcksOnly
<1>3. \A s \in Signals : /\ Acknowledged(signal[s]) \in SignalRecord
                         /\ Acknowledged(signal[s]).status = "acknowledged"
                         /\ Acknowledged(signal[s]).generation = signal[s].generation
  BY <1>1, AckedSignals
<1>4. AcksOnly(AckBatch(a)) /\ AcksOnly(AckGeneration)
  BY <1>1, <1>3 DEF AcksOnly, AckBatch, AckGeneration
<1>5. AcksOnly(AckPending) /\ AcksOnly(AckOrphans)
  BY <1>1, <1>3 DEF AcksOnly, AckPending, AckOrphans
<1>6. \A s \in Signals :
        ~(AckBatch(a)[s].status = "claimed" /\ AckBatch(a)[s].batch = a)
  BY <1>1, <1>3 DEF AckBatch
<1> QED
  BY <1>2, <1>4, <1>5, <1>6

\* The Thread keeps its lifecycle.
ThreadKept ==
    /\ thread' \in ThreadRecord
    /\ thread'.status = thread.status
    /\ thread'.generation = thread.generation
    /\ thread'.outcome = thread.outcome
    /\ thread.status # "open" => ~thread'.waiting

\* The local state of the Runtimes after a step.
LocalFits ==
    /\ task' \in [Runtimes -> TaskRecord]
    /\ \A r \in Runtimes : task'[r] = task[r] \/ TaskFits(task'[r])
    /\ probe' \in ProbeRecord /\ (probe' = probe \/ ProbeFits(probe'))
    /\ faults' \in 0 .. MaxFaults

\* A step that leaves the threads row alone keeps the Thread.
LEMMA ThreadSame ==
    ASSUME IInv, thread' = thread
    PROVE  ThreadKept
BY DEF IInv, TypeOK, OutcomeOwned, ThreadKept

\* A step that leaves the Activations alone.
LEMMA StillShape ==
    ASSUME IInv, ThreadKept, act' = act, LocalFits,
           signal' \in [Signals -> SignalRecord],
           \A s \in Signals : SignalMoves(s)
    PROVE  StepShape
<1>1. TypeOK'
  BY DEF IInv, TypeOK, ThreadKept, LocalFits
<1>2. Quiet
  BY DEF Quiet, ThreadKept
<1>3. BatchReleased
  BY DEF BatchReleased
<1> QED
  BY <1>1, <1>2, <1>3 DEF StepShape, LocalFits

\* A step that moves one live row.
LEMMA RowShape ==
    ASSUME IInv, ThreadKept, LocalFits,
           NEW a \in Signals, NEW y \in ActRecord,
           act' = [act EXCEPT ![a] = y],
           RowKeeps(act[a], y) \/ RowEnds(act[a], y),
           AcksOnly(signal'),
           RowEnds(act[a], y) =>
             \A s \in Signals : ~(signal'[s].status = "claimed" /\ signal'[s].batch = a)
    PROVE  StepShape
<1>1. TypeOK'
  BY DEF IInv, TypeOK, ThreadKept, LocalFits, AcksOnly
<1>2. \A b \in Signals : act'[b] = IF b = a THEN y ELSE act[b]
  BY DEF IInv, TypeOK
<1>3. Quiet
  BY <1>2 DEF Quiet, ThreadKept
<1>4. BatchReleased
  BY <1>2 DEF BatchReleased, RowKeeps
<1>5. \A s \in Signals : SignalMoves(s)
  BY DEF SignalMoves, AcksOnly
<1> QED
  BY <1>1, <1>3, <1>4, <1>5 DEF StepShape, LocalFits

\* A step that changes one task, to one that fits the rows.
LEMMA OneTask ==
    ASSUME IInv, NEW r \in Runtimes, NEW v \in TaskRecord,
           task' = [task EXCEPT ![r] = v], TaskFits(v), UNCHANGED <<probe, faults>>
    PROVE  LocalFits
BY DEF IInv, TypeOK, LocalFits

\* A step that leaves every task and the probe alone.
LEMMA SameTasks ==
    ASSUME IInv, UNCHANGED <<task, probe>>, faults' \in 0 .. MaxFaults
    PROVE  LocalFits
BY DEF IInv, TypeOK, LocalFits

\* The fault counter stays within its bound.
LEMMA BoundedFaults ==
    ASSUME IInv, Bounded
    PROVE  faults' \in 0 .. MaxFaults
<1>1. faults \in 0 .. MaxFaults /\ MaxFaults \in Nat
  BY ConstantsAssumption DEF IInv, TypeOK
<1> QED
  BY <1>1 DEF Bounded

\* The task records the actions write.
LEMMA TaskValues ==
    /\ IdleTask \in TaskRecord /\ TaskFits(IdleTask)
    /\ NoProbe \in ProbeRecord /\ ProbeFits(NoProbe)
    /\ \A a \in Signals, n \in Nat :
         /\ Admitting(a, n) \in TaskRecord /\ Admitting(a, n).pc = "admitting"
         /\ Admitting(a, n).act = a /\ Admitting(a, n).revision = n
    /\ \A t \in TaskRecord, f \in Terminal :
         /\ Closing(t, f) \in TaskRecord /\ Closing(t, f).pc = "closing"
         /\ Closing(t, f).act = t.act
<1>1. IdleTask \in TaskRecord /\ TaskFits(IdleTask)
  BY DEF IdleTask, TaskRecord, TaskFits, Terminal
<1>2. NoProbe \in ProbeRecord /\ ProbeFits(NoProbe)
  BY DEF NoProbe, ProbeRecord, ProbeFits
<1>3. \A a \in Signals, n \in Nat :
         /\ Admitting(a, n) \in TaskRecord /\ Admitting(a, n).pc = "admitting"
         /\ Admitting(a, n).act = a /\ Admitting(a, n).revision = n
  BY DEF Admitting, TaskRecord, Terminal
<1>4. \A t \in TaskRecord, f \in Terminal :
         /\ Closing(t, f) \in TaskRecord /\ Closing(t, f).pc = "closing"
         /\ Closing(t, f).act = t.act
  BY DEF Closing, TaskRecord
<1> QED
  BY <1>1, <1>2, <1>3, <1>4

\* A task that is not idle works on an existing row.
LEMMA Busy ==
    ASSUME IInv, NEW r \in Runtimes, task[r].pc # "idle"
    PROVE  /\ task[r] \in TaskRecord /\ task[r].act \in Signals /\ task[r].final \in Terminal
           /\ act[task[r].act] \in ActRecord /\ act[task[r].act].status # "absent"
<1>1. task[r] \in TaskRecord /\ task[r].act \in Signals /\ act[task[r].act].status # "absent"
  BY DEF IInv, TypeOK, TaskFenced
<1>2. task[r].final \in Terminal
  BY <1>1 DEF TaskRecord
<1>3. act[task[r].act] \in ActRecord
  BY <1>1 DEF IInv, TypeOK
<1> QED
  BY <1>1, <1>2, <1>3

-----------------------------------------------------------------------------
(* Every step of the specification has the shape *)

\* New input.
LEMMA MailboxSteps ==
    ASSUME IInv, NEW s \in Signals,
           AppendSignal(s) \/ SatisfyDependency(s)
    PROVE  StepShape
<1> DEFINE g == thread.generation
<1>1. g \in Nat
  BY DEF IInv, TypeOK, ThreadRecord
<1>2. act' = act /\ LocalFits
  BY SameTasks DEF AppendSignal, SatisfyDependency, IInv, TypeOK
<1>3. ThreadKept
  <2>1. CASE AppendSignal(s)
    BY <2>1, ThreadSame DEF AppendSignal
  <2>2. CASE SatisfyDependency(s)
    BY <2>2 DEF SatisfyDependency, ThreadKept, IInv, TypeOK, ThreadRecord
  <2> QED
    BY <2>1, <2>2
<1>4. PICK kind \in {"input", "steering", "output"}, parent \in Signals \cup {None} :
        signal' = [signal EXCEPT ![s] = NewSignal(kind, parent, g)]
  BY DEF AppendSignal, SatisfyDependency
<1> DEFINE n == NewSignal(kind, parent, g)
<1>5. n \in SignalRecord /\ n.status = "pending" /\ n.generation = g
  BY <1>1, NewSignals
<1> HIDE DEF n
<1>6. signal' = [signal EXCEPT ![s] = n]
  BY <1>4 DEF n
<1>7. signal' \in [Signals -> SignalRecord]
  BY <1>5, <1>6 DEF IInv, TypeOK
<1>8. \A x \in Signals : SignalMoves(x)
  BY <1>1, <1>3, <1>5, <1>6 DEF IInv, TypeOK, SignalMoves, ThreadKept
<1> QED
  BY <1>2, <1>3, <1>7, <1>8, StillShape

\* The dispatches that find nothing to claim.
LEMMA DispatchSteps ==
    ASSUME IInv, NEW r \in Runtimes, NEW s \in Signals,
           \/ DispatchStale(r, s) \/ DispatchLinked(r, s)
           \/ DispatchTerminal(r, s) \/ DispatchBusy(r, s)
    PROVE  StepShape
<1>1. thread' = thread /\ act' = act /\ UNCHANGED <<probe, faults>>
  BY DEF DispatchStale, DispatchLinked, DispatchTerminal, DispatchBusy
<1>2. TypeOK
  BY DEF IInv
<1>3. AcksOnly(signal')
  <2>1. CASE DispatchStale(r, s)
    <3>1. signal' = [signal EXCEPT ![s] = Acknowledged(signal[s])]
      BY <2>1 DEF DispatchStale
    <3> QED
      BY <1>2, <3>1, AckedSignals DEF AcksOnly, TypeOK
  <2>2. CASE ~DispatchStale(r, s)
    BY <1>2, <2>2, Acks DEF DispatchLinked, DispatchTerminal, DispatchBusy
  <2> QED
    BY <2>1, <2>2
<1>4. LocalFits
  <2>1. CASE DispatchLinked(r, s)
    <3> DEFINE a == signal[s].batch
               v == Admitting(a, act[a].revision)
    <3>1. a \in Signals /\ Live(act[a])
      BY <2>1 DEF DispatchLinked, Linked, Admissible, Live, LiveStatus, IInv, TypeOK,
                  SignalRecord
    <3>2. act[a].revision \in Nat
      BY <3>1 DEF IInv, TypeOK, ActRecord
    <3>3. v \in TaskRecord /\ v.act = a /\ v.revision = act[a].revision
      BY <3>1, <3>2, TaskValues
    <3>4. task' = [task EXCEPT ![r] = v]
      BY <2>1 DEF DispatchLinked
    <3>5. TaskFits(v)
      BY <1>1, <3>1, <3>2, <3>3, Statuses DEF TaskFits
    <3> HIDE DEF v
    <3> QED
      BY <1>1, <3>3, <3>4, <3>5, OneTask
  <2>2. CASE ~DispatchLinked(r, s)
    <3>1. task' = task
      BY <2>2 DEF DispatchStale, DispatchTerminal, DispatchBusy
    <3> QED
      BY <1>1, <3>1, SameTasks DEF IInv, TypeOK
  <2> QED
    BY <2>1, <2>2
<1>5. \A x \in Signals : SignalMoves(x)
  BY <1>3 DEF SignalMoves, AcksOnly
<1> QED
  BY <1>1, <1>3, <1>4, <1>5, ThreadSame, StillShape DEF AcksOnly

\* The claim of a batch: the one step that makes a row live.
LEMMA ClaimStep ==
    ASSUME IInv, NEW r \in Runtimes, NEW s \in Signals, DispatchClaim(r, s)
    PROVE  StepShape
<1> DEFINE batch == FirstPending(AckOrphans)
           v == Admitting(s, 1)
<1>1. PICK t \in batch : act' = [act EXCEPT ![s] = Queued(t)]
  BY DEF DispatchClaim
<1> DEFINE row == Queued(t)
<1>2. /\ thread' = thread /\ thread.status = "open" /\ ~LiveNow
      /\ act[s].status = "absent" /\ signal' = LinkBatch(AckOrphans, batch, s)
      /\ task' = [task EXCEPT ![r] = v] /\ UNCHANGED <<probe, faults>>
  BY DEF DispatchClaim, Runnable
<1>3. batch \subseteq Signals
  BY DEF FirstPending, PendingIn
<1>4. /\ row \in ActRecord /\ row.status = "queued" /\ row.revision = 1
      /\ row.generation = thread.generation
  <2>1. t \in Signals /\ thread.generation \in Nat
    BY <1>3 DEF IInv, TypeOK, ThreadRecord
  <2> QED
    BY <2>1 DEF Queued, AbsentAct, ActRecord, LiveStatus
<1>5. v \in TaskRecord /\ v.act = s /\ v.revision = 1
  BY TaskValues
<1> HIDE DEF row, v
<1>6. \A a \in Signals : act'[a] = IF a = s THEN row ELSE act[a]
  BY <1>1 DEF IInv, TypeOK, row
<1>7. act' \in [Signals -> ActRecord] /\ Live(act'[s])
  BY <1>1, <1>4, <1>6, Statuses DEF IInv, TypeOK, row
<1>8. Claims
  BY <1>2, <1>4, <1>6, <1>7 DEF Claims
<1>9. TaskFits(v)
  BY <1>4, <1>5, <1>6, <1>7 DEF TaskFits
<1>10. LocalFits
  BY <1>2, <1>5, <1>9, OneTask
<1>11. signal' \in [Signals -> SignalRecord] /\ \A x \in Signals : SignalMoves(x)
  <2> DEFINE f == AckOrphans
  <2>1. AcksOnly(f)
    BY Acks DEF IInv
  <2> HIDE DEF f, batch
  <2>2. signal' = [x \in Signals |-> IF x \in batch
                                     THEN [f[x] EXCEPT !.status = "claimed", !.batch = s]
                                     ELSE f[x]]
    BY <1>2 DEF LinkBatch, f
  <2>3. ASSUME NEW x \in Signals
        PROVE  signal'[x] \in SignalRecord /\ SignalMoves(x)
    <3>1. CASE x \in batch
      <4> DEFINE y == [f[x] EXCEPT !.status = "claimed", !.batch = s]
      <4>1. f[x] \in SignalRecord /\ f[x].generation = signal[x].generation
        BY <2>1 DEF AcksOnly
      <4>2. y \in SignalRecord /\ y.status = "claimed" /\ y.batch = s
            /\ y.generation = f[x].generation
        BY <4>1 DEF SignalRecord
      <4>3. signal'[x] = y
        BY <2>2, <3>1
      <4> HIDE DEF y
      <4> QED
        BY <1>7, <4>1, <4>2, <4>3 DEF SignalMoves
    <3>2. CASE x \notin batch
      <4>1. signal'[x] = f[x]
        BY <2>2, <3>2
      <4> QED
        BY <2>1, <4>1 DEF SignalMoves, AcksOnly
    <3> QED
      BY <3>1, <3>2
  <2> QED
    BY <2>2, <2>3
<1>12. TypeOK'
  BY <1>2, <1>7, <1>10, <1>11 DEF LocalFits, IInv, TypeOK
<1>13. BatchReleased
  BY <1>6, <1>2, Statuses DEF BatchReleased
<1> QED
  BY <1>8, <1>10, <1>11, <1>12, <1>13 DEF StepShape, LocalFits

\* Admission and the compare-and-set that starts an evaluation.
LEMMA AdmissionSteps ==
    ASSUME IInv, NEW r \in Runtimes, AdmissionRefused(r) \/ Start(r)
    PROVE  StepShape
<1> DEFINE a == task[r].act
<1>1. task[r].pc = "admitting" /\ thread' = thread /\ signal' = signal /\ probe' = probe
  BY DEF AdmissionRefused, Start
<1>2. task[r] \in TaskRecord /\ a \in Signals /\ act[a] \in ActRecord
  BY <1>1, Busy
<1>3. AcksOnly(signal') /\ \A x \in Signals : SignalMoves(x)
  BY <1>1, Acks DEF IInv, SignalMoves
<1>4. CASE AdmissionRefused(r)
  <2>1. faults' \in 0 .. MaxFaults
    BY <1>4, BoundedFaults DEF AdmissionRefused
  <2>2. task' = [task EXCEPT ![r] = IdleTask] /\ act' = act
    BY <1>4 DEF AdmissionRefused
  <2>3. LocalFits
    BY <1>1, <2>1, <2>2, TaskValues DEF LocalFits, IInv, TypeOK
  <2> QED
    BY <1>1, <1>3, <2>2, <2>3, ThreadSame, StillShape DEF AcksOnly
<1>5. CASE Start(r) /\ ~Updates(a, task[r].revision)
  <2>1. task' = [task EXCEPT ![r] = IdleTask] /\ act' = act /\ faults' = faults
    BY <1>5 DEF Start
  <2>2. LocalFits
    BY <1>1, <2>1, OneTask, TaskValues
  <2> QED
    BY <1>1, <1>3, <2>1, <2>2, ThreadSame, StillShape DEF AcksOnly
<1>6. CASE Start(r) /\ Updates(a, task[r].revision)
  <2> DEFINE row == Held(act[a], r)
             v == [task[r] EXCEPT !.pc = "evaluating", !.revision = 0]
  <2>1. Live(act[a])
    BY <1>1, <1>6 DEF Updates, IInv, TaskFenced
  <2>2. row \in ActRecord /\ row.status = "running" /\ row.generation = act[a].generation
        /\ row.revision > act[a].revision
    BY <1>2, HeldRows
  <2>3. act[a].revision \in Nat /\ row.revision \in Nat
    BY <1>2, <2>2 DEF ActRecord
  <2>4. RowKeeps(act[a], row)
    BY <2>1, <2>2, <2>3, Statuses DEF RowKeeps
  <2>5. v \in TaskRecord /\ v.pc = "evaluating" /\ v.act = a
    BY <1>2 DEF TaskRecord
  <2>6. task' = [task EXCEPT ![r] = v] /\ act' = [act EXCEPT ![a] = row] /\ faults' = faults
    BY <1>6, <1>2 DEF Start, IInv, TypeOK
  <2>7. act'[a] = row
    BY <1>2, <2>6 DEF IInv, TypeOK
  <2> HIDE DEF row, v
  <2>8. TaskFits(v)
    BY <1>2, <2>2, <2>5, <2>7 DEF TaskFits
  <2>9. LocalFits
    BY <1>1, <2>5, <2>6, <2>8, OneTask
  <2>10. ~RowEnds(act[a], row)
    BY <2>2 DEF RowEnds, Terminal
  <2> QED
    BY <1>1, <1>2, <1>3, <2>2, <2>4, <2>6, <2>9, <2>10, ThreadSame, RowShape
<1> QED
  BY <1>4, <1>5, <1>6

\* Binding input, and evaluations that end without writing a row.
LEMMA EvaluationSteps ==
    ASSUME IInv, NEW r \in Runtimes,
           \/ \E s \in Signals : BindInput(r, s)
           \/ ReturnOpen(r) \/ ObserveRevocation(r) \/ Interrupt(r)
    PROVE  StepShape
<1> DEFINE a == task[r].act
<1>1. /\ task[r].pc = "evaluating" /\ thread' = thread /\ act' = act
      /\ UNCHANGED <<probe, faults>>
  BY DEF BindInput, ReturnOpen, ObserveRevocation, Interrupt
<1>2. /\ task[r] \in TaskRecord /\ a \in Signals
      /\ act[a] \in ActRecord /\ act[a].status # "absent"
  BY <1>1, Busy
<1>3. CASE \E s \in Signals : BindInput(r, s)
  <2>1. PICK s \in Signals : BindInput(r, s)
    BY <1>3
  <2> DEFINE y == [signal[s] EXCEPT !.status = "claimed", !.batch = a]
  <2>2. signal[s] \in SignalRecord
    BY DEF IInv, TypeOK
  <2>3. y \in SignalRecord /\ y.status = "claimed" /\ y.batch = a
        /\ y.generation = signal[s].generation
    BY <1>2, <2>2 DEF SignalRecord
  <2>4. signal' = [signal EXCEPT ![s] = y] /\ task' = task
    BY <2>1, <2>2 DEF BindInput, IInv, TypeOK
  <2>5. Live(act[a])
    BY <2>1, Statuses DEF BindInput
  <2> HIDE DEF y
  <2>6. signal' \in [Signals -> SignalRecord]
    BY <2>3, <2>4 DEF IInv, TypeOK
  <2>7. \A x \in Signals : SignalMoves(x)
    BY <1>1, <1>2, <2>3, <2>4, <2>5 DEF SignalMoves, IInv, TypeOK
  <2>8. LocalFits
    BY <1>1, <2>4, SameTasks DEF IInv, TypeOK
  <2> QED
    BY <1>1, <2>6, <2>7, <2>8, ThreadSame, StillShape
<1>4. CASE ReturnOpen(r) \/ ObserveRevocation(r) \/ Interrupt(r)
  <2>1. PICK f \in Terminal : task' = [task EXCEPT ![r] = Closing(task[r], f)]
    BY <1>4 DEF ReturnOpen, ObserveRevocation, Interrupt, Terminal
  <2> DEFINE v == Closing(task[r], f)
  <2>2. v \in TaskRecord /\ v.pc = "closing" /\ v.act = a
    BY <1>2, TaskValues
  <2>3. TaskFits(v)
    BY <1>1, <1>2, <2>2 DEF TaskFits
  <2>4. task' = [task EXCEPT ![r] = v]
    BY <2>1
  <2> HIDE DEF v
  <2>5. LocalFits
    BY <1>1, <2>2, <2>3, <2>4, OneTask
  <2>6. signal' = signal
    BY <1>4 DEF ReturnOpen, ObserveRevocation, Interrupt
  <2>7. AcksOnly(signal') /\ \A x \in Signals : SignalMoves(x)
    BY <2>6, Acks DEF IInv, SignalMoves
  <2> QED
    BY <1>1, <2>5, <2>7, ThreadSame, StillShape DEF AcksOnly
<1> QED
  BY <1>3, <1>4

\* A commit that suspends the Thread, and one that ends it.
LEMMA CommitSteps ==
    ASSUME IInv, NEW r \in Runtimes,
           Suspend(r) \/ \E st \in {"completed", "failed"} : CommitTerminal(r, st)
    PROVE  StepShape
<1> DEFINE a == task[r].act
<1>1. PICK st \in {"completed", "failed"} :
        (Suspend(r) /\ st = "completed") \/ CommitTerminal(r, st)
  OBVIOUS
<1> DEFINE row == Released(act[a], st)
           v == Closing(task[r], st)
<1>2. /\ task[r].pc = "evaluating" /\ CanCommit(a) /\ EndActivation(a, st)
      /\ task' = [task EXCEPT ![r] = v] /\ UNCHANGED <<probe, faults>>
  BY <1>1 DEF Suspend, CommitTerminal
<1>3. task[r] \in TaskRecord /\ a \in Signals /\ act[a] \in ActRecord
  BY <1>2, Busy
<1>4. st \in Terminal
  BY DEF Terminal
<1>5. /\ Live(act[a]) /\ act[a].generation = thread.generation
      /\ thread.outcome = None /\ thread.status = "open"
  BY <1>2, Statuses DEF CanCommit, Current, IInv, OutcomeOwned
<1>6. row \in ActRecord /\ row.status = st /\ RowEnds(act[a], row)
  BY <1>3, <1>4, <1>5, ReleasedRows DEF RowEnds
<1>7. act' = [act EXCEPT ![a] = row] /\ signal' = AckBatch(a)
  BY <1>2 DEF EndActivation
<1>8. v \in TaskRecord /\ v.pc = "closing" /\ v.act = a
  BY <1>3, <1>4, TaskValues
<1> HIDE DEF row, v
<1>9. \A b \in Signals : act'[b] = IF b = a THEN row ELSE act[b]
  BY <1>7 DEF IInv, TypeOK
<1>10. TaskFits(v)
  BY <1>3, <1>4, <1>6, <1>8, <1>9, Statuses DEF TaskFits
<1>11. LocalFits
  BY <1>2, <1>8, <1>10, OneTask
<1>12. AcksOnly(signal')
       /\ \A s \in Signals : ~(signal'[s].status = "claimed" /\ signal'[s].batch = a)
  BY <1>7, Acks DEF IInv
<1>13. CASE Suspend(r)
  <2>1. ThreadKept
    BY <1>5, <1>13 DEF Suspend, ThreadKept, IInv, TypeOK, ThreadRecord
  <2> QED
    BY <1>3, <1>6, <1>7, <1>11, <1>12, <2>1, RowShape
<1>14. CASE CommitTerminal(r, st)
  <2>1. thread' = [thread EXCEPT !.status = st, !.outcome = a, !.waiting = FALSE]
    BY <1>14 DEF CommitTerminal
  <2>2. /\ thread' \in ThreadRecord /\ thread'.status = st /\ thread'.outcome = a
        /\ ~thread'.waiting /\ thread'.generation = thread.generation
    BY <1>3, <1>4, <2>1 DEF IInv, TypeOK, ThreadRecord
  <2>3. Commits
    BY <1>3, <1>4, <1>5, <1>6, <1>9, <2>2 DEF Commits
  <2>4. TypeOK'
    BY <1>6, <1>7, <1>11, <1>12, <2>2 DEF IInv, TypeOK, LocalFits, AcksOnly
  <2>5. BatchReleased
    BY <1>9, <1>12 DEF BatchReleased
  <2>6. \A s \in Signals : SignalMoves(s)
    BY <1>12 DEF AcksOnly, SignalMoves
  <2> QED
    BY <1>11, <2>3, <2>4, <2>5, <2>6 DEF StepShape, LocalFits
<1> QED
  BY <1>1, <1>13, <1>14

\* finish_thread_activation: one live row ends, or nothing is written.
LEMMA CloseStep ==
    ASSUME IInv, NEW r \in Runtimes, Close(r)
    PROVE  StepShape
<1> DEFINE a == task[r].act
           row == Released(act[a], task[r].final)
<1>1. /\ task[r].pc = "closing" /\ thread' = thread
      /\ task' = [task EXCEPT ![r] = IdleTask] /\ UNCHANGED <<probe, faults>>
  BY DEF Close
<1>2. a \in Signals /\ task[r].final \in Terminal /\ act[a] \in ActRecord
  BY <1>1, Busy
<1>3. LocalFits
  BY <1>1, OneTask, TaskValues
<1>4. CASE ~Closes(r, act[a])
  <2>1. act' = act /\ signal' = signal
    BY <1>4 DEF Close
  <2>2. AcksOnly(signal') /\ \A x \in Signals : SignalMoves(x)
    BY <2>1, Acks DEF IInv, SignalMoves
  <2> QED
    BY <1>1, <1>3, <2>1, <2>2, ThreadSame, StillShape DEF AcksOnly
<1>5. CASE Closes(r, act[a])
  <2>1. act' = [act EXCEPT ![a] = row] /\ signal' = AckBatch(a)
    BY <1>5 DEF Close, EndActivation
  <2>2. Live(act[a])
    BY <1>5 DEF Closes
  <2>3. row \in ActRecord /\ RowEnds(act[a], row)
    BY <1>2, <2>2, ReleasedRows DEF RowEnds
  <2>4. AcksOnly(signal')
        /\ \A s \in Signals : ~(signal'[s].status = "claimed" /\ signal'[s].batch = a)
    BY <2>1, Acks DEF IInv
  <2> HIDE DEF row
  <2> QED
    BY <1>1, <1>2, <1>3, <2>1, <2>3, <2>4, ThreadSame, RowShape
<1> QED
  BY <1>4, <1>5

\* A renewal and an expiry change the lease of one running row.
LEMMA LeaseSteps ==
    ASSUME IInv,
           (\E r \in Runtimes : Renew(r)) \/ (\E a \in Signals : LeaseExpires(a))
    PROVE  StepShape
<1>1. thread' = thread /\ signal' = signal /\ task' = task /\ probe' = probe
  BY DEF Renew, LeaseExpires
<1>2. AcksOnly(signal')
  BY <1>1, Acks DEF IInv
<1>3. PICK a \in Signals, y \in ActRecord :
        /\ act' = [act EXCEPT ![a] = y] /\ RowKeeps(act[a], y) /\ y.status = "running"
        /\ Bounded \/ faults' = faults
  <2>1. CASE \E r \in Runtimes : Renew(r)
    <3>1. PICK r \in Runtimes : Renew(r)
      BY <2>1
    <3> DEFINE a == task[r].act
               y == Held(act[a], r)
    <3>2. task[r].pc # "idle" /\ act[a].status = "running" /\ Bounded
          /\ act' = [act EXCEPT ![a] = y]
      BY <3>1 DEF Renew, InFlight
    <3>3. a \in Signals /\ act[a] \in ActRecord
      BY <3>2, Busy
    <3>4. /\ y \in ActRecord /\ y.status = "running" /\ y.generation = act[a].generation
          /\ y.revision > act[a].revision
      BY <3>3, HeldRows
    <3>5. act[a].revision \in Nat /\ y.revision \in Nat
      BY <3>3, <3>4 DEF ActRecord
    <3> HIDE DEF y
    <3>6. RowKeeps(act[a], y)
      BY <3>2, <3>4, <3>5 DEF RowKeeps, Live, LiveStatus
    <3> QED
      BY <3>2, <3>3, <3>4, <3>6
  <2>2. CASE \E a \in Signals : LeaseExpires(a)
    <3>1. PICK a \in Signals : LeaseExpires(a)
      BY <2>2
    <3> DEFINE y == [act[a] EXCEPT !.lease = "expired"]
    <3>2. act[a] \in ActRecord /\ act[a].status = "running" /\ (Bounded \/ faults' = faults)
      BY <3>1 DEF LeaseExpires, IInv, TypeOK
    <3>3. act' = [act EXCEPT ![a] = y]
      BY <3>1, <3>2 DEF LeaseExpires, IInv, TypeOK
    <3>4. y \in ActRecord /\ y.status = "running" /\ y.generation = act[a].generation
          /\ y.revision = act[a].revision /\ y.revision \in Nat
      BY <3>2 DEF ActRecord
    <3> HIDE DEF y
    <3>5. RowKeeps(act[a], y)
      BY <3>2, <3>4 DEF RowKeeps, Live, LiveStatus
    <3> QED
      BY <3>2, <3>3, <3>4, <3>5
  <2> QED
    BY <2>1, <2>2
<1>4. faults' \in 0 .. MaxFaults
  BY <1>3, BoundedFaults DEF IInv, TypeOK
<1>5. LocalFits
  BY <1>1, <1>4, SameTasks
<1>6. ~RowEnds(act[a], y)
  BY <1>3 DEF RowEnds, Terminal
<1> QED
  BY <1>1, <1>2, <1>3, <1>5, <1>6, ThreadSame, RowShape

\* Recovery reads a running row, and writes only if the row is still there.
LEMMA RecoverySteps ==
    ASSUME IInv, NEW r \in Runtimes,
           (\E a \in Signals : ProbeLease(r, a)) \/ Recover(r)
    PROVE  StepShape
<1>1. thread' = thread /\ task' = task /\ faults' = faults
  BY DEF ProbeLease, Recover
<1>2. task' \in [Runtimes -> TaskRecord] /\ faults' \in 0 .. MaxFaults
  BY <1>1 DEF IInv, TypeOK
<1>3. CASE \E a \in Signals : ProbeLease(r, a)
  <2>1. PICK a \in Signals : ProbeLease(r, a)
    BY <1>3
  <2>2. /\ act[a].status = "running" /\ act' = act /\ signal' = signal
        /\ probe' = [by |-> r, act |-> a, revision |-> act[a].revision,
                     verdict |-> Verdict(act[a])]
    BY <2>1 DEF ProbeLease
  <2>3. act[a].revision \in Nat
    BY DEF IInv, TypeOK, ActRecord
  <2>4. Verdict(act[a]) \in {"queued", "cancelled"}
    BY DEF Verdict
  <2>5. probe' \in ProbeRecord /\ probe'.act = a /\ probe'.revision = act[a].revision
    BY <2>2, <2>3, <2>4 DEF ProbeRecord
  <2>6. ProbeFits(probe')
    BY <2>2, <2>3, <2>5 DEF ProbeFits, Live, LiveStatus
  <2>7. LocalFits
    BY <1>1, <1>2, <2>5, <2>6 DEF LocalFits
  <2>8. AcksOnly(signal') /\ \A x \in Signals : SignalMoves(x)
    BY <2>2, Acks DEF IInv, SignalMoves
  <2> QED
    BY <1>1, <2>2, <2>7, <2>8, ThreadSame, StillShape DEF AcksOnly
<1>4. CASE Recover(r)
  <2> DEFINE a == probe.act
             row == Released(act[a], probe.verdict)
  <2>1. probe.by = r /\ probe' = NoProbe /\ r # NoRuntime
    BY <1>4, ConstantsAssumption DEF Recover
  <2>2. LocalFits
    BY <1>1, <1>2, <2>1, TaskValues DEF LocalFits
  <2>3. a \in Signals /\ probe.verdict \in {"queued", "cancelled"}
    BY <2>1 DEF IInv, TypeOK, ProbeRecord, ProbeFenced
  <2>4. act[a] \in ActRecord
    BY <2>3 DEF IInv, TypeOK
  <2>5. CASE ~Recovers(probe)
    <3>1. act' = act /\ signal' = signal
      BY <1>4, <2>5 DEF Recover
    <3>2. AcksOnly(signal') /\ \A x \in Signals : SignalMoves(x)
      BY <3>1, Acks DEF IInv, SignalMoves
    <3> QED
      BY <1>1, <2>2, <3>1, <3>2, ThreadSame, StillShape DEF AcksOnly
  <2>6. CASE Recovers(probe)
    <3>1. /\ act' = [act EXCEPT ![a] = row]
          /\ signal' = IF probe.verdict = "cancelled" THEN AckBatch(a) ELSE signal
      BY <1>4, <2>6 DEF Recover
    <3>2. Live(act[a])
      BY <2>1, <2>6 DEF Recovers, Updates, IInv, ProbeFenced
    <3>3. probe.verdict \in Terminal \cup {"queued"}
      BY <2>3 DEF Terminal
    <3>4. /\ row \in ActRecord /\ row.status = probe.verdict
          /\ row.generation = act[a].generation /\ row.revision > act[a].revision
      BY <2>4, <3>3, ReleasedRows
    <3>5. act[a].revision \in Nat /\ row.revision \in Nat
      BY <2>4, <3>4 DEF ActRecord
    <3> HIDE DEF row
    <3>6. CASE probe.verdict = "queued"
      <4>1. RowKeeps(act[a], row) /\ ~RowEnds(act[a], row)
        BY <3>2, <3>4, <3>5, <3>6 DEF RowKeeps, RowEnds, Live, LiveStatus, Terminal
      <4>2. AcksOnly(signal')
        BY <3>1, <3>6, Acks DEF IInv
      <4> QED
        BY <1>1, <2>2, <2>3, <3>1, <3>4, <4>1, <4>2, ThreadSame, RowShape
    <3>7. CASE probe.verdict = "cancelled"
      <4>1. RowEnds(act[a], row)
        BY <3>2, <3>4, <3>7 DEF RowEnds, Terminal
      <4>2. AcksOnly(signal')
            /\ \A s \in Signals : ~(signal'[s].status = "claimed" /\ signal'[s].batch = a)
        BY <3>1, <3>7, Acks DEF IInv
      <4> QED
        BY <1>1, <2>2, <2>3, <3>1, <3>4, <4>1, <4>2, ThreadSame, RowShape
    <3> QED
      BY <2>3, <3>6, <3>7
  <2> QED
    BY <2>5, <2>6
<1> QED
  BY <1>3, <1>4

\* A crash forgets local state, pause and resume set a flag.
LEMMA LocalSteps ==
    ASSUME IInv, (\E r \in Runtimes : Crash(r)) \/ Pause \/ Resume
    PROVE  StepShape
<1>1. act' = act /\ signal' = signal
  BY DEF Crash, Pause, Resume
<1>2. AcksOnly(signal') /\ \A x \in Signals : SignalMoves(x)
  BY <1>1, Acks DEF IInv, SignalMoves
<1>3. ThreadKept
  <2>1. CASE \E r \in Runtimes : Crash(r)
    BY <2>1, ThreadSame DEF Crash
  <2>2. CASE Pause \/ Resume
    BY <2>2 DEF Pause, Resume, ThreadKept, IInv, TypeOK, ThreadRecord
  <2> QED
    BY <2>1, <2>2
<1>4. LocalFits
  <2>1. CASE \E r \in Runtimes : Crash(r)
    <3>1. PICK r \in Runtimes : Crash(r)
      BY <2>1
    <3>2. faults' \in 0 .. MaxFaults
      BY <3>1, BoundedFaults DEF Crash
    <3>3. task' = [task EXCEPT ![r] = IdleTask] /\ (probe' = NoProbe \/ probe' = probe)
      BY <3>1 DEF Crash
    <3> QED
      BY <3>2, <3>3, TaskValues DEF LocalFits, IInv, TypeOK
  <2>2. CASE Pause \/ Resume
    BY <2>2, SameTasks DEF Pause, Resume, IInv, TypeOK
  <2> QED
    BY <2>1, <2>2
<1> QED
  BY <1>1, <1>2, <1>3, <1>4, StillShape DEF AcksOnly

\* Cancel, supersede and restart move the Thread to its next generation, open
\* or with the control outcome.
LEMMA NewGeneration ==
    ASSUME IInv, Cancel \/ \E s \in Signals : Supersede(s) \/ Restart(s)
    PROVE  /\ thread' \in ThreadRecord /\ thread'.generation = thread.generation + 1
           /\ \/ thread'.status = "open" /\ thread'.outcome = None
              \/ /\ thread'.status = "cancelled" /\ thread'.outcome = ControlOutcome
                 /\ ~thread'.waiting
<1> DEFINE k == thread.generation + 1
<1>1. thread \in ThreadRecord /\ k \in Nat
  BY DEF IInv, TypeOK, ThreadRecord
<1>2. thread.status = "open" => thread.outcome = None
  BY DEF IInv, OutcomeOwned
<1>3. CASE Cancel
  <2>1. thread' = [status |-> "cancelled", control |-> "active", generation |-> k,
                   outcome |-> ControlOutcome, waiting |-> FALSE]
    BY <1>3 DEF Cancel
  <2> HIDE DEF k
  <2>2. thread' \in ThreadRecord /\ thread'.generation = k
    BY <1>1, <2>1 DEF ThreadRecord, Terminal
  <2> QED
    BY <2>1, <2>2 DEF k
<1>4. ASSUME NEW s \in Signals, Supersede(s)
      PROVE  thread' \in ThreadRecord /\ thread'.generation = k
             /\ thread'.status = "open" /\ thread'.outcome = None
  <2>1. thread' = [thread EXCEPT !.control = "active", !.waiting = FALSE,
                                 !.generation = k] /\ thread.status = "open"
    BY <1>1, <1>4 DEF Supersede, ThreadRecord
  <2> HIDE DEF k
  <2> QED
    BY <1>1, <1>2, <2>1 DEF ThreadRecord
<1>5. ASSUME NEW s \in Signals, Restart(s)
      PROVE  thread' \in ThreadRecord /\ thread'.generation = k
             /\ thread'.status = "open" /\ thread'.outcome = None
  <2>1. thread' = [thread EXCEPT !.status = "open", !.outcome = None, !.generation = k]
    BY <1>1, <1>5 DEF Restart, ThreadRecord
  <2> HIDE DEF k
  <2> QED
    BY <1>1, <2>1 DEF ThreadRecord
<1> QED
  BY <1>3, <1>4, <1>5

\* The control operations that open a new generation.
LEMMA FenceSteps ==
    ASSUME IInv,
           Cancel \/ \E s \in Signals : Supersede(s) \/ Restart(s)
    PROVE  StepShape
<1> DEFINE g == thread.generation
<1>1. g \in Nat /\ g + 1 \in Nat /\ g + 1 # g /\ g + 1 <= g + 1
  BY DEF IInv, TypeOK, ThreadRecord
<1>2. act' = CancelLive /\ UNCHANGED <<task, probe, faults>>
  BY DEF Cancel, Supersede, Restart
<1>3. LocalFits
  BY <1>2, SameTasks DEF IInv, TypeOK
<1>4. /\ thread' \in ThreadRecord /\ thread'.generation = g + 1
      /\ \/ thread'.status = "open" /\ thread'.outcome = None
         \/ /\ thread'.status = "cancelled" /\ thread'.outcome = ControlOutcome
            /\ ~thread'.waiting
  BY NewGeneration
<1>5. ASSUME NEW a \in Signals
      PROVE  /\ act'[a] \in ActRecord
             /\ \/ act'[a] = act[a] /\ ~(Live(act[a]) /\ act[a].generation = g)
                \/ RowEnds(act[a], act'[a])
  <2> DEFINE row == Released(act[a], "cancelled")
  <2>1. act[a] \in ActRecord /\ "cancelled" \in Terminal
    BY DEF IInv, TypeOK, Terminal
  <2>2. /\ row \in ActRecord /\ row.status = "cancelled"
        /\ row.generation = act[a].generation /\ row.revision > act[a].revision
    BY <2>1, ReleasedRows
  <2>3. act'[a] = IF Live(act[a]) /\ act[a].generation = g THEN row ELSE act[a]
    BY <1>2 DEF CancelLive, Current
  <2> HIDE DEF row
  <2> QED
    BY <2>1, <2>2, <2>3 DEF RowEnds
<1>6. act' \in [Signals -> ActRecord]
  BY <1>2, <1>5 DEF CancelLive
<1>7. Fences
  BY <1>4, <1>5 DEF Fences
<1>8. signal' \in [Signals -> SignalRecord] /\ \A x \in Signals : SignalMoves(x)
  <2>1. CASE Cancel
    BY <2>1, Acks DEF Cancel, IInv, AcksOnly, SignalMoves
  <2>2. ASSUME NEW s \in Signals, Supersede(s) \/ Restart(s)
        PROVE  signal' \in [Signals -> SignalRecord] /\ \A x \in Signals : SignalMoves(x)
    <3> DEFINE n == NewSignal("input", None, g + 1)
    <3>1. n \in SignalRecord /\ n.status = "pending" /\ n.generation = g + 1
      BY <1>1, NewSignals
    <3> HIDE DEF n
    <3>2. PICK f : AcksOnly(f) /\ signal' = [f EXCEPT ![s] = n]
      BY <2>2, Acks DEF Supersede, Restart, IInv, n
    <3> QED
      BY <1>1, <1>4, <3>1, <3>2 DEF AcksOnly, SignalMoves
  <2> QED
    BY <2>1, <2>2
<1>9. TypeOK'
  BY <1>3, <1>4, <1>6, <1>8 DEF TypeOK, LocalFits
<1>10. BatchReleased
  BY <1>1, <1>4 DEF BatchReleased
<1> QED
  BY <1>3, <1>7, <1>8, <1>9, <1>10 DEF StepShape, LocalFits

\* Every step of the specification has the shape.
LEMMA EveryStep ==
    ASSUME IInv, Next
    PROVE  StepShape
<1>1. CASE \E s \in Signals : AppendSignal(s) \/ SatisfyDependency(s)
  BY <1>1, MailboxSteps
<1>2. CASE \E r \in Runtimes : RuntimeStep(r)
  <2>1. PICK r \in Runtimes : RuntimeStep(r)
    BY <1>2
  <2>2. CASE \E s \in Signals : Dispatch(r, s)
    BY <2>2, DispatchSteps, ClaimStep DEF Dispatch
  <2>3. CASE AdmissionRefused(r) \/ Start(r)
    BY <2>3, AdmissionSteps
  <2>4. CASE \E s \in Signals : BindInput(r, s)
    BY <2>4, EvaluationSteps
  <2>5. CASE EvaluationEnds(r)
    BY <2>5, EvaluationSteps, CommitSteps DEF EvaluationEnds
  <2>6. CASE Close(r)
    BY <2>6, CloseStep
  <2>7. CASE Renew(r)
    BY <2>7, LeaseSteps
  <2>8. CASE (\E a \in Signals : ProbeLease(r, a)) \/ Recover(r)
    BY <2>8, RecoverySteps
  <2>9. CASE Crash(r)
    BY <2>9, LocalSteps
  <2> QED
    BY <2>1, <2>2, <2>3, <2>4, <2>5, <2>6, <2>7, <2>8, <2>9 DEF RuntimeStep
<1>3. CASE \E a \in Signals : LeaseExpires(a)
  BY <1>3, LeaseSteps
<1>4. CASE ControlStep
  BY <1>4, LocalSteps, FenceSteps DEF ControlStep
<1> QED
  BY <1>1, <1>2, <1>3, <1>4 DEF Next

-----------------------------------------------------------------------------
(* The theorems *)

\* A new Thread with its first Signal satisfies the invariant.
LEMMA InvariantInit == Init => IInv
<1> SUFFICES ASSUME Init PROVE IInv
  OBVIOUS
<1>1. thread = [status |-> "open", control |-> "active", generation |-> 1,
                outcome |-> None, waiting |-> FALSE]
  BY DEF Init
<1>2. thread \in ThreadRecord
  BY <1>1 DEF ThreadRecord
<1>3. \A s \in Signals : /\ signal[s] \in SignalRecord /\ signal[s].status # "claimed"
                         /\ signal[s].generation <= 1
  <2>1. AbsentSignal \in SignalRecord /\ AbsentSignal.status = "absent"
        /\ AbsentSignal.generation = 0
    BY DEF AbsentSignal, SignalRecord
  <2>2. LET n == NewSignal("input", None, 1)
        IN  n \in SignalRecord /\ n.status = "pending" /\ n.generation = 1
    BY NewSignals
  <2> QED
    BY <2>1, <2>2 DEF Init
<1>4. \A a \in Signals : act[a] \in ActRecord /\ ~Live(act[a])
  BY DEF Init, AbsentAct, ActRecord, Live, LiveStatus
<1>5. TypeOK
  BY <1>2, <1>3, <1>4, TaskValues, ConstantsAssumption DEF TypeOK, Init
<1>6. TaskFenced /\ ProbeFenced
  BY DEF Init, TaskFenced, ProbeFenced, IdleTask, NoProbe
<1>7. MailboxFenced /\ ClaimedIsHeld
  BY <1>1, <1>3 DEF MailboxFenced, ClaimedIsHeld
<1>8. SingleFlight /\ OutcomeOwned
  BY <1>1, <1>4, SignalNumbers DEF SingleFlight, OutcomeOwned
<1> QED
  BY <1>5, <1>6, <1>7, <1>8 DEF IInv

\* The invariant holds in every reachable state.
THEOREM Invariant == Spec => []IInv
<1>1. IInv /\ [Next]_vars => IInv'
  <2>1. IInv /\ Next => IInv'
    BY EveryStep, ShapeKeeps
  <2>2. IInv /\ UNCHANGED vars => IInv'
    BY DEF vars, IInv, TypeOK, TaskFenced, ProbeFenced, MailboxFenced, SingleFlight,
           OutcomeOwned, ClaimedIsHeld, Live, Current
  <2> QED
    BY <2>1, <2>2
<1> QED
  BY <1>1, InvariantInit, PTL DEF Spec

\* Every reachable state is well typed, for any Runtimes and bounds.
THEOREM TypeCorrect == Spec => []TypeOK
<1>1. IInv => TypeOK
  BY DEF IInv
<1> QED
  BY <1>1, Invariant, PTL

\* However many Runtimes dispatch, recover and close, a Thread has at most one
\* queued or running Activation, and only in its current generation.
THEOREM OneActivation == Spec => []SingleFlight
<1>1. IInv => SingleFlight
  BY DEF IInv
<1> QED
  BY <1>1, Invariant, PTL

\* A terminal Thread was answered by an Activation of its current generation,
\* or by the control operation.
THEOREM OutcomeCurrent == Spec => []OutcomeOwned
<1>1. IInv => OutcomeOwned
  BY DEF IInv
<1> QED
  BY <1>1, Invariant, PTL

\* No Signal of the current generation stays claimed by an Activation that has
\* ended.
THEOREM NoStrandedInput == Spec => []ClaimedIsHeld
<1>1. IInv => ClaimedIsHeld
  BY DEF IInv
<1> QED
  BY <1>1, Invariant, PTL

\* An outcome is replaced only by a new generation: no late commit, close or
\* recovery answers again.
THEOREM OutcomeStands == Spec => FirstOutcomeStands
<1> DEFINE Stands == thread.outcome # None =>
                       \/ thread'.generation > thread.generation
                       \/ thread'.outcome = thread.outcome /\ thread'.status = thread.status
<1>1. IInv /\ [Next]_vars => [Stands]_vars
  <2> SUFFICES ASSUME IInv, Next, thread.outcome # None
               PROVE  \/ thread'.generation > thread.generation
                      \/ thread'.outcome = thread.outcome /\ thread'.status = thread.status
    OBVIOUS
  <2>1. thread.generation \in Nat /\ thread.status # "open"
    BY DEF IInv, TypeOK, ThreadRecord, OutcomeOwned
  <2> QED
    BY <2>1, EveryStep DEF StepShape, Quiet, Claims, Commits, Fences
<1> QED
  BY <1>1, Invariant, PTL DEF Spec, FirstOutcomeStands

-----------------------------------------------------------------------------
(* Directed input and completion *)

\* A steering Signal x of Thread row th's generation that reached no Activation
\* is not acknowledged while the Thread is open, and a completed Thread has
\* none left.  Steering has no parent Activation, so it is never an orphan.
Steers(x, th) ==
    x.kind = "steering" =>
        /\ x.parent = None
        /\ x.generation = th.generation /\ x.batch = None =>
             /\ th.status \in {"open", "completed"} => x.status # "acknowledged"
             /\ th.status = "completed" => x.status # "pending"

SteeringKept == \A s \in Signals : Steers(signal[s], thread)

\* The acknowledgements that cannot lose steering.
LEMMA AckSteers ==
    ASSUME NEW x \in SignalRecord, NEW th, Steers(x, th),
           \/ x.kind # "steering"
           \/ x.generation # th.generation
           \/ x.batch # None
           \/ th.status \notin {"open", "completed"}
    PROVE  Steers(Acknowledged(x), th)
<1>1. /\ Acknowledged(x).kind = x.kind /\ Acknowledged(x).parent = x.parent
      /\ Acknowledged(x).generation = x.generation /\ Acknowledged(x).batch = x.batch
      /\ Acknowledged(x).status = "acknowledged"
  BY DEF Acknowledged, SignalRecord
<1> QED
  BY <1>1 DEF Steers

\* A new generation, or a Thread whose status and generation stay.
LEMMA ThreadSteers ==
    ASSUME NEW x, NEW th, NEW next, Steers(x, th),
           \/ x.generation # next.generation
           \/ th.status = next.status /\ th.generation = next.generation
    PROVE  Steers(x, next)
BY DEF Steers

\* A new Signal is steered only into an open Thread.
LEMMA NewSteers ==
    ASSUME NEW kind \in {"input", "steering", "output"},
           NEW parent \in Signals \cup {None}, NEW g \in Nat, NEW th,
           kind = "steering" => parent = None /\ th.status = "open"
    PROVE  Steers(NewSignal(kind, parent, g), th)
BY DEF Steers, NewSignal, AbsentSignal

\* Ending an Activation acknowledges only Signals that reached it.
LEMMA BatchSteers ==
    ASSUME IInv, SteeringKept, NEW a \in Signals, NEW s \in Signals
    PROVE  Steers(AckBatch(a)[s], thread)
<1>1. signal[s] \in SignalRecord /\ Steers(signal[s], thread)
  BY DEF IInv, TypeOK, SteeringKept
<1>2. AckBatch(a)[s] = IF signal[s].batch = a /\ signal[s].status = "claimed"
                       THEN Acknowledged(signal[s]) ELSE signal[s]
  BY DEF AckBatch
<1> QED
  BY <1>1, <1>2, AckSteers, SignalNumbers

\* Steps of a Runtime on an Activation it already has.
LEMMA SteeringByRuntime ==
    ASSUME IInv, SteeringKept, NEW r \in Runtimes,
           \/ AdmissionRefused(r) \/ Start(r) \/ EvaluationEnds(r) \/ Close(r)
           \/ Renew(r) \/ Recover(r) \/ Crash(r)
           \/ \E a \in Signals : ProbeLease(r, a)
    PROVE  SteeringKept'
<1>1. CASE \E st \in {"completed", "failed"} : CommitTerminal(r, st)
  <2>1. PICK st \in {"completed", "failed"} : CommitTerminal(r, st)
    BY <1>1
  <2> DEFINE a == task[r].act
  <2>2. /\ thread.status = "open" /\ signal' = AckBatch(a) /\ a \in Signals
        /\ thread' = [thread EXCEPT !.status = st, !.outcome = a, !.waiting = FALSE]
        /\ st = "completed" => ~DirectedInputPending
    BY <2>1, Busy DEF CommitTerminal, EndActivation, CanCommit, IInv, OutcomeOwned
  <2>3. thread'.status = st /\ thread'.generation = thread.generation
    BY <2>2 DEF IInv, TypeOK, ThreadRecord
  <2>4. ASSUME NEW s \in Signals
        PROVE  Steers(signal'[s], thread')
    <3> DEFINE x == AckBatch(a)[s]
    <3>1. Steers(x, thread)
      BY <2>2, BatchSteers
    <3>2. x.status = "pending" => x = signal[s]
      BY <2>2, AckedSignals DEF AckBatch, IInv, TypeOK
    <3>3. st = "completed" => ~(x.status = "pending" /\ x.kind = "steering")
      BY <2>2, <3>2 DEF DirectedInputPending
    <3> HIDE DEF x
    <3>4. Steers(x, thread')
      BY <2>2, <2>3, <3>1, <3>3 DEF Steers
    <3> QED
      BY <2>2, <3>4 DEF x
  <2> QED
    BY <2>4 DEF SteeringKept, Steers
<1>2. CASE ~\E st \in {"completed", "failed"} : CommitTerminal(r, st)
  <2>1. thread'.status = thread.status /\ thread'.generation = thread.generation
    BY <1>2 DEF AdmissionRefused, Start, EvaluationEnds, Suspend, ReturnOpen, ObserveRevocation,
                Interrupt, Close, Renew, Recover, Crash, ProbeLease, IInv, TypeOK, ThreadRecord
  <2>2. signal' = signal \/ \E a \in Signals : signal' = AckBatch(a)
    <3>1. CASE Suspend(r) \/ Close(r)
      BY <3>1, Busy DEF Suspend, Close, EndActivation
    <3>2. CASE Recover(r)
      BY <3>2, ConstantsAssumption DEF Recover, IInv, ProbeFenced
    <3>3. CASE ~(Suspend(r) \/ Close(r) \/ Recover(r))
      BY <1>2, <3>3 DEF AdmissionRefused, Start, EvaluationEnds, ReturnOpen,
                        ObserveRevocation, Interrupt, Renew, Crash, ProbeLease
    <3> QED
      BY <3>1, <3>2, <3>3
  <2>3. \A s \in Signals : Steers(signal'[s], thread)
    BY <2>2, BatchSteers DEF SteeringKept
  <2>4. \A s \in Signals : Steers(signal'[s], thread')
    BY <2>1, <2>3, ThreadSteers
  <2> QED
    BY <2>4 DEF SteeringKept, Steers
<1> QED
  BY <1>1, <1>2

\* A dispatch or a bind acknowledges stale Signals, orphans and the mailbox of
\* a terminal Thread, and claims the rest.
LEMMA SteeringByDispatch ==
    ASSUME IInv, SteeringKept, NEW r \in Runtimes, NEW n \in Signals,
           Dispatch(r, n) \/ BindInput(r, n)
    PROVE  SteeringKept'
<1>1. thread' = thread
  BY DEF Dispatch, DispatchStale, DispatchLinked, DispatchTerminal, DispatchBusy,
         DispatchClaim, BindInput
<1>2. \A s \in Signals : signal[s] \in SignalRecord /\ Steers(signal[s], thread)
  BY DEF IInv, TypeOK, SteeringKept
<1>3. \A s \in Signals : Steers(AckOrphans[s], thread) /\ AckOrphans[s] \in SignalRecord
  <2> TAKE s \in Signals
  <2>1. AckOrphans[s] = IF Orphan(signal[s]) THEN Acknowledged(signal[s]) ELSE signal[s]
    BY DEF AckOrphans
  <2>2. Orphan(signal[s]) => signal[s].kind # "steering"
    BY <1>2 DEF Orphan, Steers
  <2> QED
    BY <1>2, <2>1, <2>2, AckSteers, AckedSignals
<1>4. ASSUME NEW x \in SignalRecord, Steers(x, thread), NEW a \in Signals
      PROVE  Steers([x EXCEPT !.status = "claimed", !.batch = a], thread)
  BY <1>4, SignalNumbers DEF Steers, SignalRecord
<1>5. CASE DispatchStale(r, n)
  <2>1. Steers(Acknowledged(signal[n]), thread)
    BY <1>2, <1>5, AckSteers DEF DispatchStale, Current
  <2> QED
    BY <1>1, <1>2, <1>5, <2>1 DEF DispatchStale, SteeringKept, Steers, IInv, TypeOK
<1>6. CASE DispatchLinked(r, n)
  BY <1>1, <1>6 DEF DispatchLinked, SteeringKept, Steers
<1>7. CASE DispatchTerminal(r, n)
  <2>1. ASSUME NEW s \in Signals
        PROVE  Steers(AckPending[s], thread)
    <3>1. AckPending[s] = IF signal[s].status = "pending" THEN Acknowledged(signal[s])
                                                          ELSE signal[s]
      BY DEF AckPending
    <3>2. thread.status # "open"
      BY <1>7 DEF DispatchTerminal
    <3>3. signal[s].status = "pending" =>
            \/ signal[s].kind # "steering" \/ signal[s].generation # thread.generation
            \/ signal[s].batch # None \/ thread.status \notin {"open", "completed"}
      BY <1>2, <3>2 DEF Steers
    <3> QED
      BY <1>2, <3>1, <3>3, AckSteers
  <2> QED
    BY <1>1, <1>7, <2>1 DEF DispatchTerminal, SteeringKept, Steers
<1>8. CASE DispatchBusy(r, n)
  BY <1>1, <1>3, <1>8 DEF DispatchBusy, SteeringKept, Steers
<1>9. CASE DispatchClaim(r, n)
  <2> DEFINE f == AckOrphans
             batch == FirstPending(f)
  <2>1. signal' = LinkBatch(f, batch, n)
    BY <1>9 DEF DispatchClaim
  <2> HIDE DEF f, batch
  <2>2. \A s \in Signals : Steers(f[s], thread) /\ f[s] \in SignalRecord
    BY <1>3 DEF f
  <2>3. ASSUME NEW s \in Signals
        PROVE  Steers(signal'[s], thread)
    <3>1. signal'[s] = IF s \in batch THEN [f[s] EXCEPT !.status = "claimed", !.batch = n]
                                      ELSE f[s]
      BY <2>1 DEF LinkBatch
    <3> QED
      BY <1>4, <2>2, <3>1
  <2> QED
    BY <1>1, <2>3 DEF SteeringKept, Steers
<1>10. CASE BindInput(r, n)
  <2> DEFINE a == task[r].act
             y == [signal[n] EXCEPT !.status = "claimed", !.batch = a]
  <2>1. a \in Signals
    BY <1>10, Busy DEF BindInput
  <2>2. Steers(y, thread)
    BY <1>2, <1>4, <2>1
  <2>3. signal' = [signal EXCEPT ![n] = y]
    BY <1>10 DEF BindInput, IInv, TypeOK
  <2> HIDE DEF y
  <2>4. \A s \in Signals : Steers(signal'[s], thread)
    BY <1>2, <2>2, <2>3 DEF IInv, TypeOK
  <2> QED
    BY <1>1, <2>4 DEF SteeringKept, Steers
<1> QED
  BY <1>5, <1>6, <1>7, <1>8, <1>9, <1>10 DEF Dispatch

\* New Signals, time and control.
LEMMA SteeringByOthers ==
    ASSUME IInv, SteeringKept,
           \/ \E s \in Signals : AppendSignal(s) \/ SatisfyDependency(s)
           \/ \E a \in Signals : LeaseExpires(a)
           \/ ControlStep
    PROVE  SteeringKept'
<1> DEFINE g == thread.generation
<1>1. g \in Nat /\ g + 1 \in Nat
  BY DEF IInv, TypeOK, ThreadRecord
<1>2. \A s \in Signals : signal[s] \in SignalRecord /\ Steers(signal[s], thread)
  BY DEF IInv, TypeOK, SteeringKept
<1>3. CASE (\E a \in Signals : LeaseExpires(a)) \/ Pause \/ Resume
  <2>1. signal' = signal /\ thread'.status = thread.status /\ thread'.generation = g
    BY <1>3 DEF LeaseExpires, Pause, Resume, IInv, TypeOK, ThreadRecord
  <2> QED
    BY <1>2, <2>1, ThreadSteers DEF SteeringKept, Steers
<1>4. CASE \E s \in Signals : AppendSignal(s) \/ SatisfyDependency(s)
  <2>1. PICK s \in Signals : AppendSignal(s) \/ SatisfyDependency(s)
    BY <1>4
  <2>2. /\ thread.status = "open" /\ thread'.status = "open" /\ thread'.generation = g
    BY <2>1 DEF AppendSignal, SatisfyDependency, IInv, TypeOK, ThreadRecord
  <2>3. PICK kind \in {"input", "steering", "output"}, parent \in Signals \cup {None} :
          /\ signal' = [signal EXCEPT ![s] = NewSignal(kind, parent, g)]
          /\ kind = "steering" => parent = None
    BY <2>1 DEF AppendSignal, SatisfyDependency
  <2> DEFINE y == NewSignal(kind, parent, g)
  <2>4. Steers(y, thread')
    BY <1>1, <2>2, <2>3, NewSteers
  <2> HIDE DEF y
  <2>5. \A x \in Signals : Steers(signal[x], thread')
    BY <1>2, <2>2, ThreadSteers
  <2>6. signal' = [signal EXCEPT ![s] = y]
    BY <2>3 DEF y
  <2>7. \A x \in Signals : Steers(signal'[x], thread')
    BY <2>4, <2>5, <2>6 DEF IInv, TypeOK
  <2> QED
    BY <2>7 DEF SteeringKept, Steers
<1>5. CASE Cancel \/ \E s \in Signals : Supersede(s) \/ Restart(s)
  <2>1. thread'.generation = g + 1
    BY <1>5, NewGeneration
  <2>2. \A x \in Signals : signal[x].generation # g + 1
    BY <1>1 DEF IInv, TypeOK, SignalRecord, MailboxFenced
  <2>3. \A x \in Signals :
          Steers(AckGeneration[x], thread') /\ Steers(signal[x], thread')
    <3> TAKE x \in Signals
    <3>1. AckGeneration[x].generation = signal[x].generation
      BY <1>2 DEF AckGeneration, Acknowledged, SignalRecord
    <3>2. signal[x].kind = "steering" => signal[x].parent = None
      BY <1>2 DEF Steers
    <3>3. AckGeneration[x].kind = signal[x].kind /\ AckGeneration[x].parent = signal[x].parent
      BY <1>2 DEF AckGeneration, Acknowledged, SignalRecord
    <3> QED
      BY <2>1, <2>2, <3>1, <3>2, <3>3 DEF Steers
  <2>4. CASE Cancel
    BY <2>3, <2>4 DEF Cancel, SteeringKept, Steers
  <2>5. CASE \E s \in Signals : Supersede(s) \/ Restart(s)
    <3>1. PICK s \in Signals : Supersede(s) \/ Restart(s)
      BY <2>5
    <3> DEFINE y == NewSignal("input", None, g + 1)
    <3>2. Steers(y, thread')
      BY <1>1, NewSteers
    <3>3. signal' = [AckGeneration EXCEPT ![s] = y] \/ signal' = [signal EXCEPT ![s] = y]
      BY <3>1 DEF Supersede, Restart
    <3> HIDE DEF y
    <3>4. \A x \in Signals : Steers(signal'[x], thread')
      BY <2>3, <3>2, <3>3, Acks DEF IInv, TypeOK, AcksOnly
    <3> QED
      BY <3>4 DEF SteeringKept, Steers
  <2> QED
    BY <1>5, <2>4, <2>5
<1> QED
  BY <1>3, <1>4, <1>5 DEF ControlStep

\* A steering message that arrives before a completion is never dropped by it:
\* the Thread stays open until the message has reached an Activation.
THEOREM SteeringNotLost == Spec => []SteeringSurvivesCompletion
<1>1. Init => SteeringKept
  BY SignalNumbers DEF Init, SteeringKept, Steers, NewSignal, AbsentSignal
<1>2. IInv /\ SteeringKept /\ [Next]_vars => SteeringKept'
  <2>1. IInv /\ SteeringKept /\ Next => SteeringKept'
    BY SteeringByRuntime, SteeringByDispatch, SteeringByOthers DEF Next, RuntimeStep
  <2>2. SteeringKept /\ UNCHANGED vars => SteeringKept'
    BY DEF vars, SteeringKept, Steers
  <2> QED
    BY <2>1, <2>2
<1>3. SteeringKept => SteeringSurvivesCompletion
  BY DEF SteeringKept, Steers, SteeringSurvivesCompletion, Current
<1> QED
  BY <1>1, <1>2, <1>3, Invariant, PTL DEF Spec
=============================================================================
