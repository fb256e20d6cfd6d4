---------------------- MODULE ExecutionJobResultProofs ----------------------
(***************************************************************************)
(* What the callers of an Execution Job are told, for every set of Jobs and  *)
(* workers and every bound: a result is published by the claim that started  *)
(* the tool, a grant pays for one run, a Job is taken from its worker only    *)
(* when the lease has run out, and a Job is a physical call.                 *)
(***************************************************************************)
EXTENDS ExecutionJobProofs, FiniteSetTheorems

\* The worker holds a claim, perhaps one it has lost.
Past(v) == v.pc \notin {"idle", "prepared"}

\* Claim tokens are handed out once, from 1 on.
TokensBounded ==
    \A w \in Workers : Past(worker[w]) =>
        worker[w].token # NoToken /\ worker[w].token <= lastToken

TokensUnique ==
    \A u, w \in Workers :
        Past(worker[u]) /\ Past(worker[w]) /\ worker[u].token = worker[w].token => u = w

\* Before the tool starts, the row is as its owner left it unless it was
\* cancelled or ended, so a worker that reports a result without having started
\* the tool finds the row cancelled, ended or owned by another.
ClaimBacked(v, r, started) ==
    /\ v.pc \in {"claimed", "armed"} /\ r.token = v.token =>
         r.cancel \/ IsTerminal(r) \/ r.revision = v.seen.revision
    /\ v.pc = "executing" => v.token \in started
    /\ /\ v.pc \in {"done", "finishing"} /\ v.out \in {"succeeded", "failed"}
       /\ r.token = v.token
       => r.cancel \/ IsTerminal(r) \/ v.token \in started

ClaimsBacked ==
    \A w \in Workers : Past(worker[w]) =>
        ClaimBacked(worker[w], job[worker[w].job], effects[worker[w].job])

\* What the reconciler listed is older than the row, or the row's lease has not
\* been renewed since.
PlanFenced ==
    \A j \in Jobs : plan[j].status = "running" =>
        /\ job[j].status # "absent"
        /\ plan[j].revision <= job[j].revision
        /\ plan[j].revision = job[j].revision => job[j].lease = "expired"

\* Whether a Job needs an approval is settled when it is created.
NeedsKnown ==
    \A w \in Workers : worker[w].pc = "prepared" =>
        worker[w].seen.needsApproval = job[worker[w].job].needsApproval

\* Only the claim that consumed the grant comes past its claim, and only that
\* one starts the tool.
GrantHeld ==
    \A j \in Jobs : job[j].needsApproval =>
        /\ job[j].granted => approval[j] = "consumed"
        /\ ~job[j].granted => effects[j] = {}
        /\ \A w \in Workers : Past(worker[w]) /\ worker[w].job = j => job[j].granted

GrantOnce ==
    \A j \in Jobs : job[j].needsApproval =>
        /\ \A u, w \in Workers :
             /\ Past(worker[u]) /\ worker[u].job = j /\ Past(worker[w]) /\ worker[w].job = j
             => worker[u].token = worker[w].token
        /\ \A w \in Workers : Past(worker[w]) /\ worker[w].job = j =>
             \A t \in effects[j] : t = worker[w].token
        /\ \A s, t \in effects[j] : s = t

EffectsFinite == \A j \in Jobs : IsFiniteSet(effects[j])

RInv ==
    /\ TokensBounded
    /\ TokensUnique
    /\ ClaimsBacked
    /\ ResultByOwner
    /\ PlanFenced
    /\ NeedsKnown
    /\ GrantHeld
    /\ GrantOnce
    /\ EffectsFinite

-----------------------------------------------------------------------------
(* A step, as this invariant sees it *)

\* The row is inserted.
RowMade(r, x) ==
    r.status = "absent" /\ x.status \in {"queued", "waiting_approval"} /\ ~x.granted

\* The row changes.  Its revision moves unless only the lease ran out; only a
\* claim gives it a new token; while a claim holds it, it is cancelled or ended,
\* or its owner moves.
RowKept(j) ==
    LET r == job[j]  x == job'[j]
    IN  /\ r.status # "absent" /\ ~IsTerminal(r) /\ x.status # "absent"
        /\ x.needsApproval = r.needsApproval /\ x.retry = r.retry
        /\ r.cancel => x.cancel
        /\ x.revision >= r.revision
        /\ x.revision = r.revision => x.lease = "expired"
        /\ x.token \in {r.token, NoToken, lastToken + 1}
        /\ r.granted => x.granted
        /\ x.granted => r.granted \/ approval'[j] = "consumed"
        /\ x.status \in {"succeeded", "failed"} => x.author = x.token /\ x.token \in effects[j]
        /\ x.token = r.token /\ x.token # NoToken /\ x.token <= lastToken =>
             \/ x.cancel \/ IsTerminal(x) \/ x.revision = r.revision
             \/ \E w \in Workers :
                  /\ Past(worker[w]) /\ worker[w].token = r.token
                  /\ worker'[w] # worker[w] \/ worker[w].pc = "executing"

WorkerRests(v) ==
    \/ v.pc = "idle"
    \/ v.pc = "prepared" /\ v.seen.needsApproval = job'[v.job].needsApproval

\* A claim: of a Job that needs an approval, with its grant.
WorkerClaims(w) ==
    LET v == worker'[w]
    IN  /\ v.pc = "claimed" /\ v.token = lastToken + 1 /\ lastToken' = lastToken + 1
        /\ v.job \in Jobs /\ job[v.job].status # "absent"
        /\ job'[v.job].revision = v.seen.revision
        /\ job[v.job].needsApproval => ~job[v.job].granted /\ job'[v.job].granted

WorkerGoesOn(w) ==
    LET v == worker'[w]
    IN  /\ Past(worker[w]) /\ Past(v)
        /\ v.job = worker[w].job /\ v.token = worker[w].token
        /\ ClaimBacked(v, job'[v.job], effects'[v.job])

RShape ==
    /\ lastToken' \in {lastToken, lastToken + 1}
    /\ \A j \in Jobs : job'[j] = job[j] \/ RowMade(job[j], job'[j]) \/ RowKept(j)
    /\ \A w \in Workers : \/ worker'[w] = worker[w] \/ WorkerRests(worker'[w])
                          \/ WorkerClaims(w) \/ WorkerGoesOn(w)
    /\ \A u, w \in Workers : worker'[u] # worker[u] /\ worker'[w] # worker[w] => u = w
    /\ \A j \in Jobs :
         /\ effects[j] \subseteq effects'[j] /\ IsFiniteSet(effects'[j])
         /\ \A t \in effects'[j] \ effects[j] :
              \E w \in Workers : Past(worker[w]) /\ worker[w].job = j /\ worker[w].token = t
         /\ approval[j] = "consumed" => approval'[j] = "consumed" \/ RowMade(job[j], job'[j])
         /\ \/ plan'[j] = plan[j] \/ plan'[j].status # "running"
            \/ plan'[j] = job[j] /\ job'[j] = job[j] /\ job[j].lease = "expired"

\* A claim outlives the step, or a worker without one has claimed.
LEMMA PastAfter ==
    ASSUME IInv, RShape, NEW w \in Workers, Past(worker'[w])
    PROVE  \/ /\ Past(worker[w]) /\ worker'[w].job = worker[w].job
              /\ worker'[w].token = worker[w].token
              /\ worker[w].job \in Jobs /\ job[worker[w].job].status # "absent"
           \/ WorkerClaims(w)
BY DEF RShape, WorkerRests, WorkerGoesOn, Past, IInv, WorkerHasJob

\* What does not change of a row that exists.
LEMMA RowAfter ==
    ASSUME RShape, NEW j \in Jobs, job[j].status # "absent"
    PROVE  /\ job'[j].needsApproval = job[j].needsApproval
           /\ job'[j].retry = job[j].retry
           /\ job[j].granted => job'[j].granted
           /\ job[j].cancel => job'[j].cancel
           /\ job'[j] # job[j] => RowKept(j)
<1>1. job'[j] = job[j] \/ RowKept(j)
  BY DEF RShape, RowMade
<1>2. CASE RowKept(j)
  BY <1>2 DEF RowKept
<1> QED
  BY <1>1, <1>2

\* The claims after a step.
LEMMA TokensAfter ==
    ASSUME IInv, RInv, RShape
    PROVE  TokensBounded' /\ TokensUnique'
<1>t. lastToken \in Nat /\ \A w \in Workers : worker[w].token \in Nat
  BY DEF IInv, TypeOK, WorkerRecord
<1>1. TokensBounded'
  <2> SUFFICES ASSUME NEW w \in Workers, Past(worker'[w])
               PROVE  worker'[w].token # NoToken /\ worker'[w].token <= lastToken'
    BY DEF TokensBounded
  <2>1. CASE Past(worker[w]) /\ worker'[w].token = worker[w].token
    BY <1>t, <2>1 DEF RInv, TokensBounded, RShape
  <2>2. CASE WorkerClaims(w)
    BY <1>t, <2>2 DEF WorkerClaims, NoToken
  <2> QED
    BY <2>1, <2>2, PastAfter
<1>2. TokensUnique'
  <2> SUFFICES ASSUME NEW u \in Workers, NEW w \in Workers, Past(worker'[u]), Past(worker'[w]),
                      worker'[u].token = worker'[w].token
               PROVE  u = w
    BY DEF TokensUnique
  <2>1. \A x \in Workers : Past(worker[x]) => worker[x].token # lastToken + 1
    BY <1>t DEF RInv, TokensBounded
  <2>2. \A x \in Workers : WorkerClaims(x) =>
           worker'[x].token = lastToken + 1
    BY DEF WorkerClaims
  <2>3. CASE WorkerClaims(u) /\ WorkerClaims(w)
    <3>1. \A x \in Workers : WorkerClaims(x) => worker'[x] # worker[x]
      BY <2>1 DEF WorkerClaims, Past
    <3> QED
      BY <2>3, <3>1 DEF RShape
  <2>4. CASE /\ Past(worker[u]) /\ worker'[u].token = worker[u].token
             /\ Past(worker[w]) /\ worker'[w].token = worker[w].token
    BY <2>4 DEF RInv, TokensUnique
  <2> QED
    BY <2>1, <2>2, <2>3, <2>4, PastAfter
<1> QED
  BY <1>1, <1>2

\* The claims are backed after a step.
LEMMA BackedAfter ==
    ASSUME IInv, IInv', RInv, RShape
    PROVE  ClaimsBacked'
<1>t. /\ lastToken \in Nat /\ \A w \in Workers : worker[w].token \in Nat
      /\ \A j \in Jobs : job[j].revision \in Nat
  BY DEF IInv, TypeOK, WorkerRecord, JobRecord
<1> SUFFICES ASSUME NEW w \in Workers, Past(worker'[w])
             PROVE  ClaimBacked(worker'[w], job'[worker'[w].job], effects'[worker'[w].job])
  BY DEF ClaimsBacked
<1>1. CASE WorkerGoesOn(w)
  BY <1>1 DEF WorkerGoesOn
<1>2. CASE WorkerClaims(w)
  BY <1>2 DEF WorkerClaims, ClaimBacked
<1>3. CASE worker'[w] = worker[w]
  <2> DEFINE v == worker[w]  j == v.job  r == job[j]  x == job'[j]
  <2>1. /\ j \in Jobs /\ r.status # "absent" /\ ClaimBacked(v, r, effects[j])
        /\ v.token # NoToken /\ v.token <= lastToken /\ v.token \in Nat
        /\ effects[j] \subseteq effects'[j]
    BY <1>t, <1>3 DEF RInv, ClaimsBacked, TokensBounded, IInv, WorkerHasJob, Past, RShape
  <2>2. CASE x = r
    <3> HIDE DEF v, j, r, x
    <3> QED
      BY <1>3, <2>1, <2>2 DEF ClaimBacked, v, j, r, x
  <2>3. CASE RowKept(j)
    <3>1. /\ ~IsTerminal(r) /\ (r.cancel => x.cancel)
          /\ x.token = v.token => r.token = v.token
      BY <1>t, <2>1, <2>3 DEF RowKept
    <3>2. v.pc \in {"claimed", "armed"} /\ x.token = v.token =>
            x.cancel \/ IsTerminal(x) \/ x.revision = r.revision
      <4> SUFFICES ASSUME v.pc \in {"claimed", "armed"}, x.token = v.token,
                          NEW u \in Workers, Past(worker[u]), worker[u].token = r.token,
                          worker'[u] # worker[u] \/ worker[u].pc = "executing"
                   PROVE  FALSE
        BY <2>1, <2>3, <3>1 DEF RowKept
      <4>1. u = w
        BY <3>1, <1>3 DEF RInv, TokensUnique
      <4> QED
        BY <4>1, <1>3
    <3>3. ClaimBacked(v, x, effects'[j])
      <4> HIDE DEF v, j, r, x
      <4> QED
        BY <2>1, <3>1, <3>2 DEF ClaimBacked
    <3> QED
      BY <1>3, <3>3
  <2> QED
    BY <2>1, <2>2, <2>3, RowAfter
<1> QED
  BY <1>1, <1>2, <1>3 DEF RShape, WorkerRests, Past

\* Results and listed rows after a step.
LEMMA RowsAfter ==
    ASSUME IInv, IInv', RInv, RShape
    PROVE  ResultByOwner' /\ PlanFenced' /\ NeedsKnown' /\ EffectsFinite'
<1>1. ResultByOwner'
  <2> SUFFICES ASSUME NEW j \in Jobs, job'[j].status \in {"succeeded", "failed"}
               PROVE  job'[j].author = job'[j].token /\ job'[j].author \in effects'[j]
    BY DEF ResultByOwner
  <2>1. effects[j] \subseteq effects'[j]
    BY DEF RShape
  <2>2. CASE job'[j] = job[j]
    BY <2>1, <2>2 DEF RInv, ResultByOwner
  <2>3. CASE RowKept(j)
    BY <2>1, <2>3 DEF RowKept
  <2> QED
    BY <2>2, <2>3 DEF RShape, RowMade
<1>3. PlanFenced'
  <2> SUFFICES ASSUME NEW j \in Jobs, plan'[j].status = "running"
               PROVE  /\ job'[j].status # "absent"
                      /\ plan'[j].revision <= job'[j].revision
                      /\ plan'[j].revision = job'[j].revision => job'[j].lease = "expired"
    BY DEF PlanFenced
  <2>t. /\ job[j].revision \in Nat /\ job'[j].revision \in Nat /\ plan[j].revision \in Nat
    BY DEF IInv, TypeOK, JobRecord
  <2>1. CASE plan'[j] = job[j] /\ job'[j] = job[j] /\ job[j].lease = "expired"
    BY <2>1, <2>t
  <2>2. CASE plan'[j] = plan[j]
    <3>1. /\ job[j].status # "absent" /\ plan[j].revision <= job[j].revision
          /\ plan[j].revision = job[j].revision => job[j].lease = "expired"
      BY <2>2 DEF RInv, PlanFenced
    <3>2. CASE job'[j] = job[j]
      BY <2>2, <3>1, <3>2
    <3>3. CASE RowKept(j)
      <4>1. /\ job'[j].revision >= job[j].revision
            /\ job'[j].revision = job[j].revision => job'[j].lease = "expired"
        BY <3>3 DEF RowKept
      <4>2. job'[j].status # "absent"
        BY <3>3 DEF RowKept
      <4> QED
        BY <2>t, <2>2, <3>1, <4>1, <4>2
    <3> QED
      BY <3>1, <3>2, <3>3, RowAfter
  <2> QED
    BY <2>1, <2>2 DEF RShape
<1>4. NeedsKnown'
  <2> SUFFICES ASSUME NEW w \in Workers, worker'[w].pc = "prepared"
               PROVE  worker'[w].seen.needsApproval = job'[worker'[w].job].needsApproval
    BY DEF NeedsKnown
  <2>1. CASE worker'[w] = worker[w]
    <3>1. worker[w].job \in Jobs /\ job[worker[w].job].status # "absent"
      BY <2>1 DEF IInv, WorkerHasJob
    <3> QED
      BY <2>1, <3>1, RowAfter DEF RInv, NeedsKnown
  <2>2. CASE WorkerRests(worker'[w])
    BY <2>2 DEF WorkerRests
  <2> QED
    BY <2>1, <2>2 DEF RShape, WorkerClaims, WorkerGoesOn, Past
<1>5. EffectsFinite'
  BY DEF EffectsFinite, RShape
<1> QED
  BY <1>1, <1>3, <1>4, <1>5

\* The grants after a step.
LEMMA GrantsAfter ==
    ASSUME IInv, IInv', RInv, RShape
    PROVE  GrantHeld' /\ GrantOnce'
<1> SUFFICES ASSUME NEW j \in Jobs, job'[j].needsApproval
             PROVE  /\ job'[j].granted => approval'[j] = "consumed"
                    /\ ~job'[j].granted => effects'[j] = {}
                    /\ \A w \in Workers : Past(worker'[w]) /\ worker'[w].job = j =>
                         job'[j].granted
                    /\ \A u, w \in Workers :
                         /\ Past(worker'[u]) /\ worker'[u].job = j
                         /\ Past(worker'[w]) /\ worker'[w].job = j
                         => worker'[u].token = worker'[w].token
                    /\ \A w \in Workers : Past(worker'[w]) /\ worker'[w].job = j =>
                         \A t \in effects'[j] : t = worker'[w].token
                    /\ \A s, t \in effects'[j] : s = t
  BY DEF GrantHeld, GrantOnce
<1>1. CASE job[j].status = "absent"
  <2>1. \A w \in Workers : Past(worker[w]) => worker[w].job # j
    BY <1>1 DEF IInv, WorkerHasJob, Past
  <2>2. \A w \in Workers : Past(worker'[w]) => worker'[w].job # j
    BY <1>1, <2>1, PastAfter DEF WorkerClaims
  <2>3. effects[j] = {} /\ effects'[j] = {}
    BY <1>1, <2>1 DEF IInv, AbsentUntouched, RShape
  <2>4. job'[j].granted => approval'[j] = "consumed"
    <3>1. CASE job'[j] = job[j]
      BY <1>1, <3>1 DEF RInv, GrantHeld, RShape, RowMade
    <3>2. CASE RowMade(job[j], job'[j])
      BY <3>2 DEF RowMade
    <3> QED
      BY <1>1, <3>1, <3>2 DEF RShape, RowKept
  <2> QED
    BY <2>2, <2>3, <2>4
<1>2. CASE job[j].status # "absent"
  <2>1. /\ job[j].needsApproval /\ (job[j].granted => job'[j].granted)
        /\ job'[j].granted => job[j].granted \/ approval'[j] = "consumed"
    BY <1>2, RowAfter DEF RowKept
  <2>2. /\ job[j].granted => approval[j] = "consumed"
        /\ ~job[j].granted => effects[j] = {}
        /\ \A w \in Workers : Past(worker[w]) /\ worker[w].job = j => job[j].granted
        /\ \A u, w \in Workers :
             /\ Past(worker[u]) /\ worker[u].job = j /\ Past(worker[w]) /\ worker[w].job = j
             => worker[u].token = worker[w].token
        /\ \A w \in Workers : Past(worker[w]) /\ worker[w].job = j =>
             \A t \in effects[j] : t = worker[w].token
        /\ \A s, t \in effects[j] : s = t
    BY <2>1 DEF RInv, GrantHeld, GrantOnce
  <2>3. \A t \in effects'[j] : \/ t \in effects[j]
                               \/ \E w \in Workers : /\ Past(worker[w]) /\ worker[w].job = j
                                                     /\ worker[w].token = t
    BY DEF RShape
  <2>4. \A w \in Workers : Past(worker'[w]) /\ worker'[w].job = j =>
          \/ Past(worker[w]) /\ worker[w].job = j /\ worker'[w].token = worker[w].token
          \/ ~job[j].granted /\ job'[j].granted /\ worker'[w].token = lastToken + 1
    BY <2>1, PastAfter DEF WorkerClaims
  <2>5. job'[j].granted => approval'[j] = "consumed"
    BY <1>2, <2>1, <2>2 DEF RShape, RowMade
  <2>6. ~job[j].granted => effects'[j] = {}
    BY <2>2, <2>3
  <2> QED
    BY <2>1, <2>2, <2>3, <2>4, <2>5, <2>6
<1> QED
  BY <1>1, <1>2

\* A step of that shape preserves the invariant.
LEMMA RShapePreserves == IInv /\ IInv' /\ RInv /\ RShape => RInv'
  BY TokensAfter, BackedAfter, RowsAfter, GrantsAfter DEF RInv

-----------------------------------------------------------------------------
(* The fields of the rows the store writes *)

\* What every write of the store keeps; it moves the revision by one.
SameJob(r, x) ==
    /\ x.needsApproval = r.needsApproval /\ x.retry = r.retry
    /\ x.revision = r.revision + 1 /\ x.revision # r.revision /\ x.revision >= r.revision

\* claim_execution_job.
LEMMA ClaimedFields ==
    ASSUME NEW r \in JobRecord, NEW t \in Nat, NEW x, x = ClaimedRow(r, t)
    PROVE  /\ SameJob(r, x) /\ x.status = "running" /\ x.token = t
           /\ x.cancel = r.cancel /\ x.granted = r.granted
<1>1. r.revision \in Nat
  BY DEF JobRecord
<1>2. /\ Bump(r) \in JobRecord /\ Bump(r).revision = r.revision + 1
      /\ Bump(r).needsApproval = r.needsApproval /\ Bump(r).retry = r.retry
      /\ Bump(r).cancel = r.cancel /\ Bump(r).granted = r.granted
      /\ Bump(r).token = r.token /\ Bump(r).status = r.status /\ Bump(r).started = r.started
  BY DEF Bump, JobRecord
<1> QED
  BY <1>1, <1>2 DEF ClaimedRow, SameJob, JobRecord

GrantedRow(r, t) == [ClaimedRow(r, t) EXCEPT !.granted = TRUE]

\* claim_execution_job_with_grant.
LEMMA GrantedFields ==
    ASSUME NEW r \in JobRecord, NEW t \in Nat, NEW x, x = GrantedRow(r, t)
    PROVE  /\ SameJob(r, x) /\ x.status = "running" /\ x.token = t
           /\ x.cancel = r.cancel /\ x.granted = TRUE
<1>1. r.revision \in Nat
  BY DEF JobRecord
<1>2. /\ Bump(r) \in JobRecord /\ Bump(r).revision = r.revision + 1
      /\ Bump(r).needsApproval = r.needsApproval /\ Bump(r).retry = r.retry
      /\ Bump(r).cancel = r.cancel /\ Bump(r).granted = r.granted
      /\ Bump(r).token = r.token /\ Bump(r).status = r.status /\ Bump(r).started = r.started
  BY DEF Bump, JobRecord
<1> QED
  BY <1>1, <1>2 DEF ClaimedRow, GrantedRow, SameJob, JobRecord

\* finish_execution_job_with_event.
LEMMA FinishedFields ==
    ASSUME NEW r \in JobRecord, NEW t \in Nat, NEW out \in TerminalStatus, NEW x, x = FinishedRow(r, t, out)
    PROVE  /\ SameJob(r, x) /\ x.status = out /\ x.author = t /\ x.token = r.token
           /\ x.cancel = r.cancel /\ x.started = r.started /\ x.granted = r.granted
<1>1. r.revision \in Nat
  BY DEF JobRecord
<1>2. /\ Bump(r) \in JobRecord /\ Bump(r).revision = r.revision + 1
      /\ Bump(r).needsApproval = r.needsApproval /\ Bump(r).retry = r.retry
      /\ Bump(r).cancel = r.cancel /\ Bump(r).granted = r.granted
      /\ Bump(r).token = r.token /\ Bump(r).status = r.status /\ Bump(r).started = r.started
  BY DEF Bump, JobRecord
<1> QED
  BY <1>1, <1>2 DEF FinishedRow, SameJob, JobRecord

\* request_cancel_execution_job.
LEMMA CancelledFields ==
    ASSUME NEW r \in JobRecord, NEW x, x = CancelledRow(r)
    PROVE  /\ SameJob(r, x) /\ x.status = r.status /\ x.token = r.token /\ x.cancel = TRUE
           /\ x.granted = r.granted
<1>1. r.revision \in Nat
  BY DEF JobRecord
<1>2. /\ Bump(r) \in JobRecord /\ Bump(r).revision = r.revision + 1
      /\ Bump(r).needsApproval = r.needsApproval /\ Bump(r).retry = r.retry
      /\ Bump(r).cancel = r.cancel /\ Bump(r).granted = r.granted
      /\ Bump(r).token = r.token /\ Bump(r).status = r.status /\ Bump(r).started = r.started
  BY DEF Bump, JobRecord
<1> QED
  BY <1>1, <1>2 DEF CancelledRow, SameJob, JobRecord

\* heartbeat_execution_job.
LEMMA HeartbeatFields ==
    ASSUME NEW r \in JobRecord, NEW b \in BOOLEAN, NEW x, x = HeartbeatRow(r, b)
    PROVE  /\ SameJob(r, x) /\ x.status = r.status /\ x.token = r.token
           /\ x.cancel = r.cancel /\ x.granted = r.granted
<1>1. r.revision \in Nat
  BY DEF JobRecord
<1>2. /\ Bump(r) \in JobRecord /\ Bump(r).revision = r.revision + 1
      /\ Bump(r).needsApproval = r.needsApproval /\ Bump(r).retry = r.retry
      /\ Bump(r).cancel = r.cancel /\ Bump(r).granted = r.granted
      /\ Bump(r).token = r.token /\ Bump(r).status = r.status /\ Bump(r).started = r.started
  BY DEF Bump, JobRecord
<1> QED
  BY <1>1, <1>2 DEF HeartbeatRow, SameJob, JobRecord

\* requeue_execution_job.
LEMMA RequeuedFields ==
    ASSUME NEW r \in JobRecord, NEW x, x = RequeuedRow(r)
    PROVE  /\ SameJob(r, x) /\ x.status = "queued" /\ x.token = NoToken
           /\ x.cancel = r.cancel /\ x.granted = r.granted
<1>1. r.revision \in Nat
  BY DEF JobRecord
<1>2. /\ Bump(r) \in JobRecord /\ Bump(r).revision = r.revision + 1
      /\ Bump(r).needsApproval = r.needsApproval /\ Bump(r).retry = r.retry
      /\ Bump(r).cancel = r.cancel /\ Bump(r).granted = r.granted
      /\ Bump(r).token = r.token /\ Bump(r).status = r.status /\ Bump(r).started = r.started
  BY DEF Bump, JobRecord
<1> QED
  BY <1>1, <1>2 DEF RequeuedRow, SameJob, JobRecord

-----------------------------------------------------------------------------
(* Every step has the shape *)

\* A step that changes at most the row of j and the worker w.
LEMMA ShapeOf ==
    ASSUME IInv, RInv, NEW j, NEW w,
           lastToken' \in {lastToken, lastToken + 1},
           \A i \in Jobs \ {j} : job'[i] = job[i],
           j \in Jobs => job'[j] = job[j] \/ RowMade(job[j], job'[j]) \/ RowKept(j),
           \A u \in Workers \ {w} : worker'[u] = worker[u],
           w \in Workers => \/ worker'[w] = worker[w] \/ WorkerRests(worker'[w])
                            \/ WorkerClaims(w) \/ WorkerGoesOn(w),
           effects' = effects,
           \A i \in Jobs : approval[i] = "consumed" =>
              approval'[i] = "consumed" \/ RowMade(job[i], job'[i]),
           \A i \in Jobs : \/ plan'[i] = plan[i] \/ plan'[i].status # "running"
                           \/ plan'[i] = job[i] /\ job'[i] = job[i] /\ job[i].lease = "expired"
    PROVE  RShape
<1>1. \A i \in Jobs : IsFiniteSet(effects[i])
  BY DEF RInv, EffectsFinite
<1>2. \A u, v \in Workers : worker'[u] # worker[u] /\ worker'[v] # worker[v] => u = v
  OBVIOUS
<1>3. \A i \in Jobs : job'[i] = job[i] \/ RowMade(job[i], job'[i]) \/ RowKept(i)
  OBVIOUS
<1>4. \A u \in Workers : \/ worker'[u] = worker[u] \/ WorkerRests(worker'[u])
                         \/ WorkerClaims(u) \/ WorkerGoesOn(u)
  OBVIOUS
<1> QED
  BY <1>1, <1>2, <1>3, <1>4 DEF RShape

\* The writes of the store keep a row as the shape says.
LEMMA KeptRows ==
    ASSUME IInv, NEW j \in Jobs, job[j].status # "absent", ~IsTerminal(job[j])
    PROVE  /\ \A t \in Nat, out \in TerminalStatus :
                /\ job'[j] = FinishedRow(job[j], t, out)
                /\ out \in {"succeeded", "failed"} => t = job[j].token /\ t \in effects[j]
                => RowKept(j)
           /\ job'[j] = CancelledRow(job[j]) => RowKept(j)
           /\ job'[j] = RequeuedRow(job[j]) => RowKept(j)
           /\ job'[j] = [job[j] EXCEPT !.lease = "expired"] => RowKept(j)
           /\ \A b \in BOOLEAN, w \in Workers :
                /\ job'[j] = HeartbeatRow(job[j], b)
                /\ Past(worker[w]) /\ worker[w].token = job[j].token
                /\ worker'[w] # worker[w] \/ worker[w].pc = "executing"
                => RowKept(j)
           /\ job'[j] = ClaimedRow(job[j], lastToken + 1) => RowKept(j)
           /\ /\ job'[j] = GrantedRow(job[j], lastToken + 1)
              /\ approval'[j] = "consumed"
              => RowKept(j)
<1> DEFINE r == job[j]  x == job'[j]
<1>t. r \in JobRecord /\ lastToken + 1 \in Nat /\ r.revision \in Nat
  BY DEF IInv, TypeOK, JobRecord
<1>k. RowKept(j) <=>
        /\ r.status # "absent" /\ ~IsTerminal(r) /\ x.status # "absent"
        /\ x.needsApproval = r.needsApproval /\ x.retry = r.retry
        /\ r.cancel => x.cancel
        /\ x.revision >= r.revision
        /\ x.revision = r.revision => x.lease = "expired"
        /\ x.token \in {r.token, NoToken, lastToken + 1}
        /\ r.granted => x.granted
        /\ x.granted => r.granted \/ approval'[j] = "consumed"
        /\ x.status \in {"succeeded", "failed"} => x.author = x.token /\ x.token \in effects[j]
        /\ x.token = r.token /\ x.token # NoToken /\ x.token <= lastToken =>
             \/ x.cancel \/ IsTerminal(x) \/ x.revision = r.revision
             \/ \E w \in Workers :
                  /\ Past(worker[w]) /\ worker[w].token = r.token
                  /\ worker'[w] # worker[w] \/ worker[w].pc = "executing"
  BY DEF RowKept
<1>l. lastToken \in Nat
  BY DEF IInv, TypeOK
<1>n. r.status # "absent" /\ ~IsTerminal(r)
  OBVIOUS
<1>e. IsTerminal(r) <=> r.status \in {"succeeded", "failed", "cancelled", "lost"}
  BY DEF IsTerminal, TerminalStatus
<1>1. ASSUME NEW t \in Nat, NEW out \in TerminalStatus, x = FinishedRow(r, t, out),
             out \in {"succeeded", "failed"} => t = r.token /\ t \in effects[j]
      PROVE  RowKept(j)
  <2>1. /\ SameJob(r, x) /\ x.status = out /\ x.author = t /\ x.token = r.token
        /\ x.cancel = r.cancel /\ x.started = r.started /\ x.granted = r.granted
    BY <1>t, <1>1, FinishedFields
  <2>2. IsTerminal(x) /\ x.status # "absent"
    BY <2>1 DEF IsTerminal, TerminalStatus
  <2> HIDE DEF r, x
  <2> QED
    BY <1>1, <1>k, <1>n, <2>1, <2>2 DEF SameJob
<1>2. ASSUME x = CancelledRow(r) PROVE RowKept(j)
  <2>1. /\ SameJob(r, x) /\ x.status = r.status /\ x.token = r.token /\ x.cancel = TRUE
        /\ x.granted = r.granted
    BY <1>t, <1>2, CancelledFields
  <2> HIDE DEF r, x
  <2> QED
    BY <1>k, <1>n, <1>e, <2>1 DEF SameJob
<1>3. ASSUME x = RequeuedRow(r) PROVE RowKept(j)
  <2>1. /\ SameJob(r, x) /\ x.status = "queued" /\ x.token = NoToken
        /\ x.cancel = r.cancel /\ x.granted = r.granted
    BY <1>t, <1>3, RequeuedFields
  <2> HIDE DEF r, x
  <2> QED
    BY <1>k, <1>n, <2>1 DEF SameJob
<1>4. ASSUME x = [r EXCEPT !.lease = "expired"] PROVE RowKept(j)
  <2>1. /\ x.needsApproval = r.needsApproval /\ x.retry = r.retry /\ x.revision = r.revision
        /\ x.status = r.status /\ x.token = r.token /\ x.cancel = r.cancel
        /\ x.granted = r.granted /\ x.lease = "expired"
    BY <1>t, <1>4 DEF JobRecord
  <2> HIDE DEF r, x
  <2> QED
    BY <1>k, <1>n, <1>e, <1>t, <2>1
<1>5. ASSUME NEW b \in BOOLEAN, NEW w \in Workers, x = HeartbeatRow(r, b),
             Past(worker[w]), worker[w].token = r.token,
             worker'[w] # worker[w] \/ worker[w].pc = "executing"
      PROVE  RowKept(j)
  <2>1. /\ SameJob(r, x) /\ x.status = r.status /\ x.token = r.token
        /\ x.cancel = r.cancel /\ x.granted = r.granted
    BY <1>t, <1>5, HeartbeatFields
  <2> HIDE DEF r, x
  <2> QED
    BY <1>k, <1>n, <1>e, <1>5, <2>1 DEF SameJob
<1>6. ASSUME x = ClaimedRow(r, lastToken + 1) PROVE RowKept(j)
  <2> DEFINE n == lastToken + 1
  <2>0. r \in JobRecord /\ n \in Nat /\ x = ClaimedRow(r, n)
    BY <1>t, <1>6
  <2> HIDE DEF n
  <2>1. /\ SameJob(r, x) /\ x.status = "running" /\ x.token = n
        /\ x.cancel = r.cancel /\ x.granted = r.granted
    BY <2>0, ClaimedFields
  <2> HIDE DEF r, x
  <2> QED
    BY <1>k, <1>n, <1>l, <2>1 DEF SameJob, n
<1>7. ASSUME x = GrantedRow(r, lastToken + 1),
             approval'[j] = "consumed"
      PROVE  RowKept(j)
  <2> DEFINE n == lastToken + 1
  <2>0. r \in JobRecord /\ n \in Nat /\ x = GrantedRow(r, n)
    BY <1>t, <1>7
  <2> HIDE DEF n
  <2>1. /\ SameJob(r, x) /\ x.status = "running" /\ x.token = n
        /\ x.cancel = r.cancel /\ x.granted = TRUE
    BY <2>0, GrantedFields
  <2> HIDE DEF r, x
  <2> QED
    BY <1>k, <1>n, <1>l, <1>7, <2>1 DEF SameJob, n
<1> QED
  BY <1>1, <1>2, <1>3, <1>4, <1>5, <1>6, <1>7

\* The worker's record at each program counter.
LEMMA WorkerFields ==
    ASSUME NEW v \in WorkerRecord
    PROVE  /\ \A t \in Nat, row \in JobRecord : Claimed(v, t, row).token = t
           /\ \A row \in JobRecord : Armed(v, row).seen = row
           /\ \A out \in TerminalStatus : Done(v, out).token = v.token /\ Done(v, out).out = out
           /\ \A row \in JobRecord, out \in TerminalStatus :
                Finishing(v, row, out).token = v.token /\ Finishing(v, row, out).out = out
BY DEF Claimed, Armed, Done, Finishing, WorkerRecord

\* A step that changes one worker only.
LEMMA WorkerStepShape ==
    ASSUME IInv, RInv, NEW w \in Workers, NEW v, worker' = [worker EXCEPT ![w] = v],
           UNCHANGED <<job, approval, plan, effects, lastToken>>,
           \/ v.pc = "idle"
           \/ v.pc = "prepared" /\ v.seen.needsApproval = job[v.job].needsApproval
           \/ /\ Past(worker[w]) /\ Past(v) /\ v.job = worker[w].job
              /\ v.token = worker[w].token /\ ClaimBacked(v, job[v.job], effects[v.job])
    PROVE  RShape
<1>1. worker'[w] = v /\ \A u \in Workers \ {w} : worker'[u] = worker[u]
  BY DEF IInv, TypeOK
<1>2. WorkerRests(worker'[w]) \/ WorkerGoesOn(w)
  BY <1>1 DEF WorkerRests, WorkerGoesOn
<1>3. /\ \A i \in Jobs \ {w} : job'[i] = job[i]
      /\ w \in Jobs => job'[w] = job[w]
  OBVIOUS
<1> QED
  BY <1>1, <1>2, <1>3, ShapeOf

\* A step that changes one row only.
LEMMA RowStepShape ==
    ASSUME IInv, RInv, NEW j \in Jobs, NEW x, job' = [job EXCEPT ![j] = x],
           RowKept(j), UNCHANGED <<approval, worker, effects, lastToken>>,
           \A i \in Jobs : plan'[i] = plan[i] \/ plan'[i].status # "running"
    PROVE  RShape
<1>1. \A i \in Jobs \ {j} : job'[i] = job[i]
  BY DEF IInv, TypeOK
<1>2. \A u \in Workers \ {j} : worker'[u] = worker[u]
  OBVIOUS
<1> QED
  BY <1>1, <1>2, ShapeOf

\* What the invariants give about a worker with a claim.
LEMMA HasClaim ==
    ASSUME IInv, RInv, NEW w \in Workers, Past(worker[w])
    PROVE  /\ worker[w] \in WorkerRecord /\ worker[w].job \in Jobs
           /\ worker[w].token \in Nat /\ worker[w].out \in TerminalStatus
           /\ worker[w].token # NoToken
           /\ job[worker[w].job] \in JobRecord /\ job[worker[w].job].status # "absent"
           /\ ClaimBacked(worker[w], job[worker[w].job], effects[worker[w].job])
BY Busy DEF RInv, ClaimsBacked, TokensBounded, Past

\* Creating and adopting a Job.
LEMMA CreateShape ==
    ASSUME IInv, RInv, NEW w \in Workers, NEW j \in Jobs, CreateJob(w, j) \/ AdoptJob(w, j)
    PROVE  RShape
<1>1. CASE AdoptJob(w, j)
  <2> DEFINE v == Prepared(j, job[j])
  <2>1. v.pc = "prepared" /\ v.job = j /\ v.seen = job[j]
    BY DEF Prepared, IdleWorker
  <2>2. worker' = [worker EXCEPT ![w] = v]
        /\ UNCHANGED <<job, approval, plan, effects, lastToken>>
    BY <1>1 DEF AdoptJob
  <2> HIDE DEF v
  <2> QED
    BY <2>1, <2>2, WorkerStepShape
<1>2. CASE CreateJob(w, j)
  <2>1. PICK retry \in RetrySafety, needs \in BOOLEAN :
          /\ job' = [job EXCEPT ![j] = NewRow(retry, needs)]
          /\ approval' = [approval EXCEPT ![j] = IF needs THEN "pending" ELSE "none"]
          /\ worker' = [worker EXCEPT ![w] = Prepared(j, NewRow(retry, needs))]
    BY <1>2 DEF CreateJob
  <2> DEFINE x == NewRow(retry, needs)
             v == Prepared(j, x)
  <2>2. x.status \in {"queued", "waiting_approval"} /\ ~x.granted
    BY DEF NewRow, AbsentRow
  <2>3. v.pc = "prepared" /\ v.job = j /\ v.seen = x
    BY DEF Prepared, IdleWorker
  <2>4. /\ job' = [job EXCEPT ![j] = x] /\ worker' = [worker EXCEPT ![w] = v]
        /\ job[j].status = "absent" /\ UNCHANGED <<plan, effects, lastToken>>
    BY <1>2, <2>1 DEF CreateJob
  <2> HIDE DEF x, v
  <2>5. /\ job'[j] = x /\ \A i \in Jobs \ {j} : job'[i] = job[i]
        /\ worker'[w] = v /\ \A u \in Workers \ {w} : worker'[u] = worker[u]
        /\ \A i \in Jobs \ {j} : approval'[i] = approval[i]
    BY <2>1, <2>4 DEF IInv, TypeOK
  <2>6. RowMade(job[j], job'[j]) /\ WorkerRests(worker'[w])
    BY <2>2, <2>3, <2>4, <2>5 DEF RowMade, WorkerRests
  <2> QED
    BY <2>4, <2>5, <2>6, ShapeOf
<1> QED
  BY <1>1, <1>2

\* Claims.
LEMMA ClaimShape ==
    ASSUME IInv, RInv, NEW w \in Workers, ClaimJob(w) \/ ClaimWithGrant(w)
    PROVE  RShape
<1> DEFINE j == worker[w].job
           n == lastToken + 1
<1>i. /\ worker[w].pc = "prepared" /\ worker[w] \in WorkerRecord
      /\ j \in Jobs /\ job[j] \in JobRecord /\ job[j].status # "absent" /\ n \in Nat
      /\ worker[w].seen.needsApproval = job[j].needsApproval
  BY Busy DEF ClaimJob, ClaimWithGrant, IInv, TypeOK, RInv, NeedsKnown
<1>0. ASSUME worker' = [worker EXCEPT ![w] = IdleWorker],
             UNCHANGED <<job, approval, plan, effects, lastToken>>
      PROVE  RShape
  <2>1. IdleWorker.pc = "idle"
    BY DEF IdleWorker
  <2> QED
    BY <1>0, <2>1, WorkerStepShape
<1>1. ASSUME NEW x \in JobRecord, job' = [job EXCEPT ![j] = x], RowKept(j),
             worker' = [worker EXCEPT ![w] = Claimed(@, n, x)], lastToken' = n,
             UNCHANGED <<plan, effects>>,
             \A i \in Jobs : approval[i] = "consumed" => approval'[i] = "consumed",
             job[j].needsApproval => ~job[j].granted /\ x.granted
      PROVE  RShape
  <2> DEFINE v == Claimed(worker[w], n, x)
  <2>1. v.pc = "claimed" /\ v.job = j /\ v.seen = x /\ v.token = n
    <3> HIDE DEF n
    <3> QED
      BY <1>1, <1>i, ClaimedType, WorkerFields
  <2>2. /\ job'[j] = x /\ \A i \in Jobs \ {j} : job'[i] = job[i]
        /\ worker'[w] = v /\ \A u \in Workers \ {w} : worker'[u] = worker[u]
    BY <1>1, <1>i DEF IInv, TypeOK
  <2> HIDE DEF v, j
  <2>3. WorkerClaims(w)
    BY <1>1, <1>i, <2>1, <2>2 DEF WorkerClaims
  <2>4. lastToken' \in {lastToken, lastToken + 1}
    BY <1>1
  <2> QED
    BY <1>1, <2>2, <2>3, <2>4, ShapeOf
<1>2. CASE ClaimJob(w)
  <2>1. CASE Claimable(job[j], worker[w].seen.revision)
    <3> DEFINE x == ClaimedRow(job[j], n)
    <3>1. /\ job' = [job EXCEPT ![j] = x] /\ worker' = [worker EXCEPT ![w] = Claimed(@, n, x)]
          /\ lastToken' = n /\ ~job[j].needsApproval /\ UNCHANGED <<approval, plan, effects>>
      BY <1>2, <1>i, <2>1 DEF ClaimJob
    <3>2. ~IsTerminal(job[j])
      BY <2>1 DEF Claimable, IsTerminal, TerminalStatus
    <3>3. x \in JobRecord
      BY <1>i, ClaimedRows
    <3>4. job'[j] = x
      BY <1>i, <3>1 DEF IInv, TypeOK
    <3>5. RowKept(j)
      BY <1>i, <3>2, <3>4, KeptRows
    <3> HIDE DEF x, j, n
    <3> QED
      BY <3>1, <3>3, <3>5, <1>1
  <2>2. CASE ~Claimable(job[j], worker[w].seen.revision)
    BY <1>0, <1>2, <2>2 DEF ClaimJob
  <2> QED
    BY <2>1, <2>2
<1>3. CASE ClaimWithGrant(w)
  <2>1. CASE GrantClaimable(j, worker[w].seen.revision)
    <3> DEFINE x == GrantedRow(job[j], n)
    <3>1. /\ job' = [job EXCEPT ![j] = x] /\ worker' = [worker EXCEPT ![w] = Claimed(@, n, x)]
          /\ lastToken' = n /\ approval' = [approval EXCEPT ![j] = "consumed"]
          /\ UNCHANGED <<plan, effects>> /\ ~job[j].granted
      BY <1>3, <1>i, <2>1 DEF ClaimWithGrant, GrantClaimable, GrantedRow
    <3>2. ~IsTerminal(job[j])
      BY <2>1 DEF GrantClaimable, IsTerminal, TerminalStatus
    <3>3. x \in JobRecord
      BY <1>i, GrantedRows DEF GrantedRow
    <3>4. x.granted = TRUE
      <4> HIDE DEF n
      <4> QED
        BY <1>i, GrantedFields
    <3>5. /\ job'[j] = x /\ approval'[j] = "consumed"
          /\ \A i \in Jobs : approval[i] = "consumed" => approval'[i] = "consumed"
      BY <1>i, <3>1 DEF IInv, TypeOK
    <3>6. RowKept(j)
      BY <1>i, <3>2, <3>5, KeptRows
    <3> HIDE DEF x, j, n
    <3> QED
      BY <3>1, <3>3, <3>4, <3>5, <3>6, <1>1
  <2>2. CASE ~GrantClaimable(j, worker[w].seen.revision)
    BY <1>0, <1>3, <2>2 DEF ClaimWithGrant
  <2> QED
    BY <2>1, <2>2
<1> QED
  BY <1>2, <1>3

\* A worker gives up, with or without ending its Job's row on the way.
LEMMA EndingShape ==
    ASSUME IInv, RInv, NEW w \in Workers, NEW j \in Jobs,
           worker' = [worker EXCEPT ![w] = IdleWorker],
           job' = job \/ (RowKept(j) /\ \E x : job' = [job EXCEPT ![j] = x]),
           UNCHANGED <<approval, plan, effects, lastToken>>
    PROVE  RShape
<1>1. worker'[w].pc = "idle" /\ \A u \in Workers \ {w} : worker'[u] = worker[u]
  BY DEF IInv, TypeOK, IdleWorker
<1>2. (job'[j] = job[j] \/ RowKept(j)) /\ \A i \in Jobs \ {j} : job'[i] = job[i]
  BY DEF IInv, TypeOK
<1>3. WorkerRests(worker'[w])
  BY <1>1 DEF WorkerRests
<1> QED
  BY <1>1, <1>2, <1>3, ShapeOf

\* Steps that end the worker: refused approvals, commits and crashes.
LEMMA EndSteps ==
    ASSUME IInv, RInv, NEW w \in Workers, DeniedFinish(w) \/ CommitFinish(w) \/ Crash(w)
    PROVE  RShape
<1> DEFINE j == worker[w].job
           r == job[j]
<1>i. /\ worker[w].pc # "idle" /\ worker[w].token \in Nat /\ worker[w].out \in TerminalStatus
      /\ j \in Jobs /\ r \in JobRecord /\ r.status # "absent"
  BY Busy DEF DeniedFinish, CommitFinish, Crash
<1>1. CASE Crash(w)
  BY <1>1, <1>i, EndingShape DEF Crash
<1>2. CASE DeniedFinish(w)
  <2>1. CASE CanFinish(r, worker[w].seen.revision, NoToken, "cancelled")
    <3>1. job' = [job EXCEPT ![j] = FinishedRow(r, NoToken, "cancelled")]
          /\ worker' = [worker EXCEPT ![w] = IdleWorker]
          /\ UNCHANGED <<approval, plan, effects, lastToken>>
      BY <1>2, <2>1 DEF DeniedFinish
    <3>2. job'[j] = FinishedRow(r, NoToken, "cancelled") /\ ~IsTerminal(r)
      BY <1>i, <2>1, <3>1 DEF IInv, TypeOK, CanFinish
    <3>3. NoToken \in Nat /\ "cancelled" \in TerminalStatus
      BY DEF NoToken, TerminalStatus
    <3>4. RowKept(j)
      BY <1>i, <3>2, <3>3, KeptRows
    <3> HIDE DEF j, r
    <3> QED
      BY <1>i, <3>1, <3>4, EndingShape
  <2>2. CASE ~CanFinish(r, worker[w].seen.revision, NoToken, "cancelled")
    BY <1>2, <1>i, <2>2, EndingShape DEF DeniedFinish
  <2> QED
    BY <2>1, <2>2
<1>3. CASE CommitFinish(w)
  <2> DEFINE t == worker[w].token
             out == worker[w].out
  <2>1. /\ worker[w].pc = "finishing" /\ CanFinish(r, worker[w].seen.revision, t, out)
        /\ job' = [job EXCEPT ![j] = FinishedRow(r, t, out)]
        /\ worker' = [worker EXCEPT ![w] = IdleWorker]
        /\ UNCHANGED <<approval, plan, effects, lastToken>>
    BY <1>3 DEF CommitFinish
  <2>2. t # NoToken /\ ClaimBacked(worker[w], r, effects[j])
    BY <2>1, HasClaim DEF Past
  <2>3. ~IsTerminal(r)
    BY <2>1 DEF CanFinish
  <2>4. out \in {"succeeded", "failed"} => t = r.token /\ t \in effects[j]
    BY <2>1, <2>2, <2>3 DEF CanFinish, TerminalAllowed, ClaimBacked
  <2>5. job'[j] = FinishedRow(r, t, out)
    BY <1>i, <2>1 DEF IInv, TypeOK
  <2>6. RowKept(j)
    BY <1>i, <2>2, <2>3, <2>4, <2>5, KeptRows
  <2> HIDE DEF j, r, t, out
  <2> QED
    BY <1>i, <2>1, <2>6, EndingShape
<1> QED
  BY <1>1, <1>2, <1>3

\* Steps between the claim and the commit that change the worker only.
LEMMA OutputSteps ==
    ASSUME IInv, RInv, NEW w \in Workers,
           \/ ToolReturns(w) \/ ReadForFinish(w) \/ FinishConflict(w) \/ FinishFails(w)
           \/ TaskPanics(w)
    PROVE  RShape
<1> DEFINE v == worker[w]
           j == v.job
           r == job[j]
<1>i. /\ Past(v) /\ v \in WorkerRecord /\ v.out \in TerminalStatus
      /\ j \in Jobs /\ r \in JobRecord /\ ClaimBacked(v, r, effects[j])
  BY HasClaim DEF ToolReturns, ReadForFinish, FinishConflict, FinishFails, TaskPanics, Past
<1>u. UNCHANGED <<job, approval, plan, effects, lastToken>>
  BY DEF ToolReturns, ReadForFinish, FinishConflict, FinishFails, TaskPanics
<1>t. TerminalStatus = {"succeeded", "failed", "cancelled", "lost"}
  BY DEF TerminalStatus
<1>0. CASE worker' = [worker EXCEPT ![w] = IdleWorker]
  BY <1>0, <1>i, <1>u, EndingShape
<1>1. ASSUME NEW out \in TerminalStatus, worker' = [worker EXCEPT ![w] = Done(v, out)],
             out \in {"succeeded", "failed"} /\ r.token = v.token =>
                r.cancel \/ IsTerminal(r) \/ v.token \in effects[j]
      PROVE  RShape
  <2> DEFINE d == Done(v, out)
  <2>1. d.pc = "done" /\ d.job = j /\ d.token = v.token /\ d.out = out
    BY <1>i, DoneType, WorkerFields
  <2>2. ClaimBacked(d, r, effects[j]) /\ Past(d)
    BY <1>1, <2>1 DEF ClaimBacked, Past
  <2> HIDE DEF d
  <2>3. worker' = [worker EXCEPT ![w] = d]
    BY <1>1 DEF d
  <2> QED
    BY <1>i, <1>u, <2>1, <2>2, <2>3, WorkerStepShape
<1>2. CASE ToolReturns(w)
  <2>1. PICK out \in {"succeeded", "failed"} : worker' = [worker EXCEPT ![w] = Done(v, out)]
    BY <1>2 DEF ToolReturns
  <2>2. v.token \in effects[j]
    BY <1>2, <1>i DEF ToolReturns, ClaimBacked
  <2> QED
    BY <1>1, <1>t, <2>1, <2>2
<1>3. CASE TaskPanics(w)
  BY <1>1, <1>t, <1>3 DEF TaskPanics
<1>4. CASE FinishConflict(w)
  <2>1. worker' = [worker EXCEPT ![w] = Done(v, v.out)] /\ v.pc = "finishing"
    BY <1>4 DEF FinishConflict
  <2>2. v.out \in {"succeeded", "failed"} /\ r.token = v.token =>
                r.cancel \/ IsTerminal(r) \/ v.token \in effects[j]
    BY <1>i, <2>1 DEF ClaimBacked
  <2> QED
    BY <1>1, <1>i, <2>1, <2>2
<1>5. CASE FinishFails(w)
  BY <1>0, <1>1, <1>t, <1>5 DEF FinishFails, RecoverTask
<1>6. CASE ReadForFinish(w)
  <2> DEFINE out == IF r.cancel /\ v.out # "lost" THEN "cancelled" ELSE v.out
             d == Finishing(v, r, out)
  <2>1. worker' = [worker EXCEPT ![w] = IF IsTerminal(r) THEN IdleWorker ELSE d]
        /\ v.pc = "done"
    BY <1>6 DEF ReadForFinish
  <2>2. CASE ~IsTerminal(r)
    <3>1. out \in TerminalStatus /\ (out \in {"succeeded", "failed"} => v.out = out)
      BY <1>i, <1>t
    <3>2. d.pc = "finishing" /\ d.job = j /\ d.token = v.token /\ d.out = out
      BY <1>i, <3>1, FinishingType, WorkerFields
    <3> HIDE DEF out
    <3>3. ClaimBacked(d, r, effects[j]) /\ Past(d)
      BY <1>i, <2>1, <3>1, <3>2 DEF ClaimBacked, Past
    <3>4. worker' = [worker EXCEPT ![w] = d]
      BY <2>1, <2>2
    <3> HIDE DEF d
    <3> QED
      BY <1>i, <1>u, <3>2, <3>3, <3>4, WorkerStepShape
  <2>3. CASE IsTerminal(r)
    BY <1>0, <2>1, <2>3
  <2> QED
    BY <2>2, <2>3
<1> QED
  BY <1>2, <1>3, <1>4, <1>5, <1>6

\* A fence revoked before the tool started, the boundary, the start of the tool
\* and the renewal of the lease.
LEMMA BoundarySteps ==
    ASSUME IInv, RInv, NEW w \in Workers,
           FenceRevoked(w) \/ CrossBoundary(w) \/ StartTool(w) \/ RenewLease(w)
    PROVE  RShape
<1> DEFINE v == worker[w]
           j == v.job
           r == job[j]
<1>i. /\ Past(v) /\ v \in WorkerRecord /\ j \in Jobs /\ r \in JobRecord
      /\ r.status # "absent" /\ ClaimBacked(v, r, effects[j]) /\ v.token \in Nat
  BY HasClaim DEF FenceRevoked, CrossBoundary, StartTool, RenewLease, Past
<1>0. ASSUME NEW d, worker' = [worker EXCEPT ![w] = d], Past(d), d.job = j, d.token = v.token,
             ClaimBacked(d, job'[j], effects[j]),
             \A i \in Jobs \ {j} : job'[i] = job[i], job'[j] = r \/ RowKept(j),
             UNCHANGED <<approval, plan, effects, lastToken>>
      PROVE  RShape
  <2>1. worker'[w] = d /\ \A u \in Workers \ {w} : worker'[u] = worker[u]
    BY <1>0 DEF IInv, TypeOK
  <2>2. WorkerGoesOn(w)
    BY <1>0, <1>i, <2>1 DEF WorkerGoesOn
  <2> QED
    BY <1>0, <1>i, <2>1, <2>2, ShapeOf
<1>1. CASE FenceRevoked(w)
  <2> DEFINE d == Done(v, "failed")
  <2>1. /\ worker' = [worker EXCEPT ![w] = d] /\ v.pc \in {"claimed", "armed"}
        /\ UNCHANGED <<approval, plan, effects, lastToken>>
    BY <1>1 DEF FenceRevoked
  <2>2. "failed" \in TerminalStatus
    BY DEF TerminalStatus
  <2>3. d.pc = "done" /\ d.job = j /\ d.token = v.token /\ d.out = "failed"
    BY <1>i, <2>2, DoneType, WorkerFields
  <2> DEFINE fenced == r.revision = v.seen.revision /\ ~IsTerminal(r) /\ ~r.cancel
  <2>4. job' = IF fenced THEN [job EXCEPT ![j] = CancelledRow(r)] ELSE job
    BY <1>1 DEF FenceRevoked
  <2>5. CASE fenced
    <3>1. job'[j] = CancelledRow(r) /\ \A i \in Jobs \ {j} : job'[i] = job[i]
      BY <1>i, <2>4, <2>5 DEF IInv, TypeOK
    <3>2. RowKept(j)
      BY <1>i, <2>5, <3>1, KeptRows
    <3>3. job'[j].cancel
      BY <1>i, <3>1, CancelledFields
    <3>4. ClaimBacked(d, job'[j], effects[j]) /\ Past(d)
      BY <2>3, <3>3 DEF ClaimBacked, Past
    <3> HIDE DEF d, j, r, v
    <3> QED
      BY <1>0, <2>1, <2>3, <3>1, <3>2, <3>4
  <2>6. CASE ~fenced
    <3>1. job' = job
      BY <2>4, <2>6
    <3>2. ClaimBacked(d, r, effects[j]) /\ Past(d)
      BY <1>i, <2>1, <2>3, <2>6 DEF ClaimBacked, Past
    <3> HIDE DEF d
    <3> QED
      BY <1>0, <2>1, <2>3, <3>1, <3>2
  <2> QED
    BY <2>5, <2>6
<1>2. CASE CrossBoundary(w)
  <2>1. CASE CanHeartbeat(r, v.seen.revision, v.token)
    <3> DEFINE x == HeartbeatRow(r, TRUE)
               d == Armed(v, x)
    <3>1. /\ worker' = [worker EXCEPT ![w] = d] /\ v.pc = "claimed"
          /\ job' = [job EXCEPT ![j] = x]
          /\ UNCHANGED <<approval, plan, effects, lastToken>>
      BY <1>2, <2>1 DEF CrossBoundary
    <3>2. x \in JobRecord
      BY <1>i, HeartbeatRows
    <3>3. d.pc = "armed" /\ d.job = j /\ d.token = v.token /\ d.seen = x
      <4> HIDE DEF x
      <4> QED
        BY <1>i, <3>2, ArmedType, WorkerFields
    <3>4. r.status = "running" /\ r.token = v.token /\ ~IsTerminal(r)
      BY <2>1 DEF CanHeartbeat, IsTerminal, TerminalStatus
    <3>5. job'[j] = x /\ \A i \in Jobs \ {j} : job'[i] = job[i]
      BY <1>i, <3>1 DEF IInv, TypeOK
    <3>6. worker'[w] # worker[w]
      <4> HIDE DEF d
      <4> QED
        BY <3>1, <3>3 DEF IInv, TypeOK
    <3>7. RowKept(j)
      BY <1>i, <3>4, <3>5, <3>6, KeptRows
    <3>8. ClaimBacked(d, x, effects[j]) /\ Past(d)
      BY <3>3 DEF ClaimBacked, Past
    <3> HIDE DEF d, x
    <3> QED
      BY <1>0, <3>1, <3>3, <3>5, <3>7, <3>8
  <2>2. CASE ~CanHeartbeat(r, v.seen.revision, v.token)
    BY <1>2, <1>i, <2>2, EndingShape DEF CrossBoundary
  <2> QED
    BY <2>1, <2>2
<1>3. CASE RenewLease(w)
  <2> DEFINE x == HeartbeatRow(r, FALSE)
  <2>1. /\ v.pc = "executing" /\ job' = [job EXCEPT ![j] = x]
        /\ r.status = "running" /\ r.token = v.token
        /\ UNCHANGED <<approval, worker, plan, effects, lastToken>>
    BY <1>3 DEF RenewLease, CanHeartbeat
  <2>2. job'[j] = x
    BY <1>i, <2>1 DEF IInv, TypeOK
  <2>3. ~IsTerminal(r)
    BY <2>1 DEF IsTerminal, TerminalStatus
  <2>4. RowKept(j)
    BY <1>i, <2>1, <2>2, <2>3, KeptRows
  <2> HIDE DEF x, j, r, v
  <2> QED
    BY <1>i, <2>1, <2>4, RowStepShape
<1>4. CASE StartTool(w)
  <2> DEFINE d == Executing(v)
  <2>1. /\ worker' = [worker EXCEPT ![w] = d]
        /\ effects' = [effects EXCEPT ![j] = @ \cup {v.token}]
        /\ UNCHANGED <<job, approval, plan, lastToken>>
    BY <1>4 DEF StartTool
  <2>2. d.pc = "executing" /\ d.job = j /\ d.token = v.token
    BY <1>i, ExecutingType
  <2> HIDE DEF d
  <2>3. /\ worker'[w] = d /\ \A u \in Workers \ {w} : worker'[u] = worker[u]
        /\ effects'[j] = effects[j] \cup {v.token}
        /\ \A i \in Jobs \ {j} : effects'[i] = effects[i]
    BY <1>i, <2>1 DEF IInv, TypeOK
  <2>4. WorkerGoesOn(w)
    BY <1>i, <2>2, <2>3 DEF WorkerGoesOn, ClaimBacked, Past
  <2>5. \A i \in Jobs : IsFiniteSet(effects'[i])
    <3>1. \A i \in Jobs : IsFiniteSet(effects[i])
      BY DEF RInv, EffectsFinite
    <3>2. IsFiniteSet(effects[j] \cup {v.token})
      BY <1>i, <3>1, FS_AddElement
    <3> QED
      BY <2>3, <3>1, <3>2
  <2>6. \A i \in Jobs :
          /\ effects[i] \subseteq effects'[i]
          /\ \A t \in effects'[i] \ effects[i] :
               \E u \in Workers : Past(worker[u]) /\ worker[u].job = i /\ worker[u].token = t
    BY <1>i, <2>3
  <2>7. /\ \A u \in Workers : \/ worker'[u] = worker[u] \/ WorkerRests(worker'[u])
                              \/ WorkerClaims(u) \/ WorkerGoesOn(u)
        /\ \A u, y \in Workers : worker'[u] # worker[u] /\ worker'[y] # worker[y] => u = y
    BY <2>3, <2>4
  <2> QED
    BY <2>1, <2>5, <2>6, <2>7 DEF RShape
<1> QED
  BY <1>1, <1>2, <1>3, <1>4

\* Time, approvals, cancellation and the reconciler.
LEMMA ControlShape ==
    ASSUME IInv, RInv, NEW j \in Jobs,
           \/ LeaseExpires(j) \/ DecideApproval(j) \/ RequestCancel(j)
           \/ WithdrawApproval(j) \/ CloseUnstarted(j) \/ ListAbandoned(j) \/ Reconcile(j)
    PROVE  RShape
<1> DEFINE r == job[j]
<1>i. r \in JobRecord /\ NoToken \in Nat /\ {"cancelled", "lost"} \subseteq TerminalStatus
  BY DEF IInv, TypeOK, NoToken, TerminalStatus
<1>0. ASSUME NEW x, job' = [job EXCEPT ![j] = x] PROVE job'[j] = x
  BY <1>0 DEF IInv, TypeOK
<1>1. CASE LeaseExpires(j)
  <2> DEFINE x == [r EXCEPT !.lease = "expired"]
  <2>1. /\ job' = [job EXCEPT ![j] = x] /\ r.status = "running"
        /\ UNCHANGED <<approval, worker, plan, effects, lastToken>>
    BY <1>1 DEF LeaseExpires, IInv, TypeOK
  <2>2. ~IsTerminal(r) /\ r.status # "absent"
    BY <2>1 DEF IsTerminal, TerminalStatus
  <2>3. job'[j] = x
    <3> HIDE DEF x
    <3> QED
      BY <1>0, <2>1
  <2>4. RowKept(j)
    BY <2>2, <2>3, KeptRows
  <2> HIDE DEF x
  <2> QED
    BY <2>1, <2>4, RowStepShape
<1>2. CASE RequestCancel(j)
  <2>1. /\ job' = [job EXCEPT ![j] = CancelledRow(r)] /\ ~IsTerminal(r) /\ r.status # "absent"
        /\ UNCHANGED <<approval, worker, plan, effects, lastToken>>
    BY <1>2 DEF RequestCancel
  <2>2. job'[j] = CancelledRow(r)
    BY <1>0, <2>1
  <2>3. RowKept(j)
    BY <2>1, <2>2, KeptRows
  <2> QED
    BY <2>1, <2>3, RowStepShape
<1>3. CASE CloseUnstarted(j)
  <2>1. /\ job' = [job EXCEPT ![j] = FinishedRow(r, NoToken, "cancelled")]
        /\ r.status \in {"queued", "waiting_approval"}
        /\ UNCHANGED <<approval, worker, plan, effects, lastToken>>
    BY <1>3 DEF CloseUnstarted, Closable
  <2>2. job'[j] = FinishedRow(r, NoToken, "cancelled")
    BY <1>0, <2>1
  <2>3. ~IsTerminal(r) /\ r.status # "absent"
    BY <2>1 DEF IsTerminal, TerminalStatus
  <2>4. RowKept(j)
    BY <1>i, <2>2, <2>3, KeptRows
  <2> QED
    BY <2>1, <2>4, RowStepShape
<1>4. CASE DecideApproval(j) \/ WithdrawApproval(j)
  <2>1. /\ approval[j] # "consumed" /\ UNCHANGED <<job, worker, plan, effects, lastToken>>
        /\ \A i \in Jobs \ {j} : approval'[i] = approval[i]
    BY <1>4 DEF DecideApproval, WithdrawApproval, IInv, TypeOK
  <2>2. \A i \in Jobs : approval[i] = "consumed" => approval'[i] = "consumed"
    BY <2>1
  <2>3. /\ \A i \in Jobs \ {j} : job'[i] = job[i]
        /\ \A u \in Workers \ {j} : worker'[u] = worker[u]
        /\ j \in Workers => worker'[j] = worker[j]
    BY <2>1
  <2> QED
    BY <2>1, <2>2, <2>3, ShapeOf
<1>5. CASE ListAbandoned(j)
  <2>1. /\ plan'[j] = job[j] /\ job[j].lease = "expired" /\ UNCHANGED <<job, approval, worker, effects, lastToken>>
        /\ \A i \in Jobs \ {j} : plan'[i] = plan[i]
    BY <1>5 DEF ListAbandoned, IInv, TypeOK
  <2>2. \A i \in Jobs : \/ plan'[i] = plan[i]
                        \/ plan'[i] = job[i] /\ job'[i] = job[i] /\ job[i].lease = "expired"
    BY <2>1
  <2>3. /\ \A i \in Jobs \ {j} : job'[i] = job[i]
        /\ \A u \in Workers \ {j} : worker'[u] = worker[u]
        /\ j \in Workers => worker'[j] = worker[j]
    BY <2>1
  <2> QED
    BY <2>1, <2>2, <2>3, ShapeOf
<1>6. CASE Reconcile(j)
  <2>1. /\ plan[j].status = "running" /\ UNCHANGED <<approval, worker, effects, lastToken>>
        /\ \A i \in Jobs : plan'[i] = plan[i] \/ plan'[i].status # "running"
    BY <1>6 DEF Reconcile, IInv, TypeOK, AbsentRow
  <2>2. CASE job' = job
    <3>1. /\ \A i \in Jobs \ {j} : job'[i] = job[i]
          /\ \A u \in Workers \ {j} : worker'[u] = worker[u]
          /\ j \in Workers => worker'[j] = worker[j]
      BY <2>1, <2>2
    <3> QED
      BY <2>1, <2>2, <3>1, ShapeOf
  <2>3. CASE CanRequeue(r, plan[j].revision) /\ job' = [job EXCEPT ![j] = RequeuedRow(r)]
    <3>1. job'[j] = RequeuedRow(r)
      BY <1>0, <2>3
    <3>2. ~IsTerminal(r) /\ r.status # "absent"
      BY <2>3 DEF CanRequeue, IsTerminal, TerminalStatus
    <3>3. RowKept(j)
      BY <3>1, <3>2, KeptRows
    <3> QED
      BY <2>1, <2>3, <3>3, RowStepShape
  <2>4. CASE /\ CanFinish(r, plan[j].revision, NoToken, "lost")
             /\ job' = [job EXCEPT ![j] = FinishedRow(r, NoToken, "lost")]
    <3>1. job'[j] = FinishedRow(r, NoToken, "lost")
      BY <1>0, <2>4
    <3>2. ~IsTerminal(r) /\ r.status # "absent"
      BY <2>4 DEF CanFinish
    <3>5. RowKept(j)
      BY <1>i, <3>1, <3>2, KeptRows
    <3> QED
      BY <2>1, <2>4, <3>5, RowStepShape
  <2> QED
    BY <1>6, <2>2, <2>3, <2>4 DEF Reconcile
<1> QED
  BY <1>1, <1>2, <1>3, <1>4, <1>5, <1>6

-----------------------------------------------------------------------------
(* The invariant and the theorems *)

\* Every step of the specification has the shape.
LEMMA EveryShape == IInv /\ RInv /\ Next => RShape
<1> SUFFICES ASSUME IInv, RInv, Next PROVE RShape
  OBVIOUS
<1>1. ASSUME NEW w \in Workers, NEW j \in Jobs, CreateJob(w, j) \/ AdoptJob(w, j)
      PROVE  RShape
  BY <1>1, CreateShape
<1>2. ASSUME NEW w \in Workers,
             WorkerStep(w) \/ FenceRevoked(w) \/ TaskPanics(w) \/ RenewLease(w) \/ Crash(w)
      PROVE  RShape
  BY <1>2, ClaimShape, EndSteps, OutputSteps, BoundarySteps DEF WorkerStep
<1>3. ASSUME NEW j \in Jobs,
             \/ LeaseExpires(j) \/ DecideApproval(j) \/ RequestCancel(j)
             \/ WithdrawApproval(j) \/ CloseUnstarted(j) \/ ListAbandoned(j) \/ Reconcile(j)
      PROVE  RShape
  BY <1>3, ControlShape
<1> QED
  BY <1>1, <1>2, <1>3 DEF Next

\* The invariant holds initially.
LEMMA ResultInit == Init => RInv
<1> SUFFICES ASSUME Init PROVE RInv
  OBVIOUS
<1>1. /\ \A w \in Workers : worker[w].pc = "idle"
      /\ \A j \in Jobs : effects[j] = {} /\ job[j].status = "absent"
                         /\ ~job[j].needsApproval /\ plan[j].status = "absent"
  BY DEF Init, IdleWorker, AbsentRow
<1>2. TokensBounded /\ TokensUnique /\ ClaimsBacked /\ NeedsKnown
  BY <1>1 DEF TokensBounded, TokensUnique, ClaimsBacked, NeedsKnown, Past
<1>3. ResultByOwner /\ PlanFenced /\ GrantHeld /\ GrantOnce
  BY <1>1 DEF ResultByOwner, PlanFenced, GrantHeld, GrantOnce
<1>4. EffectsFinite
  BY <1>1, FS_EmptySet DEF EffectsFinite
<1> QED
  BY <1>2, <1>3, <1>4 DEF RInv

\* The invariant holds in every reachable state.
THEOREM ResultInvariant == Spec => [](IInv /\ RInv)
<1>1. Init => IInv /\ RInv
  BY InvariantInit, ResultInit
<1>2. IInv /\ RInv /\ [Next]_vars => (IInv /\ RInv)'
  <2>1. IInv /\ RInv /\ Next => (IInv /\ RInv)'
    BY EveryStep, ShapePreserves, EveryShape, RShapePreserves
  <2>2. IInv /\ RInv /\ UNCHANGED vars => (IInv /\ RInv)'
    <3> SUFFICES ASSUME IInv, RInv, UNCHANGED vars PROVE (IInv /\ RInv)'
      OBVIOUS
    <3>1. IInv'
      BY DEF vars, IInv, TypeOK, WorkerHasJob, BoundaryOwned, EffectOwned, StartedHeld,
             AbsentUntouched, ClaimFenced, Exclusive
    <3>2. RShape
      BY DEF vars, RShape, RInv, EffectsFinite
    <3> QED
      BY <3>1, <3>2, RShapePreserves
  <2> QED
    BY <2>1, <2>2
<1> QED
  BY <1>1, <1>2, PTL DEF Spec

\* A result is published by the claim that owns the row, and that claim started
\* the tool: stale workers and workers fenced before the start publish none.
THEOREM ResultsByOwner == Spec => []ResultByOwner
<1>1. RInv => ResultByOwner
  BY DEF RInv
<1> QED
  BY <1>1, ResultInvariant, PTL

\* A consumed grant pays for one physical start, whatever is decided, withdrawn,
\* requeued or replayed.
THEOREM GrantsUsedOnce == Spec => []GrantUsedOnce
<1>1. RInv => GrantUsedOnce
  BY DEF RInv, GrantHeld, GrantOnce, GrantUsedOnce
<1> QED
  BY <1>1, ResultInvariant, PTL

\* The reconciler leaves a worker that renewed its lease in time its Job, although
\* it acts on rows it listed when they were expired.
THEOREM LeasesHonoured == Spec => LiveLeaseKeepsJob
<1>1. ASSUME IInv, RInv, Next, NEW j \in Jobs, job[j].status = "running", job[j].lease = "live"
      PROVE  job'[j].status # "queued" /\ ~(job'[j].status = "lost" /\ job'[j].author = NoToken)
  <2> DEFINE Kept(x) == x.status # "queued" /\ ~(x.status = "lost" /\ x.author = NoToken)
  <2>t. /\ job \in [Jobs -> JobRecord] /\ job[j] \in JobRecord
        /\ ~IsTerminal(job[j]) /\ job[j].status # "absent" /\ Kept(job[j])
    BY <1>1 DEF IInv, TypeOK, IsTerminal, TerminalStatus
  <2>e. ASSUME NEW i, NEW x, job' = [job EXCEPT ![i] = x], i = j => Kept(x)
        PROVE  Kept(job'[j])
    BY <2>t, <2>e
  <2>u. job' = job => Kept(job'[j])
    BY <2>t
  <2>f. /\ Kept(CancelledRow(job[j])) /\ \A b \in BOOLEAN : Kept(HeartbeatRow(job[j], b))
        /\ \A t \in Nat : Kept(FinishedRow(job[j], t, "cancelled"))
        /\ Kept([job[j] EXCEPT !.lease = "expired"])
    BY <1>1, <2>t DEF CancelledRow, HeartbeatRow, FinishedRow, Bump, JobRecord
  <2>1. ASSUME NEW w \in Workers, NEW i \in Jobs, CreateJob(w, i) \/ AdoptJob(w, i)
        PROVE  Kept(job'[j])
    BY <1>1, <2>1, <2>e, <2>u DEF CreateJob, AdoptJob
  <2>2. ASSUME NEW w \in Workers, ClaimJob(w) \/ ClaimWithGrant(w) \/ DeniedFinish(w)
        PROVE  Kept(job'[j])
    <3>1. CASE ClaimJob(w) \/ ClaimWithGrant(w)
      BY <1>1, <2>e, <2>u, <3>1 DEF ClaimJob, ClaimWithGrant, Claimable, GrantClaimable
    <3>2. CASE DeniedFinish(w)
      BY <2>e, <2>f, <2>u, <3>2 DEF DeniedFinish, NoToken
    <3> QED
      BY <2>2, <3>1, <3>2
  <2>3. ASSUME NEW w \in Workers, CrossBoundary(w) \/ FenceRevoked(w) \/ RenewLease(w)
        PROVE  Kept(job'[j])
    <3> DEFINE i == worker[w].job
    <3>1. \/ job' = job
          \/ job' = [job EXCEPT ![i] = CancelledRow(job[i])]
          \/ \E b \in BOOLEAN : job' = [job EXCEPT ![i] = HeartbeatRow(job[i], b)]
      BY <2>3 DEF CrossBoundary, FenceRevoked, RenewLease
    <3> HIDE DEF i
    <3>2. CASE job' = [job EXCEPT ![i] = CancelledRow(job[i])]
      BY <2>e, <2>f, <3>2
    <3>3. ASSUME NEW b \in BOOLEAN, job' = [job EXCEPT ![i] = HeartbeatRow(job[i], b)]
          PROVE  Kept(job'[j])
      BY <2>e, <2>f, <3>3
    <3> QED
      BY <2>u, <3>1, <3>2, <3>3
  <2>4. ASSUME NEW w \in Workers, CommitFinish(w)
        PROVE  Kept(job'[j])
    <3>1. worker[w].token # NoToken /\ worker[w].token \in Nat /\ worker[w].out \in TerminalStatus
      BY <1>1, <2>4 DEF CommitFinish, RInv, TokensBounded, Past, IInv, TypeOK, WorkerRecord
    <3>2. Kept(FinishedRow(job[j], worker[w].token, worker[w].out))
      BY <2>t, <3>1, FinishedFields DEF TerminalStatus
    <3> QED
      BY <2>4, <2>e, <3>2 DEF CommitFinish
  <2>5. ASSUME NEW w \in Workers,
               \/ StartTool(w) \/ ToolReturns(w) \/ ReadForFinish(w) \/ FinishConflict(w)
               \/ FinishFails(w) \/ TaskPanics(w) \/ Crash(w)
        PROVE  Kept(job'[j])
    BY <2>5, <2>u DEF StartTool, ToolReturns, ReadForFinish, FinishConflict, FinishFails,
                     TaskPanics, Crash
  <2>6. ASSUME NEW i \in Jobs,
               \/ LeaseExpires(i) \/ DecideApproval(i) \/ RequestCancel(i)
               \/ WithdrawApproval(i) \/ CloseUnstarted(i) \/ ListAbandoned(i)
        PROVE  Kept(job'[j])
    <3>1. CASE LeaseExpires(i) \/ RequestCancel(i)
      BY <2>t, <2>e, <2>f, <3>1 DEF LeaseExpires, RequestCancel
    <3>2. CASE CloseUnstarted(i)
      BY <1>1, <2>e, <3>2 DEF CloseUnstarted, Closable
    <3>3. CASE DecideApproval(i) \/ WithdrawApproval(i) \/ ListAbandoned(i)
      BY <2>u, <3>3 DEF DecideApproval, WithdrawApproval, ListAbandoned
    <3> QED
      BY <2>6, <3>1, <3>2, <3>3
  <2>7. ASSUME NEW i \in Jobs, Reconcile(i)
        PROVE  Kept(job'[j])
    <3>1. i = j => plan[j].status = "running" /\ plan[j].revision # job[j].revision
      BY <1>1, <2>7 DEF Reconcile, RInv, PlanFenced
    <3> QED
      BY <2>7, <2>e, <2>u, <3>1 DEF Reconcile, CanRequeue, CanFinish
  <2> QED
    BY <1>1, <2>1, <2>2, <2>3, <2>4, <2>5, <2>6, <2>7 DEF Next, WorkerStep
<1>2. IInv /\ RInv /\ [Next]_vars =>
        [\A j \in Jobs : job[j].status = "running" /\ job[j].lease = "live" =>
           /\ job'[j].status # "queued"
           /\ ~(job'[j].status = "lost" /\ job'[j].author = NoToken)]_vars
  BY <1>1 DEF vars
<1> QED
  BY <1>2, ResultInvariant, PTL DEF Spec, LiveLeaseKeepsJob

-----------------------------------------------------------------------------
(* The refinement of PhysicalCall *)

\* What the refinement mapping substitutes for `verdict', `repeatable', `acts'.
verdicts == [j \in Jobs |-> Verdict(job[j])]
repeats  == [j \in Jobs |-> job[j].retry = "idempotent"]
starts   == [j \in Jobs |-> Cardinality(effects[j])]

\* What the callers are told of a row.
LEMMA VerdictOf ==
    ASSUME NEW r
    PROVE  /\ r.status = "absent" => Verdict(r) = "none"
           /\ r.status \in TerminalStatus => Verdict(r) = r.status
           /\ r.status \notin {"absent"} \cup TerminalStatus => Verdict(r) = "open"
<1>1. CASE r.status = "absent"
  BY <1>1 DEF Verdict, IsTerminal, TerminalStatus
<1>2. CASE r.status \in TerminalStatus
  BY <1>2 DEF Verdict, IsTerminal, TerminalStatus
<1>3. CASE r.status \notin {"absent"} \cup TerminalStatus
  BY <1>3 DEF Verdict, IsTerminal, TerminalStatus
<1> QED
  BY <1>1, <1>2, <1>3 DEF TerminalStatus

\* Only ensure_job_in_tx inserts a row.
LEMMA AbsentStays ==
    ASSUME IInv, Next, NEW j \in Jobs, job[j].status = "absent", job'[j] # job[j]
    PROVE  \E w \in Workers, i \in Jobs : CreateJob(w, i)
<1>t. job \in [Jobs -> JobRecord]
  BY DEF IInv, TypeOK
<1>b. \A w \in Workers : worker[w].pc # "idle" => worker[w].job # j
  BY Busy
<1>1. ASSUME NEW w \in Workers, NEW i \in Jobs, AdoptJob(w, i) PROVE FALSE
  BY <1>1 DEF AdoptJob
<1>2. ASSUME NEW w \in Workers, ClaimJob(w) \/ ClaimWithGrant(w) \/ DeniedFinish(w) PROVE FALSE
  BY <1>2, <1>b, <1>t DEF ClaimJob, ClaimWithGrant, DeniedFinish
<1>3. ASSUME NEW w \in Workers, CrossBoundary(w) \/ StartTool(w) \/ ToolReturns(w) PROVE FALSE
  BY <1>3, <1>b, <1>t DEF CrossBoundary, StartTool, ToolReturns
<1>4. ASSUME NEW w \in Workers,
             ReadForFinish(w) \/ CommitFinish(w) \/ FinishConflict(w) \/ FinishFails(w)
      PROVE  FALSE
  BY <1>4, <1>b, <1>t DEF ReadForFinish, CommitFinish, FinishConflict, FinishFails
<1>5. ASSUME NEW w \in Workers, FenceRevoked(w) \/ TaskPanics(w) \/ RenewLease(w) \/ Crash(w)
      PROVE  FALSE
  BY <1>5, <1>b, <1>t DEF FenceRevoked, TaskPanics, RenewLease, Crash
<1>6. ASSUME NEW i \in Jobs, LeaseExpires(i) \/ DecideApproval(i) \/ RequestCancel(i) PROVE FALSE
  BY <1>6, <1>t DEF LeaseExpires, DecideApproval, RequestCancel
<1>7. ASSUME NEW i \in Jobs, WithdrawApproval(i) \/ CloseUnstarted(i) \/ ListAbandoned(i)
      PROVE  FALSE
  BY <1>7, <1>t DEF WithdrawApproval, CloseUnstarted, Closable, ListAbandoned
<1>8. ASSUME NEW i \in Jobs, Reconcile(i) PROVE FALSE
  BY <1>8, <1>t DEF Reconcile, CanRequeue, CanFinish
<1> QED
  BY <1>1, <1>2, <1>3, <1>4, <1>5, <1>6, <1>7, <1>8 DEF Next, WorkerStep

\* Creating a Job submits the call.
LEMMA CreateSubmits ==
    ASSUME IInv, NEW w \in Workers, NEW j \in Jobs, CreateJob(w, j)
    PROVE  Call!Submit(j)
<1>1. PICK retry \in RetrySafety, needs \in BOOLEAN :
         job' = [job EXCEPT ![j] = NewRow(retry, needs)]
  BY DEF CreateJob
<1> DEFINE x == NewRow(retry, needs)
<1>2. x.status \in {"queued", "waiting_approval"}
  BY DEF NewRow, AbsentRow
<1> HIDE DEF x
<1>3. job[j].status = "absent" /\ effects' = effects /\ job' = [job EXCEPT ![j] = x]
  BY <1>1 DEF CreateJob, x
<1>4. /\ job'[j] = x /\ \A i \in Jobs \ {j} : job'[i] = job[i]
  BY <1>3 DEF IInv, TypeOK
<1>5. Verdict(job[j]) = "none" /\ Verdict(x) = "open"
  BY <1>2, <1>3, VerdictOf DEF TerminalStatus
<1>6. /\ verdicts' = [verdicts EXCEPT ![j] = "open"]
      /\ repeats' = [repeats EXCEPT ![j] = (x.retry = "idempotent")]
      /\ starts' = starts /\ verdicts[j] = "none"
  <2>0. starts' = starts /\ verdicts[j] = "none"
    BY <1>3, <1>5 DEF verdicts, starts
  <2>1. verdicts' = [verdicts EXCEPT ![j] = "open"]
    <3>1. \A i \in Jobs : Verdict(job'[i]) = IF i = j THEN "open" ELSE Verdict(job[i])
      BY <1>4, <1>5
    <3>2. verdicts' = [i \in Jobs |-> Verdict(job'[i])]
      BY DEF verdicts
    <3> QED
      BY <3>1, <3>2 DEF verdicts
  <2> DEFINE b(r) == r.retry = "idempotent"
  <2>2. repeats = [i \in Jobs |-> b(job[i])] /\ repeats' = [i \in Jobs |-> b(job'[i])]
    BY DEF repeats
  <2> HIDE DEF b
  <2>3. repeats' = [repeats EXCEPT ![j] = b(x)]
    BY <1>4, <2>2
  <2> QED
    BY <2>0, <2>1, <2>3 DEF b
<1>7. (x.retry = "idempotent") \in BOOLEAN
  OBVIOUS
<1>8. \E b \in BOOLEAN : repeats' = [repeats EXCEPT ![j] = b]
  BY <1>6, <1>7
<1> QED
  BY <1>6, <1>8 DEF Call!Submit, verdicts, repeats, starts

\* Starting the tool performs the call.
LEMMA StartPerforms ==
    ASSUME IInv, RInv, NEW w \in Workers, StartTool(w)
    PROVE  [Call!Next]_(Call!callVars)
<1> DEFINE j == worker[w].job
           t == worker[w].token
<1>i. j \in Jobs /\ job[j].status # "absent" /\ job[j] \in JobRecord /\ IsFiniteSet(effects[j])
  BY Busy DEF StartTool, RInv, EffectsFinite
<1>1. /\ worker[w].pc = "armed" /\ job' = job
      /\ effects' = [effects EXCEPT ![j] = @ \cup {t}]
  BY DEF StartTool
<1>2. /\ effects'[j] = effects[j] \cup {t}
      /\ \A i \in Jobs \ {j} : effects'[i] = effects[i]
  BY <1>i, <1>1 DEF IInv, TypeOK
<1>3. job[j].retry # "idempotent" => job[j].token = t /\ \A s \in effects[j] : s = t
  BY <1>i, <1>1 DEF IInv, BoundaryOwned, EffectOwned, Exclusive
<1>4. verdicts' = verdicts /\ repeats' = repeats
  BY <1>1 DEF verdicts, repeats
<1> HIDE DEF j, t
<1>5. CASE t \in effects[j]
  <2>1. \A i \in Jobs : effects'[i] = effects[i]
    BY <1>2, <1>5
  <2>2. starts' = starts
    BY <2>1 DEF starts
  <2> QED
    BY <1>4, <2>2 DEF Call!callVars, verdicts, repeats, starts
<1>6. CASE t \notin effects[j]
  <2>1. Cardinality(effects'[j]) = Cardinality(effects[j]) + 1
    BY <1>i, <1>2, <1>6, FS_AddElement
  <2>2. starts' = [starts EXCEPT ![j] = @ + 1]
    BY <1>i, <1>2, <2>1 DEF starts
  <2>3. verdicts[j] # "none"
    BY <1>i, VerdictOf DEF verdicts, JobRecord, JobStatus, TerminalStatus
  <2>4. CASE job[j].retry = "idempotent"
    <3>1. Call!MayAct(j)
      BY <1>i, <2>3, <2>4 DEF Call!MayAct, verdicts, repeats
    <3>2. Call!Perform(j)
      BY <1>4, <2>2, <3>1 DEF Call!Perform, verdicts, repeats, starts
    <3> QED
      BY <1>i, <3>2 DEF Call!Next
  <2>5. CASE job[j].retry # "idempotent"
    <3>1. effects[j] = {} /\ job[j].token = t
      BY <1>3, <1>6, <2>5
    <3>2. starts[j] = 0
      BY <1>i, <3>1, FS_EmptySet DEF starts
    <3>3. job[j].status \notin {"succeeded", "failed"}
      BY <1>i, <3>1 DEF RInv, ResultByOwner
    <3>4. verdicts[j] \notin {"none", "succeeded", "failed"}
      BY <1>i, <2>3, <3>3, VerdictOf DEF verdicts, JobRecord, JobStatus, TerminalStatus
    <3>5. Call!MayAct(j)
      BY <3>2, <3>4 DEF Call!MayAct, verdicts, starts
    <3>6. Call!Perform(j)
      BY <1>4, <2>2, <3>5 DEF Call!Perform, verdicts, repeats, starts
    <3> QED
      BY <1>i, <3>6 DEF Call!Next
  <2> QED
    BY <2>4, <2>5
<1> QED
  BY <1>5, <1>6

\* Every other step settles calls, or none.
LEMMA OtherwiseSettles ==
    ASSUME IInv, RInv, RInv', Next, effects' = effects,
           \A j \in Jobs : job[j].status = "absent" => job'[j] = job[j]
    PROVE  Call!Settle
<1>1. RShape
  BY EveryShape
<1>2. \A j \in Jobs : job'[j].retry = job[j].retry
  BY <1>1, RowAfter
<1>3. repeats' = repeats /\ starts' = starts
  BY <1>2 DEF repeats, starts
<1>4. TypeOK /\ TypeOK'
  BY EveryStep DEF IInv, StepShape
<1>5. \A j \in Jobs : Verdict(job'[j]) \in {"none", "open"} \cup TerminalStatus
  BY <1>4, VerdictOf DEF TypeOK, JobRecord, JobStatus
<1>6. ASSUME NEW j \in Jobs, Verdict(job'[j]) # Verdict(job[j])
      PROVE  /\ Verdict(job[j]) = "open"
             /\ Verdict(job'[j]) \in TerminalStatus
             /\ Verdict(job'[j]) = "succeeded" => Cardinality(effects[j]) > 0
  <2>1. RowKept(j)
    BY <1>1, <1>6, RowAfter
  <2>2. /\ job[j].status \notin {"absent"} \cup TerminalStatus
        /\ job'[j].status # "absent"
    BY <2>1 DEF RowKept, IsTerminal
  <2>3. Verdict(job[j]) = "open" /\ job'[j].status \in TerminalStatus
        /\ Verdict(job'[j]) = job'[j].status
    BY <1>6, <2>2, VerdictOf
  <2>4. job'[j].status = "succeeded" => Cardinality(effects[j]) > 0
    <3> SUFFICES ASSUME job'[j].status = "succeeded" PROVE Cardinality(effects[j]) > 0
      OBVIOUS
    <3>1. effects[j] # {} /\ IsFiniteSet(effects[j])
      BY DEF RInv, ResultByOwner, EffectsFinite
    <3>2. Cardinality(effects[j]) \in Nat
      BY <3>1, FS_CardinalityType
    <3>3. Cardinality(effects[j]) # 0
      BY <3>1, FS_EmptySet
    <3> QED
      BY <3>2, <3>3
  <2> QED
    BY <2>3, <2>4
<1>7. Call!Final = TerminalStatus /\ Call!Verdicts = {"none", "open"} \cup TerminalStatus
  BY DEF Call!Final, Call!Verdicts, TerminalStatus
<1>8. verdicts' \in [Jobs -> Call!Verdicts]
  BY <1>5, <1>7 DEF verdicts
<1>9. \A j \in Jobs : verdicts'[j] # verdicts[j] =>
        /\ verdicts[j] = "open"
        /\ verdicts'[j] \in Call!Final
        /\ verdicts'[j] = "succeeded" => starts[j] > 0
  BY <1>6, <1>7 DEF verdicts, starts
<1> QED
  BY <1>3, <1>8, <1>9 DEF Call!Settle, verdicts, repeats, starts

\* To the Activation that submitted it an Execution Job is a physical call: its
\* tool runs at most once unless it is idempotent, it gets one verdict, and
\* after `succeeded' or `failed' nothing runs any more.
THEOREM JobsArePhysicalCalls == Spec => JobIsPhysicalCall
<1>1. Init => Call!Init
  <2> SUFFICES ASSUME Init PROVE Call!Init
    OBVIOUS
  <2>1. \A j \in Jobs : job[j].status = "absent" /\ effects[j] = {}
    BY DEF Init, AbsentRow
  <2>2. \A j \in Jobs : Verdict(job[j]) = "none" /\ Cardinality(effects[j]) = 0
    BY <2>1, VerdictOf, FS_EmptySet
  <2>3. repeats \in [Jobs -> BOOLEAN]
    BY DEF repeats
  <2> QED
    BY <2>2, <2>3 DEF Call!Init, repeats
<1>2. IInv /\ RInv /\ [Next]_vars => [Call!Next]_(Call!callVars)
  <2> SUFFICES ASSUME IInv, RInv, [Next]_vars PROVE [Call!Next]_(Call!callVars)
    OBVIOUS
  <2>1. CASE UNCHANGED vars
    <3>1. job' = job /\ effects' = effects
      BY <2>1 DEF vars
    <3> QED
      BY <3>1 DEF Call!callVars
  <2>2. CASE \E w \in Workers, j \in Jobs : CreateJob(w, j)
    BY <2>2, CreateSubmits DEF Call!Next
  <2>3. CASE \E w \in Workers : StartTool(w)
    BY <2>3, StartPerforms
  <2>4. CASE /\ Next /\ ~(\E w \in Workers : StartTool(w))
             /\ ~(\E w \in Workers, j \in Jobs : CreateJob(w, j))
    <3>1. effects' = effects
      BY <2>4 DEF Next, WorkerStep, AdoptJob, ClaimJob, ClaimWithGrant, DeniedFinish,
         CrossBoundary, ToolReturns, ReadForFinish, CommitFinish, FinishConflict, FinishFails,
         FenceRevoked, TaskPanics, RenewLease, Crash, LeaseExpires, DecideApproval,
         RequestCancel, WithdrawApproval, CloseUnstarted, ListAbandoned, Reconcile
    <3>2. \A j \in Jobs : job[j].status = "absent" => job'[j] = job[j]
      BY <2>4, AbsentStays
    <3>3. RInv'
      BY <2>4, EveryStep, ShapePreserves, EveryShape, RShapePreserves
    <3> QED
      BY <2>4, <3>1, <3>2, <3>3, OtherwiseSettles DEF Call!Next
  <2> QED
    BY <2>1, <2>2, <2>3, <2>4
<1> QED
  BY <1>1, <1>2, ResultInvariant, PTL DEF Spec, JobIsPhysicalCall, Call!Spec
=============================================================================
