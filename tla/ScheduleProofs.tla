--------------------------- MODULE ScheduleProofs ---------------------------
(***************************************************************************)
(* What Schedule promises of a Schedule and its timer, proved for every set   *)
(* of Runtimes, any number of revisions and any number of faults.            *)
(***************************************************************************)
EXTENDS Schedule, FiniteSetTheorems, TLAPS

-----------------------------------------------------------------------------
(* The inductive invariant. *)

Queued == sched.status = "queued"

\* A dispatcher that has claimed the timer and not yet answered for it.
Active == {"claimed", "commit", "arm", "complete", "later"}

\* Revisions and generations: a timer, a claim and a copy are never ahead of
\* the row they come from.
GenerationsOK ==
    /\ sched.status # "absent" => sched.rev >= 1
    /\ timer.gen <= sched.rev
    /\ timer.gen = 0 <=> timer.status = "absent"
    /\ \A r \in Runtimes : caller[r].pc = "arm" =>
          caller[r].copy.rev >= 1 /\ caller[r].copy.rev <= sched.rev

\* The copy a dispatcher acts on, against the row: what a dispatch was decided
\* on still holds at that revision, and what is to be armed is newer than the
\* timer that was claimed.
EngineOK(r) ==
    /\ engine[r].gen <= timer.gen
    /\ engine[r].pc \notin Active => engine[r].gen = 0
    /\ engine[r].pc = "commit" =>
         /\ engine[r].copy.rev = engine[r].gen
         /\ Queued /\ sched.rev = engine[r].gen => sched.due /\ dep # "open"
    /\ engine[r].pc = "arm" =>
         engine[r].gen < engine[r].copy.rev /\ engine[r].copy.rev <= sched.rev
    /\ engine[r].pc = "recover_arm" =>
         engine[r].copy.rev >= 1 /\ engine[r].copy.rev <= sched.rev
EnginesOK == \A r \in Runtimes : EngineOK(r)

\* A one-shot Schedule that has been dispatched is so for good.
OneShotDone ==
    ~ recurring /\ occ # {} =>
        sched.status = "dispatched" /\ \E n \in occ : occ = {n}

\* As long as no claim runs out under its dispatcher, the generation of the
\* timer is in the hands of the one that claimed it.
OneClaim ==
    faults["overrun"] = 0 =>
        /\ \A r \in Runtimes :
              engine[r].pc \in Active /\ engine[r].gen = timer.gen
                  => timer.status = "claimed" /\ timer.holder = r
        /\ timer.status = "claimed" /\ ~ timer.leased => ~ Attended

\* Recovery, and callers that a crash turns into recovery, arm the current
\* revision unless their own call fails, which is on record; a dispatcher does
\* unless its handler fails.
Recovering(r) == engine[r].pc \in {"recover", "recover_cancel", "recover_queued"}
Reliable(r) ==
    \/ caller[r].pc = "arm" /\ caller[r].copy.rev = sched.rev
    \/ Recovering(r)
    \/ engine[r].pc = "recover_arm" /\ engine[r].copy.rev = sched.rev
ReliableArmer == (\E r \in Runtimes : Reliable(r)) \/ sched.rev \in missed
Armer ==
    \/ ReliableArmer
    \/ \E r \in Runtimes : engine[r].pc = "arm" /\ engine[r].copy.rev = sched.rev

\* The timer of an older revision that is, or is about to be, completed has
\* someone who arms the current one.
Behind ==
    /\ Queued /\ timer.gen < sched.rev
    /\ \/ timer.status \in {"absent", "fired"}
       \/ \E r \in Runtimes :
             engine[r].pc \in {"commit", "complete"} /\ engine[r].gen = timer.gen
StaleIsArmed ==
    /\ faults["overrun"] = 0 /\ Behind => ReliableArmer
    /\ faults["failure"] = 0 /\ Behind => Armer

\* The current revision's timer is completed without a dispatch only for cause,
\* and a dependency that ends meanwhile has someone who wakes the Schedule.
Waker ==
    \/ \E r \in Runtimes : caller[r].pc = "wake" \/ Recovering(r)
    \/ sched.rev \in missed
Cause ==
    \/ dep \in {"open", "cancelled"}
    \/ ~ recurring /\ owner = "terminal"
    \/ dep = "completed" /\ Waker
FiredForCause ==
    Queued =>
        /\ timer.status = "fired" /\ timer.gen = sched.rev => Cause
        /\ \A r \in Runtimes :
              engine[r].pc = "complete" /\ engine[r].gen = sched.rev => Cause

IInv ==
    /\ TypeOK
    /\ GenerationsOK /\ EnginesOK /\ OneShotDone
    /\ OneClaim /\ StaleIsArmed /\ FiredForCause

-----------------------------------------------------------------------------
(* The rows and their types. *)

\* Rows of the processes at rest are rows.
LEMMA ConstantRows ==
    /\ NoSched \in SchedRow /\ IdleEngine \in EngineRow /\ IdleCaller \in CallerRow
    /\ IdleEngine.pc = "idle" /\ IdleEngine.gen = 0 /\ IdleCaller.pc = "idle"
<1>1. NoSched \in SchedRow
  BY DEF NoSched, SchedRow
<1>2. IdleEngine \in EngineRow /\ IdleCaller \in CallerRow
  BY <1>1 DEF IdleEngine, IdleCaller, EngineRow, CallerRow
<1> QED  BY <1>1, <1>2 DEF IdleEngine, IdleCaller

\* The fields of the rows.
LEMMA Fields ==
    ASSUME TypeOK
    PROVE  /\ sched.status \in {"absent", "queued", "paused", "dispatched", "cancelled"}
           /\ sched.rev \in Nat /\ sched.due \in BOOLEAN
           /\ timer.status \in {"absent", "pending", "claimed", "fired", "cancelled"}
           /\ timer.gen \in Nat /\ timer.due \in BOOLEAN /\ timer.leased \in BOOLEAN
           /\ timer.holder \in Runtimes \cup {NoRuntime}
           /\ \A r \in Runtimes :
                 /\ engine[r] \in EngineRow /\ caller[r] \in CallerRow
                 /\ engine[r].gen \in Nat
                 /\ engine[r].copy \in SchedRow /\ caller[r].copy \in SchedRow
                 /\ engine[r].copy.rev \in Nat /\ caller[r].copy.rev \in Nat
           /\ faults["failure"] \in Nat /\ faults["overrun"] \in Nat
           /\ faults["other"] \in Nat
BY DEF TypeOK, SchedRow, TimerRow, EngineRow, CallerRow, FaultKinds

\* A fault is counted, and none is forgotten.
LEMMA FaultCounted ==
    ASSUME TypeOK, NEW kind \in FaultKinds, Fault(kind)
    PROVE  /\ faults' \in [FaultKinds -> Nat]
           /\ \A k \in FaultKinds : faults'[k] = IF k = kind THEN faults[k] + 1
                                                             ELSE faults[k]
BY DEF TypeOK, Fault, FaultKinds

\* upsert_runtime_timer leaves a timer that is at least as new as the row it was
\* given, and one it writes is pending.
LEMMA UpsertOK ==
    ASSUME IInv, NEW c \in SchedRow, c.rev >= 1, c.rev <= sched.rev
    PROVE  LET u == Upsert(c.rev, c.due)
           IN /\ u \in TimerRow /\ u.gen >= timer.gen /\ u.gen >= c.rev
              /\ u.gen <= sched.rev /\ u.gen >= 1 /\ u.status # "absent"
              /\ \/ u = timer
                 \/ /\ u.status = "pending" /\ u.gen = c.rev
                    /\ \/ timer.gen < c.rev
                       \/ timer.gen = c.rev /\ timer.status = "cancelled"
<1>1. /\ c.rev \in Nat /\ c.due \in BOOLEAN /\ timer \in TimerRow
      /\ timer.gen \in Nat /\ timer.gen <= sched.rev
      /\ timer.gen = 0 <=> timer.status = "absent"
      /\ sched.rev \in Nat
  BY DEF IInv, TypeOK, SchedRow, TimerRow, GenerationsOK
<1> DEFINE p == [status |-> "pending", gen |-> c.rev, due |-> c.due,
                 holder |-> NoRuntime, leased |-> FALSE]
<1>2. p \in TimerRow /\ p.status = "pending" /\ p.gen = c.rev
  BY <1>1 DEF TimerRow
<1> HIDE DEF p
<1>3. Upsert(c.rev, c.due)
        = IF \/ timer.status = "absent"
             \/ c.rev > timer.gen
             \/ c.rev = timer.gen /\ timer.status = "cancelled"
          THEN p ELSE timer
  BY DEF Upsert, p
<1> QED  BY <1>1, <1>2, <1>3

-----------------------------------------------------------------------------
(* Initially. *)

\* A state in which nothing exists satisfies the invariant.
LEMMA InitIInv == Init => IInv
<1> SUFFICES ASSUME Init PROVE IInv
  OBVIOUS
<1>1. TypeOK
  <2>1. engine \in [Runtimes -> EngineRow] /\ caller \in [Runtimes -> CallerRow]
        /\ sched \in SchedRow
    BY ConstantRows DEF Init
  <2>2. timer \in TimerRow
    BY DEF Init, TimerRow
  <2>3. faults \in [FaultKinds -> Nat]
    BY DEF Init
  <2> QED  BY <2>1, <2>2, <2>3 DEF TypeOK, Init
<1>2. /\ sched.status = "absent" /\ sched.rev = 0
      /\ timer.status = "absent" /\ timer.gen = 0 /\ occ = {}
      /\ \A r \in Runtimes : engine[r].pc = "idle" /\ engine[r].gen = 0
                             /\ caller[r].pc = "idle"
  BY ConstantRows DEF Init, NoSched
<1>3. GenerationsOK /\ EnginesOK /\ OneShotDone
  BY <1>2 DEF GenerationsOK, EnginesOK, EngineOK, OneShotDone, Active
<1>4. OneClaim /\ StaleIsArmed /\ FiredForCause
  BY <1>2 DEF OneClaim, StaleIsArmed, Behind, FiredForCause, Queued, Active
<1> QED  BY <1>1, <1>3, <1>4 DEF IInv

-----------------------------------------------------------------------------
(* The row moves to its next revision. *)

\* A new revision has someone who arms it if it is queued, and every timer,
\* claim and copy is older than it.
LEMMA Bumping ==
    ASSUME IInv, sched' \in SchedRow, sched'.rev = sched.rev + 1,
           sched'.status # "absent",
           timer' = timer, faults' = faults, missed' = missed,
           \A q \in Runtimes :
              /\ \/ engine'[q] = engine[q]
                 \/ /\ engine'[q].pc = "recover_arm" /\ engine'[q].gen = 0
                    /\ engine'[q].copy.rev = sched'.rev
              /\ caller'[q].pc = "arm" => \/ caller'[q] = caller[q]
                                          \/ caller'[q].copy.rev = sched'.rev,
           sched'.status = "queued" =>
              \E q \in Runtimes :
                 \/ caller'[q].pc = "arm" /\ caller'[q].copy.rev = sched'.rev
                 \/ /\ engine'[q].pc = "recover_arm"
                    /\ engine'[q].copy.rev = sched'.rev
    PROVE  GenerationsOK' /\ EnginesOK' /\ OneClaim' /\ StaleIsArmed' /\ FiredForCause'
<1>1. TypeOK /\ GenerationsOK /\ EnginesOK /\ OneClaim
  BY DEF IInv
<1>2. /\ sched.rev \in Nat /\ timer.gen \in Nat /\ timer.gen <= sched.rev
      /\ timer.gen = 0 <=> timer.status = "absent"
      /\ \A q \in Runtimes :
            /\ engine[q].gen \in Nat /\ engine[q].gen <= timer.gen
            /\ engine[q].copy.rev \in Nat /\ caller[q].copy.rev \in Nat
  BY <1>1, Fields DEF GenerationsOK, EnginesOK, EngineOK
<1>3. GenerationsOK'
  <2>1. \A q \in Runtimes : caller'[q].pc = "arm" =>
           caller'[q].copy.rev >= 1 /\ caller'[q].copy.rev <= sched'.rev
    BY <1>1, <1>2 DEF GenerationsOK
  <2> QED  BY <1>2, <2>1 DEF GenerationsOK
<1>4. EnginesOK'
  <2> SUFFICES ASSUME NEW q \in Runtimes PROVE EngineOK(q)'
    BY DEF EnginesOK
  <2>1. EngineOK(q)
    BY <1>1 DEF EnginesOK
  <2>2. CASE engine'[q] = engine[q]
    BY <1>2, <2>1, <2>2 DEF EngineOK, Queued
  <2>3. CASE engine'[q] # engine[q]
    BY <1>2, <2>3 DEF EngineOK, Active
  <2> QED  BY <2>2, <2>3
<1>5. OneClaim'
  <2>1. timer.status = "claimed" /\ Attended' => Attended
    BY <1>2 DEF Attended
  <2>2. \A q \in Runtimes : engine'[q].pc \in Active => engine'[q] = engine[q]
    BY DEF Active
  <2> QED  BY <1>1, <2>1, <2>2 DEF OneClaim
<1>6. StaleIsArmed'
  <2>1. Queued' => ReliableArmer' /\ Armer'
    BY DEF Queued, ReliableArmer, Reliable, Armer
  <2> QED  BY <2>1 DEF StaleIsArmed, Behind
<1>7. FiredForCause'
  BY <1>2 DEF FiredForCause
<1> QED  BY <1>3, <1>4, <1>5, <1>6, <1>7

\* The row after a revision is of its type.
LEMMA BumpedRow ==
    ASSUME TypeOK, NEW status \in {"queued", "paused", "dispatched", "cancelled"},
           NEW due \in BOOLEAN
    PROVE  /\ Bumped(status, due) \in SchedRow
           /\ Bumped(status, due).rev = sched.rev + 1
           /\ Bumped(status, due).status = status /\ Bumped(status, due).due = due
<1>1. sched.rev \in Nat
  BY Fields
<1> QED  BY <1>1 DEF Bumped, SchedRow

\* A control call moves a row whose occurrences, if it is a one-shot, are none.
LEMMA MutateStep ==
    ASSUME IInv, NEW r \in Runtimes,
           NEW status \in {"queued", "paused", "cancelled"}, NEW due \in BOOLEAN,
           sched.status # "dispatched", Mutate(r, Bumped(status, due))
    PROVE  IInv'
<1> DEFINE row == Bumped(status, due)
<1>1. TypeOK /\ OneShotDone
  BY DEF IInv
<1>2. row \in SchedRow /\ row.rev = sched.rev + 1 /\ row.status = status
  BY <1>1, BumpedRow
<1>3. /\ sched' = row
      /\ caller' = [caller EXCEPT ![r] =
           IF row.status = "queued" THEN [pc |-> "arm", copy |-> row]
                                    ELSE [pc |-> "cancel", copy |-> NoSched]]
      /\ UNCHANGED <<recurring, dep, owner, timer, occ, engine, faults, missed>>
  BY DEF Mutate
<1> HIDE DEF row
<1> DEFINE call == IF row.status = "queued" THEN [pc |-> "arm", copy |-> row]
                                            ELSE [pc |-> "cancel", copy |-> NoSched]
<1>4. call \in CallerRow
  BY <1>2, ConstantRows DEF CallerRow
<1>5. /\ call.pc = "arm" => call.copy.rev = row.rev
      /\ row.status = "queued" => call.pc = "arm"
  OBVIOUS
<1> HIDE DEF call
<1>6. caller' = [caller EXCEPT ![r] = call]
  BY <1>3 DEF call
<1>7. TypeOK'
  <2>1. caller' \in [Runtimes -> CallerRow]
    BY <1>1, <1>4, <1>6 DEF TypeOK
  <2> QED  BY <1>1, <1>2, <1>3, <2>1 DEF TypeOK
<1>8. \A q \in Runtimes : caller'[q] = IF q = r THEN call ELSE caller[q]
  BY <1>1, <1>6 DEF TypeOK
<1>9. OneShotDone'
  BY <1>1, <1>3 DEF OneShotDone
<1>10. GenerationsOK' /\ EnginesOK' /\ OneClaim' /\ StaleIsArmed' /\ FiredForCause'
  <2>1. \A q \in Runtimes :
           /\ engine'[q] = engine[q]
           /\ caller'[q].pc = "arm" => \/ caller'[q] = caller[q]
                                       \/ caller'[q].copy.rev = sched'.rev
    BY <1>3, <1>5, <1>8
  <2>2. sched'.status = "queued" =>
           \E q \in Runtimes : caller'[q].pc = "arm"
                               /\ caller'[q].copy.rev = sched'.rev
    BY <1>3, <1>5, <1>8
  <2> QED  BY <1>2, <1>3, <2>1, <2>2, Bumping
<1> QED  BY <1>7, <1>9, <1>10 DEF IInv

\* The control calls.
LEMMA ControlStep ==
    ASSUME IInv, NEW r \in Runtimes, Control(r)
    PROVE  IInv'
<1>1. TypeOK /\ sched.due \in BOOLEAN
  BY Fields DEF IInv
<1>2. CASE Create(r)
  <2>1. PICK due \in BOOLEAN : Mutate(r, Bumped("queued", due))
    BY <1>2 DEF Create
  <2> QED  BY <1>2, <2>1, MutateStep DEF Create
<1>3. CASE Pause(r)
  BY <1>1, <1>3, MutateStep DEF Pause
<1>4. CASE Resume(r)
  BY <1>1, <1>4, MutateStep DEF Resume
<1>5. CASE Reschedule(r)
  <2>1. sched.status \in {"queued", "paused"}
    BY <1>5 DEF Reschedule, Open
  <2>2. PICK due \in BOOLEAN : Mutate(r, Bumped(sched.status, due))
    BY <1>5 DEF Reschedule
  <2>3. CASE sched.status = "queued"
    BY <2>2, <2>3, MutateStep
  <2>4. CASE sched.status = "paused"
    BY <2>2, <2>4, MutateStep
  <2> QED  BY <2>1, <2>3, <2>4
<1>6. CASE Cancel(r)
  BY <1>1, <1>6, MutateStep DEF Cancel, Open
<1> QED  BY <1>2, <1>3, <1>4, <1>5, <1>6 DEF Control

\* The owner Thread is cancelled, and its Schedule with it.
LEMMA CancelOwnerStep ==
    ASSUME IInv, CancelOwner
    PROVE  IInv'
<1>1. /\ sched' = Bumped("cancelled", sched.due) /\ owner' = "terminal"
      /\ sched.status \in {"queued", "paused"}
      /\ UNCHANGED <<recurring, dep, timer, occ, engine, caller, faults, missed>>
  BY DEF CancelOwner, Open
<1>2. TypeOK /\ OneShotDone /\ sched.due \in BOOLEAN
  BY Fields DEF IInv
<1>3. sched' \in SchedRow /\ sched'.rev = sched.rev + 1 /\ sched'.status = "cancelled"
  BY <1>1, <1>2, BumpedRow
<1>4. TypeOK'
  BY <1>1, <1>2, <1>3 DEF TypeOK
<1>5. OneShotDone'
  BY <1>1, <1>2 DEF OneShotDone
<1>6. GenerationsOK' /\ EnginesOK' /\ OneClaim' /\ StaleIsArmed' /\ FiredForCause'
  BY <1>1, <1>3, Bumping
<1> QED  BY <1>4, <1>5, <1>6 DEF IInv

\* The dependency's end reaches the Schedule.
LEMMA WakeStep ==
    ASSUME IInv, NEW r \in Runtimes, Wake(r)
    PROVE  IInv'
<1>1. /\ caller[r].pc = "wake"
      /\ UNCHANGED <<recurring, dep, owner, timer, occ, engine, faults, missed>>
  BY DEF Wake
<1>2. TypeOK /\ OneShotDone /\ sched.due \in BOOLEAN
  BY Fields DEF IInv
<1>3. CASE sched.status = "queued"
  <2>1. /\ sched' = Bumped("queued", sched.due)
        /\ caller' = [caller EXCEPT ![r] = [pc |-> "arm", copy |-> sched']]
    BY <1>3 DEF Wake, Woken
  <2>2. sched' \in SchedRow /\ sched'.rev = sched.rev + 1 /\ sched'.status = "queued"
    BY <1>2, <2>1, BumpedRow
  <2>3. [pc |-> "arm", copy |-> sched'] \in CallerRow
    BY <2>2 DEF CallerRow
  <2>4. TypeOK'
    <3>1. caller' \in [Runtimes -> CallerRow]
      BY <1>2, <2>1, <2>3 DEF TypeOK
    <3> QED  BY <1>1, <1>2, <2>2, <3>1 DEF TypeOK
  <2>5. OneShotDone'
    BY <1>1, <1>2, <1>3 DEF OneShotDone
  <2>6. \A q \in Runtimes :
           caller'[q] = IF q = r THEN [pc |-> "arm", copy |-> sched'] ELSE caller[q]
    BY <1>2, <2>1 DEF TypeOK
  <2>7. GenerationsOK' /\ EnginesOK' /\ OneClaim' /\ StaleIsArmed' /\ FiredForCause'
    <3>1. \A q \in Runtimes :
             /\ engine'[q] = engine[q]
             /\ caller'[q].pc = "arm" => \/ caller'[q] = caller[q]
                                         \/ caller'[q].copy.rev = sched'.rev
      BY <1>1, <2>6
    <3>2. \E q \in Runtimes : caller'[q].pc = "arm"
                              /\ caller'[q].copy.rev = sched'.rev
      BY <2>6
    <3> QED  BY <1>1, <2>2, <3>1, <3>2, Bumping
  <2> QED  BY <2>4, <2>5, <2>7 DEF IInv
<1>4. CASE sched.status # "queued"
  <2>1. sched' = sched /\ caller' = [caller EXCEPT ![r] = IdleCaller]
    BY <1>4 DEF Wake
  <2>2. \A q \in Runtimes : caller'[q] = IF q = r THEN IdleCaller ELSE caller[q]
    BY <1>2, <2>1 DEF TypeOK
  <2>3. TypeOK'
    <3>1. caller' \in [Runtimes -> CallerRow]
      BY <1>2, <2>1, ConstantRows DEF TypeOK
    <3> QED  BY <1>1, <1>2, <2>1, <3>1 DEF TypeOK
  <2>4. GenerationsOK' /\ EnginesOK' /\ OneShotDone'
    BY <1>1, <2>1, <2>2, ConstantRows
       DEF IInv, GenerationsOK, EnginesOK, EngineOK, OneShotDone, Queued
  <2>5. OneClaim'
    BY <1>1 DEF IInv, OneClaim, Attended
  <2>6. StaleIsArmed' /\ FiredForCause'
    BY <1>4, <2>1 DEF StaleIsArmed, Behind, FiredForCause, Queued
  <2> QED  BY <2>3, <2>4, <2>5, <2>6 DEF IInv
<1> QED  BY <1>3, <1>4

\* A call fails before it has reached the timer: the revision it owed is on
\* record, and the others who are to arm or to wake stay where they are.
LEMMA CallFailsStep ==
    ASSUME IInv, NEW r \in Runtimes, CallFails(r)
    PROVE  IInv'
<1>1. /\ Fault("other") /\ missed' = Missed(r)
      /\ caller' = [caller EXCEPT ![r] = IdleCaller]
      /\ UNCHANGED <<sched, recurring, dep, owner, timer, occ, engine>>
  BY DEF CallFails
<1>2. TypeOK /\ caller \in [Runtimes -> CallerRow]
  BY DEF IInv, TypeOK
<1>3. \A q \in Runtimes : caller'[q] = IF q = r THEN IdleCaller ELSE caller[q]
  BY <1>1, <1>2
<1>4. /\ faults' \in [FaultKinds -> Nat]
      /\ faults'["failure"] = faults["failure"]
      /\ faults'["overrun"] = faults["overrun"]
  BY <1>1, <1>2, FaultCounted DEF FaultKinds
<1>5. /\ missed' \subseteq Nat /\ missed \subseteq missed'
      /\ caller[r].pc = "arm" => caller[r].copy.rev \in missed'
      /\ caller[r].pc = "wake" => sched.rev \in missed'
  <2>1. missed \subseteq Nat /\ sched.rev \in Nat /\ caller[r].copy.rev \in Nat
    BY <1>2, Fields DEF TypeOK
  <2> QED  BY <1>1, <2>1 DEF Missed
<1>6. TypeOK'
  <2>1. caller' \in [Runtimes -> CallerRow]
    BY <1>1, <1>2, ConstantRows
  <2> QED  BY <1>1, <1>2, <1>4, <1>5, <2>1 DEF TypeOK
<1>7. GenerationsOK' /\ EnginesOK' /\ OneShotDone'
  BY <1>1, <1>3, ConstantRows
     DEF IInv, GenerationsOK, EnginesOK, EngineOK, OneShotDone, Queued
<1>8. OneClaim'
  BY <1>1, <1>4 DEF IInv, OneClaim, Attended
<1>9. StaleIsArmed'
  <2>1. Behind' => Behind
    BY <1>1 DEF Behind, Queued
  <2>2. ReliableArmer => ReliableArmer'
    BY <1>1, <1>3, <1>5 DEF ReliableArmer, Reliable, Recovering
  <2>3. Armer => Armer'
    BY <1>1, <2>2 DEF Armer
  <2> QED  BY <1>4, <2>1, <2>2, <2>3 DEF IInv, StaleIsArmed
<1>10. FiredForCause'
  <2>1. Waker => Waker'
    BY <1>1, <1>3, <1>5 DEF Waker, Recovering
  <2>2. Cause => Cause'
    BY <1>1, <2>1 DEF Cause
  <2> QED  BY <1>1, <2>2 DEF IInv, FiredForCause, Queued
<1> QED  BY <1>6, <1>7, <1>8, <1>9, <1>10 DEF IInv

-----------------------------------------------------------------------------
(* The Threads and the clock. *)

\* Steps that move neither the revision, nor the timer's state, nor a
\* dispatcher leave everyone who is to arm the timer where they are.
LEMMA Undisturbed ==
    ASSUME IInv, sched'.status = sched.status, sched'.rev = sched.rev,
           timer'.status = timer.status, timer'.gen = timer.gen,
           faults'["failure"] = 0 => faults["failure"] = 0,
           faults'["overrun"] = 0 => faults["overrun"] = 0, missed' = missed,
           \A q \in Runtimes :
              /\ engine'[q] = engine[q]
              /\ \/ caller'[q] = caller[q]
                 \/ caller[q].pc \notin {"arm", "wake"} /\ caller'[q].pc # "arm",
           Cause => Cause'
    PROVE  GenerationsOK' /\ StaleIsArmed' /\ FiredForCause'
<1>1. GenerationsOK'
  BY DEF IInv, GenerationsOK
<1>2. Behind' => Behind
  BY DEF Behind, Queued
<1>3. ReliableArmer => ReliableArmer'
  BY DEF ReliableArmer, Reliable, Recovering
<1>4. Armer => Armer'
  BY <1>3 DEF Armer
<1>5. StaleIsArmed'
  BY <1>2, <1>3, <1>4 DEF IInv, StaleIsArmed
<1>6. FiredForCause'
  BY DEF IInv, FiredForCause, Queued
<1> QED  BY <1>1, <1>5, <1>6

\* The owner or the dependency ends, and nobody is told.
LEMMA ThreadEndsStep ==
    ASSUME IInv, OwnerEnds \/ DependencyCancelled
    PROVE  IInv'
<1>1. /\ UNCHANGED <<sched, recurring, timer, occ, engine, caller, faults, missed>>
      /\ \/ owner' = "terminal" /\ dep' = dep
         \/ owner' = owner /\ dep = "open" /\ dep' = "cancelled"
  BY DEF OwnerEnds, DependencyCancelled
<1>2. TypeOK'
  BY <1>1 DEF IInv, TypeOK
<1>3. Waker' <=> Waker
  BY <1>1 DEF Waker, Recovering
<1>4. Cause => Cause'
  BY <1>1, <1>3 DEF Cause
<1>5. GenerationsOK' /\ StaleIsArmed' /\ FiredForCause'
  BY <1>1, <1>4, Undisturbed
<1>6. EnginesOK' /\ OneShotDone' /\ OneClaim'
  BY <1>1 DEF IInv, EnginesOK, EngineOK, OneShotDone, OneClaim, Queued, Attended
<1> QED  BY <1>2, <1>5, <1>6 DEF IInv

\* The dependency commits its outcome, and its Runtime will tell the scheduler.
LEMMA DependencyEndsStep ==
    ASSUME IInv, NEW r \in Runtimes, DependencyEnds(r)
    PROVE  IInv'
<1>1. /\ dep = "open" /\ dep' = "completed" /\ caller[r].pc = "idle"
      /\ caller' = [caller EXCEPT ![r] = [pc |-> "wake", copy |-> NoSched]]
      /\ UNCHANGED <<sched, recurring, owner, timer, occ, engine, faults, missed>>
  BY DEF DependencyEnds, Serving
<1>2. TypeOK /\ caller \in [Runtimes -> CallerRow]
  BY DEF IInv, TypeOK
<1>3. \A q \in Runtimes :
         caller'[q] = IF q = r THEN [pc |-> "wake", copy |-> NoSched] ELSE caller[q]
  BY <1>1, <1>2
<1>4. TypeOK'
  <2>1. [pc |-> "wake", copy |-> NoSched] \in CallerRow
    BY ConstantRows DEF CallerRow
  <2>2. caller' \in [Runtimes -> CallerRow]
    BY <1>1, <1>2, <2>1
  <2> QED  BY <1>1, <1>2, <2>2 DEF TypeOK
<1>5. Cause'
  BY <1>1, <1>3 DEF Cause, Waker
<1>6. GenerationsOK' /\ StaleIsArmed' /\ FiredForCause'
  BY <1>1, <1>3, <1>5, Undisturbed
<1>7. EnginesOK' /\ OneShotDone' /\ OneClaim'
  BY <1>1 DEF IInv, EnginesOK, EngineOK, OneShotDone, OneClaim, Queued, Attended
<1> QED  BY <1>4, <1>6, <1>7 DEF IInv

\* Time passes: the Schedule's, a retry's, or the lease of a claim.
LEMMA TimeStep ==
    ASSUME IInv, Ripen \/ TimerRipens \/ LeaseExpires
    PROVE  IInv'
<1>1. TypeOK /\ OneClaim /\ timer \in TimerRow /\ sched \in SchedRow
      /\ timer.due \in BOOLEAN
  BY Fields DEF IInv, TypeOK
<1>2. UNCHANGED <<recurring, dep, owner, occ, engine, caller, missed>>
  BY DEF Ripen, TimerRipens, LeaseExpires
<1>3. /\ timer' \in TimerRow
      /\ timer'.status = timer.status /\ timer'.gen = timer.gen
      /\ timer'.holder = timer.holder
      /\ timer'.leased = timer.leased \/ LeaseExpires
  <2>1. CASE Ripen
    <3>1. timer' = [timer EXCEPT !.due = @ \/ (timer.status = "pending"
                                               /\ timer.gen = sched.rev)]
      BY <2>1 DEF Ripen
    <3> QED  BY <1>1, <3>1 DEF TimerRow
  <2>2. CASE TimerRipens
    <3>1. timer' = [timer EXCEPT !.due = TRUE]
      BY <2>2 DEF TimerRipens
    <3> QED  BY <1>1, <3>1 DEF TimerRow
  <2>3. CASE LeaseExpires
    <3>1. timer' = [timer EXCEPT !.leased = FALSE]
      BY <2>3 DEF LeaseExpires
    <3> QED  BY <1>1, <2>3, <3>1 DEF TimerRow
  <2> QED  BY <2>1, <2>2, <2>3
<1>4. /\ sched' \in SchedRow
      /\ sched'.status = sched.status /\ sched'.rev = sched.rev
      /\ sched.due => sched'.due
  <2>1. CASE Ripen
    <3>1. sched' = [sched EXCEPT !.due = TRUE]
      BY <2>1 DEF Ripen
    <3> QED  BY <1>1, <3>1 DEF SchedRow
  <2>2. CASE TimerRipens \/ LeaseExpires
    BY <1>1, <2>2 DEF TimerRipens, LeaseExpires
  <2> QED  BY <2>1, <2>2
<1>5. /\ faults' \in [FaultKinds -> Nat]
      /\ faults'["failure"] = 0 => faults["failure"] = 0
      /\ faults'["overrun"] = 0 => faults["overrun"] = 0
      /\ LeaseExpires /\ Attended => faults'["overrun"] # 0
  <2>1. CASE LeaseExpires /\ Attended
    <3>1. Fault("overrun")
      BY <2>1 DEF LeaseExpires
    <3>2. /\ faults' \in [FaultKinds -> Nat]
          /\ \A k \in FaultKinds : faults'[k] = IF k = "overrun" THEN faults[k] + 1
                                                                 ELSE faults[k]
      BY <1>1, <3>1, FaultCounted DEF FaultKinds
    <3>3. faults["overrun"] \in Nat
      BY <1>1, Fields
    <3> QED  BY <3>2, <3>3 DEF FaultKinds
  <2>2. CASE ~ (LeaseExpires /\ Attended)
    <3>1. faults' = faults
      BY <2>2 DEF Ripen, TimerRipens, LeaseExpires
    <3> QED  BY <1>1, <2>2, <3>1 DEF TypeOK
  <2> QED  BY <2>1, <2>2
<1>6. TypeOK'
  BY <1>1, <1>2, <1>3, <1>4, <1>5 DEF TypeOK
<1>7. Cause => Cause'
  BY <1>2, <1>4 DEF Cause, Waker, Recovering
<1>8. GenerationsOK' /\ StaleIsArmed' /\ FiredForCause'
  BY <1>2, <1>3, <1>4, <1>5, <1>7, Undisturbed
<1>9. EnginesOK'
  BY <1>2, <1>3, <1>4 DEF IInv, EnginesOK, EngineOK, Queued
<1>10. OneShotDone'
  BY <1>2, <1>4 DEF IInv, OneShotDone
<1>11. OneClaim'
  <2>1. Attended' <=> Attended
    BY <1>2, <1>3 DEF Attended
  <2>2. CASE LeaseExpires
    BY <1>1, <1>2, <1>3, <1>5, <2>1, <2>2 DEF OneClaim
  <2>3. CASE ~ LeaseExpires
    BY <1>1, <1>2, <1>3, <1>5, <2>1, <2>3 DEF OneClaim
  <2> QED  BY <2>2, <2>3
<1> QED  BY <1>6, <1>8, <1>9, <1>10, <1>11 DEF IInv

-----------------------------------------------------------------------------
(* The timer is armed. *)

\* r has armed the row c it had read: the call it was serving, its dispatch or
\* its recovery goes on.
Armed(r, c) ==
    \/ /\ caller[r].pc = "arm" /\ caller[r].copy = c /\ caller'[r].pc = "idle"
       /\ engine'[r] = engine[r]
    \/ /\ engine[r].pc = "arm" /\ engine[r].copy = c
       /\ engine'[r].pc = "complete" /\ engine'[r].gen = engine[r].gen
       /\ caller'[r] = caller[r]
    \/ /\ engine[r].pc = "recover_arm" /\ engine[r].copy = c
       /\ engine'[r].pc = "idle" /\ engine'[r].gen = 0
       /\ caller'[r] = caller[r]

\* Arming the current revision brings the timer up to it, and arming an older
\* one takes nothing away.
LEMMA Arming ==
    ASSUME IInv, NEW r \in Runtimes, NEW c \in SchedRow, Armed(r, c),
           timer' = Upsert(c.rev, c.due),
           UNCHANGED <<sched, recurring, dep, owner, occ, faults, missed>>,
           \A q \in Runtimes : q # r => engine'[q] = engine[q] /\ caller'[q] = caller[q]
    PROVE  /\ timer' \in TimerRow
           /\ GenerationsOK' /\ EnginesOK' /\ OneShotDone'
           /\ OneClaim' /\ StaleIsArmed' /\ FiredForCause'
<1>1. TypeOK /\ GenerationsOK /\ EnginesOK /\ OneClaim /\ StaleIsArmed /\ FiredForCause
  BY DEF IInv
<1>2. /\ sched.rev \in Nat /\ timer.gen \in Nat /\ timer.gen <= sched.rev
      /\ c.rev \in Nat
      /\ \A q \in Runtimes :
            /\ engine[q].gen \in Nat /\ engine[q].gen <= timer.gen
            /\ engine[q].copy.rev \in Nat /\ caller[q].copy.rev \in Nat
  BY <1>1, Fields DEF GenerationsOK, EnginesOK, EngineOK, SchedRow
<1>3. /\ c.rev >= 1 /\ c.rev <= sched.rev
      /\ engine[r].pc = "arm" /\ engine'[r].pc = "complete" => engine[r].gen < c.rev
  BY <1>1, <1>2 DEF Armed, GenerationsOK, EnginesOK, EngineOK
<1>4. /\ timer' \in TimerRow /\ timer'.gen >= timer.gen /\ timer'.gen >= c.rev
      /\ timer'.gen <= sched.rev /\ timer'.gen >= 1 /\ timer'.status # "absent"
      /\ \/ timer' = timer
         \/ /\ timer'.status = "pending" /\ timer'.gen = c.rev
            /\ \/ timer.gen < c.rev
               \/ timer.gen = c.rev /\ timer.status = "cancelled"
  <2>1. Upsert(c.rev, c.due) = timer'
    OBVIOUS
  <2> QED  BY <1>3, <2>1, UpsertOK
<1>5. timer'.gen \in Nat
  BY <1>4 DEF TimerRow
<1>6. GenerationsOK'
  <2>1. \A q \in Runtimes : caller'[q].pc = "arm" =>
           caller'[q].copy.rev >= 1 /\ caller'[q].copy.rev <= sched'.rev
    BY <1>1 DEF GenerationsOK, Armed
  <2> QED  BY <1>1, <1>4, <1>5, <2>1 DEF GenerationsOK
<1>7. EnginesOK'
  <2> SUFFICES ASSUME NEW q \in Runtimes PROVE EngineOK(q)'
    BY DEF EnginesOK
  <2>1. EngineOK(q)
    BY <1>1 DEF EnginesOK
  <2>2. CASE engine'[q] = engine[q]
    BY <1>2, <1>4, <1>5, <2>1, <2>2 DEF EngineOK, Queued
  <2>3. CASE engine'[q] # engine[q]
    BY <1>2, <1>4, <1>5, <2>1, <2>3 DEF EngineOK, Armed, Active
  <2> QED  BY <2>2, <2>3
<1>8. OneShotDone'
  BY DEF IInv, OneShotDone
<1>9. \A q \in Runtimes :
         engine'[q].pc \in Active => engine[q].pc \in Active /\ engine'[q].gen = engine[q].gen
  BY DEF Armed, Active
<1>10. OneClaim'
  <2> SUFFICES ASSUME faults["overrun"] = 0
               PROVE  /\ \A q \in Runtimes :
                            engine'[q].pc \in Active /\ engine'[q].gen = timer'.gen
                                => timer'.status = "claimed" /\ timer'.holder = q
                      /\ timer'.status = "claimed" /\ ~ timer'.leased => ~ Attended'
    BY DEF OneClaim
  <2>1. /\ \A q \in Runtimes :
              engine[q].pc \in Active /\ engine[q].gen = timer.gen
                  => timer.status = "claimed" /\ timer.holder = q
        /\ timer.status = "claimed" /\ ~ timer.leased => ~ Attended
    BY <1>1 DEF OneClaim
  <2>2. CASE timer' = timer
    <3>1. Attended' => Attended
      BY <2>2 DEF Attended, Armed
    <3> QED  BY <1>9, <2>1, <2>2, <3>1
  <2>3. CASE timer' # timer
    <3>1. timer'.status = "pending" /\ timer'.gen = c.rev
          /\ (timer.gen < c.rev \/ (timer.gen = c.rev /\ timer.status = "cancelled"))
      BY <1>4, <2>3
    <3>2. \A q \in Runtimes :
             ~ (engine'[q].pc \in Active /\ engine'[q].gen = timer'.gen)
      BY <1>2, <1>9, <2>1, <3>1
    <3> QED  BY <3>1, <3>2
  <2> QED  BY <2>2, <2>3
<1>11. StaleIsArmed'
  <2>1. Behind' => Behind
    <3> SUFFICES ASSUME Behind' PROVE Behind
      OBVIOUS
    <3>1. Queued /\ timer.gen < sched.rev
      BY <1>2, <1>4, <1>5 DEF Behind, Queued
    <3>2. CASE timer'.status \in {"absent", "fired"}
      <4>1. timer' = timer
        BY <1>4, <3>2
      <4> QED  BY <3>1, <3>2, <4>1 DEF Behind
    <3>3. CASE timer'.status \notin {"absent", "fired"}
      <4>1. PICK q \in Runtimes :
               engine'[q].pc \in {"commit", "complete"} /\ engine'[q].gen = timer'.gen
        BY <3>3 DEF Behind
      <4>2. engine'[q] = engine[q]
        BY <1>3, <1>4, <1>2, <4>1 DEF Armed
      <4>3. engine[q].gen = timer.gen
        BY <1>2, <1>4, <1>5, <4>1, <4>2
      <4> QED  BY <3>1, <4>1, <4>2, <4>3 DEF Behind
    <3> QED  BY <3>2, <3>3
  <2>2. Behind' => c.rev # sched.rev
    BY <1>2, <1>4, <1>5 DEF Behind
  <2>3. c.rev # sched.rev /\ ReliableArmer => ReliableArmer'
    BY DEF ReliableArmer, Reliable, Recovering, Armed
  <2>4. c.rev # sched.rev /\ Armer => Armer'
    BY <2>3 DEF Armer, Armed
  <2> QED  BY <1>1, <2>1, <2>2, <2>3, <2>4 DEF StaleIsArmed
<1>12. FiredForCause'
  <2>1. Cause => Cause'
    BY DEF Cause, Waker, Recovering, Armed
  <2>2. Queued /\ timer'.status = "fired" /\ timer'.gen = sched.rev => Cause
    BY <1>1, <1>4 DEF FiredForCause
  <2>3. ASSUME NEW q \in Runtimes, Queued,
               engine'[q].pc = "complete", engine'[q].gen = sched.rev
        PROVE  Cause
    <3>1. engine'[q] = engine[q]
      BY <1>2, <1>3, <2>3 DEF Armed
    <3> QED  BY <1>1, <2>3, <3>1 DEF FiredForCause
  <2> QED  BY <2>1, <2>2, <2>3 DEF FiredForCause, Queued
<1> QED  BY <1>4, <1>6, <1>7, <1>8, <1>10, <1>11, <1>12

\* A control call arms the revision it made.
LEMMA ArmAfterStep ==
    ASSUME IInv, NEW r \in Runtimes, ArmAfter(r)
    PROVE  IInv'
<1> DEFINE c == caller[r].copy
<1>1. /\ caller[r].pc = "arm" /\ timer' = Upsert(c.rev, c.due)
      /\ caller' = [caller EXCEPT ![r] = IdleCaller]
      /\ UNCHANGED <<sched, recurring, dep, owner, occ, engine, faults, missed>>
  BY DEF ArmAfter, ArmWith
<1>2. TypeOK /\ c \in SchedRow
  BY Fields DEF IInv
<1>3. \A q \in Runtimes : caller'[q] = IF q = r THEN IdleCaller ELSE caller[q]
  BY <1>1, <1>2 DEF TypeOK
<1>4. caller' \in [Runtimes -> CallerRow]
  BY <1>1, <1>2, ConstantRows DEF TypeOK
<1>5. Armed(r, c)
  BY <1>1, <1>3, ConstantRows DEF Armed
<1> HIDE DEF c
<1>6. /\ timer' \in TimerRow
      /\ GenerationsOK' /\ EnginesOK' /\ OneShotDone'
      /\ OneClaim' /\ StaleIsArmed' /\ FiredForCause'
  BY <1>1, <1>2, <1>3, <1>5, Arming
<1>7. TypeOK'
  BY <1>1, <1>2, <1>4, <1>6 DEF TypeOK
<1> QED  BY <1>6, <1>7 DEF IInv

\* A dispatcher goes on with a row, and stays of its type.
LEMMA GoesOn ==
    ASSUME TypeOK, NEW r \in Runtimes, NEW pc, NEW copy \in SchedRow, Goes(r, pc, copy),
           pc \in {"idle", "claimed", "commit", "arm", "complete", "later", "recover",
                   "recover_cancel", "recover_queued", "recover_arm"}
    PROVE  /\ engine' \in [Runtimes -> EngineRow]
           /\ engine'[r].pc = pc /\ engine'[r].gen = engine[r].gen
           /\ engine'[r].copy = copy
           /\ \A q \in Runtimes : q # r => engine'[q] = engine[q]
<1>1. engine \in [Runtimes -> EngineRow] /\ engine[r].gen \in Nat
  BY Fields DEF TypeOK
<1> DEFINE row == [pc |-> pc, gen |-> engine[r].gen, copy |-> copy]
<1>2. row \in EngineRow
  BY <1>1 DEF EngineRow
<1>3. engine' = [engine EXCEPT ![r] = row]
  BY DEF Goes
<1> QED  BY <1>1, <1>2, <1>3

\* A dispatcher rests.
LEMMA Rests ==
    ASSUME TypeOK, NEW r \in Runtimes, engine' = [engine EXCEPT ![r] = IdleEngine]
    PROVE  /\ engine' \in [Runtimes -> EngineRow]
           /\ engine'[r].pc = "idle" /\ engine'[r].gen = 0
           /\ \A q \in Runtimes : q # r => engine'[q] = engine[q]
BY ConstantRows DEF TypeOK

\* A dispatch arms the next occurrence, or the revision it found.
LEMMA ArmNextStep ==
    ASSUME IInv, NEW r \in Runtimes, ArmNext(r)
    PROVE  IInv'
<1> DEFINE c == engine[r].copy
<1>1. /\ engine[r].pc = "arm" /\ timer' = Upsert(c.rev, c.due)
      /\ Goes(r, "complete", NoSched)
      /\ UNCHANGED <<sched, recurring, dep, owner, occ, caller, faults, missed>>
  BY DEF ArmNext, ArmWith
<1>2. TypeOK /\ c \in SchedRow
  BY Fields DEF IInv
<1>3. /\ engine' \in [Runtimes -> EngineRow]
      /\ engine'[r].pc = "complete" /\ engine'[r].gen = engine[r].gen
      /\ \A q \in Runtimes : q # r => engine'[q] = engine[q]
  BY <1>1, <1>2, ConstantRows, GoesOn
<1>4. Armed(r, c)
  BY <1>1, <1>3 DEF Armed
<1> HIDE DEF c
<1>5. /\ timer' \in TimerRow
      /\ GenerationsOK' /\ EnginesOK' /\ OneShotDone'
      /\ OneClaim' /\ StaleIsArmed' /\ FiredForCause'
  BY <1>1, <1>2, <1>3, <1>4, Arming
<1>6. TypeOK'
  BY <1>1, <1>2, <1>3, <1>5 DEF TypeOK
<1> QED  BY <1>5, <1>6 DEF IInv

\* Recovery arms what it found queued.
LEMMA RecoverArmStep ==
    ASSUME IInv, NEW r \in Runtimes, RecoverArm(r)
    PROVE  IInv'
<1> DEFINE c == engine[r].copy
<1>1. /\ engine[r].pc = "recover_arm" /\ timer' = Upsert(c.rev, c.due)
      /\ engine' = [engine EXCEPT ![r] = IdleEngine]
      /\ UNCHANGED <<sched, recurring, dep, owner, occ, caller, faults, missed>>
  BY DEF RecoverArm, ArmWith
<1>2. TypeOK /\ c \in SchedRow
  BY Fields DEF IInv
<1>3. /\ engine' \in [Runtimes -> EngineRow]
      /\ engine'[r].pc = "idle" /\ engine'[r].gen = 0
      /\ \A q \in Runtimes : q # r => engine'[q] = engine[q]
  BY <1>1, <1>2, Rests
<1>4. Armed(r, c)
  BY <1>1, <1>3 DEF Armed
<1> HIDE DEF c
<1>5. /\ timer' \in TimerRow
      /\ GenerationsOK' /\ EnginesOK' /\ OneShotDone'
      /\ OneClaim' /\ StaleIsArmed' /\ FiredForCause'
  BY <1>1, <1>2, <1>3, <1>4, Arming
<1>6. TypeOK'
  BY <1>1, <1>2, <1>3, <1>5 DEF TypeOK
<1> QED  BY <1>5, <1>6 DEF IInv

-----------------------------------------------------------------------------
(* The timer is cancelled, claimed and released. *)

\* Cancelling a timer, or leaving it, moves no one who is to arm it.
LEMMA Cancelling ==
    ASSUME IInv, timer' \in {timer, CancelledTimer},
           UNCHANGED <<sched, recurring, dep, owner, occ, faults, missed>>,
           \A q \in Runtimes :
              /\ \/ engine'[q] = engine[q]
                 \/ /\ Recovering(q) /\ engine'[q].gen = engine[q].gen
                    /\ engine'[q].pc \in {"recover", "recover_cancel", "recover_queued"}
              /\ \/ caller'[q] = caller[q]
                 \/ caller[q].pc \notin {"arm", "wake"} /\ caller'[q].pc = "idle"
    PROVE  /\ timer' \in TimerRow
           /\ GenerationsOK' /\ EnginesOK' /\ OneShotDone'
           /\ OneClaim' /\ StaleIsArmed' /\ FiredForCause'
<1>1. TypeOK /\ GenerationsOK /\ EnginesOK /\ OneClaim /\ StaleIsArmed /\ FiredForCause
      /\ timer \in TimerRow
  BY DEF IInv, TypeOK
<1>2. /\ timer' \in TimerRow /\ timer'.gen = timer.gen /\ timer'.holder = timer.holder
      /\ timer'.leased = timer.leased
      /\ \/ timer'.status = timer.status
         \/ timer.status = "pending" /\ timer'.status = "cancelled"
  BY <1>1 DEF CancelledTimer, TimerRow
<1>3. GenerationsOK'
  BY <1>1, <1>2 DEF GenerationsOK
<1>4. EnginesOK'
  <2> SUFFICES ASSUME NEW q \in Runtimes PROVE EngineOK(q)'
    BY DEF EnginesOK
  <2>1. EngineOK(q)
    BY <1>1 DEF EnginesOK
  <2>2. CASE engine'[q] = engine[q]
    BY <1>2, <2>1, <2>2 DEF EngineOK, Queued
  <2>3. CASE engine'[q] # engine[q]
    BY <1>2, <2>1, <2>3 DEF EngineOK, Active, Recovering
  <2> QED  BY <2>2, <2>3
<1>5. OneShotDone'
  BY DEF IInv, OneShotDone
<1>6. \A q \in Runtimes :
         engine'[q].pc \in Active \/ engine'[q].pc \in {"commit", "complete"}
            => engine'[q] = engine[q]
  BY DEF Active
<1>7. OneClaim'
  <2>1. Attended' => Attended
    BY <1>2 DEF Attended, Recovering
  <2> QED  BY <1>1, <1>2, <1>6, <2>1 DEF OneClaim
<1>8. StaleIsArmed'
  <2>1. Behind' => Behind
    BY <1>2, <1>6 DEF Behind, Queued
  <2>2. ReliableArmer => ReliableArmer'
    BY DEF ReliableArmer, Reliable, Recovering
  <2>3. Armer => Armer'
    BY <2>2 DEF Armer, Recovering
  <2> QED  BY <1>1, <2>1, <2>2, <2>3 DEF StaleIsArmed
<1>9. FiredForCause'
  <2>1. Cause => Cause'
    BY DEF Cause, Waker, Recovering
  <2> QED  BY <1>1, <1>2, <1>6, <2>1 DEF FiredForCause, Queued
<1> QED  BY <1>2, <1>3, <1>4, <1>5, <1>7, <1>8, <1>9

\* A pause or a cancel takes the timer back.
LEMMA CancelAfterStep ==
    ASSUME IInv, NEW r \in Runtimes, CancelAfter(r)
    PROVE  IInv'
<1>1. /\ caller[r].pc = "cancel" /\ timer' = CancelledTimer
      /\ caller' = [caller EXCEPT ![r] = IdleCaller]
      /\ UNCHANGED <<sched, recurring, dep, owner, occ, engine, faults, missed>>
  BY DEF CancelAfter
<1>2. TypeOK
  BY DEF IInv
<1>3. \A q \in Runtimes : caller'[q] = IF q = r THEN IdleCaller ELSE caller[q]
  BY <1>1, <1>2 DEF TypeOK
<1>4. caller' \in [Runtimes -> CallerRow]
  BY <1>1, <1>2, ConstantRows DEF TypeOK
<1>5. /\ timer' \in TimerRow
      /\ GenerationsOK' /\ EnginesOK' /\ OneShotDone'
      /\ OneClaim' /\ StaleIsArmed' /\ FiredForCause'
  BY <1>1, <1>3, ConstantRows, Cancelling
<1>6. TypeOK'
  BY <1>1, <1>2, <1>4, <1>5 DEF TypeOK
<1> QED  BY <1>5, <1>6 DEF IInv

\* Recovery looks at the timer, and cancels it if its owner is not queued.
LEMMA RecoverTimersStep ==
    ASSUME IInv, NEW r \in Runtimes, RecoverTimers(r) \/ RecoverCancel(r)
    PROVE  IInv'
<1>1. TypeOK
  BY DEF IInv
<1>2. /\ Recovering(r) /\ timer' \in {timer, CancelledTimer}
      /\ UNCHANGED <<sched, recurring, dep, owner, occ, caller, faults, missed>>
      /\ \E pc \in {"recover_cancel", "recover_queued"} : Goes(r, pc, NoSched)
  BY DEF RecoverTimers, RecoverCancel, Recovering
<1>3. PICK pc \in {"recover_cancel", "recover_queued"} : Goes(r, pc, NoSched)
  BY <1>2
<1>4. /\ engine' \in [Runtimes -> EngineRow]
      /\ engine'[r].pc = pc /\ engine'[r].gen = engine[r].gen
      /\ \A q \in Runtimes : q # r => engine'[q] = engine[q]
  BY <1>1, <1>3, ConstantRows, GoesOn
<1>5. /\ timer' \in TimerRow
      /\ GenerationsOK' /\ EnginesOK' /\ OneShotDone'
      /\ OneClaim' /\ StaleIsArmed' /\ FiredForCause'
  BY <1>2, <1>4, Cancelling
<1>6. TypeOK'
  BY <1>1, <1>2, <1>4, <1>5 DEF TypeOK
<1> QED  BY <1>5, <1>6 DEF IInv

\* A dispatcher claims a due timer: one that is pending, or one whose claim has
\* run out.
LEMMA ClaimStep ==
    ASSUME IInv, NEW r \in Runtimes, Claim(r)
    PROVE  IInv'
<1> DEFINE row == [pc |-> "claimed", gen |-> timer.gen, copy |-> NoSched]
<1>1. /\ engine[r].pc = "idle" /\ Due
      /\ timer' = [timer EXCEPT !.status = "claimed", !.holder = r, !.leased = TRUE]
      /\ engine' = [engine EXCEPT ![r] = row]
      /\ UNCHANGED <<sched, recurring, dep, owner, occ, caller, faults, missed>>
  BY DEF Claim
<1>2. TypeOK /\ GenerationsOK /\ EnginesOK /\ OneClaim /\ StaleIsArmed /\ FiredForCause
      /\ timer \in TimerRow /\ engine \in [Runtimes -> EngineRow]
  BY DEF IInv, TypeOK
<1>3. /\ timer' \in TimerRow /\ timer'.status = "claimed" /\ timer'.holder = r
      /\ timer'.leased = TRUE /\ timer'.gen = timer.gen
  BY <1>1, <1>2 DEF TimerRow
<1>4. row \in EngineRow
  BY <1>2, ConstantRows DEF EngineRow, TimerRow
<1>5. \A q \in Runtimes : engine'[q] = IF q = r THEN row ELSE engine[q]
  BY <1>1, <1>2
<1>6. TypeOK'
  <2>1. engine' \in [Runtimes -> EngineRow]
    BY <1>1, <1>2, <1>4
  <2> QED  BY <1>1, <1>2, <1>3, <2>1 DEF TypeOK
<1>7. GenerationsOK' /\ OneShotDone'
  BY <1>1, <1>2, <1>3 DEF IInv, GenerationsOK, OneShotDone, Due
<1>8. EnginesOK'
  <2> SUFFICES ASSUME NEW q \in Runtimes PROVE EngineOK(q)'
    BY DEF EnginesOK
  <2>1. EngineOK(q) /\ timer.gen \in Nat
    BY <1>2, Fields DEF EnginesOK
  <2>2. CASE q = r
    BY <1>3, <1>5, <2>1, <2>2 DEF EngineOK, Active
  <2>3. CASE q # r
    BY <1>1, <1>3, <1>5, <2>1, <2>3 DEF EngineOK, Queued
  <2> QED  BY <2>2, <2>3
<1>9. OneClaim'
  <2> SUFFICES ASSUME faults["overrun"] = 0, NEW q \in Runtimes,
                      engine'[q].pc \in Active, engine'[q].gen = timer'.gen
               PROVE  q = r
    BY <1>1, <1>3 DEF OneClaim
  <2> SUFFICES ASSUME q # r PROVE FALSE
    OBVIOUS
  <2>1. engine[q].pc \in Active /\ engine[q].gen = timer.gen
    BY <1>3, <1>5
  <2>2. /\ timer.status = "claimed" /\ timer.holder = q
        /\ ~ timer.leased => ~ Attended
    BY <1>2, <2>1 DEF OneClaim
  <2>3. ~ timer.leased
    BY <1>1, <2>2 DEF Due
  <2> QED  BY <2>1, <2>2, <2>3 DEF Attended, Active
<1>10. StaleIsArmed'
  <2>1. Behind' => Behind
    BY <1>1, <1>3, <1>5 DEF Behind, Queued
  <2>2. ReliableArmer => ReliableArmer'
    BY <1>1, <1>5 DEF ReliableArmer, Reliable, Recovering
  <2>3. Armer => Armer'
    BY <1>1, <1>5, <2>2 DEF Armer
  <2> QED  BY <1>1, <1>2, <2>1, <2>2, <2>3 DEF StaleIsArmed
<1>11. FiredForCause'
  <2>1. Cause => Cause'
    BY <1>1, <1>5 DEF Cause, Waker, Recovering
  <2> QED  BY <1>1, <1>2, <1>3, <1>5, <2>1 DEF FiredForCause, Queued
<1> QED  BY <1>6, <1>7, <1>8, <1>9, <1>10, <1>11 DEF IInv

\* A released timer.
LEMMA ReleasedRow ==
    ASSUME TypeOK, NEW status \in {"fired", "pending"}
    PROVE  /\ Released(status) \in TimerRow /\ Released(status).status = status
           /\ Released(status).gen = timer.gen
<1>1. timer \in TimerRow
  BY DEF TypeOK
<1> QED  BY <1>1 DEF Released, TimerRow

\* A dispatcher is done with the timer: it has released it, or, when the claim
\* is not its own any more or cannot be reached, has left it.
LEMMA Releasing ==
    ASSUME IInv, NEW r \in Runtimes, engine[r].pc \in Active,
           engine' = [engine EXCEPT ![r] = IdleEngine],
           UNCHANGED <<sched, recurring, dep, owner, occ, caller, missed>>,
           faults' \in [FaultKinds -> Nat], faults'["overrun"] = faults["overrun"],
           faults'["failure"] = 0 => faults["failure"] = 0 /\ engine[r].pc # "arm",
           \/ timer' = timer
           \/ /\ Holds(r)
              /\ \/ timer' = Released("pending")
                 \/ engine[r].pc = "complete" /\ timer' = Released("fired")
    PROVE  IInv'
<1>1. TypeOK /\ GenerationsOK /\ EnginesOK /\ OneClaim /\ StaleIsArmed /\ FiredForCause
  BY DEF IInv
<1>2. /\ engine' \in [Runtimes -> EngineRow]
      /\ engine'[r].pc = "idle" /\ engine'[r].gen = 0
      /\ \A q \in Runtimes : q # r => engine'[q] = engine[q]
  BY <1>1, Rests
<1>3. timer \in TimerRow /\ timer.gen \in Nat
  BY <1>1, Fields DEF TypeOK
<1>4. /\ timer' \in TimerRow /\ timer'.gen = timer.gen
      /\ \/ timer' = timer
         \/ /\ Holds(r) /\ timer'.status \in {"pending", "fired"}
            /\ timer'.status = "fired" => engine[r].pc = "complete"
  BY <1>1, <1>3, ReleasedRow
<1>5. TypeOK'
  BY <1>1, <1>2, <1>4 DEF TypeOK
<1>6. GenerationsOK' /\ OneShotDone'
  BY <1>1, <1>4 DEF IInv, GenerationsOK, OneShotDone, Holds
<1>7. EnginesOK'
  <2> SUFFICES ASSUME NEW q \in Runtimes PROVE EngineOK(q)'
    BY DEF EnginesOK
  <2>1. EngineOK(q)
    BY <1>1 DEF EnginesOK
  <2>2. CASE q = r
    BY <1>2, <1>3, <1>4, <2>2 DEF EngineOK
  <2>3. CASE q # r
    BY <1>2, <1>4, <2>1, <2>3 DEF EngineOK, Queued
  <2> QED  BY <2>2, <2>3
<1>8. OneClaim'
  <2> SUFFICES ASSUME faults["overrun"] = 0
               PROVE  /\ \A q \in Runtimes :
                            engine'[q].pc \in Active /\ engine'[q].gen = timer'.gen
                                => timer'.status = "claimed" /\ timer'.holder = q
                      /\ timer'.status = "claimed" /\ ~ timer'.leased => ~ Attended'
    BY DEF OneClaim
  <2>1. /\ \A q \in Runtimes :
              engine[q].pc \in Active /\ engine[q].gen = timer.gen
                  => timer.status = "claimed" /\ timer.holder = q
        /\ timer.status = "claimed" /\ ~ timer.leased => ~ Attended
    BY <1>1 DEF OneClaim
  <2>2. \A q \in Runtimes : engine'[q].pc \in Active => q # r
    BY <1>2 DEF Active
  <2>3. CASE timer' = timer
    <3>1. Attended' => Attended
      BY <1>2, <2>3 DEF Attended
    <3> QED  BY <1>2, <2>1, <2>2, <2>3, <3>1
  <2>4. CASE timer' # timer
    <3>1. timer.holder = r /\ timer'.status # "claimed"
      BY <1>4, <2>4 DEF Holds
    <3> QED  BY <1>2, <1>4, <2>1, <2>2, <3>1
  <2> QED  BY <2>3, <2>4
<1>9. StaleIsArmed'
  <2>1. Behind' => Behind
    <3> SUFFICES ASSUME Behind' PROVE Behind
      OBVIOUS
    <3>1. Queued /\ timer.gen < sched.rev
      BY <1>4 DEF Behind, Queued
    <3>2. CASE timer'.status \in {"absent", "fired"} /\ timer' # timer
      BY <1>4, <3>1, <3>2 DEF Behind, Holds
    <3>3. CASE timer'.status \in {"absent", "fired"} /\ timer' = timer
      BY <3>1, <3>3 DEF Behind
    <3>4. CASE timer'.status \notin {"absent", "fired"}
      <4>1. PICK q \in Runtimes :
               engine'[q].pc \in {"commit", "complete"} /\ engine'[q].gen = timer'.gen
        BY <3>4 DEF Behind
      <4>2. engine'[q] = engine[q]
        BY <1>2, <4>1
      <4> QED  BY <1>4, <3>1, <4>1, <4>2 DEF Behind
    <3> QED  BY <3>2, <3>3, <3>4
  <2>2. ReliableArmer => ReliableArmer'
    BY <1>2 DEF ReliableArmer, Reliable, Recovering, Active
  <2>3. engine[r].pc # "arm" /\ Armer => Armer'
    BY <1>2, <2>2 DEF Armer
  <2> QED  BY <1>1, <2>1, <2>2, <2>3 DEF StaleIsArmed
<1>10. FiredForCause'
  <2>1. Cause => Cause'
    BY <1>2 DEF Cause, Waker, Recovering, Active
  <2>2. Queued /\ timer'.status = "fired" /\ timer'.gen = sched.rev => Cause
    BY <1>1, <1>4 DEF FiredForCause, Holds
  <2>3. \A q \in Runtimes : Queued /\ engine'[q].pc = "complete"
                            /\ engine'[q].gen = sched.rev => Cause
    BY <1>1, <1>2 DEF FiredForCause
  <2> QED  BY <2>1, <2>2, <2>3 DEF FiredForCause, Queued
<1> QED  BY <1>5, <1>6, <1>7, <1>8, <1>9, <1>10 DEF IInv

\* The answers of a dispatch, and its failure.
LEMMA ReleaseStep ==
    ASSUME IInv, NEW r \in Runtimes, Complete(r) \/ Later(r) \/ HandlerFails(r)
    PROVE  IInv'
<1>1. TypeOK /\ faults \in [FaultKinds -> Nat] /\ faults["failure"] \in Nat
  BY Fields DEF IInv, TypeOK
<1>2. CASE Complete(r)
  BY <1>1, <1>2, Releasing DEF Complete, Active
<1>3. CASE Later(r)
  BY <1>1, <1>3, Releasing DEF Later, Active
<1>4. CASE HandlerFails(r)
  <2>1. /\ engine[r].pc \in Active /\ Fault("failure")
        /\ engine' = [engine EXCEPT ![r] = IdleEngine]
        /\ UNCHANGED <<sched, recurring, dep, owner, occ, caller, missed>>
        /\ timer' = timer \/ (Holds(r) /\ timer' = Released("pending"))
    BY <1>4 DEF HandlerFails, Active
  <2>2. /\ faults' \in [FaultKinds -> Nat]
        /\ faults'["failure"] = faults["failure"] + 1
        /\ faults'["overrun"] = faults["overrun"]
    BY <1>1, <2>1, FaultCounted DEF FaultKinds
  <2>3. faults'["failure"] # 0
    BY <1>1, <2>2
  <2> QED  BY <2>1, <2>2, <2>3, Releasing
<1> QED  BY <1>2, <1>3, <1>4

-----------------------------------------------------------------------------
(* The dispatch. *)

\* A dispatcher reads the row and decides; a clock that was set back may make
\* it wait.
LEMMA ReadStep ==
    ASSUME IInv, NEW r \in Runtimes, Read(r) \/ ReadEarly(r)
    PROVE  IInv'
<1>1. TypeOK /\ GenerationsOK /\ EnginesOK /\ OneClaim /\ StaleIsArmed /\ FiredForCause
      /\ sched \in SchedRow /\ EngineOK(r)
  BY DEF IInv, TypeOK, EnginesOK
<1>2. /\ engine[r].pc = "claimed"
      /\ UNCHANGED <<sched, recurring, dep, owner, timer, occ, caller, missed>>
  BY DEF Read, ReadEarly
<1>3. /\ faults' \in [FaultKinds -> Nat]
      /\ faults'["failure"] = faults["failure"]
      /\ faults'["overrun"] = faults["overrun"]
  <2>1. CASE Read(r)
    BY <1>1, <2>1 DEF Read, TypeOK
  <2>2. CASE ReadEarly(r)
    BY <1>1, <2>2, FaultCounted DEF ReadEarly, FaultKinds
  <2> QED  BY <2>1, <2>2
<1>4. Decision(r) \in {"arm", "complete", "later", "commit"}
  BY DEF Decision
<1>5. \E pc \in {"arm", "complete", "later", "commit"}, copy \in {sched, NoSched} :
         /\ Goes(r, pc, copy)
         /\ pc = "later" \/ pc = Decision(r)
         /\ pc \in {"commit", "arm"} => copy = sched
  <2>1. CASE Read(r)
    BY <1>4, <2>1 DEF Read
  <2>2. CASE ReadEarly(r)
    BY <2>2 DEF ReadEarly
  <2> QED  BY <2>1, <2>2
<1>6. PICK pc \in {"arm", "complete", "later", "commit"}, copy \in {sched, NoSched} :
         /\ Goes(r, pc, copy)
         /\ pc = "later" \/ pc = Decision(r)
         /\ pc \in {"commit", "arm"} => copy = sched
  BY <1>5
<1>7. /\ engine' \in [Runtimes -> EngineRow]
      /\ engine'[r].pc = pc /\ engine'[r].gen = engine[r].gen
      /\ engine'[r].copy = copy
      /\ \A q \in Runtimes : q # r => engine'[q] = engine[q]
  BY <1>1, <1>6, ConstantRows, GoesOn
<1>8. /\ sched.rev \in Nat /\ timer.gen \in Nat /\ engine[r].gen \in Nat
      /\ engine[r].gen <= timer.gen /\ timer.gen <= sched.rev
  BY <1>1, Fields DEF EngineOK, GenerationsOK
<1>9. /\ pc = "commit" => /\ Queued /\ sched.rev = engine[r].gen
                          /\ sched.due /\ dep # "open"
      /\ pc = "arm" => Queued /\ sched.rev # engine[r].gen
      /\ pc = "complete" /\ Queued =>
           /\ sched.rev = engine[r].gen
           /\ dep = "open" \/ (~ recurring /\ owner = "terminal")
  BY <1>6 DEF Decision, Queued
<1>10. TypeOK'
  BY <1>1, <1>2, <1>3, <1>7 DEF TypeOK
<1>11. GenerationsOK' /\ OneShotDone'
  BY <1>1, <1>2 DEF IInv, GenerationsOK, OneShotDone
<1>12. EnginesOK'
  <2> SUFFICES ASSUME NEW q \in Runtimes PROVE EngineOK(q)'
    BY DEF EnginesOK
  <2>1. EngineOK(q)
    BY <1>1 DEF EnginesOK
  <2>2. CASE q = r
    BY <1>2, <1>6, <1>7, <1>8, <1>9, <2>2 DEF EngineOK, Queued, Active
  <2>3. CASE q # r
    BY <1>2, <1>7, <2>1, <2>3 DEF EngineOK, Queued
  <2> QED  BY <2>2, <2>3
<1>13. OneClaim'
  <2>1. Attended' => Attended
    BY <1>2, <1>7 DEF Attended
  <2>2. \A q \in Runtimes : engine'[q].pc \in Active =>
           engine[q].pc \in Active /\ engine'[q].gen = engine[q].gen
    BY <1>2, <1>7 DEF Active
  <2> QED  BY <1>1, <1>2, <1>3, <2>1, <2>2 DEF OneClaim
<1>14. StaleIsArmed'
  <2>1. Behind' => Behind
    BY <1>2, <1>7, <1>8, <1>9 DEF Behind, Queued
  <2>2. ReliableArmer => ReliableArmer'
    BY <1>2, <1>7 DEF ReliableArmer, Reliable, Recovering
  <2>3. Armer => Armer'
    BY <1>2, <1>7, <2>2 DEF Armer
  <2> QED  BY <1>1, <1>3, <2>1, <2>2, <2>3 DEF StaleIsArmed
<1>15. FiredForCause'
  <2>1. Cause => Cause'
    BY <1>2, <1>7 DEF Cause, Waker, Recovering
  <2>2. pc = "complete" /\ Queued => Cause
    BY <1>9 DEF Cause
  <2> QED  BY <1>1, <1>2, <1>7, <2>1, <2>2 DEF FiredForCause, Queued
<1> QED  BY <1>10, <1>11, <1>12, <1>13, <1>14, <1>15 DEF IInv

\* The occurrence is taken at the revision that was read, which is the timer's.
LEMMA TakenCurrent ==
    ASSUME IInv, NEW r \in Runtimes, engine[r].pc = "commit", Fenced(r)
    PROVE  /\ Queued /\ engine[r].copy.rev = sched.rev
           /\ engine[r].gen = sched.rev /\ timer.gen = sched.rev
           /\ sched.due /\ dep # "open"
<1>1. EngineOK(r) /\ GenerationsOK /\ TypeOK
  BY DEF IInv, EnginesOK
<1>2. sched.rev \in Nat /\ timer.gen \in Nat /\ engine[r].gen \in Nat
  BY <1>1, Fields
<1> QED  BY <1>1, <1>2 DEF EngineOK, GenerationsOK, Fenced, Queued

\* commit_scheduled_dispatch takes the occurrence.
LEMMA CommitFencedStep ==
    ASSUME IInv, NEW r \in Runtimes, Commit(r), Fenced(r)
    PROVE  IInv'
<1>1. TypeOK /\ GenerationsOK /\ EnginesOK /\ OneShotDone /\ OneClaim
  BY DEF IInv
<1>2. /\ engine[r].pc = "commit" /\ occ' = occ \cup {engine[r].copy.rev}
      /\ sched' = Bumped(IF recurring THEN "queued" ELSE "dispatched", FALSE)
      /\ IF recurring THEN Goes(r, "arm", sched') ELSE Goes(r, "complete", NoSched)
      /\ UNCHANGED <<recurring, dep, owner, timer, caller, faults, missed>>
  BY DEF Commit
<1>3. /\ Queued /\ engine[r].copy.rev = sched.rev
      /\ engine[r].gen = sched.rev /\ timer.gen = sched.rev
  BY <1>2, TakenCurrent
<1>4. /\ sched' \in SchedRow /\ sched'.rev = sched.rev + 1
      /\ sched'.status = IF recurring THEN "queued" ELSE "dispatched"
  BY <1>1, <1>2, BumpedRow
<1>5. /\ engine' \in [Runtimes -> EngineRow] /\ engine'[r].gen = engine[r].gen
      /\ engine'[r].pc = IF recurring THEN "arm" ELSE "complete"
      /\ recurring => engine'[r].copy = sched'
      /\ \A q \in Runtimes : q # r => engine'[q] = engine[q]
  <2>1. CASE recurring
    BY <1>1, <1>2, <1>4, <2>1, GoesOn
  <2>2. CASE ~ recurring
    BY <1>1, <1>2, <2>2, ConstantRows, GoesOn
  <2> QED  BY <2>1, <2>2
<1>6. /\ sched.rev \in Nat
      /\ \A q \in Runtimes :
            /\ engine[q].gen \in Nat /\ engine[q].gen <= timer.gen
            /\ engine[q].copy.rev \in Nat /\ caller[q].copy.rev \in Nat
  BY <1>1, Fields DEF EnginesOK, EngineOK
<1>0. /\ timer' = timer /\ caller' = caller /\ dep' = dep
      /\ sched'.rev \in Nat /\ sched.rev < sched'.rev /\ sched'.rev >= 1
      /\ timer.gen < sched'.rev
  <2>1. sched'.rev = sched.rev + 1 /\ timer.gen = sched.rev /\ sched.rev \in Nat
    BY <1>3, <1>4, <1>6
  <2>2. timer' = timer /\ caller' = caller /\ dep' = dep
    BY <1>2
  <2> QED  BY <2>1, <2>2
<1>7. TypeOK'
  <2>1. occ' \subseteq Nat
    BY <1>1, <1>2, <1>6 DEF TypeOK
  <2> QED  BY <1>1, <1>2, <1>4, <1>5, <2>1 DEF TypeOK
<1>8. GenerationsOK'
  <2>1. \A q \in Runtimes : caller[q].pc = "arm" =>
           caller[q].copy.rev >= 1 /\ caller[q].copy.rev <= sched'.rev
    BY <1>0, <1>1, <1>6 DEF GenerationsOK
  <2>2. timer.gen \in Nat /\ (timer.gen = 0 <=> timer.status = "absent")
    BY <1>1, Fields DEF GenerationsOK
  <2> QED  BY <1>0, <2>1, <2>2 DEF GenerationsOK
<1>9. EnginesOK'
  <2> SUFFICES ASSUME NEW q \in Runtimes PROVE EngineOK(q)'
    BY DEF EnginesOK
  <2>1. EngineOK(q)
    BY <1>1 DEF EnginesOK
  <2>2. CASE q = r
    <3>1. /\ engine'[q].gen = sched.rev /\ timer'.gen = sched.rev
          /\ engine'[q].pc \in {"arm", "complete"}
          /\ engine'[q].pc = "arm" => engine'[q].copy = sched'
      BY <1>0, <1>3, <1>5, <2>2
    <3> QED  BY <1>0, <1>6, <3>1 DEF EngineOK, Active
  <2>3. CASE q # r
    <3>1. engine'[q] = engine[q]
      BY <1>5, <2>3
    <3>2. sched'.rev # engine[q].gen
      BY <1>0, <1>3, <1>6
    <3>3. engine[q].copy.rev <= sched.rev => engine[q].copy.rev <= sched'.rev
      BY <1>0, <1>6
    <3> QED  BY <1>0, <2>1, <3>1, <3>2, <3>3 DEF EngineOK
  <2> QED  BY <2>2, <2>3
<1>10. OneShotDone'
  <2> SUFFICES ASSUME ~ recurring
               PROVE  sched'.status = "dispatched" /\ \E n \in occ' : occ' = {n}
    BY <1>2 DEF OneShotDone
  <2>1. occ = {}
    BY <1>1, <1>3 DEF OneShotDone, Queued
  <2> QED  BY <1>2, <1>4, <2>1
<1>11. OneClaim'
  <2>1. Attended' => Attended
    BY <1>2, <1>5 DEF Attended
  <2>2. \A q \in Runtimes : engine'[q].pc \in Active =>
           engine[q].pc \in Active /\ engine'[q].gen = engine[q].gen
    BY <1>2, <1>5 DEF Active
  <2> QED  BY <1>1, <1>2, <2>1, <2>2 DEF OneClaim
<1>12. StaleIsArmed'
  <2>1. recurring => Armer'
    BY <1>5 DEF Armer
  <2>2. Behind' => recurring
    BY <1>4 DEF Behind, Queued
  <2>3. faults["overrun"] = 0 => ~ Behind'
    <3> SUFFICES ASSUME faults["overrun"] = 0, Behind' PROVE FALSE
      OBVIOUS
    <3>1. timer.status = "claimed" /\ timer.holder = r
      BY <1>1, <1>2, <1>3 DEF OneClaim, Active
    <3>2. PICK q \in Runtimes :
             engine'[q].pc \in {"commit", "complete"} /\ engine'[q].gen = timer'.gen
      BY <1>2, <3>1 DEF Behind
    <3>3. q # r
      BY <1>5, <2>2, <3>2
    <3>4. engine[q].pc \in Active /\ engine[q].gen = timer.gen
      BY <1>2, <1>5, <3>2, <3>3 DEF Active
    <3> QED  BY <1>1, <3>1, <3>3, <3>4 DEF OneClaim
  <2> QED  BY <1>2, <2>1, <2>2, <2>3 DEF StaleIsArmed
<1>13. FiredForCause'
  <2>1. timer'.gen # sched'.rev /\ \A q \in Runtimes : engine'[q].gen # sched'.rev
    <3>1. \A q \in Runtimes : engine'[q].gen = engine[q].gen
      BY <1>5
    <3> QED  BY <1>0, <1>3, <1>6, <3>1
  <2> QED  BY <2>1 DEF FiredForCause
<1> QED  BY <1>7, <1>8, <1>9, <1>10, <1>11, <1>12, <1>13 DEF IInv

\* The row has moved since it was read, and the dispatch takes nothing.
LEMMA CommitOverStep ==
    ASSUME IInv, NEW r \in Runtimes, Commit(r), ~ Fenced(r)
    PROVE  IInv'
<1>1. TypeOK /\ GenerationsOK /\ EnginesOK /\ OneClaim /\ StaleIsArmed /\ FiredForCause
      /\ EngineOK(r)
  BY DEF IInv, EnginesOK
<1>2. /\ engine[r].pc = "commit" /\ Goes(r, "complete", NoSched)
      /\ UNCHANGED <<sched, recurring, dep, owner, timer, occ, caller, faults, missed>>
  BY DEF Commit
<1>3. /\ engine' \in [Runtimes -> EngineRow]
      /\ engine'[r].pc = "complete" /\ engine'[r].gen = engine[r].gen
      /\ \A q \in Runtimes : q # r => engine'[q] = engine[q]
  BY <1>1, <1>2, ConstantRows, GoesOn
<1>4. ~ (Queued /\ engine[r].gen = sched.rev)
  BY <1>1, <1>2 DEF EngineOK, Fenced, Queued
<1>5. TypeOK'
  BY <1>1, <1>2, <1>3 DEF TypeOK
<1>6. GenerationsOK' /\ OneShotDone'
  BY <1>1, <1>2 DEF IInv, GenerationsOK, OneShotDone
<1>7. EnginesOK'
  <2> SUFFICES ASSUME NEW q \in Runtimes PROVE EngineOK(q)'
    BY DEF EnginesOK
  <2>1. EngineOK(q)
    BY <1>1 DEF EnginesOK
  <2>2. CASE q = r
    BY <1>2, <1>3, <2>1, <2>2 DEF EngineOK, Active
  <2>3. CASE q # r
    BY <1>2, <1>3, <2>1, <2>3 DEF EngineOK, Queued
  <2> QED  BY <2>2, <2>3
<1>8. OneClaim'
  <2>1. Attended' => Attended
    BY <1>2, <1>3 DEF Attended
  <2>2. \A q \in Runtimes : engine'[q].pc \in Active =>
           engine[q].pc \in Active /\ engine'[q].gen = engine[q].gen
    BY <1>2, <1>3 DEF Active
  <2> QED  BY <1>1, <1>2, <2>1, <2>2 DEF OneClaim
<1>9. StaleIsArmed'
  <2>1. Behind' => Behind
    BY <1>2, <1>3 DEF Behind, Queued
  <2>2. ReliableArmer => ReliableArmer'
    BY <1>2, <1>3 DEF ReliableArmer, Reliable, Recovering
  <2>3. Armer => Armer'
    BY <1>2, <1>3, <2>2 DEF Armer
  <2> QED  BY <1>1, <1>2, <2>1, <2>2, <2>3 DEF StaleIsArmed
<1>10. FiredForCause'
  <2>1. Cause => Cause'
    BY <1>2, <1>3 DEF Cause, Waker, Recovering
  <2> QED  BY <1>1, <1>2, <1>3, <1>4, <2>1 DEF FiredForCause, Queued
<1> QED  BY <1>5, <1>6, <1>7, <1>8, <1>9, <1>10 DEF IInv

-----------------------------------------------------------------------------
(* Crash and recovery. *)

\* A Runtime that crashes will recover, and recovery arms and wakes.
LEMMA CrashStep ==
    ASSUME IInv, NEW r \in Runtimes, Crash(r)
    PROVE  IInv'
<1> DEFINE row == [pc |-> "recover", gen |-> 0, copy |-> NoSched]
<1>1. /\ Fault("other") /\ engine' = [engine EXCEPT ![r] = row]
      /\ caller' = [caller EXCEPT ![r] = IdleCaller]
      /\ UNCHANGED <<sched, recurring, dep, owner, timer, occ, missed>>
  BY DEF Crash
<1>2. TypeOK /\ GenerationsOK /\ EnginesOK /\ OneClaim /\ FiredForCause
  BY DEF IInv
<1>3. row \in EngineRow
  BY ConstantRows DEF EngineRow
<1>4. \A q \in Runtimes :
         /\ engine'[q] = IF q = r THEN row ELSE engine[q]
         /\ caller'[q] = IF q = r THEN IdleCaller ELSE caller[q]
  BY <1>1, <1>2 DEF TypeOK
<1>5. /\ faults' \in [FaultKinds -> Nat]
      /\ faults'["overrun"] = faults["overrun"]
  BY <1>1, <1>2, FaultCounted DEF FaultKinds
<1>6. TypeOK'
  <2>1. engine' \in [Runtimes -> EngineRow] /\ caller' \in [Runtimes -> CallerRow]
    BY <1>1, <1>2, <1>3, ConstantRows DEF TypeOK
  <2> QED  BY <1>1, <1>2, <1>5, <2>1 DEF TypeOK
<1>7. GenerationsOK' /\ OneShotDone'
  BY <1>1, <1>2, <1>4, ConstantRows DEF IInv, GenerationsOK, OneShotDone
<1>8. EnginesOK'
  <2> SUFFICES ASSUME NEW q \in Runtimes PROVE EngineOK(q)'
    BY DEF EnginesOK
  <2>1. EngineOK(q) /\ timer.gen \in Nat
    BY <1>2, Fields DEF EnginesOK
  <2>2. CASE q = r
    BY <1>1, <1>4, <2>1, <2>2 DEF EngineOK, Active
  <2>3. CASE q # r
    BY <1>1, <1>4, <2>1, <2>3 DEF EngineOK, Queued
  <2> QED  BY <2>2, <2>3
<1>9. OneClaim'
  <2>1. timer.status = "claimed" /\ Attended' => Attended
    BY <1>1, <1>2, <1>4 DEF Attended, GenerationsOK
  <2>2. \A q \in Runtimes : engine'[q].pc \in Active => engine'[q] = engine[q]
    BY <1>4 DEF Active
  <2> QED  BY <1>1, <1>2, <1>5, <2>1, <2>2 DEF OneClaim
<1>10. ReliableArmer' /\ Armer' /\ Waker'
  BY <1>4 DEF ReliableArmer, Reliable, Recovering, Armer, Waker
<1>11. StaleIsArmed'
  BY <1>10 DEF StaleIsArmed
<1>12. FiredForCause'
  <2>1. Cause => Cause'
    BY <1>1, <1>10 DEF Cause
  <2> QED  BY <1>1, <1>2, <1>4, <2>1 DEF FiredForCause, Queued
<1> QED  BY <1>6, <1>7, <1>8, <1>9, <1>11, <1>12 DEF IInv

\* Recovery finds a queued row: it replays the end of the dependency, if there
\* was one, and goes on to arm.
LEMMA RecoverQueuedStep ==
    ASSUME IInv, NEW r \in Runtimes, RecoverQueued(r)
    PROVE  IInv'
<1>1. /\ engine[r].pc = "recover_queued"
      /\ UNCHANGED <<recurring, dep, owner, timer, occ, caller, faults, missed>>
  BY DEF RecoverQueued
<1>2. TypeOK /\ GenerationsOK /\ EnginesOK /\ OneShotDone /\ OneClaim /\ FiredForCause
      /\ sched \in SchedRow /\ sched.due \in BOOLEAN
  BY Fields DEF IInv, TypeOK
<1>3. engine[r].gen = 0 /\ timer.gen \in Nat /\ sched.rev \in Nat
  BY <1>1, <1>2, Fields DEF EnginesOK, EngineOK, Active
<1>4. CASE Queued /\ dep \in {"completed", "cancelled"}
  <2>1. sched' = Bumped("queued", sched.due) /\ Goes(r, "recover_arm", sched')
    BY <1>4 DEF RecoverQueued, Replayed, Woken, Queued
  <2>2. sched' \in SchedRow /\ sched'.rev = sched.rev + 1 /\ sched'.status = "queued"
    BY <1>2, <2>1, BumpedRow
  <2>3. /\ engine' \in [Runtimes -> EngineRow]
        /\ engine'[r].pc = "recover_arm" /\ engine'[r].gen = 0
        /\ engine'[r].copy = sched'
        /\ \A q \in Runtimes : q # r => engine'[q] = engine[q]
    BY <1>2, <1>3, <2>1, <2>2, GoesOn
  <2>4. TypeOK'
    BY <1>1, <1>2, <2>2, <2>3 DEF TypeOK
  <2>5. OneShotDone'
    BY <1>1, <1>2, <1>4 DEF OneShotDone, Queued
  <2>6. GenerationsOK' /\ EnginesOK' /\ OneClaim' /\ StaleIsArmed' /\ FiredForCause'
    <3>1. \A q \in Runtimes :
             /\ \/ engine'[q] = engine[q]
                \/ /\ engine'[q].pc = "recover_arm" /\ engine'[q].gen = 0
                   /\ engine'[q].copy.rev = sched'.rev
             /\ caller'[q] = caller[q]
      BY <1>1, <2>3
    <3>2. \E q \in Runtimes : engine'[q].pc = "recover_arm"
                              /\ engine'[q].copy.rev = sched'.rev
      BY <2>3
    <3> QED  BY <1>1, <2>2, <3>1, <3>2, Bumping
  <2> QED  BY <2>4, <2>5, <2>6 DEF IInv
<1>5. CASE ~ (Queued /\ dep \in {"completed", "cancelled"})
  <2>1. /\ sched' = sched
        /\ IF Queued THEN Goes(r, "recover_arm", sched)
                     ELSE engine' = [engine EXCEPT ![r] = IdleEngine]
    BY <1>5 DEF RecoverQueued, Replayed, Queued
  <2>2. /\ engine' \in [Runtimes -> EngineRow] /\ engine'[r].gen = 0
        /\ engine'[r].pc = IF Queued THEN "recover_arm" ELSE "idle"
        /\ Queued => engine'[r].copy = sched
        /\ \A q \in Runtimes : q # r => engine'[q] = engine[q]
    <3>1. CASE Queued
      BY <1>2, <1>3, <2>1, <3>1, GoesOn
    <3>2. CASE ~ Queued
      BY <1>2, <2>1, <3>2, Rests
    <3> QED  BY <3>1, <3>2
  <2>3. TypeOK'
    BY <1>1, <1>2, <2>1, <2>2 DEF TypeOK
  <2>4. GenerationsOK' /\ OneShotDone'
    BY <1>1, <1>2, <2>1 DEF GenerationsOK, OneShotDone
  <2>5. EnginesOK'
    <3> SUFFICES ASSUME NEW q \in Runtimes PROVE EngineOK(q)'
      BY DEF EnginesOK
    <3>1. EngineOK(q)
      BY <1>2 DEF EnginesOK
    <3>2. CASE q = r
      BY <1>1, <1>2, <1>3, <2>1, <2>2, <3>2 DEF EngineOK, Active, GenerationsOK, Queued
    <3>3. CASE q # r
      BY <1>1, <2>1, <2>2, <3>1, <3>3 DEF EngineOK, Queued
    <3> QED  BY <3>2, <3>3
  <2>6. OneClaim'
    <3>1. timer.status = "claimed" /\ Attended' => Attended
      BY <1>1, <1>2, <2>2 DEF Attended, GenerationsOK
    <3>2. \A q \in Runtimes : engine'[q].pc \in Active => engine'[q] = engine[q]
      BY <2>2 DEF Active
    <3> QED  BY <1>1, <1>2, <3>1, <3>2 DEF OneClaim
  <2>7. StaleIsArmed'
    <3>1. Queued => ReliableArmer' /\ Armer'
      BY <2>1, <2>2 DEF ReliableArmer, Reliable, Armer
    <3>2. Behind' => Queued
      BY <2>1 DEF Behind, Queued
    <3> QED  BY <3>1, <3>2 DEF StaleIsArmed
  <2>8. FiredForCause'
    <3>1. Queued /\ Cause => Cause'
      BY <1>1, <1>5 DEF Cause
    <3> QED  BY <1>1, <1>2, <2>1, <2>2, <3>1 DEF FiredForCause, Queued
  <2> QED  BY <2>3, <2>4, <2>5, <2>6, <2>7, <2>8 DEF IInv
<1> QED  BY <1>4, <1>5

-----------------------------------------------------------------------------
(* The theorems. *)

\* Every step preserves the invariant.
LEMMA NextIInv == IInv /\ [Next]_vars => IInv'
<1> SUFFICES ASSUME IInv, [Next]_vars PROVE IInv'
  OBVIOUS
<1>1. CASE Environment
  BY <1>1, CancelOwnerStep, ThreadEndsStep, TimeStep DEF Environment
<1>2. ASSUME NEW r \in Runtimes, Control(r) PROVE IInv'
  BY <1>2, ControlStep
<1>3. ASSUME NEW r \in Runtimes, CallerStep(r) PROVE IInv'
  BY <1>3, ArmAfterStep, CancelAfterStep, WakeStep DEF CallerStep
<1>4. ASSUME NEW r \in Runtimes, EngineStep(r) PROVE IInv'
  <2>1. CASE Claim(r)
    BY <2>1, ClaimStep
  <2>2. CASE Read(r)
    BY <2>2, ReadStep
  <2>3. CASE Commit(r)
    BY <2>3, CommitFencedStep, CommitOverStep
  <2>4. CASE ArmNext(r)
    BY <2>4, ArmNextStep
  <2>5. CASE Complete(r) \/ Later(r)
    BY <2>5, ReleaseStep
  <2>6. CASE RecoverTimers(r) \/ RecoverCancel(r)
    BY <2>6, RecoverTimersStep
  <2>7. CASE RecoverQueued(r)
    BY <2>7, RecoverQueuedStep
  <2>8. CASE RecoverArm(r)
    BY <2>8, RecoverArmStep
  <2> QED  BY <1>4, <2>1, <2>2, <2>3, <2>4, <2>5, <2>6, <2>7, <2>8 DEF EngineStep
<1>5. ASSUME NEW r \in Runtimes,
             \/ DependencyEnds(r) \/ CallFails(r) \/ ReadEarly(r)
             \/ HandlerFails(r) \/ Crash(r)
      PROVE  IInv'
  BY <1>5, DependencyEndsStep, CallFailsStep, ReadStep, ReleaseStep, CrashStep
<1>6. CASE UNCHANGED vars
  <2>1. UNCHANGED <<sched, recurring, dep, owner, timer, occ, faults, missed, engine,
                  caller>>
    BY <1>6 DEF vars
  <2>2. /\ timer' \in TimerRow
        /\ GenerationsOK' /\ EnginesOK' /\ OneShotDone'
        /\ OneClaim' /\ StaleIsArmed' /\ FiredForCause'
    BY <2>1, Cancelling
  <2>3. TypeOK'
    BY <2>1 DEF IInv, TypeOK
  <2> QED  BY <2>2, <2>3 DEF IInv
<1> QED  BY <1>1, <1>2, <1>3, <1>4, <1>5, <1>6 DEF Next

\* For every set of Runtimes and any number of revisions and faults, every
\* reachable state satisfies the inductive invariant.
THEOREM Invariant == Spec => []IInv
<1>1. Init => IInv
  BY InitIInv
<1>2. IInv /\ [Next]_vars => IInv'
  BY NextIInv
<1> QED  BY <1>1, <1>2, PTL DEF Spec

\* The rows stay of their types.
THEOREM TypeCorrect == Spec => []TypeOK
<1>1. IInv => TypeOK
  BY DEF IInv
<1> QED  BY <1>1, Invariant, PTL

\* A one-shot Schedule wakes its Thread at most once, however many dispatchers
\* hold its timer.
THEOREM OneShotWakesOnce == Spec => []OneShotOnce
<1>1. IInv => OneShotOnce
  <2> SUFFICES ASSUME IInv, ~ recurring PROVE Cardinality(occ) <= 1
    BY DEF OneShotOnce
  <2>1. CASE occ = {}
    BY <2>1, FS_EmptySet
  <2>2. CASE occ # {}
    <3>1. PICK n \in occ : occ = {n}
      BY <2>2 DEF IInv, OneShotDone
    <3>2. Cardinality({n}) = 1
      BY FS_Singleton
    <3> QED  BY <3>1, <3>2
  <2> QED  BY <2>1, <2>2
<1> QED  BY <1>1, Invariant, PTL

\* A claim can only have run out of a timer that was armed, and a timer row is
\* never deleted.
OverrunHadTimer == timer.status = "absent" => faults["overrun"] = 0

\* It is an invariant of its own.
LEMMA TimerStays == Spec => []OverrunHadTimer
<1>1. Init => OverrunHadTimer
  BY DEF Init, OverrunHadTimer, FaultKinds
<1>2. TypeOK /\ OverrunHadTimer /\ [Next]_vars => OverrunHadTimer'
  <2> SUFFICES ASSUME TypeOK, OverrunHadTimer, [Next]_vars PROVE OverrunHadTimer'
    OBVIOUS
  <2>1. timer'.status = "absent" => timer.status = "absent"
    <3>1. timer \in TimerRow
      BY DEF TypeOK
    <3>2. \/ timer' = timer
          \/ timer' = CancelledTimer
          \/ \E st \in {"fired", "pending"} : timer' = Released(st)
          \/ \E g, d : timer' = Upsert(g, d)
          \/ Ripen \/ TimerRipens \/ LeaseExpires \/ \E r \in Runtimes : Claim(r)
      BY DEF Next, vars, Environment, CancelOwner, OwnerEnds, DependencyCancelled,
             Control, Create, Pause, Resume, Reschedule, Cancel, Mutate, CallerStep,
             ArmAfter, ArmWith, CancelAfter, Wake, EngineStep, Read, Commit, ArmNext,
             Complete, Later, RecoverTimers, RecoverCancel, RecoverQueued, RecoverArm,
             DependencyEnds, CallFails, ReadEarly, HandlerFails, Crash
    <3>3. CASE timer' = timer
      BY <3>3
    <3>4. CASE timer' = CancelledTimer
      BY <3>1, <3>4 DEF TimerRow, CancelledTimer
    <3>5. CASE \E st \in {"fired", "pending"} : timer' = Released(st)
      BY <3>1, <3>5 DEF TimerRow, Released
    <3>6. CASE \E g, d : timer' = Upsert(g, d)
      BY <3>6 DEF Upsert
    <3>7. CASE Ripen \/ TimerRipens \/ LeaseExpires
      BY <3>1, <3>7 DEF TimerRow, Ripen, TimerRipens, LeaseExpires
    <3>8. CASE \E r \in Runtimes : Claim(r)
      BY <3>1, <3>8 DEF TimerRow, Claim
    <3> QED  BY <3>2, <3>3, <3>4, <3>5, <3>6, <3>7, <3>8
  <2>2. faults'["overrun"] = faults["overrun"] \/ LeaseExpires
    <3>1. \/ faults' = faults \/ LeaseExpires
          \/ \E k \in {"failure", "other"} : Fault(k)
      BY DEF Next, vars, Environment, CancelOwner, OwnerEnds, DependencyCancelled,
             Ripen, TimerRipens, Control, Create, Pause, Resume, Reschedule, Cancel,
             Mutate, CallerStep, ArmAfter, CancelAfter, Wake, EngineStep, Claim, Read,
             Commit, ArmNext, Complete, Later, RecoverTimers, RecoverCancel,
             RecoverQueued, RecoverArm, DependencyEnds, CallFails, ReadEarly,
             HandlerFails, Crash
    <3> QED  BY <3>1, FaultCounted DEF FaultKinds
  <2>3. LeaseExpires => timer.status # "absent"
    BY DEF LeaseExpires
  <2> QED  BY <2>1, <2>2, <2>3 DEF OverrunHadTimer
<1> QED  BY <1>1, <1>2, TypeCorrect, PTL DEF Spec

\* When nothing is in flight, a queued Schedule has a live timer, or one of the
\* causes QuiescentArmed names.  Any number of crashes and of failed dispatches
\* alone never lose a timer, nor do any number of claims that run out, nor a call
\* that fails after its row was committed unless the row is still at the very
\* revision that call was to arm or to wake.
THEOREM RestIsArmed == Spec => []QuiescentArmed
<1>1. IInv /\ OverrunHadTimer => QuiescentArmed
  <2> SUFFICES ASSUME IInv, OverrunHadTimer, AtRest, Queued, timer.status \notin Live,
                      timer.status # "cancelled"
               PROVE  \/ timer.gen = sched.rev /\ timer.status = "fired"
                         /\ (dep \in {"open", "cancelled"}
                             \/ (~ recurring /\ owner = "terminal"))
                      \/ Uncalled \/ Overtaken
    BY DEF QuiescentArmed, Queued
  <2>0. CASE sched.rev \in missed
    BY <2>0 DEF Uncalled
  <2> SUFFICES ASSUME sched.rev \notin missed
               PROVE  \/ timer.gen = sched.rev /\ timer.status = "fired"
                         /\ (dep \in {"open", "cancelled"}
                             \/ (~ recurring /\ owner = "terminal"))
                      \/ Overtaken
    BY <2>0
  <2>1. /\ sched.rev \in Nat /\ timer.gen \in Nat /\ sched.rev >= 1
        /\ timer.gen <= sched.rev
        /\ timer.gen = 0 <=> timer.status = "absent"
        /\ timer.status \in {"absent", "fired"}
        /\ faults["failure"] \in Nat /\ faults["overrun"] \in Nat
    BY Fields DEF IInv, GenerationsOK, Live, Queued
  <2>2. ~ ReliableArmer /\ ~ Armer /\ ~ Waker
    BY DEF AtRest, ReliableArmer, Reliable, Armer, Waker, Recovering
  <2>3. CASE timer.gen = sched.rev
    <3>1. timer.status = "fired"
      BY <2>1, <2>3
    <3>2. Cause
      BY <2>3, <3>1 DEF IInv, FiredForCause
    <3> QED  BY <2>2, <2>3, <3>1, <3>2 DEF Cause
  <2>4. CASE timer.gen # sched.rev
    <3>1. Behind
      BY <2>1, <2>4 DEF Behind
    <3>2. faults["failure"] # 0 /\ faults["overrun"] # 0
      BY <2>2, <3>1 DEF IInv, StaleIsArmed
    <3>3. CASE timer.status = "fired"
      BY <2>1, <2>4, <3>2, <3>3 DEF Overtaken
    <3>4. CASE timer.status = "absent"
      BY <3>2, <3>4 DEF OverrunHadTimer
    <3> QED  BY <2>1, <3>3, <3>4
  <2> QED  BY <2>3, <2>4
<1> QED  BY <1>1, Invariant, TimerStays, PTL

\* No occurrence is taken early, or of a Schedule that was paused, cancelled or
\* rescheduled first.
THEOREM NeverTakenEarly == Spec => NeverEarly
<1> DEFINE A == occ' # occ => sched.status = "queued" /\ sched.due /\ dep # "open"
<1>1. IInv /\ [Next]_vars => [A]_vars
  <2> SUFFICES ASSUME IInv, Next, occ' # occ
               PROVE  sched.status = "queued" /\ sched.due /\ dep # "open"
    OBVIOUS
  <2>1. \E r \in Runtimes : Commit(r) /\ Fenced(r)
    BY DEF Next, Environment, CancelOwner, OwnerEnds, DependencyCancelled, Ripen,
           TimerRipens, LeaseExpires, Control, Create, Pause, Resume, Reschedule,
           Cancel, Mutate, CallerStep, ArmAfter, CancelAfter, Wake, EngineStep,
           Claim, Read, Commit, ArmNext, Complete, Later, RecoverTimers,
           RecoverCancel, RecoverQueued, RecoverArm, DependencyEnds, CallFails,
           ReadEarly, HandlerFails, Crash
  <2> QED  BY <2>1, TakenCurrent DEF Commit, Queued
<1>2. Spec => [][A]_vars
  BY <1>1, Invariant, PTL DEF Spec
<1> QED  BY <1>2 DEF NeverEarly
=============================================================================
