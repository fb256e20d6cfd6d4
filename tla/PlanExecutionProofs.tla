------------------------ MODULE PlanExecutionProofs ------------------------
(***************************************************************************)
(* What PlanExecution promises, proved for every family of programs, every    *)
(* set of workers and any number of faults.                                  *)
(***************************************************************************)
EXTENDS PlanExecution, FiniteSetTheorems, TLAPS

-----------------------------------------------------------------------------
(* The inductive invariant. *)

Suspending == {"call", "infer", "par", "program"}
Driving == {"drive", "suspend", "host"}
Joining == {"join", "timeout"}

\* One log continues another ...
Extends(a, b) == Len(a) <= Len(b) /\ \A i \in 1..Len(a) : b[i] = a[i]

\* ... with the outcomes of Host effects only.
HostAhead(p, a, b) ==
    /\ Extends(a, b)
    /\ \A i \in (Len(a) + 1)..Len(b) :
          i \in DOMAIN Program[p] /\ Program[p][i] = "host"

\* p has been suspended on its effect i.
Reached(p, i) == Refilled(p, i) \/ SuspendedAt(p, i)

\* A row that was never inserted.
AbsentRows == \A p \in Plans : plan[p].status = "absent" => plan[p] = AbsentPlan

\* A driver is behind its row, or has the claim and is ahead of it by Host
\* effects.
DriverOK(w) ==
    LET p == worker[w].plan IN
    worker[w].pc \in Driving =>
        /\ worker[w].rev <= plan[p].rev /\ worker[w].at = 0
        /\ worker[w].rev = plan[p].rev =>
             /\ plan[p].status = "running" /\ plan[p].token = worker[w].rev
             /\ HostAhead(p, plan[p].log, worker[w].log)
        /\ worker[w].pc = "suspend" => Effect(w) = "par"
        /\ worker[w].pc = "host" => Effect(w) = "host"

\* A worker that joins is behind its row, or has read it; the row was suspended on
\* the effect it joins.
JoinerOK(w) ==
    LET p == worker[w].plan IN
    worker[w].pc \in Joining =>
        /\ worker[w].rev <= plan[p].rev
        /\ worker[w].rev = plan[p].rev =>
             plan[p].status = "waiting" /\ plan[p].log = worker[w].log
        /\ Effect(w) \in Suspending /\ Reached(p, Len(worker[w].log) + 1)
        /\ Effect(w) # "par" => worker[w].at = 0
WorkersOK == \A w \in Workers : DriverOK(w) /\ JoinerOK(w)

\* A group counts its members, and a member's result is how its branch ended.
GroupOK(e) ==
    LET g == group[e] IN
    /\ g.status = "absent" => g.count = 0
    /\ g.count = Cardinality({ c \in Kids(e) : g.member[c] # "pending" })
    /\ g.settledEvents = IF g.status = "settled" THEN 1 ELSE 0
    /\ g.status = "settled" => g.count = Len(Branches[e])
    /\ g.status = "running" => g.count < Len(Branches[e])
    /\ \A c \in Kids(e) : g.member[c] # "pending" =>
          plan[c].status \in Terminal /\ g.member[c] = plan[c].status
GroupsOK == \A e \in Slots : GroupOK(e)

\* The outcome of effect i is what its child, its branches or its child program
\* came to.
Given(p, i) ==
    /\ Program[p][i] \in {"call", "infer"} =>
         /\ child[<<p, i>>] \in Terminal
         /\ plan[p].log[i] = "ok" => child[<<p, i>>] = "succeeded"
    /\ Program[p][i] = "call" =>
         (child[<<p, i>>] = "succeeded" => plan[p].log[i] = "ok")
    /\ Program[p][i] = "program" =>
         /\ plan[Branches[<<p, i>>][1]].status \in Terminal
         /\ plan[p].log[i] = "ok" <=> plan[Branches[<<p, i>>][1]].status = "succeeded"
    /\ Program[p][i] = "par" =>
         /\ group[<<p, i>>].status = "settled"
         /\ \A c \in Kids(<<p, i>>) : /\ plan[c].status \in Terminal
                                      /\ group[<<p, i>>].member[c] = plan[c].status
         /\ plan[p].log[i] = "ok"
              <=> \A c \in Kids(<<p, i>>) : plan[c].status = "succeeded"
Refills ==
    \A p \in Plans : \A i \in DOMAIN Program[p] : Refilled(p, i) => Given(p, i)

\* Children exist for effects that were reached.
ChildrenOK == \A e \in Slots : child[e] # "absent" => Reached(e[1], e[2])
KidsOK ==
    \A e \in Slots : \A c \in Kids(e) :
        plan[c].status # "absent" => Reached(e[1], e[2])

IInv ==
    /\ TypeOK
    /\ AbsentRows /\ WorkersOK /\ GroupsOK /\ Refills /\ ChildrenOK /\ KidsOK
    /\ CancellationIsFinal

-----------------------------------------------------------------------------
(* What a step may do. *)

\* How a row moves: its log grows, its revision counts its changes, a suspended
\* row is refilled or cancelled, and an ended one does not move.
Adv(a, b) ==
    /\ b \in PlanRow
    /\ a.rev <= b.rev
    /\ b.rev = a.rev => b.status = a.status /\ b.token = a.token /\ b.log = a.log
    /\ Extends(a.log, b.log)
    /\ a.status \in Terminal => b = a
    /\ b.status = "absent" => b = a
    /\ a.status = "waiting" =>
         (b.log = a.log /\ b.status \in {"waiting", "cancelled"}) \/ Len(a.log) < Len(b.log)
Advances == \A p \in Plans : Adv(plan[p], plan'[p])

\* Outcomes that are new are those of Host effects, or are given.
Fills ==
    \A p \in Plans : \A i \in DOMAIN Program[p] :
        Refilled(p, i)' /\ ~ Refilled(p, i) => Program[p][i] = "host" \/ Given(p, i)'

\* Rows that are new are the root's, or children of an effect that was reached.
Spawns ==
    \A c \in Plans : plan[c].status = "absent" /\ plan'[c].status # "absent" =>
        c = Root \/ \E e \in Slots : c \in Kids(e) /\ Reached(e[1], e[2])'

ChildSteps ==
    \A e \in Slots :
        /\ child[e] \in Terminal => child'[e] = child[e]
        /\ child'[e] # "absent" => child[e] # "absent" \/ Reached(e[1], e[2])'

GroupSteps ==
    \A e \in Slots :
        group'[e] = group[e] \/ (group[e].status # "settled" /\ GroupOK(e)')

WorkerSteps ==
    \A w \in Workers :
        \/ worker'[w] = worker[w]
        \/ DriverOK(w)' /\ JoinerOK(w)'

\* A row that does not change.
LEMMA AdvSame == ASSUME NEW a \in PlanRow PROVE Adv(a, a)
<1>1. a.log \in Seq(Outcomes) /\ a.rev \in Nat
  BY DEF PlanRow
<1> QED  BY <1>1 DEF Adv, Extends

\* An effect that was reached stays so.
LEMMA ReachedStays ==
    ASSUME TypeOK, Advances, NEW p \in Plans, NEW i \in Nat, Reached(p, i)
    PROVE  Reached(p, i)'
<1>1. /\ Adv(plan[p], plan'[p]) /\ plan[p] \in PlanRow
      /\ Len(plan[p].log) \in Nat /\ Len(plan'[p].log) \in Nat
      /\ Len(plan[p].log) <= Len(plan'[p].log)
  BY DEF TypeOK, Advances, Adv, Extends, PlanRow
<1>2. CASE Refilled(p, i)
  BY <1>1, <1>2 DEF Refilled, Reached
<1>3. CASE SuspendedAt(p, i) /\ plan[p].status = "cancelled"
  <2>1. plan'[p] = plan[p]
    BY <1>1, <1>3 DEF Adv, Terminal
  <2> QED  BY <1>3, <2>1 DEF Reached, SuspendedAt
<1>4. CASE SuspendedAt(p, i) /\ plan[p].status = "waiting"
  <2>1. Len(plan[p].log) + 1 = i
    BY <1>4 DEF SuspendedAt
  <2>2. CASE plan'[p].log = plan[p].log /\ plan'[p].status \in {"waiting", "cancelled"}
    BY <2>1, <2>2 DEF Reached, SuspendedAt
  <2>3. CASE Len(plan[p].log) < Len(plan'[p].log)
    BY <1>1, <2>1, <2>3 DEF Reached, Refilled
  <2> QED  BY <1>1, <1>4, <2>2, <2>3 DEF Adv
<1> QED  BY <1>2, <1>3, <1>4 DEF Reached, SuspendedAt

\* Every effect of a program is a slot, and the slots of the children are disjoint.
LEMMA SlotOf ==
    ASSUME NEW p \in Plans, NEW i \in DOMAIN Program[p]
    PROVE  /\ <<p, i>> \in Slots /\ i \in Nat /\ i \in 1..Len(Program[p])
           /\ Program[p][i] \in Effects /\ Branches[<<p, i>>] \in Seq(Plans)
           /\ Program[p][i] = "par" => Len(Branches[<<p, i>>]) > 0
           /\ Program[p][i] = "program" =>
                Len(Branches[<<p, i>>]) = 1 /\ Branches[<<p, i>>][1] \in Kids(<<p, i>>)
<1>1. /\ Program[p] \in Seq(Effects) /\ Len(Program[p]) <= MaxSteps
      /\ Len(Program[p]) \in Nat
  BY ProgramAssumption
<1>2. i \in 1..Len(Program[p]) /\ i \in Steps /\ i \in Nat /\ Program[p][i] \in Effects
  BY <1>1, BoundsAssumption DEF Steps
<1>3. <<p, i>> \in Slots /\ Branches[<<p, i>>] \in Seq(Plans)
  BY <1>2, ProgramAssumption DEF Slots
<1>4. /\ Program[p][i] = "par" => Len(Branches[<<p, i>>]) > 0
      /\ Program[p][i] = "program" => Len(Branches[<<p, i>>]) = 1
  BY FamilyAssumption
<1>5. Len(Branches[<<p, i>>]) = 1 => Branches[<<p, i>>][1] \in Kids(<<p, i>>)
  BY <1>3 DEF Kids
<1> QED  BY <1>2, <1>3, <1>4, <1>5

\* The children of a slot are programs.
LEMMA KidsArePlans == \A e \in Slots : Kids(e) \subseteq Plans
<1> SUFFICES ASSUME NEW e \in Slots, NEW j \in DOMAIN Branches[e]
             PROVE  Branches[e][j] \in Plans
  BY DEF Kids
<1>1. Branches[e] \in Seq(Plans)
  BY ProgramAssumption
<1> QED  BY <1>1

\* What was given stays given.
LEMMA GivenStays ==
    ASSUME IInv, Advances, ChildSteps, GroupSteps,
           NEW p \in Plans, NEW i \in DOMAIN Program[p], Refilled(p, i), Given(p, i)
    PROVE  Given(p, i)'
<1>1. /\ <<p, i>> \in Slots /\ i \in Nat /\ i \in 1..Len(Program[p])
      /\ Program[p][i] = "program" => Branches[<<p, i>>][1] \in Kids(<<p, i>>)
      /\ Kids(<<p, i>>) \subseteq Plans
  BY SlotOf, KidsArePlans
<1>2. plan'[p].log[i] = plan[p].log[i]
  <2>1. Extends(plan[p].log, plan'[p].log) /\ Len(plan[p].log) \in Nat
    BY DEF IInv, TypeOK, PlanRow, Advances, Adv
  <2> QED  BY <1>1, <2>1 DEF Refilled, Extends
<1>3. \A c \in Plans : plan[c].status \in Terminal => plan'[c] = plan[c]
  BY DEF Advances, Adv
<1>4. child[<<p, i>>] \in Terminal => child'[<<p, i>>] = child[<<p, i>>]
  BY <1>1 DEF ChildSteps
<1>5. group[<<p, i>>].status = "settled" => group'[<<p, i>>] = group[<<p, i>>]
  BY <1>1 DEF GroupSteps
<1>6. /\ Program[p][i] \in {"call", "infer"} =>
           /\ child'[<<p, i>>] \in Terminal
           /\ plan'[p].log[i] = "ok" => child'[<<p, i>>] = "succeeded"
      /\ Program[p][i] = "call" =>
           (child'[<<p, i>>] = "succeeded" => plan'[p].log[i] = "ok")
  BY <1>2, <1>4 DEF Given
<1>7. Program[p][i] = "program" =>
         /\ plan'[Branches[<<p, i>>][1]].status \in Terminal
         /\ plan'[p].log[i] = "ok" <=> plan'[Branches[<<p, i>>][1]].status = "succeeded"
  BY <1>1, <1>2, <1>3 DEF Given
<1>8. Program[p][i] = "par" =>
         /\ group'[<<p, i>>].status = "settled"
         /\ \A c \in Kids(<<p, i>>) : /\ plan'[c].status \in Terminal
                                      /\ group'[<<p, i>>].member[c] = plan'[c].status
         /\ plan'[p].log[i] = "ok"
              <=> \A c \in Kids(<<p, i>>) : plan'[c].status = "succeeded"
  BY <1>1, <1>2, <1>3, <1>5 DEF Given
<1> QED  BY <1>6, <1>7, <1>8 DEF Given

\* A worker that does not move stays right about a row that only advances.
LEMMA WorkerStays ==
    ASSUME IInv, Advances, NEW w \in Workers, worker'[w] = worker[w]
    PROVE  DriverOK(w)' /\ JoinerOK(w)'
<1> DEFINE p == worker[w].plan
<1>1. /\ TypeOK /\ p \in Plans /\ worker[w].rev \in Nat /\ worker[w].log \in Seq(Outcomes)
      /\ plan[p].rev \in Nat /\ plan'[p].rev \in Nat /\ Adv(plan[p], plan'[p])
      /\ Len(worker[w].log) \in Nat /\ DriverOK(w) /\ JoinerOK(w)
  <2>1. TypeOK /\ DriverOK(w) /\ JoinerOK(w)
    BY DEF IInv, WorkersOK
  <2>2. /\ p \in Plans /\ worker[w].rev \in Nat /\ worker[w].log \in Seq(Outcomes)
    BY <2>1 DEF TypeOK, WorkerRow
  <2>3. plan[p] \in PlanRow /\ Adv(plan[p], plan'[p])
    BY <2>1, <2>2 DEF TypeOK, Advances
  <2>4. plan[p].rev \in Nat /\ plan'[p].rev \in Nat
    BY <2>3 DEF Adv, PlanRow
  <2>5. Len(worker[w].log) \in Nat
    BY <2>2
  <2> QED  BY <2>1, <2>2, <2>3, <2>4, <2>5
<1>2. /\ Effect(w)' = Effect(w) /\ worker'[w].plan = p
      /\ plan[p].rev <= plan'[p].rev
      /\ plan'[p].rev = plan[p].rev =>
           /\ plan'[p].status = plan[p].status /\ plan'[p].token = plan[p].token
           /\ plan'[p].log = plan[p].log
  BY <1>1 DEF Effect, Adv
<1>3. DriverOK(w)'
  <2> SUFFICES ASSUME worker[w].pc \in Driving
               PROVE  /\ worker[w].rev <= plan'[p].rev /\ worker[w].at = 0
                      /\ worker[w].rev = plan'[p].rev =>
                           /\ plan'[p].status = "running" /\ plan'[p].token = worker[w].rev
                           /\ HostAhead(p, plan'[p].log, worker[w].log)
                      /\ worker[w].pc = "suspend" => Effect(w) = "par"
                      /\ worker[w].pc = "host" => Effect(w) = "host"
    BY <1>2 DEF DriverOK
  <2>1. /\ worker[w].rev <= plan[p].rev /\ worker[w].at = 0
        /\ worker[w].rev = plan[p].rev =>
             /\ plan[p].status = "running" /\ plan[p].token = worker[w].rev
             /\ HostAhead(p, plan[p].log, worker[w].log)
        /\ worker[w].pc = "suspend" => Effect(w) = "par"
        /\ worker[w].pc = "host" => Effect(w) = "host"
    BY <1>1 DEF DriverOK
  <2>2. worker[w].rev <= plan'[p].rev
    BY <1>1, <1>2, <2>1
  <2>3. worker[w].rev = plan'[p].rev =>
           worker[w].rev = plan[p].rev /\ plan'[p].rev = plan[p].rev
    BY <1>1, <1>2, <2>1
  <2> QED  BY <1>2, <2>1, <2>2, <2>3
<1>4. JoinerOK(w)'
  <2> SUFFICES ASSUME worker[w].pc \in Joining
               PROVE  /\ worker[w].rev <= plan'[p].rev
                      /\ worker[w].rev = plan'[p].rev =>
                           plan'[p].status = "waiting" /\ plan'[p].log = worker[w].log
                      /\ Effect(w) \in Suspending
                      /\ Reached(p, Len(worker[w].log) + 1)'
                      /\ Effect(w) # "par" => worker[w].at = 0
    BY <1>2 DEF JoinerOK
  <2>1. /\ worker[w].rev <= plan[p].rev
        /\ worker[w].rev = plan[p].rev =>
             plan[p].status = "waiting" /\ plan[p].log = worker[w].log
        /\ Effect(w) \in Suspending /\ Reached(p, Len(worker[w].log) + 1)
        /\ Effect(w) # "par" => worker[w].at = 0
    BY <1>1 DEF JoinerOK
  <2>2. worker[w].rev <= plan'[p].rev
    BY <1>1, <1>2, <2>1
  <2>3. worker[w].rev = plan'[p].rev =>
           worker[w].rev = plan[p].rev /\ plan'[p].rev = plan[p].rev
    BY <1>1, <1>2, <2>1
  <2>4. \A j \in Nat : Reached(p, j) => Reached(p, j)'
    BY <1>1, ReachedStays
  <2>5. Reached(p, Len(worker[w].log) + 1)'
    <3>1. PICK j \in Nat : j = Len(worker[w].log) + 1
      BY <1>1
    <3>2. worker'[w].log = worker[w].log
      OBVIOUS
    <3>3. Reached(p, j)'
      BY <2>1, <2>4, <3>1
    <3> QED  BY <3>1, <3>2, <3>3 DEF Reached, Refilled, SuspendedAt
  <2> QED  BY <1>2, <2>1, <2>2, <2>3, <2>5
<1> QED  BY <1>3, <1>4

\* What every step of the system does.
Step ==
    /\ TypeOK' /\ CancellationIsFinal'
    /\ Advances /\ Fills /\ Spawns /\ ChildSteps /\ GroupSteps /\ WorkerSteps

\* A group that does not change stays right about rows that only advance.
LEMMA GroupStays ==
    ASSUME IInv, Advances, NEW e \in Slots, group'[e] = group[e]
    PROVE  GroupOK(e)'
<1>1. GroupOK(e) /\ Kids(e) \subseteq Plans
  BY KidsArePlans DEF IInv, GroupsOK
<1>2. \A c \in Kids(e) : plan[c].status \in Terminal => plan'[c] = plan[c]
  BY <1>1 DEF Advances, Adv
<1> QED  BY <1>1, <1>2 DEF GroupOK

\* Such a step preserves the invariant.
LEMMA Preserved == IInv /\ Step => IInv'
<1> SUFFICES ASSUME IInv, Step PROVE IInv'
  OBVIOUS
<1>1. /\ TypeOK' /\ CancellationIsFinal' /\ TypeOK
      /\ Advances /\ Fills /\ Spawns /\ ChildSteps /\ GroupSteps /\ WorkerSteps
  BY DEF Step, IInv
<1>2. AbsentRows'
  BY <1>1 DEF AbsentRows, IInv, Advances, Adv
<1>3. WorkersOK'
  BY <1>1, WorkerStays DEF WorkersOK, WorkerSteps
<1>4. GroupsOK'
  BY <1>1, GroupStays DEF GroupsOK, GroupSteps
<1>5. Refills'
  <2> SUFFICES ASSUME NEW p \in Plans, NEW i \in DOMAIN Program[p], Refilled(p, i)'
               PROVE  Given(p, i)'
    BY DEF Refills
  <2>1. CASE Refilled(p, i)
    BY <1>1, <2>1, GivenStays DEF IInv, Refills
  <2>2. CASE ~ Refilled(p, i)
    BY <1>1, <2>2 DEF Fills, Given
  <2> QED  BY <2>1, <2>2
<1>6. \A e \in Slots : e[1] \in Plans /\ e[2] \in Nat
  BY BoundsAssumption DEF Slots, Steps
<1>7. \A e \in Slots : Reached(e[1], e[2]) => Reached(e[1], e[2])'
  BY <1>1, <1>6, ReachedStays
<1>8. ChildrenOK'
  BY <1>1, <1>7 DEF ChildrenOK, ChildSteps, IInv
<1>9. KidsOK'
  <2> SUFFICES ASSUME NEW e \in Slots, NEW c \in Kids(e), plan'[c].status # "absent"
               PROVE  Reached(e[1], e[2])'
    BY DEF KidsOK
  <2>1. c \in Plans /\ c # Root
    BY KidsArePlans, FamilyAssumption
  <2>2. CASE plan[c].status # "absent"
    BY <1>7, <2>2 DEF IInv, KidsOK
  <2>3. CASE plan[c].status = "absent"
    <3>1. PICK f \in Slots : c \in Kids(f) /\ Reached(f[1], f[2])'
      BY <1>1, <2>1, <2>3 DEF Spawns
    <3>2. f = e
      BY <3>1, FamilyAssumption
    <3> QED  BY <3>1, <3>2
  <2> QED  BY <2>2, <2>3
<1> QED  BY <1>1, <1>2, <1>3, <1>4, <1>5, <1>8, <1>9 DEF IInv

-----------------------------------------------------------------------------
(* Rows. *)

\* The row that Settle writes.
LEMMA SettleRow ==
    ASSUME NEW r \in PlanRow, NEW s \in Live \cup Terminal, NEW l \in Seq(Outcomes)
    PROVE  /\ Settle(r, s, l) \in PlanRow
           /\ Settle(r, s, l).status = s /\ Settle(r, s, l).log = l
           /\ Settle(r, s, l).rev = r.rev + 1
<1> DEFINE r1 == [r EXCEPT !.status = s]
           n == r.rev + 1
           r2 == [r1 EXCEPT !.rev = n]
           r3 == [r2 EXCEPT !.token = 0]
           r4 == [r3 EXCEPT !.leased = FALSE]
           r5 == [r4 EXCEPT !.log = l]
<1>1. r1 \in PlanRow /\ r1.status = s /\ r1.rev = r.rev /\ r.rev \in Nat
  BY DEF PlanRow
<1>0. n \in Nat /\ n = r.rev + 1
  BY <1>1
<1> HIDE DEF r1, n
<1>2. r2 \in PlanRow /\ r2.status = s /\ r2.rev = n
  BY <1>0, <1>1 DEF PlanRow
<1> HIDE DEF r2
<1>3. r3 \in PlanRow /\ r3.status = s /\ r3.rev = n
  BY <1>2 DEF PlanRow
<1> HIDE DEF r3
<1>4. r4 \in PlanRow /\ r4.status = s /\ r4.rev = n
  BY <1>3 DEF PlanRow
<1> HIDE DEF r4
<1>5. r5 \in PlanRow /\ r5.status = s /\ r5.rev = n /\ r5.log = l
  BY <1>4 DEF PlanRow
<1>6. Settle(r, s, l) = r5
  BY <1>1, Zenon DEF Settle, r1, r2, r3, r4, n
<1> QED  BY <1>0, <1>5, <1>6

\* Settling a live row advances it, when its log grows, and when a suspended
\* row is refilled or cancelled.
LEMMA SettleAdv ==
    ASSUME NEW r \in PlanRow, NEW s \in Live \cup Terminal, NEW l \in Seq(Outcomes),
           r.status \in Live, Extends(r.log, l),
           r.status = "waiting" => (l = r.log /\ s = "cancelled") \/ Len(r.log) < Len(l)
    PROVE  Adv(r, Settle(r, s, l))
<1>1. /\ Settle(r, s, l) \in PlanRow
      /\ Settle(r, s, l).status = s /\ Settle(r, s, l).log = l
      /\ Settle(r, s, l).rev = r.rev + 1 /\ r.rev \in Nat
  BY SettleRow DEF PlanRow
<1>2. r.rev <= r.rev + 1 /\ r.rev + 1 # r.rev
  BY <1>1
<1>3. r.status \notin Terminal /\ s # "absent"
  BY DEF Live, Terminal
<1> QED  BY <1>1, <1>2, <1>3 DEF Adv

\* Rows and workers as they are created.
LEMMA FreshRows ==
    /\ AbsentPlan \in PlanRow /\ NewPlan \in PlanRow /\ AbsentGroup \in GroupRow
    /\ Idle \in WorkerRow /\ Idle.pc = "idle"
    /\ NewPlan.status = "queued" /\ NewPlan.rev = 1 /\ NewPlan.log = << >>
    /\ AbsentPlan.status = "absent" /\ AbsentPlan.rev = 0 /\ AbsentPlan.log = << >>
<1>1. AbsentPlan \in PlanRow
  BY DEF AbsentPlan, PlanRow
<1>2. NewPlan \in PlanRow /\ NewPlan.status = "queued" /\ NewPlan.rev = 1
      /\ NewPlan.log = << >>
  BY <1>1 DEF AbsentPlan, NewPlan, PlanRow, Live
<1>3. AbsentGroup \in GroupRow
  BY DEF AbsentGroup, GroupRow
<1>4. Idle \in WorkerRow /\ Idle.pc = "idle"
  BY PlansAssumption DEF Idle, WorkerRow
<1> QED  BY <1>1, <1>2, <1>3, <1>4 DEF AbsentPlan

\* Inserting a row advances it.
LEMMA InsertAdv == Adv(AbsentPlan, NewPlan)
<1>1. AbsentPlan.log = << >> /\ NewPlan.log = << >> /\ Len(<< >>) = 0
  BY FreshRows
<1>2. Extends(AbsentPlan.log, NewPlan.log)
  BY <1>1 DEF Extends
<1> QED  BY <1>2, FreshRows DEF Adv, Terminal

-----------------------------------------------------------------------------
(* Parts of steps. *)

\* A log continues itself.
LEMMA AheadSame ==
    ASSUME NEW p, NEW l \in Seq(Outcomes)
    PROVE  HostAhead(p, l, l) /\ Extends(l, l)
<1>1. Len(l) \in Nat
  OBVIOUS
<1> QED  BY <1>1 DEF HostAhead, Extends

\* Rows that only change by Host effects are given nothing else.
LEMMA HostFills ==
    ASSUME IInv, Advances, \A q \in Plans : HostAhead(q, plan[q].log, plan'[q].log)
    PROVE  Fills
<1> SUFFICES ASSUME NEW q \in Plans, NEW i \in DOMAIN Program[q],
                    Refilled(q, i)', ~ Refilled(q, i)
             PROVE  Program[q][i] = "host"
  BY DEF Fills
<1>1. i \in Nat
  BY SlotOf
<1>2. /\ plan[q].log \in Seq(Outcomes) /\ plan'[q].log \in Seq(Outcomes)
  BY DEF IInv, TypeOK, PlanRow, Advances, Adv
<1>3. Len(plan[q].log) \in Nat /\ Len(plan'[q].log) \in Nat
  BY <1>2
<1>4. i \in (Len(plan[q].log) + 1)..Len(plan'[q].log)
  BY <1>1, <1>3 DEF Refilled
<1> QED  BY <1>4 DEF HostAhead

\* No row changes.
LEMMA RowsStill ==
    ASSUME IInv, plan' = plan
    PROVE  /\ plan' \in [Plans -> PlanRow] /\ Advances /\ Fills /\ Spawns
           /\ \A q \in Plans : plan[q].status = "absent" => plan'[q] = plan[q]
<1>1. plan \in [Plans -> PlanRow] /\ \A q \in Plans : plan[q].log \in Seq(Outcomes)
  BY DEF IInv, TypeOK, PlanRow
<1>2. Advances
  BY <1>1, AdvSame DEF Advances
<1>3. \A q \in Plans : HostAhead(q, plan[q].log, plan'[q].log)
  BY <1>1, AheadSame
<1>4. Fills
  BY <1>2, <1>3, HostFills
<1> QED  BY <1>1, <1>2, <1>4 DEF Spawns

\* One row is written.
LEMMA RowMoves ==
    ASSUME IInv, NEW p \in Plans, NEW row, plan' = [plan EXCEPT ![p] = row],
           Adv(plan[p], row)
    PROVE  /\ plan' \in [Plans -> PlanRow] /\ Advances /\ plan'[p] = row
           /\ \A q \in Plans : q # p => plan'[q] = plan[q]
<1>1. plan \in [Plans -> PlanRow] /\ row \in PlanRow
  BY DEF IInv, TypeOK, Adv
<1>2. /\ plan' \in [Plans -> PlanRow] /\ plan'[p] = row
      /\ \A q \in Plans : q # p => plan'[q] = plan[q]
  BY <1>1
<1>3. \A q \in Plans : q # p => Adv(plan[q], plan'[q])
  BY <1>1, <1>2, AdvSame
<1> QED  BY <1>2, <1>3 DEF Advances

\* One live row is written, and continues by Host effects.
LEMMA RowWritten ==
    ASSUME IInv, NEW p \in Plans, NEW row, plan' = [plan EXCEPT ![p] = row],
           Adv(plan[p], row), plan[p].status \in Live,
           HostAhead(p, plan[p].log, row.log)
    PROVE  /\ plan' \in [Plans -> PlanRow] /\ Advances /\ Fills /\ Spawns
           /\ plan'[p] = row
           /\ \A q \in Plans : plan[q].status = "absent" => plan'[q] = plan[q]
<1>1. /\ plan' \in [Plans -> PlanRow] /\ Advances /\ plan'[p] = row
      /\ \A q \in Plans : q # p => plan'[q] = plan[q]
  BY RowMoves
<1>2. \A q \in Plans : plan[q].log \in Seq(Outcomes)
  BY DEF IInv, TypeOK, PlanRow
<1>3. \A q \in Plans : HostAhead(q, plan[q].log, plan'[q].log)
  BY <1>1, <1>2, AheadSame
<1>4. Fills
  BY <1>1, <1>3, HostFills
<1>5. \A q \in Plans : plan[q].status = "absent" => plan'[q] = plan[q]
  BY <1>1 DEF Live
<1> QED  BY <1>1, <1>4, <1>5 DEF Spawns

\* After the cancellation nothing is inserted and no group opens.
LEMMA StaysClosed ==
    ASSUME IInv, Advances, owner' = "cancelled" => owner = "cancelled",
           \A q \in Plans : plan[q].status = "absent" =>
               plan'[q] = plan[q] \/ owner = "live",
           \A e \in Slots : group'[e].status = "running" =>
               group[e].status = "running" \/ owner = "live"
    PROVE  CancellationIsFinal'
<1> SUFFICES ASSUME owner = "cancelled"
             PROVE  /\ \A p \in Plans : plan'[p].status \notin Live
                    /\ \A e \in Slots : group'[e].status # "running"
  BY DEF CancellationIsFinal
<1>1. /\ \A p \in Plans : plan[p].status \notin Live
      /\ \A e \in Slots : group[e].status # "running"
  BY DEF IInv, CancellationIsFinal
<1>2. ASSUME NEW p \in Plans PROVE plan'[p].status \notin Live
  <2>1. plan[p].status \in {"absent"} \cup Terminal
    BY <1>1 DEF IInv, TypeOK, PlanRow
  <2>2. plan'[p] = plan[p]
    BY <2>1 DEF Advances, Adv
  <2> QED  BY <1>1, <2>2
<1> QED  BY <1>1, <1>2

\* One worker moves.
LEMMA WorkerMoves ==
    ASSUME TypeOK, NEW w \in Workers, NEW r \in WorkerRow,
           worker' = [worker EXCEPT ![w] = r], DriverOK(w)', JoinerOK(w)'
    PROVE  worker' \in [Workers -> WorkerRow] /\ WorkerSteps
<1>1. worker \in [Workers -> WorkerRow]
  BY DEF TypeOK
<1>2. \A v \in Workers : v # w => worker'[v] = worker[v]
  BY <1>1
<1>3. worker' \in [Workers -> WorkerRow]
  BY <1>1
<1> QED  BY <1>2, <1>3 DEF WorkerSteps

\* A worker goes.
LEMMA Released ==
    ASSUME TypeOK, NEW w \in Workers, Release(w)
    PROVE  worker' \in [Workers -> WorkerRow] /\ WorkerSteps
<1>1. worker' = [worker EXCEPT ![w] = Idle] /\ Idle \in WorkerRow /\ Idle.pc = "idle"
  BY FreshRows DEF Release
<1>2. worker'[w] = Idle
  BY <1>1 DEF TypeOK
<1>3. DriverOK(w)' /\ JoinerOK(w)'
  BY <1>1, <1>2 DEF DriverOK, JoinerOK, Driving, Joining
<1> QED  BY <1>1, <1>3, WorkerMoves

\* What a worker holds.
LEMMA WorkerTypes ==
    ASSUME IInv, NEW w \in Workers
    PROVE  /\ TypeOK /\ worker[w] \in WorkerRow /\ worker[w].plan \in Plans
           /\ worker[w].rev \in Nat /\ worker[w].at \in Nat
           /\ worker[w].log \in Seq(Outcomes) /\ Len(worker[w].log) \in Nat
           /\ plan[worker[w].plan] \in PlanRow /\ plan[worker[w].plan].rev \in Nat
           /\ plan[worker[w].plan].log \in Seq(Outcomes)
           /\ Len(plan[worker[w].plan].log) \in Nat
           /\ DriverOK(w) /\ JoinerOK(w)
<1>1. TypeOK /\ DriverOK(w) /\ JoinerOK(w)
  BY DEF IInv, WorkersOK
<1>2. worker[w] \in WorkerRow
  BY <1>1 DEF TypeOK
<1>3. /\ worker[w].plan \in Plans /\ worker[w].rev \in Nat /\ worker[w].at \in Nat
      /\ worker[w].log \in Seq(Outcomes)
  BY <1>2 DEF WorkerRow
<1>4. plan[worker[w].plan] \in PlanRow
  BY <1>1, <1>3 DEF TypeOK
<1>5. plan[worker[w].plan].rev \in Nat /\ plan[worker[w].plan].log \in Seq(Outcomes)
  BY <1>4 DEF PlanRow
<1>6. Len(worker[w].log) \in Nat /\ Len(plan[worker[w].plan].log) \in Nat
  BY <1>3, <1>5
<1> QED  BY <1>1, <1>2, <1>3, <1>4, <1>5, <1>6

\* A program that stands at an effect stands at one of its own.
LEMMA NextIsOwn ==
    ASSUME NEW p \in Plans, NEW l \in Seq(Outcomes), NextEffect(p, l) \in Effects
    PROVE  /\ Len(l) + 1 \in DOMAIN Program[p] /\ <<p, Len(l) + 1>> \in Slots
           /\ Program[p][Len(l) + 1] = NextEffect(p, l)
<1>1. Len(l) \in Nat /\ Program[p] \in Seq(Effects) /\ Len(Program[p]) \in Nat
  BY ProgramAssumption
<1>2. Len(l) < Len(Program[p]) /\ Program[p][Len(l) + 1] = NextEffect(p, l)
  BY DEF NextEffect, Effects
<1>3. Len(l) + 1 \in DOMAIN Program[p]
  BY <1>1, <1>2
<1> QED  BY <1>2, <1>3, SlotOf

\* The effect a worker stands at.
LEMMA AtOwn ==
    ASSUME IInv, NEW w \in Workers, Effect(w) \in Effects
    PROVE  /\ Len(worker[w].log) + 1 \in DOMAIN Program[worker[w].plan]
           /\ At(w) \in Slots /\ Program[worker[w].plan][Len(worker[w].log) + 1] = Effect(w)
           /\ At(w)[1] = worker[w].plan /\ At(w)[2] = Len(worker[w].log) + 1
<1>1. worker[w].plan \in Plans /\ worker[w].log \in Seq(Outcomes)
  BY WorkerTypes
<1> QED  BY <1>1, NextIsOwn DEF Effect, At

-----------------------------------------------------------------------------
(* The driver. *)

\* A write under the fence continues the row by Host effects.
LEMMA DriverWrites ==
    ASSUME IInv, NEW w \in Workers, worker[w].pc \in Driving, Fenced(w),
           NEW s \in Live \cup Terminal, Write(w, s)
    PROVE  /\ plan' \in [Plans -> PlanRow] /\ Advances /\ Fills /\ Spawns
           /\ \A q \in Plans : plan[q].status = "absent" => plan'[q] = plan[q]
           /\ plan'[worker[w].plan].status = s
           /\ plan'[worker[w].plan].log = worker[w].log
           /\ plan'[worker[w].plan].rev = worker[w].rev + 1
<1> DEFINE p == worker[w].plan
           row == Settle(plan[p], s, worker[w].log)
<1>1. /\ p \in Plans /\ plan[p] \in PlanRow /\ worker[w].log \in Seq(Outcomes)
      /\ plan[p].rev = worker[w].rev /\ plan[p].status = "running" /\ DriverOK(w)
  BY WorkerTypes DEF Fenced
<1>2. HostAhead(p, plan[p].log, worker[w].log)
  BY <1>1 DEF DriverOK
<1>3. /\ row.status = s /\ row.log = worker[w].log /\ row.rev = worker[w].rev + 1
  BY <1>1, SettleRow
<1>4. Adv(plan[p], row)
  BY <1>1, <1>2, SettleAdv DEF HostAhead, Live
<1>5. plan' = [plan EXCEPT ![p] = row]
  BY DEF Write
<1> HIDE DEF row
<1>6. /\ plan' \in [Plans -> PlanRow] /\ Advances /\ Fills /\ Spawns /\ plan'[p] = row
      /\ \A q \in Plans : plan[q].status = "absent" => plan'[q] = plan[q]
  BY <1>1, <1>2, <1>3, <1>4, <1>5, RowWritten DEF Live
<1> QED  BY <1>3, <1>6

\* A suspension reaches the effect it is on.
LEMMA SuspendReaches ==
    ASSUME NEW p, NEW i, plan'[p].status = "waiting", Len(plan'[p].log) + 1 = i
    PROVE  Reached(p, i)'
BY DEF Reached, SuspendedAt

\* A hand-off: the child and the suspension in one step.
LEMMA HandsOff ==
    ASSUME IInv, NEW w \in Workers, worker[w].pc \in Driving, Fenced(w),
           Effect(w) \in Effects, Write(w, "waiting"), NEW s \in ChildStatus,
           child' = [child EXCEPT ![At(w)] = IF @ = "absent" THEN s ELSE @],
           Release(w), UNCHANGED <<owner, group, receipt, faults>>
    PROVE  Step
<1>1. TypeOK /\ At(w) \in Slots /\ worker[w].plan \in Plans
      /\ At(w)[1] = worker[w].plan /\ At(w)[2] = Len(worker[w].log) + 1
  BY WorkerTypes, AtOwn
<1>2. /\ plan' \in [Plans -> PlanRow] /\ Advances /\ Fills /\ Spawns
      /\ \A q \in Plans : plan[q].status = "absent" => plan'[q] = plan[q]
      /\ plan'[worker[w].plan].status = "waiting"
      /\ plan'[worker[w].plan].log = worker[w].log
  BY DriverWrites DEF Live
<1>3. worker' \in [Workers -> WorkerRow] /\ WorkerSteps
  BY <1>1, Released
<1>4. CancellationIsFinal'
  BY <1>2, StaysClosed
<1>5. child' \in [Slots -> ChildStatus]
  BY <1>1 DEF TypeOK
<1>6. PICK e \in Slots : e = At(w)
  BY <1>1
<1>7. /\ \A f \in Slots : f # e => child'[f] = child[f]
      /\ child[e] # "absent" => child'[e] = child[e]
  BY <1>1, <1>6 DEF TypeOK
<1>8. Reached(e[1], e[2])'
  BY <1>1, <1>2, <1>6, SuspendReaches
<1>9. ChildSteps
  BY <1>6, <1>7, <1>8 DEF ChildSteps, Terminal
<1>10. GroupSteps
  BY DEF GroupSteps
<1>11. TypeOK'
  BY <1>1, <1>2, <1>3, <1>5 DEF TypeOK
<1> QED  BY <1>2, <1>3, <1>4, <1>9, <1>10, <1>11 DEF Step

\* A step that leaves children and groups alone.
LEMMA PlainStep ==
    ASSUME IInv, plan' \in [Plans -> PlanRow], Advances, Fills, Spawns,
           \A q \in Plans : plan[q].status = "absent" =>
               plan'[q] = plan[q] \/ owner = "live",
           worker' \in [Workers -> WorkerRow], WorkerSteps,
           owner' = owner \/ owner' = "superseded", group' = group, child' = child,
           receipt' \in [Slots -> Nat], faults' \in 0..MaxFaults
    PROVE  Step
<1>1. CancellationIsFinal'
  BY StaysClosed
<1>2. TypeOK'
  BY DEF IInv, TypeOK
<1>3. GroupSteps /\ ChildSteps
  BY DEF GroupSteps, ChildSteps
<1> QED  BY <1>1, <1>2, <1>3 DEF Step

\* Counted faults stay within their bound.
LEMMA FaultBound ==
    ASSUME TypeOK
    PROVE  /\ faults \in 0..MaxFaults
           /\ faults < MaxFaults => faults + 1 \in 0..MaxFaults
BY BoundsAssumption DEF TypeOK

\* A Job and the suspension (create_execution_job_and_suspend_plan).
LEMMA HandOffCallStep ==
    ASSUME IInv, NEW w \in Workers, HandOffCall(w) PROVE Step
BY HandsOff DEF HandOffCall, Driving, Effects, ChildStatus

\* An Evaluation and the suspension (create_evaluation_and_suspend_plan).
LEMMA HandOffInferStep ==
    ASSUME IInv, NEW w \in Workers, HandOffInfer(w) PROVE Step
BY HandsOff DEF HandOffInfer, Driving, Effects, ChildStatus

\* A driver writes and goes.
LEMMA WriteAndGo ==
    ASSUME IInv, NEW w \in Workers, worker[w].pc \in Driving, Fenced(w),
           NEW s \in Live \cup Terminal, Write(w, s), Release(w),
           UNCHANGED <<owner, group, child, receipt, faults>>
    PROVE  Step
<1>1. TypeOK
  BY DEF IInv
<1>2. /\ plan' \in [Plans -> PlanRow] /\ Advances /\ Fills /\ Spawns
      /\ \A q \in Plans : plan[q].status = "absent" => plan'[q] = plan[q]
  BY DriverWrites
<1>3. worker' \in [Workers -> WorkerRow] /\ WorkerSteps
  BY <1>1, Released
<1>4. receipt' \in [Slots -> Nat] /\ faults' \in 0..MaxFaults
  BY <1>1 DEF TypeOK
<1> QED  BY <1>2, <1>3, <1>4, PlainStep

\* A call that cannot be planned ends the program.
LEMMA CallRefusedStep ==
    ASSUME IInv, NEW w \in Workers, CallRefused(w) PROVE Step
BY WriteAndGo DEF CallRefused, Driving, Terminal

\* The program ends (finish_plan_execution).
LEMMA FinishStep ==
    ASSUME IInv, NEW w \in Workers, Finish(w) PROVE Step
<1>1. PICK s \in Live \cup Terminal : Write(w, s)
  BY DEF Finish, Terminal
<1> QED  BY <1>1, WriteAndGo DEF Finish, Driving

\* No row changes, and the worker goes.
LEMMA JustGo ==
    ASSUME IInv, NEW w \in Workers, Release(w), faults' \in 0..MaxFaults,
           UNCHANGED <<owner, plan, group, child, receipt>>
    PROVE  Step
<1>1. TypeOK /\ receipt' \in [Slots -> Nat]
  BY DEF IInv, TypeOK
<1>2. worker' \in [Workers -> WorkerRow] /\ WorkerSteps
  BY <1>1, Released
<1> QED  BY <1>1, <1>2, RowsStill, PlainStep

\* Steps that only let a worker go.
LEMMA GoingSteps ==
    ASSUME IInv, NEW w \in Workers,
           LoseFence(w) \/ Crash(w) \/ SpawnRefused(w) \/ JoinWaits(w)
    PROVE  Step
<1>1. /\ Release(w) /\ UNCHANGED <<owner, plan, group, child, receipt>>
      /\ faults' = faults \/ (faults < MaxFaults /\ faults' = faults + 1)
  BY DEF LoseFence, Crash, SpawnRefused, JoinWaits
<1>2. faults' \in 0..MaxFaults
  BY <1>1, FaultBound DEF IInv
<1> QED  BY <1>1, <1>2, JustGo

\* No row changes, and the worker moves.
LEMMA JustMove ==
    ASSUME IInv, NEW w \in Workers, NEW r \in WorkerRow,
           worker' = [worker EXCEPT ![w] = r], DriverOK(w)', JoinerOK(w)',
           receipt' \in [Slots -> Nat], faults' \in 0..MaxFaults,
           UNCHANGED <<owner, plan, group, child>>
    PROVE  Step
<1>1. worker' \in [Workers -> WorkerRow] /\ WorkerSteps
  BY WorkerMoves DEF IInv
<1> QED  BY <1>1, RowsStill, PlainStep

\* A log that continues another still does when it grows.
LEMMA AppendExtends ==
    ASSUME NEW a \in Seq(Outcomes), NEW b \in Seq(Outcomes), NEW o \in Outcomes,
           Extends(a, b)
    PROVE  Extends(a, Append(b, o))
<1>1. /\ Len(a) \in Nat /\ Len(b) \in Nat /\ Len(Append(b, o)) = Len(b) + 1
      /\ \A i \in 1..Len(b) : Append(b, o)[i] = b[i]
  OBVIOUS
<1>2. Len(a) <= Len(b) /\ \A i \in 1..Len(a) : b[i] = a[i]
  BY DEF Extends
<1>3. \A i \in 1..Len(a) : i \in 1..Len(b)
  BY <1>1, <1>2
<1>4. \A i \in 1..Len(a) : Append(b, o)[i] = a[i]
  BY <1>1, <1>2, <1>3
<1>5. Len(a) <= Len(Append(b, o))
  BY <1>1, <1>2
<1> QED  BY <1>4, <1>5 DEF Extends

\* A driver that learns the outcome of a Host effect is further ahead of its row.
LEMMA Learns ==
    ASSUME IInv, NEW w \in Workers, worker[w].pc \in Driving, Effect(w) = "host",
           NEW o \in Outcomes, Learn(w, o),
           receipt' \in [Slots -> Nat], faults' \in 0..MaxFaults,
           UNCHANGED <<owner, plan, group, child>>
    PROVE  Step
<1> DEFINE p == worker[w].plan
           l == Append(worker[w].log, o)
           r == [worker[w] EXCEPT !.log = l, !.pc = "drive"]
<1>1. /\ worker[w] \in WorkerRow /\ p \in Plans /\ worker[w].log \in Seq(Outcomes)
      /\ Len(worker[w].log) \in Nat /\ DriverOK(w) /\ TypeOK
      /\ plan[p].log \in Seq(Outcomes) /\ Len(plan[p].log) \in Nat
  BY WorkerTypes
<1>2. /\ l \in Seq(Outcomes) /\ Len(l) = Len(worker[w].log) + 1
      /\ \A i \in 1..Len(worker[w].log) : l[i] = worker[w].log[i]
  BY <1>1
<1> HIDE DEF l
<1>3. /\ r \in WorkerRow /\ r.log = l /\ r.pc = "drive" /\ r.plan = p
      /\ r.rev = worker[w].rev /\ r.at = worker[w].at
  BY <1>1, <1>2 DEF WorkerRow
<1>4. worker' = [worker EXCEPT ![w] = r]
  BY Zenon DEF Learn, l
<1> HIDE DEF r
<1>5. worker'[w] = r
  BY <1>1, <1>3, <1>4 DEF TypeOK
<1>6. /\ Len(worker[w].log) + 1 \in DOMAIN Program[p]
      /\ Program[p][Len(worker[w].log) + 1] = "host"
  BY AtOwn DEF Effects
<1>7. HostAhead(p, plan[p].log, worker[w].log) => HostAhead(p, plan[p].log, l)
  <2> SUFFICES ASSUME HostAhead(p, plan[p].log, worker[w].log)
               PROVE  HostAhead(p, plan[p].log, l)
    OBVIOUS
  <2>1. Extends(plan[p].log, l)
    BY <1>1, AppendExtends DEF HostAhead, l
  <2>2. ASSUME NEW i \in (Len(plan[p].log) + 1)..Len(l)
        PROVE  i \in DOMAIN Program[p] /\ Program[p][i] = "host"
    <3>1. \/ i = Len(worker[w].log) + 1
          \/ i \in (Len(plan[p].log) + 1)..Len(worker[w].log)
      BY <1>1, <1>2
    <3> QED  BY <1>6, <3>1 DEF HostAhead
  <2> QED  BY <2>1, <2>2 DEF HostAhead
<1>8. DriverOK(w)'
  BY <1>1, <1>3, <1>5, <1>7 DEF DriverOK, Driving
<1>9. JoinerOK(w)'
  BY <1>3, <1>5 DEF JoinerOK, Joining
<1> QED  BY <1>3, <1>4, <1>8, <1>9, JustMove

\* The outcome of a Host effect reaches the machine in memory.
LEMMA HostSteps ==
    ASSUME IInv, NEW w \in Workers,
           ReplayReceipt(w) \/ HostRefused(w) \/ AppendReceipt(w)
    PROVE  Step
<1>1. /\ TypeOK /\ DriverOK(w) /\ worker[w].rev \in Nat
      /\ receipt \in [Slots -> Nat] /\ faults \in 0..MaxFaults
  BY WorkerTypes DEF TypeOK
<1>2. worker[w].pc \in Driving /\ Effect(w) = "host"
  BY <1>1 DEF ReplayReceipt, HostRefused, AppendReceipt, DriverOK, Driving
<1>3. UNCHANGED <<owner, plan, group, child, faults>>
  BY DEF ReplayReceipt, HostRefused, AppendReceipt
<1>4. receipt' \in [Slots -> Nat]
  <2>1. receipt' = receipt \/ receipt' = [receipt EXCEPT ![At(w)] = worker[w].rev]
    BY DEF ReplayReceipt, HostRefused, AppendReceipt
  <2> QED  BY <1>1, <2>1
<1>5. PICK o \in Outcomes : Learn(w, o)
  BY DEF ReplayReceipt, HostRefused, AppendReceipt, Outcomes
<1> QED  BY <1>1, <1>2, <1>3, <1>4, <1>5, Learns

\* A Host operation without an Event is run.
LEMMA RunHostStep ==
    ASSUME IInv, NEW w \in Workers, RunHost(w) PROVE Step
<1> DEFINE r == [worker[w] EXCEPT !.pc = "host"]
<1>1. worker[w] \in WorkerRow /\ DriverOK(w) /\ TypeOK
  BY WorkerTypes
<1>2. worker' = [worker EXCEPT ![w] = r]
  BY Zenon DEF RunHost
<1>3. /\ r \in WorkerRow /\ r.pc = "host" /\ r.plan = worker[w].plan
      /\ r.rev = worker[w].rev /\ r.log = worker[w].log /\ r.at = worker[w].at
  BY <1>1 DEF WorkerRow
<1> HIDE DEF r
<1>4. worker'[w] = r /\ worker[w].pc = "drive" /\ Effect(w) = "host" /\ plan' = plan
  BY <1>1, <1>2, <1>3 DEF TypeOK, RunHost
<1>5. Effect(w)' = Effect(w)
  BY <1>3, <1>4 DEF Effect
<1>6. DriverOK(w)'
  BY <1>1, <1>3, <1>4, <1>5 DEF DriverOK, Driving
<1>7. JoinerOK(w)'
  BY <1>3, <1>4 DEF JoinerOK, Joining
<1>8. receipt' \in [Slots -> Nat] /\ faults' \in 0..MaxFaults
  BY <1>1 DEF TypeOK, RunHost
<1> QED  BY <1>2, <1>3, <1>6, <1>7, <1>8, JustMove DEF RunHost

\* A worker reads a suspended row.
LEMMA ReadStep ==
    ASSUME IInv, NEW w \in Workers, NEW p \in Plans, NEW c \in Joining,
           plan[p].status = "waiting", PendingEffect(p) \in Suspending,
           worker' = [worker EXCEPT ![w] = [pc |-> c, plan |-> p, at |-> 0,
                          rev |-> plan[p].rev, log |-> plan[p].log]],
           faults' \in 0..MaxFaults, UNCHANGED <<owner, plan, group, child, receipt>>
    PROVE  Step
<1> DEFINE r == [pc |-> c, plan |-> p, at |-> 0, rev |-> plan[p].rev,
                 log |-> plan[p].log]
<1>1. TypeOK /\ plan[p] \in PlanRow
  BY DEF IInv, TypeOK
<1>2. plan[p].rev \in Nat /\ plan[p].log \in Seq(Outcomes) /\ plan[p].rev <= plan[p].rev
  BY <1>1 DEF PlanRow
<1>3. /\ r \in WorkerRow /\ r.pc = c /\ r.plan = p /\ r.at = 0 /\ r.rev = plan[p].rev
      /\ r.log = plan[p].log
  BY <1>2 DEF WorkerRow, Joining
<1>4. worker' = [worker EXCEPT ![w] = r]
  OBVIOUS
<1> HIDE DEF r
<1>5. worker'[w] = r /\ plan' = plan
  BY <1>1, <1>3, <1>4 DEF TypeOK
<1>6. Effect(w)' = PendingEffect(p)
  BY <1>3, <1>5 DEF Effect, PendingEffect
<1>7. DriverOK(w)'
  BY <1>3, <1>5 DEF DriverOK, Driving, Joining
<1>8. Reached(worker[w].plan, Len(worker[w].log) + 1)'
  BY <1>3, <1>5 DEF Reached, SuspendedAt
<1>9. JoinerOK(w)'
  BY <1>2, <1>3, <1>5, <1>6, <1>8 DEF JoinerOK
<1>10. receipt' \in [Slots -> Nat]
  BY <1>1 DEF TypeOK
<1> QED  BY <1>3, <1>4, <1>7, <1>9, <1>10, JustMove

\* A suspended row is read, to join or to time out.
LEMMA ReadSteps ==
    ASSUME IInv, NEW w \in Workers, NEW p \in Plans,
           ReadWaiting(w, p) \/ ReadTimeout(w, p)
    PROVE  Step
<1>1. faults' \in 0..MaxFaults
  BY FaultBound DEF IInv, ReadWaiting, ReadTimeout
<1>2. CASE ReadWaiting(w, p)
  <2>1. plan[p].status = "waiting" /\ PendingEffect(p) \in Suspending
    BY <1>2 DEF ReadWaiting, Ready, Suspending
  <2> QED  BY <1>1, <1>2, <2>1, ReadStep DEF ReadWaiting, Joining
<1>3. CASE ReadTimeout(w, p)
  <2>1. plan[p].status = "waiting" /\ PendingEffect(p) \in Suspending
    BY <1>3 DEF ReadTimeout, Suspending
  <2> QED  BY <1>1, <1>3, <2>1, ReadStep DEF ReadTimeout, Joining
<1> QED  BY <1>2, <1>3

\* A claim moves the row to a fresh revision, which is its token.
LEMMA ClaimStep ==
    ASSUME IInv, NEW w \in Workers, NEW p \in Plans, Claim(w, p) PROVE Step
<1> DEFINE n == plan[p].rev + 1
           row == [plan[p] EXCEPT !.status = "running", !.rev = n,
                                  !.leased = TRUE, !.token = n]
           r == [pc |-> "drive", plan |-> p, at |-> 0, rev |-> n,
                 log |-> plan[p].log]
<1>1. /\ TypeOK /\ plan[p] \in PlanRow /\ plan[p].rev \in Nat
      /\ plan[p].log \in Seq(Outcomes) /\ plan[p].status \in {"queued", "running"}
  BY DEF IInv, TypeOK, PlanRow, Claim, Claimable
<1>2. n \in Nat /\ plan[p].rev <= n /\ n # plan[p].rev
  BY <1>1
<1>3. /\ plan' = [plan EXCEPT ![p] = row] /\ worker' = [worker EXCEPT ![w] = r]
  BY Zenon DEF Claim
<1> HIDE DEF n
<1>4. /\ row \in PlanRow /\ row.status = "running" /\ row.rev = n /\ row.token = n
      /\ row.log = plan[p].log
  <2> DEFINE r1 == [plan[p] EXCEPT !.status = "running"]
             r2 == [r1 EXCEPT !.rev = n]
             r3 == [r2 EXCEPT !.leased = TRUE]
             r4 == [r3 EXCEPT !.token = n]
  <2>1. r1 \in PlanRow /\ r1.status = "running" /\ r1.log = plan[p].log
    BY <1>1 DEF PlanRow, Live
  <2> HIDE DEF r1
  <2>2. r2 \in PlanRow /\ r2.status = "running" /\ r2.log = plan[p].log /\ r2.rev = n
    BY <1>2, <2>1 DEF PlanRow
  <2> HIDE DEF r2
  <2>3. r3 \in PlanRow /\ r3.status = "running" /\ r3.log = plan[p].log /\ r3.rev = n
    BY <2>2 DEF PlanRow
  <2> HIDE DEF r3
  <2>4. /\ r4 \in PlanRow /\ r4.status = "running" /\ r4.log = plan[p].log
        /\ r4.rev = n /\ r4.token = n
    BY <1>2, <2>3 DEF PlanRow
  <2>5. row = r4
    BY Zenon DEF r1, r2, r3
  <2> QED  BY <2>4, <2>5
<1>5. r \in WorkerRow /\ r.pc = "drive" /\ r.plan = p /\ r.at = 0 /\ r.rev = n
      /\ r.log = plan[p].log
  BY <1>1, <1>2 DEF WorkerRow
<1> HIDE DEF row, r
<1>6. Extends(plan[p].log, row.log) /\ HostAhead(p, plan[p].log, row.log)
  BY <1>1, <1>4, AheadSame
<1>7. Adv(plan[p], row)
  BY <1>1, <1>2, <1>4, <1>6 DEF Adv, Terminal
<1>8. /\ plan' \in [Plans -> PlanRow] /\ Advances /\ Fills /\ Spawns /\ plan'[p] = row
      /\ \A q \in Plans : plan[q].status = "absent" => plan'[q] = plan[q]
  BY <1>1, <1>3, <1>6, <1>7, RowWritten DEF Live
<1>9. worker'[w] = r
  BY <1>1, <1>3 DEF TypeOK
<1>10. HostAhead(p, plan'[p].log, worker'[w].log)
  BY <1>4, <1>5, <1>6, <1>8, <1>9
<1>11. n <= n
  BY <1>2
<1>12. DriverOK(w)'
  BY <1>4, <1>5, <1>8, <1>9, <1>10, <1>11 DEF DriverOK
<1>13. JoinerOK(w)'
  BY <1>5, <1>9 DEF JoinerOK, Joining
<1>14. worker' \in [Workers -> WorkerRow] /\ WorkerSteps
  BY <1>1, <1>3, <1>5, <1>12, <1>13, WorkerMoves
<1>15. UNCHANGED <<owner, group, child, receipt, faults>>
  BY DEF Claim
<1>16. receipt' \in [Slots -> Nat] /\ faults' \in 0..MaxFaults
  BY <1>1, <1>15 DEF TypeOK
<1> QED  BY <1>8, <1>14, <1>15, <1>16, PlainStep

\* A driver that suspends on children joins them next.
LEMMA SuspendStep ==
    ASSUME IInv, NEW w \in Workers, SuspendOnChildren(w) PROVE Step
<1> DEFINE p == worker[w].plan
           n == worker[w].rev + 1
           r == [worker[w] EXCEPT !.pc = "join", !.rev = n]
<1>1. /\ worker[w] \in WorkerRow /\ DriverOK(w) /\ TypeOK /\ p \in Plans
      /\ worker[w].rev \in Nat /\ worker[w].log \in Seq(Outcomes)
  BY WorkerTypes
<1>2. worker[w].pc \in Driving /\ Fenced(w) /\ Write(w, "waiting")
  BY DEF SuspendOnChildren, Driving
<1>3. Effect(w) \in {"par", "program"} /\ worker[w].at = 0
  BY <1>1, <1>2 DEF SuspendOnChildren, DriverOK
<1>4. /\ plan' \in [Plans -> PlanRow] /\ Advances /\ Fills /\ Spawns
      /\ \A q \in Plans : plan[q].status = "absent" => plan'[q] = plan[q]
      /\ plan'[p].status = "waiting" /\ plan'[p].log = worker[w].log /\ plan'[p].rev = n
  BY <1>2, DriverWrites DEF Live
<1>5. worker' = [worker EXCEPT ![w] = r]
  BY Zenon DEF SuspendOnChildren
<1>6. n \in Nat /\ n <= n
  BY <1>1
<1> HIDE DEF n
<1>7. /\ r \in WorkerRow /\ r.pc = "join" /\ r.plan = p /\ r.rev = n
      /\ r.log = worker[w].log /\ r.at = worker[w].at
  BY <1>1, <1>6 DEF WorkerRow
<1> HIDE DEF r
<1>8. worker'[w] = r
  BY <1>1, <1>5 DEF TypeOK
<1>9. Effect(w)' = Effect(w)
  BY <1>7, <1>8 DEF Effect
<1>10. DriverOK(w)'
  BY <1>7, <1>8 DEF DriverOK, Driving
<1>11. Reached(worker[w].plan, Len(worker[w].log) + 1)'
  BY <1>4, <1>7, <1>8 DEF Reached, SuspendedAt
<1>12. JoinerOK(w)'
  BY <1>3, <1>4, <1>6, <1>7, <1>8, <1>9, <1>11 DEF JoinerOK, Suspending
<1>13. worker' \in [Workers -> WorkerRow] /\ WorkerSteps
  BY <1>1, <1>5, <1>7, <1>10, <1>12, WorkerMoves
<1>14. UNCHANGED <<owner, group, child, receipt, faults>>
  BY DEF SuspendOnChildren
<1>15. receipt' \in [Slots -> Nat] /\ faults' \in 0..MaxFaults
  BY <1>1, <1>14 DEF TypeOK
<1> QED  BY <1>4, <1>13, <1>14, <1>15, PlainStep

-----------------------------------------------------------------------------
(* Rows written without a claim. *)

\* A live row is requeued with its log when it runs, or cancelled.
LEMMA LiveSettled ==
    ASSUME IInv, NEW p \in Plans, plan[p].status \in Live, NEW s \in {"queued", "cancelled"},
           s = "queued" => plan[p].status = "running",
           plan' = [plan EXCEPT ![p] = Settle(plan[p], s, plan[p].log)]
    PROVE  /\ plan' \in [Plans -> PlanRow] /\ Advances /\ Fills /\ Spawns
           /\ \A q \in Plans : plan[q].status = "absent" => plan'[q] = plan[q]
<1> DEFINE row == Settle(plan[p], s, plan[p].log)
<1>1. plan[p] \in PlanRow /\ plan[p].log \in Seq(Outcomes)
  BY DEF IInv, TypeOK, PlanRow
<1>2. Extends(plan[p].log, plan[p].log) /\ HostAhead(p, plan[p].log, plan[p].log)
  BY <1>1, AheadSame
<1>3. s \in Live \cup Terminal
  BY DEF Live, Terminal
<1>4. row.log = plan[p].log
  BY <1>1, <1>3, SettleRow
<1>5. Adv(plan[p], row)
  BY <1>1, <1>2, <1>3, SettleAdv
<1> HIDE DEF row
<1>6. plan' = [plan EXCEPT ![p] = row]
  BY DEF row
<1> QED  BY <1>2, <1>4, <1>5, <1>6, RowWritten

\* An error after the claim releases it (release_plan_execution_claim).
LEMMA DriveErrorStep ==
    ASSUME IInv, NEW w \in Workers, DriveError(w) PROVE Step
<1>1. TypeOK /\ worker[w].plan \in Plans
  BY WorkerTypes
<1>2. worker' \in [Workers -> WorkerRow] /\ WorkerSteps
  BY <1>1, Released DEF DriveError
<1>3. /\ plan' \in [Plans -> PlanRow] /\ Advances /\ Fills /\ Spawns
      /\ \A q \in Plans : plan[q].status = "absent" => plan'[q] = plan[q]
  <2>1. CASE Fenced(w)
    <3>1. plan' = [plan EXCEPT ![worker[w].plan] =
                      Settle(plan[worker[w].plan], "queued", plan[worker[w].plan].log)]
      BY <2>1, Zenon DEF DriveError
    <3> QED  BY <1>1, <2>1, <3>1, LiveSettled DEF Fenced, Live
  <2>2. CASE ~ Fenced(w)
    BY <2>2, RowsStill DEF DriveError
  <2> QED  BY <2>1, <2>2
<1>4. UNCHANGED <<owner, group, child, receipt>>
  BY DEF DriveError
<1>5. receipt' \in [Slots -> Nat] /\ faults' \in 0..MaxFaults
  BY <1>1, <1>4, FaultBound DEF TypeOK, DriveError
<1> QED  BY <1>2, <1>3, <1>4, <1>5, PlainStep

\* An infer that never started is cancelled (cancel_plan_execution).
LEMMA CancelTimedOutStep ==
    ASSUME IInv, NEW w \in Workers, CancelTimedOut(w) PROVE Step
<1> DEFINE p == worker[w].plan
<1>1. TypeOK /\ p \in Plans
  BY WorkerTypes
<1>2. worker' \in [Workers -> WorkerRow] /\ WorkerSteps
  BY <1>1, Released DEF CancelTimedOut
<1>3. /\ plan' \in [Plans -> PlanRow] /\ Advances /\ Fills /\ Spawns
      /\ \A q \in Plans : plan[q].status = "absent" => plan'[q] = plan[q]
  <2>1. CASE plan[p].rev = worker[w].rev /\ plan[p].status \in Live
    <3>1. plan' = [plan EXCEPT ![p] = Settle(plan[p], "cancelled", plan[p].log)]
      BY <2>1, Zenon DEF CancelTimedOut
    <3> QED  BY <1>1, <2>1, <3>1, LiveSettled
  <2>2. CASE ~ (plan[p].rev = worker[w].rev /\ plan[p].status \in Live)
    BY <2>2, RowsStill DEF CancelTimedOut
  <2> QED  BY <2>1, <2>2
<1>4. UNCHANGED <<owner, group, child, receipt, faults>>
  BY DEF CancelTimedOut
<1>5. receipt' \in [Slots -> Nat] /\ faults' \in 0..MaxFaults
  BY <1>1, <1>4 DEF TypeOK
<1> QED  BY <1>2, <1>3, <1>4, <1>5, PlainStep

\* Workers that stand still.
LEMMA WorkersStill ==
    ASSUME TypeOK, worker' = worker
    PROVE  worker' \in [Workers -> WorkerRow] /\ WorkerSteps
BY DEF TypeOK, WorkerSteps

\* The reconciler requeues an expired row (recover_expired_running).
LEMMA RecoverStep ==
    ASSUME IInv, NEW p \in Plans, RecoverExpired(p) PROVE Step
<1>1. TypeOK /\ UNCHANGED <<owner, group, child, receipt, worker, faults>>
  BY DEF IInv, RecoverExpired
<1>2. plan' = [plan EXCEPT ![p] = Settle(plan[p], "queued", plan[p].log)]
  BY Zenon DEF RecoverExpired
<1>3. /\ plan' \in [Plans -> PlanRow] /\ Advances /\ Fills /\ Spawns
      /\ \A q \in Plans : plan[q].status = "absent" => plan'[q] = plan[q]
  BY <1>2, LiveSettled DEF RecoverExpired, Live
<1>4. receipt' \in [Slots -> Nat] /\ faults' \in 0..MaxFaults
  BY <1>1 DEF TypeOK
<1> QED  BY <1>1, <1>3, <1>4, WorkersStill, PlainStep

\* A lease runs out.
LEMMA ExpireStep ==
    ASSUME IInv, NEW p \in Plans, ExpireLease(p) PROVE Step
<1> DEFINE row == [plan[p] EXCEPT !.leased = FALSE]
<1>1. /\ TypeOK /\ UNCHANGED <<owner, group, child, receipt, worker>>
      /\ plan[p] \in PlanRow /\ plan[p].log \in Seq(Outcomes) /\ plan[p].rev \in Nat
      /\ plan[p].status = "running"
  BY DEF IInv, TypeOK, PlanRow, ExpireLease
<1>2. plan' = [plan EXCEPT ![p] = row]
  BY Zenon DEF ExpireLease
<1>3. /\ row \in PlanRow /\ row.status = plan[p].status /\ row.rev = plan[p].rev
      /\ row.token = plan[p].token /\ row.log = plan[p].log
  BY <1>1 DEF PlanRow
<1> HIDE DEF row
<1>4. Extends(plan[p].log, row.log) /\ HostAhead(p, plan[p].log, row.log)
  BY <1>1, <1>3, AheadSame
<1>5. Adv(plan[p], row)
  BY <1>1, <1>3, <1>4 DEF Adv, Terminal
<1>6. /\ plan' \in [Plans -> PlanRow] /\ Advances /\ Fills /\ Spawns
      /\ \A q \in Plans : plan[q].status = "absent" => plan'[q] = plan[q]
  BY <1>1, <1>2, <1>4, <1>5, RowWritten DEF Live
<1>7. receipt' \in [Slots -> Nat] /\ faults' \in 0..MaxFaults
  BY <1>1, FaultBound DEF TypeOK, ExpireLease
<1> QED  BY <1>1, <1>6, <1>7, WorkersStill, PlainStep

\* A row is inserted under a live owner.
LEMMA Inserted ==
    ASSUME IInv, NEW c \in Plans, plan[c].status = "absent", owner = "live",
           plan' = [plan EXCEPT ![c] = NewPlan],
           c = Root \/ \E e \in Slots : c \in Kids(e) /\ Reached(e[1], e[2]),
           UNCHANGED <<owner, group, child, receipt, worker, faults>>
    PROVE  Step
<1>1. TypeOK /\ plan[c] = AbsentPlan
  BY DEF IInv, AbsentRows
<1>2. Adv(plan[c], NewPlan)
  BY <1>1, InsertAdv
<1>3. /\ plan' \in [Plans -> PlanRow] /\ Advances /\ plan'[c] = NewPlan
      /\ \A q \in Plans : q # c => plan'[q] = plan[q]
  BY <1>2, RowMoves
<1>4. \A q \in Plans : HostAhead(q, plan[q].log, plan'[q].log)
  <2>1. \A q \in Plans : plan'[q].log = plan[q].log /\ plan[q].log \in Seq(Outcomes)
    BY <1>1, <1>3, FreshRows DEF TypeOK, PlanRow
  <2> QED  BY <2>1, AheadSame
<1>5. Fills
  BY <1>3, <1>4, HostFills
<1>6. Spawns
  <2>1. ASSUME NEW e \in Slots, Reached(e[1], e[2]) PROVE Reached(e[1], e[2])'
    <3>1. e[1] \in Plans /\ e[2] \in Nat
      BY BoundsAssumption DEF Slots, Steps
    <3> QED  BY <1>1, <1>3, <2>1, <3>1, ReachedStays
  <2> QED  BY <1>3, <2>1 DEF Spawns
<1>7. receipt' \in [Slots -> Nat] /\ faults' \in 0..MaxFaults
  BY <1>1 DEF TypeOK
<1> QED  BY <1>1, <1>3, <1>5, <1>6, <1>7, WorkersStill, PlainStep

\* The program of a model turn is inserted.
LEMMA EnsureStep == ASSUME IInv, Ensure PROVE Step
BY Inserted, PlansAssumption DEF Ensure, Enrols

\* A child program is inserted (materialize_parallel_children).
LEMMA SpawnKidStep ==
    ASSUME IInv, NEW w \in Workers, SpawnKid(w) PROVE Step
<1>1. /\ Effect(w) \in Effects /\ JoinerOK(w) /\ worker[w].pc \in Joining
      /\ worker[w].plan \in Plans
  BY WorkerTypes DEF SpawnKid, Joins, Effects, Joining
<1>2. PICK e \in Slots : e = At(w) /\ Reached(e[1], e[2])
  BY <1>1, AtOwn DEF JoinerOK
<1>5. PICK j \in AbsentKids(w) : plan' = [plan EXCEPT ![Branches[At(w)][j]] = NewPlan]
  BY DEF SpawnKid
<1>6. /\ Branches[At(w)][j] \in Kids(e) /\ Branches[At(w)][j] \in Plans
      /\ plan[Branches[At(w)][j]].status = "absent"
  BY <1>2, <1>5, KidsArePlans DEF AbsentKids, Kids
<1> QED  BY <1>2, <1>5, <1>6, Inserted DEF SpawnKid, Enrols

-----------------------------------------------------------------------------
(* Children, and refills. *)

\* Only children move.
LEMMA ChildMoves ==
    ASSUME IInv, NEW e \in Slots, NEW s \in ChildStatus \ {"absent"},
           child[e] \in {"requested", "open"}, child' = [child EXCEPT ![e] = s],
           UNCHANGED <<owner, plan, group, receipt, worker, faults>>
    PROVE  Step
<1>1. TypeOK /\ child \in [Slots -> ChildStatus]
  BY DEF IInv, TypeOK
<1>2. /\ plan' \in [Plans -> PlanRow] /\ Advances /\ Fills /\ Spawns
      /\ \A q \in Plans : plan[q].status = "absent" => plan'[q] = plan[q]
  BY RowsStill
<1>3. worker' \in [Workers -> WorkerRow] /\ WorkerSteps
  BY <1>1, WorkersStill
<1>4. CancellationIsFinal'
  BY <1>2, StaysClosed
<1>5. child' \in [Slots -> ChildStatus]
  BY <1>1
<1>6. ChildSteps
  BY <1>1 DEF ChildSteps, Terminal
<1>7. GroupSteps
  BY DEF GroupSteps
<1>8. TypeOK'
  BY <1>1, <1>2, <1>3, <1>5 DEF TypeOK
<1> QED  BY <1>2, <1>3, <1>4, <1>6, <1>7, <1>8 DEF Step

\* Jobs and Evaluations proceed.
LEMMA ExternalStep == ASSUME IInv, External PROVE Step
<1>1. ASSUME NEW p \in Plans, NEW i \in Steps, Materialize(p, i) PROVE Step
  <2>1. <<p, i>> \in Slots /\ "open" \in ChildStatus \ {"absent"}
    BY DEF Slots, ChildStatus
  <2> QED  BY <1>1, <2>1, ChildMoves DEF Materialize
<1>2. ASSUME NEW p \in Plans, NEW i \in Steps, NEW s \in Terminal, SettleChild(p, i, s)
      PROVE  Step
  <2>1. <<p, i>> \in Slots /\ s \in ChildStatus \ {"absent"}
    BY DEF Slots, ChildStatus, Terminal
  <2> QED  BY <1>2, <2>1, ChildMoves DEF SettleChild
<1> QED  BY <1>1, <1>2 DEF External

\* A refill: the row is given the outcome of the effect it waits for.
LEMMA Refilling ==
    ASSUME IInv, NEW w \in Workers, worker[w].pc \in Joining,
           NEW p \in Plans, p = worker[w].plan, NEW i, i = Len(worker[w].log) + 1,
           NEW o \in Outcomes, Resume(w, o),
           UNCHANGED <<owner, group, child, receipt, faults>>,
           (/\ MayResume(w) /\ plan'[p].log[i] = o
            /\ \A q \in Plans : plan[q].status \in Terminal => plan'[q] = plan[q])
             => Given(p, i)'
    PROVE  Step
<1> DEFINE l == Append(plan[p].log, o)
           row == Settle(plan[p], "queued", l)
<1>1. /\ TypeOK /\ plan[p] \in PlanRow /\ plan[p].log \in Seq(Outcomes) /\ JoinerOK(w)
      /\ Len(plan[p].log) \in Nat /\ Release(w)
  BY WorkerTypes DEF Resume
<1>2. worker' \in [Workers -> WorkerRow] /\ WorkerSteps
  BY <1>1, Released
<1>3. receipt' \in [Slots -> Nat] /\ faults' \in 0..MaxFaults
  BY <1>1 DEF TypeOK
<1>4. CASE ~ MayResume(w)
  <2>1. plan' = plan
    BY <1>4 DEF Resume
  <2> QED  BY <1>2, <1>3, <2>1, RowsStill, PlainStep
<1>5. CASE MayResume(w)
  <2>1. plan[p].status = "waiting" /\ plan[p].log = worker[w].log
    BY <1>1, <1>5 DEF MayResume, JoinerOK
  <2>2. /\ l \in Seq(Outcomes) /\ Len(l) = Len(plan[p].log) + 1 /\ l[i] = o
        /\ Len(plan[p].log) < Len(l)
    BY <1>1, <2>1
  <2>3. Extends(plan[p].log, l)
    BY <1>1, AheadSame, AppendExtends
  <2>4. plan' = [plan EXCEPT ![p] = row]
    BY <1>5, <2>1, Zenon DEF Resume
  <2> HIDE DEF l
  <2>5. Adv(plan[p], row)
    BY <1>1, <2>1, <2>2, <2>3, SettleAdv DEF Live
  <2>6. row.log = l
    <3>1. "queued" \in Live \cup Terminal
      BY DEF Live
    <3> QED  BY <1>1, <2>2, <3>1, SettleRow
  <2> HIDE DEF row
  <2>7. /\ plan' \in [Plans -> PlanRow] /\ Advances /\ plan'[p] = row
        /\ \A q \in Plans : q # p => plan'[q] = plan[q]
    BY <2>4, <2>5, RowMoves
  <2>8. \A q \in Plans : plan[q].status \in Terminal => plan'[q] = plan[q]
    BY <2>1, <2>7 DEF Terminal
  <2>9. Given(p, i)'
    BY <1>5, <2>2, <2>6, <2>7, <2>8
  <2>10. Fills
    <3> SUFFICES ASSUME NEW q \in Plans, NEW k \in DOMAIN Program[q],
                        Refilled(q, k)', ~ Refilled(q, k)
                 PROVE  Given(q, k)'
      BY DEF Fills
    <3>1. k \in Nat
      BY SlotOf
    <3>2. q = p
      BY <2>7 DEF Refilled
    <3>3. k <= Len(l) /\ ~ (k <= Len(plan[p].log))
      BY <2>6, <2>7, <3>2 DEF Refilled
    <3>4. k = i
      BY <1>1, <2>1, <2>2, <3>1, <3>3
    <3> QED  BY <2>9, <3>2, <3>4
  <2>11. \A q \in Plans : plan[q].status = "absent" => plan'[q] = plan[q]
    BY <2>1, <2>7
  <2>12. Spawns
    BY <2>11 DEF Spawns
  <2> QED  BY <1>2, <1>3, <2>7, <2>10, <2>11, <2>12, PlainStep
<1> QED  BY <1>4, <1>5

\* A Job or an Evaluation is joined.
LEMMA JoinChildStep ==
    ASSUME IInv, NEW w \in Workers, JoinChild(w) PROVE Step
<1>1. PICK p \in Plans : p = worker[w].plan
  BY WorkerTypes
<1>2. PICK i : i = Len(worker[w].log) + 1
  OBVIOUS
<1>3. PICK o \in OutcomesOf(Effect(w), child[At(w)]) : Resume(w, o)
  BY DEF JoinChild
<1>4. /\ worker[w].pc \in Joining /\ Effect(w) \in {"call", "infer"} /\ Resume(w, o)
      /\ child[At(w)] \in Terminal /\ UNCHANGED <<owner, group, child, receipt, faults>>
  BY <1>3 DEF JoinChild, Joining
<1>5. Program[p][i] = Effect(w) /\ At(w) = <<p, i>>
  BY <1>1, <1>2, <1>4, AtOwn DEF Effects, At
<1>6. /\ o \in Outcomes /\ (o = "ok" => child[<<p, i>>] = "succeeded")
      /\ Effect(w) = "call" => (child[<<p, i>>] = "succeeded" => o = "ok")
  BY <1>3, <1>5 DEF OutcomesOf, DecodedOutcomes, OutcomeOf, Outcomes
<1>7. plan'[p].log[i] = o => Given(p, i)'
  BY <1>4, <1>5, <1>6 DEF Given
<1> QED  BY <1>1, <1>2, <1>4, <1>6, <1>7, Refilling

\* A child program is joined (reconcile_program_child).
LEMMA JoinProgramStep ==
    ASSUME IInv, NEW w \in Workers, JoinProgram(w) PROVE Step
<1>1. PICK p \in Plans : p = worker[w].plan
  BY WorkerTypes
<1>2. PICK i : i = Len(worker[w].log) + 1
  OBVIOUS
<1>3. PICK o \in Outcomes : o = OutcomeOf(plan[NextKid(w)].status)
  BY DEF OutcomeOf, Outcomes
<1>4. /\ worker[w].pc \in Joining /\ Effect(w) = "program" /\ Resume(w, o)
      /\ plan[NextKid(w)].status \in Terminal
      /\ UNCHANGED <<owner, group, child, receipt, faults>>
  BY <1>3 DEF JoinProgram, Joins, Joining
<1>5. /\ Program[p][i] = "program" /\ At(w) = <<p, i>> /\ i \in DOMAIN Program[p]
  BY <1>1, <1>2, <1>4, AtOwn DEF Effects, At
<1>6. worker[w].at = 0 /\ 0 + 1 = 1
  BY <1>4, WorkerTypes DEF JoinerOK
<1>7. PICK c \in Plans : c = Branches[<<p, i>>][1] /\ c = NextKid(w)
  <2>1. Branches[<<p, i>>][1] \in Plans
    BY <1>5, SlotOf, KidsArePlans
  <2> QED  BY <1>5, <1>6, <2>1 DEF NextKid
<1>8. o = "ok" <=> plan[c].status = "succeeded"
  BY <1>3, <1>7 DEF OutcomeOf
<1>9. (/\ plan'[p].log[i] = o
       /\ \A q \in Plans : plan[q].status \in Terminal => plan'[q] = plan[q])
        => Given(p, i)'
  BY <1>4, <1>5, <1>7, <1>8 DEF Given
<1> QED  BY <1>1, <1>2, <1>4, <1>9, Refilling

-----------------------------------------------------------------------------
(* Action Groups. *)

\* The members of a group, as many as its branches.
LEMMA KidsCounted ==
    ASSUME NEW e \in Slots
    PROVE  IsFiniteSet(Kids(e)) /\ Cardinality(Kids(e)) = Len(Branches[e])
<1> DEFINE n == Len(Branches[e])
           f == [j \in 1..n |-> Branches[e][j]]
<1>1. Branches[e] \in Seq(Plans) /\ n \in Nat /\ DOMAIN Branches[e] = 1..n
  BY ProgramAssumption
<1>2. Kids(e) = { Branches[e][j] : j \in 1..n }
  BY <1>1 DEF Kids
<1>3. \A j, k \in 1..n : Branches[e][j] = Branches[e][k] => j = k
  BY <1>1, FamilyAssumption
<1> HIDE DEF n
<1>4. f \in Bijection(1..n, Kids(e))
  BY <1>2, <1>3 DEF Bijection, Injection, Surjection, IsInjective
<1>5. ExistsBijection(1..n, Kids(e))
  BY <1>4 DEF ExistsBijection
<1>6. IsFiniteSet(1..n) /\ Cardinality(1..n) = n
  <2>1. n \in Int /\ 1 \in Int /\ (1 > n => n = 0) /\ n - 1 + 1 = n
    BY <1>1
  <2> QED  BY <2>1, FS_Interval
<1> QED  BY <1>5, <1>6, FS_Bijection DEF n

\* In a settled group every member has a result.
LEMMA SettledIsFull ==
    ASSUME NEW e \in Slots, GroupOK(e), group[e].status = "settled"
    PROVE  \A c \in Kids(e) : group[e].member[c] # "pending"
<1> DEFINE done == { c \in Kids(e) : group[e].member[c] # "pending" }
<1>1. Cardinality(done) = Len(Branches[e])
  BY DEF GroupOK
<1>2. IsFiniteSet(Kids(e)) /\ Cardinality(Kids(e)) = Len(Branches[e])
  BY KidsCounted
<1>3. done \in SUBSET Kids(e)
  OBVIOUS
<1>4. Kids(e) = done
  BY <1>1, <1>2, <1>3, FS_Subset
<1> QED  BY <1>4

\* A par is joined (reconcile_action_group).
LEMMA JoinGroupStep ==
    ASSUME IInv, NEW w \in Workers, JoinGroup(w) PROVE Step
<1>1. PICK p \in Plans : p = worker[w].plan
  BY WorkerTypes
<1>2. PICK i : i = Len(worker[w].log) + 1
  OBVIOUS
<1>3. /\ worker[w].pc \in Joining /\ Effect(w) = "par"
      /\ UNCHANGED <<owner, group, child, receipt, faults>>
  BY DEF JoinGroup, Joins, Joining
<1>4. Program[p][i] = "par" /\ At(w) = <<p, i>> /\ <<p, i>> \in Slots
  BY <1>1, <1>2, <1>3, AtOwn DEF Effects, At
<1>5. CASE ~ JoinMay(w)
  <2>1. Release(w) /\ plan' = plan /\ faults' \in 0..MaxFaults
    BY <1>3, <1>5, WorkerTypes DEF JoinGroup, TypeOK
  <2> QED  BY <1>3, <2>1, JustGo
<1>6. CASE JoinMay(w)
  <2>1. PICK o \in Outcomes : o = JoinOutcome(At(w))
    BY DEF JoinOutcome, Outcomes
  <2>2. Resume(w, o) /\ group[<<p, i>>].status = "settled"
    BY <1>4, <1>6, <2>1 DEF JoinGroup, JoinMay
  <2>3. GroupOK(<<p, i>>)
    BY <1>4 DEF IInv, GroupsOK
  <2>4. \A c \in Kids(<<p, i>>) : group[<<p, i>>].member[c] # "pending"
    BY <1>4, <2>2, <2>3, SettledIsFull
  <2>5. \A c \in Kids(<<p, i>>) : /\ plan[c].status \in Terminal
                                  /\ group[<<p, i>>].member[c] = plan[c].status
    BY <2>3, <2>4 DEF GroupOK
  <2>6. o = "ok" <=> \A c \in Kids(<<p, i>>) : plan[c].status = "succeeded"
    BY <1>4, <2>1 DEF JoinOutcome
  <2>7. ASSUME plan'[p].log[i] = o,
               \A q \in Plans : plan[q].status \in Terminal => plan'[q] = plan[q]
        PROVE  Given(p, i)'
    <3>1. \A c \in Kids(<<p, i>>) : plan'[c] = plan[c]
      BY <1>4, <2>5, <2>7, KidsArePlans
    <3>2. group'[<<p, i>>] = group[<<p, i>>]
      BY <1>3
    <3>3. /\ group'[<<p, i>>].status = "settled"
          /\ \A c \in Kids(<<p, i>>) : /\ plan'[c].status \in Terminal
                                       /\ group'[<<p, i>>].member[c] = plan'[c].status
      BY <2>2, <2>5, <3>1, <3>2
    <3>4. plan'[p].log[i] = "ok"
            <=> \A c \in Kids(<<p, i>>) : plan'[c].status = "succeeded"
      BY <2>6, <2>7, <3>1
    <3> QED  BY <1>4, <3>3, <3>4 DEF Given
  <2> QED  BY <1>1, <1>2, <1>3, <2>2, <2>7, Refilling
<1> QED  BY <1>5, <1>6

\* A step of a group.
LEMMA GroupMoves ==
    ASSUME IInv, NEW e \in Slots, NEW g \in GroupRow, NEW w \in Workers,
           group' = [group EXCEPT ![e] = g], group[e].status # "settled", GroupOK(e)',
           g.status = "running" => group[e].status = "running" \/ owner = "live",
           worker' \in [Workers -> WorkerRow], WorkerSteps,
           UNCHANGED <<owner, plan, child, receipt, faults>>
    PROVE  Step
<1>1. TypeOK /\ group \in [Slots -> GroupRow]
  BY DEF IInv, TypeOK
<1>2. /\ group' \in [Slots -> GroupRow] /\ group'[e] = g
      /\ \A f \in Slots : f # e => group'[f] = group[f]
  BY <1>1
<1>3. /\ plan' \in [Plans -> PlanRow] /\ Advances /\ Fills /\ Spawns
      /\ \A q \in Plans : plan[q].status = "absent" => plan'[q] = plan[q]
  BY RowsStill
<1>4. CancellationIsFinal'
  BY <1>2, <1>3, StaysClosed
<1>5. GroupSteps
  BY <1>2 DEF GroupSteps
<1>6. ChildSteps
  BY DEF ChildSteps
<1>7. TypeOK'
  BY <1>1, <1>2, <1>3 DEF TypeOK
<1> QED  BY <1>3, <1>4, <1>5, <1>6, <1>7 DEF Step

\* The group of a par is created, and the driver goes on to suspend.
LEMMA CreateGroupStep ==
    ASSUME IInv, NEW w \in Workers, CreateGroup(w) PROVE Step
<1> DEFINE r == [worker[w] EXCEPT !.pc = "suspend"]
<1>1. /\ worker[w] \in WorkerRow /\ DriverOK(w) /\ TypeOK
      /\ UNCHANGED <<owner, plan, child, receipt, faults>>
      /\ Effect(w) = "par" /\ worker[w].pc = "drive"
  BY WorkerTypes DEF CreateGroup
<1>2. worker' = [worker EXCEPT ![w] = r]
  BY Zenon DEF CreateGroup
<1>3. /\ r \in WorkerRow /\ r.pc = "suspend" /\ r.plan = worker[w].plan
      /\ r.rev = worker[w].rev /\ r.log = worker[w].log /\ r.at = worker[w].at
  BY <1>1 DEF WorkerRow
<1> HIDE DEF r
<1>4. worker'[w] = r
  BY <1>1, <1>2 DEF TypeOK
<1>5. Effect(w)' = Effect(w)
  BY <1>3, <1>4 DEF Effect
<1>6. DriverOK(w)'
  BY <1>1, <1>3, <1>4, <1>5 DEF DriverOK, Driving
<1>7. JoinerOK(w)'
  BY <1>3, <1>4 DEF JoinerOK, Joining
<1>8. receipt' \in [Slots -> Nat] /\ faults' \in 0..MaxFaults
  BY <1>1 DEF TypeOK
<1>9. CASE UNCHANGED group
  BY <1>1, <1>2, <1>3, <1>6, <1>7, <1>8, <1>9, JustMove
<1>10. CASE /\ group[At(w)].status = "absent" /\ Enrols
            /\ group' = [group EXCEPT ![At(w)].status = "running"]
  <2>1. PICK e \in Slots : e = At(w) /\ Len(Branches[e]) > 0 /\ group[e] \in GroupRow
    <3>1. /\ At(w) \in Slots /\ worker[w].plan \in Plans
          /\ Len(worker[w].log) + 1 \in DOMAIN Program[worker[w].plan]
          /\ Program[worker[w].plan][Len(worker[w].log) + 1] = "par"
      BY <1>1, AtOwn, WorkerTypes DEF Effects
    <3>2. Len(Branches[At(w)]) > 0
      BY <3>1, SlotOf DEF At
    <3> QED  BY <1>1, <3>1, <3>2 DEF TypeOK
  <2> DEFINE g == [group[e] EXCEPT !.status = "running"]
  <2>2. group' = [group EXCEPT ![e] = g]
    BY <1>10, <2>1, Zenon
  <2>3. /\ g \in GroupRow /\ g.status = "running" /\ g.member = group[e].member
        /\ g.count = group[e].count /\ g.settledEvents = group[e].settledEvents
    BY <2>1 DEF GroupRow
  <2> HIDE DEF g
  <2>4. group'[e] = g
    BY <1>1, <2>2 DEF TypeOK
  <2>5. GroupOK(e) /\ group[e].status = "absent"
    BY <1>10, <2>1 DEF IInv, GroupsOK
  <2>6. GroupOK(e)'
    BY <1>1, <2>1, <2>3, <2>4, <2>5 DEF GroupOK
  <2>7. worker' \in [Workers -> WorkerRow] /\ WorkerSteps
    BY <1>1, <1>2, <1>3, <1>6, <1>7, WorkerMoves
  <2> QED  BY <1>1, <1>10, <2>2, <2>3, <2>5, <2>6, <2>7, GroupMoves DEF Enrols
<1> QED  BY <1>9, <1>10 DEF CreateGroup

\* What a first result of a member does to its group.
LEMMA CommitCounts ==
    ASSUME TypeOK, NEW e \in Slots, GroupOK(e), NEW c \in Kids(e),
           plan[c].status \in Terminal, group[e].member[c] = "pending",
           group[e].status \in {"running", "cancelled"},
           plan' = plan, group' = [group EXCEPT ![e] =
               CommitResult(@, c, plan[c].status, Len(Branches[e]))]
    PROVE  /\ GroupOK(e)' /\ group'[e] \in GroupRow
           /\ group'[e].status = "running" => group[e].status = "running"
<1> DEFINE g == group[e]
           n == Len(Branches[e])
           st == plan[c].status
           k == g.count + 1
           s1 == IF SettlesNow(g, n) THEN "settled" ELSE g.status
           v1 == IF SettlesNow(g, n) THEN g.settledEvents + 1 ELSE g.settledEvents
           m1 == [g.member EXCEPT ![c] = st]
           h == [status |-> s1, member |-> m1, count |-> k, settledEvents |-> v1]
<1>1. /\ g \in GroupRow /\ c \in Plans /\ Kids(e) \subseteq Plans
      /\ st \in {"pending"} \cup Terminal /\ n \in Nat
  BY KidsArePlans, ProgramAssumption DEF TypeOK
<1>2. /\ g.count \in Nat /\ g.settledEvents \in Nat
      /\ g.member \in [Plans -> {"pending"} \cup Terminal]
      /\ g = [status |-> g.status, member |-> g.member, count |-> g.count,
              settledEvents |-> g.settledEvents]
  BY <1>1 DEF GroupRow
<1>3. k \in Nat /\ v1 \in Nat
  BY <1>2
<1>4. /\ m1 \in [Plans -> {"pending"} \cup Terminal] /\ m1[c] = st
      /\ \A d \in Plans : d # c => m1[d] = g.member[d]
  BY <1>1, <1>2
<1>5. s1 \in {"absent", "running", "settled", "cancelled"}
  OBVIOUS
<1>6. CommitResult(g, c, st, n) = h
  <2>1. CommitResult(g, c, st, n) =
          [g EXCEPT !.member[c] = st, !.count = k, !.status = s1, !.settledEvents = v1]
    BY Zenon DEF CommitResult
  <2> DEFINE g1 == [g EXCEPT !.member[c] = st]
             g2 == [g1 EXCEPT !.count = k]
             g3 == [g2 EXCEPT !.status = s1]
             g4 == [g3 EXCEPT !.settledEvents = v1]
  <2> HIDE DEF g, n, st, k, s1, v1, m1
  <2>2. g1 = [status |-> g.status, member |-> m1, count |-> g.count,
              settledEvents |-> g.settledEvents]
    BY <1>2 DEF m1
  <2> HIDE DEF g1
  <2>3. g2 = [status |-> g.status, member |-> m1, count |-> k,
              settledEvents |-> g.settledEvents]
    BY <2>2
  <2> HIDE DEF g2
  <2>4. g3 = [status |-> s1, member |-> m1, count |-> k,
              settledEvents |-> g.settledEvents]
    BY <2>3
  <2> HIDE DEF g3
  <2>5. g4 = h
    BY <2>4
  <2>6. CommitResult(g, c, st, n) = g4
    BY <2>1, Zenon DEF g1, g2, g3
  <2> QED  BY <2>5, <2>6
<1>7. group' = [group EXCEPT ![e] = h]
  BY <1>6, Zenon
<1>8. group'[e] = h
  BY <1>7 DEF TypeOK
<1> DEFINE done == { d \in Kids(e) : g.member[d] # "pending" }
           donep == { d \in Kids(e) : m1[d] # "pending" }
<1>9. /\ g.count = Cardinality(done) /\ g.settledEvents = 0
      /\ g.status = "running" => g.count < n
      /\ \A d \in Kids(e) : g.member[d] # "pending" =>
            plan[d].status \in Terminal /\ g.member[d] = plan[d].status
  BY DEF GroupOK
<1>10. k = Cardinality(donep)
  <2>1. IsFiniteSet(done)
    BY KidsCounted, FS_Subset
  <2>2. donep = done \cup {c} /\ c \notin done
    BY <1>1, <1>4 DEF Terminal
  <2> QED  BY <1>9, <2>1, <2>2, FS_AddElement
<1> HIDE DEF g, n, st, k, m1
<1>11. /\ s1 = "settled" => k = n /\ v1 = 1
       /\ s1 # "settled" => v1 = 0
       /\ s1 = "running" => k < n /\ g.status = "running"
  <2>1. g.status # "settled" /\ k = g.count + 1
    BY DEF g, k
  <2> QED  BY <1>1, <1>2, <1>9, <2>1 DEF SettlesNow
<1>12. h \in GroupRow
  BY <1>3, <1>4, <1>5 DEF GroupRow
<1>13. \A d \in Kids(e) : m1[d] # "pending" =>
          plan[d].status \in Terminal /\ m1[d] = plan[d].status
  BY <1>1, <1>4, <1>9 DEF st
<1> HIDE DEF s1, v1
<1>14. /\ group'[e].status = s1 /\ group'[e].member = m1
       /\ group'[e].count = k /\ group'[e].settledEvents = v1
  BY <1>8
<1>15. s1 # "absent"
  BY DEF s1, g
<1>16. GroupOK(e)'
  BY <1>10, <1>11, <1>13, <1>14, <1>15 DEF GroupOK, n
<1> QED  BY <1>8, <1>11, <1>12, <1>14, <1>16 DEF g

\* A member is recorded (commit_action_group_member_result).
LEMMA CommitMemberStep ==
    ASSUME IInv, NEW w \in Workers, CommitMember(w) PROVE Step
<1> DEFINE n == worker[w].at + 1
           r == [worker[w] EXCEPT !.at = n]
<1>1. /\ worker[w] \in WorkerRow /\ JoinerOK(w) /\ TypeOK /\ worker[w].at \in Nat
      /\ UNCHANGED <<owner, plan, child, receipt, faults>>
      /\ Effect(w) = "par" /\ worker[w].pc = "join"
  BY WorkerTypes DEF CommitMember, Joins
<1>0. worker' = [worker EXCEPT ![w] = r]
  BY Zenon DEF CommitMember
<1>2. worker' = [worker EXCEPT ![w] = r] /\ n \in Nat
  BY <1>0, <1>1
<1> HIDE DEF n
<1>3. /\ r \in WorkerRow /\ r.pc = "join" /\ r.plan = worker[w].plan
      /\ r.rev = worker[w].rev /\ r.log = worker[w].log
  BY <1>1, <1>2 DEF WorkerRow
<1> HIDE DEF r
<1>4. worker'[w] = r
  BY <1>1, <1>2 DEF TypeOK
<1>5. Effect(w)' = Effect(w) /\ plan' = plan
  BY <1>1, <1>3, <1>4 DEF Effect
<1>6. DriverOK(w)'
  BY <1>3, <1>4 DEF DriverOK, Driving
<1>7. JoinerOK(w)'
  <2>1. Reached(worker[w].plan, Len(worker[w].log) + 1)'
    BY <1>1, <1>3, <1>4, <1>5 DEF JoinerOK, Joining, Reached, Refilled, SuspendedAt
  <2> QED  BY <1>1, <1>3, <1>4, <1>5, <2>1 DEF JoinerOK, Joining
<1>8. PICK e \in Slots : e = At(w)
  BY <1>1, AtOwn DEF Effects
<1>9. PICK c \in Kids(e) : c = NextKid(w) /\ plan[c].status \in Terminal
  <2>1. Branches[e] \in Seq(Plans) /\ worker[w].at < Len(Branches[e])
    BY <1>8, ProgramAssumption DEF CommitMember
  <2>2. worker[w].at + 1 \in DOMAIN Branches[e]
    BY <1>1, <2>1
  <2> QED  BY <1>8, <2>2 DEF CommitMember, NextKid, Kids
<1>10. group' = [group EXCEPT ![e] =
                    CommitResult(@, c, plan[c].status, Len(Branches[e]))]
  BY <1>8, <1>9 DEF CommitMember
<1>11. worker' \in [Workers -> WorkerRow] /\ WorkerSteps
  BY <1>1, <1>2, <1>3, <1>6, <1>7, WorkerMoves
<1>12. CASE group[e].member[c] # "pending" \/ group[e].status \notin {"running", "cancelled"}
  <2>1. CommitResult(group[e], c, plan[c].status, Len(Branches[e])) = group[e]
    BY <1>12 DEF CommitResult
  <2>2. group' = group
    BY <1>1, <1>10, <2>1 DEF TypeOK
  <2>3. receipt' \in [Slots -> Nat] /\ faults' \in 0..MaxFaults
    BY <1>1 DEF TypeOK
  <2> QED  BY <1>1, <1>2, <1>3, <1>6, <1>7, <2>2, <2>3, JustMove
<1>13. CASE group[e].member[c] = "pending" /\ group[e].status \in {"running", "cancelled"}
  <2>1. GroupOK(e)
    BY DEF IInv, GroupsOK
  <2>2. /\ GroupOK(e)' /\ group'[e] \in GroupRow
        /\ group'[e].status = "running" => group[e].status = "running"
    BY <1>1, <1>9, <1>10, <1>13, <2>1, CommitCounts
  <2>3. group' = [group EXCEPT ![e] = group'[e]]
    BY <1>1, <1>10 DEF TypeOK
  <2>4. PICK g \in GroupRow : g = group'[e]
    BY <2>2
  <2> QED  BY <1>1, <1>11, <1>13, <2>2, <2>3, <2>4, GroupMoves
<1> QED  BY <1>12, <1>13

-----------------------------------------------------------------------------
(* The owner, and the theorems. *)

\* The cancellation of the owner closes every program and every group.
LEMMA CancelOwnerStep == ASSUME IInv, CancelOwner PROVE Step
<1>1. /\ TypeOK /\ plan \in [Plans -> PlanRow] /\ group \in [Slots -> GroupRow]
      /\ UNCHANGED <<child, receipt, worker, faults>> /\ owner' = "cancelled"
  BY DEF IInv, TypeOK, CancelOwner
<1>2. ASSUME NEW p \in Plans
      PROVE  /\ Adv(plan[p], plan'[p]) /\ HostAhead(p, plan[p].log, plan'[p].log)
             /\ plan'[p] \in PlanRow /\ plan'[p].status \notin Live
             /\ plan[p].status = "absent" => plan'[p] = plan[p]
  <2>1. plan[p] \in PlanRow /\ plan[p].log \in Seq(Outcomes)
    BY <1>1 DEF PlanRow
  <2>2. Extends(plan[p].log, plan[p].log) /\ HostAhead(p, plan[p].log, plan[p].log)
    BY <2>1, AheadSame
  <2>3. CASE plan[p].status \in Live
    <3> DEFINE row == Settle(plan[p], "cancelled", plan[p].log)
    <3>1. plan'[p] = row
      BY <2>3 DEF CancelOwner
    <3>2. "cancelled" \in Live \cup Terminal /\ "cancelled" \notin Live
      BY DEF Terminal, Live
    <3>3. row \in PlanRow /\ row.status = "cancelled" /\ row.log = plan[p].log
      BY <2>1, <3>2, SettleRow
    <3>4. Adv(plan[p], row)
      BY <2>1, <2>2, <2>3, <3>2, SettleAdv
    <3> HIDE DEF row
    <3> QED  BY <2>2, <2>3, <3>1, <3>2, <3>3, <3>4 DEF Live
  <2>4. CASE plan[p].status \notin Live
    <3>1. plan'[p] = plan[p]
      BY <2>4 DEF CancelOwner
    <3> QED  BY <2>1, <2>2, <2>4, <3>1, AdvSame
  <2> QED  BY <2>3, <2>4
<1>3. plan' \in [Plans -> PlanRow] /\ Advances
  <2>1. plan' = [p \in Plans |-> plan'[p]]
    BY DEF CancelOwner
  <2> QED  BY <1>2, <2>1 DEF Advances
<1>4. Fills /\ Spawns
  BY <1>2, <1>3, HostFills DEF Spawns
<1>5. ASSUME NEW e \in Slots
      PROVE  /\ group'[e] \in GroupRow /\ group'[e].status # "running"
             /\ group'[e] = group[e] \/ (group[e].status # "settled" /\ GroupOK(e)')
  <2>1. group[e] \in GroupRow /\ GroupOK(e)
    BY <1>1 DEF IInv, GroupsOK
  <2>2. CASE group[e].status # "running"
    <3>1. group'[e] = group[e]
      BY <2>2 DEF CancelOwner
    <3> QED  BY <2>1, <2>2, <3>1
  <2>3. CASE group[e].status = "running"
    <3> DEFINE g == [group[e] EXCEPT !.status = "cancelled"]
    <3>1. group'[e] = g
      BY <2>3 DEF CancelOwner
    <3>2. /\ g \in GroupRow /\ g.status = "cancelled" /\ g.member = group[e].member
          /\ g.count = group[e].count /\ g.settledEvents = group[e].settledEvents
      BY <2>1 DEF GroupRow
    <3> HIDE DEF g
    <3>3. \A c \in Kids(e) : plan[c].status \in Terminal => plan'[c] = plan[c]
      BY <1>3, KidsArePlans DEF Advances, Adv
    <3>4. GroupOK(e)'
      BY <2>1, <2>3, <3>1, <3>2, <3>3 DEF GroupOK
    <3> QED  BY <2>3, <3>1, <3>2, <3>4
  <2> QED  BY <2>2, <2>3
<1>6. group' \in [Slots -> GroupRow] /\ GroupSteps
  <2>1. group' = [e \in Slots |-> group'[e]]
    BY DEF CancelOwner
  <2> QED  BY <1>5, <2>1 DEF GroupSteps
<1>7. CancellationIsFinal'
  BY <1>2, <1>5 DEF CancellationIsFinal
<1>8. worker' \in [Workers -> WorkerRow] /\ WorkerSteps
  BY <1>1, WorkersStill
<1>9. ChildSteps
  BY <1>1 DEF ChildSteps
<1>10. TypeOK'
  BY <1>1, <1>3, <1>6, <1>8 DEF TypeOK
<1> QED  BY <1>3, <1>4, <1>6, <1>7, <1>8, <1>9, <1>10 DEF Step

\* Another generation takes over and touches no program.
LEMMA SupersedeStep == ASSUME IInv, SupersedeOwner PROVE Step
<1>1. /\ TypeOK /\ UNCHANGED <<plan, group, child, receipt, worker, faults>>
      /\ owner' = "superseded"
  BY DEF IInv, SupersedeOwner
<1>2. receipt' \in [Slots -> Nat] /\ faults' \in 0..MaxFaults
  BY <1>1 DEF TypeOK
<1> QED  BY <1>1, <1>2, RowsStill, WorkersStill, PlainStep

\* Every step of the system is one.
LEMMA NextSteps == IInv /\ Next => Step
<1> SUFFICES ASSUME IInv, Next PROVE Step
  OBVIOUS
<1>1. ASSUME NEW w \in Workers, BeginStep(w) \/ DriveStep(w) \/ JoinStep(w) PROVE Step
  BY <1>1, ClaimStep, ReadSteps, HandOffCallStep, HandOffInferStep, CreateGroupStep,
     SuspendStep, HostSteps, RunHostStep, FinishStep, GoingSteps, JoinChildStep,
     SpawnKidStep, CommitMemberStep, JoinGroupStep, JoinProgramStep,
     CancelTimedOutStep, Zenon DEF BeginStep, DriveStep, JoinStep
<1>2. ASSUME NEW w \in Workers, WorkerTrouble(w) PROVE Step
  BY <1>2, CallRefusedStep, HostSteps, DriveErrorStep, GoingSteps, ReadSteps, Zenon
     DEF WorkerTrouble
<1>3. ASSUME NEW p \in Plans, RecoverExpired(p) \/ ExpireLease(p) PROVE Step
  BY <1>3, RecoverStep, ExpireStep
<1> QED  BY <1>1, <1>2, <1>3, EnsureStep, ExternalStep, CancelOwnerStep, SupersedeStep
         DEF Next

\* A step in which nothing changes.
LEMMA StutterSteps == ASSUME IInv, UNCHANGED vars PROVE Step
<1>1. TypeOK /\ UNCHANGED <<owner, plan, group, child, receipt, worker, faults>>
  BY DEF IInv, vars
<1>2. receipt' \in [Slots -> Nat] /\ faults' \in 0..MaxFaults
  BY <1>1 DEF TypeOK
<1> QED  BY <1>1, <1>2, RowsStill, WorkersStill, PlainStep

\* The invariant holds before anything was submitted.
LEMMA InitHolds == Init => IInv
<1> SUFFICES ASSUME Init PROVE IInv
  OBVIOUS
<1>1. TypeOK
  <2>1. 0 \in 0..MaxFaults
    BY BoundsAssumption
  <2> QED  BY <2>1, FreshRows DEF Init, TypeOK, ChildStatus
<1>2. /\ \A p \in Plans : plan[p] = AbsentPlan
      /\ \A e \in Slots : group[e] = AbsentGroup /\ child[e] = "absent"
      /\ \A w \in Workers : worker[w] = Idle
      /\ owner = "live"
  BY DEF Init
<1>3. AbsentRows /\ ChildrenOK /\ KidsOK /\ CancellationIsFinal
  BY <1>2, FreshRows, KidsArePlans DEF AbsentRows, ChildrenOK, KidsOK, CancellationIsFinal
<1>4. WorkersOK
  BY <1>2, FreshRows DEF WorkersOK, DriverOK, JoinerOK, Driving, Joining
<1>5. Refills
  <2> SUFFICES ASSUME NEW p \in Plans, NEW i \in DOMAIN Program[p] PROVE ~ Refilled(p, i)
    BY DEF Refills
  <2>1. i \in 1..Len(Program[p]) /\ Len(Program[p]) \in Nat /\ plan[p].log = << >>
    BY <1>2, SlotOf, ProgramAssumption, FreshRows
  <2>2. Len(plan[p].log) = 0
    BY <2>1
  <2> QED  BY <2>1, <2>2 DEF Refilled
<1>6. ASSUME NEW e \in Slots PROVE GroupOK(e)
  <2>1. /\ group[e].status = "absent" /\ group[e].count = 0 /\ group[e].settledEvents = 0
        /\ \A c \in Plans : group[e].member[c] = "pending"
    BY <1>2 DEF AbsentGroup
  <2>2. { c \in Kids(e) : group[e].member[c] # "pending" } = {}
    BY <2>1, KidsArePlans
  <2>3. Cardinality({ c \in Kids(e) : group[e].member[c] # "pending" }) = 0
    BY <2>2, FS_EmptySet
  <2>4. \A c \in Kids(e) : group[e].member[c] = "pending"
    BY <2>1, KidsArePlans
  <2> QED  BY <2>1, <2>3, <2>4 DEF GroupOK
<1> QED  BY <1>1, <1>3, <1>4, <1>5, <1>6 DEF IInv, GroupsOK

\* The invariant is inductive: it holds whatever programs, workers, faults,
\* cancellations and interleavings of execute_durable_plan there are.
THEOREM Invariant == Spec => []IInv
<1>1. IInv /\ [Next]_vars => IInv'
  BY NextSteps, StutterSteps, Preserved
<1> QED  BY <1>1, InitHolds, PTL DEF Spec

\* Every row, group, child and worker has its type.
THEOREM TypeCorrect == Spec => []TypeOK
BY Invariant, PTL DEF IInv

\* Every refilled outcome is what the child came to, once it had ended: exactly
\* so for a Job and a child program, and never a success a model's Evaluation
\* did not have (resume_execution_job, resume_evaluation,
\* reconcile_program_child).
THEOREM RefillsAreOutcomes == Spec => []RefillIsTheChildsOutcome
<1>1. ASSUME IInv PROVE RefillIsTheChildsOutcome
  <2>1. ASSUME NEW p \in Plans, NEW i \in DOMAIN Program[p], Refilled(p, i)
        PROVE  Given(p, i)
    BY <1>1, <2>1 DEF IInv, Refills
  <2>2. ASSUME NEW p \in Plans, NEW i \in DOMAIN Program[p], Refilled(p, i)
        PROVE  /\ Program[p][i] \in {"call", "infer"} =>
                    /\ child[<<p, i>>] \in Terminal
                    /\ plan[p].log[i] = "ok" => child[<<p, i>>] = "succeeded"
               /\ Program[p][i] = "call" =>
                    (child[<<p, i>>] = "succeeded" => plan[p].log[i] = "ok")
               /\ Program[p][i] = "program" =>
                    /\ plan[Branches[<<p, i>>][1]].status \in Terminal
                    /\ plan[p].log[i] = "ok"
                         <=> plan[Branches[<<p, i>>][1]].status = "succeeded"
    BY <2>1, <2>2 DEF Given
  <2> QED  BY <2>2 DEF RefillIsTheChildsOutcome
<1> QED  BY <1>1, Invariant, PTL

\* No Job, Evaluation or child program exists for an effect its parent has not
\* durably suspended on (create_execution_job_and_suspend_plan,
\* materialize_parallel_children).
THEOREM NothingIsAhead == Spec => []NothingRunsAhead
<1>1. ASSUME IInv PROVE NothingRunsAhead
  <2> SUFFICES ASSUME NEW p \in Plans, NEW i \in DOMAIN Program[p],
                      \/ child[<<p, i>>] # "absent"
                      \/ \E c \in Kids(<<p, i>>) : plan[c].status # "absent"
               PROVE  Refilled(p, i) \/ SuspendedAt(p, i)
    BY DEF NothingRunsAhead
  <2>1. PICK e \in Slots : e = <<p, i>> /\ e[1] = p /\ e[2] = i
    BY SlotOf
  <2>2. Reached(e[1], e[2])
    BY <1>1, <2>1 DEF IInv, ChildrenOK, KidsOK
  <2> QED  BY <2>1, <2>2 DEF Reached
<1> QED  BY <1>1, Invariant, PTL

\* A par is refilled only behind its settled group, with what its branches came
\* to (reconcile_action_group).
THEOREM JoinsAreBarriers == Spec => []JoinIsABarrier
<1>1. IInv => JoinIsABarrier
  BY DEF IInv, Refills, Given, JoinIsABarrier
<1> QED  BY <1>1, Invariant, PTL

\* A group counts each member once and settles once
\* (commit_action_group_member_result).
THEOREM GroupsSettleOnce == Spec => []GroupSettlesOnce
<1>1. IInv => GroupSettlesOnce
  BY DEF IInv, GroupsOK, GroupOK, GroupSettlesOnce
<1> QED  BY <1>1, Invariant, PTL

\* Nothing is live after the owner was cancelled, and nothing is again
\* (control_thread, create_plan_execution).
THEOREM CancellationStays == Spec => []CancellationIsFinal
BY Invariant, PTL DEF IInv

\* A log that continues another begins with it.
LEMMA ExtendsSubSeq ==
    ASSUME NEW a \in Seq(Outcomes), NEW b \in Seq(Outcomes), Extends(a, b)
    PROVE  SubSeq(b, 1, Len(a)) = a
<1>1. Len(a) \in Nat /\ Len(b) \in Nat /\ Len(a) <= Len(b)
      /\ \A i \in 1..Len(a) : b[i] = a[i]
  BY DEF Extends
<1> QED  BY <1>1

\* No late write or second refill takes a machine back, and an ended program
\* never changes: the fences of plan_execution.rs suffice.
THEOREM MachinesOnlyAdvance == Spec => MachineOnlyAdvances
<1>1. ASSUME IInv, [Next]_vars
      PROVE  \A p \in Plans :
                /\ Len(plan[p].log) <= Len(plan'[p].log)
                /\ SubSeq(plan'[p].log, 1, Len(plan[p].log)) = plan[p].log
                /\ plan[p].status \in Terminal => plan'[p] = plan[p]
  <2>1. Advances /\ TypeOK
    BY <1>1, NextSteps, StutterSteps DEF Step, IInv
  <2> SUFFICES ASSUME NEW p \in Plans
               PROVE  /\ Len(plan[p].log) <= Len(plan'[p].log)
                      /\ SubSeq(plan'[p].log, 1, Len(plan[p].log)) = plan[p].log
                      /\ plan[p].status \in Terminal => plan'[p] = plan[p]
    OBVIOUS
  <2>2. /\ plan[p].log \in Seq(Outcomes) /\ plan'[p].log \in Seq(Outcomes)
        /\ Extends(plan[p].log, plan'[p].log)
        /\ plan[p].status \in Terminal => plan'[p] = plan[p]
    BY <2>1 DEF TypeOK, Advances, Adv, PlanRow
  <2> QED  BY <2>2, ExtendsSubSeq DEF Extends
<1> QED  BY <1>1, Invariant, PTL DEF Spec, MachineOnlyAdvances
=============================================================================
