---------------------------- MODULE ThreadGroup ----------------------------
(***************************************************************************)
(* A Thread Group: the attached Threads one Evaluation or Thread started     *)
(* together, whose joint verdict it waits for.  Every member ends in a        *)
(* transaction of its own Runtime, which writes its member row, locks the     *)
(* group row, recounts the members and, when the contract is decided, closes  *)
(* the group with its barrier Event and the parent's Signal:                  *)
(* commit_activation_outcome (memory/postgres/activation.rs) when the Thread   *)
(* ends by itself, control_thread (memory/postgres/thread.rs) when it is       *)
(* cancelled.  promote_attached_thread (memory/postgres/schedule.rs) moves a   *)
(* member out of the group, into a group of its own that an Objective waits    *)
(* for.                                                                       *)
(*                                                                          *)
(* Transactions are READ COMMITTED: a member row is seen by others at commit, *)
(* each statement counts what is committed by then, and a row lock is held to *)
(* the end.                                                                  *)
(***************************************************************************)
EXTENDS Naturals, FiniteSets

CONSTANTS Members,       \* the Threads of the group
          RequiredSets,  \* which of them may be required
          Contracts,     \* completion contracts, each [policy, min, max]
          Unset,         \* a contract field that is absent
          NoMember,
          MaxGeneration  \* bound on the generations of the parent

ASSUME MembersAssumption ==
    /\ IsFiniteSet(Members) /\ NoMember \notin Members
    /\ RequiredSets \subseteq (SUBSET Members) \ {{}}
ASSUME ContractsAssumption ==
    /\ Unset \notin Nat
    /\ Contracts \subseteq [policy : {"all", "any"},
                            min : Nat \cup {Unset}, max : Nat \cup {Unset}]
ASSUME GenerationAssumption == MaxGeneration \in Nat

VARIABLES
    thread,    \* the threads rows: lifecycle, and the group they belong to
    member,    \* the thread_group_members rows of the group
    group,     \* the thread_groups row; barriers counts its barrier Events
    contract,  \* policy and completion_contract_json
    target,    \* the Objective's group of a promoted member
    txn,       \* the transaction that is ending a member
    lock,      \* the member whose transaction holds the group row
    parent     \* the waiting Thread

vars == <<thread, member, group, contract, target, txn, lock, parent>>

Terminal == {"completed", "failed", "cancelled"}

\* A Thread may be `completed' where its member row, which also looks at the
\* Thread's completion contract, is `failed'; here only its being open matters.
ThreadRow == [status : {"open", "terminal"}, group : {"source", "target"}]
MemberRow == [status : {"pending"} \cup Terminal, required : BOOLEAN]
GroupRow == [status : {"open", "satisfied", "failed"}, required : Nat,
             terminal : Nat, successful : Nat, barriers : Nat]
TargetRow == [status : {"absent", "open", "satisfied", "failed"},
              waited : BOOLEAN]
TxnRow == [pc : {"idle", "ended", "counted"}, as : Terminal,
           by : {"outcome", "control"}, terminal : Nat, successful : Nat,
           open : BOOLEAN]
\* signals counts the barriers the parent was sent; retried says that it has
\* failed and been opened again.
ParentRow == [status : {"open"} \cup Terminal, gen : Nat, retried : BOOLEAN,
              signals : Nat]

\* The generation of the parent that started the group, which is the group's.
GroupGeneration == 1

TypeOK ==
    /\ thread \in [Members -> ThreadRow]
    /\ member \in [Members -> MemberRow]
    /\ group \in GroupRow
    /\ contract \in Contracts
    /\ target \in [Members -> TargetRow]
    /\ txn \in [Members -> TxnRow]
    /\ lock \in Members \cup {NoMember}
    /\ parent \in ParentRow

Idle == [pc |-> "idle", as |-> "completed", by |-> "outcome", terminal |-> 0,
         successful |-> 0, open |-> FALSE]

\* commit_schedule_transaction creates Threads, group and members together.
Init ==
    /\ thread = [t \in Members |-> [status |-> "open", group |-> "source"]]
    /\ \E required \in RequiredSets :
          /\ member = [t \in Members |->
                         [status |-> "pending", required |-> t \in required]]
          /\ group = [status |-> "open", required |-> Cardinality(required),
                      terminal |-> 0, successful |-> 0, barriers |-> 0]
    /\ contract \in Contracts
    /\ target = [t \in Members |-> [status |-> "absent", waited |-> FALSE]]
    /\ txn = [t \in Members |-> Idle]
    /\ lock = NoMember
    /\ parent = [status |-> "open", gen |-> GroupGeneration, retried |-> FALSE,
                 signals |-> 0]

-----------------------------------------------------------------------------
(* evaluate_thread_group_contract. *)

Less(m, n) == IF m > n THEN m - n ELSE 0      \* saturating_sub

Minimum(required) ==
    IF contract.min # Unset THEN contract.min
    ELSE IF contract.policy = "all" THEN required
    ELSE IF required > 0 THEN 1 ELSE 0

MaximumFailed(required) ==
    IF contract.max # Unset THEN contract.max
    ELSE Less(required, Minimum(required))

\* Mutant: pending members are not counted as possible successes.
EvaluateImpatient(required, terminal, successful) ==
    IF \/ Less(terminal, successful) > MaximumFailed(required)
       \/ terminal > 0 /\ successful < Minimum(required)
    THEN "failed"
    ELSE IF successful >= Minimum(required)
            /\ (contract.policy = "all" => terminal >= required)
         THEN "satisfied" ELSE "open"

Evaluate(required, terminal, successful) ==
    IF \/ Less(terminal, successful) > MaximumFailed(required)
       \/ successful + Less(required, terminal) < Minimum(required)
    THEN "failed"
    ELSE IF successful >= Minimum(required)
            /\ (contract.policy = "all" => terminal >= required)
         THEN "satisfied"
    ELSE IF terminal >= required THEN "failed" ELSE "open"

\* The counting SELECT over a set of member rows.
Counted(rows, statuses) ==
    Cardinality({t \in Members : rows[t].required /\ rows[t].status \in statuses})

-----------------------------------------------------------------------------
(* A member ends. *)

\* The Thread row is locked FOR UPDATE before anything else.
Begin(t) ==
    /\ thread[t].status = "open" /\ txn[t].pc = "idle"
    /\ \E as \in Terminal, by \in {"outcome", "control"} :
          /\ by = "control" => as = "cancelled"
          /\ txn' = [txn EXCEPT ![t] = [Idle EXCEPT !.pc = "ended",
                                                    !.as = as, !.by = by]]
    /\ UNCHANGED <<thread, member, group, contract, target, lock, parent>>

\* The member row as this transaction has written it.
Written(t) == [member EXCEPT ![t].status = txn[t].as]

\* Mutant: the group row is read without FOR UPDATE.
LockIgnored == TRUE

LockFree == lock = NoMember

\* SELECT ... FOR UPDATE of the group row, then the count.
LockAndCount(t) ==
    /\ txn[t].pc = "ended" /\ thread[t].group = "source"
    /\ LockFree
    /\ lock' = t
    /\ txn' = [txn EXCEPT ![t] =
         [@ EXCEPT !.pc = "counted",
                   !.terminal = Counted(Written(t), Terminal),
                   !.successful = Counted(Written(t), {"completed"}),
                   !.open = group.status = "open"]]
    /\ UNCHANGED <<thread, member, group, contract, target, parent>>

\* The parent is sent the barrier only while it is open, in whichever
\* generation it is by then.
Notified == IF parent.status = "open" THEN [parent EXCEPT !.signals = @ + 1]
                                      ELSE parent

\* The counters, the verdict and, when it is final, the barrier.
Decided(terminal, successful) ==
    LET status == Evaluate(group.required, terminal, successful)
    IN [group EXCEPT !.terminal = terminal, !.successful = successful,
                     !.status = status,
                     !.barriers = IF status = "open" THEN @ ELSE @ + 1]

\* A group that is closed keeps its verdict; control_thread still moves the
\* counters of one, commit_activation_outcome leaves the row alone.
Closed(t) ==
    IF txn[t].by = "control"
    THEN [group EXCEPT !.terminal = txn[t].terminal,
                       !.successful = txn[t].successful]
    ELSE group

Commit(t) ==
    /\ txn[t].pc = "counted"
    /\ thread' = [thread EXCEPT ![t].status = "terminal"]
    /\ member' = Written(t)
    /\ group' = IF txn[t].open THEN Decided(txn[t].terminal, txn[t].successful)
                             ELSE Closed(t)
    /\ parent' = IF group'.barriers > group.barriers THEN Notified ELSE parent
    /\ lock' = NoMember
    /\ txn' = [txn EXCEPT ![t] = Idle]
    /\ UNCHANGED <<contract, target>>

\* The transaction is rolled back: the connection or the Runtime is lost, or
\* the parent turned out to be terminal when the Signal was inserted.
Abort(t) ==
    /\ txn[t].pc # "idle"
    /\ txn' = [txn EXCEPT ![t] = Idle]
    /\ lock' = IF lock = t THEN NoMember ELSE lock
    /\ UNCHANGED <<thread, member, group, contract, target, parent>>

-----------------------------------------------------------------------------
(* Promotion, and the end of a promoted member. *)

\* Mutant: a group that is closed is not refused.
PromotableAlways(t) == member[t].required /\ member[t].status = "pending"

Promotable(t) ==
    /\ group.status = "open"
    /\ member[t].required /\ member[t].status = "pending"

\* CHECK(required_count > 0) of the group row: the UPDATE that would release the
\* last required member is an error, and the promotion is rolled back.
RequiredCheck(required) == required > 0

\* promote_attached_thread: the member is released, the rest is evaluated
\* again and an Objective waits for the group the Thread moves to.
Promote(t) ==
    /\ thread[t] = [status |-> "open", group |-> "source"]
    /\ txn[t].pc = "idle" /\ LockFree
    /\ Promotable(t)
    /\ thread' = [thread EXCEPT ![t].group = "target"]
    /\ member' = [member EXCEPT ![t] = [status |-> "cancelled",
                                        required |-> FALSE]]
    /\ target' = [target EXCEPT ![t] = [status |-> "open", waited |-> TRUE]]
    /\ LET required == Cardinality({u \in Members : member'[u].required})
           terminal == Counted(member', Terminal)
           successful == Counted(member', {"completed"})
           status == Evaluate(required, terminal, successful)
       IN /\ RequiredCheck(required)
          /\ group' = IF group.status = "open"
                      THEN [status |-> status, required |-> required,
                            terminal |-> terminal, successful |-> successful,
                            barriers |-> group.barriers
                                         + IF status = "open" THEN 0 ELSE 1]
                      ELSE [group EXCEPT !.barriers = @ + 1]
          /\ parent' = IF status = "open" THEN parent ELSE Notified
    /\ UNCHANGED <<contract, txn, lock>>

\* Mutant: the group id the Thread was created with is used.
RoutedAtCreation(t) == FALSE

\* thread_group_id is read under the Thread's row lock.
Routed(t) == thread[t].group = "target"

\* The single required member decides its group, either way under a contract of
\* the group's own, and the Objective's wait and dependency are settled with it.
CommitPromoted(t) ==
    /\ txn[t].pc = "ended" /\ thread[t].group = "target"
    /\ thread' = [thread EXCEPT ![t].status = "terminal"]
    /\ IF Routed(t)
       THEN \E verdict \in {"satisfied", "failed"} :
               target' = [target EXCEPT ![t] = [status |-> verdict, waited |-> FALSE]]
       ELSE UNCHANGED target
    /\ txn' = [txn EXCEPT ![t] = Idle]
    /\ UNCHANGED <<member, group, contract, lock, parent>>

-----------------------------------------------------------------------------
(* The parent. *)

\* Mutant: the wait for the group is dropped.
NothingOpen == TRUE

\* DeferredByOpenThreadGroups otherwise.  Only groups of the parent's current
\* generation are looked at.
NoOpenGroup ==
    ~ (/\ parent.gen = GroupGeneration
       /\ group.status = "open" /\ group.terminal < group.required)

ParentCompletes ==
    /\ parent.status = "open" /\ NoOpenGroup
    /\ parent' = [parent EXCEPT !.status = "completed"]
    /\ UNCHANGED <<thread, member, group, contract, target, txn, lock>>

\* A failure or a cancellation does not wait for the members.
ParentStops ==
    /\ parent.status = "open"
    /\ \E status \in {"failed", "cancelled"} :
          parent' = [parent EXCEPT !.status = status]
    /\ UNCHANGED <<thread, member, group, contract, target, txn, lock>>

\* supersede_thread gives the open parent a new intent and a new generation; the
\* group of the old one and its members are left alone.
ParentSuperseded ==
    /\ parent.status = "open" /\ parent.gen < MaxGeneration
    /\ parent' = [parent EXCEPT !.gen = @ + 1]
    /\ UNCHANGED <<thread, member, group, contract, target, txn, lock>>

\* restart_dialogue_turn opens a parent that failed, again without a look at its
\* groups, and without the barrier of one that closed meanwhile.
ParentRetried ==
    /\ parent.status = "failed" /\ parent.gen < MaxGeneration
    /\ parent' = [parent EXCEPT !.status = "open", !.gen = @ + 1, !.retried = TRUE]
    /\ UNCHANGED <<thread, member, group, contract, target, txn, lock>>

Next ==
    \/ \E t \in Members :
          \/ Begin(t) \/ LockAndCount(t) \/ Commit(t) \/ Abort(t)
          \/ Promote(t) \/ CommitPromoted(t)
    \/ ParentCompletes \/ ParentStops \/ ParentSuperseded \/ ParentRetried

Spec == Init /\ [][Next]_vars

-----------------------------------------------------------------------------
(* Properties *)

Rows(statuses) == Counted(member, statuses)

\* No member has ended or been promoted.  A contract that is decided at once (no
\* success needed, or more than there are members) is accepted all the same:
\* commit_schedule_transaction does not evaluate it.
Untouched == \A t \in Members : thread[t] = [status |-> "open", group |-> "source"]

\* However the ends of its members interleave, an open group is one its
\* committed member rows do not decide, and its counters are theirs: no two
\* transactions each leave the verdict to the other (the FOR UPDATE of
\* commit_activation_outcome and control_thread comes before the count).
NoLostVerdict ==
    group.status = "open" =>
        /\ group.terminal = Rows(Terminal)
        /\ group.successful = Rows({"completed"})
        /\ \/ Evaluate(group.required, group.terminal, group.successful) = "open"
           \/ Untouched

\* The verdict is never contradicted by what the members still do: a failed
\* group could not have succeeded even if every pending member had, a satisfied
\* one has its successes, and under `all' no required member is pending.
VerdictStandsOnRows ==
    /\ group.status = "failed" =>
         \/ Rows({"completed", "pending"}) < Minimum(group.required)
         \/ Rows({"failed", "cancelled"}) > MaximumFailed(group.required)
    /\ group.status = "satisfied" =>
         /\ Rows({"completed"}) >= Minimum(group.required)
         /\ contract.policy = "all" => Rows({"pending"}) = 0

\* A closed group has one barrier Event and an open one none, whatever members
\* end, are cancelled or are promoted afterwards.  The parent was sent at most
\* that one, and an open parent was sent it, also when it was superseded
\* meanwhile, unless it was retried: a group that closed while its parent was
\* failed told nobody (commit_activation_outcome sends only to an open parent,
\* restart_dialogue_turn does not send again).
OneBarrier ==
    /\ group.barriers = IF group.status = "open" THEN 0 ELSE 1
    /\ parent.signals <= group.barriers
    /\ parent.status = "open" /\ ~ parent.retried => parent.signals = group.barriers

\* A parent that completed in the generation that started the group left it
\* decided, and was told the verdict before: it did not complete over members
\* that are still its responsibility.  A parent that was superseded or retried
\* may: the members of its old generation are no longer waited for (the
\* generation in the test of commit_activation_outcome).
CompletedParentWaited ==
    parent.status = "completed" =>
        \/ group.status # "open" /\ parent.signals = 1
        \/ parent.gen > GroupGeneration

\* An Objective waits for a promoted Thread exactly as long as it is open,
\* whichever way it ends, and the group that released it has let it go.
PromotedWaitEnds ==
    \A t \in Members :
        /\ target[t].waited <=> thread[t] = [status |-> "open", group |-> "target"]
        /\ thread[t].group = "target" => ~ member[t].required
=============================================================================
