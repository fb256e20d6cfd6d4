-------------------------- MODULE ThreadGroupProofs --------------------------
(***************************************************************************)
(* What ThreadGroup promises of the verdict of a Thread Group, proved for     *)
(* every set of members and every completion contract.                       *)
(***************************************************************************)
EXTENDS ThreadGroup, FiniteSetTheorems, TLAPS

-----------------------------------------------------------------------------
(* The inductive invariant. *)

RequiredRows(rows) == {t \in Members : rows[t].required}

\* required_count is the number of required member rows, and the CHECK of the
\* table keeps it above zero.
RequiredCounted ==
    group.required = Cardinality(RequiredRows(member)) /\ group.required > 0

\* The transaction that has counted is the one that holds the group row.
LockOwned == \A t \in Members : txn[t].pc = "counted" <=> lock = t

\* A Thread whose end is under way is open, and stays in the group it was
\* counted in.
Ending ==
    \A t \in Members :
        /\ txn[t].pc # "idle" => thread[t].status = "open"
        /\ txn[t].pc = "counted" => thread[t].group = "source"

\* What was counted under the lock is still what the commit will make true.
CountHeld ==
    \A t \in Members : txn[t].pc = "counted" =>
        /\ txn[t].terminal = Counted(Written(t), Terminal)
        /\ txn[t].successful = Counted(Written(t), {"completed"})
        /\ txn[t].open <=> group.status = "open"

\* The row of a member that can still end here is pending.
PendingRow ==
    \A t \in Members :
        thread[t].status = "open" /\ thread[t].group = "source"
            => member[t].status = "pending"

\* A parent in the generation that started the group has not been retried.
FirstGeneration ==
    /\ parent.gen >= GroupGeneration
    /\ parent.retried => parent.gen > GroupGeneration

IInv ==
    /\ TypeOK
    /\ RequiredCounted /\ LockOwned /\ Ending /\ CountHeld /\ PendingRow
    /\ NoLostVerdict /\ VerdictStandsOnRows
    /\ FirstGeneration /\ OneBarrier /\ CompletedParentWaited /\ PromotedWaitEnds

-----------------------------------------------------------------------------
(* The counts. *)

\* A count is a natural number.
LEMMA CountedNat ==
    ASSUME NEW rows, NEW S
    PROVE  /\ IsFiniteSet({t \in Members : rows[t].required /\ rows[t].status \in S})
           /\ Counted(rows, S) \in Nat
<1> DEFINE C == {t \in Members : rows[t].required /\ rows[t].status \in S}
<1>1. C \in SUBSET Members
  OBVIOUS
<1>2. IsFiniteSet(C)
  BY <1>1, FS_Subset, MembersAssumption
<1>3. Cardinality(C) \in Nat
  BY <1>2, FS_CardinalityType
<1> QED  BY <1>2, <1>3 DEF Counted

\* The counts of disjoint sets of statuses add up.
LEMMA CountedSum ==
    ASSUME NEW rows, NEW S, NEW T, S \cap T = {}
    PROVE  Counted(rows, S \cup T) = Counted(rows, S) + Counted(rows, T)
<1> DEFINE C(A) == {t \in Members : rows[t].required /\ rows[t].status \in A}
<1>1. IsFiniteSet(C(S)) /\ IsFiniteSet(C(T))
  BY CountedNat
<1>2. C(S) \cup C(T) = C(S \cup T) /\ C(S) \cap C(T) = {}
  OBVIOUS
<1>3. Cardinality(C(S)) \in Nat /\ Cardinality(C(T)) \in Nat
  BY <1>1, FS_CardinalityType
<1> HIDE DEF C
<1>4. Cardinality(C(S) \cup C(T))
        = Cardinality(C(S)) + Cardinality(C(T)) - Cardinality(C(S) \cap C(T))
  BY <1>1, FS_Union
<1>5. Cardinality(C(S) \cap C(T)) = 0
  BY <1>2, FS_EmptySet
<1>6. Cardinality(C(S) \cup C(T)) = Cardinality(C(S)) + Cardinality(C(T))
  BY <1>3, <1>4, <1>5
<1>7. Cardinality(C(S \cup T)) = Cardinality(C(S)) + Cardinality(C(T))
  BY <1>2, <1>6
<1> QED  BY <1>7 DEF Counted, C

\* Every required row is pending or terminal, and every terminal one completed
\* or not.
LEMMA CountedSplit ==
    ASSUME NEW rows \in [Members -> MemberRow]
    PROVE  /\ Cardinality(RequiredRows(rows))
                = Counted(rows, Terminal) + Counted(rows, {"pending"})
           /\ Counted(rows, Terminal)
                = Counted(rows, {"completed"}) + Counted(rows, {"failed", "cancelled"})
           /\ Counted(rows, {"completed", "pending"})
                = Counted(rows, {"completed"}) + Counted(rows, {"pending"})
<1>1. RequiredRows(rows)
        = {t \in Members : rows[t].required
                           /\ rows[t].status \in Terminal \cup {"pending"}}
  BY DEF RequiredRows, MemberRow, Terminal
<1>2. Cardinality(RequiredRows(rows)) = Counted(rows, Terminal \cup {"pending"})
  BY <1>1 DEF Counted
<1>3. Counted(rows, Terminal \cup {"pending"})
        = Counted(rows, Terminal) + Counted(rows, {"pending"})
  <2>1. Terminal \cap {"pending"} = {}
    BY DEF Terminal
  <2> QED  BY <2>1, CountedSum
<1>4. Counted(rows, {"completed"} \cup {"failed", "cancelled"})
        = Counted(rows, {"completed"}) + Counted(rows, {"failed", "cancelled"})
  <2>1. {"completed"} \cap {"failed", "cancelled"} = {}
    OBVIOUS
  <2> QED  BY <2>1, CountedSum
<1>5. Counted(rows, {"completed"} \cup {"pending"})
        = Counted(rows, {"completed"}) + Counted(rows, {"pending"})
  <2>1. {"completed"} \cap {"pending"} = {}
    OBVIOUS
  <2> QED  BY <2>1, CountedSum
<1>6. /\ Terminal = {"completed"} \cup {"failed", "cancelled"}
      /\ {"completed", "pending"} = {"completed"} \cup {"pending"}
  BY DEF Terminal
<1> QED  BY <1>2, <1>3, <1>4, <1>5, <1>6

\* A row that is counted before and after a change keeps the count from falling.
LEMMA CountedMonotone ==
    ASSUME NEW rows, NEW rows2, NEW S,
           \A t \in Members : rows[t].required /\ rows[t].status \in S
                                => rows2[t].required /\ rows2[t].status \in S
    PROVE  Counted(rows, S) <= Counted(rows2, S)
<1> DEFINE C == {t \in Members : rows[t].required /\ rows[t].status \in S}
           D == {t \in Members : rows2[t].required /\ rows2[t].status \in S}
<1>1. C \in SUBSET D
  OBVIOUS
<1>2. IsFiniteSet(D)
  BY CountedNat
<1>3. Cardinality(C) <= Cardinality(D)
  BY <1>1, <1>2, FS_Subset
<1> QED  BY <1>3 DEF Counted

-----------------------------------------------------------------------------
(* The contract. *)

\* The thresholds of a contract are natural numbers.
LEMMA ThresholdsNat ==
    ASSUME contract \in Contracts, NEW n \in Nat
    PROVE  Minimum(n) \in Nat /\ MaximumFailed(n) \in Nat
<1>1. /\ contract.min \in Nat \cup {Unset} /\ contract.max \in Nat \cup {Unset}
  BY ContractsAssumption
<1>2. Minimum(n) \in Nat
  BY <1>1 DEF Minimum
<1>3. Less(n, Minimum(n)) \in Nat
  BY <1>2 DEF Less
<1> QED  BY <1>1, <1>2, <1>3 DEF MaximumFailed

\* What a verdict of evaluate_thread_group_contract says of the counts.
LEMMA EvaluateMeans ==
    ASSUME contract \in Contracts,
           NEW r \in Nat, NEW p \in Nat, NEW f \in Nat, NEW s \in Nat, r = s + f + p
    PROVE  LET v == Evaluate(r, s + f, s)
           IN /\ v \in {"open", "satisfied", "failed"}
              /\ v = "failed" => s + p < Minimum(r) \/ f > MaximumFailed(r)
              /\ v = "satisfied" => /\ s >= Minimum(r)
                                    /\ contract.policy = "all" => p = 0
              /\ v = "open" => p > 0
<1> DEFINE m == Minimum(r)  x == MaximumFailed(r)
<1>1. m \in Nat /\ x \in Nat
  BY ThresholdsNat
<1>2. Less(s + f, s) = f /\ Less(r, s + f) = p
  BY DEF Less
<1> HIDE DEF m, x
<1>3. Evaluate(r, s + f, s)
        = IF f > x \/ s + p < m THEN "failed"
          ELSE IF s >= m /\ (contract.policy = "all" => s + f >= r)
               THEN "satisfied"
          ELSE IF s + f >= r THEN "failed" ELSE "open"
  BY <1>2 DEF Evaluate, m, x
<1>4. s + f >= r => p = 0
  OBVIOUS
<1>5. s + f >= r /\ ~ (f > x \/ s + p < m) => s >= m
  BY <1>1, <1>4
<1> QED  BY <1>1, <1>3, <1>4, <1>5 DEF m, x

\* The same, of a set of member rows.
LEMMA VerdictOnRows ==
    ASSUME contract \in Contracts, NEW rows \in [Members -> MemberRow]
    PROVE  LET r == Cardinality(RequiredRows(rows))
               v == Evaluate(r, Counted(rows, Terminal), Counted(rows, {"completed"}))
           IN /\ v \in {"open", "satisfied", "failed"}
              /\ v = "failed" =>
                   \/ Counted(rows, {"completed", "pending"}) < Minimum(r)
                   \/ Counted(rows, {"failed", "cancelled"}) > MaximumFailed(r)
              /\ v = "satisfied" =>
                   /\ Counted(rows, {"completed"}) >= Minimum(r)
                   /\ contract.policy = "all" => Counted(rows, {"pending"}) = 0
              /\ v = "open" => Counted(rows, Terminal) < r
<1> DEFINE r == Cardinality(RequiredRows(rows))
           s == Counted(rows, {"completed"})
           f == Counted(rows, {"failed", "cancelled"})
           p == Counted(rows, {"pending"})
<1>1. s \in Nat /\ f \in Nat /\ p \in Nat
  BY CountedNat
<1>2. /\ r = Counted(rows, Terminal) + p
      /\ Counted(rows, Terminal) = s + f
      /\ Counted(rows, {"completed", "pending"}) = s + p
  BY CountedSplit
<1> HIDE DEF r, s, f, p
<1>3. r \in Nat /\ r = s + f + p
  BY <1>1, <1>2
<1> DEFINE v == Evaluate(r, s + f, s)
<1>4. /\ v \in {"open", "satisfied", "failed"}
      /\ v = "failed" => s + p < Minimum(r) \/ f > MaximumFailed(r)
      /\ v = "satisfied" => /\ s >= Minimum(r)
                            /\ contract.policy = "all" => p = 0
      /\ v = "open" => p > 0
  BY <1>1, <1>3, EvaluateMeans
<1> HIDE DEF v
<1>5. p > 0 => s + f < r
  BY <1>1, <1>3
<1>6. v = Evaluate(r, Counted(rows, Terminal), s)
  BY <1>2 DEF v
<1> QED  BY <1>2, <1>4, <1>5, <1>6 DEF r, s, f, p

-----------------------------------------------------------------------------
(* The member row a transaction writes. *)

\* The rows as the transaction of a pending member writes them: only its own
\* status changes, so that counts of ends grow and counts of the rest shrink.
LEMMA WrittenRows ==
    ASSUME TypeOK, NEW t \in Members, member[t].status = "pending"
    PROVE  /\ Written(t) \in [Members -> MemberRow]
           /\ \A u \in Members :
                 /\ Written(t)[u].required = member[u].required
                 /\ Written(t)[u].status = IF u = t THEN txn[t].as
                                                    ELSE member[u].status
           /\ RequiredRows(Written(t)) = RequiredRows(member)
           /\ Counted(Written(t), {"completed", "pending"}) <= Rows({"completed", "pending"})
           /\ Rows({"failed", "cancelled"}) <= Counted(Written(t), {"failed", "cancelled"})
           /\ Rows({"completed"}) <= Counted(Written(t), {"completed"})
           /\ Counted(Written(t), {"pending"}) <= Rows({"pending"})
<1>1. /\ member \in [Members -> MemberRow] /\ txn[t].as \in Terminal
  BY DEF TypeOK, TxnRow
<1> DEFINE W == Written(t)
<1>2. W = [u \in Members |-> IF u = t THEN [status |-> txn[t].as,
                                            required |-> member[t].required]
                                      ELSE member[u]]
  <2>1. member[t] \in [status : {"pending"} \cup Terminal, required : BOOLEAN]
    BY <1>1 DEF MemberRow
  <2>2. [member[t] EXCEPT !.status = txn[t].as]
          = [status |-> txn[t].as, required |-> member[t].required]
    BY <2>1
  <2>3. W = [member EXCEPT ![t] = [member[t] EXCEPT !.status = txn[t].as]]
    BY DEF Written
  <2> QED  BY <1>1, <2>2, <2>3
<1> HIDE DEF W
<1>3. \A u \in Members :
         /\ W[u].required = member[u].required
         /\ W[u].status = IF u = t THEN txn[t].as ELSE member[u].status
  BY <1>2
<1>4. W \in [Members -> MemberRow]
  BY <1>1, <1>2 DEF MemberRow
<1>5. RequiredRows(W) = RequiredRows(member)
  BY <1>3 DEF RequiredRows
<1>6. txn[t].as \in {"completed", "failed", "cancelled"}
  BY <1>1 DEF Terminal
<1>7. Counted(W, {"completed", "pending"}) <= Counted(member, {"completed", "pending"})
  <2>1. \A u \in Members : W[u].required /\ W[u].status \in {"completed", "pending"}
           => member[u].required /\ member[u].status \in {"completed", "pending"}
    BY <1>3, <1>6
  <2> QED  BY <2>1, CountedMonotone
<1>8. Counted(member, {"failed", "cancelled"}) <= Counted(W, {"failed", "cancelled"})
  <2>1. \A u \in Members : member[u].required /\ member[u].status \in {"failed", "cancelled"}
           => W[u].required /\ W[u].status \in {"failed", "cancelled"}
    BY <1>3
  <2> QED  BY <2>1, CountedMonotone
<1>9. Counted(member, {"completed"}) <= Counted(W, {"completed"})
  <2>1. \A u \in Members : member[u].required /\ member[u].status \in {"completed"}
           => W[u].required /\ W[u].status \in {"completed"}
    BY <1>3
  <2> QED  BY <2>1, CountedMonotone
<1>10. Counted(W, {"pending"}) <= Counted(member, {"pending"})
  <2>1. \A u \in Members : W[u].required /\ W[u].status \in {"pending"}
           => member[u].required /\ member[u].status \in {"pending"}
    BY <1>3, <1>6
  <2> QED  BY <2>1, CountedMonotone
<1> QED  BY <1>3, <1>4, <1>5, <1>7, <1>8, <1>9, <1>10 DEF Rows, W

-----------------------------------------------------------------------------
(* Initially. *)

\* The invariant holds of the group and its rows at creation.
LEMMA InitIInv == Init => IInv
<1> SUFFICES ASSUME Init PROVE IInv
  OBVIOUS
<1>1. PICK required \in RequiredSets :
         /\ member = [t \in Members |->
                        [status |-> "pending", required |-> t \in required]]
         /\ group = [status |-> "open", required |-> Cardinality(required),
                     terminal |-> 0, successful |-> 0, barriers |-> 0]
  BY DEF Init
<1>2. required \in SUBSET Members /\ required # {}
  BY MembersAssumption
<1>3. IsFiniteSet(required)
  BY <1>2, FS_Subset, MembersAssumption
<1>4. Cardinality(required) \in Nat /\ Cardinality(required) # 0
  BY <1>2, <1>3, FS_CardinalityType, FS_EmptySet
<1>5. RequiredRows(member) = required
  BY <1>1, <1>2 DEF RequiredRows
<1>6. \A S : "pending" \notin S => Rows(S) = 0
  <2> SUFFICES ASSUME NEW S, "pending" \notin S PROVE Rows(S) = 0
    OBVIOUS
  <2>1. {t \in Members : member[t].required /\ member[t].status \in S} = {}
    BY <1>1
  <2> QED  BY <2>1, FS_EmptySet DEF Rows, Counted
<1>7. TypeOK
  <2>1. thread \in [Members -> ThreadRow] /\ target \in [Members -> TargetRow]
    BY DEF Init, ThreadRow, TargetRow
  <2>2. member \in [Members -> MemberRow]
    BY <1>1 DEF MemberRow
  <2>3. group \in GroupRow
    BY <1>1, <1>4 DEF GroupRow
  <2>4. txn \in [Members -> TxnRow]
    BY DEF Init, Idle, TxnRow, Terminal
  <2>5. /\ lock \in Members \cup {NoMember} /\ contract \in Contracts
        /\ parent \in ParentRow
    BY DEF Init, ParentRow, GroupGeneration
  <2> QED  BY <2>1, <2>2, <2>3, <2>4, <2>5 DEF TypeOK
<1>8. RequiredCounted
  BY <1>1, <1>4, <1>5 DEF RequiredCounted
<1>9. LockOwned /\ Ending /\ CountHeld /\ PendingRow /\ PromotedWaitEnds
  BY <1>1, MembersAssumption
     DEF Init, LockOwned, Ending, CountHeld, PendingRow, PromotedWaitEnds, Idle
<1>10. NoLostVerdict
  <2>1. Rows(Terminal) = 0 /\ Rows({"completed"}) = 0
    BY <1>6 DEF Terminal
  <2> QED  BY <1>1, <2>1 DEF NoLostVerdict, Untouched, Init
<1>11. VerdictStandsOnRows /\ FirstGeneration /\ OneBarrier /\ CompletedParentWaited
  BY <1>1 DEF Init, VerdictStandsOnRows, FirstGeneration, GroupGeneration, OneBarrier,
              CompletedParentWaited
<1> QED  BY <1>7, <1>8, <1>9, <1>10, <1>11 DEF IInv

-----------------------------------------------------------------------------
(* Steps that leave the rows alone. *)

\* What IInv says of the rows, the group and the parent.
OfRows ==
    /\ RequiredCounted /\ PendingRow /\ NoLostVerdict /\ VerdictStandsOnRows
    /\ FirstGeneration /\ OneBarrier /\ CompletedParentWaited /\ PromotedWaitEnds

\* What is said of the committed rows survives a step that writes none of them.
LEMMA RowsUnchanged ==
    ASSUME IInv, UNCHANGED <<thread, member, group, contract, target, parent>>
    PROVE  OfRows'
<1>1. RequiredCounted'
  BY DEF IInv, RequiredCounted, RequiredRows
<1>2. /\ PendingRow' /\ PromotedWaitEnds'
      /\ FirstGeneration' /\ OneBarrier' /\ CompletedParentWaited'
  BY DEF IInv, PendingRow, PromotedWaitEnds, FirstGeneration, OneBarrier,
         CompletedParentWaited
<1>3. NoLostVerdict'
  BY DEF IInv, NoLostVerdict, Rows, Counted, Untouched,
         Evaluate, Minimum, MaximumFailed, Less
<1>4. VerdictStandsOnRows'
  BY DEF IInv, VerdictStandsOnRows, Rows, Counted, Minimum, MaximumFailed, Less
<1> QED  BY <1>1, <1>2, <1>3, <1>4 DEF OfRows

\* A transaction that does not change member leaves what others counted true.
LEMMA OtherCountHeld ==
    ASSUME IInv, member' = member, group' = group, NEW u \in Members,
           txn'[u] = txn[u], txn[u].pc = "counted"
    PROVE  /\ txn'[u].terminal = (Counted(Written(u), Terminal))'
           /\ txn'[u].successful = (Counted(Written(u), {"completed"}))'
           /\ txn'[u].open <=> group'.status = "open"
BY DEF IInv, CountHeld, Written, Counted, Terminal

\* A transaction that starts to end a member has written nothing yet.
LEMMA BeginStep ==
    ASSUME IInv, NEW t \in Members, Begin(t)
    PROVE  IInv'
<1>1. PICK as \in Terminal, by \in {"outcome", "control"} :
         txn' = [txn EXCEPT ![t] = [Idle EXCEPT !.pc = "ended",
                                                !.as = as, !.by = by]]
  BY DEF Begin
<1>2. /\ thread[t].status = "open" /\ txn[t].pc = "idle"
      /\ UNCHANGED <<thread, member, group, contract, target, lock, parent>>
  BY DEF Begin
<1>3. TypeOK /\ txn \in [Members -> TxnRow]
  BY DEF IInv, TypeOK
<1> DEFINE row == [Idle EXCEPT !.pc = "ended", !.as = as, !.by = by]
<1>4. Idle \in TxnRow
  BY DEF Idle, TxnRow, Terminal
<1>5. row \in TxnRow /\ row.pc = "ended"
  BY <1>4 DEF TxnRow
<1> HIDE DEF row
<1>6. \A u \in Members : txn'[u] = IF u = t THEN row ELSE txn[u]
  BY <1>1, <1>3 DEF row
<1>7. TypeOK'
  <2>1. txn' \in [Members -> TxnRow]
    BY <1>1, <1>3, <1>5 DEF row
  <2> QED  BY <1>2, <1>3, <2>1 DEF TypeOK
<1>8. LockOwned' /\ Ending'
  BY <1>2, <1>5, <1>6 DEF IInv, LockOwned, Ending
<1>9. CountHeld'
  <2> SUFFICES ASSUME NEW u \in Members, txn'[u].pc = "counted"
               PROVE  /\ txn'[u].terminal = (Counted(Written(u), Terminal))'
                      /\ txn'[u].successful = (Counted(Written(u), {"completed"}))'
                      /\ txn'[u].open <=> group'.status = "open"
    BY DEF CountHeld, Terminal
  <2>1. txn'[u] = txn[u] /\ txn[u].pc = "counted"
    BY <1>5, <1>6
  <2> QED  BY <1>2, <2>1, OtherCountHeld
<1>10. OfRows'
  BY <1>2, RowsUnchanged
<1> QED  BY <1>7, <1>8, <1>9, <1>10 DEF IInv, OfRows

\* The count is taken under the group's row lock, so that it stays exact until the
\* holder commits or aborts.
LEMMA LockAndCountStep ==
    ASSUME IInv, NEW t \in Members, LockAndCount(t)
    PROVE  IInv'
<1>1. /\ txn[t].pc = "ended" /\ thread[t].group = "source" /\ lock = NoMember
      /\ lock' = t
      /\ UNCHANGED <<thread, member, group, contract, target, parent>>
  BY DEF LockAndCount, LockFree
<1>2. TypeOK /\ txn \in [Members -> TxnRow] /\ txn[t] \in TxnRow
  BY DEF IInv, TypeOK
<1> DEFINE row == [txn[t] EXCEPT !.pc = "counted",
                     !.terminal = Counted(Written(t), Terminal),
                     !.successful = Counted(Written(t), {"completed"}),
                     !.open = group.status = "open"]
<1>3. txn' = [txn EXCEPT ![t] = row]
  BY DEF LockAndCount
<1>4. /\ row.pc = "counted" /\ row.as = txn[t].as /\ row.by = txn[t].by
      /\ row.terminal = Counted(Written(t), Terminal)
      /\ row.successful = Counted(Written(t), {"completed"})
      /\ row.open = (group.status = "open")
  BY <1>2 DEF TxnRow
<1>5. row \in TxnRow
  <2>1. Counted(Written(t), Terminal) \in Nat /\ Counted(Written(t), {"completed"}) \in Nat
    BY CountedNat
  <2> QED  BY <1>2, <2>1 DEF TxnRow
<1> HIDE DEF row
<1>6. \A u \in Members : txn'[u] = IF u = t THEN row ELSE txn[u]
  BY <1>2, <1>3
<1>7. \A u \in Members : txn[u].pc # "counted"
  BY <1>1, MembersAssumption DEF IInv, LockOwned
<1>8. TypeOK'
  <2>1. txn' \in [Members -> TxnRow]
    BY <1>2, <1>3, <1>5
  <2> QED  BY <1>1, <1>2, <2>1 DEF TypeOK
<1>9. LockOwned' /\ Ending'
  BY <1>1, <1>4, <1>6, <1>7 DEF IInv, LockOwned, Ending
<1>10. CountHeld'
  <2> SUFFICES ASSUME NEW u \in Members, txn'[u].pc = "counted"
               PROVE  /\ txn'[u].terminal = (Counted(Written(u), Terminal))'
                      /\ txn'[u].successful = (Counted(Written(u), {"completed"}))'
                      /\ txn'[u].open <=> group'.status = "open"
    BY DEF CountHeld, Terminal
  <2>1. u = t /\ txn'[u] = row
    BY <1>6, <1>7
  <2>2. Written(u)' = Written(t)
    BY <1>1, <1>4, <2>1 DEF Written
  <2> QED  BY <1>1, <1>4, <2>1, <2>2 DEF Counted, Terminal
<1>11. OfRows'
  BY <1>1, RowsUnchanged
<1> QED  BY <1>8, <1>9, <1>10, <1>11 DEF IInv, OfRows

\* An aborted transaction gives up its lock and its row.
LEMMA AbortStep ==
    ASSUME IInv, NEW t \in Members, Abort(t)
    PROVE  IInv'
<1>1. /\ txn' = [txn EXCEPT ![t] = Idle]
      /\ lock' = IF lock = t THEN NoMember ELSE lock
      /\ UNCHANGED <<thread, member, group, contract, target, parent>>
  BY DEF Abort
<1>2. TypeOK /\ txn \in [Members -> TxnRow]
  BY DEF IInv, TypeOK
<1>3. Idle \in TxnRow /\ Idle.pc = "idle"
  BY DEF Idle, TxnRow, Terminal
<1>4. \A u \in Members : txn'[u] = IF u = t THEN Idle ELSE txn[u]
  BY <1>1, <1>2
<1>5. TypeOK'
  <2>1. txn' \in [Members -> TxnRow] /\ lock' \in Members \cup {NoMember}
    BY <1>1, <1>2, <1>3 DEF TypeOK
  <2> QED  BY <1>1, <1>2, <2>1 DEF TypeOK
<1>6. LockOwned' /\ Ending'
  BY <1>1, <1>3, <1>4, MembersAssumption DEF IInv, LockOwned, Ending
<1>7. CountHeld'
  <2> SUFFICES ASSUME NEW u \in Members, txn'[u].pc = "counted"
               PROVE  /\ txn'[u].terminal = (Counted(Written(u), Terminal))'
                      /\ txn'[u].successful = (Counted(Written(u), {"completed"}))'
                      /\ txn'[u].open <=> group'.status = "open"
    BY DEF CountHeld, Terminal
  <2>1. txn'[u] = txn[u] /\ txn[u].pc = "counted"
    BY <1>3, <1>4
  <2> QED  BY <1>1, <2>1, OtherCountHeld
<1>8. OfRows'
  BY <1>1, RowsUnchanged
<1> QED  BY <1>5, <1>6, <1>7, <1>8 DEF IInv, OfRows

-----------------------------------------------------------------------------
(* A member's end is committed. *)

\* The barrier count of a group row, from its verdict.
Told(before, status) == IF status = "open" THEN before.barriers ELSE before.barriers + 1

\* What the new group row is.
LEMMA CommittedGroup ==
    ASSUME IInv, NEW t \in Members, Commit(t)
    PROVE  /\ txn[t].open <=> group.status = "open"
           /\ group' \in GroupRow /\ group'.required = group.required
           /\ group.status = "open" =>
                /\ group'.terminal = txn[t].terminal
                /\ group'.successful = txn[t].successful
                /\ group'.status = Evaluate(group.required, txn[t].terminal,
                                            txn[t].successful)
                /\ group'.barriers = Told(group, group'.status)
           /\ group.status # "open" =>
                group'.status = group.status /\ group'.barriers = group.barriers
<1>1. /\ group \in GroupRow /\ txn[t] \in TxnRow /\ contract \in Contracts
      /\ txn[t].pc = "counted"
  BY DEF IInv, TypeOK, Commit
<1>2. /\ txn[t].terminal \in Nat /\ txn[t].successful \in Nat
      /\ txn[t].open <=> group.status = "open"
  BY <1>1 DEF IInv, CountHeld, TxnRow
<1> DEFINE v == Evaluate(group.required, txn[t].terminal, txn[t].successful)
<1>3. v \in {"open", "satisfied", "failed"}
  BY DEF Evaluate
<1>4. CASE txn[t].open
  <2>1. group' = [group EXCEPT !.terminal = txn[t].terminal,
                               !.successful = txn[t].successful,
                               !.status = v,
                               !.barriers = Told(group, v)]
    BY <1>4 DEF Commit, Decided, Told
  <2> HIDE DEF v
  <2>3. Told(group, v) \in Nat
    BY <1>1 DEF GroupRow, Told
  <2>2. /\ group' \in GroupRow /\ group'.required = group.required
        /\ group'.terminal = txn[t].terminal
        /\ group'.successful = txn[t].successful
        /\ group'.status = v /\ group'.barriers = Told(group, v)
    BY <1>1, <1>2, <1>3, <2>1, <2>3 DEF GroupRow
  <2> QED  BY <1>2, <1>4, <2>2 DEF v
<1>5. CASE ~ txn[t].open
  <2>1. group' = IF txn[t].by = "control"
                 THEN [group EXCEPT !.terminal = txn[t].terminal,
                                    !.successful = txn[t].successful]
                 ELSE group
    BY <1>5 DEF Commit, Closed
  <2>2. /\ group' \in GroupRow /\ group'.required = group.required
        /\ group'.status = group.status /\ group'.barriers = group.barriers
    BY <1>1, <1>2, <2>1 DEF GroupRow
  <2> QED  BY <1>2, <1>5, <2>2
<1> QED  BY <1>4, <1>5

\* The parent after the group row has changed from one to the other.
LEMMA ParentTold ==
    ASSUME IInv, group' \in GroupRow,
           parent' = IF group'.barriers > group.barriers THEN Notified ELSE parent,
           \/ group.status = "open" /\ group'.barriers = Told(group, group'.status)
           \/ /\ group.status # "open"
              /\ group'.status = group.status /\ group'.barriers = group.barriers
    PROVE  /\ parent' \in ParentRow
           /\ FirstGeneration' /\ OneBarrier' /\ CompletedParentWaited'
<1>1. /\ group.barriers \in Nat /\ group'.barriers \in Nat
      /\ group.status \in {"open", "satisfied", "failed"}
      /\ group'.status \in {"open", "satisfied", "failed"}
      /\ parent \in ParentRow
  BY DEF IInv, TypeOK, GroupRow
<1>2. /\ parent.signals \in Nat
      /\ group.barriers = IF group.status = "open" THEN 0 ELSE 1
      /\ parent.signals <= group.barriers
      /\ parent.status = "open" /\ ~ parent.retried => parent.signals = group.barriers
      /\ parent.status = "completed" =>
           \/ group.status # "open" /\ parent.signals = 1
           \/ parent.gen > GroupGeneration
      /\ FirstGeneration
  BY <1>1 DEF IInv, OneBarrier, CompletedParentWaited, ParentRow
<1>3. CASE group'.barriers > group.barriers
  <2>1. group.status = "open" /\ group'.status # "open" /\ group'.barriers = 1
    BY <1>1, <1>2, <1>3 DEF Told
  <2>2. CASE parent.status = "open"
    <3>1. parent' = [parent EXCEPT !.signals = @ + 1]
      BY <1>3, <2>2 DEF Notified
    <3>2. /\ parent' \in ParentRow
          /\ parent'.status = "open" /\ parent'.signals = parent.signals + 1
          /\ parent'.gen = parent.gen /\ parent'.retried = parent.retried
      BY <1>1, <1>2, <2>2, <3>1 DEF ParentRow
    <3>3. parent'.signals = 1
      BY <1>1, <1>2, <2>1, <3>2
    <3> QED  BY <1>2, <2>1, <3>2, <3>3
             DEF FirstGeneration, OneBarrier, CompletedParentWaited
  <2>3. CASE parent.status # "open"
    <3>1. parent' = parent
      BY <1>3, <2>3 DEF Notified
    <3> QED  BY <1>1, <1>2, <2>1, <2>3, <3>1
             DEF FirstGeneration, OneBarrier, CompletedParentWaited
  <2> QED  BY <2>2, <2>3
<1>4. CASE ~ (group'.barriers > group.barriers)
  <2>1. parent' = parent
    BY <1>4
  <2>2. group'.status = group.status /\ group'.barriers = group.barriers
    <3>1. group.status = "open" /\ group'.barriers = Told(group, group'.status)
            => group'.status = "open" /\ group'.barriers = group.barriers
      BY <1>1, <1>4 DEF Told
    <3> QED  BY <3>1
  <2>3. (group'.status = "open") <=> (group.status = "open")
    BY <2>2
  <2> QED  BY <1>1, <1>2, <2>1, <2>2, <2>3
           DEF FirstGeneration, OneBarrier, CompletedParentWaited
<1> QED  BY <1>3, <1>4

\* The verdict of a group that is decided, or stays open, on the rows written.
LEMMA VerdictWritten ==
    ASSUME IInv, contract' = contract, member' \in [Members -> MemberRow],
           group' \in GroupRow,
           group'.required = Cardinality(RequiredRows(member')),
           group'.terminal = Counted(member', Terminal),
           group'.successful = Counted(member', {"completed"}),
           group'.status = Evaluate(group'.required, group'.terminal,
                                    group'.successful)
    PROVE  NoLostVerdict' /\ VerdictStandsOnRows'
<1> DEFINE r == Cardinality(RequiredRows(member'))
           v == Evaluate(r, Counted(member', Terminal), Counted(member', {"completed"}))
<1>1. contract \in Contracts
  BY DEF IInv, TypeOK
<1>2. /\ v = "failed" =>
           \/ Counted(member', {"completed", "pending"}) < Minimum(r)
           \/ Counted(member', {"failed", "cancelled"}) > MaximumFailed(r)
      /\ v = "satisfied" =>
           /\ Counted(member', {"completed"}) >= Minimum(r)
           /\ contract.policy = "all" => Counted(member', {"pending"}) = 0
  BY <1>1, VerdictOnRows
<1>3. group'.required = r /\ group'.status = v
  OBVIOUS
<1> HIDE DEF r, v
<1>4. /\ (Minimum(group.required))' = Minimum(r)
      /\ (MaximumFailed(group.required))' = MaximumFailed(r)
  BY <1>3 DEF Minimum, MaximumFailed, Less
<1>5. (Evaluate(group.required, group.terminal, group.successful))'
        = Evaluate(group'.required, group'.terminal, group'.successful)
  BY DEF Evaluate, Minimum, MaximumFailed, Less
<1>6. /\ (Rows({"completed", "pending"}))' = Counted(member', {"completed", "pending"})
      /\ (Rows({"failed", "cancelled"}))' = Counted(member', {"failed", "cancelled"})
      /\ (Rows({"completed"}))' = Counted(member', {"completed"})
      /\ (Rows({"pending"}))' = Counted(member', {"pending"})
      /\ (Rows(Terminal))' = Counted(member', Terminal)
  BY DEF Rows, Counted, Terminal
<1>7. NoLostVerdict'
  BY <1>5, <1>6 DEF NoLostVerdict
<1>8. VerdictStandsOnRows'
  BY <1>2, <1>3, <1>4, <1>6 DEF VerdictStandsOnRows
<1> QED  BY <1>7, <1>8

\* The commit publishes the member's end, the verdict and what the parent is told.
LEMMA CommitStep ==
    ASSUME IInv, NEW t \in Members, Commit(t)
    PROVE  IInv'
<1>1. /\ txn[t].pc = "counted" /\ member' = Written(t) /\ lock' = NoMember
      /\ thread' = [thread EXCEPT ![t].status = "terminal"]
      /\ txn' = [txn EXCEPT ![t] = Idle]
      /\ parent' = IF group'.barriers > group.barriers THEN Notified ELSE parent
      /\ contract' = contract /\ target' = target
  BY DEF Commit
<1>2. /\ TypeOK /\ txn \in [Members -> TxnRow] /\ thread \in [Members -> ThreadRow]
      /\ lock = t /\ thread[t].status = "open" /\ thread[t].group = "source"
      /\ member[t].status = "pending"
  BY <1>1 DEF IInv, TypeOK, LockOwned, Ending, PendingRow
<1>3. /\ member' \in [Members -> MemberRow]
      /\ RequiredRows(member') = RequiredRows(member)
      /\ \A u \in Members :
            /\ member'[u].required = member[u].required
            /\ u # t => member'[u].status = member[u].status
  BY <1>1, <1>2, WrittenRows
<1>4. /\ Counted(member', {"completed", "pending"}) <= Rows({"completed", "pending"})
      /\ Rows({"failed", "cancelled"}) <= Counted(member', {"failed", "cancelled"})
      /\ Rows({"completed"}) <= Counted(member', {"completed"})
      /\ Counted(member', {"pending"}) <= Rows({"pending"})
  BY <1>1, <1>2, WrittenRows
<1>5. \A u \in Members :
         /\ thread'[u].status = IF u = t THEN "terminal" ELSE thread[u].status
         /\ thread'[u].group = thread[u].group
         /\ thread'[u] \in ThreadRow
         /\ u # t => thread'[u] = thread[u]
  BY <1>1, <1>2 DEF ThreadRow
<1>6. Idle \in TxnRow /\ Idle.pc = "idle"
  BY DEF Idle, TxnRow, Terminal
<1>7. \A u \in Members : txn'[u] = IF u = t THEN Idle ELSE txn[u]
  BY <1>1, <1>2
<1>8. \A u \in Members : txn'[u].pc # "counted"
  BY <1>2, <1>6, <1>7 DEF IInv, LockOwned
<1>9. /\ group' \in GroupRow /\ group'.required = group.required
      /\ group.status = "open" =>
           /\ group'.terminal = txn[t].terminal
           /\ group'.successful = txn[t].successful
           /\ group'.status = Evaluate(group.required, txn[t].terminal,
                                       txn[t].successful)
           /\ group'.barriers = Told(group, group'.status)
      /\ group.status # "open" =>
           group'.status = group.status /\ group'.barriers = group.barriers
  BY CommittedGroup
<1>10. /\ parent' \in ParentRow
       /\ FirstGeneration' /\ OneBarrier' /\ CompletedParentWaited'
  BY <1>1, <1>9, ParentTold
<1>11. TypeOK'
  <2>1. txn' \in [Members -> TxnRow] /\ thread' \in [Members -> ThreadRow]
    BY <1>1, <1>2, <1>5, <1>6
  <2> QED  BY <1>1, <1>2, <1>3, <1>9, <1>10, <2>1 DEF TypeOK
<1>12. RequiredCounted'
  <2>1. RequiredRows(member)' = RequiredRows(member)
    BY <1>3 DEF RequiredRows
  <2> QED  BY <1>9, <2>1 DEF IInv, RequiredCounted
<1>13. LockOwned' /\ CountHeld'
  BY <1>1, <1>8, MembersAssumption DEF LockOwned, CountHeld
<1>14. Ending'
  BY <1>5, <1>6, <1>7 DEF IInv, Ending
<1>15. PendingRow'
  BY <1>3, <1>5 DEF IInv, PendingRow
<1>16. PromotedWaitEnds'
  BY <1>1, <1>2, <1>3, <1>5 DEF IInv, PromotedWaitEnds
<1>17. NoLostVerdict' /\ VerdictStandsOnRows'
  <2>1. CASE group.status = "open"
    <3>1. /\ group'.required = Cardinality(RequiredRows(member'))
          /\ group'.terminal = Counted(member', Terminal)
          /\ group'.successful = Counted(member', {"completed"})
      BY <1>1, <1>3, <1>9, <2>1 DEF IInv, RequiredCounted, CountHeld
    <3>2. group'.status = Evaluate(group'.required, group'.terminal,
                                   group'.successful)
      BY <1>9, <2>1
    <3> QED  BY <1>1, <1>3, <1>9, <3>1, <3>2, VerdictWritten
  <2>2. CASE group.status # "open"
    <3>1. group'.status = group.status
      BY <1>9, <2>2
    <3>2. /\ (Minimum(group.required))' = Minimum(group.required)
          /\ (MaximumFailed(group.required))' = MaximumFailed(group.required)
      BY <1>1, <1>9 DEF Minimum, MaximumFailed, Less
    <3>3. /\ (Rows({"completed", "pending"}))' = Counted(member', {"completed", "pending"})
          /\ (Rows({"failed", "cancelled"}))' = Counted(member', {"failed", "cancelled"})
          /\ (Rows({"completed"}))' = Counted(member', {"completed"})
          /\ (Rows({"pending"}))' = Counted(member', {"pending"})
      BY DEF Rows, Counted
    <3>4. /\ Minimum(group.required) \in Nat /\ MaximumFailed(group.required) \in Nat
          /\ \A S : Rows(S) \in Nat /\ Counted(member', S) \in Nat
      <4>1. contract \in Contracts /\ group.required \in Nat
        BY <1>2 DEF TypeOK, GroupRow
      <4> QED  BY <4>1, ThresholdsNat, CountedNat DEF Rows
    <3>5. VerdictStandsOnRows
      BY DEF IInv
    <3>6. VerdictStandsOnRows'
      <4>1. ASSUME group.status = "failed"
            PROVE  (\/ Rows({"completed", "pending"}) < Minimum(group.required)
                    \/ Rows({"failed", "cancelled"}) > MaximumFailed(group.required))'
        <5>1. \/ Rows({"completed", "pending"}) < Minimum(group.required)
              \/ Rows({"failed", "cancelled"}) > MaximumFailed(group.required)
          BY <3>5, <4>1 DEF VerdictStandsOnRows
        <5> QED  BY <1>4, <3>2, <3>3, <3>4, <5>1
      <4>2. ASSUME group.status = "satisfied"
            PROVE  (/\ Rows({"completed"}) >= Minimum(group.required)
                    /\ contract.policy = "all" => Rows({"pending"}) = 0)'
        <5>1. /\ Rows({"completed"}) >= Minimum(group.required)
              /\ contract.policy = "all" => Rows({"pending"}) = 0
          BY <3>5, <4>2 DEF VerdictStandsOnRows
        <5> QED  BY <1>1, <1>4, <3>2, <3>3, <3>4, <5>1
      <4> QED  BY <3>1, <4>1, <4>2 DEF VerdictStandsOnRows
    <3>7. NoLostVerdict'
      BY <2>2, <3>1 DEF NoLostVerdict
    <3> QED  BY <3>6, <3>7
  <2> QED  BY <2>1, <2>2
<1> QED  BY <1>10, <1>11, <1>12, <1>13, <1>14, <1>15, <1>16, <1>17 DEF IInv

-----------------------------------------------------------------------------
(* Promotion, and the end of a promoted member. *)

\* Promotion takes a required member out of an open group.
LEMMA PromoteStep ==
    ASSUME IInv, NEW t \in Members, Promote(t)
    PROVE  IInv'
<1> DEFINE required == Cardinality({u \in Members : member'[u].required})
           status == Evaluate(required, Counted(member', Terminal),
                              Counted(member', {"completed"}))
<1>1. /\ thread[t] = [status |-> "open", group |-> "source"]
      /\ txn[t].pc = "idle" /\ lock = NoMember /\ group.status = "open"
      /\ thread' = [thread EXCEPT ![t].group = "target"]
      /\ member' = [member EXCEPT ![t] = [status |-> "cancelled",
                                          required |-> FALSE]]
      /\ target' = [target EXCEPT ![t] = [status |-> "open", waited |-> TRUE]]
      /\ contract' = contract /\ txn' = txn /\ lock' = lock
  BY DEF Promote, LockFree, Promotable
<1>2. /\ required > 0
      /\ group' = [status |-> status, required |-> required,
                   terminal |-> Counted(member', Terminal),
                   successful |-> Counted(member', {"completed"}),
                   barriers |-> group.barriers + IF status = "open" THEN 0 ELSE 1]
      /\ parent' = IF status = "open" THEN parent ELSE Notified
  BY <1>1 DEF Promote, RequiredCheck
<1>3. /\ TypeOK /\ thread \in [Members -> ThreadRow] /\ target \in [Members -> TargetRow]
      /\ member \in [Members -> MemberRow] /\ group \in GroupRow
      /\ contract \in Contracts
  BY DEF IInv, TypeOK
<1>4. member' \in [Members -> MemberRow]
  BY <1>1, <1>3 DEF MemberRow, Terminal
<1>5. \A u \in Members :
         /\ u # t => member'[u] = member[u] /\ thread'[u] = thread[u]
                     /\ target'[u] = target[u]
         /\ ~ member'[t].required
         /\ thread'[t] = [status |-> "open", group |-> "target"]
         /\ target'[t] = [status |-> "open", waited |-> TRUE]
  BY <1>1, <1>3
<1>6. required = Cardinality(RequiredRows(member')) /\ required \in Nat
  <2>1. {u \in Members : member'[u].required} = RequiredRows(member')
    BY DEF RequiredRows
  <2>2. RequiredRows(member') \in SUBSET Members
    BY DEF RequiredRows
  <2> QED  BY <2>1, <2>2, FS_Subset, FS_CardinalityType, MembersAssumption
<1>7. Counted(member', Terminal) \in Nat /\ Counted(member', {"completed"}) \in Nat
  BY CountedNat
<1>8. status \in {"open", "satisfied", "failed"}
  BY DEF Evaluate
<1> HIDE DEF required, status
<1>9. /\ group' \in GroupRow /\ group'.required = required
      /\ group'.terminal = Counted(member', Terminal)
      /\ group'.successful = Counted(member', {"completed"})
      /\ group'.status = status /\ group'.barriers = Told(group, status)
  <2>1. group.barriers \in Nat
    BY <1>3 DEF GroupRow
  <2> QED  BY <1>2, <1>6, <1>7, <1>8, <2>1 DEF GroupRow, Told
<1>10. /\ parent' \in ParentRow
       /\ FirstGeneration' /\ OneBarrier' /\ CompletedParentWaited'
  <2>1. group.barriers \in Nat
    BY <1>3 DEF GroupRow
  <2>2. (group'.barriers > group.barriers) <=> (status # "open")
    BY <1>9, <2>1 DEF Told
  <2>3. parent' = IF group'.barriers > group.barriers THEN Notified ELSE parent
    BY <1>2, <2>2
  <2> QED  BY <1>1, <1>9, <2>3, ParentTold
<1>11. TypeOK'
  <2>1. thread' \in [Members -> ThreadRow] /\ target' \in [Members -> TargetRow]
    BY <1>1, <1>3 DEF ThreadRow, TargetRow
  <2> QED  BY <1>1, <1>3, <1>4, <1>9, <1>10, <2>1 DEF TypeOK
<1>12. RequiredCounted'
  <2>1. RequiredRows(member)' = RequiredRows(member')
    BY DEF RequiredRows
  <2> QED  BY <1>2, <1>6, <1>9, <2>1 DEF RequiredCounted
<1>13. LockOwned' /\ CountHeld'
  <2>1. \A u \in Members : txn'[u].pc # "counted"
    BY <1>1, MembersAssumption DEF IInv, LockOwned
  <2> QED  BY <1>1, <2>1, MembersAssumption DEF LockOwned, CountHeld
<1>14. Ending' /\ PendingRow'
  BY <1>1, <1>5 DEF IInv, Ending, PendingRow
<1>15. PromotedWaitEnds'
  BY <1>5 DEF IInv, PromotedWaitEnds
<1>16. NoLostVerdict' /\ VerdictStandsOnRows'
  <2>1. group'.status = Evaluate(group'.required, group'.terminal, group'.successful)
    BY <1>9 DEF status
  <2> QED  BY <1>1, <1>4, <1>6, <1>9, <2>1, VerdictWritten
<1> QED  BY <1>10, <1>11, <1>12, <1>13, <1>14, <1>15, <1>16 DEF IInv

\* The end of a promoted member ends the wait of its Objective.
LEMMA CommitPromotedStep ==
    ASSUME IInv, NEW t \in Members, CommitPromoted(t)
    PROVE  IInv'
<1>1. /\ txn[t].pc = "ended" /\ thread[t].group = "target"
      /\ thread' = [thread EXCEPT ![t].status = "terminal"]
      /\ \E verdict \in {"satisfied", "failed"} :
            target' = [target EXCEPT ![t] = [status |-> verdict, waited |-> FALSE]]
      /\ txn' = [txn EXCEPT ![t] = Idle]
      /\ UNCHANGED <<member, group, contract, lock, parent>>
  BY DEF CommitPromoted, Routed
<1>2. /\ TypeOK /\ thread \in [Members -> ThreadRow] /\ target \in [Members -> TargetRow]
      /\ txn \in [Members -> TxnRow]
  BY DEF IInv, TypeOK
<1>3. Idle \in TxnRow /\ Idle.pc = "idle"
  BY DEF Idle, TxnRow, Terminal
<1>4. \A u \in Members :
         /\ thread'[u].status = IF u = t THEN "terminal" ELSE thread[u].status
         /\ thread'[u].group = thread[u].group
         /\ u # t => thread'[u] = thread[u] /\ target'[u] = target[u]
         /\ target'[t].waited = FALSE
         /\ txn'[u] = IF u = t THEN Idle ELSE txn[u]
  BY <1>1, <1>2 DEF ThreadRow
<1>5. TypeOK'
  <2>1. thread' \in [Members -> ThreadRow]
    BY <1>1, <1>2 DEF ThreadRow
  <2>2. target' \in [Members -> TargetRow] /\ txn' \in [Members -> TxnRow]
    BY <1>1, <1>2, <1>3 DEF TargetRow
  <2> QED  BY <1>1, <1>2, <2>1, <2>2 DEF TypeOK
<1>6. RequiredCounted' /\ FirstGeneration' /\ OneBarrier' /\ CompletedParentWaited'
  BY <1>1 DEF IInv, RequiredCounted, RequiredRows, FirstGeneration, OneBarrier,
              CompletedParentWaited
<1>7. LockOwned' /\ Ending' /\ PendingRow'
  BY <1>1, <1>3, <1>4 DEF IInv, LockOwned, Ending, PendingRow
<1>8. CountHeld'
  <2> SUFFICES ASSUME NEW u \in Members, txn'[u].pc = "counted"
               PROVE  /\ txn'[u].terminal = (Counted(Written(u), Terminal))'
                      /\ txn'[u].successful = (Counted(Written(u), {"completed"}))'
                      /\ txn'[u].open <=> group'.status = "open"
    BY DEF CountHeld, Terminal
  <2>1. txn'[u] = txn[u] /\ txn[u].pc = "counted"
    BY <1>3, <1>4
  <2> QED  BY <1>1, <2>1, OtherCountHeld
<1>9. PromotedWaitEnds'
  BY <1>1, <1>4 DEF IInv, PromotedWaitEnds
<1>10. NoLostVerdict'
  <2>1. ~ Untouched
    BY <1>1 DEF Untouched
  <2> QED  BY <1>1, <2>1 DEF IInv, NoLostVerdict, Rows, Counted,
              Evaluate, Minimum, MaximumFailed, Less
<1>11. VerdictStandsOnRows'
  BY <1>1 DEF IInv, VerdictStandsOnRows, Rows, Counted, Minimum, MaximumFailed, Less
<1> QED  BY <1>5, <1>6, <1>7, <1>8, <1>9, <1>10, <1>11 DEF IInv

-----------------------------------------------------------------------------
(* The parent. *)

\* A group that a parent of its generation finds settled has its verdict.
LEMMA SettledIsClosed ==
    ASSUME IInv, NoOpenGroup, parent.gen = GroupGeneration
    PROVE  group.status # "open"
<1> SUFFICES ASSUME group.status = "open" PROVE FALSE
  OBVIOUS
<1>1. /\ member \in [Members -> MemberRow] /\ contract \in Contracts
      /\ group.required \in Nat /\ group.required > 0 /\ group.terminal \in Nat
      /\ group.required = Cardinality(RequiredRows(member))
  BY DEF IInv, TypeOK, GroupRow, RequiredCounted
<1>2. /\ group.terminal = Rows(Terminal) /\ group.successful = Rows({"completed"})
      /\ \/ Evaluate(group.required, group.terminal, group.successful) = "open"
         \/ Untouched
  BY DEF IInv, NoLostVerdict
<1>3. CASE Evaluate(group.required, group.terminal, group.successful) = "open"
  <2>1. Counted(member, Terminal) < group.required
    BY <1>1, <1>2, <1>3, VerdictOnRows DEF Rows
  <2> QED  BY <1>2, <2>1 DEF NoOpenGroup, Rows
<1>4. CASE Untouched
  <2>1. {t \in Members : member[t].required /\ member[t].status \in Terminal} = {}
    <3>1. \A t \in Members : member[t].status = "pending"
      BY <1>4 DEF Untouched, IInv, PendingRow
    <3> QED  BY <3>1 DEF Terminal
  <2>2. group.terminal = 0
    BY <1>2, <2>1, FS_EmptySet DEF Rows, Counted
  <2> QED  BY <1>1, <2>2 DEF NoOpenGroup
<1> QED  BY <1>2, <1>3, <1>4

\* A step of the parent alone leaves the group and its members as they are.
LEMMA ParentAlone ==
    ASSUME IInv, parent' \in ParentRow,
           UNCHANGED <<thread, member, group, contract, target, txn, lock>>,
           FirstGeneration', OneBarrier', CompletedParentWaited'
    PROVE  IInv'
<1>1. TypeOK'
  BY DEF IInv, TypeOK
<1>2. RequiredCounted' /\ LockOwned' /\ Ending' /\ PendingRow' /\ PromotedWaitEnds'
  BY DEF IInv, RequiredCounted, RequiredRows, LockOwned, Ending, PendingRow,
         PromotedWaitEnds
<1>3. CountHeld'
  BY DEF IInv, CountHeld, Counted, Written
<1>4. NoLostVerdict'
  BY DEF IInv, NoLostVerdict, Rows, Counted, Untouched,
         Evaluate, Minimum, MaximumFailed, Less
<1>5. VerdictStandsOnRows'
  BY DEF IInv, VerdictStandsOnRows, Rows, Counted, Minimum, MaximumFailed, Less
<1> QED  BY <1>1, <1>2, <1>3, <1>4, <1>5 DEF IInv

\* The parent completes, after the groups of its generation are closed, or stops
\* without them.
LEMMA ParentEndsStep ==
    ASSUME IInv, ParentCompletes \/ ParentStops
    PROVE  IInv'
<1>1. /\ parent.status = "open"
      /\ UNCHANGED <<thread, member, group, contract, target, txn, lock>>
      /\ \E status \in Terminal :
            /\ parent' = [parent EXCEPT !.status = status]
            /\ status = "completed" => NoOpenGroup
  BY DEF ParentCompletes, ParentStops, Terminal
<1>2. PICK status \in Terminal :
            /\ parent' = [parent EXCEPT !.status = status]
            /\ status = "completed" => NoOpenGroup
  BY <1>1
<1>3. parent \in ParentRow
  BY DEF IInv, TypeOK
<1>4. /\ parent' \in ParentRow
      /\ parent'.status = status /\ parent'.signals = parent.signals
      /\ parent'.gen = parent.gen /\ parent'.retried = parent.retried
      /\ parent'.status # "open" /\ parent.gen \in Nat
  BY <1>2, <1>3 DEF ParentRow, Terminal
<1>5. FirstGeneration' /\ OneBarrier'
  BY <1>1, <1>4 DEF IInv, FirstGeneration, OneBarrier
<1>6. CompletedParentWaited'
  <2> SUFFICES ASSUME parent'.status = "completed", ~ (parent.gen > GroupGeneration)
               PROVE  group.status # "open" /\ parent.signals = 1
    BY <1>1, <1>4 DEF CompletedParentWaited
  <2>1. parent.gen = GroupGeneration /\ ~ parent.retried
    BY <1>4 DEF IInv, FirstGeneration, GroupGeneration
  <2>2. group.status # "open"
    BY <1>2, <1>4, <2>1, SettledIsClosed
  <2> QED  BY <1>1, <2>1, <2>2 DEF IInv, OneBarrier
<1> QED  BY <1>1, <1>4, <1>5, <1>6, ParentAlone

\* A new generation of the parent, superseded or retried, leaves its group behind.
LEMMA ParentMovesOnStep ==
    ASSUME IInv, ParentSuperseded \/ ParentRetried
    PROVE  IInv'
<1>1. parent \in ParentRow /\ FirstGeneration /\ OneBarrier
  BY DEF IInv, TypeOK
<1>2. UNCHANGED <<thread, member, group, contract, target, txn, lock>>
  BY DEF ParentSuperseded, ParentRetried
<1>3. /\ parent' \in ParentRow /\ parent'.status = "open"
      /\ parent'.gen = parent.gen + 1 /\ parent'.signals = parent.signals
      /\ \/ parent.status = "open" /\ parent'.retried = parent.retried
         \/ parent'.retried = TRUE
      /\ parent.gen \in Nat
  <2>1. CASE ParentSuperseded
    <3>1. parent.status = "open" /\ parent' = [parent EXCEPT !.gen = @ + 1]
      BY <2>1 DEF ParentSuperseded
    <3> QED  BY <1>1, <3>1 DEF ParentRow
  <2>2. CASE ParentRetried
    <3>1. parent' = [parent EXCEPT !.status = "open", !.gen = @ + 1, !.retried = TRUE]
      BY <2>2 DEF ParentRetried
    <3>2. parent' = [status |-> "open", gen |-> parent.gen + 1, retried |-> TRUE,
                     signals |-> parent.signals]
      BY <1>1, <3>1 DEF ParentRow
    <3>3. parent.gen \in Nat /\ parent.gen + 1 \in Nat /\ parent.signals \in Nat
      BY <1>1 DEF ParentRow
    <3> QED  BY <3>2, <3>3 DEF ParentRow
  <2> QED  BY <2>1, <2>2
<1>4. FirstGeneration'
  BY <1>1, <1>3 DEF FirstGeneration, GroupGeneration
<1>5. OneBarrier' /\ CompletedParentWaited'
  BY <1>1, <1>2, <1>3 DEF OneBarrier, CompletedParentWaited
<1> QED  BY <1>2, <1>3, <1>4, <1>5, ParentAlone

-----------------------------------------------------------------------------
(* The theorems. *)

\* Every step preserves the invariant.
LEMMA NextIInv == IInv /\ [Next]_vars => IInv'
<1> SUFFICES ASSUME IInv, [Next]_vars PROVE IInv'
  OBVIOUS
<1>1. ASSUME NEW t \in Members, Begin(t) PROVE IInv'
  BY <1>1, BeginStep
<1>2. ASSUME NEW t \in Members, LockAndCount(t) PROVE IInv'
  BY <1>2, LockAndCountStep
<1>3. ASSUME NEW t \in Members, Commit(t) PROVE IInv'
  BY <1>3, CommitStep
<1>4. ASSUME NEW t \in Members, Abort(t) PROVE IInv'
  BY <1>4, AbortStep
<1>5. ASSUME NEW t \in Members, Promote(t) PROVE IInv'
  BY <1>5, PromoteStep
<1>6. ASSUME NEW t \in Members, CommitPromoted(t) PROVE IInv'
  BY <1>6, CommitPromotedStep
<1>7. CASE ParentCompletes \/ ParentStops
  BY <1>7, ParentEndsStep
<1>9. CASE ParentSuperseded \/ ParentRetried
  BY <1>9, ParentMovesOnStep
<1>8. CASE UNCHANGED vars
  <2>1. UNCHANGED <<thread, member, group, contract, target, parent>>
        /\ txn' = txn /\ lock' = lock
    BY <1>8 DEF vars
  <2>2. OfRows'
    BY <2>1, RowsUnchanged
  <2>3. TypeOK' /\ LockOwned' /\ Ending'
    BY <2>1 DEF IInv, TypeOK, LockOwned, Ending
  <2>4. CountHeld'
    BY <2>1 DEF IInv, CountHeld, Counted, Written
  <2> QED  BY <2>2, <2>3, <2>4 DEF IInv, OfRows
<1> QED  BY <1>1, <1>2, <1>3, <1>4, <1>5, <1>6, <1>7, <1>8, <1>9 DEF Next

\* For every set of members and every contract, every reachable state satisfies
\* the inductive invariant: the count a transaction holds under the group's row
\* lock is what its commit makes true.
THEOREM Invariant == Spec => []IInv
<1>1. Init => IInv
  BY InitIInv
<1>2. IInv /\ [Next]_vars => IInv'
  BY NextIInv
<1> QED  BY <1>1, <1>2, PTL DEF Spec

\* The rows stay of their types.
THEOREM TypeCorrect == Spec => []TypeOK
<1>1. IInv => TypeOK
  BY DEF IInv
<1> QED  BY <1>1, Invariant, PTL

\* However the ends of its members interleave, an open group is one its
\* committed rows do not decide: no two transactions of
\* commit_activation_outcome and control_thread leave the verdict to each other.
THEOREM VerdictNotLost == Spec => []NoLostVerdict
<1>1. IInv => NoLostVerdict
  BY DEF IInv
<1> QED  BY <1>1, Invariant, PTL

\* No later end of a member contradicts the verdict evaluate_thread_group_contract
\* gave on the members that had ended.
THEOREM VerdictStands == Spec => []VerdictStandsOnRows
<1>1. IInv => VerdictStandsOnRows
  BY DEF IInv
<1> QED  BY <1>1, Invariant, PTL

\* A group that closes does so with one barrier Event, and an open parent that was
\* never retried, in whatever generation it is, is sent exactly that one.
THEOREM BarrierOnce == Spec => []OneBarrier
<1>1. IInv => OneBarrier
  BY DEF IInv
<1> QED  BY <1>1, Invariant, PTL

\* A parent that completes in the generation that started the group was told its
\* verdict first (the check of commit_activation_outcome for open groups).
THEOREM ParentWaits == Spec => []CompletedParentWaited
<1>1. IInv => CompletedParentWaited
  BY DEF IInv
<1> QED  BY <1>1, Invariant, PTL

\* An Objective waits for a promoted Thread exactly as long as it is open.
THEOREM PromotionEnds == Spec => []PromotedWaitEnds
<1>1. IInv => PromotedWaitEnds
  BY DEF IInv
<1> QED  BY <1>1, Invariant, PTL
=============================================================================
