---------------------------- MODULE AtomicStore ----------------------------
(***************************************************************************)
(* What a store promises its callers: every operation takes effect at one    *)
(* instant between its call and its return.  A read returns what had been     *)
(* written at its instant.  A write that returns has been applied; one that   *)
(* failed may have been, or may still be, but once at most.                   *)
(***************************************************************************)
EXTENDS Naturals

CONSTANTS Ops,      \* operations, each called at most once
          Foreign   \* writes of other owners of the same data

VARIABLES log,   \* the writes that have taken effect
          call,  \* how far each operation is
          seen   \* what each read has observed

avars == <<log, call, seen>>

Init ==
    /\ log = {}
    /\ call = [o \in Ops |-> "idle"]
    /\ seen = [o \in Ops |-> {}]

Call(o) ==
    /\ call[o] = "idle"
    /\ call' = [call EXCEPT ![o] = "called"]
    /\ UNCHANGED <<log, seen>>

Write(o) ==
    /\ call[o] \in {"called", "failed"} /\ o \notin log
    /\ log' = log \cup {o}
    /\ UNCHANGED <<call, seen>>

Read(o) ==
    /\ call[o] = "called"
    /\ call' = [call EXCEPT ![o] = "seen"]
    /\ seen' = [seen EXCEPT ![o] = log]
    /\ UNCHANGED log

Return(o) ==
    /\ call[o] = "seen" \/ (call[o] = "called" /\ o \in log)
    /\ call' = [call EXCEPT ![o] = "ok"]
    /\ UNCHANGED <<log, seen>>

Fail(o) ==
    /\ call[o] \in {"called", "seen"}
    /\ call' = [call EXCEPT ![o] = "failed"]
    /\ seen' = [seen EXCEPT ![o] = {}]
    /\ UNCHANGED log

WriteElsewhere ==
    /\ \E f \in Foreign \ log : log' = log \cup {f}
    /\ UNCHANGED <<call, seen>>

Next ==
    \/ \E o \in Ops : Call(o) \/ Write(o) \/ Read(o) \/ Return(o) \/ Fail(o)
    \/ WriteElsewhere

Spec == Init /\ [][Next]_avars
=============================================================================
