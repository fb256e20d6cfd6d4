---------------------------- MODULE PhysicalCall ----------------------------
(***************************************************************************)
(* What the control plane promises about a physical tool call, without       *)
(* claims, leases, revisions, heartbeats or recovery: its action happens at   *)
(* most once unless the tool is declared repeatable, it gets at most one      *)
(* verdict, and after a definite verdict nothing more happens.  A verdict     *)
(* that is not definite leaves open whether the action still happens.         *)
(*                                                                          *)
(* EdgeCommand implements it with every verdict but `lost' definite,          *)
(* ExecutionJob with `succeeded' and `failed' definite: a stale worker may    *)
(* report a cancelled Job whose newer claim is about to start its tool        *)
(* (TerminalFencedByClaim).                                                  *)
(***************************************************************************)
EXTENDS Naturals

CONSTANTS Calls,
          Definite     \* verdicts after which the action does not happen

VARIABLES
    verdict,     \* what the callers of each call are told
    repeatable,  \* whether its tool may be run again
    acts         \* how often its physical action happened

callVars == <<verdict, repeatable, acts>>

Final == {"succeeded", "failed", "cancelled", "lost"}
Verdicts == {"none", "open"} \cup Final

Init ==
    /\ verdict = [c \in Calls |-> "none"]
    /\ repeatable \in [Calls -> BOOLEAN]
    /\ acts = [c \in Calls |-> 0]

\* A call is submitted once; its tool says whether it may be repeated.
Submit(c) ==
    /\ verdict[c] = "none"
    /\ verdict' = [verdict EXCEPT ![c] = "open"]
    /\ \E r \in BOOLEAN : repeatable' = [repeatable EXCEPT ![c] = r]
    /\ UNCHANGED acts

MayAct(c) ==
    \/ verdict[c] # "none" /\ repeatable[c]
    \/ verdict[c] \notin {"none"} \cup Definite /\ acts[c] = 0

Perform(c) ==
    /\ MayAct(c)
    /\ acts' = [acts EXCEPT ![c] = @ + 1]
    /\ UNCHANGED <<verdict, repeatable>>

\* Open calls are settled, one or several at once (a revoked Node, a
\* reconciler); success is only reported of an action that happened.
Settle ==
    /\ verdict' \in [Calls -> Verdicts]
    /\ \A c \in Calls : verdict'[c] # verdict[c] =>
          /\ verdict[c] = "open"
          /\ verdict'[c] \in Final
          /\ verdict'[c] = "succeeded" => acts[c] > 0
    /\ UNCHANGED <<repeatable, acts>>

Next ==
    \/ \E c \in Calls : Submit(c) \/ Perform(c)
    \/ Settle

Spec == Init /\ [][Next]_callVars
=============================================================================
