-------------------------- MODULE MCPlanExecution --------------------------
(***************************************************************************)
(* Instances of PlanExecution for TLC: a root that runs a child program,     *)
(* which runs two branches in parallel, a Host operation and a question to    *)
(* a model, survives their failure, and then calls a tool.                   *)
(***************************************************************************)
EXTENDS PlanExecution

CONSTANTS w1, w2, root, b1, b2, kid

MCWorkers == {w1, w2}
MCPlans == {root, b1, b2, kid}

MCProgram ==
    [p \in MCPlans |-> CASE p = root -> <<"program">>
                         [] p = kid -> <<"par", "call">>
                         [] p = b1 -> <<"host">>
                         [] p = b2 -> <<"infer">>]

MCBranches ==
    [e \in MCPlans \X (1..2) |-> CASE e = <<root, 1>> -> <<kid>>
                                  [] e = <<kid, 1>> -> <<b1, b2>>
                                  [] OTHER -> << >>]

MCCatches == {kid}
=============================================================================
