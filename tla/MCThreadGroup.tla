--------------------------- MODULE MCThreadGroup ---------------------------
(* Three members, one of them perhaps optional, under sixteen contracts, four  *)
(* of which are decided when the group is created.                           *)
EXTENDS ThreadGroup

CONSTANTS m1, m2, m3

MCMembers == {m1, m2, m3}
MCRequiredSets == {{m1, m2}, {m1, m2, m3}}

MCContracts ==
    {[policy |-> p, min |-> n, max |-> x] :
        p \in {"all", "any"}, n \in {Unset, 2}, x \in {Unset, 0, 1}}
    \cup {[policy |-> p, min |-> n, max |-> Unset] :
             p \in {"all", "any"}, n \in {0, 4}}
=============================================================================
