--------------------------- MODULE MCRemoteStore ---------------------------
(* Three operations, one assignment of kinds for every bag of kinds, and one   *)
(* write of another owner.                                                    *)
EXTENDS RemoteStore

CONSTANTS o1, o2, o3, f1

MCOps == {o1, o2, o3}
MCForeign == {f1}

Rank == [k \in {"read", "write", "park"} |->
            CASE k = "read" -> 1 [] k = "write" -> 2 [] OTHER -> 3]

MCKinds == {k \in [MCOps -> {"read", "write", "park"}] :
                Rank[k[o1]] <= Rank[k[o2]] /\ Rank[k[o2]] <= Rank[k[o3]]}
=============================================================================
