------------------------- MODULE MCThreadActivation -------------------------
(***************************************************************************)
(* Instances of ThreadActivation for TLC.  Runtimes are interchangeable.    *)
(***************************************************************************)
EXTENDS ThreadActivation, TLC

CONSTANTS r1, r2

MCRuntimes == {r1, r2}

RuntimeSymmetry == Permutations(MCRuntimes)
=============================================================================
