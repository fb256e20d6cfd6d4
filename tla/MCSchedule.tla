----------------------------- MODULE MCSchedule -----------------------------
(* Two Runtimes over one store: two dispatchers and two control calls.       *)
EXTENDS Schedule

CONSTANTS r1, r2

MCRuntimes == {r1, r2}
=============================================================================
