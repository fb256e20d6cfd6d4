--------------------------- MODULE MCEdgeCommand ---------------------------
(* Two pollers of one Node and two commands: c1's boundary is persisted by    *)
(* the first heartbeat, c2's when its tool waits at its gate.                 *)
EXTENDS EdgeCommand

CONSTANTS w1, w2, c1, c2

MCWorkers == {w1, w2}
MCCommands == {c1, c2}
MCGated == {c2}
=============================================================================
