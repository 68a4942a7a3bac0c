-------------------------- MODULE MCRuntimeSandbox --------------------------
(* Small instances of RuntimeSandbox for TLC. *)
EXTENDS RuntimeSandbox
CONSTANTS r1, r2, d1
OneRequest == {r1}
TwoRequests == {r1, r2}
OneDestroyer == {d1}
NoFaults == {}
StoreFaults == {"store"}
CrashFaults == {"crash"}
=============================================================================
