---------------------------- MODULE MCEventStream ----------------------------
(* Small instances of EventStream for TLC. *)
EXTENDS EventStream, TLC
CONSTANTS s1, s2, c1, c2
TwoScans == {s1, s2}
OneClient == {c1}
TwoClients == {c1, c2}
Symmetry == Permutations(Scans) \cup Permutations(Clients)
=============================================================================
