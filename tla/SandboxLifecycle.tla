-------------------------- MODULE SandboxLifecycle --------------------------
(***************************************************************************)
(* What a reader of the durable records may rely on: a sandbox is          *)
(* provisioned once, becomes ready or fails, is taken down at most once,   *)
(* and a record that was taken down is never live again.                   *)
(***************************************************************************)
CONSTANT Requests
VARIABLE state   \* state[i]: what the record of sandbox i says

TypeOK == state \in [Requests -> {"none", "provisioning", "ready", "failed", "gone"}]

Init == state = [i \in Requests |-> "none"]

Move(i, from, to) == state[i] \in from /\ state' = [state EXCEPT ![i] = to]

Seed(i) == Move(i, {"none"}, "provisioning")
Ready(i) == Move(i, {"provisioning"}, "ready")
Fail(i) == Move(i, {"none", "provisioning"}, "failed")
TakeDown(i) == Move(i, {"provisioning", "ready", "failed"}, "gone")

Next == \E i \in Requests : Seed(i) \/ Ready(i) \/ Fail(i) \/ TakeDown(i)
Spec == Init /\ [][Next]_state
=============================================================================
