--------------------------- MODULE PatchLifecycle ---------------------------
(***************************************************************************)
(* What the owner of a repository may rely on: a patch is decided once,    *)
(* for good, and nothing but an approved patch is ever published.          *)
(***************************************************************************)
CONSTANT Patches
VARIABLES verdict,   \* per patch: "open" until it is decided
          published  \* patches with a pull request, remote or recorded

Init == verdict = [p \in Patches |-> "open"] /\ published = {}

Decide(p, v) ==
  /\ verdict[p] = "open"
  /\ verdict' = [verdict EXCEPT ![p] = v]
  /\ UNCHANGED published

Publish(p) ==
  /\ verdict[p] = "APPROVED"
  /\ published' = published \cup {p}
  /\ UNCHANGED verdict

Next == \E p \in Patches : (\E v \in {"APPROVED", "REJECTED"} : Decide(p, v)) \/ Publish(p)
Spec == Init /\ [][Next]_<<verdict, published>>
=============================================================================
