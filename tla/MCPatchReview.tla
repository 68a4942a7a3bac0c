---------------------------- MODULE MCPatchReview ----------------------------
(* Small instances of PatchReview: one critic stage.                        *)
EXTENDS PatchReview
CONSTANTS s1

MCScanOf == [p \in Patches |-> s1]
=============================================================================
