---------------------------- MODULE MCWorkspace ----------------------------
(* Small instances of Workspace for TLC. *)
EXTENDS Workspace, TLC

CONSTANTS v1, v2, w1

Symmetry == Permutations(Sessions)
=============================================================================
