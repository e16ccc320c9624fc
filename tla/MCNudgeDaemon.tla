---------------------------- MODULE MCNudgeDaemon ----------------------------
(* Small instances of NudgeDaemon for TLC. *)
EXTENDS NudgeDaemon, TLC

CONSTANTS s1, s2

Symmetry == Permutations(Sessions)
=============================================================================
