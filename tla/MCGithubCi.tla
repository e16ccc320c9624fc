------------------------------ MODULE MCGithubCi ------------------------------
(* Small instances of GithubCi for TLC. *)
EXTENDS GithubCi, TLC

CONSTANTS d1, d2, s1, s2, r1, w1

\* Both commits belong to one repository, which VK knows under another name:
\* a workspace matches only through a cached alias.
OneRepo         == [s \in Shas |-> r1]
OneWorkspace    == w1 :> Shas

Symmetry == Permutations(Deliveries) \cup Permutations(Shas)
=============================================================================
