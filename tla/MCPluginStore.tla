---------------------------- MODULE MCPluginStore ---------------------------
(* Three versions, one of which was built twice: installed from nothing,   *)
(* or beside an old one, by two installs, or all there to be deployed.     *)
EXTENDS PluginStore, TLC

CONSTANTS a, b, i1, i2

Builds == {[version |-> 1, build |-> a], [version |-> 1, build |-> b],
           [version |-> 2, build |-> a], [version |-> 3, build |-> a]}
Symmetry == Permutations({i1, i2})

OldInstalled == {[version |-> 1, build |-> a]}

EmptyOrInstalled ==
    {[have |-> {}, installs |-> 3, acts |-> 0],
     [have |-> OldInstalled, installs |-> 1, acts |-> 3],
     [have |-> [version : Versions, build : {a}], installs |-> 0, acts |-> 9]}

=============================================================================
