--------------------------- MODULE MCVoyageShell ---------------------------
(* One tab and two voyages with the same craft; a craft and a voyage may be *)
(* made.  Three things are asked for, or two when there also is a craft    *)
(* that no voyage has, and when there is no voyage yet.                    *)
EXTENDS VoyageShell, TLC

CONSTANTS craft1, craft2, newCraft, voyage1, voyage2, newVoyage

MCCrafts  == {craft1, craft2, newCraft}
MCVoyages == {voyage1, voyage2, newVoyage}
Alike     == Permutations({voyage1, voyage2})

Same == [x \in {voyage1, voyage2} |-> Voyage({craft1}, craft1)]
None == [x \in {} |-> Nothing]

At(c, v, gone, asked) == [craft |-> c, voyages |-> v, gone |-> gone, asked |-> asked]

MCLoads ==
    {At({craft1}, Same, {craft2}, 0),
     At({craft1, craft2}, Same, {}, 1),
     At({craft1, craft2}, None, {}, 1)}

=============================================================================
