---------------------------- MODULE MCVoyageStore ----------------------------
(* Two craft with tabs, one of them with a pair; a craft of Home; one of a *)
(* VK workspace; one that has gone.  Stores of up to three voyages of the  *)
(* formats there have been, with duplicates, voyages named Home and one    *)
(* craft twice.                                                            *)
EXTENDS VoyageStore, TLC

Craft(tabs, pairs) ==
    [url |-> [t \in tabs |-> "page"], pinned |-> {}, pairs |-> pairs, ws |-> NoWs]

\* Craft 1 has tabs 11 and 12 and their pair 13, craft 2 tab 21, craft 5 of a VK
\* workspace tab 51; craft 3 is gone.
MCTree ==
    [spaces    |-> (0 :> {0}) @@ (4 :> {1, 2, 5}),
     tabGroups |-> (0 :> Craft({10}, {})) @@ (2 :> Craft({21}, {}))
                   @@ (5 :> [Craft({51}, {}) EXCEPT !.ws = "vk1"])
                   @@ (1 :> Craft({11, 12}, {[id |-> 13, of |-> {11, 12}]}))]

NoItems == [x \in {} |-> 0]

Visiting(c, visited, items) ==
    [space |-> 4, craft |-> c, visited |-> visited, items |-> items,
     entries |-> <<>>, active |-> None, itemOf |-> NoItems]

On(c, views) == [id |-> <<c, 0>>, craft |-> c, views |-> views]
Again(c, views) == [id |-> <<c, 1>>, craft |-> c, views |-> views]

With(entries, e, items, itemOf) ==
    [Visiting(e.craft, <<>>, items) EXCEPT
       !.entries = entries, !.active = e.id, !.itemOf = itemOf,
       !.visited = Distinct(CraftsOn(entries))]

OfV1 ==
    {Visiting(1, <<1>>, 1 :> 13), Visiting(1, <<1>>, 1 :> 12), Visiting(1, <<>>, 1 :> 13),
     Visiting(2, <<1, 2>>, (1 :> 13) @@ (2 :> 21)), Visiting(2, <<3, 2>>, 3 :> 31),
     Visiting(0, <<0>>, NoItems), Visiting(3, <<3>>, NoItems), Visiting(5, <<5>>, 5 :> 51),
     Visiting(3, <<3, 1>>, (3 :> 31) @@ (1 :> 14))}

OfV2 ==
    {Visiting(1, <<1>>, 1 :> 12), Visiting(0, <<0>>, NoItems),
     With(<<On(1, {11, 12})>>, On(1, {11, 12}), 1 :> 13, NoItems),
     With(<<On(1, {11}), On(2, {21})>>, On(2, {21}), NoItems, <<1, 0>> :> 12),
     With(<<On(1, {11}), Again(1, {12})>>, Again(1, {12}), None, NoItems),
     With(<<On(5, {Agent, 51})>>, On(5, {Agent, 51}), None, NoItems),
     With(<<On(3, {31}), On(1, {12, 14})>>, On(3, {31}), None, NoItems)}

Of(s, id, name, age) ==
    [id |-> id, name |-> name, age |-> age] @@ s

Two(version, shapes, names) ==
    {[version |-> version, data |-> {Of(s, 1, n, 1), Of(t, 2, m, k)}] :
       s \in shapes, t \in shapes, n \in names, m \in names, k \in {1, 2}}

Three ==
    {[version |-> 2, data |-> {Of(s, 1, "trip", 2), Of(t, 2, "trip", 1), Of(u, 3, "trip", k)}] :
       s \in OfV2, t \in OfV2, u \in OfV2, k \in {1, 2}}

MCStores == Two(1, OfV1, {"", "trip"}) \cup Two(2, OfV2, {"", "home"}) \cup Three

Item(e) == IF Cardinality(e.views) > 1 THEN 13 ELSE First(e.views)

New(id, c, views) ==
    Of(With(<<On(c, views)>>, On(c, views), None, <<c, 0>> :> Item(On(c, views))), id, "", 0)

MCNewVoyages == {New(4, 1, {11, 12})}
=============================================================================
