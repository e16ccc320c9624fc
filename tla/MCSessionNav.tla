---------------------------- MODULE MCSessionNav ----------------------------
(* A small instance of SessionNav for TLC: a craft of the home space with a *)
(* second tab that goes and comes back; another beside it, and one alone in *)
(* a space, that go and come back too: one leaves its space, one takes it.  *)
EXTENDS SessionNav, TLC

MCSpaceOf == (1 :> "home") @@ (2 :> "other") @@ (3 :> "home")

MCWorkspaces ==
    {(1 :> {"a", "b", "ab"}), (1 :> {"a"}) @@ (2 :> {"a"}) @@ (3 :> {"a"})}

Saved(es, i) ==
    [entries |-> es, active |-> es[i].id, craft |-> es[i].craft,
     space |-> MCSpaceOf[es[i].craft]]

First(c, v)  == Entry(<<c, 0>>, c, v)
Second(c, v) == Entry(<<c, 1>>, c, v)

MCVoyages ==
    {Saved(<<First(3, "a"), First(2, "a")>>, 1),
     Saved(<<Second(1, "a"), First(1, "ab")>>, 2)}

MCUrls == {[entry |-> <<1, 1>>, view |-> "ab"], [entry |-> <<2, 0>>, view |-> NoView]}
=============================================================================
