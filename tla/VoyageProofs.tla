---------------------------- MODULE VoyageProofs ----------------------------
(***************************************************************************)
(* Proofs about the voyages as a tab shows them (SessionNav) and as a      *)
(* start leaves them (VoyageStore), which share what they say of lists.    *)
(*                                                                         *)
(* SessionNav.  ShowsTheVoyage and FollowsTheUrl rest on Inv: the          *)
(* navigation is sound (entries of craft, that show something once a space *)
(* is shown), it shows its active entry (Matched), it follows the voyage   *)
(* and the URL that the last round of effects applied until a call of the  *)
(* hook changes it (Following), and when no round is to come it is at rest *)
(* on what arrived last (Resting). Resting is what makes a call work on    *)
(* entries that are there, and what makes a workspace that changes beside  *)
(* the voyage leave the route where it was.                                *)
(*                                                                         *)
(* TypeCorrect adds the ids (Typed: every entry has one of its own) and    *)
(* how long the effects go on (Rounds: a round that follows another finds  *)
(* nothing but live craft, the one after it what no round changes).        *)
(* KeepsOthers follows from the ids: of entries with ids of their own,     *)
(* what comes and goes is counted by the ids that come and go.             *)
(*                                                                         *)
(* VoyageStore.  AcceptedByWorkspace rests on StoreInv: what a running     *)
(* server has is Mended, that is, a repair leaves it as it is.  One        *)
(* repair mends whatever was stored (RepairedMended).  KeepsVoyages and    *)
(* ShowsAsBefore compare the two sides of a step: what the migration       *)
(* leaves is Alike (the same craft, views and name), what a start leaves   *)
(* is After (that, without what has gone).                                 *)
(***************************************************************************)
EXTENDS SessionNav, VoyageStore, FiniteSetTheorems, NaturalsInduction,
        WellFoundedInduction, SequenceTheorems, TLAPS

\* Entries of craft, and with a space there are some, which show something.
Sound(n) ==
    /\ n.entries \in Seq(Entries)
    /\ n.craft \in Crafts \cup {NoCraft}
    /\ \/ n.space = NoSpace
       \/ n.entries # <<>> /\ \A i \in DOMAIN n.entries : n.entries[i].view \in Views

\* What is shown is the active entry, else the first.
Matching(n) ==
    LET e == ShownOf(n.entries, n.active)
    IN  n.craft = e.craft /\ (n.space = NoSpace \/ n.space = SpaceOf[e.craft])

\* The tab has a voyage whose craft and tabs are all there.
InStepWith(w, s) == s # NoVoyage /\ AllThere(w, s)

\* All entries are of live craft and show what is there.
Normal(w, es) ==
    \A i \in DOMAIN es :
        /\ es[i].craft \in Live(w)
        /\ es[i].view = NormalView(w, es[i].craft, es[i].view)

\* The effects find nothing to repair ...
AtRest(w, n) ==
    /\ n.space \in SpacesOf(w)
    /\ n.active \in Ids(n.entries)
    /\ Normal(w, n.entries)

\* ... and one more round of effects leaves it as it is.
Final(w, n) == AtRest(w, n) /\ n.craft \in Live(w) /\ Live(w) \subseteq DOMAIN n.items

\* With no round to come, what arrived last is applied and at rest.
Resting ==
    round = 0 =>
        last.saved = saved /\ last.route = CurrentRoute /\ AtRest(workspace, nav)

\* What is shown is the active entry, unless the voyage names what is gone.
Matched == Matching(nav) \/ (last.saved # NoVoyage /\ ~AllThere(workspace, last.saved))

\* The same entries of the same craft, whatever they show.
SameEntries(es, fs) ==
    /\ Len(es) = Len(fs)
    /\ \A i \in DOMAIN es : es[i].id = fs[i].id /\ es[i].craft = fs[i].craft

\* Two views show the same of a craft.
SameView(w, c, v, u) == NormalView(w, c, v) = NormalView(w, c, u)

\* The entry of a route is active and shows what the route names.
AtRoute(w, n, r) ==
    r # NoRoute =>
        /\ n.active = r.entry
        /\ SameView(w, r.craft, EntryWithId(n.entries, n.active).view, r.view)

\* Until a call, the entries are those of the voyage and the route is followed.
Following ==
    ~called =>
        /\ pending = NoSelection
        /\ InStepWith(workspace, last.saved) =>
             /\ SameEntries(nav.entries, last.saved.entries)
             /\ AtRoute(workspace, nav, last.route)

\* A route that was applied names an entry of the voyage.
RouteOfVoyage(r, s) ==
    r # NoRoute =>
        /\ s # NoVoyage
        /\ r.entry \in Ids(s.entries)
        /\ r.craft = EntryWithId(s.entries, r.entry).craft
        /\ r.view \in Views

\* The inductive invariant.
Inv ==
    /\ workspace \in Workspaces
    /\ saved \in Voyages \cup {NoVoyage}
    /\ url \in Urls \cup {NoRoute}
    /\ last.saved \in Voyages \cup {NoVoyage}
    /\ round \in Nat
    /\ called \in BOOLEAN
    /\ Sound(nav)
    /\ Matched
    /\ RouteOfVoyage(last.route, last.saved)
    /\ Following
    /\ Resting

-----------------------------------------------------------------------------
(* Places of a sequence.                                                   *)

\* The least of some places is one of them.
LEMMA LeastPlace ==
    ASSUME NEW S, S \subseteq Nat, S # {}
    PROVE  Min(S) \in S /\ \A y \in S : Min(S) <= y
<1> DEFINE R == {ss \in Nat \X Nat : ss[1] < ss[2]}
<1>1. IsWellFoundedOn(R, Nat)
  BY NatLessThanWellFounded, Zenon DEF OpToRel
<1>2. \A y, x \in Nat : y < x => <<y, x>> \in R
  OBVIOUS
<1> HIDE DEF R
<1>3. PICK x \in S : \A y \in S : ~ (<<y, x>> \in R)
  BY <1>1, WFMin
<1>4. ASSUME NEW y \in S PROVE x <= y
  <2>1. ~(y < x)
    BY <1>2, <1>3
  <2> QED BY <2>1
<1> QED BY <1>4 DEF Min

\* There is a k-th of a set of n places, for every k up to n: the first is the
\* least, and the one after it is the least of the rest.
LEMMA PlacesThere ==
    ASSUME NEW I, I \subseteq Nat, IsFiniteSet(I), NEW k \in 1..Cardinality(I)
    PROVE  PlaceOf(I, k) \in I /\ Cardinality({j \in I : j <= PlaceOf(I, k)}) = k
<1> DEFINE Upto(i) == {j \in I : j <= i}
           Missing == {x \in 1..Cardinality(I) : \A i \in I : Cardinality(Upto(i)) # x}
<1>1. Cardinality(I) \in Nat
  BY FS_CardinalityType
<1>2. ASSUME NEW x \in Missing, \A y \in Missing : x <= y PROVE FALSE
  <2>1. /\ x \in 1..Cardinality(I)
        /\ \A i \in I : Cardinality(Upto(i)) # x
        /\ \A y \in 1..Cardinality(I) : y < x => \E i \in I : Cardinality(Upto(i)) = y
    <3>1. ASSUME NEW y \in 1..Cardinality(I), y < x PROVE y \notin Missing
      <4>1. ~(x <= y)
        BY <1>1, <3>1
      <4> HIDE DEF Missing
      <4> QED BY <4>1, <1>2
    <3> HIDE DEF Upto
    <3> QED BY <3>1, <1>2
  <2>2. ASSUME NEW J \in SUBSET I, NEW i \in I \ J, Upto(i) = J \cup {i}, Cardinality(J) = x - 1
        PROVE  FALSE
    <3>1. IsFiniteSet(J)
      BY FS_Subset
    <3>2. Cardinality(J \cup {i}) = x - 1 + 1
      BY <2>2, <3>1, FS_AddElement
    <3>3. Cardinality(Upto(i)) = x
      BY <2>1, <2>2, <3>2, <1>1
    <3> QED BY <3>3, <2>1
  <2>3. CASE x = 1
    <3>1. I # {}
      BY <2>1, <1>1, FS_EmptySet
    <3>2. PICK i \in I : \A y \in I : i <= y
      BY <3>1, LeastPlace
    <3>3. Upto(i) = {} \cup {i}
      <4>1. ASSUME NEW y \in I PROVE y <= i <=> y = i
        BY <3>2
      <4> QED BY <4>1
    <3>4. Cardinality({}) = x - 1 /\ {} \in SUBSET I /\ i \in I \ {}
      BY <2>3, FS_EmptySet
    <3> HIDE DEF Upto
    <3> QED BY <2>2, <3>3, <3>4
  <2>4. CASE x # 1
    <3>1. x - 1 \in 1..Cardinality(I) /\ x - 1 < x
      BY <1>1, <2>1, <2>4
    <3>2. PICK i \in I : Cardinality(Upto(i)) = x - 1
      BY <2>1, <3>1
    <3>3. I \ Upto(i) # {}
      <4>1. SUFFICES ASSUME I \ Upto(i) = {} PROVE FALSE
        OBVIOUS
      <4>2. Upto(i) = I
        BY <4>1
      <4> HIDE DEF Upto
      <4> QED BY <4>2, <3>2, <2>1, <1>1
    <3>4. PICK r \in I \ Upto(i) : \A y \in I \ Upto(i) : r <= y
      BY <3>3, LeastPlace
    <3>5. Upto(r) = Upto(i) \cup {r}
      <4>1. ASSUME NEW y \in I PROVE y <= r <=> (y <= i \/ y = r)
        <5>1. ~(r <= i) /\ (y <= i \/ r <= y)
          BY <3>4
        <5> QED BY <5>1
      <4> QED BY <4>1
    <3>6. Upto(i) \in SUBSET I
      OBVIOUS
    <3> HIDE DEF Upto
    <3> QED BY <2>2, <3>2, <3>4, <3>5, <3>6
  <2> QED BY <2>3, <2>4
<1>3. Missing = {}
  <2>1. Missing \subseteq Nat
    BY <1>1
  <2> HIDE DEF Missing
  <2> QED BY <1>2, <2>1, LeastPlace
<1>4. \E i \in I : Cardinality(Upto(i)) = k
  BY <1>3
<1> QED BY <1>4 DEF PlaceOf

\* Of all places, the k-th is k.
LEMMA PlacesOfAll ==
    ASSUME NEW n \in Nat, NEW k \in 1..n
    PROVE  PlaceOf(1..n, k) = k
<1>1. IsFiniteSet(1..n) /\ Cardinality(1..n) = n
  BY FS_Interval
<1>2. PlaceOf(1..n, k) \in 1..n /\ Cardinality({j \in 1..n : j <= PlaceOf(1..n, k)}) = k
  <2>1. 1..n \subseteq Nat /\ k \in 1..Cardinality(1..n)
    BY <1>1
  <2> QED BY <1>1, <2>1, PlacesThere
<1>3. ASSUME NEW p \in 1..n, Cardinality({j \in 1..n : j <= p}) = k PROVE p = k
  <2>1. {j \in 1..n : j <= p} = 1..p
    OBVIOUS
  <2>2. Cardinality(1..p) = p
    BY FS_Interval
  <2> QED BY <1>3, <2>1, <2>2
<1> QED BY <1>2, <1>3

\* A function over the first numbers is a sequence of that length.
LEMMA FunctionIsSeq ==
    ASSUME NEW S, NEW n \in Nat, NEW f \in [1..n -> S]
    PROVE  f \in Seq(S) /\ Len(f) = n /\ DOMAIN f = 1..n
OBVIOUS

-----------------------------------------------------------------------------
(* Entries at places of a sequence.                                        *)

\* All at some places: as many as there are places, each of them an entry that
\* is there, and the same sequence if the places are all there are.
LEMMA PlacesFinite ==
    ASSUME NEW S, NEW es \in Seq(S), NEW I \in SUBSET DOMAIN es
    PROVE  /\ I \subseteq Nat /\ IsFiniteSet(I) /\ Cardinality(I) \in Nat
           /\ Cardinality(I) <= Len(es)
           /\ Cardinality(I) = 0 <=> I = {}
<1>1. DOMAIN es = 1..Len(es) /\ Len(es) \in Nat
  OBVIOUS
<1>2. IsFiniteSet(1..Len(es)) /\ Cardinality(1..Len(es)) = Len(es)
  <2> DEFINE n == Len(es)
  <2>1. n \in Nat
    BY <1>1
  <2> HIDE DEF n
  <2>2. IsFiniteSet(1..n) /\ Cardinality(1..n) = n
    BY <2>1, FS_Interval
  <2> QED BY <2>2 DEF n
<1>3. IsFiniteSet(I) /\ Cardinality(I) <= Len(es)
  BY <1>1, <1>2, FS_Subset
<1> QED BY <1>1, <1>3, FS_CardinalityType, FS_EmptySet

\* What stands at some places of a sequence: as many as there are places.
LEMMA AllAtThem ==
    ASSUME NEW S, NEW es \in Seq(S), NEW I \in SUBSET DOMAIN es
    PROVE  /\ AllAt(es, I) \in Seq(S)
           /\ Len(AllAt(es, I)) = Cardinality(I)
           /\ DOMAIN AllAt(es, I) = 1..Cardinality(I)
           /\ \A k \in DOMAIN AllAt(es, I) : \E i \in I : AllAt(es, I)[k] = es[i]
           /\ AllAt(es, I) = <<>> <=> I = {}
           /\ I = DOMAIN es => AllAt(es, I) = es
<1> DEFINE c == Cardinality(I)
<1>1. I \subseteq Nat /\ IsFiniteSet(I) /\ c \in Nat /\ (c = 0 <=> I = {})
  BY PlacesFinite
<1>2. \A k \in 1..c : PlaceOf(I, k) \in I
  BY <1>1, PlacesThere
<1>3. \A k \in 1..c : es[PlaceOf(I, k)] \in S
  BY <1>2
<1>4. AllAt(es, I) = [k \in 1..c |-> es[PlaceOf(I, k)]]
  BY DEF AllAt
<1> HIDE DEF c
<1>5. AllAt(es, I) \in Seq(S) /\ DOMAIN AllAt(es, I) = 1..c /\ Len(AllAt(es, I)) = c
  BY <1>1, <1>3, <1>4
<1>6. AllAt(es, I) = <<>> <=> I = {}
  BY <1>1, <1>5
<1>7. ASSUME I = DOMAIN es PROVE AllAt(es, I) = es
  <2>1. DOMAIN es = 1..Len(es) /\ Len(es) \in Nat
    OBVIOUS
  <2>2. c = Len(es)
    <3> DEFINE n == Len(es)
    <3>1. n \in Nat /\ c = Cardinality(1..n)
      BY <1>7, <2>1 DEF c
    <3> HIDE DEF n
    <3>2. Cardinality(1..n) = n
      BY <3>1, FS_Interval
    <3> QED BY <3>1, <3>2 DEF n
  <2>3. \A k \in 1..c : PlaceOf(I, k) = k
    BY <1>7, <2>1, <2>2, PlacesOfAll
  <2>4. \A k \in 1..c : AllAt(es, I)[k] = es[k]
    BY <1>4, <2>3
  <2> QED BY <1>5, <2>1, <2>2, <2>4
<1> QED BY <1>2, <1>4, <1>5, <1>6, <1>7 DEF c

\* The first of those at some places.
LEMMA FirstAtThem ==
    ASSUME NEW S, NEW es \in Seq(S), NEW I \in SUBSET DOMAIN es, I # {}
    PROVE  \E i \in I : FirstAt(es, I) = es[i] /\ \A j \in I : i <= j
<1>1. I \subseteq Nat
  BY PlacesFinite
<1>2. Min(I) \in I /\ \A j \in I : Min(I) <= j
  BY <1>1, LeastPlace
<1> QED BY <1>2 DEF FirstAt

\* The entry with an id, if there is one, and none if there is none.
LEMMA EntryWithIdThere ==
    ASSUME NEW es \in Seq(Entries), NEW id
    PROVE  /\ id \in Ids(es) =>
                \E i \in DOMAIN es :
                    /\ EntryWithId(es, id) = es[i] /\ es[i].id = id
                    /\ \A j \in DOMAIN es : es[j].id = id => i <= j
           /\ id \notin Ids(es) => EntryWithId(es, id) = NoneOfThem
<1> DEFINE I == {i \in DOMAIN es : es[i].id = id}
<1>1. id \in Ids(es) <=> I # {}
  BY DEF Ids
<1>2. I \in SUBSET DOMAIN es
  OBVIOUS
<1>3. EntryWithId(es, id) = FirstAt(es, I)
  BY DEF EntryWithId
<1>4. I = {} => FirstAt(es, I) = NoneOfThem
  BY DEF FirstAt
<1>5. \A i \in DOMAIN es : i \in I <=> es[i].id = id
  OBVIOUS
<1> HIDE DEF I
<1>6. I # {} => \E i \in I : FirstAt(es, I) = es[i] /\ \A j \in I : i <= j
  BY <1>2, FirstAtThem
<1> QED BY <1>1, <1>2, <1>3, <1>4, <1>5, <1>6

\* The first entry of a craft.
LEMMA EntryOfThere ==
    ASSUME NEW es \in Seq(Entries), NEW c
    PROVE  /\ c \in CraftsOf(es) =>
                \E i \in DOMAIN es : EntryOf(es, c) = es[i] /\ es[i].craft = c
           /\ c \notin CraftsOf(es) => EntryOf(es, c) = NoneOfThem
<1> DEFINE I == {i \in DOMAIN es : es[i].craft = c}
<1>1. c \in CraftsOf(es) <=> I # {}
  BY DEF CraftsOf
<1>2. I \in SUBSET DOMAIN es
  OBVIOUS
<1>3. EntryOf(es, c) = FirstAt(es, I)
  BY DEF EntryOf
<1>4. I = {} => FirstAt(es, I) = NoneOfThem
  BY DEF FirstAt
<1>5. \A i \in DOMAIN es : i \in I <=> es[i].craft = c
  OBVIOUS
<1> HIDE DEF I
<1>6. I # {} => \E i \in I : FirstAt(es, I) = es[i] /\ \A j \in I : i <= j
  BY <1>2, FirstAtThem
<1> QED BY <1>1, <1>2, <1>3, <1>4, <1>5, <1>6

\* No entry has the id of none.
LEMMA EntriesTyped ==
    /\ NoEntry \notin EntryIds
    /\ NoCraft \notin Crafts
    /\ NoneOfThem.id = NoEntry /\ NoneOfThem.craft = NoCraft /\ NoneOfThem.view = NoView
    /\ \A id \in EntryIds, c \in Crafts, v \in Views \cup {NoView} :
         /\ id[1] = c => Entry(id, c, v) \in Entries
         /\ Entry(id, c, v).id = id /\ Entry(id, c, v).craft = c /\ Entry(id, c, v).view = v
    /\ \A e \in Entries :
         /\ e.id \in EntryIds /\ e.craft \in Crafts /\ e.view \in Views \cup {NoView}
         /\ e.id[1] = e.craft
BY NavAssumption DEF NoEntry, EntryIds, Entries, Entry, NoneOfThem, NoCraft

\* A new id: of one more numbers than there are ids, one is free.
LEMMA FreeIdThere ==
    ASSUME NEW es \in Seq(Entries), NEW c \in Crafts
    PROVE  FreeId(Ids(es), c) \in EntryIds /\ FreeId(Ids(es), c) \notin Ids(es)
           /\ FreeId(Ids(es), c)[1] = c
<1> DEFINE ids == Ids(es)
           n == Cardinality(ids)
           Free == {k \in 0..n : <<c, k>> \notin ids}
<1>1. IsFiniteSet(ids)
  <2>1. DOMAIN es = 1..Len(es) /\ Len(es) \in Nat
    OBVIOUS
  <2>2. IsFiniteSet(DOMAIN es)
    BY <2>1, FS_Interval
  <2> DEFINE f == [i \in DOMAIN es |-> es[i].id]
  <2>3. f \in Surjection(DOMAIN es, ids)
    BY DEF Surjection, Ids
  <2> QED BY <2>2, <2>3, FS_Surjection
<1>2. n \in Nat
  BY <1>1, FS_CardinalityType
<1>3. Free # {}
  <2>1. SUFFICES ASSUME Free = {} PROVE FALSE
    OBVIOUS
  <2> DEFINE g == [k \in 0..n |-> <<c, k>>]
  <2>2. g \in [0..n -> ids] /\ \A k, m \in 0..n : g[k] = g[m] => k = m
    BY <2>1
  <2>3. IsFiniteSet(0..n) /\ Cardinality(0..n) = n + 1
    BY <1>2, FS_Interval
  <2> HIDE DEF g, ids
  <2>4. Cardinality(ids) < Cardinality(0..n)
    BY <1>2, <2>3
  <2>5. \E k, m \in 0..n : k # m /\ g[k] = g[m]
    <3> HIDE DEF n
    <3> QED BY <1>1, <2>2, <2>3, <2>4, FS_PigeonHole
  <2> QED BY <2>2, <2>5
<1>4. Min(Free) \in Free
  <2>1. Free \subseteq Nat
    BY <1>2
  <2> HIDE DEF Free
  <2> QED BY <1>3, <2>1, LeastPlace
<1>5. FreeId(ids, c) = <<c, Min(Free)>>
  BY DEF FreeId
<1> QED BY <1>2, <1>4, <1>5 DEF EntryIds


-----------------------------------------------------------------------------
(* What craft show, and valid entries.                                     *)

\* A craft that is there shows one of its items or tabs, another nothing; what
\* is normal stays so.
LEMMA ViewsNormal ==
    ASSUME NEW w \in Workspaces, NEW c, NEW v
    PROVE  /\ NormalView(w, c, v) \in Views \cup {NoView}
           /\ c \in Live(w) => NormalView(w, c, v) \in Views
           /\ c \notin Live(w) => NormalView(w, c, v) = NoView
           /\ NormalView(w, c, NormalView(w, c, v)) = NormalView(w, c, v)
           /\ ItemFor(w, c, v) \in Views \cup {NoView}
BY NavAssumption DEF NormalView, DefaultView, ItemFor, Views, NoView

\* A new entry is of its craft and has an id that is free.
LEMMA NewEntryTyped ==
    ASSUME NEW w \in Workspaces, NEW es \in Seq(Entries), NEW c \in Crafts, NEW v
    PROVE  /\ NewEntry(w, es, c, v) \in Entries
           /\ NewEntry(w, es, c, v).craft = c
           /\ NewEntry(w, es, c, v).view = NormalView(w, c, v)
           /\ NewEntry(w, es, c, v).id \notin Ids(es)
           /\ NewEntry(w, es, c, v).id = FreeId(Ids(es), c)
<1>1. /\ FreeId(Ids(es), c) \in EntryIds /\ FreeId(Ids(es), c) \notin Ids(es)
      /\ FreeId(Ids(es), c)[1] = c
  BY FreeIdThere
<1>2. NormalView(w, c, v) \in Views \cup {NoView}
  BY ViewsNormal
<1> QED BY <1>1, <1>2, EntriesTyped DEF NewEntry

\* The active id is the one asked for when it is there, else one of the others.
LEMMA ActiveOfThem ==
    ASSUME NEW es \in Seq(Entries), NEW a, NEW c \in Crafts \cup {NoCraft}
    PROVE  /\ es # <<>> => ActiveOf(es, a, c) \in Ids(es)
           /\ a \in Ids(es) => ActiveOf(es, a, c) = a
           /\ es = <<>> => ActiveOf(es, a, c) = NoEntry
<1>1. es # <<>> => 1 \in DOMAIN es
  OBVIOUS
<1>2. es = <<>> => Ids(es) = {} /\ CraftsOf(es) = {}
  BY DEF Ids, CraftsOf
<1>3. c \in CraftsOf(es) => EntryOf(es, c).id \in Ids(es)
  BY EntryOfThere DEF Ids
<1>4. 1 \in DOMAIN es => es[1].id \in Ids(es)
  BY DEF Ids
<1> QED BY <1>1, <1>2, <1>3, <1>4 DEF ActiveOf

\* What is shown is the active entry, else one of the others.
LEMMA ShownOfThem ==
    ASSUME NEW es \in Seq(Entries), NEW a
    PROVE  /\ es # <<>> => \E i \in DOMAIN es : ShownOf(es, a) = es[i]
           /\ a \in Ids(es) => ShownOf(es, a) = EntryWithId(es, a) /\ ShownOf(es, a).id = a
           /\ es = <<>> => ShownOf(es, a).craft = NoCraft
           /\ ShownOf(es, a).craft \in Crafts \cup {NoCraft}
<1>1. es # <<>> => 1 \in DOMAIN es
  OBVIOUS
<1>2. es = <<>> => Ids(es) = {}
  BY DEF Ids
<1>3. a \in Ids(es) =>
        \E i \in DOMAIN es : EntryWithId(es, a) = es[i] /\ es[i].id = a
  BY EntryWithIdThere
<1>4. \A i \in DOMAIN es : es[i].craft \in Crafts
  BY EntriesTyped
<1> QED BY <1>1, <1>2, <1>3, <1>4, EntriesTyped DEF ShownOf

\* Valid entries: those of live craft, with what is there of their views; or
\* one of the fallback craft, which may be one that is gone.
LEMMA ValidThem ==
    ASSUME NEW w \in Workspaces, NEW es \in Seq(Entries),
           NEW c \in Crafts \cup {NoCraft}, NEW item
    PROVE  LET r == ValidEntries(w, es, c, item) IN
           /\ r \in Seq(Entries)
           /\ Live(w) \cap CraftsOf(es) # {} \/ c \in Live(w) => Normal(w, r) /\ r # <<>>
           /\ Live(w) \cap CraftsOf(es) = {} /\ c \notin Live(w) =>
                r = <<>> \/ (Len(r) = 1 /\ r[1].craft = c /\ r[1].view = NoView)
           /\ es # <<>> /\ CraftsOf(es) \subseteq Live(w) =>
                /\ Len(r) = Len(es)
                /\ \A i \in DOMAIN es :
                     r[i] = Entry(es[i].id, es[i].craft, NormalView(w, es[i].craft, es[i].view))
<1> DEFINE I == {i \in DOMAIN es : es[i].craft \in Live(w)}
           kept == AllAt(es, I)
           r == ValidEntries(w, es, c, item)
           new == NewEntry(w, <<>>, c, ViewForItem(w, c, item))
           seen == [i \in DOMAIN kept |->
                      Entry(kept[i].id, kept[i].craft, NormalView(w, kept[i].craft, kept[i].view))]
<1>1. r = IF kept = <<>> /\ c # NoCraft THEN <<new>> ELSE seen
  BY DEF ValidEntries
<1>2. I \in SUBSET DOMAIN es
  OBVIOUS
<1>3. /\ kept \in Seq(Entries)
      /\ \A k \in DOMAIN kept : \E i \in I : kept[k] = es[i]
      /\ kept = <<>> <=> I = {}
      /\ I = DOMAIN es => kept = es
  <2> HIDE DEF I
  <2> QED BY <1>2, AllAtThem
<1>4. I = {} <=> Live(w) \cap CraftsOf(es) = {}
  BY DEF CraftsOf
<1>5. CraftsOf(es) \subseteq Live(w) => I = DOMAIN es
  BY DEF CraftsOf
<1>6. \A k \in DOMAIN kept : kept[k].craft \in Live(w)
  BY <1>3
<1>7. /\ seen \in Seq(Entries) /\ Len(seen) = Len(kept) /\ DOMAIN seen = DOMAIN kept
      /\ Normal(w, seen)
      /\ seen = <<>> <=> kept = <<>>
  <2> HIDE DEF kept
  <2>1. \A k \in DOMAIN kept :
          Entry(kept[k].id, kept[k].craft, NormalView(w, kept[k].craft, kept[k].view)) \in Entries
    BY <1>3, EntriesTyped, ViewsNormal
  <2>2. \A k \in DOMAIN kept :
          /\ seen[k].craft = kept[k].craft
          /\ seen[k].view = NormalView(w, kept[k].craft, kept[k].view)
    BY <1>3, EntriesTyped, ViewsNormal
  <2>3. seen \in Seq(Entries) /\ Len(seen) = Len(kept) /\ DOMAIN seen = DOMAIN kept
    <3>1. DOMAIN kept = 1..Len(kept) /\ Len(kept) \in Nat
      BY <1>3
    <3> QED BY <2>1, <3>1
  <2>4. Normal(w, seen)
    BY <1>6, <2>2, <2>3, ViewsNormal DEF Normal
  <2>5. seen = <<>> <=> kept = <<>>
    BY <1>3, <2>3
  <2> QED BY <2>3, <2>4, <2>5
<1>8. c # NoCraft =>
        /\ <<new>> \in Seq(Entries) /\ <<new>> # <<>> /\ Len(<<new>>) = 1
        /\ new.craft = c /\ (c \notin Live(w) => new.view = NoView)
        /\ c \in Live(w) => Normal(w, <<new>>)
  <2>1. SUFFICES ASSUME c # NoCraft PROVE new \in Entries /\ new.craft = c /\ new.view = NormalView(w, c, ViewForItem(w, c, item))
    BY ViewsNormal DEF Normal
  <2>2. <<>> \in Seq(Entries) /\ c \in Crafts
    BY <2>1
  <2> DEFINE none == <<>>
             view == ViewForItem(w, c, item)
  <2>3. none \in Seq(Entries) /\ c \in Crafts
    BY <2>2
  <2> HIDE DEF none, view
  <2>4. LET n == NewEntry(w, none, c, view)
        IN  n \in Entries /\ n.craft = c /\ n.view = NormalView(w, c, view)
    BY <2>3, NewEntryTyped
  <2> QED BY <2>4 DEF none, view
<1>9. c \in Live(w) => c # NoCraft
  BY NavAssumption
<1> HIDE DEF kept, seen, new, I, r
<1>10. r \in Seq(Entries)
  BY <1>1, <1>7, <1>8
<1>11. Live(w) \cap CraftsOf(es) # {} \/ c \in Live(w) => Normal(w, r) /\ r # <<>>
  BY <1>1, <1>3, <1>4, <1>7, <1>8, <1>9
<1>12. Live(w) \cap CraftsOf(es) = {} /\ c \notin Live(w) =>
         r = <<>> \/ (Len(r) = 1 /\ r[1].craft = c /\ r[1].view = NoView)
  BY <1>1, <1>3, <1>4, <1>7, <1>8
<1>13. es # <<>> /\ CraftsOf(es) \subseteq Live(w) =>
         /\ Len(r) = Len(es)
         /\ \A i \in DOMAIN es :
              r[i] = Entry(es[i].id, es[i].craft, NormalView(w, es[i].craft, es[i].view))
  BY <1>1, <1>3, <1>5, <1>7 DEF seen
<1> QED BY <1>10, <1>11, <1>12, <1>13 DEF r


-----------------------------------------------------------------------------
(* The same entries, whatever they show.                                   *)

\* The same entries have the same ids, craft and places.
LEMMA SameThere ==
    ASSUME NEW es \in Seq(Entries), NEW fs \in Seq(Entries), SameEntries(es, fs)
    PROVE  /\ Ids(es) = Ids(fs)
           /\ CraftsOf(es) = CraftsOf(fs)
           /\ es = <<>> <=> fs = <<>>
           /\ \A id \in Ids(fs) :
                /\ EntryWithId(es, id).craft = EntryWithId(fs, id).craft
                /\ \E i \in DOMAIN es : /\ EntryWithId(es, id) = es[i] /\ es[i].id = id
                                        /\ EntryWithId(fs, id) = fs[i] /\ fs[i].id = id
<1>1. DOMAIN es = DOMAIN fs /\ DOMAIN es = 1..Len(es) /\ Len(es) = Len(fs) /\ Len(es) \in Nat
  BY DEF SameEntries
<1>2. \A i \in DOMAIN es : es[i].id = fs[i].id /\ es[i].craft = fs[i].craft
  BY DEF SameEntries
<1>3. Ids(es) = Ids(fs) /\ CraftsOf(es) = CraftsOf(fs)
  BY <1>1, <1>2 DEF Ids, CraftsOf
<1>4. ASSUME NEW id \in Ids(fs)
      PROVE  /\ EntryWithId(es, id).craft = EntryWithId(fs, id).craft
             /\ \E i \in DOMAIN es : /\ EntryWithId(es, id) = es[i] /\ es[i].id = id
                                     /\ EntryWithId(fs, id) = fs[i] /\ fs[i].id = id
  <2>1. PICK i \in DOMAIN es : /\ EntryWithId(es, id) = es[i] /\ es[i].id = id
                               /\ \A j \in DOMAIN es : es[j].id = id => i <= j
    BY <1>3, EntryWithIdThere
  <2>2. PICK k \in DOMAIN fs : /\ EntryWithId(fs, id) = fs[k] /\ fs[k].id = id
                               /\ \A j \in DOMAIN fs : fs[j].id = id => k <= j
    BY EntryWithIdThere
  <2>3. i <= k /\ k <= i
    BY <1>1, <1>2, <2>1, <2>2
  <2>4. i = k
    BY <1>1, <2>3
  <2> QED BY <1>1, <1>2, <2>1, <2>2, <2>4
<1> QED BY <1>1, <1>3, <1>4

\* What is the same as the same is the same.
LEMMA SameTransitive ==
    ASSUME NEW es \in Seq(Entries), NEW fs \in Seq(Entries), NEW gs \in Seq(Entries),
           SameEntries(es, fs), SameEntries(fs, gs)
    PROVE  SameEntries(es, gs)
BY DEF SameEntries

\* With all craft there, the valid entries are the same, each showing what is
\* there.
LEMMA ValidSame ==
    ASSUME NEW w \in Workspaces, NEW es \in Seq(Entries),
           NEW c \in Crafts \cup {NoCraft}, NEW item,
           es # <<>>, CraftsOf(es) \subseteq Live(w)
    PROVE  LET r == ValidEntries(w, es, c, item)
           IN  /\ SameEntries(r, es)
               /\ \A i \in DOMAIN es : r[i].view = NormalView(w, es[i].craft, es[i].view)
<1> DEFINE r == ValidEntries(w, es, c, item)
<1>1. /\ r \in Seq(Entries) /\ Len(r) = Len(es)
      /\ \A i \in DOMAIN es :
           r[i] = Entry(es[i].id, es[i].craft, NormalView(w, es[i].craft, es[i].view))
  BY ValidThem
<1>2. \A i \in DOMAIN es : es[i] \in Entries
  OBVIOUS
<1>3. \A i \in DOMAIN es :
        r[i].id = es[i].id /\ r[i].craft = es[i].craft /\ r[i].view = NormalView(w, es[i].craft, es[i].view)
  BY <1>1, <1>2, EntriesTyped, ViewsNormal
<1> HIDE DEF r
<1>4. DOMAIN r = DOMAIN es
  BY <1>1
<1> QED BY <1>1, <1>3, <1>4 DEF SameEntries, r

-----------------------------------------------------------------------------
(* Navigation states.                                                      *)

\* What is built of entries: the active one, or else the first, is the one
\* whose craft and space are shown.
LEMMA BuiltOf ==
    ASSUME NEW w \in Workspaces, NEW es \in Seq(Entries), NEW a
    PROVE  LET n == Build(w, es, a) IN
           /\ n.entries = es /\ n.active = a
           /\ n.craft = ShownOf(es, a).craft /\ n.craft \in Crafts \cup {NoCraft}
           /\ n.space = HomeOf(w, n.craft, NoSpace)
           /\ n.craft \in Live(w) => n.space = SpaceOf[n.craft]
           /\ n.craft \notin Live(w) => n.space = NoSpace
           /\ Matching(n)
<1>1. ShownOf(es, a).craft \in Crafts \cup {NoCraft}
  BY ShownOfThem
<1> QED BY <1>1 DEF Build, BuildShown, HomeOf, Matching

\* It has an item for every entry and for every live craft.
LEMMA BuiltBeside ==
    ASSUME NEW w, NEW es, NEW a
    PROVE  /\ DOMAIN Build(w, es, a).byEntry = Ids(es)
           /\ Live(w) \subseteq DOMAIN Build(w, es, a).items
BY DEF Build, BuildShown

\* Craft that are live are in spaces that are there.
LEMMA SpacesThere ==
    ASSUME NEW w \in Workspaces
    PROVE  /\ NoSpace \notin SpacesOf(w)
           /\ \A c \in Live(w) : SpaceOf[c] \in SpacesOf(w) /\ c \in Crafts
BY NavAssumption DEF SpacesOf

\* What shows a space shows one of its craft.
LEMMA BuiltHome ==
    ASSUME NEW w \in Workspaces, NEW es \in Seq(Entries), NEW a,
           Build(w, es, a).space \in SpacesOf(w)
    PROVE  Build(w, es, a).craft \in Live(w)
BY BuiltOf, SpacesThere

\* What is built of normal entries is what the effects leave as it is.
LEMMA BuiltFinal ==
    ASSUME NEW w \in Workspaces, NEW es \in Seq(Entries), Normal(w, es), NEW a \in Ids(es)
    PROVE  Final(w, Build(w, es, a))
<1> DEFINE n == Build(w, es, a)
<1>1. \E i \in DOMAIN es : EntryWithId(es, a) = es[i]
  BY EntryWithIdThere
<1>2. ShownOf(es, a).craft \in Live(w)
  BY <1>1 DEF ShownOf, Normal
<1>3. /\ n.entries = es /\ n.active = a /\ n.craft \in Live(w)
      /\ n.space = SpaceOf[n.craft]
  BY <1>2, BuiltOf
<1>4. Live(w) \subseteq DOMAIN n.items
  BY BuiltBeside
<1> HIDE DEF n
<1> QED BY <1>3, <1>4, SpacesThere DEF Final, AtRest, n

\* A state is sound if its entries show something, or if its entry is gone.
LEMMA BuiltSound ==
    ASSUME NEW w \in Workspaces, NEW es \in Seq(Entries), NEW a,
           \/ \A i \in DOMAIN es : es[i].view \in Views
           \/ ShownOf(es, a).craft \notin Live(w)
    PROVE  Sound(Build(w, es, a))
<1>1. LET n == Build(w, es, a) IN
      /\ n.entries = es /\ n.craft = ShownOf(es, a).craft /\ n.craft \in Crafts \cup {NoCraft}
      /\ n.craft \notin Live(w) => n.space = NoSpace
  BY BuiltOf
<1>2. es = <<>> => ShownOf(es, a).craft \notin Live(w)
  <2>1. NoCraft \notin Live(w)
    BY NavAssumption
  <2> DEFINE none == es = <<>>
  <2>2. none => ShownOf(es, a).craft = NoCraft
    BY ShownOfThem
  <2> QED BY <2>1, <2>2
<1> QED BY <1>1, <1>2 DEF Sound

\* Normal entries show something.
LEMMA NormalShows ==
    ASSUME NEW w \in Workspaces, NEW es \in Seq(Entries), Normal(w, es)
    PROVE  \A i \in DOMAIN es : es[i].view \in Views
BY ViewsNormal DEF Normal

\* ensureVoyageEntryForTabGroup: there is an entry of the craft, a new one only
\* if it is asked for or there was none, and its view is the one given.
LEMMA EnsuredThere ==
    ASSUME NEW w \in Workspaces, NEW n, n.entries \in Seq(Entries),
           NEW c \in Crafts, NEW v \in Views \cup {NoView}, NEW again \in BOOLEAN
    PROVE  LET r == Ensured(w, n, c, v, again) IN
           /\ r.entries \in Seq(Entries)
           /\ c \in CraftsOf(r.entries)
           /\ r.active \in Ids(r.entries)
           /\ c \in CraftsOf(n.entries) /\ ~again => SameEntries(r.entries, n.entries)
           /\ EntryWithId(n.entries, n.active).craft = c /\ v # NoView /\ ~again =>
                \A i \in DOMAIN r.entries :
                    r.entries[i].id = n.active =>
                        r.entries[i].view = NormalView(w, r.entries[i].craft, v)
<1> DEFINE es == n.entries
           e == EntryFor(n, c)
           r == Ensured(w, n, c, v, again)
           new == NewEntry(w, es, c, v)
           seen == [i \in DOMAIN es |->
                      IF es[i].id = e.id THEN Entry(e.id, e.craft, NormalView(w, e.craft, v))
                      ELSE es[i]]
<1> USE EntriesTyped
<1>1. EntryWithId(es, n.active).craft = c => \E i \in DOMAIN es : EntryWithId(es, n.active) = es[i] /\ es[i].id = n.active
  BY EntryWithIdThere
<1>2. c \in CraftsOf(es) <=> \E i \in DOMAIN es : es[i].craft = c
  BY DEF CraftsOf
<1>3. /\ c \in CraftsOf(es) => \E i \in DOMAIN es : e = es[i] /\ es[i].craft = c
      /\ c \notin CraftsOf(es) => e = NoneOfThem
  BY <1>1, <1>2, EntryOfThere DEF EntryFor
<1>4. c \in CraftsOf(es) <=> e.id # NoEntry
  BY <1>3
<1>5. new \in Entries /\ new.craft = c
  BY NewEntryTyped
<1>6. EntryWithId(es, n.active).craft = c => e = EntryWithId(es, n.active) /\ e.id = n.active
  BY <1>1 DEF EntryFor
<1>7. CASE e.id = NoEntry \/ again
  <2>1. r = [entries |-> Append(es, new), active |-> new.id]
    BY <1>7 DEF Ensured, WithNew
  <2> HIDE DEF new, e
  <2>2. Append(es, new) \in Seq(Entries) /\ Len(es) + 1 \in DOMAIN Append(es, new)
        /\ Append(es, new)[Len(es) + 1] = new
    BY <1>5
  <2>3. c \in CraftsOf(Append(es, new)) /\ new.id \in Ids(Append(es, new))
    BY <1>5, <2>2 DEF CraftsOf, Ids
  <2>4. ~again => c \notin CraftsOf(es)
    BY <1>4, <1>7
  <2>5. EntryWithId(es, n.active).craft = c => c \in CraftsOf(es)
    BY <1>1, <1>2
  <2> HIDE DEF r
  <2>6. r.entries = Append(es, new) /\ r.active = new.id
    BY <2>1
  <2> QED BY <2>2, <2>3, <2>4, <2>5, <2>6 DEF r
<1>8. CASE e.id # NoEntry /\ ~again
  <2>1. r = [entries |-> IF v = NoView THEN es ELSE seen, active |-> e.id]
    BY <1>8 DEF Ensured, WithEntry
  <2>2. PICK k \in DOMAIN es : e = es[k] /\ es[k].craft = c
    BY <1>3, <1>4, <1>8
  <2>3. e \in Entries
    BY <2>2
  <2> HIDE DEF e
  <2>4. Entry(e.id, e.craft, NormalView(w, e.craft, v)) \in Entries
    BY <2>3, ViewsNormal
  <2>5. seen \in Seq(Entries) /\ Len(seen) = Len(es) /\ DOMAIN seen = DOMAIN es
    <3>1. DOMAIN es = 1..Len(es) /\ Len(es) \in Nat
      OBVIOUS
    <3>2. \A i \in DOMAIN es : seen[i] \in Entries
      BY <2>4
    <3>3. seen \in [1..Len(es) -> Entries]
      BY <3>1, <3>2
    <3>4. DOMAIN seen = DOMAIN es
      OBVIOUS
    <3> HIDE DEF seen, es
    <3>5. Len(es) \in Nat /\ seen \in [1..Len(es) -> Entries]
      BY <3>1, <3>3
    <3>6. seen \in Seq(Entries) /\ Len(seen) = Len(es)
      BY <3>5, FunctionIsSeq
    <3> QED BY <3>4, <3>6
  <2>6. CASE v = NoView
    <3>1. r.entries = es /\ r.active = e.id
      BY <2>1, <2>6
    <3> HIDE DEF r
    <3>2. SameEntries(es, es)
      BY DEF SameEntries
    <3> QED BY <2>2, <2>6, <3>1, <3>2 DEF CraftsOf, Ids, r
  <2>7. CASE v # NoView
    <3>1. r.entries = seen /\ r.active = e.id
      BY <2>1, <2>7
    <3>2. \A i \in DOMAIN es :
            /\ seen[i].id = es[i].id /\ seen[i].craft = es[i].craft
            /\ es[i].id = e.id => seen[i].view = NormalView(w, seen[i].craft, v)
      <4> TAKE i \in DOMAIN es
      <4>1. es[i] \in Entries
        OBVIOUS
      <4>2. CASE es[i].id = e.id
        <5>1. seen[i] = Entry(e.id, e.craft, NormalView(w, e.craft, v))
          BY <4>2
        <5>2. es[i].craft = e.craft
          BY <4>1, <4>2, <2>3
        <5> HIDE DEF seen
        <5> QED BY <2>3, <4>2, <5>1, <5>2, ViewsNormal
      <4>3. CASE es[i].id # e.id
        BY <4>3
      <4> QED BY <4>2, <4>3
    <3> HIDE DEF seen, r
    <3>3. SameEntries(seen, es)
      BY <2>5, <3>2 DEF SameEntries
    <3>4. c \in CraftsOf(seen) /\ e.id \in Ids(seen)
      BY <2>2, <2>5, <3>2 DEF CraftsOf, Ids
    <3> QED BY <1>6, <2>5, <3>1, <3>2, <3>3, <3>4 DEF r
  <2> QED BY <2>6, <2>7
<1> QED BY <1>7, <1>8


-----------------------------------------------------------------------------
(* Ids of their own.                                                       *)

Unique(es) == \A i, j \in DOMAIN es : es[i].id = es[j].id => i = j

\* Ids are unique exactly when there are as many of them as entries.
LEMMA UniqueCounted ==
    ASSUME NEW es \in Seq(Entries)
    PROVE  /\ IsFiniteSet(Ids(es)) /\ Cardinality(Ids(es)) \in Nat
           /\ Unique(es) <=> Cardinality(Ids(es)) = Len(es)
<1> DEFINE f == [i \in DOMAIN es |-> es[i].id]
<1>1. DOMAIN es = 1..Len(es) /\ Len(es) \in Nat
  OBVIOUS
<1>2. IsFiniteSet(DOMAIN es) /\ Cardinality(DOMAIN es) = Len(es)
  <2>1. ASSUME NEW n \in Nat PROVE IsFiniteSet(1..n) /\ Cardinality(1..n) = n
    BY FS_Interval
  <2> QED BY <1>1, <2>1
<1>3. f \in Surjection(DOMAIN es, Ids(es))
  BY DEF Ids, Surjection
<1>4. /\ IsFiniteSet(Ids(es))
      /\ Cardinality(Ids(es)) = Cardinality(DOMAIN es) <=> f \in Injection(DOMAIN es, Ids(es))
  BY <1>2, <1>3, FS_Surjection
<1>5. f \in Injection(DOMAIN es, Ids(es)) <=> Unique(es)
  <2>1. f \in [DOMAIN es -> Ids(es)]
    BY DEF Ids
  <2>2. f \in Injection(DOMAIN es, Ids(es)) <=> \A a, b \in DOMAIN es : f[a] = f[b] => a = b
    BY <2>1 DEF Injection, IsInjective
  <2>3. \A a, b \in DOMAIN es : f[a] = f[b] <=> es[a].id = es[b].id
    OBVIOUS
  <2> HIDE DEF f
  <2> QED BY <2>2, <2>3 DEF Unique
<1> QED BY <1>2, <1>4, <1>5, FS_CardinalityType

\* The same entries have ids of their own when the others have.
LEMMA UniqueSame ==
    ASSUME NEW es \in Seq(Entries), NEW fs \in Seq(Entries), SameEntries(es, fs), Unique(fs)
    PROVE  Unique(es)
<1>1. DOMAIN es = DOMAIN fs
  BY DEF SameEntries
<1> QED BY <1>1 DEF SameEntries, Unique

\* A new entry has an id of its own.
LEMMA UniqueNew ==
    ASSUME NEW es \in Seq(Entries), NEW e \in Entries, Unique(es), e.id \notin Ids(es)
    PROVE  Unique(Append(es, e))
<1> DEFINE all == Append(es, e)
<1>1. /\ DOMAIN all = 1..(Len(es) + 1) /\ all[Len(es) + 1] = e /\ Len(es) \in Nat
      /\ DOMAIN es = 1..Len(es) /\ \A i \in DOMAIN es : all[i] = es[i]
  OBVIOUS
<1>2. \A i \in DOMAIN all : i \in DOMAIN es \/ i = Len(es) + 1
  BY <1>1
<1>3. \A i \in DOMAIN es : es[i].id # e.id
  BY DEF Ids
<1> HIDE DEF all
<1>4. ASSUME NEW i \in DOMAIN all, NEW j \in DOMAIN all, all[i].id = all[j].id PROVE i = j
  <2>1. CASE i \in DOMAIN es /\ j \in DOMAIN es
    BY <1>1, <1>4, <2>1 DEF Unique
  <2>2. CASE ~(i \in DOMAIN es /\ j \in DOMAIN es)
    BY <1>1, <1>2, <1>3, <1>4, <2>2
  <2> QED BY <2>1, <2>2
<1> QED BY <1>4 DEF Unique, all

\* Some of the entries, each at another place.
LEMMA UniqueAll ==
    ASSUME NEW es \in Seq(Entries), NEW I \in SUBSET DOMAIN es, Unique(es)
    PROVE  Unique(AllAt(es, I))
<1> DEFINE ks == AllAt(es, I)
           Upto(p) == Cardinality({j \in I : j <= p})
<1>1. I \subseteq Nat /\ IsFiniteSet(I) /\ Cardinality(I) \in Nat
  BY PlacesFinite
<1>2. \A k \in 1..Cardinality(I) : PlaceOf(I, k) \in I /\ Upto(PlaceOf(I, k)) = k
  BY <1>1, PlacesThere
<1> HIDE DEF Upto
<1>3. DOMAIN ks = 1..Cardinality(I) /\ \A k \in DOMAIN ks : ks[k] = es[PlaceOf(I, k)]
  BY DEF AllAt
<1> HIDE DEF ks
<1>4. ASSUME NEW i \in DOMAIN ks, NEW j \in DOMAIN ks, ks[i].id = ks[j].id PROVE i = j
  <2>1. PlaceOf(I, i) = PlaceOf(I, j)
    <3>1. PlaceOf(I, i) \in DOMAIN es /\ PlaceOf(I, j) \in DOMAIN es
      BY <1>2, <1>3
    <3>2. es[PlaceOf(I, i)].id = es[PlaceOf(I, j)].id
      BY <1>3, <1>4
    <3> QED BY <3>1, <3>2 DEF Unique
  <2> QED BY <1>2, <1>3, <2>1
<1> QED BY <1>4 DEF Unique, ks

\* Validating entries doubles no id.
LEMMA UniqueValid ==
    ASSUME NEW w \in Workspaces, NEW es \in Seq(Entries), Unique(es), NEW c, NEW item
    PROVE  Unique(ValidEntries(w, es, c, item))
<1> DEFINE I == {i \in DOMAIN es : es[i].craft \in Live(w)}
           kept == AllAt(es, I)
           one == <<NewEntry(w, <<>>, c, ViewForItem(w, c, item))>>
           seen == [i \in DOMAIN kept |->
                      Entry(kept[i].id, kept[i].craft, NormalView(w, kept[i].craft, kept[i].view))]
<1>1. ValidEntries(w, es, c, item) = IF kept = <<>> /\ c # NoCraft THEN one ELSE seen
  BY Zenon DEF ValidEntries
<1>2. Unique(kept)
  BY UniqueAll
<1> HIDE DEF kept
<1>3. Unique(seen)
  BY <1>2 DEF Unique, Entry
<1>4. Unique(one)
  BY DEF Unique
<1> QED BY <1>1, <1>3, <1>4

-----------------------------------------------------------------------------
(* Routes and voyages.                                                     *)

\* A route that is resolved: its entry is in the voyage, its craft is live.
Resolved(w, r, s) ==
    r # NoRoute =>
        /\ s \in Voyages
        /\ r.entry \in Ids(s.entries)
        /\ r.craft = EntryWithId(s.entries, r.entry).craft
        /\ r.craft \in Live(w)
        /\ r.space = SpaceOf[r.craft]
        /\ r.view \in Views

\* fs: es, and one more with an id of its own.
OneMore(fs, es) == \E e \in Entries : e.id \notin Ids(es) /\ fs = Append(es, e)

\* ensureVoyageEntryForTabGroup: the entries with their ids, or one more.
LEMMA EnsuredIds ==
    ASSUME NEW w \in Workspaces, NEW n, n.entries \in Seq(Entries),
           NEW c \in Crafts, NEW v \in Views \cup {NoView}, NEW again \in BOOLEAN
    PROVE  LET r == Ensured(w, n, c, v, again) IN
           SameEntries(r.entries, n.entries) \/ OneMore(r.entries, n.entries)
<1> DEFINE es == n.entries
           e == EntryFor(n, c)
           new == NewEntry(w, es, c, v)
           r == Ensured(w, n, c, v, again)
<1>1. CASE e.id = NoEntry \/ again
  <2>1. r.entries = Append(es, new)
    BY <1>1 DEF Ensured, WithNew
  <2>2. new \in Entries /\ new.id \notin Ids(es)
    BY NewEntryTyped
  <2> HIDE DEF new, r
  <2> QED BY <2>1, <2>2 DEF r, OneMore
<1>2. CASE e.id # NoEntry /\ ~again
  <2>1. EntryWithId(es, n.active) = NoneOfThem \/ \E i \in DOMAIN es : EntryWithId(es, n.active) = es[i]
    BY EntryWithIdThere
  <2>2. EntryOf(es, c) = NoneOfThem \/ \E i \in DOMAIN es : EntryOf(es, c) = es[i] /\ es[i].craft = c
    BY EntryOfThere
  <2>3. NoneOfThem.craft # c
    BY EntriesTyped
  <2>4. c \in CraftsOf(es)
    BY <1>2, <2>1, <2>2, <2>3, EntriesTyped DEF EntryFor, CraftsOf
  <2> QED BY <1>2, <2>4, EnsuredThere
<1> QED BY <1>1, <1>2

\* Ensuring an entry doubles no id: the id it takes is free.
LEMMA UniqueEnsured ==
    ASSUME NEW w \in Workspaces, NEW n, n.entries \in Seq(Entries), Unique(n.entries),
           NEW c \in Crafts, NEW v \in Views \cup {NoView}, NEW again \in BOOLEAN
    PROVE  Unique(Ensured(w, n, c, v, again).entries)
<1> DEFINE r == Ensured(w, n, c, v, again)
<1>1. r.entries \in Seq(Entries)
  BY EnsuredThere
<1>2. SameEntries(r.entries, n.entries) \/ OneMore(r.entries, n.entries)
  BY EnsuredIds
<1> HIDE DEF r
<1> QED BY <1>1, <1>2, UniqueSame, UniqueNew DEF r, OneMore

\* A saved voyage has entries, its active entry is one of them, and its craft
\* and space are that entry's.
LEMMA VoyagesTyped ==
    ASSUME NEW s \in Voyages
    PROVE  /\ s.entries \in Seq(Entries) /\ s.entries # <<>>
           /\ \A i \in DOMAIN s.entries : s.entries[i].view \in Views
           /\ s.active \in Ids(s.entries)
           /\ s.craft = EntryWithId(s.entries, s.active).craft
           /\ s.craft \in CraftsOf(s.entries)
           /\ s.space = SpaceOf[s.craft]
           /\ s # NoVoyage
           /\ Unique(s.entries)
<1>1. /\ s.entries \in Seq(Entries) /\ s.entries # <<>>
      /\ \A i \in DOMAIN s.entries : s.entries[i].view \in Views
      /\ s.active \in Ids(s.entries)
      /\ s.craft = EntryWithId(s.entries, s.active).craft
      /\ s.space = SpaceOf[s.craft] /\ s # NoVoyage
  BY NavAssumption
<1>2. s.craft \in CraftsOf(s.entries)
  BY <1>1, EntryWithIdThere DEF CraftsOf
<1>3. Unique(s.entries)
  BY <1>1, UniqueCounted, NavAssumption
<1> QED BY <1>1, <1>2, <1>3

\* What a URL is resolved to names an entry of the voyage and a live craft.
LEMMA RouteResolved ==
    ASSUME NEW w \in Workspaces, NEW s \in Voyages \cup {NoVoyage}, NEW u \in Urls \cup {NoRoute}
    PROVE  Resolved(w, Route(w, s, u), s)
<1>1. SUFFICES ASSUME Route(w, s, u) # NoRoute PROVE Resolved(w, Route(w, s, u), s)
  BY DEF Resolved
<1> DEFINE e == EntryWithId(s.entries, u.entry)
           v == RouteView(w, e, u.view)
<1>2. s \in Voyages /\ u \in Urls /\ Route(w, s, u) = RouteEntry(w, e, u)
  BY <1>1 DEF Route
<1>3. e.craft \in Live(w) /\ Route(w, s, u) = RouteTo(w, e, v)
  BY <1>1, <1>2 DEF RouteEntry
<1>4. e.craft # NoCraft
  BY <1>3, NavAssumption
<1>5. s.entries \in Seq(Entries)
  BY <1>2, VoyagesTyped
<1>6. PICK i \in DOMAIN s.entries : e = s.entries[i] /\ e.id = u.entry
  BY <1>4, <1>5, EntryWithIdThere, EntriesTyped
<1>7. u.entry \in Ids(s.entries) /\ e.view \in Views
  BY <1>2, <1>6, VoyagesTyped DEF Ids
<1>8. v \in Views
  <2>1. u.view \in Views \cup {NoView}
    BY <1>2, NavAssumption
  <2> HIDE DEF e
  <2> QED BY <1>7, <2>1 DEF RouteView, Views
<1> HIDE DEF e, v
<1>9. LET r == Route(w, s, u)
      IN  r.space = SpaceOf[e.craft] /\ r.craft = e.craft /\ r.entry = e.id /\ r.view = v
  BY <1>3 DEF RouteTo
<1> QED BY <1>2, <1>3, <1>6, <1>7, <1>8, <1>9 DEF Resolved, e

\* What the entries are normalized to shows what they showed, where it is there.
LEMMA RouteKept ==
    ASSUME NEW w \in Workspaces, NEW es \in Seq(Entries), NEW fs \in Seq(Entries),
           SameEntries(fs, es),
           \A i \in DOMAIN es : fs[i].view = NormalView(w, es[i].craft, es[i].view),
           NEW id \in Ids(es), NEW v,
           NormalView(w, EntryWithId(es, id).craft, EntryWithId(es, id).view) = v
    PROVE  /\ EntryWithId(fs, id).craft = EntryWithId(es, id).craft
           /\ NormalView(w, EntryWithId(es, id).craft, EntryWithId(fs, id).view) = v
<1>1. PICK i \in DOMAIN fs : EntryWithId(fs, id) = fs[i] /\ EntryWithId(es, id) = es[i]
  BY SameThere
<1>2. i \in DOMAIN es
  BY DEF SameEntries
<1> QED BY <1>1, <1>2, SameThere, ViewsNormal

-----------------------------------------------------------------------------
(* The fourth effect.                                                      *)

\* The fourth effect sets the valid entries, or nothing.
LEMMA NormalizedIs ==
    ASSUME NEW w \in Workspaces, NEW n,
           n.entries \in Seq(Entries), n.craft \in Crafts \cup {NoCraft}
    PROVE  LET es == ValidEntries(w, n.entries, n.craft, ItemIn(n, n.craft))
               a  == ActiveOf(es, n.active, n.craft)
               r  == Normalized(w, n)
           IN  /\ es \in Seq(Entries) /\ r.entries = es /\ r.active = a
               /\ r = n \/ r = Build(w, es, a)
               /\ r.craft \in Crafts \cup {NoCraft}
<1> DEFINE es == ValidEntries(w, n.entries, n.craft, ItemIn(n, n.craft))
           a  == ActiveOf(es, n.active, n.craft)
<1>1. Normalized(w, n) = IF es = n.entries /\ a = n.active THEN n ELSE Build(w, es, a)
  BY DEF Normalized, NormalizedBy, NormalizedTo
<1>2. es \in Seq(Entries)
  BY ValidThem
<1> HIDE DEF es
<1>3. Build(w, es, a).entries = es /\ Build(w, es, a).active = a /\ Build(w, es, a).craft \in Crafts \cup {NoCraft}
  BY <1>2, BuiltOf
<1> QED BY <1>1, <1>2, <1>3 DEF es

\* The fourth effect leaves a sound state, which shows what it showed.
LEMMA NormalizedSound ==
    ASSUME NEW w \in Workspaces, NEW n, Sound(n)
    PROVE  LET r == Normalized(w, n) IN
           /\ Sound(r)
           /\ Sound(Build(w, r.entries, r.active))
           /\ Matching(n) => Matching(r)
<1> DEFINE es == ValidEntries(w, n.entries, n.craft, ItemIn(n, n.craft))
           a  == ActiveOf(es, n.active, n.craft)
           r  == Normalized(w, n)
<1>1. n.entries \in Seq(Entries) /\ n.craft \in Crafts \cup {NoCraft}
  BY DEF Sound
<1>2. es \in Seq(Entries) /\ r.entries = es /\ r.active = a /\ (r = n \/ r = Build(w, es, a))
  BY <1>1, NormalizedIs
<1>3. Normal(w, es) \/ es = <<>> \/ (Len(es) = 1 /\ es[1].craft = n.craft /\ n.craft \notin Live(w))
  BY <1>1, ValidThem
<1> HIDE DEF es, a, r
<1>4. Sound(Build(w, es, a))
  <2>1. CASE Normal(w, es)
    BY <1>2, <2>1, NormalShows, BuiltSound
  <2>2. CASE es = <<>>
    <3>1. ShownOf(es, a).craft = NoCraft /\ NoCraft \notin Live(w)
      BY <1>2, <2>2, ShownOfThem, NavAssumption
    <3> QED BY <1>2, <3>1, BuiltSound
  <2>3. CASE Len(es) = 1 /\ es[1].craft = n.craft /\ n.craft \notin Live(w)
    <3> DEFINE none == es = <<>>
    <3>4. ~none => \E i \in DOMAIN es : ShownOf(es, a) = es[i]
      BY <1>2, ShownOfThem
    <3>5. ~none
      BY <2>3
    <3>1. PICK i \in DOMAIN es : ShownOf(es, a) = es[i]
      BY <3>4, <3>5
    <3>2. i = 1
      BY <1>2, <2>3
    <3>3. ShownOf(es, a).craft \notin Live(w)
      BY <2>3, <3>1, <3>2
    <3> QED BY <1>2, <3>3, BuiltSound
  <2> QED BY <1>3, <2>1, <2>2, <2>3
<1>5. Matching(Build(w, es, a))
  BY <1>2, BuiltOf
<1> QED BY <1>2, <1>4, <1>5 DEF r

\* Entries of a voyage whose craft are there are left, and so is the route.
LEMMA NormalizedFollows ==
    ASSUME NEW w \in Workspaces, NEW s \in Voyages, AllThere(w, s),
           NEW n, n.entries \in Seq(Entries), n.craft \in Crafts \cup {NoCraft},
           SameEntries(n.entries, s.entries),
           NEW rt, Resolved(w, rt, s), AtRoute(w, n, rt)
    PROVE  LET r == Normalized(w, n) IN
           /\ SameEntries(r.entries, s.entries)
           /\ AtRoute(w, r, rt)
           /\ n.active \in Ids(n.entries) => r.active = n.active
<1> DEFINE es == ValidEntries(w, n.entries, n.craft, ItemIn(n, n.craft))
           a  == ActiveOf(es, n.active, n.craft)
           r  == Normalized(w, n)
           ns == n.entries
<1>1. es \in Seq(Entries) /\ r.entries = es /\ r.active = a
  BY NormalizedIs
<1>2. s.entries \in Seq(Entries) /\ s.entries # <<>>
  BY VoyagesTyped
<1>3. ns # <<>> /\ CraftsOf(ns) = CraftsOf(s.entries) /\ Ids(ns) = Ids(s.entries)
  BY <1>2, SameThere
<1>4. CraftsOf(ns) \subseteq Live(w)
  BY <1>3 DEF AllThere
<1>5. /\ SameEntries(es, ns)
      /\ \A i \in DOMAIN ns : es[i].view = NormalView(w, ns[i].craft, ns[i].view)
  BY <1>3, <1>4, ValidSame
<1>6. n.active \in Ids(ns) => a = n.active
  <2>1. Ids(es) = Ids(ns)
    BY <1>1, <1>5, SameThere
  <2> HIDE DEF es
  <2> QED BY <1>1, <2>1, ActiveOfThem
<1> HIDE DEF es, a, r
<1>7. AtRoute(w, r, rt)
  <2>1. SUFFICES ASSUME rt # NoRoute PROVE AtRoute(w, r, rt)
    BY DEF AtRoute
  <2>2. n.active = rt.entry /\ n.active \in Ids(ns) /\ r.active = rt.entry
    BY <1>1, <1>3, <1>6, <2>1 DEF AtRoute, Resolved
  <2>3. EntryWithId(ns, rt.entry).craft = rt.craft
    BY <1>2, <2>1, <2>2, <1>3, SameThere DEF Resolved
  <2>4. NormalView(w, rt.craft, EntryWithId(ns, rt.entry).view) = NormalView(w, rt.craft, rt.view)
    BY <2>1, <2>2 DEF AtRoute, SameView
  <2>5. NormalView(w, rt.craft, EntryWithId(es, rt.entry).view) = NormalView(w, rt.craft, rt.view)
    BY <1>1, <1>5, <2>2, <2>3, <2>4, RouteKept
  <2> QED BY <1>1, <2>2, <2>5 DEF AtRoute, SameView
<1> QED BY <1>1, <1>2, <1>5, <1>6, <1>7, SameTransitive DEF r


\* Entries of which one is of a live craft become all of live craft.
LEMMA NormalizedLive ==
    ASSUME NEW w \in Workspaces, NEW n,
           n.entries \in Seq(Entries), n.craft \in Crafts \cup {NoCraft},
           Live(w) \cap CraftsOf(n.entries) # {}
    PROVE  LET r == Normalized(w, n) IN
           /\ Normal(w, r.entries) /\ r.active \in Ids(r.entries)
           /\ Sound(r)
           /\ Sound(Build(w, r.entries, r.active))
<1> DEFINE es == ValidEntries(w, n.entries, n.craft, ItemIn(n, n.craft))
           a  == ActiveOf(es, n.active, n.craft)
           r  == Normalized(w, n)
<1>1. /\ es \in Seq(Entries) /\ r.entries = es /\ r.active = a
      /\ r.craft \in Crafts \cup {NoCraft}
  BY NormalizedIs
<1>2. Normal(w, es) /\ es # <<>>
  BY ValidThem
<1> HIDE DEF es
<1>3. a \in Ids(es)
  BY <1>1, <1>2, ActiveOfThem
<1> HIDE DEF a, r
<1>4. \A i \in DOMAIN es : es[i].view \in Views
  BY <1>1, <1>2, NormalShows
<1>5. Sound(Build(w, es, a))
  BY <1>1, <1>4, BuiltSound
<1> QED BY <1>1, <1>2, <1>3, <1>4, <1>5 DEF Sound, r

-----------------------------------------------------------------------------
(* The third effect.                                                       *)

\* Going to the craft of a route loses no entry.
LEMMA AtCraftTyped ==
    ASSUME NEW w \in Workspaces, NEW n, n.entries \in Seq(Entries),
           NEW rt, rt.craft \in Crafts
    PROVE  LET m == AtCraft(w, n, rt) IN
           /\ m.entries \in Seq(Entries)
           /\ rt.craft \in CraftsOf(n.entries) => SameEntries(m.entries, n.entries)
           /\ Unique(n.entries) => Unique(m.entries)
<1> DEFINE en == Ensured(w, n, rt.craft, NoView, FALSE)
<1>1. /\ en.entries \in Seq(Entries)
      /\ rt.craft \in CraftsOf(n.entries) => SameEntries(en.entries, n.entries)
      /\ Unique(n.entries) => Unique(en.entries)
  BY EnsuredThere, UniqueEnsured
<1>2. Select(w, n, rt.craft, NoView) = Build(w, en.entries, en.active)
  BY DEF Select, Rebuilt
<1>3. SameEntries(n.entries, n.entries)
  BY DEF SameEntries
<1> HIDE DEF en
<1>4. Build(w, en.entries, en.active).entries = en.entries
  BY <1>1, BuiltOf
<1> QED BY <1>1, <1>2, <1>3, <1>4 DEF AtCraft

\* Going to the entry of a route keeps the entries.
LEMMA AtEntryTyped ==
    ASSUME NEW w \in Workspaces, NEW n, n.entries \in Seq(Entries), NEW rt
    PROVE  LET m == AtEntry(w, n, rt) IN
           /\ m.entries = n.entries
           /\ rt.entry \in Ids(n.entries) => m.active = rt.entry
<1>1. Build(w, n.entries, rt.entry).entries = n.entries /\ Build(w, n.entries, rt.entry).active = rt.entry
  BY BuiltOf
<1> QED BY <1>1 DEF AtEntry

\* A state that is synced to a route is as it was, or built at the entry of
\* the route, with one of its craft.
LEMMA SyncedTo ==
    ASSUME NEW w \in Workspaces, NEW n, n.entries \in Seq(Entries),
           n.craft \in Crafts \cup {NoCraft}, NEW p, NEW rt, NEW s, Resolved(w, rt, s)
    PROVE  LET r == Synced(w, n, p, rt) IN
           \/ r = n
           \/ /\ rt # NoRoute
              /\ \E es \in Seq(Entries) :
                    /\ r = Build(w, es, rt.entry) /\ rt.craft \in CraftsOf(es)
                    /\ Unique(n.entries) => Unique(es)
<1>1. SUFFICES ASSUME rt # NoRoute, ~(Holding(n, p) /\ ~RouteShows(rt, p))
      PROVE  \E es \in Seq(Entries) :
               /\ Synced(w, n, p, rt) = Build(w, es, rt.entry) /\ rt.craft \in CraftsOf(es)
               /\ Unique(n.entries) => Unique(es)
  BY DEF Synced
<1> DEFINE m == AtEntry(w, AtCraft(w, n, rt), rt)
           en == Ensured(w, m, rt.craft, rt.view, FALSE)
<1>2. Synced(w, n, p, rt) = Build(w, en.entries, rt.entry)
  BY <1>1 DEF Synced, AtViews
<1>3. rt.craft \in Crafts /\ rt.view \in Views
  BY <1>1, NavAssumption DEF Resolved
<1>4. AtCraft(w, n, rt).entries \in Seq(Entries)
      /\ (Unique(n.entries) => Unique(AtCraft(w, n, rt).entries))
  BY <1>3, AtCraftTyped
<1>5. m.entries \in Seq(Entries) /\ (Unique(n.entries) => Unique(m.entries))
  BY <1>4, AtEntryTyped
<1> HIDE DEF m
<1>6. /\ en.entries \in Seq(Entries) /\ rt.craft \in CraftsOf(en.entries)
      /\ Unique(m.entries) => Unique(en.entries)
  BY <1>3, <1>5, EnsuredThere, UniqueEnsured
<1> HIDE DEF en
<1> QED BY <1>2, <1>5, <1>6

\* With no selection pending, the entries of a voyage are left, and it is at
\* the entry of the route and shows what that one names.
LEMMA SyncedFollows ==
    ASSUME NEW w \in Workspaces, NEW s \in Voyages,
           NEW n, n.entries \in Seq(Entries), SameEntries(n.entries, s.entries),
           NEW rt, rt # NoRoute, Resolved(w, rt, s)
    PROVE  LET r == Synced(w, n, NoSelection, rt) IN
           /\ SameEntries(r.entries, s.entries)
           /\ AtRoute(w, r, rt)
<1> DEFINE k == AtCraft(w, n, rt)
           m == AtEntry(w, k, rt)
           en == Ensured(w, m, rt.craft, rt.view, FALSE)
           r == Synced(w, n, NoSelection, rt)
<1>1. r = Build(w, en.entries, rt.entry)
  BY DEF Synced, AtViews, Holding
<1>2. /\ rt.craft \in Crafts /\ rt.view \in Views /\ rt.view # NoView
      /\ rt.entry \in Ids(s.entries) /\ rt.craft = EntryWithId(s.entries, rt.entry).craft
      /\ s.entries \in Seq(Entries)
  <2>1. s.entries \in Seq(Entries)
    BY VoyagesTyped
  <2>2. \A c \in Live(w) : c \in Crafts
    BY SpacesThere
  <2> QED BY <2>1, <2>2 DEF Resolved, Views, NoView
<1>3. rt.craft \in CraftsOf(s.entries)
  BY <1>2, EntryWithIdThere DEF CraftsOf
<1>4. rt.craft \in CraftsOf(n.entries)
  BY <1>2, <1>3, SameThere
<1>5. k.entries \in Seq(Entries) /\ SameEntries(k.entries, n.entries)
  BY <1>2, <1>4, AtCraftTyped
<1> HIDE DEF k
<1>6. SameEntries(k.entries, s.entries)
  BY <1>2, <1>5, SameTransitive
<1>7. /\ rt.entry \in Ids(k.entries) /\ rt.craft \in CraftsOf(k.entries)
      /\ EntryWithId(k.entries, rt.entry).craft = rt.craft
  BY <1>2, <1>3, <1>5, <1>6, SameThere
<1>8. m.entries = k.entries /\ m.active = rt.entry
  BY <1>5, <1>7, AtEntryTyped
<1> HIDE DEF m
<1>9. /\ en.entries \in Seq(Entries) /\ SameEntries(en.entries, m.entries)
      /\ \A i \in DOMAIN en.entries :
            en.entries[i].id = m.active =>
                en.entries[i].view = NormalView(w, en.entries[i].craft, rt.view)
  <2>1. /\ m.entries \in Seq(Entries) /\ rt.craft \in CraftsOf(m.entries)
        /\ EntryWithId(m.entries, m.active).craft = rt.craft
        /\ rt.view \in Views \cup {NoView} /\ FALSE \in BOOLEAN
    BY <1>2, <1>5, <1>7, <1>8
  <2> QED BY <1>2, <2>1, EnsuredThere
<1> HIDE DEF en
<1>10. SameEntries(en.entries, s.entries)
  BY <1>2, <1>5, <1>6, <1>8, <1>9, SameTransitive
<1>11. r.entries = en.entries /\ r.active = rt.entry
  BY <1>1, <1>9, BuiltOf
<1>12. PICK i \in DOMAIN en.entries :
         EntryWithId(en.entries, rt.entry) = en.entries[i] /\ en.entries[i].id = rt.entry
  BY <1>2, <1>9, <1>10, SameThere
<1>13. en.entries[i].craft = rt.craft
  BY <1>2, <1>9, <1>10, <1>12, SameThere
<1>14. NormalView(w, rt.craft, EntryWithId(en.entries, rt.entry).view) = NormalView(w, rt.craft, rt.view)
  BY <1>8, <1>9, <1>12, <1>13, ViewsNormal
<1> HIDE DEF r
<1> QED BY <1>10, <1>11, <1>14 DEF AtRoute, SameView, r


-----------------------------------------------------------------------------
(* What is loaded.                                                         *)

\* With entries that are normal, a state is sound.
LEMMA NormalSound ==
    ASSUME NEW w \in Workspaces, NEW n, n.entries \in Seq(Entries), n.entries # <<>>,
           Normal(w, n.entries), n.craft \in Crafts \cup {NoCraft}
    PROVE  Sound(n)
BY NormalShows DEF Sound

\* What is loaded without a voyage shows the home craft, and is at rest.
LEMMA DefaultLoaded ==
    ASSUME NEW w \in Workspaces
    PROVE  LET n == DefaultNav(w) IN
           /\ Sound(n) /\ Normal(w, n.entries) /\ n.entries # <<>>
           /\ Matching(n)
           /\ Final(w, n) /\ Unique(n.entries) /\ DOMAIN n.byEntry \subseteq EntryIds
<1> DEFINE c == Min(Live(w))
           none == <<>>
           new == NewEntry(w, none, c, "a")
           es == <<new>>
<1>1. c \in Live(w)
  BY NavAssumption, LeastPlace
<1>2. c \in Crafts /\ none \in Seq(Entries)
  BY <1>1, NavAssumption
<1>3. DefaultNav(w) = Build(w, es, <<c, 0>>)
  BY DEF DefaultNav
<1>10. new.id = <<c, 0>>
  <2>1. Ids(none) = {} /\ Cardinality({}) = 0
    BY FS_EmptySet DEF Ids
  <2>2. {n \in 0..0 : <<c, n>> \notin {}} = {0}
    OBVIOUS
  <2>3. Min({0}) = 0
    BY LeastPlace
  <2>4. FreeId(Ids(none), c) = <<c, 0>>
    BY <2>1, <2>2, <2>3 DEF FreeId
  <2> HIDE DEF c, none
  <2> QED BY <1>2, <2>4, NewEntryTyped
<1> HIDE DEF c, none
<1>4. new \in Entries /\ new.craft = c /\ new.view = NormalView(w, c, "a")
  BY <1>2, NewEntryTyped
<1> HIDE DEF new
<1>5. es \in Seq(Entries) /\ es # <<>> /\ Normal(w, es)
  BY <1>1, <1>4, ViewsNormal DEF Normal
<1> HIDE DEF es
<1>6. LET n == Build(w, es, <<c, 0>>)
      IN  n.entries = es /\ n.craft \in Crafts \cup {NoCraft} /\ Matching(n)
  BY <1>5, BuiltOf
<1>7. <<c, 0>> \in Ids(es)
  BY <1>10 DEF Ids, es
<1>8. Final(w, Build(w, es, <<c, 0>>))
  BY <1>5, <1>7, BuiltFinal
<1>9. Unique(es) /\ DOMAIN Build(w, es, <<c, 0>>).byEntry \subseteq EntryIds
  BY <1>5, BuiltBeside, EntriesTyped DEF Unique, Ids, es
<1> QED BY <1>3, <1>5, <1>6, <1>8, <1>9, NormalSound

\* Adding the craft of a route keeps the entries that are there.
LEMMA WithCraftThere ==
    ASSUME NEW w \in Workspaces, NEW es \in Seq(Entries), es # <<>>, Normal(w, es),
           NEW rt, NEW routed \in BOOLEAN, routed => rt.craft \in Live(w)
    PROVE  LET r == WithCraft(w, es, rt, routed) IN
           /\ r \in Seq(Entries) /\ r # <<>> /\ Normal(w, r)
           /\ Ids(es) \subseteq Ids(r)
           /\ routed => rt.craft \in CraftsOf(r)
           /\ ~routed \/ rt.craft \in CraftsOf(es) => r = es
           /\ Unique(es) => Unique(r)
<1> DEFINE new == NewEntry(w, es, rt.craft, rt.view)
<1>1. CASE routed /\ rt.craft \notin CraftsOf(es)
  <2>1. rt.craft \in Crafts
    BY <1>1, NavAssumption
  <2>2. /\ new \in Entries /\ new.craft = rt.craft /\ new.view = NormalView(w, rt.craft, rt.view)
        /\ new.id \notin Ids(es)
    BY <2>1, NewEntryTyped
  <2>3. WithCraft(w, es, rt, routed) = Append(es, new)
    BY <1>1 DEF WithCraft
  <2> HIDE DEF new
  <2> DEFINE r == Append(es, new)
  <2>4. /\ r \in Seq(Entries) /\ Len(r) = Len(es) + 1 /\ DOMAIN r = 1..(Len(es) + 1)
        /\ \A i \in DOMAIN es : r[i] = es[i]
        /\ r[Len(es) + 1] = new
        /\ DOMAIN es = 1..Len(es) /\ Len(es) \in Nat
    BY <2>2
  <2>5. \A i \in DOMAIN r : i \in DOMAIN es \/ i = Len(es) + 1
    BY <2>4
  <2>6. \A i \in DOMAIN es : i \in DOMAIN r
    BY <2>4
  <2>7. Len(es) + 1 \in DOMAIN r
    BY <2>4
  <2> HIDE DEF r
  <2>8. Normal(w, r)
    <3> SUFFICES ASSUME NEW i \in DOMAIN r
                 PROVE  r[i].craft \in Live(w) /\ r[i].view = NormalView(w, r[i].craft, r[i].view)
      BY DEF Normal
    <3>1. CASE i \in DOMAIN es
      BY <2>4, <3>1 DEF Normal
    <3>2. CASE i = Len(es) + 1
      BY <1>1, <2>2, <2>4, <3>2, ViewsNormal
    <3> QED BY <2>5, <3>1, <3>2
  <2>9. Ids(es) \subseteq Ids(r)
    BY <2>4, <2>6 DEF Ids
  <2>10. rt.craft \in CraftsOf(r)
    BY <2>2, <2>4, <2>7 DEF CraftsOf
  <2>11. r # <<>>
    BY <2>4
  <2>12. Unique(es) => Unique(r)
    BY <2>2, UniqueNew DEF r
  <2> QED BY <1>1, <2>3, <2>4, <2>8, <2>9, <2>10, <2>11, <2>12 DEF r
<1>2. CASE ~(routed /\ rt.craft \notin CraftsOf(es))
  BY <1>2 DEF WithCraft
<1> QED BY <1>1, <1>2

\* Showing the view of a route changes what one craft's entries show.
LEMMA WithViewsThere ==
    ASSUME NEW w \in Workspaces, NEW es \in Seq(Entries), Normal(w, es), NEW rt, NEW a
    PROVE  LET r == WithViews(w, es, rt, a) IN
           /\ r \in Seq(Entries) /\ Normal(w, r) /\ SameEntries(r, es)
           /\ rt # NoRoute =>
                \A i \in DOMAIN r :
                    r[i].id = a => r[i].view = NormalView(w, r[i].craft, rt.view)
<1> DEFINE seen == [i \in DOMAIN es |->
                      IF es[i].id = a
                      THEN Entry(a, es[i].craft, NormalView(w, es[i].craft, rt.view))
                      ELSE es[i]]
<1>1. CASE rt = NoRoute
  <2>1. SameEntries(es, es)
    BY DEF SameEntries
  <2> QED BY <1>1, <2>1 DEF WithViews
<1>2. CASE rt # NoRoute
  <2>1. WithViews(w, es, rt, a) = seen
    BY <1>2 DEF WithViews
  <2>2. ASSUME NEW i \in DOMAIN es
        PROVE  /\ seen[i] \in Entries
               /\ seen[i].id = es[i].id /\ seen[i].craft = es[i].craft
               /\ seen[i].craft \in Live(w)
               /\ seen[i].view = NormalView(w, seen[i].craft, seen[i].view)
               /\ es[i].id = a => seen[i].view = NormalView(w, seen[i].craft, rt.view)
    <3>1. es[i] \in Entries /\ es[i].craft \in Live(w)
          /\ es[i].view = NormalView(w, es[i].craft, es[i].view)
      BY DEF Normal
    <3>2. CASE es[i].id = a
      <4>1. seen[i] = Entry(a, es[i].craft, NormalView(w, es[i].craft, rt.view))
        BY <3>2
      <4> HIDE DEF seen
      <4> QED BY <3>1, <3>2, <4>1, EntriesTyped, ViewsNormal
    <3>3. CASE es[i].id # a
      <4>1. seen[i] = es[i]
        BY <3>3
      <4> HIDE DEF seen
      <4> QED BY <3>1, <3>3, <4>1
    <3> QED BY <3>2, <3>3
  <2>3. DOMAIN es = 1..Len(es) /\ Len(es) \in Nat /\ DOMAIN seen = DOMAIN es
    OBVIOUS
  <2>4. seen \in [1..Len(es) -> Entries]
    BY <2>2, <2>3
  <2> HIDE DEF seen
  <2>5. seen \in Seq(Entries) /\ Len(seen) = Len(es)
    BY <2>3, <2>4
  <2> QED BY <2>1, <2>2, <2>3, <2>5 DEF Normal, SameEntries
<1> QED BY <1>1, <1>2

\* What is loaded beside the entries leaves them, and the craft, as they are.
LEMMA LoadedOf ==
    ASSUME NEW w, NEW es, NEW a, NEW items, NEW ofSaved, NEW routed, NEW shown, NEW item
    PROVE  LET n == Build(w, es, a)
               r == Loaded(n, items, ofSaved, routed, shown, item)
           IN  /\ r.entries = n.entries /\ r.active = n.active
               /\ r.craft = n.craft /\ r.space = n.space
               /\ \A sp, c : LET q == [r EXCEPT !.space = sp, !.craft = c]
                             IN  /\ q.entries = n.entries /\ q.active = n.active
                                 /\ q.craft = c /\ q.space = sp
BY DEF Build, BuildShown, Loaded

\* ... and what it has an item for stays.
LEMMA LoadedBeside ==
    ASSUME NEW w, NEW es, NEW a, NEW items, NEW ofSaved, NEW routed, NEW shown, NEW item
    PROVE  LET r == Loaded(Build(w, es, a), items, ofSaved, routed, shown, item)
           IN  /\ DOMAIN r.byEntry \subseteq Ids(es) \cup DOMAIN ofSaved \cup {shown.id}
               /\ Live(w) \subseteq DOMAIN r.items
               /\ \A sp, c : LET q == [r EXCEPT !.space = sp, !.craft = c]
                             IN  q.byEntry = r.byEntry /\ q.items = r.items
<1> DEFINE n == Build(w, es, a)
           f == Over(n.byEntry, ofSaved)
           g == IF routed THEN [id \in {shown.id} |-> item] ELSE << >>
           h == Over(n.items, items)
           k == IF routed THEN [c \in {shown.craft} |-> item] ELSE << >>
           r == Loaded(n, items, ofSaved, routed, shown, item)
<1>1. DOMAIN n.byEntry = Ids(es) /\ Live(w) \subseteq DOMAIN n.items
  BY BuiltBeside
<1>2. r = [n EXCEPT !.byEntry = Over(f, g), !.items = Over(h, k)]
  BY DEF Loaded
<1>3. r.byEntry = Over(f, g) /\ r.items = Over(h, k)
      /\ \A sp, c : LET q == [r EXCEPT !.space = sp, !.craft = c]
                    IN  q.byEntry = r.byEntry /\ q.items = r.items
  BY <1>2 DEF Build, BuildShown
<1>4. DOMAIN g \subseteq {shown.id}
  <2>1. DOMAIN << >> = {}
    OBVIOUS
  <2> QED BY <2>1
<1> HIDE DEF n, g, k, r
<1>5. DOMAIN Over(f, g) = DOMAIN n.byEntry \cup DOMAIN ofSaved \cup DOMAIN g
  BY DEF Over
<1>6. DOMAIN n.items \subseteq DOMAIN Over(h, k)
  BY DEF Over
<1> QED BY <1>1, <1>3, <1>4, <1>5, <1>6 DEF r, n

\* What is loaded of valid entries: entries that show what is there, of which
\* the active one, at which the route is, is the one that is shown.
LoadedWell(w, s, rt, valid, n) ==
    /\ n.entries \in Seq(Entries) /\ n.entries # <<>> /\ Normal(w, n.entries)
    /\ n.craft \in Crafts \cup {NoCraft}
    /\ Matching(n)
    /\ \A sp, k : LET q == [n EXCEPT !.space = sp, !.craft = k]
                  IN  /\ q.entries = n.entries /\ q.active = n.active
                      /\ q.craft = k /\ q.space = sp
                      /\ q.byEntry = n.byEntry /\ q.items = n.items
    /\ s # NoVoyage /\ SameEntries(valid, s.entries) =>
         /\ SameEntries(n.entries, s.entries)
         /\ AtRoute(w, n, rt)
         /\ rt = NoRoute => n.active = s.active
    /\ n.active \in Ids(n.entries) /\ n.craft \in Live(w) /\ n.space = SpaceOf[n.craft]
    /\ Unique(valid) => Unique(n.entries)
    /\ DOMAIN n.byEntry \subseteq EntryIds /\ Live(w) \subseteq DOMAIN n.items

\* The entries that are loaded: those of the voyage when all its craft are
\* there.
LEMMA LoadedEntries ==
    ASSUME NEW w \in Workspaces, NEW s \in Voyages \cup {NoVoyage},
           NEW rt, Resolved(w, rt, s), NEW items, NEW c \in Live(w),
           rt # NoRoute => c = rt.craft,
           NEW valid \in Seq(Entries), valid # <<>>, Normal(w, valid)
    PROVE  LoadedWell(w, s, rt, valid, LoadEntries(w, rt, s, items, rt # NoRoute, c, valid))
<1> DEFINE routed == rt # NoRoute
           active0 == ActiveOf(valid, IF s = NoVoyage THEN NoEntry ELSE s.active, c)
           old == IF s = NoVoyage THEN <<>> ELSE s.entries
           es1 == WithCraft(w, valid, rt, routed)
           a == LoadedActive(es1, routed, rt, active0)
           es == WithViews(w, es1, rt, a)
           shown == EntryWithId(es, a)
           n == LoadEntries(w, rt, s, items, routed, c, valid)
<1>1. n = Loaded(Build(w, es, shown.id), items, [id \in Ids(old) |-> EntryWithId(old, id).view],
                 routed, shown, ItemOf(w, shown))
  BY DEF LoadEntries, LoadActive, LoadShown
<1>2. c \in Crafts /\ (routed => rt.craft \in Live(w)) /\ routed \in BOOLEAN
  BY NavAssumption
<1>3. active0 \in Ids(valid)
  BY <1>2, ActiveOfThem
<1>4. /\ es1 \in Seq(Entries) /\ es1 # <<>> /\ Normal(w, es1)
      /\ Ids(valid) \subseteq Ids(es1)
      /\ routed => rt.craft \in CraftsOf(es1)
      /\ ~routed \/ rt.craft \in CraftsOf(valid) => es1 = valid
      /\ Unique(valid) => Unique(es1)
  BY <1>2, WithCraftThere
<1> HIDE DEF es1, active0
<1>5. a \in Ids(es1)
  <2>1. routed => EntryOf(es1, rt.craft).id \in Ids(es1)
    BY <1>4, EntryOfThere DEF Ids
  <2> QED BY <1>3, <1>4, <2>1 DEF LoadedActive
<1>6. routed /\ rt.entry \in Ids(es1) => a = rt.entry
  BY DEF LoadedActive
<1>7. ~routed => a = active0
  BY DEF LoadedActive
<1> HIDE DEF a
<1>8. /\ es \in Seq(Entries) /\ Normal(w, es) /\ SameEntries(es, es1)
      /\ routed => \A i \in DOMAIN es : es[i].id = a => es[i].view = NormalView(w, es[i].craft, rt.view)
  BY <1>4, WithViewsThere
<1> HIDE DEF es
<1>9. Ids(es) = Ids(es1) /\ es # <<>>
  BY <1>4, <1>8, SameThere
<1>10. \E i \in DOMAIN es : shown = es[i] /\ es[i].id = a
  BY <1>5, <1>8, <1>9, EntryWithIdThere
<1>11. shown.id = a
  BY <1>10
<1> HIDE DEF shown, n
<1>12. /\ n.entries = es /\ n.active = a
       /\ n.craft = ShownOf(es, a).craft /\ n.craft \in Crafts \cup {NoCraft}
       /\ n.craft \in Live(w) => n.space = SpaceOf[n.craft]
       /\ n.craft \notin Live(w) => n.space = NoSpace
       /\ \A sp, k : LET q == [n EXCEPT !.space = sp, !.craft = k]
                     IN  /\ q.entries = n.entries /\ q.active = n.active
                         /\ q.craft = k /\ q.space = sp
  <2> DEFINE m == Build(w, es, a)
  <2>1. /\ m.entries = es /\ m.active = a
        /\ m.craft = ShownOf(es, a).craft /\ m.craft \in Crafts \cup {NoCraft}
        /\ m.craft \in Live(w) => m.space = SpaceOf[m.craft]
        /\ m.craft \notin Live(w) => m.space = NoSpace
    BY <1>8, BuiltOf
  <2>2. /\ n.entries = m.entries /\ n.active = m.active
        /\ n.craft = m.craft /\ n.space = m.space
        /\ \A sp, k : LET q == [n EXCEPT !.space = sp, !.craft = k]
                      IN  /\ q.entries = m.entries /\ q.active = m.active
                          /\ q.craft = k /\ q.space = sp
    BY <1>1, <1>11, LoadedOf
  <2> HIDE DEF m
  <2> QED BY <2>1, <2>2
<1>13. Matching(n)
  BY <1>12 DEF Matching
<1>14. ASSUME s # NoVoyage, SameEntries(valid, s.entries)
       PROVE  /\ SameEntries(es, s.entries)
              /\ AtRoute(w, n, rt)
              /\ rt = NoRoute => a = s.active
  <2>1. /\ s \in Voyages /\ s.entries \in Seq(Entries) /\ s.active \in Ids(s.entries)
    BY <1>14, VoyagesTyped
  <2>2. Ids(valid) = Ids(s.entries) /\ CraftsOf(valid) = CraftsOf(s.entries)
    BY <1>14, <2>1, SameThere
  <2>3. rt # NoRoute => /\ rt.entry \in Ids(s.entries) /\ rt.craft \in CraftsOf(s.entries)
                        /\ rt.craft = EntryWithId(s.entries, rt.entry).craft
    BY <2>1, EntryWithIdThere DEF Resolved, CraftsOf
  <2>4. es1 = valid
    BY <1>4, <2>2, <2>3
  <2>5. SameEntries(es, s.entries)
    BY <1>4, <1>8, <1>14, <2>1, <2>4, SameTransitive
  <2>6. active0 = s.active
    BY <1>2, <1>14, <2>1, <2>2, ActiveOfThem DEF active0
  <2>7. ASSUME rt # NoRoute PROVE AtRoute(w, n, rt)
    <3>1. a = rt.entry
      BY <1>6, <2>2, <2>3, <2>4, <2>7
    <3>2. PICK i \in DOMAIN es : EntryWithId(es, a) = es[i] /\ es[i].id = a
      BY <1>10 DEF shown
    <3>3. EntryWithId(es, a).craft = rt.craft
      BY <1>8, <2>1, <2>3, <2>5, <2>7, <3>1, SameThere
    <3>4. EntryWithId(es, a).view = NormalView(w, rt.craft, rt.view)
      BY <1>8, <2>7, <3>2, <3>3
    <3> QED BY <1>12, <3>1, <3>4, ViewsNormal DEF AtRoute, SameView
  <2>8. rt = NoRoute => AtRoute(w, n, rt)
    BY DEF AtRoute
  <2> QED BY <1>7, <2>5, <2>6, <2>7, <2>8
<1>15. n.active \in Ids(n.entries) /\ n.craft \in Live(w) /\ n.space = SpaceOf[n.craft]
  <2>1. a \in Ids(es)
    BY <1>5, <1>9
  <2>2. ShownOf(es, a) = EntryWithId(es, a)
    BY <2>1 DEF ShownOf
  <2>3. ShownOf(es, a).craft \in Live(w)
    BY <1>8, <1>10, <2>2 DEF shown, Normal
  <2> QED BY <1>12, <2>1, <2>3
<1>16. Unique(valid) => Unique(n.entries)
  BY <1>4, <1>8, <1>12, UniqueSame
<1>17. /\ DOMAIN n.byEntry \subseteq EntryIds /\ Live(w) \subseteq DOMAIN n.items
       /\ \A sp, k : LET q == [n EXCEPT !.space = sp, !.craft = k]
                     IN  q.byEntry = n.byEntry /\ q.items = n.items
  <2> DEFINE ofSaved == [id \in Ids(old) |-> EntryWithId(old, id).view]
  <2>1. old \in Seq(Entries)
    BY VoyagesTyped
  <2>2. Ids(old) \subseteq EntryIds /\ Ids(es) \subseteq EntryIds
    BY <1>8, <2>1, EntriesTyped DEF Ids
  <2>3. DOMAIN ofSaved = Ids(old)
    OBVIOUS
  <2>4. shown.id \in EntryIds
    BY <1>5, <1>9, <1>11, <2>2
  <2> HIDE DEF old
  <2>5. /\ DOMAIN n.byEntry \subseteq Ids(es) \cup DOMAIN ofSaved \cup {shown.id}
        /\ Live(w) \subseteq DOMAIN n.items
        /\ \A sp, k : LET q == [n EXCEPT !.space = sp, !.craft = k]
                      IN  q.byEntry = n.byEntry /\ q.items = n.items
    <3> DEFINE it == ItemOf(w, shown)
               b == Loaded(Build(w, es, shown.id), items, ofSaved, routed, shown, it)
    <3>1. n = b
      BY <1>1
    <3> HIDE DEF it, ofSaved
    <3>2. /\ DOMAIN b.byEntry \subseteq Ids(es) \cup DOMAIN ofSaved \cup {shown.id}
          /\ Live(w) \subseteq DOMAIN b.items
          /\ \A sp, k : LET q == [b EXCEPT !.space = sp, !.craft = k]
                        IN  q.byEntry = b.byEntry /\ q.items = b.items
      BY LoadedBeside
    <3> HIDE DEF b
    <3> QED BY <3>1, <3>2
  <2> QED BY <2>2, <2>3, <2>4, <2>5
<1> QED BY <1>8, <1>9, <1>12, <1>13, <1>14, <1>15, <1>16, <1>17 DEF n, LoadedWell

\* loadSessionNav: a sound state, whose entries are of live craft.  It shows
\* its active entry, and has the entries of the voyage, if no craft of the
\* voyage is gone.
LEMMA LoadThere ==
    ASSUME NEW w \in Workspaces, NEW s \in Voyages \cup {NoVoyage},
           NEW rt, Resolved(w, rt, s)
    PROVE  LET n == Load(w, rt, s) IN
           /\ Sound(n) /\ n.entries # <<>> /\ Normal(w, n.entries)
           /\ s = NoVoyage \/ AllThere(w, s) => Matching(n)
           /\ s # NoVoyage /\ AllThere(w, s) =>
                SameEntries(n.entries, s.entries) /\ AtRoute(w, n, rt)
           /\ Final(w, n) /\ Unique(n.entries) /\ DOMAIN n.byEntry \subseteq EntryIds
<1> DEFINE routed == rt # NoRoute
           space == LoadedSpace(w, rt, s)
           old == IF s = NoVoyage THEN <<>> ELSE s.entries
           c == IF routed THEN rt.craft
                ELSE IF s # NoVoyage /\ InSpace(w, space, s.craft) THEN s.craft
                ELSE FirstCraft(w, space)
           items == Over([k \in Live(w) |-> DefaultView(w, k)],
                         [k \in CraftsOf(old) |-> EntryOf(Reverse(old), k).view])
           valid == ValidEntries(w, old, c, items[c])
           m == LoadEntries(w, rt, s, items, routed, c, valid)
           n == Load(w, rt, s)
<1>1. routed => space = SpaceOf[rt.craft] /\ rt.craft \in Live(w) /\ s \in Voyages
  BY DEF LoadedSpace, Resolved
<1>2. (rt # NoRoute /\ InSpace(w, space, rt.craft)) = routed
  BY <1>1 DEF InSpace, CraftIn
<1>3. n = LoadIn(w, rt, s, space, routed, old)
  BY <1>2 DEF Load
<1>4. n = LoadCraft(w, rt, s, space, routed, c, old, items)
  BY <1>3 DEF LoadIn
<1>5. n = IF space = NoSpace \/ c = NoCraft THEN DefaultNav(w)
          ELSE [m EXCEPT !.space = IF routed THEN @ ELSE space,
                         !.craft = IF routed THEN @ ELSE c]
  BY <1>4 DEF LoadCraft
<1>6. CASE space = NoSpace \/ c = NoCraft
  <2>1. n = DefaultNav(w)
    BY <1>5, <1>6
  <2>2. ~(s # NoVoyage /\ AllThere(w, s))
    <3>1. SUFFICES ASSUME s # NoVoyage, AllThere(w, s) PROVE space # NoSpace /\ c # NoCraft
      BY <1>6
    <3>2. s.craft \in Live(w) /\ s.space = SpaceOf[s.craft]
      BY <3>1, VoyagesTyped DEF AllThere
    <3>3. routed => rt.craft \in Crafts /\ rt.craft # NoCraft
      BY <1>1, NavAssumption
    <3>4. s.craft \in Crafts /\ s.craft # NoCraft /\ SpaceOf[s.craft] # NoSpace
      BY <3>2, NavAssumption
    <3>5. ~routed => space = s.space /\ InSpace(w, space, s.craft)
      BY <3>1, <3>2 DEF LoadedSpace, SpacesOf, InSpace, CraftIn
    <3>6. CASE routed
      <4>1. SpaceOf[rt.craft] # NoSpace
        BY <3>3, <3>6, NavAssumption
      <4> QED BY <1>1, <3>3, <3>6, <4>1
    <3>7. CASE ~routed
      <4>1. c = s.craft
        BY <3>1, <3>5, <3>7
      <4> HIDE DEF c, space
      <4> QED BY <3>2, <3>4, <3>5, <3>7, <4>1
    <3> QED BY <3>6, <3>7
  <2> QED BY <2>1, <2>2, DefaultLoaded
<1>7. CASE space # NoSpace /\ c # NoCraft
  <2>1. c \in Live(w)
    <3>1. CASE routed
      BY <1>1, <3>1
    <3>2. CASE ~routed /\ s # NoVoyage /\ InSpace(w, space, s.craft)
      BY <3>2 DEF InSpace, CraftIn
    <3>3. CASE ~routed /\ ~(s # NoVoyage /\ InSpace(w, space, s.craft))
      <4>1. c = FirstCraft(w, space)
        BY <3>3
      <4>2. CraftIn(w, space) # {} /\ CraftIn(w, space) \subseteq Nat /\ CraftIn(w, space) \subseteq Live(w)
        BY <1>7, <4>1, NavAssumption DEF FirstCraft, CraftIn
      <4> QED BY <4>1, <4>2, LeastPlace DEF FirstCraft
    <3> QED BY <3>1, <3>2, <3>3
  <2>2. c \in Crafts
    BY <2>1, NavAssumption
  <2>3. old \in Seq(Entries) /\ Unique(old)
    <3>1. <<>> \in Seq(Entries) /\ Unique(<<>>)
      BY DEF Unique
    <3> QED BY <3>1, VoyagesTyped
  <2>4. routed => c = rt.craft
    OBVIOUS
  <2>5. s # NoVoyage /\ AllThere(w, s) /\ ~routed => c = s.craft /\ space = s.space /\ s.space = SpaceOf[s.craft]
    <3>1. SUFFICES ASSUME s # NoVoyage, AllThere(w, s), ~routed
                   PROVE  c = s.craft /\ space = s.space /\ s.space = SpaceOf[s.craft]
      OBVIOUS
    <3>2. s.craft \in Live(w) /\ s.space = SpaceOf[s.craft]
      BY <3>1, VoyagesTyped DEF AllThere
    <3>3. space = s.space /\ InSpace(w, space, s.craft)
      BY <3>1, <3>2 DEF LoadedSpace, SpacesOf, InSpace, CraftIn
    <3> QED BY <3>1, <3>2, <3>3
  <2>6. (s = NoVoyage => routed) /\ (~routed => space \in SpacesOf(w))
    BY <1>7 DEF LoadedSpace
  <2> HIDE DEF c, items, space, old
  <2>7. valid \in Seq(Entries) /\ valid # <<>> /\ Normal(w, valid) /\ Unique(valid)
    BY <2>1, <2>2, <2>3, ValidThem, UniqueValid
  <2>8. s # NoVoyage /\ AllThere(w, s) => SameEntries(valid, s.entries)
    <3>1. SUFFICES ASSUME s # NoVoyage, AllThere(w, s) PROVE SameEntries(valid, s.entries)
      OBVIOUS
    <3>2. old = s.entries /\ old # <<>>
      BY <3>1, VoyagesTyped DEF old
    <3>3. CraftsOf(old) \subseteq Live(w)
      BY <3>1, <3>2 DEF AllThere
    <3>4. SameEntries(valid, old)
      BY <2>2, <2>3, <3>2, <3>3, ValidSame
    <3> QED BY <3>2, <3>4
  <2> HIDE DEF valid
  <2>9. LoadedWell(w, s, rt, valid, m)
    BY <2>1, <2>4, <2>7, LoadedEntries
  <2> USE DEF LoadedWell
  <2> HIDE DEF m
  <2>10. n = [m EXCEPT !.space = IF routed THEN m.space ELSE space,
                       !.craft = IF routed THEN m.craft ELSE c]
    BY <1>5, <1>7
  <2>11. /\ n.entries = m.entries /\ n.active = m.active
         /\ n.craft = (IF routed THEN m.craft ELSE c)
         /\ n.space = (IF routed THEN m.space ELSE space)
         /\ n.byEntry = m.byEntry /\ n.items = m.items
    BY <2>9, <2>10
  <2> HIDE DEF n
  <2>12. Sound(n)
    BY <2>2, <2>9, <2>11, NormalSound
  <2>13. AtRoute(w, m, rt) => AtRoute(w, n, rt)
    BY <2>11 DEF AtRoute
  <2>14. s = NoVoyage \/ AllThere(w, s) => Matching(n)
    <3>1. CASE routed
      BY <2>9, <2>11, <3>1 DEF Matching
    <3>2. CASE ~routed
      <4>1. SUFFICES ASSUME s # NoVoyage, AllThere(w, s) PROVE Matching(n)
        BY <2>6, <3>2
      <4>2. s.entries \in Seq(Entries) /\ s.active \in Ids(s.entries)
            /\ s.craft = EntryWithId(s.entries, s.active).craft
        BY <4>1, VoyagesTyped
      <4>3. n.active = s.active /\ SameEntries(n.entries, s.entries)
        BY <2>8, <2>9, <2>11, <3>2, <4>1
      <4>4. ShownOf(n.entries, n.active).craft = s.craft
        BY <2>9, <2>11, <4>2, <4>3, SameThere DEF ShownOf
      <4>5. n.craft = s.craft /\ n.space = SpaceOf[s.craft]
        BY <2>5, <2>11, <3>2, <4>1
      <4> QED BY <4>4, <4>5 DEF Matching
    <3> QED BY <3>1, <3>2
  <2>15. Final(w, n)
    <3>1. n.craft \in Live(w)
      BY <2>1, <2>9, <2>11
    <3>2. n.space \in SpacesOf(w)
      BY <2>6, <2>9, <2>11, SpacesThere
    <3> QED BY <2>9, <2>11, <3>1, <3>2 DEF Final, AtRest
  <2> QED BY <2>7, <2>8, <2>9, <2>11, <2>12, <2>13, <2>14, <2>15 DEF n
<1> QED BY <1>6, <1>7


-----------------------------------------------------------------------------
(* A round of effects.                                                     *)

\* No selection stays none.
LEMMA StillNothing ==
    ASSUME NEW w, NEW n, NEW rt
    PROVE  StillPending(w, n, NoSelection, rt) = NoSelection
BY DEF StillPending, Holding

\* What the effects of the voyage and of the route lead to.
LEMMA FirstEffects ==
    ASSUME Inv, NEW rt, rt = CurrentRoute, NEW p, pending = NoSelection => p = NoSelection
    PROVE  LET w  == workspace
               n0 == IF saved # last.saved THEN Load(w, rt, saved) ELSE nav
               n1 == SyncedIfNew(n0, p, rt)
           IN  /\ n1.entries \in Seq(Entries) /\ n1.craft \in Crafts \cup {NoCraft}
               /\ \/ Sound(n1) /\ n1 = n0
                  \/ Live(w) \cap CraftsOf(n1.entries) # {}
               /\ saved = NoVoyage \/ AllThere(w, saved) => Matching(n1)
               /\ ~called /\ InStepWith(w, saved) =>
                    SameEntries(n1.entries, saved.entries) /\ AtRoute(w, n1, rt)
<1> DEFINE w == workspace
           n0 == IF saved # last.saved THEN Load(w, rt, saved) ELSE nav
           n1 == SyncedIfNew(n0, p, rt)
<1>1. /\ w \in Workspaces /\ saved \in Voyages \cup {NoVoyage} /\ url \in Urls \cup {NoRoute}
      /\ Sound(nav) /\ Matched /\ Following
  BY DEF Inv
<1>2. Resolved(w, rt, saved)
  BY <1>1, RouteResolved DEF CurrentRoute
<1>3. /\ Sound(n0)
      /\ saved = NoVoyage \/ AllThere(w, saved) => Matching(n0)
      /\ ~called /\ InStepWith(w, saved) =>
           /\ SameEntries(n0.entries, saved.entries)
           /\ rt = last.route => AtRoute(w, n0, rt)
  <2>1. CASE saved # last.saved
    <3>1. n0 = Load(w, rt, saved)
      BY <2>1
    <3> QED BY <1>1, <1>2, <3>1, LoadThere DEF InStepWith
  <2>2. CASE saved = last.saved
    <3>1. n0 = nav
      BY <2>2
    <3> QED BY <1>1, <2>2, <3>1 DEF Matched, Following, InStepWith
  <2> QED BY <2>1, <2>2
<1> HIDE DEF n0
<1>4. n0.entries \in Seq(Entries) /\ n0.craft \in Crafts \cup {NoCraft}
  BY <1>3 DEF Sound
<1>5. CASE rt = last.route \/ rt = NoRoute
  <2>1. n1 = n0
    BY <1>5 DEF SyncedIfNew, Synced
  <2>2. rt = NoRoute => AtRoute(w, n0, rt)
    BY DEF AtRoute
  <2> HIDE DEF n1
  <2> QED BY <1>3, <1>4, <1>5, <2>1, <2>2 DEF n0, n1
<1>6. CASE rt # last.route /\ rt # NoRoute
  <2>1. n1 = Synced(w, n0, p, rt)
    BY <1>6 DEF SyncedIfNew
  <2> HIDE DEF n1
  <2>2. \/ n1 = n0
        \/ \E es \in Seq(Entries) : n1 = Build(w, es, rt.entry) /\ rt.craft \in CraftsOf(es)
    BY <1>1, <1>2, <1>4, <2>1, SyncedTo
  <2>3. \/ n1 = n0
        \/ /\ n1.entries \in Seq(Entries) /\ n1.craft \in Crafts \cup {NoCraft}
           /\ rt.craft \in CraftsOf(n1.entries) /\ Matching(n1)
    <3>1. ASSUME NEW es \in Seq(Entries), n1 = Build(w, es, rt.entry), rt.craft \in CraftsOf(es)
          PROVE  /\ n1.entries \in Seq(Entries) /\ n1.craft \in Crafts \cup {NoCraft}
                 /\ rt.craft \in CraftsOf(n1.entries) /\ Matching(n1)
      BY <1>1, <3>1, BuiltOf
    <3> QED BY <2>2, <3>1
  <2>4. rt.craft \in Live(w)
    BY <1>2, <1>6 DEF Resolved
  <2>5. ~called /\ InStepWith(w, saved) => SameEntries(n1.entries, saved.entries) /\ AtRoute(w, n1, rt)
    <3>1. SUFFICES ASSUME ~called, InStepWith(w, saved)
                   PROVE  SameEntries(n1.entries, saved.entries) /\ AtRoute(w, n1, rt)
      OBVIOUS
    <3>2. p = NoSelection
      BY <1>1, <3>1 DEF Following
    <3>3. saved \in Voyages
      BY <1>1, <3>1 DEF InStepWith
    <3> QED BY <1>1, <1>2, <1>3, <1>4, <1>6, <2>1, <3>1, <3>2, <3>3, SyncedFollows
  <2> QED BY <1>3, <1>4, <2>3, <2>4, <2>5 DEF n0, n1
<1> QED BY <1>5, <1>6

\* What all of them lead to.
LEMMA AllEffects ==
    ASSUME Inv, NEW rt, rt = CurrentRoute, NEW p, pending = NoSelection => p = NoSelection
    PROVE  LET w == workspace
               n == Effects(p, rt)
               b == Build(w, n.entries, n.active)
           IN  /\ Sound(n) /\ Sound(b) /\ Matching(b)
               /\ saved = NoVoyage \/ AllThere(w, saved) => Matching(n)
               /\ ~called /\ InStepWith(w, saved) =>
                    /\ SameEntries(n.entries, saved.entries)
                    /\ AtRoute(w, n, rt) /\ AtRoute(w, b, rt)
               /\ b.entries = n.entries
               /\ nav = n /\ saved = last.saved /\ nav.space \in SpacesOf(w) => AtRest(w, nav)
<1> DEFINE w == workspace
           n0 == IF saved # last.saved THEN Load(w, rt, saved) ELSE nav
           n1 == SyncedIfNew(n0, p, rt)
           n == Effects(p, rt)
           b == Build(w, n.entries, n.active)
<1>1. /\ w \in Workspaces /\ saved \in Voyages \cup {NoVoyage} /\ url \in Urls \cup {NoRoute}
      /\ Sound(nav)
  BY DEF Inv
<1>2. Resolved(w, rt, saved)
  BY <1>1, RouteResolved DEF CurrentRoute
<1>3. n = Normalized(w, n1)
  BY DEF Effects
<1>4. /\ n1.entries \in Seq(Entries) /\ n1.craft \in Crafts \cup {NoCraft}
      /\ \/ Sound(n1) /\ n1 = n0
         \/ Live(w) \cap CraftsOf(n1.entries) # {}
      /\ saved = NoVoyage \/ AllThere(w, saved) => Matching(n1)
      /\ ~called /\ InStepWith(w, saved) =>
           SameEntries(n1.entries, saved.entries) /\ AtRoute(w, n1, rt)
  BY FirstEffects
<1>5. saved = last.saved => n0 = nav
  OBVIOUS
<1> HIDE DEF n0, n1, n
<1>6. n.entries \in Seq(Entries) /\ (n = n1 \/ n = Build(w, n.entries, n.active))
  BY <1>1, <1>3, <1>4, NormalizedIs
<1>7. Sound(n) /\ Sound(b)
  BY <1>1, <1>3, <1>4, NormalizedSound, NormalizedLive
<1>8. b.entries = n.entries /\ b.active = n.active /\ Matching(b)
  BY <1>1, <1>6, BuiltOf
<1> HIDE DEF b
<1>9. saved = NoVoyage \/ AllThere(w, saved) => Matching(n)
  BY <1>4, <1>6, <1>8 DEF b
<1>10. ~called /\ InStepWith(w, saved) =>
         SameEntries(n.entries, saved.entries) /\ AtRoute(w, n, rt) /\ AtRoute(w, b, rt)
  <2>1. SUFFICES ASSUME ~called, InStepWith(w, saved)
                 PROVE  SameEntries(n.entries, saved.entries) /\ AtRoute(w, n, rt) /\ AtRoute(w, b, rt)
    OBVIOUS
  <2>2. saved \in Voyages /\ AllThere(w, saved)
    BY <1>1, <2>1 DEF InStepWith
  <2>3. SameEntries(n.entries, saved.entries) /\ AtRoute(w, n, rt)
    BY <1>1, <1>2, <1>3, <1>4, <2>1, <2>2, NormalizedFollows
  <2> QED BY <1>8, <2>3 DEF AtRoute
<1>11. ASSUME nav = n, saved = last.saved, nav.space \in SpacesOf(w) PROVE AtRest(w, nav)
  <2>1. CASE Live(w) \cap CraftsOf(n1.entries) # {}
    <3>1. Normal(w, n.entries) /\ n.active \in Ids(n.entries)
      BY <1>1, <1>3, <1>4, <2>1, NormalizedLive
    <3> QED BY <1>11, <3>1 DEF AtRest
  <2>2. CASE n1 = n0
    <3> DEFINE es == ValidEntries(w, nav.entries, nav.craft, ItemIn(nav, nav.craft))
               a  == ActiveOf(es, nav.active, nav.craft)
    <3>1. n1 = nav /\ nav = Normalized(w, nav)
      BY <1>3, <1>5, <1>11, <2>2
    <3>2. nav.entries \in Seq(Entries) /\ nav.craft \in Crafts \cup {NoCraft}
      BY <1>1 DEF Sound
    <3>3. nav.entries = es /\ nav.active = a
      BY <1>1, <3>1, <3>2, NormalizedIs
    <3>4. nav.space # NoSpace
      BY <1>1, <1>11, NavAssumption DEF SpacesOf
    <3>5. nav.entries # <<>> /\ \A i \in DOMAIN nav.entries : nav.entries[i].view \in Views
      BY <1>1, <3>4 DEF Sound
    <3>6. Normal(w, es) \/ es = <<>> \/ (Len(es) = 1 /\ es[1].view = NoView)
      BY <1>1, <3>2, ValidThem
    <3> HIDE DEF es
    <3>7. Normal(w, es)
      <4>1. ASSUME Len(es) = 1, es[1].view = NoView PROVE FALSE
        <5>1. 1 \in DOMAIN nav.entries
          BY <3>2, <3>3, <4>1
        <5> QED BY <3>3, <3>5, <4>1, <5>1 DEF Views, NoView
      <4> QED BY <3>3, <3>5, <3>6, <4>1
    <3>8. a \in Ids(es)
      BY <3>2, <3>3, <3>5, ActiveOfThem
    <3> HIDE DEF a
    <3> QED BY <1>11, <3>3, <3>7, <3>8 DEF AtRest
  <2> QED BY <1>4, <2>1, <2>2
<1> QED BY <1>7, <1>8, <1>9, <1>10, <1>11 DEF n, b

\* A round of effects keeps the invariant.
LEMMA FlushKeeps ==
    ASSUME Inv, Flush
    PROVE  Inv'
<1> DEFINE w == workspace
           rt == CurrentRoute
           p == StillPending(w, nav, pending, rt)
           n == Effects(p, rt)
           b == Build(w, n.entries, n.active)
           l == Load(w, rt, saved)
<1>1. /\ w \in Workspaces /\ saved \in Voyages \cup {NoVoyage} /\ url \in Urls \cup {NoRoute}
      /\ round \in Nat /\ called \in BOOLEAN /\ Following
  BY DEF Inv
<1>2. FlushTo(n, p, rt) /\ UNCHANGED <<workspace, saved, url, called>>
  BY DEF Flush, FlushOn
<1>3. pending = NoSelection => p = NoSelection
  BY StillNothing
<1>4. Resolved(w, rt, saved)
  BY <1>1, RouteResolved DEF CurrentRoute
<1>5. CurrentRoute' = rt
  BY <1>2 DEF CurrentRoute
<1> HIDE DEF p, rt
<1>6. /\ Sound(n) /\ Sound(b) /\ Matching(b)
      /\ saved = NoVoyage \/ AllThere(w, saved) => Matching(n)
      /\ ~called /\ InStepWith(w, saved) =>
           /\ SameEntries(n.entries, saved.entries)
           /\ AtRoute(w, n, rt) /\ AtRoute(w, b, rt)
      /\ b.entries = n.entries
      /\ nav = n /\ saved = last.saved /\ nav.space \in SpacesOf(w) => AtRest(w, nav)
  BY <1>3, AllEffects DEF rt
<1>7. /\ Sound(l)
      /\ saved = NoVoyage \/ AllThere(w, saved) => Matching(l)
      /\ saved # NoVoyage /\ AllThere(w, saved) => SameEntries(l.entries, saved.entries) /\ AtRoute(w, l, rt)
  BY <1>1, <1>4, LoadThere
<1>8. /\ nav' = IF MustReload(w, nav, p) THEN l ELSE IF HasNewCraft(w, nav) THEN b ELSE n
      /\ pending' = p
      /\ last' = [saved |-> saved, route |-> rt]
      /\ round' = IF \/ MustReload(w, nav, p) \/ HasNewCraft(w, nav)
                     \/ saved # last.saved \/ nav' # nav
                  THEN round + 1 ELSE 0
  BY <1>2 DEF FlushTo
<1> HIDE DEF n, b, l
<1>9. /\ Sound(nav')
      /\ saved = NoVoyage \/ AllThere(w, saved) => Matching(nav')
      /\ ~called /\ InStepWith(w, saved) =>
           SameEntries(nav'.entries, saved.entries) /\ AtRoute(w, nav', rt)
  BY <1>6, <1>7, <1>8 DEF InStepWith
<1>10. last'.saved = saved /\ last'.route = rt
  BY <1>8
<1>11. Matched'
  BY <1>2, <1>9, <1>10 DEF Matched
<1>12. RouteOfVoyage(last'.route, last'.saved)
  BY <1>4, <1>10, NavAssumption DEF Resolved, RouteOfVoyage
<1>13. Following'
  BY <1>1, <1>2, <1>3, <1>8, <1>9, <1>10 DEF Following
<1>14. Resting'
  <2>1. SUFFICES ASSUME round' = 0 PROVE AtRest(w, nav')
    BY <1>2, <1>5, <1>10 DEF Resting
  <2>2. ~MustReload(w, nav, p) /\ ~HasNewCraft(w, nav) /\ saved = last.saved /\ nav' = nav
    BY <1>1, <1>8, <2>1
  <2>3. nav.space \in SpacesOf(w)
    BY <2>2 DEF MustReload
  <2> QED BY <1>6, <1>8, <2>2, <2>3
<1>15. round' \in Nat
  BY <1>1, <1>8
<1> QED BY <1>1, <1>2, <1>9, <1>10, <1>11, <1>12, <1>13, <1>14, <1>15 DEF Inv


-----------------------------------------------------------------------------
(* What reaches the tab.                                                   *)

\* A voyage that arrives keeps it: it is not yet applied.
LEMMA SavedKeeps ==
    ASSUME Inv, NEW s \in Voyages \cup {NoVoyage}, SavedChanges(s)
    PROVE  Inv'
<1>1. round' = 1 /\ UNCHANGED <<workspace, url, nav, pending, last, called>> /\ saved' = s
  BY DEF SavedChanges, Render
<1>2. Matched' /\ Following' /\ Resting'
  BY <1>1 DEF Inv, Matched, Following, Resting
<1> QED BY <1>1, <1>2 DEF Inv

\* So does a URL.
LEMMA UrlKeeps ==
    ASSUME Inv, NEW u \in Urls \cup {NoRoute}, GoTo(u)
    PROVE  Inv'
<1>1. round' = 1 /\ UNCHANGED <<workspace, saved, nav, pending, last, called>> /\ url' = u
  BY DEF GoTo, Render
<1>2. Matched' /\ Following' /\ Resting'
  BY <1>1 DEF Inv, Matched, Following, Resting
<1> QED BY <1>1, <1>2 DEF Inv

\* A view that the route names and the workspace does not have is the one the
\* voyage names, which does not come back.
LEMMA RouteViewOf ==
    ASSUME NEW w, NEW e, e.view \in Views, NEW v \in Views \cup {NoView},
           NEW rv, rv = RouteView(w, e, v), rv \in {"b", "ab"}, "b" \notin w[e.craft]
    PROVE  rv = e.view
BY DEF RouteView, Views, NoView

\* A workspace that changes beside the voyage leaves what a route showed.
LEMMA RouteStays ==
    ASSUME Inv, Resting, round = 0, NEW w \in Workspaces, saved \in Voyages,
           NothingBack(w, saved), AllThere(w, saved), AllThere(workspace, saved),
           SameEntries(nav.entries, saved.entries), AtRoute(workspace, nav, last.route)
    PROVE  AtRoute(w, nav, last.route)
<1> DEFINE rt == CurrentRoute
           es == nav.entries
           e == EntryWithId(es, nav.active)
           f == EntryWithId(saved.entries, url.entry)
           c == rt.craft
<1>1. SUFFICES ASSUME rt # NoRoute, last.route = rt PROVE AtRoute(w, nav, rt)
  BY DEF Resting, AtRoute
<1>2. workspace \in Workspaces /\ url \in Urls \cup {NoRoute} /\ es \in Seq(Entries) /\ saved.entries \in Seq(Entries)
  BY VoyagesTyped DEF Inv, Sound
<1>3. Resolved(workspace, rt, saved)
  BY <1>2, RouteResolved DEF CurrentRoute
<1>4. nav.active = rt.entry /\ NormalView(workspace, c, e.view) = NormalView(workspace, c, rt.view)
  BY <1>1 DEF AtRoute, SameView
<1>5. rt.entry \in Ids(saved.entries) /\ c = EntryWithId(saved.entries, rt.entry).craft
      /\ c \in Live(workspace) /\ rt.view \in Views
  BY <1>1, <1>3 DEF Resolved
<1>6. PICK i \in DOMAIN es : e = es[i] /\ e.craft = c
  BY <1>2, <1>4, <1>5, SameThere
<1>7. e.view = NormalView(workspace, c, e.view)
  BY <1>6 DEF Resting, AtRest, Normal
<1>8. url \in Urls /\ rt = RouteEntry(workspace, f, url)
  BY <1>1, <1>2, NavAssumption DEF CurrentRoute, Route
<1>9. f.craft \in Live(workspace) /\ rt = RouteTo(workspace, f, RouteView(workspace, f, url.view))
  BY <1>1, <1>8 DEF RouteEntry
<1>10. rt.view = RouteView(workspace, f, url.view) /\ c = f.craft
  BY <1>9 DEF RouteTo
<1>11. f.craft # NoCraft
  BY <1>2, <1>9, NavAssumption
<1>12. PICK k \in DOMAIN saved.entries : f = saved.entries[k]
  BY <1>2, <1>11, EntryWithIdThere, EntriesTyped
<1>13. f.view \in Views /\ f \in Range(saved.entries) /\ f.craft \in Live(w)
  BY <1>12, VoyagesTyped DEF Range, AllThere, CraftsOf
<1>14. url.view \in Views \cup {NoView}
  BY <1>8, NavAssumption
<1> HIDE DEF rt, e, f, c
<1>15. rt.view \in {"b", "ab"} /\ "b" \notin workspace[c] => rt.view = f.view
  BY <1>10, <1>13, <1>14, RouteViewOf
<1>16. f.view \in {"b", "ab"} /\ "b" \in w[c] => "b" \in workspace[c]
  BY <1>10, <1>13 DEF NothingBack
<1>17. rt.view \in {"b", "ab"} /\ "b" \notin workspace[c] => "b" \notin w[c]
  BY <1>15, <1>16
<1>18. c \in Live(w)
  BY <1>10, <1>13
<1>19. NormalView(w, c, e.view) = NormalView(w, c, rt.view)
  <2>1. CASE rt.view \in {"b", "ab"} /\ "b" \in workspace[c]
    BY <1>4, <1>5, <1>7, <2>1 DEF NormalView
  <2>2. CASE rt.view \in {"b", "ab"} /\ "b" \notin workspace[c]
    BY <1>17, <1>18, <2>2 DEF NormalView
  <2>3. CASE rt.view \notin {"b", "ab"}
    <3>1. e.view = "a"
      BY <1>4, <1>5, <1>7, <2>3 DEF NormalView, DefaultView
    <3> QED BY <1>5, <1>18, <2>3, <3>1 DEF NormalView, DefaultView
  <2> QED BY <2>1, <2>2, <2>3
<1> QED BY <1>4, <1>19 DEF AtRoute, SameView, e, c

\* So does a workspace.
LEMMA WorkspaceKeeps ==
    ASSUME Inv, NEW w \in Workspaces, WorkspaceChanges(w)
    PROVE  Inv'
<1>1. /\ round = 0 /\ round' = 1 /\ workspace' = w
      /\ UNCHANGED <<saved, url, nav, pending, last, called>>
      /\ saved # NoVoyage => NothingBack(w, saved)
  BY DEF WorkspaceChanges, Render
<1>2. last.saved = saved /\ Resting /\ Matched /\ Following /\ saved \in Voyages \cup {NoVoyage}
  BY <1>1 DEF Inv, Resting
<1>3. saved # NoVoyage /\ AllThere(w, saved) => AllThere(workspace, saved)
  <2>1. SUFFICES ASSUME saved # NoVoyage, AllThere(w, saved) PROVE AllThere(workspace, saved)
    OBVIOUS
  <2>2. NothingBack(w, saved)
    BY <1>1, <2>1
  <2>3. ASSUME NEW i \in DOMAIN saved.entries PROVE saved.entries[i].craft \in Live(workspace)
    <3>1. saved.entries[i] \in Range(saved.entries) /\ saved.entries[i].craft \in Live(w)
      BY <2>1 DEF Range, AllThere, CraftsOf
    <3> QED BY <2>2, <3>1 DEF NothingBack
  <2> QED BY <2>3 DEF AllThere, CraftsOf
<1>4. Matched'
  BY <1>1, <1>2, <1>3 DEF Matched
<1>5. Following'
  <2>1. SUFFICES ASSUME ~called, InStepWith(w, saved)
                 PROVE  SameEntries(nav.entries, saved.entries) /\ AtRoute(w, nav, last.route)
    BY <1>1, <1>2 DEF Following
  <2>2. saved \in Voyages /\ AllThere(w, saved) /\ AllThere(workspace, saved) /\ NothingBack(w, saved)
    BY <1>1, <1>2, <1>3, <2>1 DEF InStepWith
  <2>3. SameEntries(nav.entries, saved.entries) /\ AtRoute(workspace, nav, last.route)
    BY <1>2, <2>1, <2>2 DEF Following, InStepWith
  <2> QED BY <1>1, <1>2, <2>2, <2>3, RouteStays
<1>6. Resting'
  BY <1>1 DEF Resting
<1> QED BY <1>1, <1>4, <1>5, <1>6 DEF Inv


-----------------------------------------------------------------------------
(* The functions of the hook.                                              *)

\* When the effects are at rest, every entry is of a live craft and shows what
\* is there, and the active one is among them.
LEMMA AtRestNow ==
    ASSUME Inv, round = 0
    PROVE  /\ workspace \in Workspaces /\ nav.entries \in Seq(Entries) /\ nav.entries # <<>>
           /\ Normal(workspace, nav.entries)
           /\ \A i \in DOMAIN nav.entries : nav.entries[i].view \in Views
           /\ nav.active \in Ids(nav.entries)
<1>1. workspace \in Workspaces /\ nav.entries \in Seq(Entries) /\ AtRest(workspace, nav)
  BY DEF Inv, Resting, Sound
<1>2. Normal(workspace, nav.entries) /\ nav.active \in Ids(nav.entries)
  BY <1>1 DEF AtRest
<1>3. nav.entries # <<>>
  BY <1>2 DEF Ids
<1> QED BY <1>1, <1>2, <1>3, NormalShows

\* A call only has to leave a sound state that shows its active entry: the
\* effects are due after it, and the URL no longer decides.
LEMMA CallKeeps ==
    ASSUME Inv, NEW next, NEW p, Call(next, p), Sound(next), Matching(next)
    PROVE  Inv'
<1>1. /\ nav' = next /\ round' = 1 /\ called' = TRUE
      /\ UNCHANGED <<workspace, saved, url, last>>
  BY DEF Call
<1>2. Matched' /\ Following' /\ Resting'
  BY <1>1 DEF Matched, Following, Resting
<1> QED BY <1>1, <1>2 DEF Inv

\* ... as a state does that is built of entries that show something.
LEMMA BuiltKeeps ==
    ASSUME Inv, NEW es \in Seq(Entries), NEW a, NEW p, Call(Build(workspace, es, a), p),
           \/ \A i \in DOMAIN es : es[i].view \in Views
           \/ ShownOf(es, a).craft \notin Live(workspace)
    PROVE  Inv'
<1>1. workspace \in Workspaces
  BY DEF Inv
<1>2. Sound(Build(workspace, es, a)) /\ Matching(Build(workspace, es, a))
  BY <1>1, BuiltOf, BuiltSound
<1> QED BY <1>2, CallKeeps

\* ensureVoyageEntryForTabGroup on entries that show what is there: all of them
\* still do, unless the craft is gone, and then its new entry is active.
LEMMA EnsuredShows ==
    ASSUME NEW w \in Workspaces, NEW n, n.entries \in Seq(Entries), Normal(w, n.entries),
           NEW c \in Crafts, NEW v \in Views \cup {NoView}, NEW again \in BOOLEAN
    PROVE  LET r == Ensured(w, n, c, v, again) IN
           /\ c \in Live(w) => \A i \in DOMAIN r.entries : r.entries[i].view \in Views
           /\ c \notin Live(w) => ShownOf(r.entries, r.active).craft = c
           /\ \A i \in DOMAIN r.entries :
                r.entries[i].craft \in Live(w) => r.entries[i].view \in Views
<1> DEFINE es == n.entries
           e == EntryFor(n, c)
           r == Ensured(w, n, c, v, again)
           new == NewEntry(w, es, c, v)
           all == Append(es, new)
<1> USE EntriesTyped
<1>1. \A i \in DOMAIN es : es[i].view \in Views /\ es[i].craft \in Live(w) /\ es[i] \in Entries
  BY NormalShows DEF Normal
<1>2. EntryWithId(es, n.active) = NoneOfThem \/ \E i \in DOMAIN es : EntryWithId(es, n.active) = es[i]
  BY EntryWithIdThere
<1>3. EntryOf(es, c) = NoneOfThem \/ \E i \in DOMAIN es : EntryOf(es, c) = es[i] /\ es[i].craft = c
  BY EntryOfThere
<1>4. e = NoneOfThem \/ \E i \in DOMAIN es : e = es[i] /\ es[i].craft = c
  BY <1>2, <1>3 DEF EntryFor
<1>5. /\ new \in Entries /\ new.craft = c /\ new.view = NormalView(w, c, v)
      /\ new.id \notin Ids(es)
  BY NewEntryTyped
<1>6. CASE e.id = NoEntry \/ again
  <2>1. r.entries = all /\ r.active = new.id
    BY <1>6 DEF Ensured, WithNew
  <2> HIDE DEF new, e, r
  <2>2. /\ all \in Seq(Entries) /\ DOMAIN all = 1..Len(es) + 1 /\ all[Len(es) + 1] = new
        /\ \A i \in DOMAIN es : all[i] = es[i]
        /\ DOMAIN es = 1..Len(es) /\ Len(es) \in Nat
    BY <1>5
  <2>3. \A i \in DOMAIN all : i \in DOMAIN es \/ i = Len(es) + 1
    BY <2>2
  <2>4. ASSUME c \in Live(w), NEW i \in DOMAIN all PROVE all[i].view \in Views
    <3>1. new.view \in Views
      BY <1>5, <2>4, ViewsNormal
    <3> QED BY <1>1, <2>2, <2>3, <2>4, <3>1
  <2>9. ASSUME NEW i \in DOMAIN all, all[i].craft \in Live(w) PROVE all[i].view \in Views
    BY <1>1, <1>5, <2>2, <2>3, <2>4, <2>9
  <2> HIDE DEF all
  <2>5. new.id \in Ids(all)
    BY <2>2 DEF Ids
  <2>6. PICK i \in DOMAIN all : EntryWithId(all, new.id) = all[i] /\ all[i].id = new.id
    <3> DEFINE id == new.id
    <3>1. id \in Ids(all)
      BY <2>5
    <3> HIDE DEF id
    <3>2. \E i \in DOMAIN all : EntryWithId(all, id) = all[i] /\ all[i].id = id
      BY <2>2, <3>1, EntryWithIdThere
    <3> QED BY <3>2 DEF id
  <2>7. i = Len(es) + 1
    BY <1>5, <2>2, <2>3, <2>6 DEF Ids
  <2>8. ShownOf(all, new.id).craft = c
    BY <1>5, <2>2, <2>5, <2>6, <2>7 DEF ShownOf
  <2> QED BY <2>1, <2>4, <2>8, <2>9 DEF r
<1>7. CASE e.id # NoEntry /\ ~again
  <2>1. PICK k \in DOMAIN es : e = es[k] /\ es[k].craft = c
    BY <1>4, <1>7
  <2>2. c \in Live(w)
    BY <1>1, <2>1
  <2>3. r = WithEntry(w, es, e, v)
    BY <1>7 DEF Ensured
  <2> HIDE DEF e, r
  <2>4. CASE v = NoView
    <3>1. r.entries = es
      BY <2>3, <2>4 DEF WithEntry
    <3> QED BY <1>1, <2>2, <3>1 DEF r
  <2>5. CASE v # NoView
    <3>1. r.entries = [i \in DOMAIN es |->
                         IF es[i].id = e.id THEN Entry(e.id, e.craft, NormalView(w, e.craft, v))
                         ELSE es[i]]
      BY <2>3, <2>5 DEF WithEntry
    <3>2. Entry(e.id, e.craft, NormalView(w, e.craft, v)).view \in Views
      BY <2>1, <2>2, ViewsNormal DEF Entry
    <3>3. \A i \in DOMAIN r.entries : r.entries[i].view \in Views
      BY <1>1, <3>1, <3>2
    <3> QED BY <2>2, <3>3 DEF r
  <2> QED BY <2>4, <2>5
<1> QED BY <1>6, <1>7


\* selectVoyageCraft: a selection, of a craft that is there or still to come.
LEMMA SelectKeeps ==
    ASSUME Inv, NEW c \in Crafts, NEW v \in Views \cup {NoView}, NEW p,
           Call(Select(workspace, nav, c, v), p)
    PROVE  Inv'
<1> DEFINE r == Ensured(workspace, nav, c, v, FALSE)
<1>1. round = 0
  BY DEF Call
<1>2. /\ workspace \in Workspaces /\ nav.entries \in Seq(Entries)
      /\ Normal(workspace, nav.entries)
  BY <1>1, AtRestNow
<1>3. r.entries \in Seq(Entries)
  BY <1>2, EnsuredThere
<1>4. \/ \A i \in DOMAIN r.entries : r.entries[i].view \in Views
      \/ ShownOf(r.entries, r.active).craft \notin Live(workspace)
  BY <1>2, EnsuredShows
<1>5. Call(Build(workspace, r.entries, r.active), p)
  BY DEF Select, Rebuilt
<1> HIDE DEF r
<1> QED BY <1>3, <1>4, <1>5, BuiltKeeps

\* Entries that are built anew, with another one active.
LEMMA RebuiltKeeps ==
    ASSUME Inv, NEW es \in Seq(Entries), \A i \in DOMAIN es : es[i].view \in Views,
           NEW a, NEW p, Call(Build(workspace, es, a), p)
    PROVE  Inv'
BY BuiltKeeps

\* A call that selects keeps the invariant: it works on normal entries.
LEMMA SelectingKeeps ==
    ASSUME Inv, Selecting
    PROVE  Inv'
<1>1. workspace \in Workspaces /\ Live(workspace) \subseteq Crafts
  BY NavAssumption DEF Inv
<1>2. ASSUME NEW c, SelectSessionTabGroup(c) PROVE Inv'
  <2>1. c \in Crafts /\ NoView \in Views \cup {NoView}
    BY <1>1, <1>2 DEF SelectSessionTabGroup
  <2> QED BY <1>2, <2>1, SelectKeeps DEF SelectSessionTabGroup
<1>3. ASSUME NEW s, SelectSpace(s) PROVE Inv'
  BY <1>2, <1>3 DEF SelectSpace
<1>4. ASSUME NEW c \in Crafts, SetActiveTabGroup(c) PROVE Inv'
  <2>1. NoView \in Views \cup {NoView}
    OBVIOUS
  <2> QED BY <1>4, <2>1, SelectKeeps DEF SetActiveTabGroup
<1>5. ASSUME NEW c \in Crafts, NEW item \in Views, SelectItem(c, item) PROVE Inv'
  BY <1>5, SelectKeeps DEF SelectItem
<1>6. ASSUME NEW id \in Ids(nav.entries), SelectVoyageEntry(id) PROVE Inv'
  <2> DEFINE e == EntryWithId(nav.entries, id)
  <2>1. \E p : Call(Build(workspace, nav.entries, id), p)
    BY <1>6 DEF SelectVoyageEntry
  <2>2. round = 0
    BY <2>1 DEF Call
  <2> QED BY <2>1, <2>2, AtRestNow, RebuiltKeeps
<1> QED BY <1>2, <1>3, <1>4, <1>5, <1>6 DEF Selecting

\* What a tab starts with: a voyage, if its craft are there, or one craft, or
\* the default.
LEMMA StartKeeps ==
    ASSUME Inv, NEW next, Start(next), Sound(next), Matching(next)
    PROVE  Inv'
<1>1. \E p : Call(next, p)
  BY DEF Start
<1> QED BY <1>1, CallKeeps

\* A call that replaces the entries keeps it.
LEMMA ReplacingKeeps ==
    ASSUME Inv, Replacing
    PROVE  Inv'
<1>1. workspace \in Workspaces /\ Live(workspace) \subseteq Crafts
  BY NavAssumption DEF Inv
<1>2. ASSUME NEW s \in Voyages, NEW id, ResumeSession(s, id) PROVE Inv'
  <2> DEFINE n == Load(workspace, NoRoute, s)
             next == IF id \in Ids(n.entries) THEN Build(workspace, n.entries, id) ELSE n
  <2>1. AllThere(workspace, s) /\ Start(next)
    BY <1>2 DEF ResumeSession
  <2>2. Resolved(workspace, NoRoute, s)
    BY DEF Resolved
  <2>3. Sound(n) /\ Normal(workspace, n.entries) /\ Matching(n)
    BY <1>1, <2>1, <2>2, LoadThere
  <2> HIDE DEF n
  <2>4. n.entries \in Seq(Entries)
    BY <2>3 DEF Sound
  <2>5. \A i \in DOMAIN n.entries : n.entries[i].view \in Views
    BY <1>1, <2>3, <2>4, NormalShows
  <2>6. Sound(Build(workspace, n.entries, id)) /\ Matching(Build(workspace, n.entries, id))
    BY <1>1, <2>4, <2>5, BuiltOf, BuiltSound
  <2>7. Sound(next) /\ Matching(next)
    BY <2>3, <2>6
  <2> HIDE DEF next
  <2> QED BY <2>1, <2>7, StartKeeps
<1>3. ASSUME NEW c, StartNewSession(c) PROVE Inv'
  <2> DEFINE e == Entry(<<c, 0>>, c, "a")
             es == <<e>>
             n == Build(workspace, es, <<c, 0>>)
             next == IF c \in Live(workspace) THEN n ELSE DefaultNav(workspace)
  <2>1. Start(next)
    BY <1>3 DEF StartNewSession
  <2>2. ASSUME c \in Live(workspace) PROVE Sound(n) /\ Matching(n)
    <3>1. <<c, 0>> \in EntryIds /\ c \in Crafts /\ "a" \in Views \cup {NoView} /\ <<c, 0>>[1] = c
      BY <1>1, <2>2 DEF EntryIds, Views
    <3>2. e \in Entries /\ e.view = "a"
      <4> DEFINE id == <<c, 0>>
      <4>1. id \in EntryIds /\ id[1] = c
        BY <3>1
      <4> HIDE DEF id
      <4>2. Entry(id, c, "a") \in Entries /\ Entry(id, c, "a").view = "a"
        BY <3>1, <4>1, EntriesTyped
      <4> QED BY <4>2 DEF id
    <3> HIDE DEF e
    <3>3. es \in Seq(Entries) /\ \A i \in DOMAIN es : es[i].view \in Views
      BY <3>2 DEF Views
    <3> HIDE DEF es
    <3> QED BY <1>1, <3>3, BuiltOf, BuiltSound
  <2>3. Sound(next) /\ Matching(next)
    BY <1>1, <2>2, DefaultLoaded
  <2> HIDE DEF next
  <2> QED BY <2>1, <2>3, StartKeeps
<1> QED BY <1>2, <1>3 DEF Replacing


\* Entries that show something, as a sequence of such entries.
LEMMA ShowingSeq ==
    ASSUME NEW es \in Seq(Entries)
    PROVE  (\A i \in DOMAIN es : es[i].view \in Views) <=>
               es \in Seq({e \in Entries : e.view \in Views})
<1>1. DOMAIN es = 1..Len(es) /\ Len(es) \in Nat /\ \A i \in DOMAIN es : es[i] \in Entries
  OBVIOUS
<1>2. ASSUME \A i \in DOMAIN es : es[i].view \in Views
      PROVE  es \in Seq({e \in Entries : e.view \in Views})
  <2>1. es = [i \in 1..Len(es) |-> es[i]]
    OBVIOUS
  <2>2. es \in [1..Len(es) -> {e \in Entries : e.view \in Views}]
    BY <1>1, <1>2, <2>1
  <2> QED BY <1>1, <2>2
<1>3. ASSUME es \in Seq({e \in Entries : e.view \in Views})
      PROVE  \A i \in DOMAIN es : es[i].view \in Views
  <2> DEFINE S == {e \in Entries : e.view \in Views}
  <2>1. es \in Seq(S) /\ \A e \in S : e.view \in Views
    BY <1>3
  <2> HIDE DEF S
  <2> QED BY <2>1
<1> QED BY <1>2, <1>3

\* Counting places after a place.
LEMMA PlaceAfter ==
    ASSUME NEW n \in Int, NEW m \in Int, NEW k \in Int, m < k, k <= n
    PROVE  /\ k - m \in 1..(n - m) /\ k - m + m = k /\ k - m + m - 1 = k - 1
           /\ 1 <= m => k - 1 \in 1..(n - 1)
           /\ k - 1 + 1 = k /\ k # m /\ ~(k < m) /\ ~(k <= m)
OBVIOUS

\* An entry that is moved: the same entries, at other places.
LEMMA MovedThem ==
    ASSUME NEW S, NEW es \in Seq(S), NEW i \in DOMAIN es, NEW j \in DOMAIN es
    PROVE  LET ms == Moved(es, i, j) IN
           /\ ms \in Seq(S) /\ Len(ms) = Len(es)
           /\ \A k \in 1..Len(es) :
                ms[k] = IF k = j THEN es[i]
                        ELSE IF k < j THEN (IF k < i THEN es[k] ELSE es[k + 1])
                        ELSE (IF k - 1 < i THEN es[k - 1] ELSE es[k])
<1> DEFINE n == Len(es)
           before == SubSeq(es, 1, i - 1)
           after == SubSeq(es, i + 1, n)
           out == RemoveAt(es, i)
           left == SubSeq(out, 1, j - 1)
           right == SubSeq(out, j, Len(out))
           one == <<es[i]>>
           ms == Moved(es, i, j)
<1>1. n \in Nat /\ i \in 1..n /\ j \in 1..n /\ \A k \in 1..n : es[k] \in S
  OBVIOUS
<1>0. n \in Nat /\ i \in Nat /\ j \in Nat /\ 1 <= i /\ i <= n /\ 1 <= j /\ j <= n
  BY <1>1
<1>2. /\ before \in Seq(S) /\ Len(before) = i - 1
      /\ \A k \in 1..(i - 1) : before[k] = es[k]
  <2>1. 1 \in Int /\ i - 1 \in Int /\ \A k \in 1..(i - 1) : es[k] \in S
    BY <1>1
  <2>2. /\ before \in Seq(S) /\ Len(before) = (IF 1 <= i - 1 THEN i - 1 - 1 + 1 ELSE 0)
        /\ \A k \in 1..(i - 1 - 1 + 1) : before[k] = es[1 + k - 1]
    BY <2>1, SubSeqProperties
  <2> HIDE DEF before
  <2> QED BY <1>1, <2>2
<1>3. /\ after \in Seq(S) /\ Len(after) = n - i
      /\ \A k \in 1..(n - i) : after[k] = es[k + i]
  <2>1. i + 1 \in Int /\ n \in Int /\ \A k \in (i + 1)..n : es[k] \in S
    BY <1>1
  <2>2. /\ after \in Seq(S) /\ Len(after) = (IF i + 1 <= n THEN n - (i + 1) + 1 ELSE 0)
        /\ \A k \in 1..(n - (i + 1) + 1) : after[k] = es[i + 1 + k - 1]
    BY <2>1, SubSeqProperties
  <2> HIDE DEF after, n
  <2>3. \A k \in 1..(n - i) : i + 1 + k - 1 = k + i
    BY <1>1
  <2> QED BY <1>1, <2>2, <2>3
<1> HIDE DEF before, after
<1>4. /\ out \in Seq(S) /\ Len(out) = n - 1
      /\ \A k \in 1..(n - 1) : out[k] = IF k < i THEN es[k] ELSE es[k + 1]
  <2>1. out = before \o after
    BY DEF RemoveAt, before, after
  <2>2. /\ before \o after \in Seq(S) /\ Len(before \o after) = Len(before) + Len(after)
        /\ \A k \in 1..(Len(before) + Len(after)) :
             (before \o after)[k] = IF k <= Len(before) THEN before[k] ELSE after[k - Len(before)]
    BY <1>2, <1>3, ConcatProperties
  <2> HIDE DEF out, n
  <2>3. Len(before) + Len(after) = n - 1
    BY <1>1, <1>2, <1>3
  <2>4. ASSUME NEW k \in 1..(n - 1) PROVE out[k] = IF k < i THEN es[k] ELSE es[k + 1]
    <3>1. out[k] = IF k <= i - 1 THEN before[k] ELSE after[k - (i - 1)]
      BY <1>2, <2>1, <2>2, <2>3
    <3>2. CASE k < i
      <4>1. k \in 1..(i - 1) /\ k <= i - 1
        BY <1>0, <2>4, <3>2
      <4>2. before[k] = es[k]
        BY <1>2, <4>1
      <4> QED BY <3>1, <3>2, <4>1, <4>2
    <3>3. CASE ~(k < i)
      <4>1. k - (i - 1) \in 1..(n - i) /\ k - (i - 1) + i = k + 1 /\ ~(k <= i - 1)
        <5>1. k + 1 \in Int /\ n \in Int /\ i \in Int /\ i < k + 1 /\ k + 1 <= n /\ k \in Int
          BY <1>0, <2>4, <3>3
        <5>2. k + 1 - i \in 1..(n - i) /\ k + 1 - i + i = k + 1
          BY <5>1, PlaceAfter
        <5>3. k - (i - 1) = k + 1 - i /\ ~(k <= i - 1)
          BY <5>1
        <5> QED BY <5>2, <5>3
      <4>2. after[k - (i - 1)] = es[k - (i - 1) + i]
        BY <1>3, <4>1
      <4> QED BY <3>1, <3>3, <4>1, <4>2
    <3> QED BY <3>2, <3>3
  <2> QED BY <2>1, <2>2, <2>3, <2>4
<1> HIDE DEF out
<1>5. /\ left \in Seq(S) /\ Len(left) = j - 1
      /\ \A k \in 1..(j - 1) : left[k] = out[k]
  <2>1. 1 \in Int /\ j - 1 \in Int /\ \A k \in 1..(j - 1) : out[k] \in S
    BY <1>1, <1>4
  <2>2. /\ left \in Seq(S) /\ Len(left) = (IF 1 <= j - 1 THEN j - 1 - 1 + 1 ELSE 0)
        /\ \A k \in 1..(j - 1 - 1 + 1) : left[k] = out[1 + k - 1]
    BY <2>1, SubSeqProperties
  <2> HIDE DEF left
  <2> QED BY <1>1, <2>2
<1>6. /\ right \in Seq(S) /\ Len(right) = n - j
      /\ \A k \in 1..(n - j) : right[k] = out[k + j - 1]
  <2>1. j \in Int /\ Len(out) \in Int /\ \A k \in j..Len(out) : out[k] \in S
    BY <1>1, <1>4
  <2>2. /\ right \in Seq(S) /\ Len(right) = (IF j <= Len(out) THEN Len(out) - j + 1 ELSE 0)
        /\ \A k \in 1..(Len(out) - j + 1) : right[k] = out[j + k - 1]
    BY <2>1, SubSeqProperties
  <2> HIDE DEF right, n
  <2>3. Len(out) - j + 1 = n - j /\ \A k \in 1..(n - j) : j + k - 1 = k + j - 1
    BY <1>1, <1>4
  <2>4. Len(right) = n - j
    <3>1. n \in Int /\ j \in Int /\ j <= n /\ Len(out) = n - 1
      BY <1>1, <1>4
    <3> QED BY <2>2, <3>1
  <2>5. \A k \in 1..(n - j) : right[k] = out[k + j - 1]
    <3>1. \A k \in 1..(n - j) : right[k] = out[j + k - 1]
      BY <2>2, <2>3
    <3> QED BY <2>3, <3>1
  <2> QED BY <2>2, <2>4, <2>5
<1>7. one \in Seq(S) /\ Len(one) = 1 /\ one[1] = es[i]
  BY <1>1
<1> HIDE DEF left, right, one
<1>8. ms = (left \o one) \o right
  BY <1>4 DEF Moved, InsertAt, left, right, one, out
<1>9. /\ left \o one \in Seq(S) /\ Len(left \o one) = j
      /\ \A k \in 1..j : (left \o one)[k] = IF k = j THEN es[i] ELSE out[k]
  <2>1. /\ left \o one \in Seq(S) /\ Len(left \o one) = Len(left) + Len(one)
        /\ \A k \in 1..(Len(left) + Len(one)) :
             (left \o one)[k] = IF k <= Len(left) THEN left[k] ELSE one[k - Len(left)]
    BY <1>5, <1>7, ConcatProperties
  <2>2. Len(left) + Len(one) = j
    BY <1>1, <1>5, <1>7
  <2>3. ASSUME NEW k \in 1..j PROVE (left \o one)[k] = IF k = j THEN es[i] ELSE out[k]
    <3>1. (left \o one)[k] = IF k <= j - 1 THEN left[k] ELSE one[k - (j - 1)]
      BY <1>5, <2>1, <2>2
    <3>2. k = j => k - (j - 1) = 1 /\ ~(k <= j - 1)
      BY <1>1
    <3>3. k # j => k \in 1..(j - 1) /\ k <= j - 1
      BY <1>1
    <3> QED BY <1>5, <1>7, <3>1, <3>2, <3>3
  <2> QED BY <2>1, <2>2, <2>3
<1>10. /\ ms \in Seq(S) /\ Len(ms) = n
       /\ \A k \in 1..n : ms[k] = IF k <= j THEN (left \o one)[k] ELSE right[k - j]
  <2> DEFINE lo == left \o one
  <2>1. lo \in Seq(S) /\ Len(lo) = j
    BY <1>9
  <2> HIDE DEF lo
  <2>2. /\ lo \o right \in Seq(S) /\ Len(lo \o right) = Len(lo) + Len(right)
        /\ \A k \in 1..(Len(lo) + Len(right)) :
             (lo \o right)[k] = IF k <= Len(lo) THEN lo[k] ELSE right[k - Len(lo)]
    BY <1>6, <2>1, ConcatProperties
  <2> HIDE DEF ms, n
  <2>3. Len(lo) + Len(right) = n
    BY <1>0, <1>6, <2>1
  <2>4. ms = lo \o right
    BY <1>8 DEF lo
  <2> QED BY <2>1, <2>2, <2>3, <2>4 DEF lo
<1> HIDE DEF ms, n
<1>11. ASSUME NEW k \in 1..n
       PROVE  ms[k] = IF k = j THEN es[i]
                      ELSE IF k < j THEN (IF k < i THEN es[k] ELSE es[k + 1])
                      ELSE (IF k - 1 < i THEN es[k - 1] ELSE es[k])
  <2>1. CASE k <= j
    <3>1. k \in 1..j /\ (k # j => k < j /\ k \in 1..(n - 1))
      BY <1>1, <1>11, <2>1
    <3> QED BY <1>4, <1>9, <1>10, <2>1, <3>1
  <2>2. CASE ~(k <= j)
    <3>1. k - j \in 1..(n - j) /\ k - j + j - 1 = k - 1 /\ k - 1 \in 1..(n - 1) /\ k # j /\ ~(k < j)
      <4>1. k \in Int /\ n \in Int /\ j \in Int /\ j < k /\ k <= n /\ 1 <= j
        BY <1>0, <1>11, <2>2
      <4> QED BY <4>1, PlaceAfter
    <3>2. ms[k] = right[k - j]
      BY <1>10, <2>2
    <3>3. right[k - j] = out[k - 1]
      BY <1>6, <3>1
    <3>4. out[k - 1] = IF k - 1 < i THEN es[k - 1] ELSE es[k]
      BY <1>4, <3>1
    <3> QED BY <3>1, <3>2, <3>3, <3>4
  <2> QED BY <2>1, <2>2
<1> QED BY <1>10, <1>11 DEF ms, n

\* Removing entries keeps it: the neighbour becomes active, and is there.
LEMMA DropKeeps ==
    ASSUME Inv, NEW gone \in SUBSET DOMAIN nav.entries, NEW isActive, Drop(gone, isActive)
    PROVE  Inv'
<1> DEFINE es == nav.entries
           kept == AllAt(es, DOMAIN es \ gone)
<1>1. \E a, p : Call(Build(workspace, kept, a), p)
  BY Zenon DEF Drop, DropActive
<1>2. round = 0
  BY <1>1 DEF Call
<1>3. es \in Seq(Entries) /\ \A i \in DOMAIN es : es[i].view \in Views
  BY <1>2, AtRestNow
<1>4. /\ kept \in Seq(Entries)
      /\ \A k \in DOMAIN kept : \E i \in DOMAIN es \ gone : kept[k] = es[i]
  BY <1>3, AllAtThem
<1> HIDE DEF kept
<1> QED BY <1>1, <1>3, <1>4, RebuiltKeeps

\* A call that edits the entries keeps it.
LEMMA EditingKeeps ==
    ASSUME Inv, Editing
    PROVE  Inv'
<1>1. ASSUME NEW c \in Crafts, NEW again \in BOOLEAN, NEW select \in BOOLEAN,
             AddTabGroupToSession(c, again, select)
      PROVE  Inv'
  <2> DEFINE r == Ensured(workspace, nav, c, NoView, again)
  <2>1. c \in Live(workspace) /\ \E a, p : Call(Build(workspace, r.entries, a), p)
    BY <1>1 DEF AddTabGroupToSession
  <2>2. round = 0 /\ NoView \in Views \cup {NoView}
    BY <2>1 DEF Call
  <2>3. /\ workspace \in Workspaces /\ nav.entries \in Seq(Entries)
        /\ Normal(workspace, nav.entries)
    BY <2>2, AtRestNow
  <2>4. r.entries \in Seq(Entries)
    BY <2>2, <2>3, EnsuredThere
  <2>5. \A i \in DOMAIN r.entries : r.entries[i].view \in Views
    BY <2>1, <2>2, <2>3, EnsuredShows
  <2> HIDE DEF r
  <2> QED BY <2>1, <2>4, <2>5, RebuiltKeeps
<1>2. ASSUME NEW id, RemoveVoyageEntryFromSession(id) PROVE Inv'
  <2> DEFINE gone == {i \in DOMAIN nav.entries : nav.entries[i].id = id}
  <2>1. gone \in SUBSET DOMAIN nav.entries /\ Drop(gone, id = nav.active)
    BY <1>2 DEF RemoveVoyageEntryFromSession
  <2> HIDE DEF gone
  <2> QED BY <2>1, DropKeeps
<1>3. ASSUME NEW c, RemoveTabGroupFromSession(c) PROVE Inv'
  <2> DEFINE gone == {i \in DOMAIN nav.entries : nav.entries[i].craft = c}
  <2>1. gone \in SUBSET DOMAIN nav.entries /\ Drop(gone, c = nav.craft)
    BY <1>3 DEF RemoveTabGroupFromSession
  <2> HIDE DEF gone
  <2> QED BY <2>1, DropKeeps
<1>4. ASSUME NEW i \in DOMAIN nav.entries, NEW j \in DOMAIN nav.entries,
             ReorderVoyageEntries(i, j)
      PROVE  Inv'
  <2> DEFINE S == {e \in Entries : e.view \in Views}
             es == Moved(nav.entries, i, j)
  <2>1. Call(Build(workspace, es, nav.active), pending)
    BY <1>4 DEF ReorderVoyageEntries
  <2>2. round = 0
    BY <2>1 DEF Call
  <2>3. nav.entries \in Seq(S)
    BY <2>2, AtRestNow, ShowingSeq
  <2>4. \A e \in S : e \in Entries /\ e.view \in Views
    OBVIOUS
  <2> HIDE DEF S
  <2>5. es \in Seq(S)
    BY <2>3, MovedThem
  <2> HIDE DEF es
  <2>6. es \in Seq(Entries) /\ \A k \in DOMAIN es : es[k].view \in Views
    BY <2>4, <2>5
  <2> QED BY <2>1, <2>6, RebuiltKeeps
<1> QED BY <1>1, <1>2, <1>3, <1>4 DEF Editing

-----------------------------------------------------------------------------
(* The invariant, and what it says.                                        *)

\* What is loaded first is sound, and its first round is still to come.
LEMMA InitHolds ==
    ASSUME Init
    PROVE  Inv
<1>1. /\ workspace \in Workspaces /\ saved \in Voyages \cup {NoVoyage} /\ url = NoRoute
      /\ nav = Load(workspace, NoRoute, saved) /\ pending = NoSelection
      /\ last = [saved |-> saved, route |-> NoRoute] /\ round = 1 /\ called = FALSE
  BY DEF Init
<1>2. Resolved(workspace, NoRoute, saved)
  BY DEF Resolved
<1>3. /\ Sound(nav)
      /\ saved = NoVoyage \/ AllThere(workspace, saved) => Matching(nav)
      /\ saved # NoVoyage /\ AllThere(workspace, saved) =>
           SameEntries(nav.entries, saved.entries) /\ AtRoute(workspace, nav, NoRoute)
  BY <1>1, <1>2, LoadThere
<1>4. last.saved = saved /\ last.route = NoRoute
  BY <1>1
<1>5. Matched
  BY <1>3, <1>4 DEF Matched
<1>6. Following
  BY <1>1, <1>3, <1>4 DEF Following, InStepWith
<1>7. Resting
  BY <1>1 DEF Resting
<1> QED BY <1>1, <1>3, <1>4, <1>5, <1>6, <1>7 DEF Inv, RouteOfVoyage

\* Every step keeps the invariant.
LEMMA NextKeeps ==
    ASSUME Inv, [Next]_vars
    PROVE  Inv'
<1>1. ASSUME FromServer PROVE Inv'
  BY <1>1, SavedKeeps, UrlKeeps, WorkspaceKeeps DEF FromServer
<1>2. ASSUME UNCHANGED vars PROVE Inv'
  <2>1. UNCHANGED <<workspace, saved, url, nav, pending, last, round, called>>
    BY <1>2 DEF vars
  <2>2. Matched' /\ Following' /\ Resting'
    BY <2>1 DEF Inv, Matched, Following, Resting, CurrentRoute
  <2> QED BY <2>1, <2>2 DEF Inv
<1> QED BY <1>1, <1>2, FlushKeeps, SelectingKeeps, ReplacingKeeps, EditingKeeps DEF Next

\* The invariant holds of every state that a tab can reach.
THEOREM Invariant ==
    Spec => []Inv
<1>1. Init => Inv
  BY InitHolds
<1>2. Inv /\ [Next]_vars => Inv'
  BY NextKeeps
<1> QED BY <1>1, <1>2, PTL DEF Spec

\* At rest, what is shown is the active entry, and (as long as the hook's own
\* functions have not been called) what is navigated is the saved voyage.
THEOREM ShowsTheVoyage ==
    Spec => []ShowsVoyage
<1>1. ASSUME Inv PROVE ShowsActiveEntry
  <2> DEFINE e == EntryWithId(nav.entries, nav.active)
  <2>1. SUFFICES ASSUME round = 0, InStep \/ saved = NoVoyage
                 PROVE  /\ e.id # NoEntry /\ nav.craft = e.craft
                        /\ nav.craft \in Live(workspace) /\ nav.space = SpaceOf[nav.craft]
    BY DEF ShowsActiveEntry, Settled
  <2>2. /\ last.saved = saved /\ AtRest(workspace, nav)
        /\ saved = NoVoyage \/ AllThere(workspace, saved)
    BY <1>1, <2>1 DEF Inv, Resting, InStep
  <2>3. Matching(nav)
    BY <1>1, <2>2 DEF Inv, Matched
  <2>4. /\ nav.entries \in Seq(Entries) /\ Normal(workspace, nav.entries)
        /\ nav.active \in Ids(nav.entries)
    BY <1>1, <2>1, AtRestNow
  <2>5. PICK i \in DOMAIN nav.entries : e = nav.entries[i]
    BY <2>4, EntryWithIdThere
  <2>6. e \in Entries /\ e.craft \in Live(workspace)
    BY <2>4, <2>5 DEF Normal
  <2>7. ShownOf(nav.entries, nav.active) = e
    BY <2>4 DEF ShownOf
  <2>8. nav.craft = e.craft /\ (nav.space = NoSpace \/ nav.space = SpaceOf[e.craft])
    BY <2>3, <2>7 DEF Matching
  <2>9. nav.space # NoSpace
    <3>1. \A c \in Live(workspace) : c \in Crafts /\ SpaceOf[c] # NoSpace
      BY <1>1, NavAssumption DEF Inv
    <3> QED BY <2>2, <3>1 DEF AtRest, SpacesOf
  <2>10. e.id # NoEntry
    BY <2>6, EntriesTyped
  <2> QED BY <2>6, <2>8, <2>9, <2>10
<1>2. ASSUME Inv PROVE FollowsVoyage
  <2>1. SUFFICES ASSUME round = 0, ~called, InStep
                 PROVE  [i \in DOMAIN nav.entries |-> nav.entries[i].id] =
                        [i \in DOMAIN saved.entries |-> saved.entries[i].id]
    BY DEF FollowsVoyage, Settled
  <2>2. SameEntries(nav.entries, saved.entries)
    BY <1>2, <2>1 DEF Inv, Resting, Following, InStep, InStepWith
  <2>3. saved \in Voyages /\ nav.entries \in Seq(Entries)
    BY <1>2, <2>1 DEF Inv, InStep, Sound
  <2>4. saved.entries \in Seq(Entries)
    BY <2>3, VoyagesTyped
  <2>5. DOMAIN nav.entries = DOMAIN saved.entries
    BY <2>2, <2>3, <2>4 DEF SameEntries
  <2> QED BY <2>2, <2>5 DEF SameEntries
<1>3. Inv => ShowsVoyage
  BY <1>1, <1>2 DEF ShowsVoyage
<1> QED BY <1>3, Invariant, PTL

\* At rest, the URL decides which entry of a saved voyage is active, and what
\* it shows, as long as the hook's own functions have not been called.
THEOREM FollowsTheUrl ==
    Spec => []FollowsUrl
<1>1. ASSUME Inv PROVE FollowsUrl
  <2>1. SUFFICES ASSUME round = 0, ~called, InStep, CurrentRoute # NoRoute
                 PROVE  /\ nav.active = CurrentRoute.entry
                        /\ EntryWithId(nav.entries, nav.active).view =
                              NormalView(workspace, CurrentRoute.craft, CurrentRoute.view)
    BY DEF FollowsUrl, Settled
  <2> DEFINE rt == CurrentRoute
             e == EntryWithId(nav.entries, nav.active)
  <2>2. /\ SameEntries(nav.entries, saved.entries) /\ AtRoute(workspace, nav, rt)
        /\ last.route = rt /\ saved \in Voyages
    BY <1>1, <2>1 DEF Inv, Resting, Following, InStep, InStepWith
  <2>3. nav.active = rt.entry /\ NormalView(workspace, rt.craft, e.view) = NormalView(workspace, rt.craft, rt.view)
    BY <2>1, <2>2 DEF AtRoute, SameView
  <2>4. /\ workspace \in Workspaces /\ url \in Urls \cup {NoRoute}
        /\ nav.entries \in Seq(Entries) /\ saved.entries \in Seq(Entries)
    BY <1>1, <2>2, VoyagesTyped DEF Inv, Sound
  <2>5. Resolved(workspace, rt, saved)
    BY <2>2, <2>4, RouteResolved DEF CurrentRoute
  <2>6. rt.entry \in Ids(saved.entries) /\ rt.craft = EntryWithId(saved.entries, rt.entry).craft
    BY <2>1, <2>5 DEF Resolved
  <2>7. PICK i \in DOMAIN nav.entries : e = nav.entries[i] /\ e.craft = rt.craft
    BY <2>2, <2>3, <2>4, <2>6, SameThere
  <2>8. e.view = NormalView(workspace, e.craft, e.view)
    BY <1>1, <2>1, <2>7, AtRestNow DEF Normal
  <2> QED BY <2>3, <2>7, <2>8
<1> QED BY <1>1, Invariant, PTL


-----------------------------------------------------------------------------
(* Types, and the rounds of effects.                                       *)

\* What shows a space that is there shows one of its craft.
HomeCraft(w, n) == n.space \in SpacesOf(w) => n.craft \in Live(w)

\* The rounds that are due after an event: by the third there is nothing left
\* to change.
Rounds ==
    /\ round \in 0..3
    /\ round \in {2, 3} =>
         last.saved = saved /\ last.route = CurrentRoute /\ HomeCraft(workspace, nav)
    /\ round = 3 => Final(workspace, nav)

\* Entries of craft that are there show something.
Shows(w, es) == \A i \in DOMAIN es : es[i].craft \in Live(w) => es[i].view \in Views

\* Its ids are entry ids.
Named(n) ==
    /\ n.active \in EntryIds \cup {NoEntry}
    /\ DOMAIN n.byEntry \subseteq EntryIds

\* A selection is of a craft, if any.
Selected(p) == p = NoSelection \/ p.craft \in Crafts \cup {NoCraft}

\* What TypeOK says beside Inv and Rounds, of which the unique ids keep the
\* others inductive.
Typed ==
    /\ Unique(nav.entries)
    /\ Shows(workspace, nav.entries)
    /\ Named(nav)
    /\ Selected(pending)

\* What is built names entries that can be.
LEMMA BuiltNamed ==
    ASSUME NEW w, NEW es \in Seq(Entries), NEW a \in EntryIds \cup {NoEntry}
    PROVE  Named(Build(w, es, a))
<1>1. Ids(es) \subseteq EntryIds
  BY EntriesTyped DEF Ids
<1>2. Build(w, es, a).active = a
  BY DEF Build, BuildShown
<1>3. DOMAIN Build(w, es, a).byEntry = Ids(es)
  BY BuiltBeside
<1> QED BY <1>1, <1>2, <1>3 DEF Named

\* What the fourth effect leads to has its types, whatever it is given ...
LEMMA NormalizedTyped ==
    ASSUME NEW w \in Workspaces, NEW n,
           n.entries \in Seq(Entries), n.craft \in Crafts \cup {NoCraft},
           Unique(n.entries), DOMAIN n.byEntry \subseteq EntryIds
    PROVE  LET r == Normalized(w, n) IN
           /\ Unique(r.entries) /\ Shows(w, r.entries) /\ Named(r)
           /\ r.entries \in Seq(Entries)
           /\ r = n \/ HomeCraft(w, r)
<1> DEFINE es == ValidEntries(w, n.entries, n.craft, ItemIn(n, n.craft))
           a  == ActiveOf(es, n.active, n.craft)
           r  == Normalized(w, n)
<1>1. /\ es \in Seq(Entries) /\ r.entries = es /\ r.active = a
      /\ r = n \/ r = Build(w, es, a)
  BY NormalizedIs
<1>2. Unique(es)
  BY UniqueValid
<1>3. Shows(w, es)
  <2>1. CASE Live(w) \cap CraftsOf(n.entries) # {} \/ n.craft \in Live(w)
    <3>1. Normal(w, es)
      BY <2>1, ValidThem
    <3> QED BY <1>1, <3>1, NormalShows DEF Shows
  <2>2. CASE ~(Live(w) \cap CraftsOf(n.entries) # {} \/ n.craft \in Live(w))
    <3>1. es = <<>> \/ (Len(es) = 1 /\ es[1].craft = n.craft)
      BY <2>2, ValidThem
    <3> HIDE DEF es
    <3>2. DOMAIN es = 1..Len(es)
      BY <1>1
    <3>3. \A i \in DOMAIN es : es[i].craft = n.craft
      BY <3>1, <3>2
    <3> QED BY <2>2, <3>3 DEF Shows
  <2> QED BY <2>1, <2>2
<1> HIDE DEF es
<1>4. a \in EntryIds \cup {NoEntry}
  <2>1. Ids(es) \subseteq EntryIds
    BY <1>1, EntriesTyped DEF Ids
  <2>2. a \in Ids(es) \/ a = NoEntry
    BY <1>1, ActiveOfThem
  <2> QED BY <2>1, <2>2
<1> HIDE DEF a
<1>5. r = n \/ HomeCraft(w, r)
  <2>1. HomeCraft(w, Build(w, es, a))
    BY <1>1, BuiltHome DEF HomeCraft
  <2> QED BY <1>1, <2>1
<1>6. Named(r)
  <2>1. Named(Build(w, es, a))
    BY <1>1, <1>4, BuiltNamed
  <2> QED BY <1>1, <1>4, <2>1 DEF Named
<1> HIDE DEF r
<1> QED BY <1>1, <1>2, <1>3, <1>5, <1>6 DEF r

\* ... leaves a state of live entries that is complete ...
LEMMA NormalizedFinal ==
    ASSUME NEW w \in Workspaces, NEW n,
           n.entries \in Seq(Entries), n.craft \in Live(w)
    PROVE  LET r == Normalized(w, n)
               b == Build(w, r.entries, r.active)
           IN  /\ Final(w, b)
               /\ n.space \in SpacesOf(w) /\ Live(w) \subseteq DOMAIN n.items => Final(w, r)
<1> DEFINE es == ValidEntries(w, n.entries, n.craft, ItemIn(n, n.craft))
           a  == ActiveOf(es, n.active, n.craft)
           r  == Normalized(w, n)
<1>1. n.craft \in Crafts
  BY NavAssumption
<1>2. /\ es \in Seq(Entries) /\ r.entries = es /\ r.active = a
      /\ r = n \/ r = Build(w, es, a)
  BY <1>1, NormalizedIs
<1>3. Normal(w, es) /\ es # <<>>
  BY <1>1, ValidThem
<1> HIDE DEF es
<1>4. a \in Ids(es)
  BY <1>1, <1>2, <1>3, ActiveOfThem
<1>5. Final(w, Build(w, es, a))
  BY <1>2, <1>3, <1>4, BuiltFinal
<1> HIDE DEF a, r
<1> QED BY <1>2, <1>3, <1>4, <1>5 DEF Final, AtRest, r

\* ... and a final state as it is.
LEMMA FinalStays ==
    ASSUME NEW w \in Workspaces, NEW n,
           n.entries \in Seq(Entries), n.craft \in Crafts \cup {NoCraft}, Final(w, n)
    PROVE  Normalized(w, n) = n
<1> DEFINE es == ValidEntries(w, n.entries, n.craft, ItemIn(n, n.craft))
           a  == ActiveOf(es, n.active, n.craft)
<1>1. Normalized(w, n) = IF es = n.entries /\ a = n.active THEN n ELSE Build(w, es, a)
  BY DEF Normalized, NormalizedBy, NormalizedTo
<1>2. n.active \in Ids(n.entries) /\ Normal(w, n.entries)
  BY DEF Final, AtRest
<1>3. n.entries # <<>> /\ CraftsOf(n.entries) \subseteq Live(w)
  BY <1>2 DEF Ids, CraftsOf, Normal
<1>4. /\ es \in Seq(Entries) /\ SameEntries(es, n.entries)
      /\ \A i \in DOMAIN n.entries :
           es[i].view = NormalView(w, n.entries[i].craft, n.entries[i].view)
  BY <1>3, ValidSame, NormalizedIs
<1> HIDE DEF es
<1>5. es = n.entries
  <2>1. DOMAIN es = DOMAIN n.entries
    BY <1>4 DEF SameEntries
  <2>2. ASSUME NEW i \in DOMAIN n.entries PROVE es[i] = n.entries[i]
    <3>1. es[i] \in Entries /\ n.entries[i] \in Entries
      BY <1>4, <2>1
    <3>2. es[i].id = n.entries[i].id /\ es[i].craft = n.entries[i].craft /\ es[i].view = n.entries[i].view
      BY <1>2, <1>4, <2>1 DEF SameEntries, Normal
    <3> QED BY <3>1, <3>2 DEF Entries
  <2> QED BY <1>4, <2>1, <2>2
<1>6. a = n.active
  BY <1>2, <1>5, ActiveOfThem
<1> QED BY <1>1, <1>5, <1>6


\* What the first effects lead to: the state it was (if there was nothing new),
\* or one that is loaded, or one that is built.
LEMMA FirstTyped ==
    ASSUME Inv, Typed, NEW rt, rt = CurrentRoute, NEW p, pending = NoSelection => p = NoSelection
    PROVE  LET w  == workspace
               n0 == IF saved # last.saved THEN Load(w, rt, saved) ELSE nav
               n1 == SyncedIfNew(n0, p, rt)
           IN  /\ n1.entries \in Seq(Entries) /\ n1.craft \in Crafts \cup {NoCraft}
               /\ Unique(n1.entries) /\ DOMAIN n1.byEntry \subseteq EntryIds
               /\ (n1 = nav /\ saved = last.saved) \/ HomeCraft(w, n1)
<1> DEFINE w == workspace
           n0 == IF saved # last.saved THEN Load(w, rt, saved) ELSE nav
           n1 == SyncedIfNew(n0, p, rt)
<1>1. /\ w \in Workspaces /\ saved \in Voyages \cup {NoVoyage} /\ url \in Urls \cup {NoRoute}
      /\ Sound(nav)
  BY DEF Inv
<1>2. Resolved(w, rt, saved)
  BY <1>1, RouteResolved DEF CurrentRoute
<1>3. /\ Sound(n0) /\ Unique(n0.entries) /\ DOMAIN n0.byEntry \subseteq EntryIds
      /\ (n0 = nav /\ saved = last.saved) \/ HomeCraft(w, n0)
  <2>1. CASE saved # last.saved
    <3>1. n0 = Load(w, rt, saved)
      BY <2>1
    <3> HIDE DEF n0
    <3> QED BY <1>1, <1>2, <3>1, LoadThere DEF Final, HomeCraft
  <2>2. CASE saved = last.saved
    <3>1. n0 = nav
      BY <2>2
    <3> QED BY <1>1, <2>2, <3>1 DEF Typed, Named
  <2> QED BY <2>1, <2>2
<1> HIDE DEF n0
<1>4. n0.entries \in Seq(Entries) /\ n0.craft \in Crafts \cup {NoCraft}
  BY <1>3 DEF Sound
<1>5. n1 = n0 \/ n1 = Synced(w, n0, p, rt)
  BY DEF SyncedIfNew
<1> HIDE DEF n1
<1>6. \/ n1 = n0
      \/ \E es \in Seq(Entries) : n1 = Build(w, es, rt.entry) /\ (Unique(n0.entries) => Unique(es))
  BY <1>1, <1>2, <1>4, <1>5, SyncedTo
<1>7. ASSUME NEW es \in Seq(Entries), n1 = Build(w, es, rt.entry), Unique(es)
      PROVE  /\ n1.entries \in Seq(Entries) /\ n1.craft \in Crafts \cup {NoCraft}
             /\ Unique(n1.entries) /\ DOMAIN n1.byEntry \subseteq EntryIds /\ HomeCraft(w, n1)
  <2>1. n1.entries = es /\ n1.craft \in Crafts \cup {NoCraft} /\ HomeCraft(w, n1)
    BY <1>1, <1>7, BuiltOf, BuiltHome DEF HomeCraft
  <2>2. DOMAIN n1.byEntry = Ids(es)
    BY <1>7, BuiltBeside
  <2>3. Ids(es) \subseteq EntryIds
    BY EntriesTyped DEF Ids
  <2> QED BY <1>7, <2>1, <2>2, <2>3
<1> QED BY <1>3, <1>4, <1>6, <1>7 DEF n0, n1

\* A round of effects leaves the types, and at most three follow an event.
LEMMA FlushTyped ==
    ASSUME Inv, Typed, Rounds, Flush
    PROVE  Typed' /\ Rounds'
<1> DEFINE w == workspace
           rt == CurrentRoute
           p == StillPending(w, nav, pending, rt)
           n0 == IF saved # last.saved THEN Load(w, rt, saved) ELSE nav
           n1 == SyncedIfNew(n0, p, rt)
           n == Effects(p, rt)
           b == Build(w, n.entries, n.active)
           l == Load(w, rt, saved)
<1>1. /\ w \in Workspaces /\ saved \in Voyages \cup {NoVoyage} /\ url \in Urls \cup {NoRoute}
      /\ Sound(nav) /\ round \in 1..3
  BY DEF Inv, Rounds, Flush
<1>2. FlushTo(n, p, rt) /\ UNCHANGED <<workspace, saved, url, called>>
  BY DEF Flush, FlushOn
<1>3. pending = NoSelection => p = NoSelection
  BY StillNothing
<1>4. Resolved(w, rt, saved)
  BY <1>1, RouteResolved DEF CurrentRoute
<1>5. CurrentRoute' = rt
  BY <1>2 DEF CurrentRoute
<1>6. Selected(p)
  BY DEF StillPending, Selected, Typed
<1>7. n = Normalized(w, n1)
  BY DEF Effects
<1> HIDE DEF p, rt
<1>8. /\ n1.entries \in Seq(Entries) /\ n1.craft \in Crafts \cup {NoCraft}
      /\ Unique(n1.entries) /\ DOMAIN n1.byEntry \subseteq EntryIds
      /\ (n1 = nav /\ saved = last.saved) \/ HomeCraft(w, n1)
  BY <1>3, FirstTyped DEF rt
<1>9. saved = last.saved /\ rt = last.route => n1 = nav
  BY DEF SyncedIfNew
<1> HIDE DEF n1
<1>10. /\ Unique(n.entries) /\ Shows(w, n.entries) /\ Named(n)
       /\ n.entries \in Seq(Entries)
       /\ (n = nav /\ saved = last.saved) \/ HomeCraft(w, n)
  BY <1>1, <1>7, <1>8, NormalizedTyped
<1>11. /\ Final(w, l) /\ Unique(l.entries) /\ DOMAIN l.byEntry \subseteq EntryIds
       /\ l.entries \in Seq(Entries) /\ Normal(w, l.entries)
  BY <1>1, <1>4, LoadThere DEF Sound
<1>12. /\ nav' = IF MustReload(w, nav, p) THEN l ELSE IF HasNewCraft(w, nav) THEN b ELSE n
       /\ pending' = p
       /\ last' = [saved |-> saved, route |-> rt]
       /\ round' = IF \/ MustReload(w, nav, p) \/ HasNewCraft(w, nav)
                      \/ saved # last.saved \/ nav' # nav
                   THEN round + 1 ELSE 0
  BY <1>2 DEF FlushTo
<1>13. last'.saved = saved /\ last'.route = rt
  BY <1>12
<1> HIDE DEF n, l
<1>14. Unique(b.entries) /\ Shows(w, b.entries) /\ Named(b) /\ HomeCraft(w, b)
  <2>1. b.entries = n.entries
    BY <1>1, <1>10, BuiltOf
  <2>2. Named(b)
    BY <1>10, BuiltNamed DEF Named
  <2>3. HomeCraft(w, b)
    BY <1>1, <1>10, BuiltHome DEF HomeCraft
  <2> QED BY <1>10, <2>1, <2>2, <2>3
<1>15. Shows(w, l.entries) /\ Named(l) /\ HomeCraft(w, l)
  <2>1. Shows(w, l.entries)
    BY <1>1, <1>11, NormalShows DEF Shows
  <2>2. l.active \in EntryIds
    BY <1>11, EntriesTyped DEF Final, AtRest, Ids
  <2> QED BY <1>11, <2>1, <2>2 DEF Named, Final, HomeCraft
<1>16. Typed'
  BY <1>2, <1>6, <1>10, <1>11, <1>12, <1>14, <1>15 DEF Typed
<1> SUFFICES Rounds'
  BY <1>16
<1>17. CASE round = 1
  <2>1. round' \in {0, 2}
    BY <1>12, <1>17
  <2>2. ASSUME round' = 2 PROVE HomeCraft(w, nav')
    BY <1>10, <1>12, <1>14, <1>15, <2>2
  <2> QED BY <1>2, <1>5, <1>13, <2>1, <2>2 DEF Rounds
<1>18. CASE round = 2
  <2>1. n1 = nav /\ HomeCraft(w, nav)
    BY <1>9, <1>18 DEF Rounds, rt
  <2>2. round' \in {0, 3}
    BY <1>12, <1>18
  <2>3. CASE MustReload(w, nav, p)
    BY <1>11, <1>12, <1>2, <1>5, <1>13, <1>15, <2>2, <2>3 DEF Rounds
  <2>4. CASE ~MustReload(w, nav, p)
    <3>1. nav.space \in SpacesOf(w) /\ nav.craft \in Live(w)
      BY <2>1, <2>4 DEF MustReload, HomeCraft
    <3>2. /\ Final(w, b)
          /\ Live(w) \subseteq DOMAIN nav.items => Final(w, n)
      BY <1>1, <1>7, <1>8, <2>1, <3>1, NormalizedFinal
    <3>3. Final(w, nav')
      BY <1>12, <2>4, <3>1, <3>2 DEF HasNewCraft
    <3>4. HomeCraft(w, nav')
      BY <3>3 DEF Final, HomeCraft
    <3> QED BY <1>2, <1>5, <1>13, <2>2, <3>3, <3>4 DEF Rounds
  <2> QED BY <2>3, <2>4
<1>19. CASE round = 3
  <2>1. Final(w, nav) /\ n1 = nav /\ saved = last.saved
    BY <1>9, <1>19 DEF Rounds, rt
  <2>2. n = nav
    BY <1>1, <1>7, <1>8, <2>1, FinalStays
  <2>3. ~MustReload(w, nav, p) /\ ~HasNewCraft(w, nav)
    BY <2>1 DEF Final, AtRest, MustReload, HasNewCraft
  <2>4. round' = 0
    BY <1>12, <2>1, <2>2, <2>3
  <2> QED BY <2>4 DEF Rounds
<1> QED BY <1>1, <1>17, <1>18, <1>19


-----------------------------------------------------------------------------
(* Calls leave the types, and the other entries.                           *)

\* No entry is lost or doubled: the entries of one craft go, or one comes.
KeptOthers(es, fs) ==
    LET gone == Ids(es) \ Ids(fs)
        new  == Ids(fs) \ Ids(es)
    IN  /\ gone = {} \/ new = {}
        /\ Cardinality(new) <= 1
        /\ \A e, f \in gone : e[1] = f[1]
        /\ Len(fs) = Len(es) + Cardinality(new) - Cardinality(gone)

\* With ids of their own, the lengths follow from the ids.
LEMMA KeptBy ==
    ASSUME NEW es \in Seq(Entries), NEW fs \in Seq(Entries), Unique(es), Unique(fs),
           Ids(es) \ Ids(fs) = {} \/ Ids(fs) \ Ids(es) = {},
           Cardinality(Ids(fs) \ Ids(es)) <= 1,
           \A e, f \in Ids(es) \ Ids(fs) : e[1] = f[1]
    PROVE  KeptOthers(es, fs)
<1> DEFINE A == Ids(es)
           B == Ids(fs)
<1>1. /\ IsFiniteSet(A) /\ Cardinality(A) \in Nat /\ Cardinality(A) = Len(es)
      /\ IsFiniteSet(B) /\ Cardinality(B) \in Nat /\ Cardinality(B) = Len(fs)
  BY UniqueCounted
<1> HIDE DEF A, B
<1>2. /\ Cardinality(A \ B) = Cardinality(A) - Cardinality(A \cap B)
      /\ Cardinality(B \ A) = Cardinality(B) - Cardinality(B \cap A)
  BY <1>1, FS_Difference
<1>3. A \cap B = B \cap A /\ IsFiniteSet(A \cap B)
  BY <1>1, FS_Intersection
<1>4. Cardinality(A \cap B) \in Nat
  BY <1>3, FS_CardinalityType
<1>5. Len(fs) = Len(es) + Cardinality(B \ A) - Cardinality(A \ B)
  <2> DEFINE x == Cardinality(A \cap B)
             y == Cardinality(A \ B)
             z == Cardinality(B \ A)
  <2>1. y = Len(es) - x /\ z = Len(fs) - x /\ x \in Nat /\ Len(es) \in Nat /\ Len(fs) \in Nat
    BY <1>1, <1>2, <1>3, <1>4
  <2> HIDE DEF x, y, z
  <2>2. Len(fs) = Len(es) + z - y
    BY <2>1
  <2> QED BY <2>2 DEF z, y
<1> QED BY <1>5 DEF KeptOthers, A, B

\* Entries of one craft go.
LEMMA KeptSame ==
    ASSUME NEW es \in Seq(Entries), NEW fs \in Seq(Entries), Unique(es), Unique(fs),
           Ids(fs) \subseteq Ids(es), \A e, f \in Ids(es) \ Ids(fs) : e[1] = f[1]
    PROVE  KeptOthers(es, fs)
<1>1. Ids(fs) \ Ids(es) = {}
  OBVIOUS
<1>2. Cardinality(Ids(fs) \ Ids(es)) <= 1
  <2>1. Cardinality(Ids(fs) \ Ids(es)) = 0
    BY <1>1, FS_EmptySet, Zenon
  <2> QED BY <2>1
<1> QED BY <1>1, <1>2, KeptBy

\* One entry comes.
LEMMA KeptOneMore ==
    ASSUME NEW es \in Seq(Entries), NEW fs \in Seq(Entries), Unique(es), Unique(fs),
           OneMore(fs, es)
    PROVE  KeptOthers(es, fs)
<1>1. PICK e \in Entries : e.id \notin Ids(es) /\ fs = Append(es, e)
  BY DEF OneMore
<1>2. /\ Len(es) \in Nat /\ DOMAIN es = 1..Len(es) /\ DOMAIN fs = 1..(Len(es) + 1)
      /\ \A i \in DOMAIN es : fs[i] = es[i]
      /\ fs[Len(es) + 1] = e
  BY <1>1
<1>3. \A i \in DOMAIN fs : i \in DOMAIN es \/ i = Len(es) + 1
  BY <1>2
<1>4. DOMAIN es \subseteq DOMAIN fs /\ Len(es) + 1 \in DOMAIN fs
  BY <1>2
<1>5. Ids(fs) = Ids(es) \cup {e.id}
  BY <1>2, <1>3, <1>4 DEF Ids
<1>6. Ids(es) \ Ids(fs) = {} /\ Ids(fs) \ Ids(es) = {e.id}
  BY <1>1, <1>5
<1>7. Cardinality(Ids(fs) \ Ids(es)) <= 1
  <2>1. Cardinality(Ids(fs) \ Ids(es)) = 1
    BY <1>6, FS_Singleton, Zenon
  <2> QED BY <2>1
<1> QED BY <1>6, <1>7, KeptBy

\* A call sets what is built of its entries.
LEMMA CallTyped ==
    ASSUME Inv, NEW es \in Seq(Entries), Unique(es), Shows(workspace, es),
           NEW a \in EntryIds \cup {NoEntry}, NEW p, Selected(p),
           Call(Build(workspace, es, a), p)
    PROVE  Typed' /\ nav'.entries = es
<1>1. workspace \in Workspaces
  BY DEF Inv
<1>2. nav' = Build(workspace, es, a) /\ pending' = p /\ workspace' = workspace
  BY DEF Call
<1>3. nav'.entries = es /\ Named(nav')
  BY <1>1, <1>2, BuiltOf, BuiltNamed
<1> QED BY <1>2, <1>3 DEF Typed

\* The ids of entries are entry ids.
LEMMA IdsTyped ==
    ASSUME NEW es \in Seq(Entries)
    PROVE  /\ Ids(es) \subseteq EntryIds /\ CraftsOf(es) \subseteq Crafts
           /\ \A id : EntryWithId(es, id).craft \in Crafts \cup {NoCraft}
<1>1. Ids(es) \subseteq EntryIds /\ CraftsOf(es) \subseteq Crafts
  BY EntriesTyped DEF Ids, CraftsOf
<1>2. ASSUME NEW id PROVE EntryWithId(es, id).craft \in Crafts \cup {NoCraft}
  <2>1. EntryWithId(es, id) = NoneOfThem \/ \E i \in DOMAIN es : EntryWithId(es, id) = es[i]
    BY EntryWithIdThere
  <2> QED BY <2>1, EntriesTyped
<1> QED BY <1>1, <1>2

\* A selection.
LEMMA SelectTyped ==
    ASSUME Inv, Typed, NEW c \in Crafts, NEW v \in Views \cup {NoView}, NEW p, Selected(p),
           Call(Select(workspace, nav, c, v), p)
    PROVE  Typed' /\ KeptOthers(nav.entries, nav'.entries)
<1> DEFINE r == Ensured(workspace, nav, c, v, FALSE)
           es == nav.entries
<1>1. round = 0
  BY DEF Call
<1>2. /\ workspace \in Workspaces /\ es \in Seq(Entries) /\ Normal(workspace, es) /\ Unique(es)
  BY <1>1, AtRestNow DEF Typed
<1>3. r.entries \in Seq(Entries) /\ r.active \in Ids(r.entries) /\ Unique(r.entries)
  BY <1>2, EnsuredThere, UniqueEnsured
<1>4. SameEntries(r.entries, es) \/ OneMore(r.entries, es)
  BY <1>2, EnsuredIds
<1>5. Shows(workspace, r.entries)
  BY <1>2, EnsuredShows DEF Shows
<1>6. Call(Build(workspace, r.entries, r.active), p)
  BY DEF Select, Rebuilt
<1> HIDE DEF r
<1>7. r.active \in EntryIds \cup {NoEntry}
  BY <1>3, IdsTyped
<1>8. Typed' /\ nav'.entries = r.entries
  BY <1>3, <1>5, <1>6, <1>7, CallTyped
<1>9. KeptOthers(es, r.entries)
  <2>1. CASE SameEntries(r.entries, es)
    <3>1. Ids(r.entries) = Ids(es)
      BY <1>2, <1>3, <2>1, SameThere
    <3> QED BY <1>2, <1>3, <3>1, KeptSame
  <2>2. CASE OneMore(r.entries, es)
    BY <1>2, <1>3, <2>2, KeptOneMore
  <2> QED BY <1>4, <2>1, <2>2
<1> QED BY <1>8, <1>9

\* A selection is of a craft.
LEMMA SelectionOf ==
    ASSUME NEW s, NEW c \in Crafts \cup {NoCraft}, NEW item
    PROVE  Selected(Selection(s, c, item))
BY DEF Selected, Selection

\* A call that selects leaves the types and loses no entry.
LEMMA SelectingTyped ==
    ASSUME Inv, Typed, Selecting
    PROVE  Typed' /\ KeptOthers(nav.entries, nav'.entries)
<1>1. workspace \in Workspaces /\ Live(workspace) \subseteq Crafts
  BY NavAssumption DEF Inv
<1>2. ASSUME NEW c, SelectSessionTabGroup(c) PROVE Typed' /\ KeptOthers(nav.entries, nav'.entries)
  <2>1. c \in Crafts /\ NoView \in Views \cup {NoView}
    BY <1>1, <1>2 DEF SelectSessionTabGroup
  <2> QED BY <1>2, <2>1, SelectTyped, SelectionOf DEF SelectSessionTabGroup
<1>3. ASSUME NEW s, SelectSpace(s) PROVE Typed' /\ KeptOthers(nav.entries, nav'.entries)
  BY <1>2, <1>3 DEF SelectSpace
<1>4. ASSUME NEW c \in Crafts, SetActiveTabGroup(c) PROVE Typed' /\ KeptOthers(nav.entries, nav'.entries)
  <2>1. NoView \in Views \cup {NoView}
    OBVIOUS
  <2> QED BY <1>4, <2>1, SelectTyped, SelectionOf DEF SetActiveTabGroup
<1>5. ASSUME NEW c \in Crafts, NEW item \in Views, SelectItem(c, item)
      PROVE  Typed' /\ KeptOthers(nav.entries, nav'.entries)
  BY <1>5, SelectTyped, SelectionOf DEF SelectItem
<1>6. ASSUME NEW id \in Ids(nav.entries), SelectVoyageEntry(id)
      PROVE  Typed' /\ KeptOthers(nav.entries, nav'.entries)
  <2> DEFINE e == EntryWithId(nav.entries, id)
             p == Selection(HomeOf(workspace, e.craft, nav.space), e.craft,
                            ItemFor(workspace, e.craft, e.view))
  <2>1. Call(Build(workspace, nav.entries, id), p)
    BY <1>6 DEF SelectVoyageEntry
  <2>2. nav.entries \in Seq(Entries) /\ Unique(nav.entries) /\ Shows(workspace, nav.entries)
    BY DEF Inv, Sound, Typed
  <2>3. id \in EntryIds \cup {NoEntry} /\ Selected(p)
    BY <2>2, IdsTyped, SelectionOf
  <2> HIDE DEF p
  <2>4. Typed' /\ nav'.entries = nav.entries
    BY <2>1, <2>2, <2>3, CallTyped
  <2> QED BY <2>2, <2>4, KeptSame
<1> QED BY <1>2, <1>3, <1>4, <1>5, <1>6 DEF Selecting


\* What a tab starts with.
LEMMA StartTyped ==
    ASSUME Inv, NEW next, Start(next), Unique(next.entries), Shows(workspace, next.entries),
           Named(next), Sound(next)
    PROVE  Typed'
<1>1. Call(next, Selection(next.space, next.craft, ItemIn(next, next.craft)))
  BY DEF Start
<1>2. /\ nav' = next /\ workspace' = workspace
      /\ pending' = Selection(next.space, next.craft, ItemIn(next, next.craft))
  BY <1>1 DEF Call
<1>3. Selected(pending')
  BY <1>2, SelectionOf DEF Sound
<1> QED BY <1>2, <1>3 DEF Typed

\* A call that replaces the entries leaves the types.
LEMMA ReplacingTyped ==
    ASSUME Inv, Replacing
    PROVE  Typed'
<1>1. workspace \in Workspaces /\ Live(workspace) \subseteq Crafts
  BY NavAssumption DEF Inv
<1>2. ASSUME NEW n, Sound(n), Final(workspace, n), Unique(n.entries), DOMAIN n.byEntry \subseteq EntryIds
      PROVE  Shows(workspace, n.entries) /\ Named(n) /\ n.entries \in Seq(Entries)
  <2>1. n.entries \in Seq(Entries) /\ Normal(workspace, n.entries) /\ n.active \in Ids(n.entries)
    BY <1>2 DEF Sound, Final, AtRest
  <2>2. Shows(workspace, n.entries)
    BY <1>1, <2>1, NormalShows DEF Shows
  <2> QED BY <1>2, <2>1, <2>2, IdsTyped DEF Named
<1>3. ASSUME NEW s \in Voyages, NEW id, ResumeSession(s, id) PROVE Typed'
  <2> DEFINE n == Load(workspace, NoRoute, s)
             b == Build(workspace, n.entries, id)
             next == IF id \in Ids(n.entries) THEN b ELSE n
  <2>1. Start(next)
    BY <1>3 DEF ResumeSession
  <2>2. Resolved(workspace, NoRoute, s)
    BY DEF Resolved
  <2>3. /\ Sound(n) /\ Final(workspace, n) /\ Unique(n.entries) /\ DOMAIN n.byEntry \subseteq EntryIds
        /\ Normal(workspace, n.entries)
    BY <1>1, <2>2, LoadThere
  <2> HIDE DEF n
  <2>4. Shows(workspace, n.entries) /\ Named(n) /\ n.entries \in Seq(Entries)
    BY <1>2, <2>3
  <2>5. ASSUME id \in Ids(n.entries)
        PROVE  Sound(b) /\ b.entries = n.entries /\ Named(b)
    <3>1. id \in EntryIds \cup {NoEntry}
      BY <2>4, <2>5, IdsTyped
    <3>2. \A i \in DOMAIN n.entries : n.entries[i].view \in Views
      BY <1>1, <2>3, <2>4, NormalShows
    <3> QED BY <1>1, <2>4, <3>1, <3>2, BuiltOf, BuiltSound, BuiltNamed
  <2> HIDE DEF b
  <2>6. Unique(next.entries) /\ Shows(workspace, next.entries) /\ Named(next) /\ Sound(next)
    BY <2>3, <2>4, <2>5
  <2> HIDE DEF next
  <2> QED BY <2>1, <2>6, StartTyped
<1>4. ASSUME NEW c, StartNewSession(c) PROVE Typed'
  <2> DEFINE e == Entry(<<c, 0>>, c, "a")
             es == <<e>>
             n == Build(workspace, es, <<c, 0>>)
             d == DefaultNav(workspace)
             next == IF c \in Live(workspace) THEN n ELSE d
  <2>1. Start(next)
    BY <1>4 DEF StartNewSession
  <2>2. ASSUME c \in Live(workspace)
        PROVE  Sound(n) /\ Unique(n.entries) /\ Shows(workspace, n.entries) /\ Named(n)
    <3> DEFINE id == <<c, 0>>
    <3>1. id \in EntryIds /\ id[1] = c /\ c \in Crafts /\ "a" \in Views \cup {NoView}
      BY <1>1, <2>2 DEF EntryIds, Views
    <3> HIDE DEF id
    <3>2. Entry(id, c, "a") \in Entries /\ Entry(id, c, "a").view = "a"
      BY <3>1, EntriesTyped
    <3>3. e \in Entries /\ e.view = "a"
      BY <3>2 DEF id
    <3> HIDE DEF e
    <3>4. es \in Seq(Entries) /\ (\A i \in DOMAIN es : es[i].view \in Views) /\ Unique(es)
      BY <3>3 DEF Views, Unique
    <3> HIDE DEF es
    <3>5. Sound(Build(workspace, es, id)) /\ Named(Build(workspace, es, id))
          /\ Build(workspace, es, id).entries = es
      BY <1>1, <3>1, <3>4, BuiltOf, BuiltSound, BuiltNamed
    <3> QED BY <3>4, <3>5 DEF id, Shows
  <2>3. Sound(d) /\ Unique(d.entries) /\ Shows(workspace, d.entries) /\ Named(d)
    <3>1. Sound(d) /\ Final(workspace, d) /\ Unique(d.entries) /\ DOMAIN d.byEntry \subseteq EntryIds
      BY <1>1, DefaultLoaded
    <3> HIDE DEF d
    <3> QED BY <1>2, <3>1
  <2> HIDE DEF n, d
  <2>4. Unique(next.entries) /\ Shows(workspace, next.entries) /\ Named(next) /\ Sound(next)
    BY <2>2, <2>3
  <2> HIDE DEF next
  <2> QED BY <2>1, <2>4, StartTyped
<1> QED BY <1>3, <1>4 DEF Replacing

\* The entries at some places are all there are at these places.
LEMMA AllAtCovers ==
    ASSUME NEW S, NEW es \in Seq(S), NEW I \in SUBSET DOMAIN es, NEW i \in I
    PROVE  \E k \in DOMAIN AllAt(es, I) : AllAt(es, I)[k] = es[i]
<1> DEFINE n == Cardinality(I)
           Upto(p) == Cardinality({j \in I : j <= p})
           f == [k \in 1..n |-> PlaceOf(I, k)]
<1>1. I \subseteq Nat /\ IsFiniteSet(I) /\ n \in Nat
  BY PlacesFinite
<1>2. \A k \in 1..n : PlaceOf(I, k) \in I /\ Upto(PlaceOf(I, k)) = k
  BY <1>1, PlacesThere
<1> HIDE DEF Upto, n
<1>3. f \in Injection(1..n, I)
  <2>1. f \in [1..n -> I]
    BY <1>2
  <2>2. ASSUME NEW a \in 1..n, NEW b \in 1..n, f[a] = f[b] PROVE a = b
    BY <1>2, <2>2
  <2> QED BY <2>1, <2>2 DEF Injection, IsInjective
<1>4. Cardinality(1..n) = Cardinality(I)
  BY <1>1, FS_Interval DEF n
<1>5. f \in Surjection(1..n, I)
  BY <1>1, <1>3, <1>4, FS_Injection
<1>6. PICK k \in 1..n : f[k] = i
  BY <1>5 DEF Surjection
<1> QED BY <1>6 DEF AllAt, n

\* Entries that are dropped, of one craft.
LEMMA DropTyped ==
    ASSUME Inv, Typed, NEW gone \in SUBSET DOMAIN nav.entries, NEW isActive, Drop(gone, isActive),
           \A i, j \in gone : nav.entries[i].craft = nav.entries[j].craft
    PROVE  Typed' /\ KeptOthers(nav.entries, nav'.entries)
<1> DEFINE es == nav.entries
           kept == AllAt(es, DOMAIN es \ gone)
           a == Neighbour(es, Min(gone))
<1>1. /\ workspace \in Workspaces /\ es \in Seq(Entries) /\ Unique(es) /\ Shows(workspace, es)
      /\ Named(nav) /\ Selected(pending)
  BY DEF Inv, Sound, Typed
<1>2. /\ kept \in Seq(Entries)
      /\ \A k \in DOMAIN kept : \E i \in DOMAIN es \ gone : kept[k] = es[i]
      /\ \A i \in DOMAIN es \ gone : \E k \in DOMAIN kept : kept[k] = es[i]
      /\ Unique(kept)
  <2>1. DOMAIN es \ gone \in SUBSET DOMAIN es
    OBVIOUS
  <2> DEFINE I == DOMAIN es \ gone
  <2>2. I \in SUBSET DOMAIN es
    BY <2>1
  <2> HIDE DEF I
  <2>3. /\ AllAt(es, I) \in Seq(Entries)
        /\ \A k \in DOMAIN AllAt(es, I) : \E i \in I : AllAt(es, I)[k] = es[i]
    BY <1>1, <2>2, AllAtThem
  <2>4. \A i \in I : \E k \in DOMAIN AllAt(es, I) : AllAt(es, I)[k] = es[i]
    BY <1>1, <2>2, AllAtCovers
  <2>5. Unique(AllAt(es, I))
    BY <1>1, <2>2, UniqueAll
  <2> QED BY <2>3, <2>4, <2>5 DEF I
<1> HIDE DEF kept
<1>3. Shows(workspace, kept)
  BY <1>1, <1>2 DEF Shows
<1>4. KeptOthers(es, kept)
  <2>1. Ids(kept) \subseteq Ids(es)
    BY <1>2 DEF Ids
  <2>2. ASSUME NEW e \in Ids(es) \ Ids(kept) PROVE \E i \in gone : e = es[i].id /\ e[1] = es[i].craft
    <3>1. PICK i \in DOMAIN es : e = es[i].id
      BY DEF Ids
    <3>2. i \in gone
      <4>1. SUFFICES ASSUME i \notin gone PROVE FALSE
        OBVIOUS
      <4>2. PICK k \in DOMAIN kept : kept[k] = es[i]
        BY <1>2, <4>1
      <4> QED BY <3>1, <4>2 DEF Ids
    <3>3. es[i] \in Entries
      BY <1>1
    <3> QED BY <3>1, <3>2, <3>3, EntriesTyped
  <2>3. ASSUME NEW e \in Ids(es) \ Ids(kept), NEW f \in Ids(es) \ Ids(kept) PROVE e[1] = f[1]
    <3>1. PICK i \in gone : e[1] = es[i].craft
      BY <2>2
    <3>2. PICK j \in gone : f[1] = es[j].craft
      BY <2>2
    <3> QED BY <3>1, <3>2
  <2> QED BY <1>1, <1>2, <2>1, <2>3, KeptSame
<1>5. CASE ~isActive
  <2>1. Call(Build(workspace, kept, nav.active), pending)
    BY <1>5 DEF Drop, kept
  <2>2. nav.active \in EntryIds \cup {NoEntry}
    BY <1>1 DEF Named
  <2> QED BY <1>1, <1>2, <1>3, <1>4, <2>1, <2>2, CallTyped
<1>6. CASE isActive
  <2> DEFINE n == Build(workspace, kept, a)
  <2>1. gone # {} /\ Len(es) > 1 /\ DropActive(n)
    BY <1>6, Zenon DEF Drop, kept
  <2>2. PICK p \in {pending, Selection(n.space, n.craft, ItemIn(n, n.craft))} : Call(n, p)
    BY <2>1 DEF DropActive
  <2>3. n.craft \in Crafts \cup {NoCraft}
    BY <1>1, <1>2, BuiltOf
  <2>4. Selected(p)
    <3> HIDE DEF n
    <3> QED BY <1>1, <2>2, <2>3, SelectionOf
  <2>5. a \in EntryIds \cup {NoEntry}
    <3>1. Min(gone) \in DOMAIN es
      <4>1. gone \subseteq Nat
        BY <1>1
      <4> QED BY <2>1, <4>1, LeastPlace
    <3> DEFINE i == Min(gone)
    <3>2. i \in DOMAIN es
      BY <3>1
    <3> HIDE DEF i
    <3>3. i > 1 => i - 1 \in DOMAIN es
      BY <1>1, <3>2
    <3>4. ~(i > 1) => i + 1 \in DOMAIN es
      BY <1>1, <2>1, <3>2
    <3>5. Neighbour(es, i) \in Ids(es)
      BY <3>3, <3>4 DEF Neighbour, Ids
    <3> QED BY <1>1, <3>5, IdsTyped DEF i
  <2> HIDE DEF a
  <2> QED BY <1>2, <1>3, <1>4, <2>2, <2>4, <2>5, CallTyped
<1> QED BY <1>5, <1>6


\* An entry does not come from two places.
LEMMA PlacesApart ==
    ASSUME NEW i \in Int, NEW j \in Int, NEW k \in Int, NEW m \in Int,
           (IF k = j THEN i
            ELSE IF k < j THEN (IF k < i THEN k ELSE k + 1)
            ELSE (IF k - 1 < i THEN k - 1 ELSE k)) =
           (IF m = j THEN i
            ELSE IF m < j THEN (IF m < i THEN m ELSE m + 1)
            ELSE (IF m - 1 < i THEN m - 1 ELSE m))
    PROVE  k = m
OBVIOUS

\* Moving an entry keeps all of them, each once.
LEMMA MovedKept ==
    ASSUME NEW es \in Seq(Entries), Unique(es), NEW i \in DOMAIN es, NEW j \in DOMAIN es
    PROVE  LET ms == Moved(es, i, j) IN
           /\ ms \in Seq(Entries) /\ Unique(ms)
           /\ KeptOthers(es, ms)
           /\ \A k \in DOMAIN ms : \E m \in DOMAIN es : ms[k] = es[m]
<1> DEFINE n == Len(es)
           ms == Moved(es, i, j)
           From(k) == IF k = j THEN i
                      ELSE IF k < j THEN (IF k < i THEN k ELSE k + 1)
                      ELSE (IF k - 1 < i THEN k - 1 ELSE k)
<1>1. n \in Nat /\ DOMAIN es = 1..n /\ i \in 1..n /\ j \in 1..n
  OBVIOUS
<1>2. /\ ms \in Seq(Entries) /\ Len(ms) = n
      /\ \A k \in 1..n :
           ms[k] = IF k = j THEN es[i]
                   ELSE IF k < j THEN (IF k < i THEN es[k] ELSE es[k + 1])
                   ELSE (IF k - 1 < i THEN es[k - 1] ELSE es[k])
  BY MovedThem, ZenonT(30)
<1> HIDE DEF ms, n
<1>3. DOMAIN ms = 1..n
  BY <1>2
<1>4. ASSUME NEW k \in 1..n PROVE ms[k] = es[From(k)] /\ From(k) \in 1..n
  <2>1. ms[k] = es[From(k)]
    BY <1>2
  <2>2. k \in Int /\ n \in Int /\ i \in Int /\ j \in Int /\ 1 <= k /\ k <= n /\ 1 <= i /\ i <= n
        /\ 1 <= j /\ j <= n
    BY <1>1
  <2>3. From(k) \in Int /\ 1 <= From(k) /\ From(k) <= n
    BY <2>2
  <2> HIDE DEF From
  <2> QED BY <2>1, <2>2, <2>3
<1>5. ASSUME NEW k \in 1..n, NEW m \in 1..n, From(k) = From(m) PROVE k = m
  <2>1. k \in Int /\ m \in Int /\ i \in Int /\ j \in Int
    BY <1>1
  <2> QED BY <1>5, <2>1, PlacesApart
<1> HIDE DEF From
<1>6. Unique(ms)
  <2>1. ASSUME NEW k \in 1..n, NEW m \in 1..n, ms[k].id = ms[m].id PROVE k = m
    <3>1. es[From(k)].id = es[From(m)].id /\ From(k) \in DOMAIN es /\ From(m) \in DOMAIN es
      BY <1>1, <1>4, <2>1
    <3> QED BY <1>5, <3>1 DEF Unique
  <2> QED BY <1>3, <2>1 DEF Unique
<1>7. \A k \in DOMAIN ms : \E m \in DOMAIN es : ms[k] = es[m]
  BY <1>1, <1>3, <1>4
<1>8. Ids(ms) = Ids(es)
  <2>1. Ids(ms) \subseteq Ids(es)
    BY <1>7 DEF Ids
  <2>2. IsFiniteSet(Ids(es)) /\ Cardinality(Ids(es)) = Cardinality(Ids(ms))
    BY <1>2, <1>6, UniqueCounted DEF n
  <2> QED BY <2>1, <2>2, FS_Subset
<1>9. KeptOthers(es, ms)
  BY <1>2, <1>6, <1>8, KeptSame
<1> QED BY <1>2, <1>6, <1>7, <1>9 DEF ms

\* A call that edits the entries leaves the types, and loses only those it
\* removes.
LEMMA EditingTyped ==
    ASSUME Inv, Typed, Editing
    PROVE  Typed' /\ KeptOthers(nav.entries, nav'.entries)
<1> DEFINE es == nav.entries
<1>1. /\ workspace \in Workspaces /\ es \in Seq(Entries) /\ Unique(es) /\ Shows(workspace, es)
      /\ nav.active \in EntryIds \cup {NoEntry} /\ Selected(pending)
  BY DEF Inv, Sound, Typed, Named
<1>2. ASSUME NEW c \in Crafts, NEW again \in BOOLEAN, NEW select \in BOOLEAN,
             AddTabGroupToSession(c, again, select)
      PROVE  Typed' /\ KeptOthers(nav.entries, nav'.entries)
  <2> DEFINE r == Ensured(workspace, nav, c, NoView, again)
             a == IF select THEN r.active ELSE nav.active
  <2>1. Call(Build(workspace, r.entries, a), pending)
    BY <1>2 DEF AddTabGroupToSession
  <2>2. round = 0 /\ NoView \in Views \cup {NoView}
    BY <2>1 DEF Call
  <2>3. Normal(workspace, es)
    BY <2>2, AtRestNow
  <2>4. r.entries \in Seq(Entries) /\ r.active \in Ids(r.entries) /\ Unique(r.entries)
    BY <1>1, <2>2, EnsuredThere, UniqueEnsured
  <2>5. SameEntries(r.entries, es) \/ OneMore(r.entries, es)
    BY <1>1, <2>2, EnsuredIds
  <2>6. Shows(workspace, r.entries)
    BY <1>1, <2>2, <2>3, EnsuredShows DEF Shows
  <2> HIDE DEF r
  <2>7. a \in EntryIds \cup {NoEntry}
    BY <1>1, <2>4, IdsTyped
  <2> HIDE DEF a
  <2>8. Typed' /\ nav'.entries = r.entries
    BY <1>1, <2>1, <2>4, <2>6, <2>7, CallTyped
  <2>9. KeptOthers(es, r.entries)
    <3>1. CASE SameEntries(r.entries, es)
      <4>1. Ids(r.entries) = Ids(es)
        BY <1>1, <2>4, <3>1, SameThere
      <4> QED BY <1>1, <2>4, <4>1, KeptSame
    <3>2. CASE OneMore(r.entries, es)
      BY <1>1, <2>4, <3>2, KeptOneMore
    <3> QED BY <2>5, <3>1, <3>2
  <2> QED BY <2>8, <2>9
<1>3. ASSUME NEW id, RemoveVoyageEntryFromSession(id)
      PROVE  Typed' /\ KeptOthers(nav.entries, nav'.entries)
  <2> DEFINE gone == {i \in DOMAIN es : es[i].id = id}
             isActive == id = nav.active
  <2>1. gone \in SUBSET DOMAIN es /\ Drop(gone, isActive)
    BY <1>3 DEF RemoveVoyageEntryFromSession
  <2>2. \A i, j \in gone : es[i].craft = es[j].craft
    BY <1>1 DEF Unique
  <2> HIDE DEF gone, isActive
  <2> QED BY <2>1, <2>2, DropTyped
<1>4. ASSUME NEW c, RemoveTabGroupFromSession(c)
      PROVE  Typed' /\ KeptOthers(nav.entries, nav'.entries)
  <2> DEFINE gone == {i \in DOMAIN es : es[i].craft = c}
             isActive == c = nav.craft
  <2>1. gone \in SUBSET DOMAIN es /\ Drop(gone, isActive)
    BY <1>4 DEF RemoveTabGroupFromSession
  <2>2. \A i, j \in gone : es[i].craft = es[j].craft
    OBVIOUS
  <2> HIDE DEF gone, isActive
  <2> QED BY <2>1, <2>2, DropTyped
<1>5. ASSUME NEW i \in DOMAIN es, NEW j \in DOMAIN es, ReorderVoyageEntries(i, j)
      PROVE  Typed' /\ KeptOthers(nav.entries, nav'.entries)
  <2> DEFINE ms == Moved(es, i, j)
  <2>1. Call(Build(workspace, ms, nav.active), pending)
    BY <1>5 DEF ReorderVoyageEntries
  <2>2. /\ ms \in Seq(Entries) /\ Unique(ms)
        /\ KeptOthers(es, ms)
        /\ \A k \in DOMAIN ms : \E m \in DOMAIN es : ms[k] = es[m]
    BY <1>1, MovedKept
  <2> HIDE DEF ms
  <2>3. Shows(workspace, ms)
    BY <1>1, <2>2 DEF Shows
  <2> QED BY <1>1, <2>1, <2>2, <2>3, CallTyped
<1> QED BY <1>2, <1>3, <1>4, <1>5 DEF Editing

-----------------------------------------------------------------------------
(* The types hold, and the other entries are kept.                         *)

\* The types hold at first.
LEMMA InitTyped ==
    ASSUME Init
    PROVE  Typed /\ Rounds
<1>1. /\ workspace \in Workspaces /\ saved \in Voyages \cup {NoVoyage}
      /\ nav = Load(workspace, NoRoute, saved) /\ pending = NoSelection /\ round = 1
  BY DEF Init
<1>2. Resolved(workspace, NoRoute, saved)
  BY DEF Resolved
<1>3. /\ Sound(nav) /\ Final(workspace, nav) /\ Unique(nav.entries)
      /\ DOMAIN nav.byEntry \subseteq EntryIds /\ Normal(workspace, nav.entries)
  BY <1>1, <1>2, LoadThere
<1>4. nav.entries \in Seq(Entries) /\ nav.active \in Ids(nav.entries)
  BY <1>3 DEF Sound, Final, AtRest
<1>5. Shows(workspace, nav.entries)
  BY <1>1, <1>3, <1>4, NormalShows DEF Shows
<1>6. Named(nav)
  BY <1>3, <1>4, IdsTyped DEF Named
<1> QED BY <1>1, <1>3, <1>5, <1>6 DEF Typed, Rounds, Selected

\* An event is followed by the first round.
LEMMA FirstRound ==
    ASSUME round' = 1
    PROVE  Rounds'
BY DEF Rounds

\* What arrives leaves the entries.
LEMMA FromServerTyped ==
    ASSUME Inv, Typed, FromServer
    PROVE  Typed' /\ round' = 1
<1>1. round = 0 /\ round' = 1 /\ UNCHANGED <<nav, pending>>
  BY DEF FromServer, WorkspaceChanges, SavedChanges, GoTo, Render
<1>2. \A i \in DOMAIN nav.entries : nav.entries[i].view \in Views
  BY <1>1, AtRestNow
<1> QED BY <1>1, <1>2 DEF Typed, Shows

\* A call is made when the effects are at rest, and its first round follows.
LEMMA CallsRound ==
    ASSUME Selecting \/ Replacing \/ Editing
    PROVE  round = 0 /\ round' = 1
BY Zenon DEF Selecting, Replacing, Editing, SelectSpace, SelectSessionTabGroup, SelectItem,
       SetActiveTabGroup, SelectVoyageEntry, ResumeSession, StartNewSession, Start,
       AddTabGroupToSession, RemoveVoyageEntryFromSession, RemoveTabGroupFromSession, Drop,
       DropActive, ReorderVoyageEntries, Call

\* Every step keeps the types, and the bound of the rounds.
LEMMA NextTyped ==
    ASSUME Inv, Typed, Rounds, [Next]_vars
    PROVE  Typed' /\ Rounds'
<1>1. ASSUME UNCHANGED vars PROVE Typed' /\ Rounds'
  BY <1>1 DEF vars, Typed, Rounds, CurrentRoute
<1>2. ASSUME Selecting \/ Replacing \/ Editing PROVE Typed' /\ Rounds'
  BY <1>2, CallsRound, FirstRound, SelectingTyped, ReplacingTyped, EditingTyped
<1> QED BY <1>1, <1>2, FlushTyped, FromServerTyped, FirstRound DEF Next

\* The invariants together.
THEOREM TypesInvariant ==
    Spec => [](Inv /\ Typed /\ Rounds)
<1>1. Init => Inv /\ Typed /\ Rounds
  BY InitHolds, InitTyped
<1>2. Inv /\ Typed /\ Rounds /\ [Next]_vars => (Inv /\ Typed /\ Rounds)'
  BY NextKeeps, NextTyped
<1> QED BY <1>1, <1>2, PTL DEF Spec

\* Entries are entries of craft, each with an id of its own, and those that
\* are there show something; and an event is followed by at most three rounds
\* of effects, after which nothing more is set.
THEOREM TypeCorrect ==
    Spec => []TypeOK
<1>1. ASSUME Inv, Typed, Rounds PROVE TypeOK
  <2>1. nav.entries \in Seq(Entries)
    BY <1>1 DEF Inv, Sound
  <2>2. Cardinality(Ids(nav.entries)) = Len(nav.entries)
    BY <1>1, <2>1, UniqueCounted DEF Typed
  <2> QED BY <1>1, <2>1, <2>2 DEF TypeOK, Inv, Typed, Shows, Named, Selected, Rounds
<1> QED BY <1>1, TypesInvariant, PTL

\* Removing and moving entries, and selecting, lose no other entry and double
\* none.
THEOREM KeepsOthers ==
    Spec => OthersKept
<1>1. ASSUME Inv, Typed, Rounds, [Next]_vars
      PROVE  [round = 0 /\ nav' # nav /\ (Editing \/ Selecting) =>
                LET gone == Ids(nav.entries) \ Ids(nav.entries')
                    new  == Ids(nav.entries') \ Ids(nav.entries)
                IN  /\ gone = {} \/ new = {}
                    /\ Cardinality(new) <= 1
                    /\ \A e, f \in gone : e[1] = f[1]
                    /\ Len(nav.entries') =
                         Len(nav.entries) + Cardinality(new) - Cardinality(gone)]_vars
  <2>1. Editing \/ Selecting => KeptOthers(nav.entries, nav'.entries)
    BY <1>1, EditingTyped, SelectingTyped
  <2> QED BY <2>1, Zenon DEF KeptOthers
<1> QED BY <1>1, TypesInvariant, PTL DEF Spec, OthersKept

-----------------------------------------------------------------------------
(* The saved voyages: VoyageStore.                                         *)

\* Everything at the places is there, at a place of its own.
LEMMA AllAtAll ==
    ASSUME NEW S, NEW es \in Seq(S), NEW I \in SUBSET DOMAIN es
    PROVE  /\ \A i \in I : \E k \in DOMAIN AllAt(es, I) : AllAt(es, I)[k] = es[i]
           /\ \A k, l \in DOMAIN AllAt(es, I) :
                \E i, j \in I : /\ AllAt(es, I)[k] = es[i] /\ AllAt(es, I)[l] = es[j]
                                /\ i = j <=> k = l
<1> DEFINE c == Cardinality(I)
           Upto(i) == {j \in I : j <= i}
<1>1. I \subseteq Nat /\ IsFiniteSet(I) /\ c \in Nat
  BY PlacesFinite
<1>2. \A k \in 1..c : PlaceOf(I, k) \in I /\ Cardinality(Upto(PlaceOf(I, k))) = k
  BY <1>1, PlacesThere
<1>3. DOMAIN AllAt(es, I) = 1..c /\ \A k \in 1..c : AllAt(es, I)[k] = es[PlaceOf(I, k)]
  BY DEF AllAt
<1>4. ASSUME NEW i \in I PROVE \E k \in 1..c : PlaceOf(I, k) = i
  <2>1. IsFiniteSet(Upto(i)) /\ Cardinality(Upto(i)) \in Nat /\ Cardinality(Upto(i)) <= c
    <3>1. Upto(i) \subseteq I
      OBVIOUS
    <3> HIDE DEF Upto, c
    <3> QED BY <1>1, <3>1, FS_Subset, FS_CardinalityType DEF c
  <2>2. i \in Upto(i)
    BY <1>1
  <2> DEFINE k == Cardinality(Upto(i))
  <2>3. k # 0
    BY <2>1, <2>2, FS_EmptySet
  <2>4. k \in 1..c
    BY <1>1, <2>1, <2>3
  <2>5. PICK p \in I : p = PlaceOf(I, k) /\ Cardinality(Upto(p)) = k
    BY <1>2, <2>4
  <2>6. p = i
    <3>1. IsFiniteSet(Upto(p))
      <4>1. Upto(p) \subseteq I
        OBVIOUS
      <4> HIDE DEF Upto
      <4> QED BY <1>1, <4>1, FS_Subset
    <3>2. CASE p < i
      <4>1. Upto(p) \subseteq Upto(i) /\ i \notin Upto(p)
        BY <1>1, <3>2
      <4> HIDE DEF Upto
      <4> QED BY <2>1, <2>2, <2>5, <4>1, FS_Subset DEF k
    <3>3. CASE i < p
      <4>1. Upto(i) \subseteq Upto(p) /\ p \notin Upto(i) /\ p \in Upto(p)
        BY <1>1, <3>3
      <4> HIDE DEF Upto
      <4> QED BY <3>1, <2>5, <4>1, FS_Subset DEF k
    <3> QED BY <1>1, <3>2, <3>3
  <2> QED BY <2>4, <2>5, <2>6
<1> HIDE DEF c, Upto
<1>5. ASSUME NEW k \in 1..c, NEW l \in 1..c
      PROVE  \E i, j \in I : /\ AllAt(es, I)[k] = es[i] /\ AllAt(es, I)[l] = es[j]
                             /\ i = j <=> k = l
  <2>1. /\ PlaceOf(I, k) \in I /\ PlaceOf(I, l) \in I
        /\ AllAt(es, I)[k] = es[PlaceOf(I, k)] /\ AllAt(es, I)[l] = es[PlaceOf(I, l)]
    BY <1>2, <1>3
  <2>2. PlaceOf(I, k) = PlaceOf(I, l) <=> k = l
    BY <1>2
  <2> QED BY <2>1, <2>2
<1>6. ASSUME NEW i \in I PROVE \E k \in 1..c : AllAt(es, I)[k] = es[i]
  BY <1>3, <1>4
<1> QED BY <1>3, <1>5, <1>6

\* What is left when repetitions go: the same, each once.
LEMMA DistinctThem ==
    ASSUME NEW S, NEW seq \in Seq(S)
    PROVE  /\ Distinct(seq) \in Seq(S)
           /\ ToSet(Distinct(seq)) = ToSet(seq)
           /\ \A k, l \in DOMAIN Distinct(seq) : Distinct(seq)[k] = Distinct(seq)[l] => k = l
<1> DEFINE I == {i \in DOMAIN seq : \A j \in DOMAIN seq : j < i => seq[j] # seq[i]}
<1>1. I \in SUBSET DOMAIN seq /\ DOMAIN seq \subseteq Nat
  OBVIOUS
<1>2. Distinct(seq) = AllAt(seq, I)
  BY DEF Distinct
<1>3. ASSUME NEW i \in DOMAIN seq PROVE \E p \in I : seq[p] = seq[i]
  <2> DEFINE P == {j \in DOMAIN seq : seq[j] = seq[i]}
  <2>1. P \subseteq Nat /\ P # {}
    BY <1>1
  <2>2. PICK p \in P : \A j \in P : p <= j
    BY <2>1, LeastPlace
  <2>3. ASSUME NEW j \in DOMAIN seq, j < p PROVE seq[j] # seq[p]
    BY <1>1, <2>2, <2>3
  <2> QED BY <2>2, <2>3
<1>4. \A i, j \in I : seq[i] = seq[j] => i = j
  BY <1>1
<1> HIDE DEF I
<1>5. /\ AllAt(seq, I) \in Seq(S)
      /\ \A k \in DOMAIN AllAt(seq, I) : \E i \in I : AllAt(seq, I)[k] = seq[i]
  BY <1>1, AllAtThem
<1>6. /\ \A i \in I : \E k \in DOMAIN AllAt(seq, I) : AllAt(seq, I)[k] = seq[i]
      /\ \A k, l \in DOMAIN AllAt(seq, I) :
           \E i, j \in I : /\ AllAt(seq, I)[k] = seq[i] /\ AllAt(seq, I)[l] = seq[j]
                           /\ i = j <=> k = l
  BY <1>1, AllAtAll
<1>7. \A v : (\E k \in DOMAIN AllAt(seq, I) : v = AllAt(seq, I)[k]) <=> (\E i \in DOMAIN seq : v = seq[i])
  BY <1>1, <1>3, <1>5, <1>6
<1>8. ToSet(AllAt(seq, I)) = ToSet(seq)
  BY <1>7 DEF ToSet
<1>9. \A k, l \in DOMAIN AllAt(seq, I) : AllAt(seq, I)[k] = AllAt(seq, I)[l] => k = l
  <2> DEFINE d == AllAt(seq, I)
  <2>1. ASSUME NEW k \in DOMAIN d, NEW l \in DOMAIN d, d[k] = d[l] PROVE k = l
    <3>1. PICK i \in I, j \in I : d[k] = seq[i] /\ d[l] = seq[j] /\ (i = j <=> k = l)
      BY <1>6
    <3> QED BY <1>4, <2>1, <3>1
  <2> QED BY <2>1
<1> QED BY <1>2, <1>5, <1>8, <1>9

\* Nothing new comes of repeating it.
LEMMA DistinctAgain ==
    ASSUME NEW S, NEW seq \in Seq(S)
    PROVE  Distinct(Distinct(seq) \o seq) = Distinct(seq)
<1> DEFINE d == Distinct(seq)
           all == d \o seq
           I == {i \in DOMAIN all : \A j \in DOMAIN all : j < i => all[j] # all[i]}
           n == Len(d)
<1>1. d \in Seq(S) /\ ToSet(d) = ToSet(seq) /\ \A k, l \in DOMAIN d : d[k] = d[l] => k = l
  BY DistinctThem
<1> HIDE DEF d
<1>2. /\ n \in Nat /\ DOMAIN d = 1..n
      /\ all \in Seq(S) /\ Len(all) = n + Len(seq) /\ DOMAIN all = 1..(n + Len(seq))
      /\ DOMAIN seq = 1..Len(seq) /\ Len(seq) \in Nat
      /\ \A i \in DOMAIN all : all[i] = IF i <= n THEN d[i] ELSE seq[i - n]
  BY <1>1
<1>3. \A i \in DOMAIN seq : \E k \in DOMAIN d : d[k] = seq[i]
  BY <1>1 DEF ToSet
<1>4. I = 1..n
  <2>1. ASSUME NEW i \in 1..n PROVE i \in I
    <3>1. ASSUME NEW j \in DOMAIN all, j < i PROVE all[j] # all[i]
      BY <1>1, <1>2, <3>1
    <3>2. i \in DOMAIN all
      BY <1>2
    <3> QED BY <3>1, <3>2
  <2>2. ASSUME NEW i \in I PROVE i \in 1..n
    <3>1. SUFFICES ASSUME ~(i <= n) PROVE FALSE
      BY <1>2
    <3>2. i \in DOMAIN all /\ i - n \in DOMAIN seq /\ all[i] = seq[i - n]
      BY <1>2, <3>1
    <3>3. PICK k \in DOMAIN d : d[k] = seq[i - n]
      BY <1>3, <3>2
    <3>4. k \in DOMAIN all /\ k < i /\ all[k] = all[i]
      BY <1>2, <3>1, <3>2, <3>3
    <3> QED BY <3>4
  <2> QED BY <2>1, <2>2
<1>5. Distinct(all) = AllAt(all, 1..n)
  <2>1. Distinct(all) = AllAt(all, I)
    BY DEF Distinct
  <2> QED BY <2>1, <1>4
<1>6. Cardinality(1..n) = n
  <2> HIDE DEF n
  <2> QED BY <1>2, FS_Interval
<1>7. AllAt(all, 1..n) = [k \in 1..n |-> all[k]]
  <2>1. \A k \in 1..n : PlaceOf(1..n, k) = k
    <3> HIDE DEF n
    <3> QED BY <1>2, PlacesOfAll
  <2> QED BY <1>6, <2>1 DEF AllAt
<1>8. [k \in 1..n |-> all[k]] = d
  <2>1. \A k \in 1..n : all[k] = d[k]
    BY <1>2
  <2> HIDE DEF all
  <2> QED BY <1>1, <1>2, <2>1
<1> QED BY <1>5, <1>7, <1>8 DEF d

-----------------------------------------------------------------------------
(* Craft of the tree, and their views.                                     *)

\* A least id.
LEMMA LeastId ==
    ASSUME NEW S, S \subseteq Nat, S # {}
    PROVE  W!Least(S) \in S
<1>1. \E n \in S : \A m \in S : n <= m
  BY LeastPlace
<1> QED BY <1>1 DEF W!Least

\* What the tree of craft has.
LEMMA LiveCraftHas ==
    ASSUME NEW c \in LiveCraft
    PROVE  /\ \E sp \in DOMAIN Tree.spaces : c \in Tree.spaces[sp]
           /\ W!TabsOf(TabGroups, c) = DOMAIN TabGroups[c].url
           /\ DOMAIN TabGroups[c].url \subseteq Nat
           /\ \A p \in TabGroups[c].pairs :
                p.id \in Nat /\ p.of # {} /\ p.of \subseteq DOMAIN TabGroups[c].url
BY SavedAssumption DEF W!TabsOf

\* A craft without tabs, which has nothing to show.
Bare(c) == DOMAIN TabGroups[c].url = {} /\ TabGroups[c].ws = NoWs

\* What a craft shows by default is there, and nothing only if it is bare.
LEMMA DefaultThere ==
    ASSUME NEW c \in LiveCraft
    PROVE  /\ W!DefaultViews(TabGroups, c) \subseteq StoredViews
           /\ TabGroups[c].ws = NoWs =>
                W!DefaultViews(TabGroups, c) \subseteq DOMAIN TabGroups[c].url
           /\ W!DefaultViews(TabGroups, c) = {} <=> Bare(c)
<1> DEFINE tabs == DOMAIN TabGroups[c].url
<1>1. /\ tabs \subseteq Nat /\ W!TabsOf(TabGroups, c) = tabs
      /\ tabs = {} => TabGroups[c].pairs = {}
  BY LiveCraftHas
<1>2. tabs # {} => W!Least(tabs) \in tabs
  BY <1>1, LeastId
<1> HIDE DEF tabs
<1>3. CASE tabs # {}
  <2>1. W!DefaultViews(TabGroups, c) = {W!Least(tabs)}
    BY <1>1, <1>3 DEF W!DefaultViews
  <2> QED BY <1>1, <1>2, <1>3, <2>1 DEF StoredViews, Bare, tabs
<1>4. CASE tabs = {} /\ TabGroups[c].ws # NoWs
  <2>1. W!DefaultViews(TabGroups, c) = {Agent}
    BY <1>1, <1>4 DEF W!DefaultViews
  <2> QED BY <1>4, <2>1 DEF StoredViews, Bare
<1>5. CASE tabs = {} /\ TabGroups[c].ws = NoWs
  <2>1. W!DefaultViews(TabGroups, c) = {}
    BY <1>1, <1>5 DEF W!DefaultViews
  <2> QED BY <1>5, <2>1 DEF Bare, tabs
<1> QED BY <1>3, <1>4, <1>5

\* What is left of some views is there; doing it again changes nothing.
LEMMA NormalizedThere ==
    ASSUME NEW c \in LiveCraft, NEW views \in SUBSET StoredViews
    PROVE  LET now == W!NormalizedViews(TabGroups, c, views)
           IN  /\ now \subseteq StoredViews
               /\ W!NormalizedViews(TabGroups, c, now) = now
               /\ now = {} <=> Bare(c)
<1> DEFINE tabs == DOMAIN TabGroups[c].url
           default == W!DefaultViews(TabGroups, c)
           valid(v) == IF TabGroups[c].ws # NoWs THEN v ELSE v \cap tabs
           norm(v) == IF valid(v) # {} THEN valid(v) ELSE default
<1>1. W!TabsOf(TabGroups, c) = tabs
  BY LiveCraftHas
<1>2. \A v : W!NormalizedViews(TabGroups, c, v) = norm(v)
  BY <1>1 DEF W!NormalizedViews
<1>3. /\ default \subseteq StoredViews
      /\ TabGroups[c].ws = NoWs => default \subseteq tabs
      /\ default = {} <=> (tabs = {} /\ TabGroups[c].ws = NoWs)
  BY DefaultThere DEF Bare
<1> HIDE DEF default, tabs
<1>4. norm(views) \subseteq StoredViews /\ norm(norm(views)) = norm(views)
  BY <1>3
<1>5. norm(views) = {} <=> (tabs = {} /\ TabGroups[c].ws = NoWs)
  BY <1>3
<1> HIDE DEF norm
<1> QED BY <1>2, <1>4, <1>5 DEF Bare, tabs

\* The item that stands for the views of an entry is none only of a bare craft.
LEMMA ItemThere ==
    ASSUME NEW c \in LiveCraft, NEW views \in SUBSET StoredViews, views = {} => Bare(c)
    PROVE  ItemForViews(c, views) = None <=> Bare(c)
<1> DEFINE tabs == DOMAIN TabGroups[c].url
           pair == {p \in TabGroups[c].pairs : Cardinality(views) > 1 /\ p.of = views}
<1>1. /\ tabs \subseteq Nat /\ W!TabsOf(TabGroups, c) = tabs
      /\ \A p \in TabGroups[c].pairs : p.id \in Nat
      /\ tabs = {} => TabGroups[c].pairs = {}
  BY LiveCraftHas
<1>2. None \notin StoredViews
  BY SavedAssumption
<1>3. CASE pair # {}
  <2>1. ItemForViews(c, views) = (CHOOSE p \in pair : TRUE).id
    BY <1>3 DEF ItemForViews
  <2>2. (CHOOSE p \in pair : TRUE) \in TabGroups[c].pairs
    BY <1>3
  <2> QED BY <1>1, <1>2, <2>1, <2>2 DEF StoredViews, Bare
<1>4. CASE pair = {} /\ views # {} /\ (First(views) \in tabs \/ TabGroups[c].ws # NoWs)
  <2>1. ItemForViews(c, views) = First(views)
    BY <1>4 DEF ItemForViews
  <2>2. First(views) \in views
    BY <1>4 DEF First
  <2> QED BY <1>2, <1>4, <2>1, <2>2 DEF Bare
<1>5. CASE pair = {} /\ ~(views # {} /\ (First(views) \in tabs \/ TabGroups[c].ws # NoWs))
  <2>1. CASE tabs # {}
    <3>1. ItemForViews(c, views) = W!Least(tabs)
      BY <1>5, <2>1 DEF ItemForViews
    <3>2. W!Least(tabs) \in tabs
      BY <1>1, <2>1, LeastId
    <3> QED BY <1>1, <1>2, <2>1, <3>1, <3>2 DEF StoredViews, Bare
  <2>2. CASE tabs = {}
    <3>1. ItemForViews(c, views) = None
      BY <1>1, <1>5, <2>2 DEF ItemForViews
    <3> QED BY <1>5, <2>2, <3>1 DEF Bare
  <2> QED BY <2>1, <2>2
<1> QED BY <1>3, <1>4, <1>5

-----------------------------------------------------------------------------
(* Stored entries.                                                         *)

\* The entry with an id.
LEMMA EntryByIdThere ==
    ASSUME NEW es \in Seq(StoredEntries), NEW id \in IdsOfEntries(es)
    PROVE  /\ \E i \in DOMAIN es : EntryById(es, id) = es[i] /\ es[i].id = id
           /\ EntryById(es, id) \in StoredEntries /\ EntryById(es, id).id = id
           /\ EntryById(es, id).craft = id[1]
<1>1. \E i \in DOMAIN es : es[i].id = id
  BY DEF IdsOfEntries
<1>2. \E i \in DOMAIN es : EntryById(es, id) = es[i] /\ es[i].id = id
  BY <1>1 DEF EntryById
<1>3. \A i \in DOMAIN es : es[i] \in StoredEntries
  OBVIOUS
<1>4. \A e \in StoredEntries : e.craft = e.id[1]
  BY DEF StoredEntries
<1> QED BY <1>2, <1>3, <1>4

\* An entry that is put together.
LEMMA StoredEntryTyped ==
    ASSUME NEW c \in Nat, NEW n \in Nat, NEW views \in SUBSET StoredViews
    PROVE  StoredEntry(<<c, n>>, c, views) \in StoredEntries
BY DEF StoredEntry, StoredEntries

\* Its parts, and it is the entry of its parts.
LEMMA EntryOfParts ==
    ASSUME NEW e \in StoredEntries
    PROVE  /\ e.id \in Nat \X Nat /\ e.craft \in Nat /\ e.views \in SUBSET StoredViews
           /\ e.craft = e.id[1]
           /\ e = StoredEntry(e.id, e.craft, e.views)
           /\ \A views \in SUBSET StoredViews : StoredEntry(e.id, e.craft, views) \in StoredEntries
BY DEF StoredEntries, StoredEntry

\* The craft they are on.
LEMMA CraftsOnTyped ==
    ASSUME NEW es \in Seq(StoredEntries)
    PROVE  CraftsOn(es) \in Seq(Nat) /\ DOMAIN CraftsOn(es) = DOMAIN es
<1>1. DOMAIN es = 1..Len(es) /\ Len(es) \in Nat /\ \A i \in DOMAIN es : es[i].craft \in Nat
  BY EntryOfParts
<1>2. CraftsOn(es) \in [1..Len(es) -> Nat]
  BY <1>1 DEF CraftsOn
<1> QED BY <1>1, <1>2

\* A repair leaves entries of craft that are there, with views that are.
LEMMA LiveEntriesThere ==
    ASSUME NEW s, SavedVoyage(s)
    PROVE  /\ LiveEntries(s) \in Seq(StoredEntries)
           /\ \A i \in DOMAIN LiveEntries(s) :
                LET e == LiveEntries(s)[i]
                IN  /\ e.craft \in LiveCraft
                    /\ e.views = W!NormalizedViews(TabGroups, e.craft, e.views)
                    /\ e.views = {} <=> Bare(e.craft)
<1> DEFINE I == {i \in DOMAIN s.entries : s.entries[i].craft \in LiveCraft}
           es == AllAt(s.entries, I)
           left(e) == StoredEntry(e.id, e.craft, W!NormalizedViews(TabGroups, e.craft, e.views))
<1>1. s.entries \in Seq(StoredEntries) /\ I \in SUBSET DOMAIN s.entries
  BY DEF SavedVoyage
<1>2. /\ es \in Seq(StoredEntries)
      /\ \A k \in DOMAIN es : \E i \in I : es[k] = s.entries[i]
  <2> HIDE DEF I
  <2> QED BY <1>1, AllAtThem
<1>3. \A k \in DOMAIN es : es[k] \in StoredEntries /\ es[k].craft \in LiveCraft
  <2> HIDE DEF es
  <2> QED BY <1>2
<1>4. LiveEntries(s) = [k \in DOMAIN es |-> left(es[k])]
  BY DEF LiveEntries
<1>5. ASSUME NEW e \in StoredEntries, e.craft \in LiveCraft
      PROVE  /\ left(e) \in StoredEntries /\ left(e).craft \in LiveCraft
             /\ left(e).views = W!NormalizedViews(TabGroups, left(e).craft, left(e).views)
             /\ left(e).views = {} <=> Bare(left(e).craft)
  <2> DEFINE now == W!NormalizedViews(TabGroups, e.craft, e.views)
  <2>1. e.views \in SUBSET StoredViews
    BY EntryOfParts
  <2>2. /\ now \subseteq StoredViews /\ W!NormalizedViews(TabGroups, e.craft, now) = now
        /\ now = {} <=> Bare(e.craft)
    BY <1>5, <2>1, NormalizedThere
  <2> HIDE DEF now
  <2>3. StoredEntry(e.id, e.craft, now) \in StoredEntries
    BY <2>2, EntryOfParts
  <2> QED BY <1>5, <2>2, <2>3 DEF StoredEntry, now
<1> HIDE DEF es, left
<1>6. DOMAIN es = 1..Len(es) /\ Len(es) \in Nat
  BY <1>2
<1>7. LiveEntries(s) \in [1..Len(es) -> StoredEntries]
  BY <1>3, <1>4, <1>5, <1>6
<1>8. LiveEntries(s) \in Seq(StoredEntries)
  BY <1>6, <1>7
<1> QED BY <1>3, <1>4, <1>5, <1>8

\* Where nothing has gone a repair leaves the entries as they are.
LEMMA LiveEntriesStay ==
    ASSUME NEW s, s.entries \in Seq(StoredEntries),
           \A i \in DOMAIN s.entries :
             /\ s.entries[i].craft \in LiveCraft
             /\ s.entries[i].views =
                  W!NormalizedViews(TabGroups, s.entries[i].craft, s.entries[i].views)
    PROVE  LiveEntries(s) = s.entries
<1> DEFINE es == s.entries
           I == {i \in DOMAIN es : es[i].craft \in LiveCraft}
           left(e) == StoredEntry(e.id, e.craft, W!NormalizedViews(TabGroups, e.craft, e.views))
<1>1. I = DOMAIN es
  OBVIOUS
<1>2. AllAt(es, I) = es
  <2> HIDE DEF I
  <2> QED BY <1>1, AllAtThem
<1>3. LiveEntries(s) = [k \in DOMAIN es |-> left(es[k])]
  BY <1>2 DEF LiveEntries
<1>4. ASSUME NEW k \in DOMAIN es PROVE left(es[k]) = es[k]
  <2>1. es[k] \in StoredEntries
    OBVIOUS
  <2> QED BY <2>1, EntryOfParts
<1> HIDE DEF left
<1> QED BY <1>3, <1>4

-----------------------------------------------------------------------------
(* Voyages that are normalised.                                            *)

\* What an item of a craft stands for, with or without the workspace.
LEMMA ItemViewsTyped ==
    ASSUME NEW cr \in {TabGroups, <<>>}, NEW c, NEW items,
           \A b \in DOMAIN items : items[b] \in StoredViews
    PROVE  ActiveItemViews(cr, c, items) \in SUBSET StoredViews
<1>1. CASE c \notin DOMAIN items
  BY <1>1 DEF ActiveItemViews
<1>2. CASE c \in DOMAIN items /\ c \notin DOMAIN cr
  BY <1>2 DEF ActiveItemViews
<1>3. CASE c \in DOMAIN items /\ c \in DOMAIN cr
  <2>1. cr = TabGroups /\ c \in LiveCraft
    BY <1>3 DEF LiveCraft
  <2>2. \A p \in cr[c].pairs : p.of \subseteq StoredViews
    BY <2>1, LiveCraftHas DEF StoredViews
  <2>3. CASE \E p \in cr[c].pairs : p.id = items[c]
    <3>1. ActiveItemViews(cr, c, items) = (CHOOSE p \in cr[c].pairs : p.id = items[c]).of
      BY <1>3, <2>3 DEF ActiveItemViews
    <3>2. (CHOOSE p \in cr[c].pairs : p.id = items[c]) \in cr[c].pairs
      BY <2>3
    <3> QED BY <2>2, <3>1, <3>2
  <2>4. CASE ~\E p \in cr[c].pairs : p.id = items[c]
    BY <1>3, <2>4 DEF ActiveItemViews
  <2> QED BY <2>3, <2>4
<1> QED BY <1>1, <1>2, <1>3

\* A normalised voyage has entries, those it had if it had any.
LEMMA NormalEntriesThere ==
    ASSUME NEW s, SavedVoyage(s), NEW cr \in {TabGroups, <<>>}
    PROVE  /\ NormalEntries(s, cr) \in Seq(StoredEntries)
           /\ NormalEntries(s, cr) # <<>>
           /\ s.entries # <<>> => NormalEntries(s, cr) = s.entries
<1>1. CASE s.entries # <<>>
  BY <1>1 DEF NormalEntries, SavedVoyage
<1>2. CASE s.entries = <<>>
  <2> DEFINE crafts == VisitedCrafts(s)
             items == ActiveItems(s)
             entry(i) == StoredEntry(<<crafts[i], i - 1>>, crafts[i],
                                     ActiveItemViews(cr, crafts[i], items))
  <2>1. crafts \in Seq(Nat) /\ Len(crafts) \in Nat \ {0} /\ DOMAIN crafts = 1..Len(crafts)
    <3>1. s.visited \in Seq(Nat) /\ s.craft \in Nat
      BY DEF SavedVoyage
    <3>2. CASE s.visited # <<>>
      <4>1. crafts = s.visited
        BY <3>2 DEF VisitedCrafts
      <4> HIDE DEF crafts
      <4> QED BY <3>1, <3>2, <4>1
    <3>3. CASE s.visited = <<>>
      <4>1. crafts = <<s.craft>>
        BY <3>3 DEF VisitedCrafts
      <4> HIDE DEF crafts
      <4> QED BY <3>1, <4>1
    <3> QED BY <3>2, <3>3
  <2>2. \A b \in DOMAIN items : items[b] \in StoredViews
    <3>1. DOMAIN s.entries = {}
      BY <1>2
    <3> QED BY <3>1 DEF ActiveItems, SavedVoyage
  <2> HIDE DEF crafts, items
  <2>3. ASSUME NEW i \in DOMAIN crafts PROVE entry(i) \in StoredEntries
    <3>1. crafts[i] \in Nat /\ i - 1 \in Nat
      BY <2>1
    <3> QED BY <2>2, <3>1, ItemViewsTyped, StoredEntryTyped
  <2>4. NormalEntries(s, cr) = [i \in DOMAIN crafts |-> entry(i)]
    BY <1>2 DEF NormalEntries, crafts, items
  <2> HIDE DEF entry
  <2>5. NormalEntries(s, cr) \in [1..Len(crafts) -> StoredEntries]
    BY <2>1, <2>3, <2>4
  <2> QED BY <1>2, <2>1, <2>5
<1> QED BY <1>1, <1>2

\* The active entry is one of them.
LEMMA ActiveEntryThere ==
    ASSUME NEW s, NEW es \in Seq(StoredEntries), es # <<>>
    PROVE  ActiveEntry(s, es) \in IdsOfEntries(es)
<1> DEFINE onCraft == {i \in DOMAIN es : es[i].craft = s.craft}
<1>1. onCraft # {} => W!Least(onCraft) \in onCraft
  <2>1. onCraft \subseteq Nat
    OBVIOUS
  <2> HIDE DEF onCraft
  <2> QED BY <2>1, LeastId
<1>2. 1 \in DOMAIN es
  OBVIOUS
<1> QED BY <1>1, <1>2 DEF ActiveEntry, IdsOfEntries

\* A voyage that is normalised.
LEMMA NormalisedSaved ==
    ASSUME NEW s, SavedVoyage(s), NEW cr \in {TabGroups, <<>>}
    PROVE  LET n == Normalised(s, cr)
           IN  /\ SavedVoyage(n) /\ n.items = None /\ n.id = s.id /\ n.name = s.name
               /\ n.entries = NormalEntries(s, cr) /\ n.entries # <<>>
               /\ n.active = ActiveEntry(s, n.entries) /\ n.active \in IdsOfEntries(n.entries)
               /\ n.craft = n.active[1]
<1> DEFINE es == NormalEntries(s, cr)
           n == Normalised(s, cr)
           active == ActiveEntry(s, es)
           seen == Distinct(s.visited \o CraftsOn(es))
<1>1. es \in Seq(StoredEntries) /\ es # <<>>
  BY NormalEntriesThere
<1> HIDE DEF es
<1>2. active \in IdsOfEntries(es)
  BY <1>1, ActiveEntryThere
<1>3. EntryById(es, active).craft \in Nat /\ EntryById(es, active).craft = active[1]
  BY <1>1, <1>2, EntryByIdThere, EntryOfParts
<1>4. CraftsOn(es) \in Seq(Nat)
  BY <1>1, CraftsOnTyped
<1>5. s.visited \in Seq(Nat)
  BY DEF SavedVoyage
<1>6. s.visited \o CraftsOn(es) \in Seq(Nat)
  BY <1>4, <1>5
<1>7. seen \in Seq(Nat)
  BY <1>6, DistinctThem
<1>8. n = [id |-> s.id, name |-> s.name, age |-> s.age, space |-> s.space,
           craft |-> EntryById(es, active).craft, visited |-> seen, items |-> None,
           entries |-> es, active |-> active, itemOf |-> Items(s, es)]
  <2>1. s = [id |-> s.id, name |-> s.name, age |-> s.age, space |-> s.space,
            craft |-> s.craft, visited |-> s.visited, items |-> s.items,
            entries |-> s.entries, active |-> s.active, itemOf |-> s.itemOf]
    BY DEF SavedVoyage
  <2>2. n = [s EXCEPT !.entries = es, !.active = active,
                      !.craft = EntryById(es, active).craft,
                      !.items = None, !.itemOf = Items(s, es), !.visited = seen]
    BY DEF Normalised, es
  <2> HIDE DEF n, active, seen
  <2> QED BY <2>1, <2>2
<1> HIDE DEF n, active, seen
<1>9. /\ n.items = None /\ n.id = s.id /\ n.name = s.name
      /\ n.entries = es /\ n.active = active /\ n.craft = n.active[1]
  BY <1>3, <1>8
<1>10. SavedVoyage(n)
  <2>1. s.id \in VoyageIds /\ s.age \in Nat
    BY DEF SavedVoyage
  <2> QED BY <1>1, <1>2, <1>3, <1>7, <1>8, <2>1 DEF SavedVoyage
<1> QED BY <1>1, <1>2, <1>9, <1>10 DEF n, es, active

-----------------------------------------------------------------------------
(* Voyages that are repaired.                                              *)

ActiveLeft(s) ==
    IF s.active \in IdsOfEntries(LiveEntries(s)) THEN s.active ELSE LiveEntries(s)[1].id
CraftLeft(s) == EntryById(LiveEntries(s), ActiveLeft(s)).craft
ItemsLeft(es) ==
    [id \in IdsOfEntries(es) |-> ItemForViews(EntryById(es, id).craft, EntryById(es, id).views)]

\* Voyages in the current format that a repair leaves as they are.
Mended(s) ==
    SavedVoyage(s) /\ s.items = None /\ LiveEntries(s) # <<>> /\ Repaired(s) = s

\* What a repair makes of a voyage of which entries are left.
LEMMA RepairedIs ==
    ASSUME NEW s, SavedVoyage(s), LiveEntries(s) # <<>>
    PROVE  /\ Repaired(s) =
                [id |-> s.id, name |-> s.name, age |-> s.age,
                 space |-> W!SpaceOf(Tree.spaces, CraftLeft(s), s.space),
                 craft |-> CraftLeft(s), visited |-> Distinct(CraftsOn(LiveEntries(s))),
                 items |-> s.items, entries |-> LiveEntries(s), active |-> ActiveLeft(s),
                 itemOf |-> ItemsLeft(LiveEntries(s))]
           /\ ActiveLeft(s) \in IdsOfEntries(LiveEntries(s))
           /\ CraftLeft(s) \in LiveCraft /\ CraftLeft(s) \in Nat /\ CraftLeft(s) = ActiveLeft(s)[1]
<1> DEFINE es == LiveEntries(s)
           active == ActiveLeft(s)
           craft == CraftLeft(s)
           seen == Distinct(CraftsOn(es))
           items == ItemsLeft(es)
           space == W!SpaceOf(Tree.spaces, craft, s.space)
<1>1. es \in Seq(StoredEntries) /\ \A i \in DOMAIN es : es[i].craft \in LiveCraft
  BY LiveEntriesThere
<1> HIDE DEF es
<1>2. active \in IdsOfEntries(es)
  <2>1. 1 \in DOMAIN es
    BY <1>1 DEF es
  <2> QED BY <2>1 DEF IdsOfEntries, ActiveLeft, es
<1>3. craft \in LiveCraft /\ craft \in Nat /\ craft = active[1]
  <2>1. craft = EntryById(es, active).craft
    BY DEF CraftLeft, es
  <2> HIDE DEF active, craft
  <2> QED BY <1>1, <1>2, <2>1, EntryByIdThere, EntryOfParts
<1>4. Repaired(s) = [s EXCEPT !.entries = es, !.active = active, !.craft = craft,
                              !.space = space, !.itemOf = items, !.visited = seen]
  BY DEF Repaired, CraftLeft, ActiveLeft, ItemsLeft, es
<1>5. s = [id |-> s.id, name |-> s.name, age |-> s.age, space |-> s.space,
          craft |-> s.craft, visited |-> s.visited, items |-> s.items,
          entries |-> s.entries, active |-> s.active, itemOf |-> s.itemOf]
  BY DEF SavedVoyage
<1> HIDE DEF active, craft, seen, items, space
<1>6. Repaired(s) = [id |-> s.id, name |-> s.name, age |-> s.age, space |-> space,
                     craft |-> craft, visited |-> seen, items |-> s.items,
                     entries |-> es, active |-> active, itemOf |-> items]
  BY <1>4, <1>5
<1> QED BY <1>2, <1>3, <1>6 DEF active, craft, seen, items, space, es

\* The space of a craft does not depend on what is taken without one.
LEMMA SpaceThere ==
    ASSUME NEW c \in LiveCraft, NEW a, NEW b
    PROVE  /\ W!SpaceOf(Tree.spaces, c, a) = W!SpaceOf(Tree.spaces, c, b)
           /\ W!SpaceOf(Tree.spaces, c, a) \in DOMAIN Tree.spaces
           /\ c \in Tree.spaces[W!SpaceOf(Tree.spaces, c, a)]
<1>1. \E sp \in DOMAIN Tree.spaces : c \in Tree.spaces[sp]
  BY LiveCraftHas
<1> QED BY <1>1 DEF W!SpaceOf

\* One repair is enough.
LEMMA RepairedMended ==
    ASSUME NEW s, SavedVoyage(s), s.items = None, LiveEntries(s) # <<>>
    PROVE  Mended(Repaired(s)) /\ Repaired(s).id = s.id
<1> DEFINE r == Repaired(s)
           es == LiveEntries(s)
<1>1. /\ r = [id |-> s.id, name |-> s.name, age |-> s.age,
              space |-> W!SpaceOf(Tree.spaces, CraftLeft(s), s.space),
              craft |-> CraftLeft(s), visited |-> Distinct(CraftsOn(es)),
              items |-> s.items, entries |-> es, active |-> ActiveLeft(s),
              itemOf |-> ItemsLeft(es)]
      /\ ActiveLeft(s) \in IdsOfEntries(es)
      /\ CraftLeft(s) \in LiveCraft /\ CraftLeft(s) \in Nat /\ CraftLeft(s) = ActiveLeft(s)[1]
  BY RepairedIs
<1>2. es \in Seq(StoredEntries) /\ es # <<>>
  BY LiveEntriesThere
<1>3. \A i \in DOMAIN es : /\ es[i].craft \in LiveCraft
                            /\ es[i].views = W!NormalizedViews(TabGroups, es[i].craft, es[i].views)
  BY LiveEntriesThere
<1>4. Distinct(CraftsOn(es)) \in Seq(Nat)
  BY <1>2, CraftsOnTyped, DistinctThem
<1>5. s.id \in VoyageIds /\ s.age \in Nat
  BY DEF SavedVoyage
<1> HIDE DEF r, es
<1>6. SavedVoyage(r) /\ r.items = None /\ r.id = s.id
  BY <1>1, <1>2, <1>4, <1>5 DEF SavedVoyage
<1>7. LiveEntries(r) = es
  <2>1. r.entries = es
    BY <1>1
  <2> QED BY <2>1, <1>2, <1>3, LiveEntriesStay
<1>8. ActiveLeft(r) = ActiveLeft(s)
  <2>1. r.active = ActiveLeft(s)
    BY <1>1
  <2>2. ActiveLeft(r) = IF r.active \in IdsOfEntries(es) THEN r.active ELSE es[1].id
    BY <1>7 DEF ActiveLeft
  <2> QED BY <1>1, <2>1, <2>2
<1>9. CraftLeft(r) = CraftLeft(s)
  BY <1>7, <1>8 DEF CraftLeft, es
<1>10. W!SpaceOf(Tree.spaces, CraftLeft(r), r.space) = r.space
  <2> DEFINE c == CraftLeft(s)
             sp == r.space
  <2>1. c \in LiveCraft /\ sp = W!SpaceOf(Tree.spaces, c, s.space)
    BY <1>1
  <2>2. W!SpaceOf(Tree.spaces, c, sp) = W!SpaceOf(Tree.spaces, c, s.space)
    <3> HIDE DEF c, sp
    <3> QED BY <2>1, SpaceThere
  <2> QED BY <1>9, <2>1, <2>2
<1>11. Repaired(r) =
           [id |-> r.id, name |-> r.name, age |-> r.age, space |-> r.space,
            craft |-> CraftLeft(s), visited |-> Distinct(CraftsOn(es)),
            items |-> r.items, entries |-> es, active |-> ActiveLeft(s),
            itemOf |-> ItemsLeft(es)]
  BY <1>2, <1>6, <1>7, <1>8, <1>9, <1>10, RepairedIs
<1>12. Repaired(r) = r
  BY <1>1, <1>11
<1> QED BY <1>2, <1>6, <1>7, <1>12 DEF Mended, r

\* What the parts of a mended voyage are.
LEMMA MendedIs ==
    ASSUME NEW s, Mended(s)
    PROVE  /\ s.entries \in Seq(StoredEntries) /\ s.entries # <<>> /\ LiveEntries(s) = s.entries
           /\ \A i \in DOMAIN s.entries :
                /\ s.entries[i].craft \in LiveCraft
                /\ s.entries[i].views = {} <=> Bare(s.entries[i].craft)
           /\ s.active \in IdsOfEntries(s.entries)
           /\ s.craft = EntryById(s.entries, s.active).craft
           /\ s.craft \in LiveCraft /\ s.craft = s.active[1]
           /\ s.space = W!SpaceOf(Tree.spaces, s.craft, s.space)
           /\ s.visited = Distinct(CraftsOn(s.entries))
           /\ s.itemOf = ItemsLeft(s.entries)
<1>1. SavedVoyage(s) /\ LiveEntries(s) # <<>> /\ Repaired(s) = s
  BY DEF Mended
<1>2. /\ s = [id |-> s.id, name |-> s.name, age |-> s.age,
              space |-> W!SpaceOf(Tree.spaces, CraftLeft(s), s.space),
              craft |-> CraftLeft(s), visited |-> Distinct(CraftsOn(LiveEntries(s))),
              items |-> s.items, entries |-> LiveEntries(s), active |-> ActiveLeft(s),
              itemOf |-> ItemsLeft(LiveEntries(s))]
      /\ ActiveLeft(s) \in IdsOfEntries(LiveEntries(s))
      /\ CraftLeft(s) \in LiveCraft /\ CraftLeft(s) = ActiveLeft(s)[1]
  BY <1>1, RepairedIs
<1>3. /\ s.entries = LiveEntries(s) /\ s.active = ActiveLeft(s) /\ s.craft = CraftLeft(s)
      /\ s.space = W!SpaceOf(Tree.spaces, CraftLeft(s), s.space)
      /\ s.visited = Distinct(CraftsOn(LiveEntries(s)))
      /\ s.itemOf = ItemsLeft(LiveEntries(s))
  BY <1>2
<1>4. CraftLeft(s) = EntryById(LiveEntries(s), ActiveLeft(s)).craft
  BY DEF CraftLeft
<1>5. /\ LiveEntries(s) \in Seq(StoredEntries)
      /\ \A i \in DOMAIN LiveEntries(s) :
           /\ LiveEntries(s)[i].craft \in LiveCraft
           /\ LiveEntries(s)[i].views = {} <=> Bare(LiveEntries(s)[i].craft)
  BY <1>1, LiveEntriesThere
<1> QED BY <1>1, <1>2, <1>3, <1>4, <1>5

\* The item of an entry of a mended voyage is its own, and none only if it
\* shows nothing.
LEMMA ItemOfMended ==
    ASSUME NEW s, Mended(s), NEW i \in DOMAIN s.entries
    PROVE  /\ OwnItem(s, s.entries[i]) = s.itemOf[s.entries[i].id]
           /\ OwnItem(s, s.entries[i]) = None <=> Bare(s.entries[i].craft)
           /\ ItemOfEntry(s, s.entries[i]) = OwnItem(s, s.entries[i])
<1> DEFINE es == s.entries
           e == es[i]
           own == EntryById(es, e.id)
<1>1. /\ es \in Seq(StoredEntries) /\ s.itemOf = ItemsLeft(es)
      /\ \A k \in DOMAIN es : es[k].craft \in LiveCraft /\ (es[k].views = {} <=> Bare(es[k].craft))
  BY MendedIs
<1>2. e \in StoredEntries /\ e.id \in IdsOfEntries(es) /\ e.craft = e.id[1]
  <2>1. e \in StoredEntries /\ e.id \in IdsOfEntries(es)
    BY <1>1 DEF IdsOfEntries
  <2> HIDE DEF e
  <2> QED BY <2>1, EntryOfParts
<1>3. /\ own \in StoredEntries /\ own.craft = e.craft
      /\ own.craft \in LiveCraft /\ (own.views = {} <=> Bare(own.craft))
  <2>1. \E k \in DOMAIN es : own = es[k]
    BY <1>1, <1>2, EntryByIdThere
  <2>2. own \in StoredEntries /\ own.craft = e.id[1]
    BY <1>1, <1>2, EntryByIdThere
  <2> HIDE DEF own
  <2> QED BY <1>1, <1>2, <2>1, <2>2
<1>4. s.itemOf[e.id] = ItemForViews(own.craft, own.views) /\ e.id \in DOMAIN s.itemOf
  BY <1>1, <1>2 DEF ItemsLeft
<1>5. own.views \in SUBSET StoredViews
  BY <1>3, EntryOfParts
<1> HIDE DEF own
<1>6. s.itemOf[e.id] = None <=> Bare(e.craft)
  BY <1>3, <1>4, <1>5, ItemThere
<1>7. OwnItem(s, e) = s.itemOf[e.id]
  BY <1>4 DEF OwnItem
<1>8. ItemOfEntry(s, e) = OwnItem(s, e)
  <2>1. Bare(e.craft) => e.views = {}
    BY <1>1
  <2> HIDE DEF e
  <2> QED BY <1>6, <1>7, <2>1 DEF ItemOfEntry
<1> QED BY <1>6, <1>7, <1>8

\* Reading a mended voyage changes nothing of it.
LEMMA MendedNormalised ==
    ASSUME NEW s, Mended(s)
    PROVE  Normalised(s, <<>>) = s
<1> DEFINE es == s.entries
<1>1. SavedVoyage(s) /\ s.items = None
  BY DEF Mended
<1>2. /\ es \in Seq(StoredEntries) /\ es # <<>> /\ s.active \in IdsOfEntries(es)
      /\ s.craft = EntryById(es, s.active).craft
      /\ s.visited = Distinct(CraftsOn(es)) /\ s.itemOf = ItemsLeft(es)
      /\ \A k \in DOMAIN es : es[k].craft \in LiveCraft /\ (es[k].views = {} <=> Bare(es[k].craft))
  BY MendedIs
<1>3. NormalEntries(s, <<>>) = es
  BY <1>2 DEF NormalEntries
<1>4. ActiveEntry(s, es) = s.active
  BY <1>2 DEF ActiveEntry
<1>5. Distinct(s.visited \o CraftsOn(es)) = s.visited
  <2>1. CraftsOn(es) \in Seq(Nat)
    BY <1>2, CraftsOnTyped
  <2> QED BY <1>2, <2>1, DistinctAgain
<1>6. Items(s, es) = s.itemOf
  <2>1. ASSUME NEW id \in IdsOfEntries(es)
        PROVE  (IF OwnItem(s, EntryById(es, id)) = None
                   /\ EntryById(es, id).craft \in DOMAIN ActiveItems(s)
                THEN ActiveItems(s)[EntryById(es, id).craft]
                ELSE ItemOfEntry(s, EntryById(es, id))) = s.itemOf[id]
    <3> DEFINE e == EntryById(es, id)
               having == {i \in DOMAIN es : ItemOfEntry(s, es[i]) # None}
    <3>1. PICK i \in DOMAIN es : e = es[i] /\ es[i].id = id
      BY <1>2, EntryByIdThere
    <3>2. ItemOfEntry(s, e) = s.itemOf[id] /\ OwnItem(s, e) = s.itemOf[id]
          /\ (OwnItem(s, e) = None <=> Bare(e.craft))
      <4> HIDE DEF e, es
      <4> QED BY <3>1, ItemOfMended DEF es
    <3>3. ASSUME Bare(e.craft) PROVE e.craft \notin DOMAIN ActiveItems(s)
      <4>1. DOMAIN ActiveItems(s) = {es[k].craft : k \in having}
        BY <1>1 DEF ActiveItems
      <4>2. ASSUME NEW k \in having PROVE es[k].craft # e.craft
        <5>1. k \in DOMAIN es /\ ItemOfEntry(s, es[k]) # None
          OBVIOUS
        <5>2. ~Bare(es[k].craft)
          BY <5>1, ItemOfMended
        <5> QED BY <3>3, <5>2
      <4> HIDE DEF having, e
      <4> QED BY <4>1, <4>2
    <3> HIDE DEF e
    <3> QED BY <3>2, <3>3 DEF e
  <2>2. Items(s, es) = [id \in IdsOfEntries(es) |->
           IF OwnItem(s, EntryById(es, id)) = None
              /\ EntryById(es, id).craft \in DOMAIN ActiveItems(s)
           THEN ActiveItems(s)[EntryById(es, id).craft]
           ELSE ItemOfEntry(s, EntryById(es, id))]
    BY DEF Items
  <2>3. s.itemOf = [id \in IdsOfEntries(es) |-> s.itemOf[id]]
    BY <1>2 DEF ItemsLeft
  <2> HIDE DEF es
  <2> QED BY <2>1, <2>2, <2>3
<1>7. Normalised(s, <<>>) = [s EXCEPT !.entries = es, !.active = s.active, !.craft = s.craft,
                                      !.items = None, !.itemOf = s.itemOf, !.visited = s.visited]
  BY <1>2, <1>3, <1>4, <1>5, <1>6 DEF Normalised
<1>8. s = [id |-> s.id, name |-> s.name, age |-> s.age, space |-> s.space,
          craft |-> s.craft, visited |-> s.visited, items |-> s.items,
          entries |-> s.entries, active |-> s.active, itemOf |-> s.itemOf]
  BY <1>1 DEF SavedVoyage
<1> QED BY <1>1, <1>7, <1>8

\* A mended voyage can be resumed, as Workspace has it.
LEMMA MendedResumable ==
    ASSUME NEW s, Mended(s)
    PROVE  W!Resumable(Voyage(s), TabGroups, Tree.spaces)
<1> DEFINE es == s.entries
           v == Voyage(s)
<1>1. /\ es \in Seq(StoredEntries) /\ s.active \in IdsOfEntries(es)
      /\ s.craft \in LiveCraft /\ s.craft = s.active[1]
      /\ s.space = W!SpaceOf(Tree.spaces, s.craft, s.space)
      /\ s.visited = Distinct(CraftsOn(es))
      /\ \A k \in DOMAIN es : es[k].craft \in LiveCraft
  BY MendedIs
<1>2. s.space \in DOMAIN Tree.spaces /\ s.craft \in Tree.spaces[s.space]
  BY <1>1, SpaceThere
<1>3. /\ v.active = s.active /\ v.craft = s.craft /\ v.space = s.space
      /\ v.visited = ToSet(s.visited) /\ DOMAIN v.entries = IdsOfEntries(es)
  BY DEF Voyage, ViewsById
<1>4. \A k \in DOMAIN es : es[k].craft = es[k].id[1]
  <2>1. \A k \in DOMAIN es : es[k] \in StoredEntries
    BY <1>1
  <2> QED BY <2>1, EntryOfParts
<1>5. W!CraftsOf(v.entries) = {es[k].craft : k \in DOMAIN es}
  <2>1. W!CraftsOf(v.entries) = {id[1] : id \in IdsOfEntries(es)}
    BY <1>3 DEF W!CraftsOf, W!CraftOf
  <2>2. \A c : c \in {id[1] : id \in IdsOfEntries(es)} <=> \E k \in DOMAIN es : c = es[k].id[1]
    BY DEF IdsOfEntries
  <2> QED BY <1>4, <2>1, <2>2
<1>6. ToSet(s.visited) = {es[k].craft : k \in DOMAIN es}
  <2>1. CraftsOn(es) \in Seq(Nat)
    BY <1>1, CraftsOnTyped
  <2>2. ToSet(s.visited) = ToSet(CraftsOn(es))
    BY <1>1, <2>1, DistinctThem
  <2>3. ToSet(CraftsOn(es)) = {es[k].craft : k \in DOMAIN es}
    BY DEF ToSet, CraftsOn
  <2> QED BY <2>2, <2>3
<1> HIDE DEF v, es
<1>7. W!CraftsOf(v.entries) \subseteq DOMAIN TabGroups
  BY <1>1, <1>5 DEF LiveCraft
<1> QED BY <1>1, <1>2, <1>3, <1>5, <1>6, <1>7 DEF W!Resumable, W!CraftOf, v

-----------------------------------------------------------------------------
(* Lists of voyages.                                                       *)

SavedData(data) ==
    /\ \A s \in data : SavedVoyage(s)
    /\ \A s, t \in data : s.id = t.id => s = t

\* A list that is normalised.
LEMMA AllNormalisedSaved ==
    ASSUME NEW data, SavedData(data), NEW cr \in {TabGroups, <<>>}
    PROVE  /\ SavedData(AllNormalised(data, cr))
           /\ \A s \in AllNormalised(data, cr) : s.items = None
<1>1. \A s \in data :
        SavedVoyage(Normalised(s, cr)) /\ Normalised(s, cr).items = None /\ Normalised(s, cr).id = s.id
  BY NormalisedSaved DEF SavedData
<1>2. ASSUME NEW s \in data, NEW t \in data, Normalised(s, cr).id = Normalised(t, cr).id
      PROVE  s = t
  BY <1>1, <1>2 DEF SavedData
<1> QED BY <1>1, <1>2 DEF SavedData, AllNormalised

\* A store that is migrated.
LEMMA MigratedSaved ==
    ASSUME NEW st, SavedStore(st)
    PROVE  SavedStore(Migrated(st)) /\ Migrated(st).version = Current
<1> DEFINE all == AllNormalised(st.data, TabGroups)
           data == {s \in all : ~isHomeVoyage(s)}
           left == Deduped(data, {})
<1>1. SavedData(st.data)
  BY DEF SavedStore, SavedData
<1>2. SavedData(all) /\ \A s \in all : s.items = None
  BY <1>1, AllNormalisedSaved
<1>3. left \subseteq all
  BY DEF Deduped
<1>4. Migrated(st) = [version |-> Current, data |-> left]
  BY DEF Migrated
<1> HIDE DEF all, left
<1> QED BY <1>2, <1>3, <1>4 DEF SavedStore, SavedData, Current

\* What a start leaves is mended, whatever was stored.
LEMMA BootedMended ==
    ASSUME NEW st, SavedStore(st)
    PROVE  /\ SavedStore(Booted(st)) /\ Booted(st).version = Current
           /\ \A s \in Booted(st).data : Mended(s)
<1> DEFINE now == IF isMigrated(st) THEN st ELSE Migrated(st)
           all == AllNormalised(now.data, <<>>)
           left == {t \in all : LiveEntries(t) # <<>>}
           data == {Repaired(s) : s \in left}
<1>1. SavedStore(now)
  BY MigratedSaved
<1>2. SavedData(now.data)
  BY <1>1 DEF SavedStore, SavedData
<1>3. SavedData(all) /\ \A s \in all : s.items = None
  BY <1>2, AllNormalisedSaved
<1>4. Booted(st) = [version |-> Current, data |-> data]
  BY DEF Booted, AllRepaired
<1> HIDE DEF all
<1>5. \A s \in left : Mended(Repaired(s)) /\ Repaired(s).id = s.id
  <2>1. ASSUME NEW s \in left PROVE SavedVoyage(s) /\ s.items = None /\ LiveEntries(s) # <<>>
    BY <1>3 DEF SavedData
  <2> HIDE DEF left
  <2> QED BY <2>1, RepairedMended
<1>6. ASSUME NEW s \in left, NEW t \in left, Repaired(s).id = Repaired(t).id PROVE s = t
  BY <1>3, <1>5, <1>6 DEF SavedData
<1> HIDE DEF left
<1>7. SavedData(data) /\ \A s \in data : Mended(s) /\ s.items = None
  BY <1>5, <1>6 DEF SavedData, Mended
<1> HIDE DEF data
<1> QED BY <1>4, <1>7 DEF SavedStore, SavedData, Current

\* Another start leaves what is mended as it is.
LEMMA BootedAgain ==
    ASSUME NEW data, \A s \in data : Mended(s)
    PROVE  /\ AllNormalised(data, <<>>) = data
           /\ Booted([version |-> Current, data |-> data]) = [version |-> Current, data |-> data]
<1> DEFINE st == [version |-> Current, data |-> data]
<1>1. \A s \in data : Normalised(s, <<>>) = s
  BY MendedNormalised
<1>2. AllNormalised(data, <<>>) = data
  BY <1>1 DEF AllNormalised
<1>3. AllRepaired(data) = data
  BY DEF AllRepaired, Mended
<1>4. isMigrated(st)
  BY DEF isMigrated
<1> QED BY <1>2, <1>3, <1>4 DEF Booted

\* The voyages of a running server are voyages of Workspace that can be resumed.
LEMMA MendedVoyageInv ==
    ASSUME \A s \in store.data : Mended(s)
    PROVE  W!VoyageInv
<1>1. ASSUME NEW id \in IdsOf(store.data)
      PROVE  W!Resumable(Voyage(VoyageOf(store.data, id)), TabGroups, Tree.spaces)
  <2>1. VoyageOf(store.data, id) \in store.data
    BY DEF VoyageOf, IdsOf
  <2> QED BY <2>1, MendedResumable
<1>2. /\ DOMAIN VoyagesById(store.data) = IdsOf(store.data)
      /\ \A id \in IdsOf(store.data) :
           VoyagesById(store.data)[id] = Voyage(VoyageOf(store.data, id))
  BY DEF VoyagesById
<1> QED BY <1>1, <1>2 DEF W!VoyageInv, TabGroups

-----------------------------------------------------------------------------
(* Duplicates.                                                             *)

\* Of voyages there is always one to be kept.
LEMMA BestThere ==
    ASSUME NEW group, group # {}, \A s \in group : SavedVoyage(s), NEW referenced
    PROVE  \E t \in group : \A u \in group : Better(t, u, referenced)
<1> DEFINE isIn(x) == IF x.id \in referenced THEN 1 ELSE 0
           top == IF \E s \in group : isIn(s) = 1 THEN 1 ELSE 0
           first == {s \in group : isIn(s) = top}
           ages == {s.age : s \in first}
           youngest == Min(ages)
           second == {s \in first : s.age = youngest}
           ids == {s.id : s \in second}
<1>1. \A s \in group : s.id \in Nat /\ s.age \in Nat /\ isIn(s) \in {0, 1}
  BY SavedAssumption DEF SavedVoyage
<1>2. first # {} /\ \A s \in group : top > isIn(s) \/ top = isIn(s)
  OBVIOUS
<1>3. ages \subseteq Nat /\ ages # {}
  BY <1>1, <1>2
<1>4. youngest \in ages /\ \A a \in ages : youngest <= a
  <2> HIDE DEF ages
  <2> QED BY <1>3, LeastPlace
<1>5. ids \subseteq Nat /\ ids # {}
  <2> HIDE DEF youngest
  <2> QED BY <1>1, <1>4
<1>6. Min(ids) \in ids /\ \A a \in ids : Min(ids) <= a
  <2> HIDE DEF ids
  <2> QED BY <1>5, LeastPlace
<1>7. PICK t \in second : t.id = Min(ids)
  BY <1>6
<1> HIDE DEF top, youngest
<1>8. ASSUME NEW u \in group PROVE Better(t, u, referenced)
  <2>1. t \in group /\ isIn(t) = top /\ t.age = youngest
    BY <1>7
  <2>2. CASE top > isIn(u)
    BY <2>1, <2>2 DEF Better
  <2>3. CASE top = isIn(u)
    <3>1. u.age \in ages
      BY <2>3
    <3>2. youngest <= u.age
      BY <1>4, <3>1
    <3>3. CASE youngest = u.age
      <4>1. u.id \in ids
        BY <2>3, <3>3
      <4>2. t.id <= u.id
        BY <1>6, <1>7, <4>1
      <4> QED BY <2>1, <2>3, <3>3, <4>2 DEF Better
    <3>4. CASE youngest < u.age
      BY <2>1, <2>3, <3>4 DEF Better
    <3> QED BY <1>1, <1>3, <1>4, <3>2, <3>3, <3>4
  <2> QED BY <1>2, <2>2, <2>3
<1> QED BY <1>7, <1>8

\* What is kept for a voyage has what it has.
LEMMA KeeperThere ==
    ASSUME NEW data, SavedData(data), NEW s \in data, NEW referenced
    PROVE  \E t \in data : /\ Keeper(data, s, referenced) = t.id
                           /\ sessionSignature(t) = sessionSignature(s)
                           /\ Keeper(data, t, referenced) = t.id
<1> DEFINE group == {t \in data : sessionSignature(t) = sessionSignature(s)}
           kept == CHOOSE t \in group : \A u \in group : Better(t, u, referenced)
<1>1. s \in group /\ \A t \in group : SavedVoyage(t)
  BY DEF SavedData
<1> HIDE DEF group
<1>2. \E t \in group : \A u \in group : Better(t, u, referenced)
  BY <1>1, BestThere
<1>3. kept \in group
  BY <1>2
<1>4. Keeper(data, s, referenced) = kept.id
  BY DEF Keeper, group
<1>5. kept \in data /\ sessionSignature(kept) = sessionSignature(s)
  <2> HIDE DEF kept
  <2> QED BY <1>3 DEF group
<1>6. Keeper(data, kept, referenced) = kept.id
  <2>1. Keeper(data, kept, referenced) = Keeper(data, s, referenced)
    <3> HIDE DEF kept
    <3> QED BY <1>5 DEF Keeper
  <2> QED BY <1>4, <2>1
<1> QED BY <1>4, <1>5, <1>6

-----------------------------------------------------------------------------
(* What is stored.                                                         *)

\* The inductive invariant: what a running server has is mended.
StoreInv ==
    /\ StoreTypeOK
    /\ running => isMigrated(store) /\ \A s \in store.data : Mended(s)

\* The stores that versions may have left.
LEMMA StoreInitHolds == StoreInit => StoreInv
<1> SUFFICES ASSUME StoreInit PROVE StoreInv
  OBVIOUS
<1>1. SavedStore(store) /\ running = FALSE /\ scripts = 0 /\ MaxScripts \in Nat
  BY SavedAssumption DEF StoreInit
<1>2. IdsOf(store.data) \subseteq VoyageIds
  BY <1>1 DEF IdsOf, SavedStore, SavedVoyage
<1>3. resume \in [Origins -> VoyageIds \cup {None}]
  BY <1>2 DEF StoreInit
<1>4. scripts \in 0..MaxScripts
  BY <1>1
<1>5. ~running /\ running \in BOOLEAN
  BY <1>1
<1> QED BY <1>1, <1>3, <1>4, <1>5 DEF StoreInv, StoreTypeOK

\* A start mends what it finds, whatever it is.
LEMMA ServerStartKeeps == StoreInv /\ ServerStart => StoreInv'
<1> SUFFICES ASSUME StoreInv, ServerStart PROVE StoreInv'
  OBVIOUS
<1>1. SavedStore(store)
  BY DEF StoreInv, StoreTypeOK
<1>2. store' = Booted(store) /\ running' = TRUE /\ UNCHANGED <<resume, scripts>>
  BY DEF ServerStart
<1>3. SavedStore(store') /\ isMigrated(store') /\ \A s \in store'.data : Mended(s)
  BY <1>1, <1>2, BootedMended DEF isMigrated
<1> QED BY <1>2, <1>3 DEF StoreInv, StoreTypeOK

\* A start that is cut off leaves what may be stored.
LEMMA StartCutKeeps == StoreInv /\ StartCut => StoreInv'
<1> SUFFICES ASSUME StoreInv, StartCut PROVE StoreInv'
  OBVIOUS
<1>1. SavedStore(store)
  BY DEF StoreInv, StoreTypeOK
<1>2. store' = Migrated(store) /\ ~running' /\ UNCHANGED <<resume, running, scripts>>
  BY DEF StartCut
<1>3. SavedStore(store')
  BY <1>1, <1>2, MigratedSaved
<1> QED BY <1>2, <1>3 DEF StoreInv, StoreTypeOK

\* A new voyage is mended, and the repair of a save changes no other.
LEMMA SaveKeeps ==
    ASSUME StoreInv, NEW s \in NewVoyages, Save(s)
    PROVE  StoreInv'
<1>1. SavedStore(store) /\ running /\ \A t \in store.data : Mended(t)
  BY DEF StoreInv, StoreTypeOK, Save
<1>2. Mended(s) /\ SavedVoyage(s)
  BY SavedAssumption DEF Mended
<1>3. store' = [version |-> Current, data |-> store.data \cup {s}]
  BY <1>1, BootedAgain DEF Save
<1>4. \A t \in store.data : t.id # s.id
  BY DEF Save, IdsOf
<1>5. SavedStore(store') /\ isMigrated(store') /\ \A t \in store'.data : Mended(t)
  <2>1. \A t \in store.data \cup {s} : Mended(t) /\ SavedVoyage(t) /\ t.items = None
    BY <1>1, <1>2 DEF Mended
  <2> QED BY <1>1, <1>3, <1>4, <2>1 DEF SavedStore, isMigrated, Current
<1> QED BY <1>5 DEF StoreInv, StoreTypeOK, Save

\* What a script leaves is some of what it reads.
LEMMA ScriptLeaves ==
    ASSUME StoreInv, Run, NEW left, left \subseteq getSessions(store),
           store' = createSessionsState(left),
           resume' \in [Origins -> VoyageIds \cup {None}]
    PROVE  StoreInv'
<1>1. SavedStore(store)
  BY DEF StoreInv, StoreTypeOK
<1>2. left \subseteq store.data
  BY DEF getSessions
<1>3. SavedStore(store')
  BY <1>1, <1>2 DEF SavedStore, createSessionsState, isMigrated, Current
<1>4. ~running' /\ running' \in BOOLEAN /\ scripts' \in 0..MaxScripts
  BY SavedAssumption DEF Run, StoreInv, StoreTypeOK
<1> QED BY <1>3, <1>4 DEF StoreInv, StoreTypeOK

\* Voyages removed by a script.
LEMMA RemovedKeeps ==
    ASSUME StoreInv, Run, NEW ids, Removed(getSessions(store), ids)
    PROVE  StoreInv'
<1>1. {s \in getSessions(store) : s.id \notin ids} \subseteq getSessions(store)
  OBVIOUS
<1>2. resume \in [Origins -> VoyageIds \cup {None}]
  BY DEF StoreInv, StoreTypeOK
<1>3. resume' \in [Origins -> VoyageIds \cup {None}]
  BY <1>2 DEF Removed
<1> QED BY <1>1, <1>3, ScriptLeaves DEF Removed

\* Of duplicates the script keeps what was stored.
LEMMA DedupeKeeps == StoreInv /\ Dedupe => StoreInv'
<1> SUFFICES ASSUME StoreInv, Dedupe PROVE StoreInv'
  OBVIOUS
<1> DEFINE sessions == getSessions(store)
           referenced == {resume[o] : o \in Origins} \ {None}
<1>1. SavedData(sessions)
  BY DEF StoreInv, StoreTypeOK, SavedStore, SavedData, getSessions
<1>2. /\ Run /\ store' = createSessionsState(Deduped(sessions, referenced))
      /\ resume' = [o \in Origins |->
                      IF resume[o] \in IdsOf(sessions)
                      THEN Keeper(sessions, VoyageOf(sessions, resume[o]), referenced)
                      ELSE resume[o]]
  BY DEF Dedupe
<1> HIDE DEF sessions, referenced
<1>3. Deduped(sessions, referenced) \subseteq sessions
  BY DEF Deduped
<1>4. ASSUME NEW id \in IdsOf(sessions)
      PROVE  Keeper(sessions, VoyageOf(sessions, id), referenced) \in VoyageIds
  <2>1. VoyageOf(sessions, id) \in sessions
    BY DEF VoyageOf, IdsOf
  <2>2. PICK t \in sessions : Keeper(sessions, VoyageOf(sessions, id), referenced) = t.id
    BY <1>1, <2>1, KeeperThere
  <2> QED BY <1>1, <2>2 DEF SavedData, SavedVoyage
<1>5. resume \in [Origins -> VoyageIds \cup {None}]
  BY DEF StoreInv, StoreTypeOK
<1>6. resume' \in [Origins -> VoyageIds \cup {None}]
  BY <1>2, <1>4, <1>5
<1> QED BY <1>2, <1>3, <1>6, ScriptLeaves DEF sessions

\* Every step keeps the invariant.
LEMMA StoreNextKeeps == StoreInv /\ [StoreNext]_storeVars => StoreInv'
<1> SUFFICES ASSUME StoreInv, [StoreNext]_storeVars PROVE StoreInv'
  OBVIOUS
<1>1. CASE ServerStart
  BY <1>1, ServerStartKeeps
<1>2. CASE StartCut
  BY <1>2, StartCutKeeps
<1>3. CASE Stop
  BY <1>3 DEF Stop, StoreInv, StoreTypeOK
<1>4. CASE Dedupe
  BY <1>4, DedupeKeeps
<1>5. CASE RemoveHome
  BY <1>5, RemovedKeeps DEF RemoveHome
<1>6. ASSUME NEW id \in VoyageIds, RemoveById(id) PROVE StoreInv'
  BY <1>6, RemovedKeeps DEF RemoveById
<1>7. ASSUME NEW s \in NewVoyages, Save(s) PROVE StoreInv'
  BY <1>7, SaveKeeps
<1>8. CASE UNCHANGED storeVars
  BY <1>8 DEF storeVars, StoreInv, StoreTypeOK
<1> QED BY <1>1, <1>2, <1>3, <1>4, <1>5, <1>6, <1>7, <1>8 DEF StoreNext, Script

\* With the invariant Workspace has what it assumes.
LEMMA StoreInvGives == StoreInv => WorkspaceAccepts
<1> SUFFICES ASSUME StoreInv PROVE WorkspaceAccepts
  OBVIOUS
<1>1. CASE ~running
  BY <1>1 DEF StoreInv, WorkspaceAccepts
<1>2. CASE running
  <2>1. StoreTypeOK /\ isMigrated(store) /\ \A s \in store.data : Mended(s)
    BY <1>2 DEF StoreInv
  <2>2. store = [version |-> Current, data |-> store.data]
    BY <2>1 DEF StoreTypeOK, SavedStore, isMigrated
  <2>3. Booted(store) = store
    BY <2>1, <2>2, BootedAgain
  <2>4. W!VoyageInv
    BY <2>1, MendedVoyageInv
  <2> QED BY <2>1, <2>3, <2>4 DEF WorkspaceAccepts
<1> QED BY <1>1, <1>2

\* A server that runs has what Workspace assumes, whatever was stored and
\* wherever a start was cut off.
THEOREM AcceptedByWorkspace == StoreSpec => []WorkspaceAccepts
<1>1. StoreInit => StoreInv
  BY StoreInitHolds
<1>2. StoreInv /\ [StoreNext]_storeVars => StoreInv'
  BY StoreNextKeeps
<1>3. StoreInv => WorkspaceAccepts
  BY StoreInvGives
<1> QED BY <1>1, <1>2, <1>3, PTL DEF StoreSpec

-----------------------------------------------------------------------------
(* What a voyage shows.                                                    *)

\* Voyages of one name, on the same craft with the same views.
Alike(s, t) ==
    /\ s.name = t.name /\ s.craft = t.craft /\ CraftsIn(s) = CraftsIn(t)
    /\ \A i \in DOMAIN CraftsIn(s) :
         CraftsIn(s)[i] \in LiveCraft => ViewsOf(s, i) = ViewsOf(t, i)

\* Alike is transitive.
LEMMA AlikeTransitive ==
    ASSUME NEW s, NEW t, NEW u, Alike(s, t), Alike(t, u)
    PROVE  Alike(s, u)
BY DEF Alike

\* Alike voyages are duplicates of one another.
LEMMA AlikeTwins ==
    ASSUME NEW s, NEW t, Alike(s, t)
    PROVE  Twins(s, t)
BY DEF Alike, Twins, ShowsWhat, LiveCrafts

\* Duplicates are alike.
LEMMA SignatureAlike ==
    ASSUME NEW s, NEW t, SavedVoyage(s), SavedVoyage(t), sessionSignature(s) = sessionSignature(t)
    PROVE  Alike(s, t)
<1> DEFINE on(v) == [i \in DOMAIN v.entries |->
                       [craft |-> v.entries[i].craft, views |-> v.entries[i].views]]
<1>1. ASSUME NEW v, SavedVoyage(v)
      PROVE  sessionSignature(v) =
                 [id |-> 0, name |-> v.name, age |-> 0, space |-> v.space, craft |-> v.craft,
                  visited |-> v.visited, items |-> v.items, entries |-> on(v),
                  active |-> v.active, itemOf |-> v.itemOf]
  <2>1. v = [id |-> v.id, name |-> v.name, age |-> v.age, space |-> v.space,
            craft |-> v.craft, visited |-> v.visited, items |-> v.items,
            entries |-> v.entries, active |-> v.active, itemOf |-> v.itemOf]
    BY <1>1 DEF SavedVoyage
  <2>2. sessionSignature(v) = [v EXCEPT !.id = 0, !.age = 0, !.entries = on(v)]
    BY DEF sessionSignature
  <2> HIDE DEF on
  <2> QED BY <2>1, <2>2
<1> HIDE DEF on
<1>2. /\ s.name = t.name /\ s.craft = t.craft /\ s.visited = t.visited /\ s.items = t.items
      /\ on(s) = on(t)
  <2> DEFINE a == [id |-> 0, name |-> s.name, age |-> 0, space |-> s.space, craft |-> s.craft,
                   visited |-> s.visited, items |-> s.items, entries |-> on(s),
                   active |-> s.active, itemOf |-> s.itemOf]
             b == [id |-> 0, name |-> t.name, age |-> 0, space |-> t.space, craft |-> t.craft,
                   visited |-> t.visited, items |-> t.items, entries |-> on(t),
                   active |-> t.active, itemOf |-> t.itemOf]
  <2>1. a = b
    BY <1>1
  <2>2. /\ a.name = b.name /\ a.craft = b.craft /\ a.visited = b.visited
        /\ a.items = b.items /\ a.entries = b.entries
    <3> HIDE DEF a, b
    <3> QED BY <2>1
  <2> QED BY <2>2
<1>3. /\ DOMAIN s.entries = DOMAIN t.entries
      /\ \A i \in DOMAIN s.entries : /\ s.entries[i].craft = t.entries[i].craft
                                     /\ s.entries[i].views = t.entries[i].views
  <2>1. DOMAIN on(s) = DOMAIN s.entries /\ DOMAIN on(t) = DOMAIN t.entries
    BY DEF on
  <2>2. ASSUME NEW i \in DOMAIN s.entries
        PROVE  /\ s.entries[i].craft = t.entries[i].craft
               /\ s.entries[i].views = t.entries[i].views
    <3>1. on(s)[i] = [craft |-> s.entries[i].craft, views |-> s.entries[i].views]
      BY DEF on
    <3>2. on(t)[i] = [craft |-> t.entries[i].craft, views |-> t.entries[i].views]
      BY <1>2, <2>1 DEF on
    <3>3. on(s)[i].craft = on(t)[i].craft /\ on(s)[i].views = on(t)[i].views
      BY <1>2
    <3> QED BY <3>1, <3>2, <3>3
  <2> QED BY <1>2, <2>1, <2>2
<1>4. s.entries = <<>> <=> t.entries = <<>>
  <2>1. s.entries \in Seq(StoredEntries) /\ t.entries \in Seq(StoredEntries)
    BY DEF SavedVoyage
  <2> QED BY <1>3, <2>1
<1>5. CraftsOn(s.entries) = CraftsOn(t.entries)
  BY <1>3 DEF CraftsOn
<1>6. CraftsIn(s) = CraftsIn(t)
  BY <1>2, <1>4, <1>5 DEF CraftsIn, VisitedCrafts
<1>7. ASSUME NEW i \in DOMAIN CraftsIn(s) PROVE ViewsOf(s, i) = ViewsOf(t, i)
  <2>1. CASE s.entries # <<>>
    <3>1. i \in DOMAIN s.entries
      BY <1>7, <2>1 DEF CraftsIn, CraftsOn
    <3> QED BY <1>3, <1>4, <1>6, <2>1, <3>1 DEF ViewsOf
  <2>2. CASE s.entries = <<>>
    BY <1>2, <1>4, <1>6, <2>2 DEF ViewsOf
  <2> QED BY <2>1, <2>2
<1> QED BY <1>2, <1>6, <1>7 DEF Alike

\* The active entry of a normalised voyage is of the craft of the voyage.
LEMMA ActiveEntryOnCraft ==
    ASSUME NEW s, NEW es \in Seq(StoredEntries), s.active \notin IdsOfEntries(es),
           \E i \in DOMAIN es : es[i].craft = s.craft
    PROVE  ActiveEntry(s, es)[1] = s.craft
<1> DEFINE onCraft == {i \in DOMAIN es : es[i].craft = s.craft}
<1>1. onCraft \subseteq Nat /\ onCraft # {}
  OBVIOUS
<1>2. ActiveEntry(s, es) = es[W!Least(onCraft)].id
  BY <1>1 DEF ActiveEntry
<1> DEFINE i == W!Least(onCraft)
<1>3. i \in onCraft
  <2> HIDE DEF onCraft
  <2> QED BY <1>1, LeastId
<1> HIDE DEF i
<1>4. es[i].craft = s.craft /\ es[i] \in StoredEntries
  BY <1>3
<1> QED BY <1>2, <1>4, EntryOfParts DEF i

\* What the item of a craft stands for.
LEMMA ItemShows ==
    ASSUME NEW c \in LiveCraft, NEW items
    PROVE  LET tabs == DOMAIN TabGroups[c].url
               views == ActiveItemViews(TabGroups, c, items)
           IN  /\ views \subseteq tabs
               /\ c \notin DOMAIN items => views = {}
               /\ c \in DOMAIN items =>
                    views = ({items[c]} \cap tabs)
                              \cup UNION {p.of : p \in {q \in TabGroups[c].pairs : q.id = items[c]}}
<1> DEFINE tabs == DOMAIN TabGroups[c].url
           pairs == TabGroups[c].pairs
           named == {q \in pairs : q.id = items[c]}
           views == ActiveItemViews(TabGroups, c, items)
<1>1. \A p \in pairs : /\ p.id \notin tabs /\ p.of \subseteq tabs
                       /\ \A q \in pairs : p.id = q.id => p = q
  BY SavedAssumption
<1>2. CASE c \notin DOMAIN items
  BY <1>2 DEF ActiveItemViews
<1>3. CASE c \in DOMAIN items /\ named # {}
  <2>1. views = (CHOOSE p \in pairs : p.id = items[c]).of
    BY <1>3 DEF ActiveItemViews, LiveCraft
  <2>2. PICK p \in pairs : p.id = items[c] /\ p = CHOOSE q \in pairs : q.id = items[c]
    BY <1>3
  <2>3. named = {p}
    BY <1>1, <2>2
  <2>4. views = p.of /\ items[c] \notin tabs /\ p.of \subseteq tabs
    BY <1>1, <2>1, <2>2
  <2> HIDE DEF named, views, tabs
  <2>5. UNION {q.of : q \in named} = p.of
    BY <2>3
  <2>6. views = ({items[c]} \cap tabs) \cup UNION {q.of : q \in named}
    BY <2>4, <2>5
  <2> QED BY <1>3, <2>4, <2>6 DEF named, views, tabs
<1>4. CASE c \in DOMAIN items /\ named = {}
  <2>1. views = {items[c]} \cap tabs
    BY <1>4 DEF ActiveItemViews, LiveCraft
  <2>2. UNION {q.of : q \in named} = {}
    BY <1>4
  <2> HIDE DEF views, tabs
  <2>3. views = ({items[c]} \cap tabs) \cup UNION {q.of : q \in named} /\ views \subseteq tabs
    BY <2>1, <2>2
  <2> QED BY <1>4, <2>3 DEF views, tabs
<1> QED BY <1>2, <1>3, <1>4

\* A voyage that is normalised shows what it showed: with the workspace, or if it
\* had entries.
LEMMA NormalisedAlike ==
    ASSUME NEW s, SavedVoyage(s), NEW cr \in {TabGroups, <<>>},
           cr = TabGroups \/ s.entries # <<>>
    PROVE  Alike(s, Normalised(s, cr))
<1> DEFINE n == Normalised(s, cr)
           es == n.entries
<1>1. /\ es = NormalEntries(s, cr) /\ es # <<>> /\ es \in Seq(StoredEntries)
      /\ n.name = s.name /\ n.active = ActiveEntry(s, es)
      /\ n.active \in IdsOfEntries(es) /\ n.craft = n.active[1]
  BY NormalisedSaved, NormalEntriesThere
<1> HIDE DEF n
<1>2. CraftsIn(n) = CraftsOn(es)
  BY <1>1 DEF CraftsIn
<1>3. CraftsOn(es) = CraftsIn(s)
  <2>1. CASE s.entries # <<>>
    BY <1>1, <2>1 DEF NormalEntries, CraftsIn
  <2>2. CASE s.entries = <<>>
    <3> DEFINE crafts == VisitedCrafts(s)
    <3>1. DOMAIN es = DOMAIN crafts /\ \A i \in DOMAIN crafts : es[i].craft = crafts[i]
      BY <1>1, <2>2 DEF NormalEntries, StoredEntry
    <3>2. crafts = [i \in DOMAIN crafts |-> crafts[i]]
      BY DEF VisitedCrafts, SavedVoyage
    <3> HIDE DEF crafts
    <3>3. CraftsOn(es) = crafts
      BY <3>1, <3>2 DEF CraftsOn
    <3> QED BY <2>2, <3>3 DEF CraftsIn, crafts
  <2> QED BY <2>1, <2>2
<1>4. n.craft = s.craft
  <2>1. CASE s.active \in IdsOfEntries(s.entries)
    <3>1. s.entries # <<>>
      BY <2>1 DEF IdsOfEntries
    <3>2. es = s.entries
      BY <1>1, <3>1 DEF NormalEntries
    <3>3. n.active = s.active /\ s.craft = s.active[1]
      BY <1>1, <2>1, <3>2 DEF ActiveEntry, SavedVoyage
    <3> QED BY <1>1, <3>3
  <2>2. CASE s.active \notin IdsOfEntries(s.entries)
    <3>1. s.craft \in ToSet(CraftsIn(s))
      BY <2>2 DEF SavedVoyage
    <3>2. \E i \in DOMAIN es : es[i].craft = s.craft
      BY <1>3, <3>1 DEF ToSet, CraftsOn
    <3>3. s.active \notin IdsOfEntries(es)
      <4>1. CASE s.entries # <<>>
        BY <1>1, <2>2, <4>1 DEF NormalEntries
      <4>2. CASE s.entries = <<>>
        <5>1. s.active = None
          BY <4>2 DEF SavedVoyage
        <5>2. IdsOfEntries(es) \subseteq Nat \X Nat
          BY <1>1, EntryOfParts DEF IdsOfEntries
        <5> QED BY <5>1, <5>2, SavedAssumption
      <4> QED BY <4>1, <4>2
    <3> QED BY <1>1, <3>2, <3>3, ActiveEntryOnCraft
  <2> QED BY <2>1, <2>2
<1>5. ASSUME NEW i \in DOMAIN CraftsIn(s), CraftsIn(s)[i] \in LiveCraft
      PROVE  ViewsOf(s, i) = ViewsOf(n, i)
  <2> DEFINE c == CraftsIn(s)[i]
             tabs == DOMAIN TabGroups[c].url
  <2>1. CASE s.entries # <<>>
    <3>1. es = s.entries
      BY <1>1, <2>1 DEF NormalEntries
    <3> QED BY <1>2, <1>3, <2>1, <3>1 DEF ViewsOf
  <2>2. CASE s.entries = <<>>
    <3>1. s.items # None /\ ActiveItems(s) = s.items
      BY <2>2 DEF SavedVoyage, ActiveItems
    <3>2. cr = TabGroups /\ CraftsIn(s) = VisitedCrafts(s)
      BY <2>2 DEF CraftsIn
    <3>3. es[i].views = ActiveItemViews(TabGroups, c, s.items)
      BY <1>1, <2>2, <3>1, <3>2 DEF NormalEntries, StoredEntry
    <3>4. CraftsIn(n)[i] = c
      BY <1>2, <1>3
    <3>5. ViewsOf(n, i) = {v \in es[i].views : v \in tabs \/ TabGroups[c].ws # NoWs}
      BY <1>1, <3>4 DEF ViewsOf
    <3>6. es[i].views \subseteq tabs
      BY <1>5, <3>3, ItemShows
    <3>7. ViewsOf(n, i) = ActiveItemViews(TabGroups, c, s.items)
      BY <3>3, <3>5, <3>6
    <3>8. CASE c \in DOMAIN s.items
      <4>1. ViewsOf(s, i) = ({s.items[c]} \cap tabs)
              \cup UNION {p.of : p \in {q \in TabGroups[c].pairs : q.id = s.items[c]}}
        BY <2>2, <3>8 DEF ViewsOf
      <4> QED BY <1>5, <3>7, <3>8, <4>1, ItemShows
    <3>9. CASE c \notin DOMAIN s.items
      <4>1. ViewsOf(s, i) = {}
        BY <2>2, <3>9 DEF ViewsOf
      <4> QED BY <1>5, <3>7, <3>9, <4>1, ItemShows
    <3> QED BY <3>8, <3>9
  <2> QED BY <2>1, <2>2
<1> QED BY <1>1, <1>2, <1>3, <1>4, <1>5 DEF Alike, n

\* What a voyage shows after a start, as it showed it before.
After(s, t) ==
    /\ t.name = s.name
    /\ t.entries # <<>> /\ CraftsOn(t.entries) = LiveCrafts(s)
    /\ LiveCrafts(t) = LiveCrafts(s)
    /\ s.craft \in LiveCraft => t.craft = s.craft
    /\ \A i \in DOMAIN CraftsIn(s) :
         CraftsIn(s)[i] \in LiveCraft /\ ViewsOf(s, i) # {} =>
           \E j \in DOMAIN t.entries :
             /\ t.entries[j].craft = CraftsIn(s)[i]
             /\ t.entries[j].views = ViewsOf(s, i)
             /\ ViewsOf(t, j) = ViewsOf(s, i)

\* What a start leaves of a voyage it leaves of an alike one.
LEMMA AfterAlike ==
    ASSUME NEW s, NEW t, NEW u, Alike(s, t), After(t, u)
    PROVE  After(s, u)
<1>1. LiveCrafts(s) = LiveCrafts(t) /\ CraftsIn(s) = CraftsIn(t) /\ s.name = t.name /\ s.craft = t.craft
  BY DEF Alike, LiveCrafts
<1>2. \A i \in DOMAIN CraftsIn(s) :
        CraftsIn(s)[i] \in LiveCraft => ViewsOf(s, i) = ViewsOf(t, i)
  BY DEF Alike
<1> QED BY <1>1, <1>2 DEF After

\* What a start leaves of a voyage is its duplicate on the craft that are there.
LEMMA AfterTwins ==
    ASSUME NEW s, NEW t, After(s, t)
    PROVE  Twins(s, t)
<1>1. CraftsIn(t) = CraftsOn(t.entries) /\ DOMAIN CraftsIn(t) = DOMAIN t.entries
      /\ \A j \in DOMAIN t.entries : CraftsIn(t)[j] = t.entries[j].craft
  BY DEF After, CraftsIn, CraftsOn
<1>2. ASSUME NEW i \in DOMAIN CraftsIn(s), CraftsIn(s)[i] \in LiveCraft
      PROVE  ShowsWhat(s, i, t)
  BY <1>1, <1>2 DEF After, ShowsWhat
<1> QED BY <1>2 DEF After, Twins

\* The craft of some of the entries.
LEMMA CraftsAt ==
    ASSUME NEW es \in Seq(StoredEntries), NEW I \in SUBSET DOMAIN es
    PROVE  CraftsOn(AllAt(es, I)) = AllAt(CraftsOn(es), I)
<1>1. I \subseteq Nat /\ IsFiniteSet(I)
  BY PlacesFinite
<1>2. \A k \in 1..Cardinality(I) : PlaceOf(I, k) \in DOMAIN es
  BY <1>1, PlacesThere
<1> QED BY <1>2 DEF CraftsOn, AllAt

\* The craft a repair leaves are those that are there.
LEMMA LiveEntriesCrafts ==
    ASSUME NEW s, SavedVoyage(s), s.entries # <<>>
    PROVE  /\ CraftsOn(LiveEntries(s)) = LiveCrafts(s)
           /\ LiveEntries(s) = <<>> <=> LiveCrafts(s) = <<>>
<1> DEFINE I == {i \in DOMAIN s.entries : s.entries[i].craft \in LiveCraft}
           es == AllAt(s.entries, I)
<1>1. s.entries \in Seq(StoredEntries) /\ I \in SUBSET DOMAIN s.entries
  BY DEF SavedVoyage
<1>2. CraftsIn(s) = CraftsOn(s.entries)
  BY DEF CraftsIn
<1>3. {i \in DOMAIN CraftsIn(s) : CraftsIn(s)[i] \in LiveCraft} = I
  BY <1>2 DEF CraftsOn
<1>4. LiveCrafts(s) = AllAt(CraftsOn(s.entries), I)
  BY <1>2, <1>3 DEF LiveCrafts
<1>5. LiveEntries(s) = [i \in DOMAIN es |->
                          StoredEntry(es[i].id, es[i].craft,
                                      W!NormalizedViews(TabGroups, es[i].craft, es[i].views))]
  BY DEF LiveEntries
<1>6. CraftsOn(LiveEntries(s)) = CraftsOn(es)
  <2> HIDE DEF es
  <2> QED BY <1>5 DEF CraftsOn, StoredEntry
<1>7. CraftsOn(LiveEntries(s)) = LiveCrafts(s)
  BY <1>1, <1>4, <1>6, CraftsAt
<1>8. LiveEntries(s) \in Seq(StoredEntries)
  BY LiveEntriesThere
<1>9. LiveEntries(s) = <<>> <=> CraftsOn(LiveEntries(s)) = <<>>
  <2>1. DOMAIN CraftsOn(LiveEntries(s)) = DOMAIN LiveEntries(s)
    BY DEF CraftsOn
  <2>2. CraftsOn(LiveEntries(s)) \in Seq(Nat)
    BY <1>8, CraftsOnTyped
  <2> QED BY <1>8, <2>1, <2>2
<1> QED BY <1>7, <1>9

\* An entry of a craft that is there is left, with the views that are.
LEMMA LiveEntryLeft ==
    ASSUME NEW s, SavedVoyage(s), NEW i \in DOMAIN s.entries, s.entries[i].craft \in LiveCraft
    PROVE  \E k \in DOMAIN LiveEntries(s) :
             /\ LiveEntries(s)[k].id = s.entries[i].id
             /\ LiveEntries(s)[k].craft = s.entries[i].craft
             /\ LiveEntries(s)[k].views =
                  W!NormalizedViews(TabGroups, s.entries[i].craft, s.entries[i].views)
<1> DEFINE I == {j \in DOMAIN s.entries : s.entries[j].craft \in LiveCraft}
           es == AllAt(s.entries, I)
<1>1. s.entries \in Seq(StoredEntries) /\ I \in SUBSET DOMAIN s.entries /\ i \in I
  BY DEF SavedVoyage
<1>2. \E k \in DOMAIN es : es[k] = s.entries[i]
  <2> HIDE DEF I
  <2> QED BY <1>1, AllAtAll
<1>3. LiveEntries(s) = [k \in DOMAIN es |->
                          StoredEntry(es[k].id, es[k].craft,
                                      W!NormalizedViews(TabGroups, es[k].craft, es[k].views))]
  BY DEF LiveEntries
<1> HIDE DEF es
<1> QED BY <1>2, <1>3 DEF StoredEntry

\* A voyage that is repaired shows what it showed, as far as it is there.
LEMMA RepairedAfter ==
    ASSUME NEW s, SavedVoyage(s), s.active \in IdsOfEntries(s.entries), LiveEntries(s) # <<>>
    PROVE  After(s, Repaired(s))
<1> DEFINE r == Repaired(s)
           es == LiveEntries(s)
<1>1. /\ r.name = s.name /\ r.entries = es /\ r.active = ActiveLeft(s) /\ r.craft = CraftLeft(s)
      /\ CraftLeft(s) = ActiveLeft(s)[1]
  BY RepairedIs
<1>2. s.entries \in Seq(StoredEntries) /\ s.craft = s.active[1] /\ s.entries # <<>>
  BY DEF SavedVoyage, IdsOfEntries
<1>3. CraftsOn(es) = LiveCrafts(s) /\ es \in Seq(StoredEntries)
  BY <1>2, LiveEntriesCrafts, LiveEntriesThere
<1>4. \A k \in DOMAIN es : es[k].craft \in LiveCraft
  BY LiveEntriesThere
<1> HIDE DEF r
<1>5. LiveCrafts(r) = CraftsOn(es)
  <2>1. CraftsIn(r) = CraftsOn(es)
    BY <1>1 DEF CraftsIn
  <2>2. CraftsOn(es) \in Seq(Nat) /\ DOMAIN CraftsOn(es) = DOMAIN es
    BY <1>3, CraftsOnTyped
  <2>3. {k \in DOMAIN CraftsIn(r) : CraftsIn(r)[k] \in LiveCraft} = DOMAIN CraftsOn(es)
    BY <1>4, <2>1, <2>2 DEF CraftsOn
  <2> QED BY <2>1, <2>2, <2>3, AllAtThem DEF LiveCrafts
<1>6. ASSUME s.craft \in LiveCraft PROVE r.craft = s.craft
  <2>1. PICK i \in DOMAIN s.entries : s.entries[i].id = s.active
    BY DEF IdsOfEntries
  <2>2. s.entries[i].craft = s.craft
    BY <1>2, <2>1, EntryOfParts
  <2>3. s.active \in IdsOfEntries(es)
    BY <1>6, <2>1, <2>2, LiveEntryLeft DEF IdsOfEntries
  <2> QED BY <1>1, <1>2, <2>3 DEF ActiveLeft
<1>7. ASSUME NEW i \in DOMAIN CraftsIn(s), CraftsIn(s)[i] \in LiveCraft, ViewsOf(s, i) # {}
      PROVE  \E j \in DOMAIN r.entries :
               /\ r.entries[j].craft = CraftsIn(s)[i]
               /\ r.entries[j].views = ViewsOf(s, i)
               /\ ViewsOf(r, j) = ViewsOf(s, i)
  <2> DEFINE c == CraftsIn(s)[i]
             tabs == DOMAIN TabGroups[c].url
             left(views) == {v \in views : v \in tabs \/ TabGroups[c].ws # NoWs}
  <2>1. i \in DOMAIN s.entries /\ c = s.entries[i].craft /\ ViewsOf(s, i) = left(s.entries[i].views)
    BY <1>2 DEF CraftsIn, CraftsOn, ViewsOf
  <2>2. PICK k \in DOMAIN es : /\ es[k].craft = c
                               /\ es[k].views = W!NormalizedViews(TabGroups, c, s.entries[i].views)
    BY <1>7, <2>1, LiveEntryLeft
  <2>3. W!NormalizedViews(TabGroups, c, s.entries[i].views) = left(s.entries[i].views)
    BY <1>7, <2>1 DEF W!NormalizedViews, W!TabsOf
  <2>4. CraftsIn(r)[k] = c
    BY <1>1, <1>2, <2>2 DEF CraftsIn, CraftsOn
  <2>5. ViewsOf(r, k) = left(es[k].views)
    BY <1>1, <2>2, <2>4 DEF ViewsOf
  <2>6. ViewsOf(r, k) = ViewsOf(s, i)
    BY <2>1, <2>2, <2>3, <2>5
  <2> HIDE DEF left, es
  <2> QED BY <1>1, <2>1, <2>2, <2>3, <2>6
<1> QED BY <1>1, <1>3, <1>5, <1>6, <1>7 DEF After, r

-----------------------------------------------------------------------------
(* What becomes of the voyages.                                            *)

\* A migration leaves of a voyage, unless it is named Home, what is alike.
LEMMA MigratedLeaves ==
    ASSUME NEW st, SavedStore(st), NEW s \in st.data
    PROVE  /\ isHomeVoyage(s) \/ \E m \in Migrated(st).data : Alike(s, m)
           /\ \A m \in Migrated(st).data : m.id = s.id => Alike(s, m)
<1> DEFINE all == AllNormalised(st.data, TabGroups)
           data == {v \in all : ~isHomeVoyage(v)}
           n == Normalised(s, TabGroups)
<1>1. SavedVoyage(s) /\ SavedData(st.data)
  BY DEF SavedStore, SavedData
<1>2. Alike(s, n) /\ n.id = s.id
  BY <1>1, NormalisedAlike, NormalisedSaved
<1>3. n \in all /\ SavedData(all)
  BY <1>1, AllNormalisedSaved DEF AllNormalised
<1>4. Migrated(st).data = Deduped(data, {})
  BY DEF Migrated
<1>5. SavedData(data)
  BY <1>3 DEF SavedData
<1>6. isHomeVoyage(n) => isHomeVoyage(s)
  BY <1>2 DEF isHomeVoyage, Alike
<1> HIDE DEF n, all
<1>7. ASSUME ~isHomeVoyage(s) PROVE \E m \in Migrated(st).data : Alike(s, m)
  <2>1. n \in data
    BY <1>3, <1>6, <1>7
  <2> HIDE DEF data
  <2>2. PICK m \in data : sessionSignature(m) = sessionSignature(n) /\ Keeper(data, m, {}) = m.id
    BY <1>5, <2>1, KeeperThere
  <2>3. Alike(n, m)
    BY <1>5, <2>1, <2>2, SignatureAlike DEF SavedData
  <2>4. m \in Migrated(st).data
    BY <1>4, <2>2 DEF Deduped
  <2> QED BY <1>2, <2>3, <2>4, AlikeTransitive
<1>8. ASSUME NEW m \in Migrated(st).data, m.id = s.id PROVE Alike(s, m)
  <2>1. m \in all
    BY <1>4 DEF Deduped
  <2>2. m = n
    BY <1>2, <1>3, <1>8, <2>1 DEF SavedData
  <2> QED BY <1>2, <2>2
<1> QED BY <1>7, <1>8

\* A repair leaves of a voyage of today, if any of its craft is there, what shows
\* the same.
LEMMA RepairLeaves ==
    ASSUME NEW st, SavedStore(st), isMigrated(st), NEW s \in st.data
    PROVE  LET left == AllRepaired(AllNormalised(st.data, <<>>))
           IN  /\ LiveCrafts(s) = <<>> \/ \E t \in left : t.id = s.id /\ After(s, t)
               /\ \A t \in left : t.id = s.id => After(s, t)
<1> DEFINE all == AllNormalised(st.data, <<>>)
           left == AllRepaired(all)
           n == Normalised(s, <<>>)
<1>1. SavedVoyage(s) /\ s.entries # <<>> /\ SavedData(st.data)
  BY DEF SavedStore, SavedData, SavedVoyage
<1>2. /\ Alike(s, n) /\ n.id = s.id /\ SavedVoyage(n) /\ n.items = None
      /\ n.entries # <<>> /\ n.active \in IdsOfEntries(n.entries)
  BY <1>1, NormalisedAlike, NormalisedSaved
<1>3. n \in all /\ SavedData(all) /\ \A v \in all : v.items = None
  BY <1>1, AllNormalisedSaved DEF AllNormalised
<1> HIDE DEF n, all
<1>4. left = {Repaired(v) : v \in {u \in all : LiveEntries(u) # <<>>}}
  BY DEF AllRepaired
<1>5. LiveEntries(n) # <<>> => Repaired(n) \in left /\ Repaired(n).id = s.id /\ After(s, Repaired(n))
  <2>1. LiveEntries(n) # <<>> => Repaired(n).id = s.id
    BY <1>2, RepairedMended
  <2>2. LiveEntries(n) # <<>> => After(s, Repaired(n))
    BY <1>2, RepairedAfter, AfterAlike
  <2> QED BY <1>3, <1>4, <2>1, <2>2
<1>6. LiveEntries(n) = <<>> => LiveCrafts(s) = <<>>
  <2>1. LiveEntries(n) = <<>> => LiveCrafts(n) = <<>>
    BY <1>2, LiveEntriesCrafts
  <2>2. LiveCrafts(n) = LiveCrafts(s)
    BY <1>2 DEF Alike, LiveCrafts
  <2> QED BY <2>1, <2>2
<1>7. ASSUME NEW t \in left, t.id = s.id PROVE After(s, t)
  <2>1. PICK v \in all : LiveEntries(v) # <<>> /\ t = Repaired(v)
    BY <1>4
  <2>2. v.id = s.id
    BY <1>3, <1>7, <2>1, RepairedMended DEF SavedData
  <2>3. v = n
    BY <1>2, <1>3, <2>2 DEF SavedData
  <2> QED BY <1>5, <2>1, <2>3
<1> HIDE DEF left
<1>8. LiveCrafts(s) = <<>> \/ \E t \in left : t.id = s.id /\ After(s, t)
  BY <1>5, <1>6
<1> QED BY <1>7, <1>8 DEF left, all

\* A start leaves a voyage, one like it, or what may go.
LEMMA StartLeaves ==
    ASSUME StoreInv, ServerStart, NEW s \in store.data
    PROVE  /\ \A t \in store'.data : t.id = s.id => After(s, t)
           /\ \/ \E t \in store'.data : After(s, t) /\ (t.id = s.id \/ ~isMigrated(store))
              \/ LiveCrafts(s) = <<>>
              \/ isHomeVoyage(s) /\ ~isMigrated(store)
<1> DEFINE now == IF isMigrated(store) THEN store ELSE Migrated(store)
           left == AllRepaired(AllNormalised(now.data, <<>>))
<1>1. SavedStore(store)
  BY DEF StoreInv, StoreTypeOK
<1>2. store'.data = left
  BY DEF ServerStart, Booted
<1>3. SavedStore(now) /\ isMigrated(now)
  BY <1>1, MigratedSaved DEF isMigrated
<1>4. ASSUME NEW m \in now.data
      PROVE  /\ LiveCrafts(m) = <<>> \/ \E t \in left : t.id = m.id /\ After(m, t)
             /\ \A t \in left : t.id = m.id => After(m, t)
  <2> HIDE DEF now
  <2> QED BY <1>3, RepairLeaves
<1>5. CASE isMigrated(store)
  <2>1. s \in now.data
    BY <1>5
  <2> HIDE DEF now, left
  <2> QED BY <1>2, <1>4, <2>1
<1>6. CASE ~isMigrated(store)
  <2>1. now = Migrated(store)
    BY <1>6
  <2> HIDE DEF now
  <2>2. isHomeVoyage(s) \/ \E m \in now.data : Alike(s, m)
    BY <1>1, <2>1, MigratedLeaves
  <2>3. \A m \in now.data : m.id = s.id => Alike(s, m)
    BY <1>1, <2>1, MigratedLeaves
  <2>4. ASSUME NEW t \in left, t.id = s.id PROVE After(s, t)
    <3> DEFINE all == AllNormalised(now.data, <<>>)
    <3>1. SavedData(now.data)
      BY <1>3 DEF SavedStore, SavedData
    <3>2. SavedData(all) /\ \A v \in all : v.items = None
      BY <3>1, AllNormalisedSaved
    <3>3. PICK v \in all : LiveEntries(v) # <<>> /\ t = Repaired(v)
      BY DEF AllRepaired
    <3>4. v.id = s.id
      <4> HIDE DEF all
      <4> QED BY <2>4, <3>2, <3>3, RepairedMended DEF SavedData
    <3>5. PICK m \in now.data : v = Normalised(m, <<>>)
      BY DEF AllNormalised
    <3>6. m.id = s.id
      BY <3>1, <3>4, <3>5, NormalisedSaved DEF SavedData
    <3> HIDE DEF left
    <3> QED BY <1>4, <2>3, <2>4, <3>6, AfterAlike
  <2>5. ASSUME NEW m \in now.data, Alike(s, m)
        PROVE  LiveCrafts(s) = <<>> \/ \E t \in left : After(s, t)
    <3>1. LiveCrafts(s) = LiveCrafts(m)
      BY <2>5 DEF Alike, LiveCrafts
    <3> HIDE DEF left
    <3> QED BY <1>4, <2>5, <3>1, AfterAlike
  <2> HIDE DEF left
  <2> QED BY <1>2, <1>6, <2>2, <2>4, <2>5
<1> QED BY <1>5, <1>6

\* A start loses only voyages that may go.
LEMMA StartKeepsVoyages ==
    ASSUME StoreInv, ServerStart, NEW s \in Gone
    PROVE  MayGo(s)
<1>1. s \in store.data /\ \A t \in store'.data : t.id # s.id
  BY DEF Gone, IdsOf
<1>2. CASE ~isMigrated(store) /\ \E t \in store'.data : After(s, t)
  <2>1. TwinLeft(s)
    BY <1>2, AfterTwins DEF TwinLeft
  <2> QED BY <1>2, <2>1 DEF MayGo, Cleanup
<1>3. CASE LiveCrafts(s) = <<>>
  BY <1>3 DEF MayGo
<1>4. CASE isHomeVoyage(s) /\ ~isMigrated(store)
  BY <1>4 DEF MayGo, Cleanup
<1> QED BY <1>1, <1>2, <1>3, <1>4, StartLeaves

\* So does a start that is cut off.
LEMMA StartCutKeepsVoyages ==
    ASSUME StoreInv, StartCut, NEW s \in Gone
    PROVE  MayGo(s)
<1>1. SavedStore(store) /\ s \in store.data /\ store' = Migrated(store) /\ ~isMigrated(store)
  BY DEF StoreInv, StoreTypeOK, Gone, StartCut
<1>2. isHomeVoyage(s) \/ \E m \in store'.data : Alike(s, m)
  BY <1>1, MigratedLeaves
<1>3. isHomeVoyage(s) \/ TwinLeft(s)
  BY <1>2, AlikeTwins DEF TwinLeft
<1> QED BY <1>1, <1>3 DEF MayGo, Cleanup

\* A running server loses none.
LEMMA RunningKeepsVoyages ==
    ASSUME StoreInv, Stop \/ \E s \in NewVoyages : Save(s)
    PROVE  Gone = {}
<1>1. CASE Stop
  BY <1>1 DEF Stop, Gone, IdsOf
<1>2. ASSUME NEW s \in NewVoyages, Save(s) PROVE Gone = {}
  <2>1. \A t \in store.data : Mended(t)
    BY <1>2 DEF StoreInv, Save
  <2>2. store'.data = store.data \cup {s}
    BY <1>2, <2>1, BootedAgain DEF Save
  <2> QED BY <2>2 DEF Gone, IdsOf
<1> QED BY <1>1, <1>2

\* Of duplicates one is left, and the origins follow.
LEMMA DedupeKeepsVoyages ==
    ASSUME StoreInv, Dedupe, ~isMigrated(store)
    PROVE  /\ \A s \in Gone : MayGo(s)
           /\ \A o \in Origins, s \in store.data : resume[o] = s.id => Follows(o, s)
<1> DEFINE referenced == {resume[o] : o \in Origins} \ {None}
<1>1. SavedData(store.data)
  BY DEF StoreInv, StoreTypeOK, SavedStore, SavedData
<1>2. /\ store'.data = Deduped(store.data, referenced)
      /\ resume' = [o \in Origins |->
                      IF resume[o] \in IdsOf(store.data)
                      THEN Keeper(store.data, VoyageOf(store.data, resume[o]), referenced)
                      ELSE resume[o]]
  BY DEF Dedupe, getSessions, createSessionsState
<1> HIDE DEF referenced
<1>3. ASSUME NEW s \in store.data
      PROVE  \E t \in store'.data : t.id = Keeper(store.data, s, referenced) /\ Twins(s, t)
  <2>1. PICK t \in store.data : /\ Keeper(store.data, s, referenced) = t.id
                                /\ sessionSignature(t) = sessionSignature(s)
                                /\ Keeper(store.data, t, referenced) = t.id
    BY <1>1, KeeperThere
  <2>2. Alike(s, t)
    BY <1>1, <2>1, SignatureAlike DEF SavedData
  <2> QED BY <1>2, <2>1, <2>2, AlikeTwins DEF Deduped
<1>4. ASSUME NEW s \in Gone PROVE MayGo(s)
  <2>1. s \in store.data
    BY DEF Gone
  <2>2. TwinLeft(s)
    BY <1>3, <2>1 DEF TwinLeft
  <2> QED BY <2>2 DEF MayGo
<1>5. ASSUME NEW o \in Origins, NEW s \in store.data, resume[o] = s.id PROVE Follows(o, s)
  <2>1. VoyageOf(store.data, s.id) = s /\ s.id \in IdsOf(store.data)
    BY <1>1 DEF SavedData, VoyageOf, IdsOf
  <2>2. resume'[o] = Keeper(store.data, s, referenced)
    BY <1>2, <1>5, <2>1
  <2>3. CASE s \in Gone
    BY <1>3, <2>2, <2>3 DEF Follows
  <2>4. CASE s \notin Gone
    <3>1. s.id \in IdsOf(store'.data)
      BY <2>4 DEF Gone
    <3>2. PICK t \in store.data : t.id = s.id /\ Keeper(store.data, t, referenced) = t.id
      BY <1>2, <3>1 DEF IdsOf, Deduped
    <3>3. t = s
      BY <1>1, <3>2 DEF SavedData
    <3> QED BY <2>2, <2>4, <3>2, <3>3 DEF Follows
  <2> QED BY <2>3, <2>4
<1> QED BY <1>4, <1>5

\* What is removed is what was to be, and its origins have nothing to resume.
LEMMA RemovedVoyages ==
    ASSUME StoreInv, ~isMigrated(store), NEW ids, Removed(getSessions(store), ids)
    PROVE  /\ Gone = {s \in store.data : s.id \in ids}
           /\ ~Dedupe => \A o \in Origins, s \in store.data : resume[o] = s.id => Follows(o, s)
<1>1. SavedData(store.data)
  BY DEF StoreInv, StoreTypeOK, SavedStore, SavedData
<1>2. store'.data = {s \in store.data : s.id \notin ids}
  BY DEF Removed, getSessions, createSessionsState
<1>3. Gone = {s \in store.data : s.id \in ids}
  BY <1>1, <1>2 DEF Gone, IdsOf, SavedData
<1>4. ASSUME ~Dedupe, NEW o \in Origins, NEW s \in store.data, resume[o] = s.id
      PROVE  Follows(o, s)
  <2>1. resume'[o] = IF resume[o] \in ids THEN None ELSE resume[o]
    BY DEF Removed
  <2> QED BY <1>3, <1>4, <2>1 DEF Follows
<1> QED BY <1>3, <1>4

\* A script loses only voyages that may go, and the origins follow.
LEMMA ScriptKeepsVoyages ==
    ASSUME StoreInv, Script, ~isMigrated(store)
    PROVE  /\ \A s \in Gone : MayGo(s)
           /\ \A o \in Origins, s \in store.data : resume[o] = s.id => Follows(o, s)
<1>1. CASE Dedupe
  BY <1>1, DedupeKeepsVoyages
<1>2. CASE ~Dedupe /\ RemoveHome
  <2> DEFINE ids == IdsOf({s \in store.data : isHomeVoyage(s)})
  <2>1. Removed(getSessions(store), ids)
    BY <1>2 DEF RemoveHome, getSessions
  <2>2. Gone = {s \in store.data : s.id \in ids}
    BY <2>1, RemovedVoyages
  <2>3. ASSUME NEW s \in Gone PROVE MayGo(s)
    <3>1. s \in store.data /\ s.id \in ids
      BY <2>2
    <3>2. PICK t \in store.data : isHomeVoyage(t) /\ t.id = s.id
      BY <3>1 DEF IdsOf
    <3>3. t = s
      BY <3>1, <3>2 DEF StoreInv, StoreTypeOK, SavedStore
    <3> QED BY <1>2, <3>2, <3>3 DEF MayGo
  <2> QED BY <1>2, <2>1, <2>3, RemovedVoyages
<1>3. ASSUME ~Dedupe, NEW id \in VoyageIds, RemoveById(id)
      PROVE  /\ \A s \in Gone : MayGo(s)
             /\ \A o \in Origins, s \in store.data : resume[o] = s.id => Follows(o, s)
  <2> DEFINE ids == IdsOf(store.data) \cap {id}
  <2>1. Removed(getSessions(store), ids)
    BY <1>3 DEF RemoveById, getSessions
  <2>2. Gone = {s \in store.data : s.id \in ids}
    BY <2>1, RemovedVoyages
  <2>3. ASSUME NEW s \in Gone PROVE MayGo(s)
    <3>1. s.id = id
      BY <2>2
    <3>2. Gone = {s}
      BY <2>2, <3>1 DEF StoreInv, StoreTypeOK, SavedStore
    <3> QED BY <1>3, <3>1, <3>2 DEF MayGo
  <2> QED BY <1>3, <2>1, <2>3, RemovedVoyages
<1> QED BY <1>1, <1>2, <1>3 DEF Script

\* The invariant holds.
LEMMA StoreInvariant == StoreSpec => []StoreInv
BY StoreInitHolds, StoreNextKeeps, PTL DEF StoreSpec

\* No start, and no script that reads the stored version, loses a voyage but those
\* named Home, those of craft that have gone, all but one of duplicates, and what
\* an operator asks to be removed.
THEOREM KeepsVoyages == StoreSpec => VoyagesKept
<1> DEFINE Kept ==
             ~(Script /\ isMigrated(store)) =>
               /\ \A s \in Gone : MayGo(s)
               /\ Script => \A o \in Origins, s \in store.data :
                              resume[o] = s.id => Follows(o, s)
<1>1. ASSUME StoreInv, [StoreNext]_storeVars PROVE [Kept]_storeVars
  <2>1. CASE Script
    BY <1>1, <2>1, ScriptKeepsVoyages
  <2>2. CASE ~Script /\ ServerStart
    BY <1>1, <2>2, StartKeepsVoyages
  <2>3. CASE ~Script /\ StartCut
    BY <1>1, <2>3, StartCutKeepsVoyages
  <2>4. CASE ~Script /\ (Stop \/ \E s \in NewVoyages : Save(s))
    BY <1>1, <2>4, RunningKeepsVoyages
  <2> QED BY <1>1, <2>1, <2>2, <2>3, <2>4 DEF StoreNext
<1>2. StoreSpec => [][Kept]_storeVars
  BY <1>1, StoreInvariant, PTL DEF StoreSpec
<1> QED BY <1>2 DEF VoyagesKept

\* After a start a voyage is on the craft it was on, in their order, with the same
\* one active and, where it can be told what they were, the same views.
THEOREM ShowsAsBefore == StoreSpec => ShownAsBefore
<1> DEFINE Shown ==
             ServerStart => \A s \in store.data \ Gone :
               LET t == VoyageOf(store'.data, s.id)
               IN  /\ CraftsOn(t.entries) = LiveCrafts(s)
                   /\ s.craft \in LiveCraft => t.craft = s.craft
                   /\ \A i \in DOMAIN CraftsIn(s) :
                         CraftsIn(s)[i] \in LiveCraft /\ ViewsOf(s, i) # {} =>
                           \E e \in ToSet(t.entries) :
                              e.craft = CraftsIn(s)[i] /\ e.views = ViewsOf(s, i)
<1>1. ASSUME StoreInv, [StoreNext]_storeVars PROVE [Shown]_storeVars
  <2>1. ASSUME ServerStart, NEW s \in store.data \ Gone
        PROVE  After(s, VoyageOf(store'.data, s.id))
    <3>1. s.id \in IdsOf(store'.data)
      BY DEF Gone
    <3>2. VoyageOf(store'.data, s.id) \in store'.data /\ VoyageOf(store'.data, s.id).id = s.id
      BY <3>1 DEF VoyageOf, IdsOf
    <3> QED BY <1>1, <2>1, <3>2, StartLeaves
  <2>2. ASSUME NEW s, NEW t, After(s, t)
        PROVE  /\ CraftsOn(t.entries) = LiveCrafts(s)
               /\ s.craft \in LiveCraft => t.craft = s.craft
               /\ \A i \in DOMAIN CraftsIn(s) :
                     CraftsIn(s)[i] \in LiveCraft /\ ViewsOf(s, i) # {} =>
                       \E e \in ToSet(t.entries) :
                          e.craft = CraftsIn(s)[i] /\ e.views = ViewsOf(s, i)
    BY <2>2 DEF After, ToSet
  <2> QED BY <2>1, <2>2
<1>2. StoreSpec => [][Shown]_storeVars
  BY <1>1, StoreInvariant, PTL DEF StoreSpec
<1> QED BY <1>2 DEF ShownAsBefore

=============================================================================
