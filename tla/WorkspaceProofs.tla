--------------------------- MODULE WorkspaceProofs ---------------------------
(***************************************************************************)
(* Proofs about Workspace, for any ids, sessions and VK workspaces.        *)
(*                                                                         *)
(* Tree is the invariant of spaces and craft, with the ids typed; Voyages  *)
(* the one of saved voyages, which needs the first.  A step is looked at   *)
(* twice: by what it does to the tree (one craft changes, one is appended, *)
(* some are dropped) and by what it does to the voyages (nothing, a        *)
(* repair, one voyage set).                                                *)
(***************************************************************************)
EXTENDS Workspace, FiniteSetTheorems, WellFoundedInduction, TLAPS

\* A craft that is whole when n is the next id.
WholeCraft(craft, n) ==
    /\ \A t \in DOMAIN craft.url : t \in Nat /\ t < n
    /\ \A p \in craft.pairs : /\ p.id \in Nat /\ p.id < n
                              /\ p.of \subseteq DOMAIN craft.url /\ p.of # {}

SpacesWhole ==
    /\ nextId \in Nat
    /\ Home \in DOMAIN spaces
    /\ \A s \in DOMAIN spaces : s \in Nat /\ s < nextId
    /\ \A s \in DOMAIN spaces : spaces[s] # {} /\ spaces[s] \subseteq DOMAIN tabGroups
    /\ \A s, r \in DOMAIN spaces : s # r => spaces[s] \cap spaces[r] = {}
    /\ \A c \in DOMAIN tabGroups : c \in Nat /\ c < nextId
    /\ \A c \in DOMAIN tabGroups : \E s \in DOMAIN spaces : c \in spaces[s]

CraftsWhole ==
    /\ \A c \in DOMAIN tabGroups : WholeCraft(tabGroups[c], nextId)
    /\ \A c, b \in DOMAIN tabGroups :
         c # b => DOMAIN tabGroups[c].url \cap DOMAIN tabGroups[b].url = {}

Tree == SpacesWhole /\ CraftsWhole

Good(voyage, cr, sp) == Resumable(voyage, cr, sp) /\ NoCraftTwice(voyage.entries)

Voyages == \A v \in DOMAIN savedVoyages : Good(savedVoyages[v], tabGroups, spaces)

-----------------------------------------------------------------------------
(* The tree.                                                               *)

\* The strengthened invariant gives the one of the model.
LEMMA TreeGivesTreeInv == Tree /\ OneCraftPerVKWorkspace => TreeInv
  BY DEF Tree, SpacesWhole, CraftsWhole, WholeCraft, TreeInv, TabsOf

\* A craft stays whole when ids are handed out.
LEMMA WholeStays ==
  ASSUME NEW n \in Nat, NEW m \in Nat, n <= m, NEW craft, WholeCraft(craft, n)
  PROVE  WholeCraft(craft, m)
<1>1. \A x \in Nat : x < n => x < m
  OBVIOUS
<1> QED BY <1>1 DEF WholeCraft

\* One craft changes, and its new tabs are fresh (closeTab, addTab, ...).
LEMMA CraftChanges ==
  ASSUME Tree, UNCHANGED spaces,
         nextId' \in Nat, nextId <= nextId',
         NEW c \in DOMAIN tabGroups, NEW craft,
         tabGroups' = [tabGroups EXCEPT ![c] = craft],
         WholeCraft(craft, nextId'),
         \A t \in DOMAIN craft.url : t \in DOMAIN tabGroups[c].url \/ nextId <= t
  PROVE  Tree'
<1>1. DOMAIN tabGroups' = DOMAIN tabGroups
  OBVIOUS
<1>2. SpacesWhole'
  BY <1>1 DEF Tree, SpacesWhole
<1>3. \A b \in DOMAIN tabGroups : WholeCraft(tabGroups'[b], nextId')
  <2> SUFFICES ASSUME NEW b \in DOMAIN tabGroups PROVE WholeCraft(tabGroups'[b], nextId')
    OBVIOUS
  <2>1. CASE b = c
    BY <2>1
  <2>2. CASE b # c
    <3>1. tabGroups'[b] = tabGroups[b]
      BY <2>2
    <3>2. WholeCraft(tabGroups[b], nextId)
      BY DEF Tree, CraftsWhole
    <3> QED BY <3>1, <3>2 DEF Tree, SpacesWhole, WholeCraft
  <2> QED BY <2>1, <2>2
<1>4. \A a, b \in DOMAIN tabGroups :
        a # b => DOMAIN tabGroups'[a].url \cap DOMAIN tabGroups'[b].url = {}
  <2>1. \A b \in DOMAIN tabGroups : b # c => tabGroups'[b] = tabGroups[b]
    OBVIOUS
  <2>2. tabGroups'[c] = craft
    OBVIOUS
  <2>3. \A b \in DOMAIN tabGroups : b # c => DOMAIN craft.url \cap DOMAIN tabGroups[b].url = {}
    BY DEF Tree, SpacesWhole, CraftsWhole, WholeCraft
  <2>4. \A a, b \in DOMAIN tabGroups :
          a # b => DOMAIN tabGroups[a].url \cap DOMAIN tabGroups[b].url = {}
    BY DEF Tree, CraftsWhole
  <2> QED BY <2>1, <2>2, <2>3, <2>4
<1> QED BY <1>1, <1>2, <1>3, <1>4 DEF Tree, CraftsWhole

\* A fresh craft with fresh tabs is appended to a space.
LEMMA CraftAppended ==
  ASSUME Tree, NEW s \in DOMAIN spaces, NEW craft,
         Append(s, nextId, craft),
         nextId' \in Nat, nextId < nextId',
         WholeCraft(craft, nextId'),
         \A t \in DOMAIN craft.url : nextId <= t
  PROVE  Tree'
<1>1. /\ DOMAIN tabGroups' = DOMAIN tabGroups \cup {nextId}
      /\ \A c \in DOMAIN tabGroups : tabGroups'[c] = tabGroups[c]
      /\ tabGroups'[nextId] = craft
      /\ nextId \notin DOMAIN tabGroups
  BY DEF Append, Put, Tree, SpacesWhole
<1>2. /\ DOMAIN spaces' = DOMAIN spaces
      /\ spaces'[s] = spaces[s] \cup {nextId}
      /\ \A r \in DOMAIN spaces : r # s => spaces'[r] = spaces[r]
  BY DEF Append
<1>3. SpacesWhole'
  <2>1. \A r \in DOMAIN spaces : spaces'[r] # {} /\ spaces'[r] \subseteq DOMAIN tabGroups'
    BY <1>1, <1>2 DEF Tree, SpacesWhole
  <2>2. \A r, q \in DOMAIN spaces : r # q => spaces'[r] \cap spaces'[q] = {}
    BY <1>1, <1>2 DEF Tree, SpacesWhole
  <2>3. \A c \in DOMAIN tabGroups' : \E r \in DOMAIN spaces : c \in spaces'[r]
    BY <1>1, <1>2 DEF Tree, SpacesWhole
  <2> QED BY <1>1, <1>2, <2>1, <2>2, <2>3 DEF Tree, SpacesWhole
<1>4. CraftsWhole'
  <2>1. \A c \in DOMAIN tabGroups' : WholeCraft(tabGroups'[c], nextId')
    BY <1>1 DEF Tree, SpacesWhole, CraftsWhole, WholeCraft
  <2>2. \A c, b \in DOMAIN tabGroups' :
          c # b => DOMAIN tabGroups'[c].url \cap DOMAIN tabGroups'[b].url = {}
    BY <1>1 DEF Tree, SpacesWhole, CraftsWhole, WholeCraft
  <2> QED BY <2>1, <2>2 DEF CraftsWhole
<1> QED BY <1>3, <1>4 DEF Tree

-----------------------------------------------------------------------------
(* Single voyages.                                                         *)

\* In a tree that covers the craft, the space found for one contains it.
LEMMA SpaceFound ==
  ASSUME NEW sp, NEW c, NEW otherwise, \E s \in DOMAIN sp : c \in sp[s]
  PROVE  /\ SpaceOf(sp, c, otherwise) \in DOMAIN sp
         /\ c \in sp[SpaceOf(sp, c, otherwise)]
  BY DEF SpaceOf

\* A voyage stays good while the tree grows.
LEMMA GoodGrows ==
  ASSUME NEW voyage, NEW cr, NEW sp, NEW cr2, NEW sp2,
         Good(voyage, cr, sp),
         DOMAIN cr \subseteq DOMAIN cr2,
         \A s \in DOMAIN sp : s \in DOMAIN sp2 /\ sp[s] \subseteq sp2[s]
  PROVE  Good(voyage, cr2, sp2)
  BY DEF Good, Resumable

\* A voyage of one entry on a craft of its space is good.
LEMMA OneEntryGood ==
  ASSUME NEW cr, NEW sp, NEW e, NEW views, NEW s \in DOMAIN sp,
         CraftOf(e) \in DOMAIN cr, CraftOf(e) \in sp[s]
  PROVE  Good(OneEntryVoyage(e, views, s), cr, sp)
<1> DEFINE voyage == OneEntryVoyage(e, views, s)
<1>1. /\ voyage.entries = [x \in {e} |-> views]
      /\ voyage.active = e /\ voyage.craft = CraftOf(e)
      /\ voyage.space = s /\ voyage.visited = {CraftOf(e)}
  BY DEF OneEntryVoyage, Voyage
<1>2. DOMAIN voyage.entries = {e}
  BY <1>1
<1> HIDE DEF voyage
<1>3. CraftsOf(voyage.entries) = {CraftOf(e)}
  BY <1>2 DEF CraftsOf
<1>4. Good(voyage, cr, sp)
  BY <1>1, <1>2, <1>3 DEF Good, Resumable, NoCraftTwice
<1> QED BY <1>4 DEF voyage

\* Setting an entry keeps a voyage good if the craft has no other entry.
LEMMA ActiveEntryGood ==
  ASSUME NEW cr, NEW sp, NEW v, Good(v, cr, sp), NEW views, NEW s \in DOMAIN sp, NEW e,
         CraftOf(e) \in DOMAIN cr, CraftOf(e) \in sp[s],
         \A d \in DOMAIN v.entries : CraftOf(d) = CraftOf(e) => d = e
  PROVE  Good(WithActiveEntry(v, e, views, s), cr, sp)
<1> DEFINE new == WithActiveEntry(v, e, views, s)
<1>1. /\ new.entries = Put(v.entries, e, views)
      /\ new.active = e /\ new.craft = CraftOf(e)
      /\ new.space = s /\ new.visited = v.visited \cup {CraftOf(e)}
  BY DEF WithActiveEntry, Voyage
<1>2. DOMAIN new.entries = DOMAIN v.entries \cup {e}
  BY <1>1 DEF Put
<1> HIDE DEF new
<1>3. CraftsOf(new.entries) = CraftsOf(v.entries) \cup {CraftOf(e)}
  BY <1>2 DEF CraftsOf
<1>4. NoCraftTwice(new.entries)
  BY <1>2 DEF Good, NoCraftTwice
<1>5. Resumable(new, cr, sp)
  BY <1>1, <1>2, <1>3 DEF Good, Resumable
<1> QED BY <1>4, <1>5 DEF Good, new

\* A repair makes a good voyage of any voyage without a craft twice.
LEMMA RepairedGood ==
  ASSUME NEW cr, NEW sp, \A c \in DOMAIN cr : \E s \in DOMAIN sp : c \in sp[s],
         NEW v, NoCraftTwice(v.entries), NEW active \in ActiveChoices(v, cr)
  PROVE  Good(Repaired(v, active, cr, sp), cr, sp)
<1> DEFINE new == Repaired(v, active, cr, sp)
<1>1. /\ new.entries = [e \in KeptEntries(v, cr) |-> NormalizedViews(cr, CraftOf(e), v.entries[e])]
      /\ new.active = active /\ new.craft = CraftOf(active)
      /\ new.space = SpaceOf(sp, CraftOf(active), v.space)
      /\ new.visited = {CraftOf(e) : e \in KeptEntries(v, cr)}
  BY DEF Repaired, Voyage
<1>2. DOMAIN new.entries = KeptEntries(v, cr)
  BY <1>1
<1> HIDE DEF new
<1>3. active \in KeptEntries(v, cr)
  BY DEF ActiveChoices
<1>4. CraftOf(active) \in DOMAIN cr
  BY <1>3 DEF KeptEntries
<1>5. new.space \in DOMAIN sp /\ new.craft \in sp[new.space]
  BY <1>1, <1>4, SpaceFound
<1>6. new.visited = CraftsOf(new.entries)
  BY <1>1, <1>2 DEF CraftsOf
<1>7. CraftsOf(new.entries) \subseteq DOMAIN cr
  BY <1>2 DEF CraftsOf, KeptEntries
<1>8. NoCraftTwice(new.entries)
  BY <1>2 DEF NoCraftTwice, KeptEntries
<1> QED BY <1>1, <1>2, <1>3, <1>5, <1>6, <1>7, <1>8 DEF Good, Resumable, new

-----------------------------------------------------------------------------
(* All voyages.                                                            *)

\* The tree has lost nothing (and so every voyage stays good).
Grows ==
    /\ DOMAIN tabGroups \subseteq DOMAIN tabGroups'
    /\ \A s \in DOMAIN spaces : s \in DOMAIN spaces' /\ spaces[s] \subseteq spaces'[s]

\* A repair leaves good voyages only, whatever has been deleted.
LEMMA RepairGivesVoyages ==
  ASSUME NEW cr, NEW sp, \A c \in DOMAIN cr : \E s \in DOMAIN sp : c \in sp[s],
         Voyages, RepairSavedVoyages(cr, sp)
  PROVE  \A v \in DOMAIN savedVoyages' : Good(savedVoyages'[v], cr, sp)
<1>1. PICK active \in [SurvivingVoyages(cr) ->
                 UNION {ActiveChoices(savedVoyages[s], cr) : s \in SurvivingVoyages(cr)}] :
        /\ \A s \in SurvivingVoyages(cr) : active[s] \in ActiveChoices(savedVoyages[s], cr)
        /\ savedVoyages' = [s \in SurvivingVoyages(cr) |->
                              Repaired(savedVoyages[s], active[s], cr, sp)]
  BY DEF RepairSavedVoyages
<1>2. SUFFICES ASSUME NEW v \in SurvivingVoyages(cr)
               PROVE  Good(Repaired(savedVoyages[v], active[v], cr, sp), cr, sp)
  BY <1>1
<1>3. NoCraftTwice(savedVoyages[v].entries)
  BY DEF Voyages, Good, SurvivingVoyages
<1>4. active[v] \in ActiveChoices(savedVoyages[v], cr)
  BY <1>1
<1> QED BY <1>3, <1>4, RepairedGood

\* Voyages that are left alone stay good while the tree grows.
LEMMA UnchangedVoyages ==
  ASSUME Voyages, Grows, UNCHANGED savedVoyages
  PROVE  Voyages'
  BY GoodGrows DEF Voyages, Grows

\* One voyage is set (or added) in a tree that has only grown.
LEMMA VoyageSet ==
  ASSUME Voyages, Grows, NEW v, NEW voyage,
         Good(voyage, tabGroups', spaces'),
         DOMAIN savedVoyages' \subseteq DOMAIN savedVoyages \cup {v},
         v \in DOMAIN savedVoyages' => savedVoyages'[v] = voyage,
         \A u \in DOMAIN savedVoyages' : u # v => savedVoyages'[u] = savedVoyages[u]
  PROVE  Voyages'
<1> SUFFICES ASSUME NEW u \in DOMAIN savedVoyages'
             PROVE  Good(savedVoyages'[u], tabGroups', spaces')
  BY DEF Voyages
<1>1. CASE u = v
  BY <1>1
<1>2. CASE u # v
  <2>1. Good(savedVoyages[u], tabGroups, spaces)
    BY <1>2 DEF Voyages
  <2>2. Good(savedVoyages[u], tabGroups', spaces')
    BY <2>1, GoodGrows DEF Grows
  <2> QED BY <1>2, <2>2
<1> QED BY <1>1, <1>2

\* A craft of a space gets the active entry of a voyage.
LEMMA ActiveEntrySet ==
  ASSUME Voyages, Grows, NEW v \in DOMAIN savedVoyages, NEW s \in DOMAIN spaces', NEW views,
         NEW c \in spaces'[s], c \in DOMAIN tabGroups',
         SetActiveEntry(v, s, c, views)
  PROVE  Voyages'
<1>1. PICK e \in EntriesToUse(savedVoyages[v].entries, c) :
        savedVoyages' = [savedVoyages EXCEPT ![v] = WithActiveEntry(savedVoyages[v], e, views, s)]
  BY DEF SetActiveEntry
<1>2. Good(savedVoyages[v], tabGroups', spaces')
  BY GoodGrows DEF Voyages, Grows
<1>3. CraftOf(e) = c
  BY DEF EntriesToUse, EntriesOfCraft, UniqueEntryId, CraftOf
<1>4. \A d \in DOMAIN savedVoyages[v].entries : CraftOf(d) = CraftOf(e) => d = e
  <2>1. CASE EntriesOfCraft(savedVoyages[v].entries, c) = {}
    BY <2>1, <1>3 DEF EntriesOfCraft
  <2>2. CASE EntriesOfCraft(savedVoyages[v].entries, c) # {}
    <3>1. e \in DOMAIN savedVoyages[v].entries
      BY <2>2 DEF EntriesToUse, EntriesOfCraft
    <3> QED BY <3>1, <1>2 DEF Good, NoCraftTwice
  <2> QED BY <2>1, <2>2
<1>5. Good(WithActiveEntry(savedVoyages[v], e, views, s), tabGroups', spaces')
  BY <1>2, <1>3, <1>4, ActiveEntryGood
<1>6. DOMAIN savedVoyages' = DOMAIN savedVoyages
  BY <1>1
<1> QED BY <1>1, <1>5, <1>6, VoyageSet

\* A new voyage on a craft of a space.
LEMMA SelectionSaved ==
  ASSUME Voyages, Grows, NEW v, NEW s \in DOMAIN spaces', NEW t, NEW cr,
         NEW c \in spaces'[s], c \in DOMAIN tabGroups',
         SaveSelection(v, s, c, t, cr)
  PROVE  Voyages'
<1> DEFINE new == OneEntryVoyage(<<c, 0>>, SelectedViews(cr, c, t), s)
<1>1. savedVoyages' = Put(savedVoyages, v, new)
  BY DEF SaveSelection
<1>2. Good(new, tabGroups', spaces')
  <2>1. CraftOf(<<c, 0>>) = c
    BY DEF CraftOf
  <2> QED BY <2>1, OneEntryGood
<1> HIDE DEF new
<1>3. /\ DOMAIN savedVoyages' = DOMAIN savedVoyages \cup {v}
      /\ savedVoyages'[v] = new
      /\ \A u \in DOMAIN savedVoyages : u # v => savedVoyages'[u] = savedVoyages[u]
  BY <1>1 DEF Put
<1> QED BY <1>2, <1>3, VoyageSet

\* What is left of a voyage when an entry leaves is good.
LEMMA RestGood ==
  ASSUME Tree, Voyages, NEW v \in DOMAIN savedVoyages, NEW e, NEW rest \in VoyagesWithout(v, e)
  PROVE  Good(rest, tabGroups, spaces)
<1> DEFINE old  == savedVoyages[v]
           less == Voyage(Without(old.entries, {e}), old.active, old.space, old.visited)
<1>1. PICK active \in ActiveChoices(less, tabGroups) :
        rest = Repaired(less, active, tabGroups, spaces)
  BY DEF VoyagesWithout
<1>2. less.entries = Without(old.entries, {e})
  BY DEF Voyage
<1>3. NoCraftTwice(old.entries)
  BY DEF Voyages, Good
<1> HIDE DEF less, old
<1>4. NoCraftTwice(less.entries)
  BY <1>2, <1>3 DEF NoCraftTwice, Without
<1>5. \A c \in DOMAIN tabGroups : \E s \in DOMAIN spaces : c \in spaces[s]
  BY DEF Tree, SpacesWhole
<1> QED BY <1>1, <1>4, <1>5, RepairedGood

-----------------------------------------------------------------------------
(* The tree is an invariant.                                               *)

\* Craft are dropped, from spaces that keep another one or with their space.
LEMMA CraftsDropped ==
  ASSUME Tree, UNCHANGED nextId, NEW D,
         tabGroups' = Without(tabGroups, D),
         DOMAIN spaces' \subseteq DOMAIN spaces, Home \in DOMAIN spaces',
         \A r \in DOMAIN spaces' : spaces'[r] = spaces[r] \ D /\ spaces'[r] # {},
         \A r \in DOMAIN spaces \ DOMAIN spaces' : spaces[r] \subseteq D
  PROVE  Tree'
<1>1. /\ DOMAIN tabGroups' = DOMAIN tabGroups \ D
      /\ \A c \in DOMAIN tabGroups' : tabGroups'[c] = tabGroups[c]
  BY DEF Without
<1>2. SpacesWhole'
  BY <1>1 DEF Tree, SpacesWhole
<1>3. CraftsWhole'
  BY <1>1 DEF Tree, CraftsWhole, WholeCraft
<1> QED BY <1>2, <1>3 DEF Tree

\* The only craft of a space is replaced by a fresh one.
LEMMA CraftReplaced ==
  ASSUME Tree, NEW s \in DOMAIN spaces, NEW c, spaces[s] = {c}, NEW craft,
         spaces' = [spaces EXCEPT ![s] = {nextId}],
         tabGroups' = Put(Without(tabGroups, {c}), nextId, craft),
         nextId' \in Nat, nextId < nextId',
         WholeCraft(craft, nextId'),
         \A t \in DOMAIN craft.url : nextId <= t
  PROVE  Tree'
<1>1. /\ DOMAIN tabGroups' = (DOMAIN tabGroups \ {c}) \cup {nextId}
      /\ \A b \in DOMAIN tabGroups \ {c} : tabGroups'[b] = tabGroups[b]
      /\ tabGroups'[nextId] = craft
      /\ nextId \notin DOMAIN tabGroups
  BY DEF Put, Without, Tree, SpacesWhole
<1>2. /\ DOMAIN spaces' = DOMAIN spaces
      /\ spaces'[s] = {nextId}
      /\ \A r \in DOMAIN spaces : r # s => spaces'[r] = spaces[r]
  OBVIOUS
<1>3. \A r \in DOMAIN spaces : r # s => c \notin spaces[r]
  BY DEF Tree, SpacesWhole
<1>4. SpacesWhole'
  <2>1. \A r \in DOMAIN spaces : spaces'[r] # {} /\ spaces'[r] \subseteq DOMAIN tabGroups'
    BY <1>1, <1>2, <1>3 DEF Tree, SpacesWhole
  <2>2. \A r, q \in DOMAIN spaces : r # q => spaces'[r] \cap spaces'[q] = {}
    BY <1>1, <1>2 DEF Tree, SpacesWhole
  <2>3. \A b \in DOMAIN tabGroups' : \E r \in DOMAIN spaces : b \in spaces'[r]
    BY <1>1, <1>2 DEF Tree, SpacesWhole
  <2>4. \A r \in DOMAIN spaces : r \in Nat /\ r < nextId'
    BY DEF Tree, SpacesWhole
  <2>5. \A b \in DOMAIN tabGroups' : b \in Nat /\ b < nextId'
    BY <1>1 DEF Tree, SpacesWhole
  <2>6. Home \in DOMAIN spaces
    BY DEF Tree, SpacesWhole
  <2> QED BY <1>2, <2>1, <2>2, <2>3, <2>4, <2>5, <2>6 DEF SpacesWhole
<1>5. \A b \in DOMAIN tabGroups' : WholeCraft(tabGroups'[b], nextId')
  <2> SUFFICES ASSUME NEW b \in DOMAIN tabGroups' PROVE WholeCraft(tabGroups'[b], nextId')
    OBVIOUS
  <2>1. CASE b = nextId
    BY <2>1, <1>1
  <2>2. CASE b # nextId
    <3>1. b \in DOMAIN tabGroups /\ tabGroups'[b] = tabGroups[b]
      BY <2>2, <1>1
    <3>2. WholeCraft(tabGroups[b], nextId)
      BY <3>1 DEF Tree, CraftsWhole
    <3>3. nextId \in Nat /\ nextId <= nextId'
      BY DEF Tree, SpacesWhole
    <3> QED BY <3>1, <3>2, <3>3, WholeStays
  <2> QED BY <2>1, <2>2
<1>6. \A a, b \in DOMAIN tabGroups' :
        a # b => DOMAIN tabGroups'[a].url \cap DOMAIN tabGroups'[b].url = {}
  <2>1. \A b \in DOMAIN tabGroups : DOMAIN craft.url \cap DOMAIN tabGroups[b].url = {}
    BY DEF Tree, SpacesWhole, CraftsWhole, WholeCraft
  <2>2. \A a, b \in DOMAIN tabGroups :
          a # b => DOMAIN tabGroups[a].url \cap DOMAIN tabGroups[b].url = {}
    BY DEF Tree, CraftsWhole
  <2> SUFFICES ASSUME NEW a \in DOMAIN tabGroups', NEW b \in DOMAIN tabGroups', a # b
               PROVE  DOMAIN tabGroups'[a].url \cap DOMAIN tabGroups'[b].url = {}
    OBVIOUS
  <2>3. CASE a = nextId
    BY <1>1, <2>1, <2>3
  <2>4. CASE b = nextId
    BY <1>1, <2>1, <2>4
  <2>5. CASE a # nextId /\ b # nextId
    BY <1>1, <2>2, <2>5
  <2> QED BY <2>3, <2>4, <2>5
<1> QED BY <1>4, <1>5, <1>6 DEF Tree, CraftsWhole

\* The craft the module makes are whole.
LEMMA NewCraftsWhole ==
  ASSUME NEW n \in Nat
  PROVE  /\ WholeCraft(MainCraft, n)
         /\ \A w : WholeCraft(VKCraft(w), n)
         /\ WholeCraft(OverviewCraft(n), n + 1)
         /\ WholeCraft(CreateCraft(n), n + 1)
         /\ DOMAIN MainCraft.url = {} /\ \A w : DOMAIN VKCraft(w).url = {}
         /\ DOMAIN OverviewCraft(n).url = {n} /\ DOMAIN CreateCraft(n).url = {n}
<1>1. /\ MainCraft.pairs = {} /\ DOMAIN MainCraft.url = {}
      /\ OverviewCraft(n).pairs = {} /\ DOMAIN OverviewCraft(n).url = {n}
      /\ CreateCraft(n).pairs = {} /\ DOMAIN CreateCraft(n).url = {n}
  BY DEF MainCraft, OverviewCraft, CreateCraft, Craft, NoTabs
<1>2. \A w : VKCraft(w).pairs = {} /\ DOMAIN VKCraft(w).url = {}
  BY DEF VKCraft, Craft, NoTabs
<1> QED BY <1>1, <1>2 DEF WholeCraft

\* A tab is closed, with its pairs.
LEMMA TabClosed ==
  ASSUME Tree, UNCHANGED <<spaces, nextId>>, NEW c \in DOMAIN tabGroups, NEW t,
         tabGroups' = [tabGroups EXCEPT ![c] = WithoutTab(tabGroups[c], t)]
  PROVE  Tree'
<1> DEFINE craft == WithoutTab(tabGroups[c], t)
<1>1. /\ DOMAIN craft.url = DOMAIN tabGroups[c].url \ {t}
      /\ craft.pairs = {p \in tabGroups[c].pairs : t \notin p.of}
  BY DEF WithoutTab, Craft, Without
<1>2. WholeCraft(tabGroups[c], nextId) /\ nextId \in Nat
  BY DEF Tree, CraftsWhole, SpacesWhole
<1> HIDE DEF craft
<1>3. WholeCraft(craft, nextId')
  BY <1>1, <1>2 DEF WholeCraft
<1>4. spaces' = spaces /\ nextId' \in Nat /\ nextId <= nextId'
  BY <1>2
<1>5. tabGroups' = [tabGroups EXCEPT ![c] = craft]
  BY DEF craft
<1> QED BY <1>1, <1>3, <1>4, <1>5, CraftChanges

\* A tab is added, or its URL changed.
LEMMA TabSet ==
  ASSUME Tree, UNCHANGED spaces, NEW c \in DOMAIN tabGroups, NEW t, NEW u,
         tabGroups' = [tabGroups EXCEPT ![c] = WithTab(tabGroups[c], t, u)],
         nextId' \in Nat, nextId <= nextId',
         t \in DOMAIN tabGroups[c].url \/ (t = nextId /\ nextId < nextId')
  PROVE  Tree'
<1> DEFINE craft == WithTab(tabGroups[c], t, u)
<1>1. /\ DOMAIN craft.url = DOMAIN tabGroups[c].url \cup {t}
      /\ craft.pairs = tabGroups[c].pairs
  BY DEF WithTab, Craft, Put
<1>2. WholeCraft(tabGroups[c], nextId) /\ nextId \in Nat
  BY DEF Tree, CraftsWhole, SpacesWhole
<1>3. tabGroups' = [tabGroups EXCEPT ![c] = craft]
  OBVIOUS
<1> HIDE DEF craft
<1>4. \A x \in DOMAIN craft.url : x \in Nat /\ x < nextId'
  BY <1>1, <1>2 DEF WholeCraft
<1>5. WholeCraft(craft, nextId')
  BY <1>1, <1>2, <1>4 DEF WholeCraft
<1>6. \A x \in DOMAIN craft.url : x \in DOMAIN tabGroups[c].url \/ nextId <= x
  BY <1>1, <1>2
<1> QED BY <1>3, <1>5, <1>6, CraftChanges

\* A pair is made or deleted.
LEMMA PairsSet ==
  ASSUME Tree, UNCHANGED spaces, NEW c \in DOMAIN tabGroups, NEW pairs,
         tabGroups' = [tabGroups EXCEPT ![c] = WithPairs(tabGroups[c], pairs)],
         nextId' \in Nat, nextId <= nextId',
         \A p \in pairs : \/ p \in tabGroups[c].pairs
                          \/ /\ p.id \in Nat /\ p.id < nextId'
                             /\ p.of \subseteq DOMAIN tabGroups[c].url /\ p.of # {}
  PROVE  Tree'
<1> DEFINE craft == WithPairs(tabGroups[c], pairs)
<1>1. craft.url = tabGroups[c].url /\ craft.pairs = pairs
  BY DEF WithPairs, Craft
<1>2. WholeCraft(tabGroups[c], nextId) /\ nextId \in Nat
  BY DEF Tree, CraftsWhole, SpacesWhole
<1> HIDE DEF craft
<1>3. WholeCraft(craft, nextId')
  BY <1>1, <1>2 DEF WholeCraft
<1> QED BY <1>1, <1>2, <1>3, CraftChanges DEF craft

\* A space with one empty craft is added (addSpace).
LEMMA SpaceAdded == Tree /\ AddSpace => Tree'
<1> SUFFICES ASSUME Tree, AddSpace PROVE Tree'
  OBVIOUS
<1> DEFINE new == nextId + 1
<1>1. /\ DOMAIN tabGroups' = DOMAIN tabGroups \cup {new}
      /\ \A c \in DOMAIN tabGroups : c # new => tabGroups'[c] = tabGroups[c]
      /\ tabGroups'[new] = MainCraft
  BY DEF AddSpace, Put
<1>2. /\ DOMAIN spaces' = DOMAIN spaces \cup {nextId}
      /\ spaces'[nextId] = {new}
      /\ \A r \in DOMAIN spaces : r # nextId => spaces'[r] = spaces[r]
  BY DEF AddSpace, Put
<1>3. /\ nextId \in Nat /\ new \in Nat /\ nextId' \in Nat
      /\ nextId < new /\ nextId < nextId' /\ new < nextId' /\ nextId <= nextId'
      /\ \A x \in Nat : x < nextId => x < nextId' /\ x # new /\ x # nextId
  BY DEF AddSpace, Tree, SpacesWhole
<1> HIDE DEF new
<1>4. new \notin DOMAIN tabGroups /\ nextId \notin DOMAIN spaces
  BY <1>3 DEF Tree, SpacesWhole
<1>5. SpacesWhole'
  <2>1. \A r \in DOMAIN spaces' : spaces'[r] # {} /\ spaces'[r] \subseteq DOMAIN tabGroups'
    BY <1>1, <1>2, <1>4 DEF Tree, SpacesWhole
  <2>2. \A r, q \in DOMAIN spaces' : r # q => spaces'[r] \cap spaces'[q] = {}
    BY <1>2, <1>4 DEF Tree, SpacesWhole
  <2>3. \A b \in DOMAIN tabGroups' : \E r \in DOMAIN spaces' : b \in spaces'[r]
    BY <1>1, <1>2, <1>4 DEF Tree, SpacesWhole
  <2>4. \A r \in DOMAIN spaces' : r \in Nat /\ r < nextId'
    BY <1>2, <1>3 DEF Tree, SpacesWhole
  <2>5. \A b \in DOMAIN tabGroups' : b \in Nat /\ b < nextId'
    BY <1>1, <1>3 DEF Tree, SpacesWhole
  <2>6. Home \in DOMAIN spaces'
    BY <1>2 DEF Tree, SpacesWhole
  <2> QED BY <1>3, <2>1, <2>2, <2>3, <2>4, <2>5, <2>6 DEF SpacesWhole
<1>6. \A b \in DOMAIN tabGroups' : WholeCraft(tabGroups'[b], nextId')
  <2>1. WholeCraft(MainCraft, nextId')
    BY <1>3, NewCraftsWhole
  <2>2. \A b \in DOMAIN tabGroups : WholeCraft(tabGroups[b], nextId')
    BY <1>3, WholeStays DEF Tree, CraftsWhole
  <2> QED BY <1>1, <1>4, <2>1, <2>2
<1>7. \A a, b \in DOMAIN tabGroups' :
        a # b => DOMAIN tabGroups'[a].url \cap DOMAIN tabGroups'[b].url = {}
  <2>1. DOMAIN MainCraft.url = {}
    BY <1>3, NewCraftsWhole
  <2> QED BY <1>1, <1>4, <2>1 DEF Tree, CraftsWhole
<1> QED BY <1>5, <1>6, <1>7 DEF Tree, CraftsWhole

\* The last craft of a space is replaced, any other only dropped.
LEMMA TabGroupDeleted ==
  ASSUME Tree, NEW s \in DOMAIN spaces, NEW c \in spaces[s], DeleteTabGroup(s, c)
  PROVE  Tree'
<1>0. nextId \in Nat
  BY DEF Tree, SpacesWhole
<1>1. CASE /\ spaces[s] # {c}
           /\ spaces' = [spaces EXCEPT ![s] = spaces[s] \ {c}]
           /\ tabGroups' = Without(tabGroups, {c})
           /\ UNCHANGED nextId
  <2>1. DOMAIN spaces' = DOMAIN spaces /\ Home \in DOMAIN spaces
    BY <1>1 DEF Tree, SpacesWhole
  <2>2. \A r \in DOMAIN spaces : r # s => c \notin spaces[r]
    BY DEF Tree, SpacesWhole
  <2>3. \A r \in DOMAIN spaces : spaces[r] # {}
    BY DEF Tree, SpacesWhole
  <2>4. \A r \in DOMAIN spaces' : spaces'[r] = spaces[r] \ {c} /\ spaces'[r] # {}
    BY <1>1, <2>1, <2>2, <2>3
  <2> QED BY <1>1, <2>1, <2>4, CraftsDropped
<1>2. CASE /\ spaces[s] = {c}
           /\ spaces' = [spaces EXCEPT ![s] = {nextId}]
           /\ tabGroups' = Put(Without(tabGroups, {c}), nextId, OverviewCraft(nextId + 1))
           /\ nextId' = nextId + 2
  <2>1. /\ WholeCraft(OverviewCraft(nextId + 1), nextId')
        /\ \A t \in DOMAIN OverviewCraft(nextId + 1).url : nextId <= t
    <3>1. nextId + 1 \in Nat /\ nextId' = (nextId + 1) + 1
      BY <1>0, <1>2
    <3>2. /\ WholeCraft(OverviewCraft(nextId + 1), (nextId + 1) + 1)
          /\ DOMAIN OverviewCraft(nextId + 1).url = {nextId + 1}
      BY <3>1, NewCraftsWhole
    <3> QED BY <1>0, <3>1, <3>2
  <2>2. nextId' \in Nat /\ nextId < nextId'
    BY <1>0, <1>2
  <2> HIDE DEF OverviewCraft
  <2> QED BY <1>2, <2>1, <2>2, CraftReplaced
<1>3. CASE /\ spaces[s] = {c}
           /\ spaces' = [spaces EXCEPT ![s] = {nextId}]
           /\ tabGroups' = Put(Without(tabGroups, {c}), nextId, MainCraft)
           /\ nextId' = nextId + 1
  <2>1. nextId' \in Nat /\ nextId < nextId'
    BY <1>0, <1>3
  <2>2. WholeCraft(MainCraft, nextId') /\ DOMAIN MainCraft.url = {}
    BY <2>1, NewCraftsWhole
  <2> QED BY <1>3, <2>1, <2>2, CraftReplaced
<1> QED BY <1>1, <1>2, <1>3 DEF DeleteTabGroup

\* A Create Workspace craft is appended to Home.
LEMMA CreateCraftAppended == Tree /\ AppendCreateCraft => Tree'
<1> SUFFICES ASSUME Tree, AppendCreateCraft PROVE Tree'
  OBVIOUS
<1>1. /\ nextId \in Nat /\ nextId + 1 \in Nat /\ nextId' \in Nat
      /\ nextId < nextId' /\ nextId <= nextId + 1 /\ nextId' = (nextId + 1) + 1
      /\ Home \in DOMAIN spaces
  BY DEF Tree, SpacesWhole, AppendCreateCraft
<1>2. /\ WholeCraft(CreateCraft(nextId + 1), nextId')
      /\ DOMAIN CreateCraft(nextId + 1).url = {nextId + 1}
  BY <1>1, NewCraftsWhole
<1>3. Append(Home, nextId, CreateCraft(nextId + 1))
  BY DEF AppendCreateCraft
<1> HIDE DEF CreateCraft
<1> QED BY <1>1, <1>2, <1>3, CraftAppended

\* A VK workspace is found, or a craft for it appended.
LEMMA VKCraftAppended ==
  ASSUME Tree, NEW s \in DOMAIN spaces, NEW w, FindOrAddVKCraft(s, w)
  PROVE  Tree'
<1>1. CASE UNCHANGED <<spaces, tabGroups, nextId>>
  BY <1>1 DEF Tree, SpacesWhole, CraftsWhole
<1>2. CASE Append(s, nextId, VKCraft(w)) /\ nextId' = nextId + 1
  <2>1. nextId \in Nat /\ nextId' \in Nat /\ nextId < nextId'
    BY <1>2 DEF Tree, SpacesWhole
  <2>2. WholeCraft(VKCraft(w), nextId') /\ DOMAIN VKCraft(w).url = {}
    BY <2>1, NewCraftsWhole
  <2> HIDE DEF VKCraft
  <2> QED BY <1>2, <2>1, <2>2, CraftAppended
<1> QED BY <1>1, <1>2 DEF FindOrAddVKCraft

\* The tree is not touched.
LEMMA TreeUnchanged == Tree /\ UNCHANGED <<spaces, tabGroups, nextId>> => Tree'
  BY DEF Tree, SpacesWhole, CraftsWhole

\* A start drops tabs and the pairs of dropped tabs, and no craft.
LEMMA BootTree == Tree /\ Boot => Tree'
<1> SUFFICES ASSUME Tree, Boot PROVE Tree'
  OBVIOUS
<1>1. /\ DOMAIN tabGroups' = DOMAIN tabGroups
      /\ \A c \in DOMAIN tabGroups : tabGroups'[c] = WithoutGeneratedTabs(tabGroups[c])
      /\ UNCHANGED <<spaces, nextId>>
  BY DEF Boot
<1>2. ASSUME NEW craft
      PROVE  /\ DOMAIN WithoutGeneratedTabs(craft).url \subseteq DOMAIN craft.url
             /\ \A p \in WithoutGeneratedTabs(craft).pairs :
                  p \in craft.pairs /\ p.of \subseteq DOMAIN WithoutGeneratedTabs(craft).url
  <2> DEFINE kept == {t \in DOMAIN craft.url : craft.url[t] \notin {"create"} \cup VKIds}
  <2>1. /\ WithoutGeneratedTabs(craft).url = [t \in kept |-> craft.url[t]]
        /\ WithoutGeneratedTabs(craft).pairs = {p \in craft.pairs : p.of \subseteq kept}
    BY DEF WithoutGeneratedTabs, Craft
  <2>2. DOMAIN WithoutGeneratedTabs(craft).url = kept
    BY <2>1
  <2> QED BY <2>1, <2>2
<1> HIDE DEF WithoutGeneratedTabs
<1>3. SpacesWhole'
  BY <1>1 DEF Tree, SpacesWhole
<1>4. \A c \in DOMAIN tabGroups : WholeCraft(tabGroups'[c], nextId')
  BY <1>1, <1>2 DEF Tree, CraftsWhole, WholeCraft
<1>5. \A a, b \in DOMAIN tabGroups :
        a # b => DOMAIN tabGroups'[a].url \cap DOMAIN tabGroups'[b].url = {}
  BY <1>1, <1>2 DEF Tree, CraftsWhole
<1> QED BY <1>1, <1>3, <1>4, <1>5 DEF Tree, CraftsWhole

\* The tree, under the actions on spaces and whole craft.
LEMMA ChangeSpacesTree == Tree /\ ChangeSpaces => Tree'
<1> SUFFICES ASSUME Tree, ChangeSpaces PROVE Tree'
  OBVIOUS
<1>0. nextId \in Nat
  BY DEF Tree, SpacesWhole
<1>1. ASSUME NEW s \in DOMAIN spaces, DeleteSpace(s) PROVE Tree'
  <2>1. /\ DOMAIN spaces' = DOMAIN spaces \ {s}
        /\ \A r \in DOMAIN spaces' : spaces'[r] = spaces[r]
        /\ s # Home /\ UNCHANGED nextId
        /\ tabGroups' = Without(tabGroups, spaces[s])
    BY <1>1 DEF DeleteSpace, Without
  <2>2. \A r \in DOMAIN spaces : r # s => spaces[r] \cap spaces[s] = {}
    BY DEF Tree, SpacesWhole
  <2>3. \A r \in DOMAIN spaces' : spaces'[r] = spaces[r] \ spaces[s] /\ spaces'[r] # {}
    BY <2>1, <2>2 DEF Tree, SpacesWhole
  <2>4. Home \in DOMAIN spaces'
    BY <2>1 DEF Tree, SpacesWhole
  <2> QED BY <2>1, <2>3, <2>4, CraftsDropped
<1>2. ASSUME NEW s \in DOMAIN spaces, AddTabGroup(s) PROVE Tree'
  <2>1. Append(s, nextId, MainCraft) /\ nextId' \in Nat /\ nextId < nextId'
    BY <1>0, <1>2 DEF AddTabGroup
  <2>2. WholeCraft(MainCraft, nextId') /\ DOMAIN MainCraft.url = {}
    BY <2>1, NewCraftsWhole
  <2> QED BY <2>1, <2>2, CraftAppended
<1>3. ASSUME EnsureCreateWorkspaceTab PROVE Tree'
  <2>1. PICK c \in spaces[Home] : AddTab(c, "create")
    BY <1>3 DEF EnsureCreateWorkspaceTab
  <2>2. c \in DOMAIN tabGroups
    BY DEF Tree, SpacesWhole
  <2>3. /\ tabGroups' = [tabGroups EXCEPT ![c] = WithTab(tabGroups[c], nextId, "create")]
        /\ UNCHANGED spaces /\ nextId' \in Nat /\ nextId < nextId' /\ nextId <= nextId'
    BY <1>0, <2>1 DEF AddTab
  <2> QED BY <2>2, <2>3, TabSet
<1>4. ASSUME NEW s \in DOMAIN spaces, NEW w \in VKIds, AddVKWorkspace(s, w) PROVE Tree'
  BY <1>4, VKCraftAppended DEF AddVKWorkspace
<1> QED
  BY <1>1, <1>2, <1>3, <1>4, SpaceAdded, TabGroupDeleted, CreateCraftAppended
  DEF ChangeSpaces, CreateCreateWorkspaceCraft

\* The tree, under the actions on the tabs and pairs of a craft.
LEMMA ChangeCraftTree == Tree /\ ChangeCraft => Tree'
<1> SUFFICES ASSUME Tree, ChangeCraft PROVE Tree'
  OBVIOUS
<1>0. nextId \in Nat /\ nextId <= nextId
  BY DEF Tree, SpacesWhole
<1>1. ASSUME NEW c \in DOMAIN tabGroups, NEW t \in TabsOf(tabGroups, c), CloseTab(c, t)
      PROVE  Tree'
  <2>1. UNCHANGED <<spaces, nextId>>
    BY <1>1 DEF CloseTab
  <2>2. CASE t \in tabGroups[c].pinned
    <3>1. tabGroups' = [tabGroups EXCEPT ![c] = tabGroups[c]]
      BY <1>1, <2>2 DEF CloseTab
    <3>2. WholeCraft(tabGroups[c], nextId') /\ nextId' \in Nat /\ nextId <= nextId'
      BY <1>0, <2>1 DEF Tree, CraftsWhole
    <3> QED BY <2>1, <3>1, <3>2, CraftChanges
  <2>3. CASE t \notin tabGroups[c].pinned
    BY <1>1, <2>1, <2>3, TabClosed DEF CloseTab
  <2> QED BY <2>2, <2>3
<1>2. ASSUME NEW c \in DOMAIN tabGroups, NEW t \in TabsOf(tabGroups, c), CloseActiveTab(c, t)
      PROVE  Tree'
  BY <1>2, TabClosed DEF CloseActiveTab
<1>3. ASSUME NEW c \in DOMAIN tabGroups, NEW u \in UserUrls, AddTab(c, u) PROVE Tree'
  <2>1. /\ tabGroups' = [tabGroups EXCEPT ![c] = WithTab(tabGroups[c], nextId, u)]
        /\ UNCHANGED spaces /\ nextId' \in Nat /\ nextId < nextId' /\ nextId <= nextId'
    BY <1>0, <1>3 DEF AddTab
  <2> QED BY <2>1, TabSet
<1>4. ASSUME NEW c \in DOMAIN tabGroups, NEW t \in TabsOf(tabGroups, c), NEW u \in UserUrls,
             UpdateTabUrl(c, t, u)
      PROVE  Tree'
  BY <1>0, <1>4, TabSet DEF UpdateTabUrl, TabsOf
<1>5. ASSUME NEW c \in DOMAIN tabGroups, NEW t1 \in TabsOf(tabGroups, c),
             NEW t2 \in TabsOf(tabGroups, c), CreatePair(c, t1, t2)
      PROVE  Tree'
  <2> DEFINE pair  == [id |-> nextId, of |-> {t1, t2}]
             pairs == tabGroups[c].pairs \cup {pair}
  <2>1. /\ tabGroups' = [tabGroups EXCEPT ![c] = WithPairs(tabGroups[c], pairs)]
        /\ UNCHANGED spaces /\ nextId' \in Nat /\ nextId < nextId' /\ nextId <= nextId'
    BY <1>0, <1>5 DEF CreatePair
  <2>2. /\ pair.id \in Nat /\ pair.id < nextId'
        /\ pair.of \subseteq DOMAIN tabGroups[c].url /\ pair.of # {}
    BY <1>0, <2>1 DEF TabsOf
  <2> HIDE DEF pair
  <2>3. \A p \in pairs : \/ p \in tabGroups[c].pairs
                         \/ /\ p.id \in Nat /\ p.id < nextId'
                            /\ p.of \subseteq DOMAIN tabGroups[c].url /\ p.of # {}
    BY <2>2
  <2> HIDE DEF pairs
  <2> QED BY <2>1, <2>3, PairsSet
<1>6. ASSUME NEW c \in DOMAIN tabGroups, NEW p \in tabGroups[c].pairs, DeletePair(c, p)
      PROVE  Tree'
  <2> DEFINE pairs == tabGroups[c].pairs \ {p}
  <2>1. /\ tabGroups' = [tabGroups EXCEPT ![c] = WithPairs(tabGroups[c], pairs)]
        /\ UNCHANGED spaces /\ nextId' \in Nat /\ nextId <= nextId'
    BY <1>0, <1>6 DEF DeletePair
  <2>2. \A q \in pairs : q \in tabGroups[c].pairs
    OBVIOUS
  <2> HIDE DEF pairs
  <2> QED BY <2>1, <2>2, PairsSet
<1> QED BY <1>1, <1>2, <1>3, <1>4, <1>5, <1>6 DEF ChangeCraft

-----------------------------------------------------------------------------
(* The voyages are an invariant.                                           *)

\* The least id of some is one of them.
LEMMA LeastIsLeast ==
  ASSUME NEW S, S \subseteq Nat, S # {}
  PROVE  Least(S) \in S /\ \A m \in S : Least(S) <= m
<1> DEFINE R == {ss \in Nat \X Nat : ss[1] < ss[2]}
<1>1. IsWellFoundedOn(R, Nat)
  BY NatLessThanWellFounded, Zenon DEF OpToRel
<1>2. \A y, x \in Nat : y < x => <<y, x>> \in R
  OBVIOUS
<1> HIDE DEF R
<1>3. PICK x \in S : \A y \in S : ~ (<<y, x>> \in R)
  BY <1>1, WFMin
<1>4. ASSUME NEW y \in S PROVE x <= y
  <2>1. x \in Nat /\ y \in Nat
    OBVIOUS
  <2>2. ~(y < x)
    BY <2>1, <1>2, <1>3
  <2> QED BY <2>1, <2>2
<1> QED BY <1>4 DEF Least

\* A craft appended to a space is in it, and nothing else changes.
LEMMA AppendGrows ==
  ASSUME NEW s \in DOMAIN spaces, NEW c, NEW craft, Append(s, c, craft)
  PROVE  /\ Grows
         /\ s \in DOMAIN spaces' /\ c \in spaces'[s] /\ c \in DOMAIN tabGroups'
  BY DEF Append, Put, Grows

\* The selection of a VK workspace is a craft of the space it names.
LEMMA VKSelected ==
  ASSUME Tree, NEW s \in DOMAIN spaces, NEW w, FindOrAddVKCraft(s, w)
  PROVE  /\ Grows
         /\ SelectionForVK(s, w).space \in DOMAIN spaces'
         /\ SelectionForVK(s, w).craft \in spaces'[SelectionForVK(s, w).space]
         /\ SelectionForVK(s, w).craft \in DOMAIN tabGroups'
<1>1. CASE CraftOfVK(w) = {} /\ Append(s, nextId, VKCraft(w))
  <2>1. SelectionForVK(s, w).space = s /\ SelectionForVK(s, w).craft = nextId
    BY <1>1 DEF SelectionForVK
  <2> QED BY <1>1, <2>1, AppendGrows
<1>2. CASE CraftOfVK(w) # {} /\ UNCHANGED <<spaces, tabGroups, nextId>>
  <2> DEFINE c == Least(CraftOfVK(w))
  <2>1. CraftOfVK(w) \subseteq DOMAIN tabGroups /\ DOMAIN tabGroups \subseteq Nat
    BY DEF CraftOfVK, Tree, SpacesWhole
  <2>2. c \in DOMAIN tabGroups
    BY <1>2, <2>1, LeastIsLeast
  <2>3. /\ SelectionForVK(s, w).space = SpaceOf(spaces, c, s)
        /\ SelectionForVK(s, w).craft = c
    BY <1>2 DEF SelectionForVK
  <2> HIDE DEF c
  <2>4. \E r \in DOMAIN spaces : c \in spaces[r]
    BY <2>2 DEF Tree, SpacesWhole
  <2>5. SpaceOf(spaces, c, s) \in DOMAIN spaces /\ c \in spaces[SpaceOf(spaces, c, s)]
    BY <2>4, SpaceFound
  <2> QED BY <1>2, <2>2, <2>3, <2>5 DEF Grows
<1> QED BY <1>1, <1>2 DEF FindOrAddVKCraft

\* Another entry of a voyage becomes the active one (activateSavedVoyageEntry).
LEMMA EntryActivated ==
  ASSUME Tree, Voyages, NEW v \in DOMAIN savedVoyages, NEW e \in DOMAIN savedVoyages[v].entries,
         ActivateSavedVoyageEntry(v, e)
  PROVE  Voyages'
<1> DEFINE old == savedVoyages[v]
           new == Voyage(old.entries, e, SpaceOf(spaces, CraftOf(e), old.space), old.visited)
<1>1. /\ savedVoyages' = [savedVoyages EXCEPT ![v] = new]
      /\ UNCHANGED <<spaces, tabGroups>>
  BY DEF ActivateSavedVoyageEntry
<1>2. /\ new.entries = old.entries /\ new.active = e /\ new.craft = CraftOf(e)
      /\ new.space = SpaceOf(spaces, CraftOf(e), old.space) /\ new.visited = old.visited
  BY DEF Voyage
<1>3. Good(old, tabGroups, spaces)
  BY DEF Voyages
<1>4. CraftOf(e) \in DOMAIN tabGroups
  BY <1>3 DEF Good, Resumable, CraftsOf
<1>5. \E s \in DOMAIN spaces : CraftOf(e) \in spaces[s]
  BY <1>4 DEF Tree, SpacesWhole
<1> HIDE DEF new
<1>6. new.space \in DOMAIN spaces /\ new.craft \in spaces[new.space]
  BY <1>2, <1>5, SpaceFound
<1>7. Good(new, tabGroups, spaces)
  BY <1>2, <1>3, <1>6 DEF Good, Resumable
<1>8. Grows
  BY <1>1 DEF Grows
<1>9. Good(new, tabGroups', spaces')
  BY <1>1, <1>7
<1> QED BY <1>1, <1>8, <1>9, VoyageSet

\* An entry is removed (removeVoyageEntryFromSavedSession).
LEMMA EntryRemoved ==
  ASSUME Tree, Voyages, NEW v \in DOMAIN savedVoyages, NEW e,
         RemoveVoyageEntryFromSavedSession(v, e)
  PROVE  Voyages'
<1>1. PICK rest \in VoyagesWithout(v, e) : savedVoyages' = [savedVoyages EXCEPT ![v] = rest]
  BY DEF RemoveVoyageEntryFromSavedSession
<1>2. UNCHANGED <<spaces, tabGroups>>
  BY DEF RemoveVoyageEntryFromSavedSession
<1>3. Good(rest, tabGroups', spaces') /\ Grows
  BY <1>2, RestGood DEF Grows
<1> QED BY <1>1, <1>3, VoyageSet

\* Two voyages change at once.
LEMMA TwoVoyagesSet ==
  ASSUME Voyages, UNCHANGED <<spaces, tabGroups>>, NEW v, NEW u, NEW one, NEW other,
         Good(one, tabGroups, spaces), Good(other, tabGroups, spaces),
         \A x \in DOMAIN savedVoyages' :
           \/ x = v /\ savedVoyages'[x] = one
           \/ x = u /\ savedVoyages'[x] = other
           \/ x \in DOMAIN savedVoyages /\ savedVoyages'[x] = savedVoyages[x]
  PROVE  Voyages'
<1>1. \A x \in DOMAIN savedVoyages : Good(savedVoyages[x], tabGroups, spaces)
  BY DEF Voyages
<1>2. spaces' = spaces /\ tabGroups' = tabGroups
  OBVIOUS
<1> HIDE DEF Good
<1>3. \A x \in DOMAIN savedVoyages' : Good(savedVoyages'[x], tabGroups, spaces)
  BY <1>1
<1> QED BY <1>2, <1>3 DEF Voyages

\* An entry moves to another voyage (moveVoyageEntryBetweenSavedSessions).
LEMMA EntryMoved ==
  ASSUME Tree, Voyages, NEW v \in DOMAIN savedVoyages, NEW u \in DOMAIN savedVoyages,
         NEW e \in DOMAIN savedVoyages[v].entries,
         MoveVoyageEntryBetweenSavedSessions(v, u, e)
  PROVE  Voyages'
<1> DEFINE space == SpaceOf(spaces, CraftOf(e), savedVoyages[u].space)
           moved == WithActiveEntry(savedVoyages[u], e, savedVoyages[v].entries[e], space)
<1>1. PICK rest \in VoyagesWithout(v, e) :
        savedVoyages' = [savedVoyages EXCEPT ![v] = rest, ![u] = moved]
  BY DEF MoveVoyageEntryBetweenSavedSessions
<1>2. /\ UNCHANGED <<spaces, tabGroups>>
      /\ EntriesOfCraft(savedVoyages[u].entries, CraftOf(e)) = {}
  BY DEF MoveVoyageEntryBetweenSavedSessions
<1>3. Good(rest, tabGroups, spaces)
  BY RestGood
<1>4. CraftOf(e) \in DOMAIN tabGroups
  BY DEF Voyages, Good, Resumable, CraftsOf
<1>5. \E s \in DOMAIN spaces : CraftOf(e) \in spaces[s]
  BY <1>4 DEF Tree, SpacesWhole
<1>6. space \in DOMAIN spaces /\ CraftOf(e) \in spaces[space]
  BY <1>5, SpaceFound
<1> HIDE DEF space
<1>7. \A d \in DOMAIN savedVoyages[u].entries : CraftOf(d) = CraftOf(e) => d = e
  BY <1>2 DEF EntriesOfCraft
<1>8. Good(savedVoyages[u], tabGroups, spaces)
  BY DEF Voyages
<1>9. Good(moved, tabGroups, spaces)
  BY <1>4, <1>6, <1>7, <1>8, ActiveEntryGood
<1> HIDE DEF moved
<1>10. \A x \in DOMAIN savedVoyages' :
         \/ x = v /\ savedVoyages'[x] = rest
         \/ x = u /\ savedVoyages'[x] = moved
         \/ x \in DOMAIN savedVoyages /\ savedVoyages'[x] = savedVoyages[x]
  BY <1>1
<1> QED BY <1>2, <1>3, <1>9, <1>10, TwoVoyagesSet

\* An entry becomes a voyage, with or without leaving its own.
LEMMA EntryForked ==
  ASSUME Tree, Voyages, NEW v, NEW e, NEW views,
         CreateSavedSessionFromVoyageEntry(v, e, views)
  PROVE  Voyages'
<1> DEFINE space  == SpaceOf(spaces, CraftOf(e), Home)
           forked == OneEntryVoyage(e, NormalizedViews(tabGroups, CraftOf(e), views), space)
<1>1. /\ UNCHANGED <<spaces, tabGroups>>
      /\ CraftOf(e) \in DOMAIN tabGroups
      /\ \/ savedVoyages' = Put(savedVoyages, v, forked)
         \/ \E source \in DOMAIN savedVoyages : \E rest \in VoyagesWithout(source, e) :
              savedVoyages' = Put([savedVoyages EXCEPT ![source] = rest], v, forked)
  BY DEF CreateSavedSessionFromVoyageEntry
<1>2. \E s \in DOMAIN spaces : CraftOf(e) \in spaces[s]
  BY <1>1 DEF Tree, SpacesWhole
<1>3. space \in DOMAIN spaces /\ CraftOf(e) \in spaces[space]
  BY <1>2, SpaceFound
<1> HIDE DEF space
<1>4. Good(forked, tabGroups, spaces)
  BY <1>1, <1>3, OneEntryGood
<1> HIDE DEF forked
<1>5. CASE savedVoyages' = Put(savedVoyages, v, forked)
  <2>1. \A x \in DOMAIN savedVoyages' :
          \/ x = v /\ savedVoyages'[x] = forked
          \/ x \in DOMAIN savedVoyages /\ savedVoyages'[x] = savedVoyages[x]
    BY <1>5 DEF Put
  <2> QED BY <1>1, <1>4, <2>1, TwoVoyagesSet
<1>6. ASSUME NEW source \in DOMAIN savedVoyages, NEW rest \in VoyagesWithout(source, e),
             savedVoyages' = Put([savedVoyages EXCEPT ![source] = rest], v, forked)
      PROVE  Voyages'
  <2>1. \A x \in DOMAIN savedVoyages' :
          \/ x = v /\ savedVoyages'[x] = forked
          \/ x = source /\ savedVoyages'[x] = rest
          \/ x \in DOMAIN savedVoyages /\ savedVoyages'[x] = savedVoyages[x]
    BY <1>6 DEF Put
  <2>2. Good(rest, tabGroups, spaces)
    BY RestGood
  <2> QED BY <1>1, <1>4, <2>1, <2>2, TwoVoyagesSet
<1> QED BY <1>1, <1>5, <1>6

\* A voyage is deleted.
LEMMA VoyageDeleted ==
  ASSUME Voyages, NEW v, DeleteSavedSession(v)
  PROVE  Voyages'
  BY DEF Voyages, DeleteSavedSession, Without, Good

\* The tree, under the actions on voyages.
LEMMA ChangeVoyagesTree == Tree /\ ChangeVoyages => Tree'
<1> SUFFICES ASSUME Tree, ChangeVoyages PROVE Tree'
  OBVIOUS
<1>1. CASE AppendCreateCraft
  BY <1>1, CreateCraftAppended
<1>2. CASE \E s \in DOMAIN spaces, w \in VKIds : FindOrAddVKCraft(s, w)
  BY <1>2, VKCraftAppended
<1>3. CASE UNCHANGED <<spaces, tabGroups, nextId>>
  BY <1>3, TreeUnchanged
<1> QED
  BY <1>1, <1>2, <1>3
  DEF ChangeVoyages, CreateCreateWorkspaceSavedSession, CreateSavedSessionForVKWorkspace,
      CreateSavedSessionForSelection, CreateSavedSessionFromVoyageEntry,
      OpenVKWorkspaceInSavedSession, AddSelectionToSavedSession, DeleteSavedSession,
      ActivateSavedVoyageEntry, RemoveVoyageEntryFromSavedSession,
      MoveVoyageEntryBetweenSavedSessions

\* Every step keeps the tree.
LEMMA TreeNext == Tree /\ [Next]_vars => Tree'
  BY BootTree, ChangeSpacesTree, ChangeCraftTree, ChangeVoyagesTree, TreeUnchanged
  DEF Next, vars

\* A tree covers its craft, which is what a repair needs of it.
LEMMA TreeCovers == Tree => \A c \in DOMAIN tabGroups : \E s \in DOMAIN spaces : c \in spaces[s]
  BY DEF Tree, SpacesWhole

\* The voyages, under the actions on spaces and whole craft: those that delete
\* repair, the others only let the tree grow.
LEMMA ChangeSpacesVoyages == Tree /\ Tree' /\ Voyages /\ ChangeSpaces => Voyages'
<1> SUFFICES ASSUME Tree, Tree', Voyages, ChangeSpaces PROVE Voyages'
  OBVIOUS
<1>1. CASE RepairSavedVoyages(tabGroups', spaces')
  <2>1. \A c \in DOMAIN tabGroups' : \E s \in DOMAIN spaces' : c \in spaces'[s]
    BY DEF Tree, SpacesWhole
  <2> QED BY <1>1, <2>1, RepairGivesVoyages DEF Voyages
<1>2. CASE Grows /\ UNCHANGED savedVoyages
  BY <1>2, UnchangedVoyages
<1>3. AddSpace => Grows /\ UNCHANGED savedVoyages
  <2> SUFFICES ASSUME AddSpace PROVE Grows /\ UNCHANGED savedVoyages
    OBVIOUS
  <2>1. nextId \notin DOMAIN spaces
    BY DEF Tree, SpacesWhole
  <2> QED BY <2>1 DEF AddSpace, Put, Grows
<1>4. \A s \in DOMAIN spaces : AddTabGroup(s) => Grows /\ UNCHANGED savedVoyages
  BY AppendGrows DEF AddTabGroup
<1>5. EnsureCreateWorkspaceTab => Grows /\ UNCHANGED savedVoyages
  BY DEF EnsureCreateWorkspaceTab, AddTab, Grows
<1>6. CreateCreateWorkspaceCraft => Grows /\ UNCHANGED savedVoyages
  BY AppendGrows DEF CreateCreateWorkspaceCraft, AppendCreateCraft, Tree, SpacesWhole
<1>7. \A s \in DOMAIN spaces, w \in VKIds : AddVKWorkspace(s, w) => Grows /\ UNCHANGED savedVoyages
  BY VKSelected DEF AddVKWorkspace
<1> QED
  BY <1>1, <1>2, <1>3, <1>4, <1>5, <1>6, <1>7 DEF ChangeSpaces, DeleteSpace, DeleteTabGroup

\* The voyages, under the actions on tabs and pairs: no craft comes or goes.
LEMMA ChangeCraftVoyages == Tree /\ Tree' /\ Voyages /\ ChangeCraft => Voyages'
<1> SUFFICES ASSUME Tree, Tree', Voyages, ChangeCraft PROVE Voyages'
  OBVIOUS
<1>1. UNCHANGED spaces
  BY DEF ChangeCraft, CloseActiveTab, CloseTab, AddTab, UpdateTabUrl, CreatePair, DeletePair
<1>2. CASE RepairSavedVoyages(tabGroups', spaces)
  <2>1. \A c \in DOMAIN tabGroups' : \E s \in DOMAIN spaces : c \in spaces[s]
    BY <1>1 DEF Tree, SpacesWhole
  <2>2. \A v \in DOMAIN savedVoyages' : Good(savedVoyages'[v], tabGroups', spaces)
    BY <1>2, <2>1, RepairGivesVoyages
  <2> QED BY <1>1, <2>2 DEF Voyages
<1>3. CASE Grows /\ UNCHANGED savedVoyages
  BY <1>3, UnchangedVoyages
<1>4. ASSUME NEW c \in DOMAIN tabGroups, NEW craft,
             tabGroups' = [tabGroups EXCEPT ![c] = craft]
      PROVE  Grows
  BY <1>1, <1>4 DEF Grows
<1>5. CASE \E c \in DOMAIN tabGroups :
             \/ \E t \in TabsOf(tabGroups, c) : CloseTab(c, t)
             \/ \E p \in tabGroups[c].pairs : DeletePair(c, p)
  BY <1>2, <1>5 DEF CloseTab, DeletePair
<1>6. CASE \E c \in DOMAIN tabGroups :
             \/ \E t \in TabsOf(tabGroups, c) : CloseActiveTab(c, t)
             \/ \E u \in UserUrls : AddTab(c, u)
             \/ \E t \in TabsOf(tabGroups, c), u \in UserUrls : UpdateTabUrl(c, t, u)
             \/ \E t1, t2 \in TabsOf(tabGroups, c) : CreatePair(c, t1, t2)
  BY <1>3, <1>4, <1>6 DEF CloseActiveTab, AddTab, UpdateTabUrl, CreatePair
<1> QED BY <1>5, <1>6 DEF ChangeCraft

\* The voyages, under the actions on voyages.
LEMMA ChangeVoyagesVoyages == Tree /\ Tree' /\ Voyages /\ ChangeVoyages => Voyages'
<1> SUFFICES ASSUME Tree, Tree', Voyages, ChangeVoyages PROVE Voyages'
  OBVIOUS
<1>0. Home \in DOMAIN spaces
  BY DEF Tree, SpacesWhole
<1>1. ASSUME NEW v \in Sessions, CreateCreateWorkspaceSavedSession(v) PROVE Voyages'
  <2>1. Append(Home, nextId, CreateCraft(nextId + 1))
    BY <1>1 DEF CreateCreateWorkspaceSavedSession, AppendCreateCraft
  <2>2. SaveSelection(v, Home, nextId, nextId + 1, tabGroups')
    BY <1>1 DEF CreateCreateWorkspaceSavedSession
  <2>3. /\ Grows
        /\ Home \in DOMAIN spaces' /\ nextId \in spaces'[Home] /\ nextId \in DOMAIN tabGroups'
    BY <1>0, <2>1, AppendGrows
  <2> QED BY <2>2, <2>3, SelectionSaved
<1>2. ASSUME NEW v \in Sessions, NEW s \in DOMAIN spaces, NEW w \in VKIds,
             CreateSavedSessionForVKWorkspace(v, s, w)
      PROVE  Voyages'
  <2> DEFINE sel == SelectionForVK(s, w)
  <2>1. /\ FindOrAddVKCraft(s, w)
        /\ SaveSelection(v, sel.space, sel.craft, sel.tab, tabGroups')
    BY <1>2 DEF CreateSavedSessionForVKWorkspace
  <2>2. /\ Grows
        /\ sel.space \in DOMAIN spaces' /\ sel.craft \in spaces'[sel.space]
        /\ sel.craft \in DOMAIN tabGroups'
    BY <2>1, VKSelected
  <2> HIDE DEF sel
  <2> QED BY <2>1, <2>2, SelectionSaved
<1>3. ASSUME NEW v \in Sessions, NEW s \in DOMAIN spaces, NEW c \in spaces[s], NEW t,
             CreateSavedSessionForSelection(v, s, c, t)
      PROVE  Voyages'
  <2>1. UNCHANGED <<spaces, tabGroups>> /\ SaveSelection(v, s, c, t, tabGroups)
    BY <1>3 DEF CreateSavedSessionForSelection
  <2>2. /\ Grows
        /\ s \in DOMAIN spaces' /\ c \in spaces'[s] /\ c \in DOMAIN tabGroups'
    BY <2>1 DEF Grows, Tree, SpacesWhole
  <2> QED BY <2>1, <2>2, SelectionSaved
<1>4. ASSUME NEW v \in DOMAIN savedVoyages, NEW s \in DOMAIN spaces, NEW w \in VKIds,
             OpenVKWorkspaceInSavedSession(v, s, w)
      PROVE  Voyages'
  <2> DEFINE sel   == SelectionForVK(s, w)
             views == SelectedViews(tabGroups', sel.craft, sel.tab)
  <2>1. FindOrAddVKCraft(s, w) /\ SetActiveEntry(v, sel.space, sel.craft, views)
    BY <1>4 DEF OpenVKWorkspaceInSavedSession
  <2>2. /\ Grows
        /\ sel.space \in DOMAIN spaces' /\ sel.craft \in spaces'[sel.space]
        /\ sel.craft \in DOMAIN tabGroups'
    BY <2>1, VKSelected
  <2> HIDE DEF sel, views
  <2> QED BY <2>1, <2>2, ActiveEntrySet
<1>5. ASSUME NEW v \in DOMAIN savedVoyages, NEW s \in DOMAIN spaces, NEW c \in spaces[s],
             NEW views, AddSelectionToSavedSession(v, s, c, views)
      PROVE  Voyages'
  <2>1. UNCHANGED <<spaces, tabGroups>> /\ SetActiveEntry(v, s, c, views)
    BY <1>5 DEF AddSelectionToSavedSession
  <2>2. /\ Grows
        /\ s \in DOMAIN spaces' /\ c \in spaces'[s] /\ c \in DOMAIN tabGroups'
    BY <2>1 DEF Grows, Tree, SpacesWhole
  <2> QED BY <2>1, <2>2, ActiveEntrySet
<1> QED
  BY <1>1, <1>2, <1>3, <1>4, <1>5,
     EntryForked, VoyageDeleted, EntryActivated, EntryRemoved, EntryMoved
  DEF ChangeVoyages

\* The voyages, over a start: the tabs dropped after the repair take no craft.
LEMMA BootVoyages == Tree /\ Voyages /\ Boot => Voyages'
<1> SUFFICES ASSUME Tree, Voyages, Boot PROVE Voyages'
  OBVIOUS
<1>1. \A v \in DOMAIN savedVoyages' : Good(savedVoyages'[v], tabGroups, spaces)
  BY TreeCovers, RepairGivesVoyages DEF Boot
<1>2. DOMAIN tabGroups' = DOMAIN tabGroups /\ spaces' = spaces
  BY DEF Boot
<1> QED BY <1>1, <1>2, GoodGrows DEF Voyages

\* Every step keeps the voyages.
LEMMA VoyagesNext == Tree /\ Tree' /\ Voyages /\ [Next]_vars => Voyages'
<1>1. Voyages /\ UNCHANGED vars => Voyages'
  BY DEF Voyages, vars
<1> QED
  BY <1>1, BootVoyages, ChangeSpacesVoyages, ChangeCraftVoyages, ChangeVoyagesVoyages DEF Next

\* The default workspace is whole.
LEMMA InitWhole == Init => Tree /\ Voyages
<1> SUFFICES ASSUME Init PROVE Tree /\ Voyages
  OBVIOUS
<1>1. /\ DOMAIN spaces = {0} /\ spaces[0] = {0} /\ DOMAIN tabGroups = {0}
      /\ tabGroups[0] = OverviewCraft(0) /\ nextId = 1 /\ DOMAIN savedVoyages = {}
  BY DEF Init, Home
<1>2. WholeCraft(OverviewCraft(0), 1)
  <2>1. WholeCraft(OverviewCraft(0), 0 + 1)
    BY NewCraftsWhole
  <2> QED BY <2>1
<1> QED BY <1>1, <1>2 DEF Tree, SpacesWhole, CraftsWhole, Voyages, Home

\* The invariant of the module: the tree is whole and every voyage is good, in
\* every state the actions and starts lead to.
THEOREM Whole == Spec => [](Tree /\ Voyages)
<1>1. Tree /\ Voyages /\ [Next]_vars => (Tree /\ Voyages)'
  BY TreeNext, VoyagesNext
<1>2. QED
  BY <1>1, InitWhole, PTL DEF Spec

\* Every saved voyage can be resumed at any time, on craft that exist.
THEOREM VoyagesResumable == Spec => []VoyageInv
<1>1. Voyages => VoyageInv
  BY DEF Voyages, Good, VoyageInv
<1>2. QED
  BY <1>1, Whole, PTL

\* No voyage ever has two entries of one craft.
THEOREM NoCraftTwiceInVoyage == Spec => []OneEntryPerCraft
<1>1. Voyages => OneEntryPerCraft
  BY DEF Voyages, Good, OneEntryPerCraft
<1>2. QED
  BY <1>1, Whole, PTL

-----------------------------------------------------------------------------
(* One craft for a VK workspace.                                           *)

\* No craft becomes the one of a VK workspace.
NoNewVKCraft ==
    \A c \in DOMAIN tabGroups' :
      \/ c \in DOMAIN tabGroups /\ tabGroups'[c].ws = tabGroups[c].ws
      \/ tabGroups'[c].ws = NoWs

\* It takes a new craft of a VK workspace to break the property.
LEMMA OneVKCraftKept == OneCraftPerVKWorkspace /\ NoNewVKCraft => OneCraftPerVKWorkspace'
  BY DEF OneCraftPerVKWorkspace, NoNewVKCraft

\* Craft are made without a VK workspace, and changes keep the one they have.
LEMMA WsOfCraft ==
  /\ MainCraft.ws = NoWs
  /\ \A t : OverviewCraft(t).ws = NoWs /\ CreateCraft(t).ws = NoWs
  /\ \A craft, t : WithoutTab(craft, t).ws = craft.ws
  /\ \A craft, t, u : WithTab(craft, t, u).ws = craft.ws
  /\ \A craft, pairs : WithPairs(craft, pairs).ws = craft.ws
  /\ \A craft : WithoutGeneratedTabs(craft).ws = craft.ws
  BY DEF MainCraft, OverviewCraft, CreateCraft, WithoutTab, WithTab, WithPairs,
         WithoutGeneratedTabs, Craft

\* A craft is only appended for a VK workspace that has none.
LEMMA FindOrAddKeepsOne ==
  ASSUME NEW s, NEW w, FindOrAddVKCraft(s, w), OneCraftPerVKWorkspace
  PROVE  OneCraftPerVKWorkspace'
<1>1. CASE UNCHANGED tabGroups
  BY <1>1 DEF OneCraftPerVKWorkspace
<1>2. CASE CraftOfVK(w) = {} /\ tabGroups' = Put(tabGroups, nextId, VKCraft(w))
  <2>1. VKCraft(w).ws = w
    BY DEF VKCraft, Craft
  <2>2. \A c \in DOMAIN tabGroups : tabGroups[c].ws # w
    BY <1>2 DEF CraftOfVK
  <2> HIDE DEF VKCraft
  <2>3. \A c \in DOMAIN tabGroups' :
          IF c = nextId THEN tabGroups'[c].ws = w
                        ELSE c \in DOMAIN tabGroups /\ tabGroups'[c].ws = tabGroups[c].ws
    BY <1>2, <2>1 DEF Put
  <2> QED BY <2>2, <2>3 DEF OneCraftPerVKWorkspace
<1> QED BY <1>1, <1>2 DEF FindOrAddVKCraft, Append

\* Every step keeps one craft for a VK workspace.
LEMMA OneVKCraftNext == OneCraftPerVKWorkspace /\ [Next]_vars => OneCraftPerVKWorkspace'
<1> SUFFICES ASSUME OneCraftPerVKWorkspace, [Next]_vars PROVE OneCraftPerVKWorkspace'
  OBVIOUS
<1>1. CASE \E s \in DOMAIN spaces, w \in VKIds : FindOrAddVKCraft(s, w)
  BY <1>1, FindOrAddKeepsOne
<1>2. CASE UNCHANGED tabGroups
  BY <1>2 DEF OneCraftPerVKWorkspace
<1>3. ASSUME NEW c \in DOMAIN tabGroups, NEW craft, craft.ws = tabGroups[c].ws,
             tabGroups' = [tabGroups EXCEPT ![c] = craft]
      PROVE  OneCraftPerVKWorkspace'
  BY <1>3, OneVKCraftKept DEF NoNewVKCraft
<1>4. ASSUME NEW D, NEW c, NEW craft, craft.ws = NoWs,
             \/ tabGroups' = Without(tabGroups, D)
             \/ tabGroups' = Put(Without(tabGroups, D), c, craft)
             \/ tabGroups' = Put(tabGroups, c, craft)
      PROVE  OneCraftPerVKWorkspace'
  BY <1>4, OneVKCraftKept DEF NoNewVKCraft, Without, Put
<1>5. CASE Boot
  BY <1>5, OneVKCraftKept, WsOfCraft DEF Boot, NoNewVKCraft
<1>6. ASSUME NEW s, NEW c, NEW craft, craft.ws = NoWs, Append(s, c, craft)
      PROVE  OneCraftPerVKWorkspace'
  BY <1>4, <1>6 DEF Append
<1>7. CASE AppendCreateCraft
  BY <1>6, <1>7, WsOfCraft DEF AppendCreateCraft
<1>8. CASE ChangeSpaces
  <2>1. ASSUME NEW s, DeleteSpace(s) PROVE OneCraftPerVKWorkspace'
    BY <1>4, <2>1, WsOfCraft DEF DeleteSpace
  <2>2. ASSUME NEW s, NEW c, DeleteTabGroup(s, c) PROVE OneCraftPerVKWorkspace'
    BY <1>4, <2>2, WsOfCraft DEF DeleteTabGroup
  <2>3. ASSUME NEW s, AddTabGroup(s) PROVE OneCraftPerVKWorkspace'
    BY <1>6, <2>3, WsOfCraft DEF AddTabGroup
  <2>4. CASE AddSpace
    BY <1>4, <2>4, WsOfCraft DEF AddSpace
  <2>5. CASE EnsureCreateWorkspaceTab
    <3>1. PICK c : tabGroups' = [tabGroups EXCEPT ![c] = WithTab(tabGroups[c], nextId, "create")]
      BY <2>5 DEF EnsureCreateWorkspaceTab, AddTab
    <3> DEFINE craft == WithTab(tabGroups[c], nextId, "create")
    <3>2. CASE c \in DOMAIN tabGroups
      <4>1. craft.ws = tabGroups[c].ws /\ tabGroups' = [tabGroups EXCEPT ![c] = craft]
        BY <3>1, WsOfCraft
      <4> HIDE DEF craft
      <4> QED BY <1>3, <3>2, <4>1
    <3>3. CASE c \notin DOMAIN tabGroups
      BY <3>1, <3>3, OneVKCraftKept DEF NoNewVKCraft
    <3> QED BY <3>2, <3>3
  <2> QED
    BY <1>1, <1>7, <1>8, <2>1, <2>2, <2>3, <2>4, <2>5
    DEF ChangeSpaces, CreateCreateWorkspaceCraft, AddVKWorkspace
<1>9. CASE ChangeCraft
  <2>1. PICK c \in DOMAIN tabGroups :
          \/ \E t : tabGroups' = [tabGroups EXCEPT ![c] = WithoutTab(tabGroups[c], t)]
          \/ tabGroups' = [tabGroups EXCEPT ![c] = tabGroups[c]]
          \/ \E t, u : tabGroups' = [tabGroups EXCEPT ![c] = WithTab(tabGroups[c], t, u)]
          \/ \E pairs : tabGroups' = [tabGroups EXCEPT ![c] = WithPairs(tabGroups[c], pairs)]
    BY <1>9
    DEF ChangeCraft, CloseActiveTab, CloseTab, AddTab, UpdateTabUrl, CreatePair, DeletePair
  <2>2. PICK craft : craft.ws = tabGroups[c].ws /\ tabGroups' = [tabGroups EXCEPT ![c] = craft]
    BY <2>1, WsOfCraft
  <2> QED BY <1>3, <2>2
<1>10. CASE ChangeVoyages
  BY <1>1, <1>2, <1>7, <1>10
  DEF ChangeVoyages, CreateCreateWorkspaceSavedSession, CreateSavedSessionForVKWorkspace,
      CreateSavedSessionForSelection, CreateSavedSessionFromVoyageEntry,
      OpenVKWorkspaceInSavedSession, AddSelectionToSavedSession, DeleteSavedSession,
      ActivateSavedVoyageEntry, RemoveVoyageEntryFromSavedSession,
      MoveVoyageEntryBetweenSavedSessions
<1> QED BY <1>2, <1>5, <1>8, <1>9, <1>10 DEF Next, vars

\* However a VK workspace is asked for, it never has two craft.
THEOREM OneCraftForVK == Spec => []OneCraftPerVKWorkspace
<1>1. Init => OneCraftPerVKWorkspace
  BY DEF Init, OneCraftPerVKWorkspace
<1>2. QED
  BY <1>1, OneVKCraftNext, PTL DEF Spec

\* The workspace stays a tree, whatever is added, closed and deleted, and also
\* over a start of the dashboard.
THEOREM TreeIsWhole == Spec => []TreeInv
<1>1. QED
  BY Whole, OneCraftForVK, TreeGivesTreeInv, PTL

-----------------------------------------------------------------------------
(* Voyages disappear only for a reason.                                    *)

\* A repair drops the voyages none of whose craft exist.
LEMMA RepairKeeps ==
  ASSUME NEW cr, NEW sp, RepairSavedVoyages(cr, sp),
         NEW v \in DOMAIN savedVoyages \ DOMAIN savedVoyages'
  PROVE  CraftsOf(savedVoyages[v].entries) \cap DOMAIN cr = {}
<1>1. DOMAIN savedVoyages' = SurvivingVoyages(cr)
  BY DEF RepairSavedVoyages
<1>2. KeptEntries(savedVoyages[v], cr) = {}
  BY <1>1 DEF SurvivingVoyages
<1> QED BY <1>2 DEF KeptEntries, CraftsOf

\* A voyage is only ever lost with the last of its craft, or deleted.
THEOREM VoyagesAreKept == Spec => VoyagesKept
<1> DEFINE Gone(v) == CraftsOf(savedVoyages[v].entries) \cap DOMAIN tabGroups' = {}
           Deleted(v) == /\ UNCHANGED <<spaces, tabGroups>>
                         /\ savedVoyages' = Without(savedVoyages, {v})
<1>1. [Next]_vars => [\A v \in DOMAIN savedVoyages \ DOMAIN savedVoyages' : Gone(v) \/ Deleted(v)]_vars
  <2> SUFFICES ASSUME Next, NEW v \in DOMAIN savedVoyages \ DOMAIN savedVoyages'
               PROVE  Gone(v) \/ Deleted(v)
    OBVIOUS
  <2>1. ASSUME NEW cr, NEW sp, RepairSavedVoyages(cr, sp), DOMAIN cr = DOMAIN tabGroups'
        PROVE  Gone(v)
    BY <2>1, RepairKeeps
  <2>2. CASE Boot
    <3>1. RepairSavedVoyages(tabGroups, spaces) /\ DOMAIN tabGroups = DOMAIN tabGroups'
      BY <2>2 DEF Boot
    <3> QED BY <2>1, <3>1
  <2>3. CASE ChangeSpaces
    <3>1. \/ UNCHANGED savedVoyages
          \/ RepairSavedVoyages(tabGroups', spaces')
      BY <2>3
      DEF ChangeSpaces, AddSpace, DeleteSpace, AddTabGroup, DeleteTabGroup, AddTab,
          EnsureCreateWorkspaceTab, CreateCreateWorkspaceCraft, AddVKWorkspace
    <3> QED BY <2>1, <3>1
  <2>4. CASE ChangeCraft
    <3>1. \/ UNCHANGED savedVoyages
          \/ RepairSavedVoyages(tabGroups', spaces)
      BY <2>4
      DEF ChangeCraft, CloseActiveTab, CloseTab, AddTab, UpdateTabUrl, CreatePair, DeletePair
    <3> QED BY <2>1, <3>1
  <2>5. CASE ChangeVoyages
    <3>1. CASE \E u \in DOMAIN savedVoyages : DeleteSavedSession(u)
      <4>1. PICK u \in DOMAIN savedVoyages : DeleteSavedSession(u)
        BY <3>1
      <4>2. u = v
        BY <4>1 DEF DeleteSavedSession, Without
      <4> QED BY <4>1, <4>2 DEF DeleteSavedSession
    <3>2. ASSUME NEW u, NEW s, NEW c, NEW t, NEW cr, SaveSelection(u, s, c, t, cr) PROVE FALSE
      BY <3>2 DEF SaveSelection, Put
    <3>3. ASSUME NEW u, NEW s, NEW c, NEW views, SetActiveEntry(u, s, c, views) PROVE FALSE
      BY <3>3 DEF SetActiveEntry
    <3>4. ASSUME NEW u, NEW e, NEW views, CreateSavedSessionFromVoyageEntry(u, e, views)
          PROVE  FALSE
      BY <3>4 DEF CreateSavedSessionFromVoyageEntry, Put
    <3>5. ASSUME NEW u, NEW e,
                 \/ ActivateSavedVoyageEntry(u, e)
                 \/ RemoveVoyageEntryFromSavedSession(u, e)
                 \/ \E target : MoveVoyageEntryBetweenSavedSessions(u, target, e)
          PROVE  FALSE
      BY <3>5 DEF ActivateSavedVoyageEntry, RemoveVoyageEntryFromSavedSession,
                  MoveVoyageEntryBetweenSavedSessions
    <3> QED
      BY <2>5, <3>1, <3>2, <3>3, <3>4, <3>5
      DEF ChangeVoyages, CreateCreateWorkspaceSavedSession, CreateSavedSessionForVKWorkspace,
          CreateSavedSessionForSelection, OpenVKWorkspaceInSavedSession,
          AddSelectionToSavedSession
  <2> QED BY <2>2, <2>3, <2>4, <2>5 DEF Next
<1> HIDE DEF Gone, Deleted
<1>2. [Next]_vars =>
        [\A v \in DOMAIN savedVoyages \ DOMAIN savedVoyages' :
            \/ CraftsOf(savedVoyages[v].entries) \cap DOMAIN tabGroups' = {}
            \/ /\ UNCHANGED <<spaces, tabGroups>>
               /\ savedVoyages' = Without(savedVoyages, {v})]_vars
  BY <1>1 DEF Gone, Deleted
<1>3. QED
  BY <1>2, PTL DEF Spec, VoyagesKept

-----------------------------------------------------------------------------
(* The craft, and the views of entries, keep their types.                  *)

Views == Nat \cup {Agent}

\* No more than the two tabs of a pair.
UpToTwo(views) == \A x, y, z \in views : x = y \/ y = z \/ x = z

FitCraft(craft) ==
    /\ \A t \in DOMAIN craft.url : craft.url[t] \in Urls
    /\ craft.ws \in VKIds \cup {NoWs}
    /\ \A p \in craft.pairs : UpToTwo(p.of)

FitCrafts(cr) == \A c \in DOMAIN cr : FitCraft(cr[c])

\* A VK craft always has a view to show, for it is never repaired away.
FitViews(views, ws) == views \subseteq Views /\ UpToTwo(views) /\ (ws # NoWs => views # {})

\* What a craft needs for its views to be selected.
Usable(craft) ==
    /\ \A t \in DOMAIN craft.url : t \in Nat
    /\ \A p \in craft.pairs : p.of \subseteq DOMAIN craft.url /\ p.of # {} /\ UpToTwo(p.of)

\* A craft keeps its VK workspace.
WsStay == \A c \in DOMAIN tabGroups \cap DOMAIN tabGroups' : tabGroups'[c].ws = tabGroups[c].ws

LEMMA CraftsUsable == Tree /\ FitCrafts(tabGroups) => \A c \in DOMAIN tabGroups : Usable(tabGroups[c])
  BY DEF Tree, CraftsWhole, WholeCraft, FitCrafts, FitCraft, Usable

\* What the module makes of craft, and makes them into.
LEMMA MadeFit ==
  /\ FitCraft(MainCraft)
  /\ \A w \in VKIds : FitCraft(VKCraft(w))
  /\ \A t : FitCraft(OverviewCraft(t)) /\ FitCraft(CreateCraft(t))
<1>1. FitCraft(MainCraft) /\ \A w \in VKIds : FitCraft(VKCraft(w))
  BY DEF FitCraft, MainCraft, VKCraft, Craft, NoTabs
<1>2. ASSUME NEW t PROVE FitCraft(OverviewCraft(t)) /\ FitCraft(CreateCraft(t))
  <2>1. \A x \in {t} : [y \in {t} |-> "internal"][x] \in Urls /\ [y \in {t} |-> "create"][x] \in Urls
    BY DEF Urls
  <2> QED BY <2>1 DEF FitCraft, OverviewCraft, CreateCraft, Craft
<1> QED BY <1>1, <1>2

LEMMA ChangedFit ==
  ASSUME NEW craft, FitCraft(craft)
  PROVE  /\ \A t : FitCraft(WithoutTab(craft, t))
         /\ \A t, u : u \in Urls => FitCraft(WithTab(craft, t, u))
         /\ \A pairs : (\A p \in pairs : UpToTwo(p.of)) => FitCraft(WithPairs(craft, pairs))
         /\ FitCraft(WithoutGeneratedTabs(craft))
<1>1. ASSUME NEW t PROVE FitCraft(WithoutTab(craft, t))
  <2>1. \A x \in DOMAIN Without(craft.url, {t}) :
          x \in DOMAIN craft.url /\ Without(craft.url, {t})[x] = craft.url[x]
    BY DEF Without
  <2> QED BY <2>1 DEF FitCraft, WithoutTab, Craft
<1>2. ASSUME NEW t, NEW u \in Urls PROVE FitCraft(WithTab(craft, t, u))
  <2>1. \A x \in DOMAIN Put(craft.url, t, u) : Put(craft.url, t, u)[x] \in Urls
    BY DEF Put, FitCraft
  <2> QED BY <2>1 DEF FitCraft, WithTab, Craft
<1>3. ASSUME NEW pairs, \A p \in pairs : UpToTwo(p.of) PROVE FitCraft(WithPairs(craft, pairs))
  BY <1>3 DEF FitCraft, WithPairs, Craft
<1>4. FitCraft(WithoutGeneratedTabs(craft))
  BY DEF FitCraft, WithoutGeneratedTabs, Craft
<1> QED BY <1>1, <1>2, <1>3, <1>4

\* The craft, when one changes or comes and others go.
LEMMA CraftStep ==
  ASSUME Tree, FitCrafts(tabGroups), NEW c, NEW craft, FitCraft(craft),
         \/ /\ tabGroups' = [tabGroups EXCEPT ![c] = craft]
            /\ c \in DOMAIN tabGroups => craft.ws = tabGroups[c].ws
         \/ \E D : \/ tabGroups' = Without(tabGroups, D)
                   \/ c = nextId /\ tabGroups' = Put(Without(tabGroups, D), c, craft)
         \/ c \in {nextId, nextId + 1} /\ tabGroups' = Put(tabGroups, c, craft)
  PROVE  FitCrafts(tabGroups') /\ WsStay
<1>1. nextId \notin DOMAIN tabGroups /\ nextId + 1 \notin DOMAIN tabGroups
  BY DEF Tree, SpacesWhole
<1>2. CASE /\ tabGroups' = [tabGroups EXCEPT ![c] = craft]
           /\ c \in DOMAIN tabGroups => craft.ws = tabGroups[c].ws
  BY <1>2 DEF FitCrafts, WsStay
<1>3. ASSUME NEW D, tabGroups' = Without(tabGroups, D) PROVE FitCrafts(tabGroups') /\ WsStay
  BY <1>3 DEF FitCrafts, WsStay, Without
<1>4. ASSUME NEW D, c = nextId, tabGroups' = Put(Without(tabGroups, D), c, craft)
      PROVE  FitCrafts(tabGroups') /\ WsStay
  BY <1>1, <1>4 DEF FitCrafts, WsStay, Without, Put
<1>5. CASE c \in {nextId, nextId + 1} /\ tabGroups' = Put(tabGroups, c, craft)
  BY <1>1, <1>5 DEF FitCrafts, WsStay, Put
<1> QED BY <1>2, <1>3, <1>4, <1>5

\* A VK craft is found or made.
LEMMA FoundFit ==
  ASSUME Tree, FitCrafts(tabGroups), NEW s, NEW w \in VKIds, FindOrAddVKCraft(s, w)
  PROVE  FitCrafts(tabGroups') /\ WsStay
<1>1. CASE UNCHANGED tabGroups
  BY <1>1 DEF WsStay
<1>2. CASE tabGroups' = Put(tabGroups, nextId, VKCraft(w))
  BY <1>2, MadeFit, CraftStep
<1> QED BY <1>1, <1>2 DEF FindOrAddVKCraft, Append

\* Every step keeps the craft fit, and each the one of its VK workspace.
LEMMA CraftsFit ==
  ASSUME Tree, FitCrafts(tabGroups), Next
  PROVE  FitCrafts(tabGroups') /\ WsStay
<1> USE DEF Urls
<1>1. CASE UNCHANGED tabGroups
  BY <1>1 DEF WsStay
<1>2. CASE \E s \in DOMAIN spaces, w \in VKIds : FindOrAddVKCraft(s, w)
  BY <1>2, FoundFit
<1>3. CASE Boot
  <2>1. \A c \in DOMAIN tabGroups' :
          c \in DOMAIN tabGroups /\ tabGroups'[c] = WithoutGeneratedTabs(tabGroups[c])
    BY <1>3 DEF Boot
  <2> QED BY <2>1, ChangedFit, WsOfCraft DEF FitCrafts, WsStay
<1>4. CASE AppendCreateCraft
  BY <1>4, MadeFit, CraftStep DEF AppendCreateCraft, Append
<1>5. CASE ChangeSpaces
  <2>1. ASSUME NEW s, DeleteSpace(s) PROVE FitCrafts(tabGroups') /\ WsStay
    BY <2>1, MadeFit, CraftStep DEF DeleteSpace
  <2>2. ASSUME NEW s, NEW c, DeleteTabGroup(s, c) PROVE FitCrafts(tabGroups') /\ WsStay
    BY <2>2, MadeFit, CraftStep DEF DeleteTabGroup
  <2>3. ASSUME NEW s, AddTabGroup(s) PROVE FitCrafts(tabGroups') /\ WsStay
    BY <2>3, MadeFit, CraftStep DEF AddTabGroup, Append
  <2>4. CASE AddSpace
    BY <2>4, MadeFit, CraftStep DEF AddSpace
  <2>5. CASE EnsureCreateWorkspaceTab
    <3>1. PICK c \in DOMAIN tabGroups :
            tabGroups' = [tabGroups EXCEPT ![c] = WithTab(tabGroups[c], nextId, "create")]
      BY <2>5 DEF EnsureCreateWorkspaceTab, AddTab, Tree, SpacesWhole
    <3>2. FitCraft(tabGroups[c])
      BY DEF FitCrafts
    <3>3. FitCraft(WithTab(tabGroups[c], nextId, "create"))
      BY <3>2, ChangedFit
    <3> DEFINE craft == WithTab(tabGroups[c], nextId, "create")
    <3>4. FitCraft(craft) /\ craft.ws = tabGroups[c].ws /\ tabGroups' = [tabGroups EXCEPT ![c] = craft]
      BY <3>1, <3>3, WsOfCraft
    <3> HIDE DEF craft
    <3> QED BY <3>4, CraftStep
  <2> QED
    BY <1>2, <1>4, <1>5, <2>1, <2>2, <2>3, <2>4, <2>5
    DEF ChangeSpaces, CreateCreateWorkspaceCraft, AddVKWorkspace
<1>6. CASE ChangeCraft
  <2>1. PICK c \in DOMAIN tabGroups :
          \/ \E t : tabGroups' = [tabGroups EXCEPT ![c] = WithoutTab(tabGroups[c], t)]
          \/ tabGroups' = [tabGroups EXCEPT ![c] = tabGroups[c]]
          \/ \E t, u : /\ u \in UserUrls
                       /\ tabGroups' = [tabGroups EXCEPT ![c] = WithTab(tabGroups[c], t, u)]
          \/ \E pairs : /\ \A p \in pairs : p \in tabGroups[c].pairs \/ UpToTwo(p.of)
                        /\ tabGroups' = [tabGroups EXCEPT ![c] = WithPairs(tabGroups[c], pairs)]
    <3>1. PICK c \in DOMAIN tabGroups :
            \/ \E t : CloseActiveTab(c, t) \/ CloseTab(c, t)
            \/ \E u \in UserUrls : AddTab(c, u)
            \/ \E t, u : u \in UserUrls /\ UpdateTabUrl(c, t, u)
            \/ \E t1, t2 : CreatePair(c, t1, t2)
            \/ \E p : DeletePair(c, p)
      BY <1>6 DEF ChangeCraft
    <3>2. ASSUME NEW t1, NEW t2, CreatePair(c, t1, t2)
          PROVE  \E pairs : /\ \A p \in pairs : p \in tabGroups[c].pairs \/ UpToTwo(p.of)
                            /\ tabGroups' = [tabGroups EXCEPT ![c] = WithPairs(tabGroups[c], pairs)]
      <4> DEFINE pair  == [id |-> nextId, of |-> {t1, t2}]
                 pairs == tabGroups[c].pairs \cup {pair}
      <4>1. UpToTwo(pair.of)
        BY DEF UpToTwo
      <4>2. tabGroups' = [tabGroups EXCEPT ![c] = WithPairs(tabGroups[c], pairs)]
        BY <3>2 DEF CreatePair
      <4> HIDE DEF pair
      <4>3. \A p \in pairs : p \in tabGroups[c].pairs \/ UpToTwo(p.of)
        BY <4>1
      <4> HIDE DEF pairs
      <4> QED BY <4>2, <4>3
    <3>3. ASSUME NEW p, DeletePair(c, p)
          PROVE  \E pairs : /\ \A q \in pairs : q \in tabGroups[c].pairs \/ UpToTwo(q.of)
                            /\ tabGroups' = [tabGroups EXCEPT ![c] = WithPairs(tabGroups[c], pairs)]
      BY <3>3 DEF DeletePair
    <3>4. ASSUME NEW t, CloseActiveTab(c, t) \/ CloseTab(c, t)
          PROVE  \/ \E x : tabGroups' = [tabGroups EXCEPT ![c] = WithoutTab(tabGroups[c], x)]
                 \/ tabGroups' = [tabGroups EXCEPT ![c] = tabGroups[c]]
      BY <3>4 DEF CloseActiveTab, CloseTab
    <3>5. ASSUME NEW t, NEW u \in UserUrls, AddTab(c, u) \/ UpdateTabUrl(c, t, u)
          PROVE  \E x : tabGroups' = [tabGroups EXCEPT ![c] = WithTab(tabGroups[c], x, u)]
      BY <3>5 DEF AddTab, UpdateTabUrl
    <3> QED BY <3>1, <3>2, <3>3, <3>4, <3>5
  <2>2. FitCraft(tabGroups[c])
    BY DEF FitCrafts
  <2>3. PICK craft : /\ FitCraft(craft) /\ craft.ws = tabGroups[c].ws
                     /\ tabGroups' = [tabGroups EXCEPT ![c] = craft]
    <3>1. CASE \E t, u : /\ u \in UserUrls
                         /\ tabGroups' = [tabGroups EXCEPT ![c] = WithTab(tabGroups[c], t, u)]
      <4>1. PICK t, u : /\ u \in UserUrls
                        /\ tabGroups' = [tabGroups EXCEPT ![c] = WithTab(tabGroups[c], t, u)]
        BY <3>1
      <4>2. u \in Urls
        BY <4>1, WorkspaceAssumption
      <4> DEFINE craft == WithTab(tabGroups[c], t, u)
      <4>3. FitCraft(craft) /\ craft.ws = tabGroups[c].ws /\ tabGroups' = [tabGroups EXCEPT ![c] = craft]
        BY <2>2, <4>1, <4>2, ChangedFit, WsOfCraft
      <4> HIDE DEF craft
      <4> QED BY <4>3
    <3>2. ASSUME NEW pairs, \A p \in pairs : p \in tabGroups[c].pairs \/ UpToTwo(p.of),
                 tabGroups' = [tabGroups EXCEPT ![c] = WithPairs(tabGroups[c], pairs)]
          PROVE  \E craft : /\ FitCraft(craft) /\ craft.ws = tabGroups[c].ws
                            /\ tabGroups' = [tabGroups EXCEPT ![c] = craft]
      <4>1. \A p \in pairs : UpToTwo(p.of)
        BY <2>2, <3>2 DEF FitCraft
      <4> QED BY <2>2, <3>2, <4>1, ChangedFit, WsOfCraft
    <3>3. CASE \E t : tabGroups' = [tabGroups EXCEPT ![c] = WithoutTab(tabGroups[c], t)]
      BY <2>2, <3>3, ChangedFit, WsOfCraft
    <3>4. CASE tabGroups' = [tabGroups EXCEPT ![c] = tabGroups[c]]
      BY <2>2, <3>4
    <3> QED BY <2>1, <3>1, <3>2, <3>3, <3>4
  <2> QED BY <2>3, CraftStep
<1>7. CASE ChangeVoyages
  BY <1>1, <1>2, <1>4, <1>7
  DEF ChangeVoyages, CreateCreateWorkspaceSavedSession, CreateSavedSessionForVKWorkspace,
      CreateSavedSessionForSelection, CreateSavedSessionFromVoyageEntry,
      OpenVKWorkspaceInSavedSession, AddSelectionToSavedSession, DeleteSavedSession,
      ActivateSavedVoyageEntry, RemoveVoyageEntryFromSavedSession,
      MoveVoyageEntryBetweenSavedSessions
<1> QED BY <1>3, <1>5, <1>6, <1>7 DEF Next

\* No step hands out an id that is not there.
LEMMA IdsBounded ==
  ASSUME Tree, nextId <= MaxId + 1, Next
  PROVE  nextId' <= MaxId + 1
<1>0. nextId \in Nat /\ MaxId \in Nat
  BY WorkspaceAssumption DEF Tree, SpacesWhole
<1>1. ASSUME NEW n \in {1, 2}, Room(n), nextId' = nextId + n PROVE nextId' <= MaxId + 1
  BY <1>1 DEF Room
<1>2. ASSUME NEW s, NEW w, FindOrAddVKCraft(s, w) PROVE nextId' <= MaxId + 1
  BY <1>0, <1>1, <1>2 DEF FindOrAddVKCraft
<1>3. CASE AppendCreateCraft
  BY <1>1, <1>3 DEF AppendCreateCraft
<1>4. CASE ChangeSpaces
  <2>1. ASSUME NEW s, DeleteSpace(s) \/ AddTabGroup(s) PROVE nextId' <= MaxId + 1
    BY <1>1, <2>1 DEF DeleteSpace, AddTabGroup
  <2>2. ASSUME NEW s, NEW c, DeleteTabGroup(s, c) PROVE nextId' <= MaxId + 1
    BY <1>1, <2>2 DEF DeleteTabGroup
  <2>3. CASE AddSpace \/ EnsureCreateWorkspaceTab
    BY <1>1, <2>3 DEF AddSpace, EnsureCreateWorkspaceTab, AddTab
  <2> QED
    BY <1>2, <1>3, <1>4, <2>1, <2>2, <2>3 DEF ChangeSpaces, CreateCreateWorkspaceCraft, AddVKWorkspace
<1>5. CASE ChangeCraft
  BY <1>1, <1>5
  DEF ChangeCraft, CloseActiveTab, CloseTab, AddTab, UpdateTabUrl, CreatePair, DeletePair
<1>6. CASE ChangeVoyages
  BY <1>2, <1>3, <1>6
  DEF ChangeVoyages, CreateCreateWorkspaceSavedSession, CreateSavedSessionForVKWorkspace,
      CreateSavedSessionForSelection, CreateSavedSessionFromVoyageEntry,
      OpenVKWorkspaceInSavedSession, AddSelectionToSavedSession, DeleteSavedSession,
      ActivateSavedVoyageEntry, RemoveVoyageEntryFromSavedSession,
      MoveVoyageEntryBetweenSavedSessions
<1>7. CASE Boot
  BY <1>7 DEF Boot
<1> QED BY <1>4, <1>5, <1>6, <1>7 DEF Next

-----------------------------------------------------------------------------
(* What is selected of a craft.                                            *)

\* getDefaultViewIdsForTabGroup
LEMMA DefaultFit ==
  ASSUME NEW cr, NEW c, Usable(cr[c])
  PROVE  FitViews(DefaultViews(cr, c), cr[c].ws)
<1>1. \A x : UpToTwo({x})
  BY DEF UpToTwo
<1>2. CASE TabsOf(cr, c) # {}
  <2>1. Least(TabsOf(cr, c)) \in Nat
    BY <1>2, LeastIsLeast DEF Usable, TabsOf
  <2> QED BY <1>1, <1>2, <2>1 DEF DefaultViews, FitViews, Views
<1>3. CASE TabsOf(cr, c) = {} /\ cr[c].ws # NoWs
  BY <1>1, <1>3 DEF DefaultViews, FitViews, Views
<1>4. CASE TabsOf(cr, c) = {} /\ cr[c].ws = NoWs
  <2>1. cr[c].pairs = {}
    BY <1>4 DEF Usable, TabsOf
  <2>2. DefaultViews(cr, c) = {}
    BY <1>4, <2>1 DEF DefaultViews
  <2> QED BY <1>4, <2>2 DEF FitViews, UpToTwo
<1> QED BY <1>2, <1>3, <1>4

\* getSelectedViewIdsForTabGroup
LEMMA SelectedFit ==
  ASSUME NEW cr, NEW c, Usable(cr[c]), NEW t \in Nat \cup {Agent, NoTab}
  PROVE  FitViews(SelectedViews(cr, c, t), cr[c].ws)
<1>1. CASE t # NoTab /\ (t \in TabsOf(cr, c) \/ cr[c].ws # NoWs)
  BY <1>1 DEF SelectedViews, FitViews, UpToTwo, Views
<1>2. CASE ~(t # NoTab /\ (t \in TabsOf(cr, c) \/ cr[c].ws # NoWs))
  BY <1>2, DefaultFit DEF SelectedViews
<1> QED BY <1>1, <1>2

\* normalizeVoyageEntryForWorkspace
LEMMA NormalizedFit ==
  ASSUME NEW cr, NEW c, Usable(cr[c]), NEW views, views \subseteq Views, UpToTwo(views)
  PROVE  FitViews(NormalizedViews(cr, c, views), cr[c].ws)
<1> DEFINE valid == IF cr[c].ws # NoWs THEN views ELSE views \cap TabsOf(cr, c)
<1>1. CASE valid # {}
  BY <1>1 DEF NormalizedViews, FitViews, UpToTwo
<1>2. CASE valid = {}
  BY <1>2, DefaultFit DEF NormalizedViews
<1> QED BY <1>1, <1>2

\* Whatever a client selects in a craft.
LEMMA ClientViews ==
  ASSUME Tree, FitCrafts(tabGroups), NEW c \in DOMAIN tabGroups
  PROVE  /\ \A views \in Selections(c) : views \subseteq Views /\ UpToTwo(views)
         /\ \A views \in ViewsToSelect(c) : FitViews(views, tabGroups[c].ws)
<1>1. Usable(tabGroups[c])
  BY CraftsUsable
<1>2. TabsOf(tabGroups, c) \subseteq Nat
  BY <1>1 DEF Usable, TabsOf
<1>3. \A views \in Selections(c) : views \subseteq Views /\ UpToTwo(views)
  <2>1. \A p \in tabGroups[c].pairs : p.of \subseteq Views /\ UpToTwo(p.of)
    BY <1>1, <1>2 DEF Usable, Views, TabsOf
  <2>2. \A t \in TabsOf(tabGroups, c) \cup {Agent} : {t} \subseteq Views /\ UpToTwo({t})
    BY <1>2 DEF Views, UpToTwo
  <2>3. {} \subseteq Views /\ UpToTwo({})
    BY DEF UpToTwo
  <2> QED BY <2>1, <2>2, <2>3 DEF Selections
<1>4. \A t \in TabsOf(tabGroups, c) \cup {Agent, NoTab} :
        FitViews(SelectedViews(tabGroups, c, t), tabGroups[c].ws)
  BY <1>1, <1>2, SelectedFit
<1>5. \A views \in Selections(c) : FitViews(NormalizedViews(tabGroups, c, views), tabGroups[c].ws)
  BY <1>1, <1>3, NormalizedFit
<1>6. ASSUME NEW views \in ViewsToSelect(c) PROVE FitViews(views, tabGroups[c].ws)
  BY <1>4, <1>5 DEF ViewsToSelect
<1> QED BY <1>3, <1>6

-----------------------------------------------------------------------------
(* What a step makes of a voyage's entries.                                *)

FitEntries(entries, cr) ==
    /\ IsFiniteSet(DOMAIN entries)
    /\ \A e \in DOMAIN entries : e \in EntryIds /\ FitViews(entries[e], cr[CraftOf(e)].ws)

Fit ==
    /\ nextId <= MaxId + 1
    /\ FitCrafts(tabGroups)
    /\ DOMAIN savedVoyages \subseteq Sessions
    /\ \A v \in DOMAIN savedVoyages : FitEntries(savedVoyages[v].entries, tabGroups)

\* Some of them are left, and repaired.
Mended(old, new, cr) ==
    \E K \in SUBSET DOMAIN old :
        new = [e \in K |-> NormalizedViews(cr, CraftOf(e), old[e])]

\* One is set, to views that may be.
SetTo(old, new, active) ==
    \E e \in EntryIds : \E views :
        /\ new = Put(old, e, views) /\ active = e
        /\ FitViews(views, tabGroups'[CraftOf(e)].ws)
        /\ e \in DOMAIN old => UNCHANGED tabGroups

Begun(new) ==
    \E e \in EntryIds : \E views :
        /\ new = [x \in {e} |-> views]
        /\ FitViews(views, tabGroups'[CraftOf(e)].ws)

VoyageStep(v) ==
    LET new == savedVoyages'[v].entries
        old == savedVoyages[v].entries
    IN  IF v \in DOMAIN savedVoyages
        THEN \/ new = old
             \/ Mended(old, new, tabGroups')
             \/ Boot /\ Mended(old, new, tabGroups)
             \/ SetTo(old, new, savedVoyages'[v].active)
        ELSE v \in Sessions /\ Begun(new)

LEMMA RepairMends ==
  ASSUME NEW cr, NEW sp, RepairSavedVoyages(cr, sp), NEW v \in DOMAIN savedVoyages'
  PROVE  /\ v \in DOMAIN savedVoyages
         /\ Mended(savedVoyages[v].entries, savedVoyages'[v].entries, cr)
<1>1. PICK active :
        savedVoyages' = [s \in SurvivingVoyages(cr) |-> Repaired(savedVoyages[s], active[s], cr, sp)]
  BY DEF RepairSavedVoyages
<1>2. v \in SurvivingVoyages(cr) /\ savedVoyages'[v] = Repaired(savedVoyages[v], active[v], cr, sp)
  BY <1>1
<1>3. savedVoyages'[v].entries =
        [e \in KeptEntries(savedVoyages[v], cr) |->
            NormalizedViews(cr, CraftOf(e), savedVoyages[v].entries[e])]
  BY <1>2 DEF Repaired, Voyage
<1>4. KeptEntries(savedVoyages[v], cr) \in SUBSET DOMAIN savedVoyages[v].entries
  BY DEF KeptEntries
<1> QED BY <1>2, <1>3, <1>4 DEF Mended, SurvivingVoyages

\* Of what an entry has left, too.
LEMMA RestMended ==
  ASSUME NEW v \in DOMAIN savedVoyages, NEW e, NEW rest \in VoyagesWithout(v, e)
  PROVE  Mended(savedVoyages[v].entries, rest.entries, tabGroups)
<1> DEFINE old  == savedVoyages[v]
           less == Voyage(Without(old.entries, {e}), old.active, old.space, old.visited)
<1>1. PICK active \in ActiveChoices(less, tabGroups) :
        rest = Repaired(less, active, tabGroups, spaces)
  BY DEF VoyagesWithout
<1>2. less.entries = Without(old.entries, {e})
  BY DEF Voyage
<1> HIDE DEF less
<1>3. rest.entries = [d \in KeptEntries(less, tabGroups) |->
                         NormalizedViews(tabGroups, CraftOf(d), less.entries[d])]
  BY <1>1 DEF Repaired, Voyage
<1>4. \A d \in KeptEntries(less, tabGroups) :
        d \in DOMAIN old.entries /\ less.entries[d] = old.entries[d]
  BY <1>2 DEF KeptEntries, Without
<1>5. rest.entries = [d \in KeptEntries(less, tabGroups) |->
                         NormalizedViews(tabGroups, CraftOf(d), old.entries[d])]
  BY <1>3, <1>4
<1>6. KeptEntries(less, tabGroups) \in SUBSET DOMAIN old.entries
  BY <1>4
<1> QED BY <1>5, <1>6 DEF Mended

\* The entry of a craft is set.
LEMMA SetStep ==
  ASSUME Voyages, Fit, NEW v \in DOMAIN savedVoyages, NEW s, NEW c \in Nat, NEW views,
         FitViews(views, tabGroups'[c].ws),
         c \in DOMAIN tabGroups => UNCHANGED tabGroups,
         SetActiveEntry(v, s, c, views)
  PROVE  \A u \in DOMAIN savedVoyages' : VoyageStep(u)
<1> DEFINE old == savedVoyages[v].entries
<1>1. PICK e \in EntriesToUse(old, c) :
        savedVoyages' = [savedVoyages EXCEPT ![v] = WithActiveEntry(savedVoyages[v], e, views, s)]
  BY DEF SetActiveEntry
<1>2. savedVoyages'[v].entries = Put(old, e, views) /\ savedVoyages'[v].active = e
  BY <1>1 DEF WithActiveEntry, Voyage
<1>3. CraftOf(e) = c
  BY DEF EntriesToUse, EntriesOfCraft, UniqueEntryId, CraftOf
<1>4. e \in EntryIds
  <2>1. CASE EntriesOfCraft(old, c) # {}
    BY <2>1 DEF EntriesToUse, EntriesOfCraft, Fit, FitEntries
  <2>2. CASE EntriesOfCraft(old, c) = {}
    <3> DEFINE free == {n \in 0..Cardinality(DOMAIN old) : <<c, n>> \notin DOMAIN old}
    <3>1. Cardinality(DOMAIN old) \in Nat
      BY FS_CardinalityType DEF Fit, FitEntries
    <3>2. <<c, 0>> \notin DOMAIN old
      BY <2>2 DEF EntriesOfCraft, CraftOf
    <3>3. free # {} /\ free \subseteq Nat
      BY <3>1, <3>2
    <3>4. Least(free) \in Nat
      BY <3>3, LeastIsLeast
    <3>5. e = <<c, Least(free)>>
      BY <2>2 DEF EntriesToUse, UniqueEntryId
    <3> HIDE DEF free
    <3> QED BY <3>4, <3>5 DEF EntryIds
  <2> QED BY <2>1, <2>2
<1>5. e \in DOMAIN old => UNCHANGED tabGroups
  <2>1. e \in DOMAIN old => CraftOf(e) \in CraftsOf(old)
    BY DEF CraftsOf
  <2> QED BY <1>3, <2>1 DEF Voyages, Good, Resumable
<1>6. SetTo(old, savedVoyages'[v].entries, savedVoyages'[v].active)
  BY <1>2, <1>3, <1>4, <1>5 DEF SetTo
<1>7. VoyageStep(v)
  BY <1>6 DEF VoyageStep
<1>8. \A u \in DOMAIN savedVoyages' : u # v => u \in DOMAIN savedVoyages /\ savedVoyages'[u] = savedVoyages[u]
  BY <1>1
<1> QED BY <1>7, <1>8 DEF VoyageStep

\* A voyage is saved.
LEMMA SaveStep ==
  ASSUME NEW v \in Sessions, Fresh(v), NEW s, NEW c \in Nat, NEW t,
         SaveSelection(v, s, c, t, tabGroups'),
         FitViews(SelectedViews(tabGroups', c, t), tabGroups'[c].ws)
  PROVE  \A u \in DOMAIN savedVoyages' : VoyageStep(u)
<1> DEFINE views == SelectedViews(tabGroups', c, t)
           new   == OneEntryVoyage(<<c, 0>>, views, s)
<1>1. savedVoyages' = Put(savedVoyages, v, new) /\ FitViews(views, tabGroups'[c].ws)
  BY DEF SaveSelection
<1> HIDE DEF views
<1>2. new.entries = [x \in {<<c, 0>>} |-> views]
  BY DEF OneEntryVoyage, Voyage
<1>3. <<c, 0>> \in EntryIds /\ CraftOf(<<c, 0>>) = c
  BY DEF EntryIds, CraftOf
<1>4. Begun(new.entries)
  BY <1>1, <1>2, <1>3 DEF Begun
<1> HIDE DEF new
<1>5. /\ DOMAIN savedVoyages' = DOMAIN savedVoyages \cup {v} /\ savedVoyages'[v] = new
      /\ \A u \in DOMAIN savedVoyages : u # v => savedVoyages'[u] = savedVoyages[u]
      /\ v \notin DOMAIN savedVoyages
  BY <1>1 DEF Put, Fresh
<1> QED BY <1>4, <1>5 DEF VoyageStep

\* What is selected in the craft of a VK workspace.
LEMMA VKSelectionFit ==
  ASSUME Tree, Tree', FitCrafts(tabGroups'), NEW s \in DOMAIN spaces, NEW w, FindOrAddVKCraft(s, w)
  PROVE  LET sel == SelectionForVK(s, w)
         IN  /\ sel.craft \in Nat
             /\ FitViews(SelectedViews(tabGroups', sel.craft, sel.tab), tabGroups'[sel.craft].ws)
             /\ sel.craft \in DOMAIN tabGroups => UNCHANGED tabGroups
<1> DEFINE sel == SelectionForVK(s, w)
<1>1. sel.craft \in DOMAIN tabGroups'
  BY VKSelected
<1>2. sel.craft \in Nat
  BY <1>1 DEF Tree, SpacesWhole
<1>3. Usable(tabGroups'[sel.craft])
  BY <1>1, CraftsUsable DEF Tree, CraftsWhole, WholeCraft, FitCrafts, FitCraft, Usable
<1>4. sel.tab \in Nat \cup {Agent}
  <2>1. CASE CraftOfVK(w) = {}
    BY <2>1 DEF SelectionForVK
  <2>2. CASE CraftOfVK(w) # {}
    <3> DEFINE c == Least(CraftOfVK(w))
    <3>1. CraftOfVK(w) \subseteq DOMAIN tabGroups /\ DOMAIN tabGroups \subseteq Nat
      BY DEF CraftOfVK, Tree, SpacesWhole
    <3>2. c \in DOMAIN tabGroups
      BY <2>2, <3>1, LeastIsLeast
    <3>3. sel.tab = IF AgentTabs(c, w) # {} THEN Least(AgentTabs(c, w)) ELSE Agent
      BY <2>2 DEF SelectionForVK
    <3> HIDE DEF c
    <3>4. AgentTabs(c, w) \subseteq Nat
      BY <3>2 DEF AgentTabs, TabsOf, Tree, CraftsWhole, WholeCraft
    <3>5. AgentTabs(c, w) # {} => Least(AgentTabs(c, w)) \in Nat
      BY <3>4, LeastIsLeast
    <3> QED BY <3>3, <3>5
  <2> QED BY <2>1, <2>2
<1>5. sel.craft \in DOMAIN tabGroups => UNCHANGED tabGroups
  <2>1. CASE CraftOfVK(w) = {}
    <3>1. sel.craft = nextId /\ nextId \notin DOMAIN tabGroups
      BY <2>1 DEF SelectionForVK, Tree, SpacesWhole
    <3> QED BY <3>1
  <2>2. CASE CraftOfVK(w) # {}
    BY <2>2 DEF FindOrAddVKCraft
  <2> QED BY <2>1, <2>2
<1> HIDE DEF sel
<1>6. FitViews(SelectedViews(tabGroups', sel.craft, sel.tab), tabGroups'[sel.craft].ws)
  BY <1>3, <1>4, SelectedFit
<1> QED BY <1>2, <1>5, <1>6 DEF sel

\* The actions on voyages.
LEMMA ChangeVoyagesStep ==
  ASSUME Tree, Tree', Voyages, Fit, FitCrafts(tabGroups'), ChangeVoyages,
         NEW u \in DOMAIN savedVoyages'
  PROVE  VoyageStep(u)
<1>0. /\ nextId \in Nat /\ DOMAIN tabGroups \subseteq Nat
      /\ \A s \in DOMAIN spaces : spaces[s] \subseteq DOMAIN tabGroups
      /\ \A c \in DOMAIN tabGroups : Usable(tabGroups[c]) /\ TabsOf(tabGroups, c) \subseteq Nat
  BY CraftsUsable DEF Tree, SpacesWhole, Fit, Usable, TabsOf
<1>1. ASSUME NEW v \in Sessions, CreateCreateWorkspaceSavedSession(v) PROVE VoyageStep(u)
  <2>1. Fresh(v) /\ SaveSelection(v, Home, nextId, nextId + 1, tabGroups')
    BY <1>1 DEF CreateCreateWorkspaceSavedSession
  <2>2. nextId \in DOMAIN tabGroups'
    BY <1>1 DEF CreateCreateWorkspaceSavedSession, AppendCreateCraft, Append, Put
  <2>3. Usable(tabGroups'[nextId])
    BY <2>2 DEF Tree, CraftsWhole, WholeCraft, FitCrafts, FitCraft, Usable
  <2>4. nextId + 1 \in Nat \cup {Agent, NoTab}
    BY <1>0
  <2> QED BY <1>0, <2>1, <2>3, <2>4, SelectedFit, SaveStep
<1>2. ASSUME NEW v \in Sessions, NEW s \in DOMAIN spaces, NEW w \in VKIds,
             CreateSavedSessionForVKWorkspace(v, s, w)
      PROVE  VoyageStep(u)
  <2> DEFINE sel == SelectionForVK(s, w)
  <2>1. /\ Fresh(v) /\ FindOrAddVKCraft(s, w)
        /\ SaveSelection(v, sel.space, sel.craft, sel.tab, tabGroups')
    BY <1>2 DEF CreateSavedSessionForVKWorkspace
  <2>2. /\ sel.craft \in Nat
        /\ FitViews(SelectedViews(tabGroups', sel.craft, sel.tab), tabGroups'[sel.craft].ws)
    BY <2>1, VKSelectionFit
  <2> HIDE DEF sel
  <2> QED BY <2>1, <2>2, SaveStep
<1>3. ASSUME NEW v \in Sessions, NEW s \in DOMAIN spaces, NEW c \in spaces[s],
             NEW t \in TabsOf(tabGroups, c) \cup {Agent, NoTab},
             CreateSavedSessionForSelection(v, s, c, t)
      PROVE  VoyageStep(u)
  <2>1. Fresh(v) /\ SaveSelection(v, s, c, t, tabGroups) /\ UNCHANGED tabGroups
    BY <1>3 DEF CreateSavedSessionForSelection
  <2>2. c \in DOMAIN tabGroups /\ c \in Nat
    BY <1>0
  <2>3. FitViews(SelectedViews(tabGroups, c, t), tabGroups[c].ws)
    BY <1>0, <2>2, SelectedFit
  <2>4. SaveSelection(v, s, c, t, tabGroups')
        /\ FitViews(SelectedViews(tabGroups', c, t), tabGroups'[c].ws)
    BY <2>1, <2>3
  <2> QED BY <2>1, <2>2, <2>4, SaveStep
<1>4. ASSUME NEW v \in Sessions, NEW from \in DOMAIN savedVoyages,
             NEW e \in DOMAIN savedVoyages[from].entries,
             NEW views \in Selections(CraftOf(e)) \cup {savedVoyages[from].entries[e]},
             CreateSavedSessionFromVoyageEntry(v, e, views)
      PROVE  VoyageStep(u)
  <2> DEFINE c   == CraftOf(e)
             new == OneEntryVoyage(e, NormalizedViews(tabGroups, c, views), SpaceOf(spaces, c, Home))
  <2>1. /\ v \notin DOMAIN savedVoyages /\ c \in DOMAIN tabGroups /\ UNCHANGED tabGroups
        /\ \/ savedVoyages' = Put(savedVoyages, v, new)
           \/ \E source \in DOMAIN savedVoyages : \E rest \in VoyagesWithout(source, e) :
                savedVoyages' = Put([savedVoyages EXCEPT ![source] = rest], v, new)
    BY <1>4 DEF CreateSavedSessionFromVoyageEntry, Fresh
  <2>2. e \in EntryIds /\ FitViews(savedVoyages[from].entries[e], tabGroups[c].ws)
    BY DEF Fit, FitEntries
  <2>3. views \subseteq Views /\ UpToTwo(views)
    BY <2>1, <2>2, ClientViews DEF Fit, FitViews
  <2>4. FitViews(NormalizedViews(tabGroups, c, views), tabGroups'[c].ws)
    BY <1>0, <2>1, <2>3, NormalizedFit
  <2>5. new.entries = [x \in {e} |-> NormalizedViews(tabGroups, c, views)]
    BY DEF OneEntryVoyage, Voyage
  <2>6. Begun(new.entries)
    BY <2>2, <2>4, <2>5 DEF Begun
  <2> HIDE DEF new, c
  <2>7. CASE savedVoyages' = Put(savedVoyages, v, new)
    <3>1. /\ DOMAIN savedVoyages' = DOMAIN savedVoyages \cup {v} /\ savedVoyages'[v] = new
          /\ \A x \in DOMAIN savedVoyages : savedVoyages'[x] = savedVoyages[x]
      BY <2>1, <2>7 DEF Put
    <3> QED BY <2>1, <2>6, <3>1 DEF VoyageStep
  <2>8. ASSUME NEW source \in DOMAIN savedVoyages, NEW rest \in VoyagesWithout(source, e),
               savedVoyages' = Put([savedVoyages EXCEPT ![source] = rest], v, new)
        PROVE  VoyageStep(u)
    <3>1. /\ DOMAIN savedVoyages' = DOMAIN savedVoyages \cup {v} /\ savedVoyages'[v] = new
          /\ \A x \in DOMAIN savedVoyages : x # source => savedVoyages'[x] = savedVoyages[x]
          /\ savedVoyages'[source] = rest
      BY <2>1, <2>8 DEF Put
    <3>2. Mended(savedVoyages[source].entries, rest.entries, tabGroups)
      BY RestMended
    <3> QED BY <2>1, <2>6, <3>1, <3>2 DEF VoyageStep
  <2> QED BY <2>1, <2>7, <2>8
<1>5. ASSUME NEW v \in DOMAIN savedVoyages, NEW s \in DOMAIN spaces, NEW w \in VKIds,
             OpenVKWorkspaceInSavedSession(v, s, w)
      PROVE  VoyageStep(u)
  <2> DEFINE sel   == SelectionForVK(s, w)
             views == SelectedViews(tabGroups', sel.craft, sel.tab)
  <2>1. FindOrAddVKCraft(s, w) /\ SetActiveEntry(v, sel.space, sel.craft, views)
    BY <1>5 DEF OpenVKWorkspaceInSavedSession
  <2>2. /\ sel.craft \in Nat /\ FitViews(views, tabGroups'[sel.craft].ws)
        /\ sel.craft \in DOMAIN tabGroups => UNCHANGED tabGroups
    BY <2>1, VKSelectionFit
  <2> HIDE DEF sel, views
  <2> QED BY <2>1, <2>2, SetStep
<1>6. ASSUME NEW v \in DOMAIN savedVoyages, NEW s \in DOMAIN spaces, NEW c \in spaces[s],
             NEW views \in ViewsToSelect(c), AddSelectionToSavedSession(v, s, c, views)
      PROVE  VoyageStep(u)
  <2>1. UNCHANGED tabGroups /\ SetActiveEntry(v, s, c, views)
    BY <1>6 DEF AddSelectionToSavedSession
  <2>2. c \in DOMAIN tabGroups /\ c \in Nat
    BY <1>0
  <2>3. FitViews(views, tabGroups'[c].ws)
    BY <2>1, <2>2, ClientViews DEF Fit
  <2> QED BY <2>1, <2>2, <2>3, SetStep
<1>7. ASSUME NEW v, DeleteSavedSession(v) PROVE VoyageStep(u)
  BY <1>7 DEF DeleteSavedSession, Without, VoyageStep
<1>8. ASSUME NEW v \in DOMAIN savedVoyages, NEW e, ActivateSavedVoyageEntry(v, e) PROVE VoyageStep(u)
  <2>1. savedVoyages'[v].entries = savedVoyages[v].entries
    BY <1>8 DEF ActivateSavedVoyageEntry, Voyage
  <2>2. \A x \in DOMAIN savedVoyages' : x \in DOMAIN savedVoyages
                                        /\ (x # v => savedVoyages'[x] = savedVoyages[x])
    BY <1>8 DEF ActivateSavedVoyageEntry
  <2> QED BY <2>1, <2>2 DEF VoyageStep
<1>9. ASSUME NEW v \in DOMAIN savedVoyages, NEW e, RemoveVoyageEntryFromSavedSession(v, e)
      PROVE  VoyageStep(u)
  <2>1. PICK rest \in VoyagesWithout(v, e) : savedVoyages' = [savedVoyages EXCEPT ![v] = rest]
    BY <1>9 DEF RemoveVoyageEntryFromSavedSession
  <2>2. Mended(savedVoyages[v].entries, rest.entries, tabGroups')
    BY <1>9, RestMended DEF RemoveVoyageEntryFromSavedSession
  <2> QED BY <2>1, <2>2 DEF VoyageStep
<1>10. ASSUME NEW v \in DOMAIN savedVoyages, NEW target \in DOMAIN savedVoyages,
              NEW e \in DOMAIN savedVoyages[v].entries,
              MoveVoyageEntryBetweenSavedSessions(v, target, e)
       PROVE  VoyageStep(u)
  <2> DEFINE views == savedVoyages[v].entries[e]
  <2>1. PICK rest, s :
          /\ rest \in VoyagesWithout(v, e)
          /\ savedVoyages' = [savedVoyages EXCEPT
               ![v] = rest, ![target] = WithActiveEntry(savedVoyages[target], e, views, s)]
    BY <1>10 DEF MoveVoyageEntryBetweenSavedSessions
  <2>2. /\ v # target /\ UNCHANGED tabGroups
        /\ EntriesOfCraft(savedVoyages[target].entries, CraftOf(e)) = {}
    BY <1>10 DEF MoveVoyageEntryBetweenSavedSessions
  <2>3. Mended(savedVoyages[v].entries, rest.entries, tabGroups')
    BY <2>1, <2>2, RestMended
  <2>4. e \in EntryIds /\ FitViews(views, tabGroups'[CraftOf(e)].ws)
    BY <2>2 DEF Fit, FitEntries
  <2> HIDE DEF views
  <2>5. /\ DOMAIN savedVoyages' = DOMAIN savedVoyages
        /\ savedVoyages'[v] = rest
        /\ savedVoyages'[target] = WithActiveEntry(savedVoyages[target], e, views, s)
        /\ \A x \in DOMAIN savedVoyages : x \notin {v, target} => savedVoyages'[x] = savedVoyages[x]
    BY <2>1, <2>2
  <2>6. SetTo(savedVoyages[target].entries, savedVoyages'[target].entries,
              savedVoyages'[target].active)
    <3>1. /\ savedVoyages'[target].entries = Put(savedVoyages[target].entries, e, views)
          /\ savedVoyages'[target].active = e
      BY <2>5 DEF WithActiveEntry, Voyage
    <3> QED BY <2>2, <2>4, <3>1 DEF SetTo
  <2> QED BY <2>3, <2>5, <2>6 DEF VoyageStep
<1> QED
  BY <1>1, <1>2, <1>3, <1>4, <1>5, <1>6, <1>7, <1>8, <1>9, <1>10 DEF ChangeVoyages

\* All of them.
LEMMA StepOfVoyages ==
  ASSUME Tree, Tree', Voyages, Fit, FitCrafts(tabGroups'), Next,
         NEW u \in DOMAIN savedVoyages'
  PROVE  VoyageStep(u)
<1>1. CASE UNCHANGED savedVoyages
  BY <1>1 DEF VoyageStep
<1>2. ASSUME NEW sp, RepairSavedVoyages(tabGroups', sp) PROVE VoyageStep(u)
  BY <1>2, RepairMends DEF VoyageStep
<1>3. CASE Boot
  <2>1. RepairSavedVoyages(tabGroups, spaces)
    BY <1>3 DEF Boot
  <2> QED BY <1>3, <2>1, RepairMends DEF VoyageStep
<1>4. CASE ChangeSpaces
  BY <1>1, <1>2, <1>4
  DEF ChangeSpaces, AddSpace, DeleteSpace, AddTabGroup, DeleteTabGroup,
      EnsureCreateWorkspaceTab, AddTab, CreateCreateWorkspaceCraft, AddVKWorkspace
<1>5. CASE ChangeCraft
  BY <1>1, <1>2, <1>5
  DEF ChangeCraft, CloseActiveTab, CloseTab, AddTab, UpdateTabUrl, CreatePair, DeletePair
<1>6. CASE ChangeVoyages
  BY <1>6, ChangeVoyagesStep
<1> QED BY <1>3, <1>4, <1>5, <1>6 DEF Next

\* A repair leaves views that may be.
LEMMA MendedFit ==
  ASSUME NEW old, NEW new, NEW cr, NEW cr2, Mended(old, new, cr), FitEntries(old, cr2),
         \A e \in DOMAIN new : /\ Usable(cr[CraftOf(e)])
                               /\ cr[CraftOf(e)].ws = cr2[CraftOf(e)].ws
  PROVE  /\ IsFiniteSet(DOMAIN new)
         /\ \A e \in DOMAIN new : e \in EntryIds /\ FitViews(new[e], cr[CraftOf(e)].ws)
<1>1. PICK K \in SUBSET DOMAIN old : new = [e \in K |-> NormalizedViews(cr, CraftOf(e), old[e])]
  BY DEF Mended
<1>2. DOMAIN new = K /\ \A e \in K : new[e] = NormalizedViews(cr, CraftOf(e), old[e])
  BY <1>1
<1>3. IsFiniteSet(K)
  BY FS_Subset DEF FitEntries
<1>4. ASSUME NEW e \in K PROVE e \in EntryIds /\ FitViews(new[e], cr[CraftOf(e)].ws)
  <2>1. e \in EntryIds /\ old[e] \subseteq Views /\ UpToTwo(old[e])
    BY DEF FitEntries, FitViews
  <2> DEFINE c == CraftOf(e)
  <2>2. Usable(cr[c])
    BY <1>2
  <2> HIDE DEF c
  <2>3. FitViews(NormalizedViews(cr, c, old[e]), cr[c].ws)
    BY <2>1, <2>2, NormalizedFit
  <2> QED BY <1>2, <2>1, <2>3 DEF c
<1> QED BY <1>2, <1>3, <1>4

\* The views of all entries stay fit.
LEMMA FitNext ==
  ASSUME Tree, Tree', Voyages, Voyages', Fit, [Next]_vars
  PROVE  Fit'
<1>1. CASE UNCHANGED vars
  BY <1>1 DEF Fit, FitCrafts, FitEntries, vars
<1>2. CASE Next
  <2>1. nextId' <= MaxId + 1
    BY <1>2, IdsBounded DEF Fit
  <2>2. FitCrafts(tabGroups') /\ WsStay
    BY <1>2, CraftsFit DEF Fit
  <2>3. \A u \in DOMAIN savedVoyages' : VoyageStep(u)
    BY <1>2, <2>2, StepOfVoyages
  <2>4. DOMAIN savedVoyages' \subseteq Sessions
    BY <2>3 DEF VoyageStep, Fit
  <2>5. \A c \in DOMAIN tabGroups : Usable(tabGroups[c])
    BY CraftsUsable DEF Fit
  <2>6. \A c \in DOMAIN tabGroups' : Usable(tabGroups'[c])
    BY <2>2 DEF Tree, CraftsWhole, WholeCraft, FitCrafts, FitCraft, Usable
  <2>7. ASSUME NEW u \in DOMAIN savedVoyages'
        PROVE  FitEntries(savedVoyages'[u].entries, tabGroups')
    <3> DEFINE old == savedVoyages[u].entries
               new == savedVoyages'[u].entries
    <3>1. \A e \in DOMAIN new : CraftOf(e) \in DOMAIN tabGroups'
      BY <2>7 DEF Voyages, Good, Resumable, CraftsOf
    <3>2. u \in DOMAIN savedVoyages =>
            /\ \A e \in DOMAIN old : CraftOf(e) \in DOMAIN tabGroups
            /\ FitEntries(old, tabGroups)
      BY DEF Voyages, Good, Resumable, CraftsOf, Fit
    <3>3. u \in DOMAIN savedVoyages => \A e \in DOMAIN old \cap DOMAIN new :
             tabGroups'[CraftOf(e)].ws = tabGroups[CraftOf(e)].ws
      BY <2>2, <3>1, <3>2 DEF WsStay
    <3>4. VoyageStep(u)
      BY <2>3, <2>7
    <3> DEFINE active == savedVoyages'[u].active
    <3>5. IF u \in DOMAIN savedVoyages
          THEN \/ new = old
               \/ Mended(old, new, tabGroups')
               \/ Boot /\ Mended(old, new, tabGroups)
               \/ SetTo(old, new, active)
          ELSE u \in Sessions /\ Begun(new)
      BY <3>4 DEF VoyageStep
    <3> SUFFICES FitEntries(new, tabGroups')
      BY DEF new
    <3> HIDE DEF old, new, active
    <3>6. CASE Begun(new)
      <4>1. PICK e, views :
              /\ e \in EntryIds
              /\ new = [x \in {e} |-> views]
              /\ FitViews(views, tabGroups'[CraftOf(e)].ws)
        BY <3>6 DEF Begun
      <4>2. IsFiniteSet(DOMAIN new)
        BY <4>1, FS_Singleton
      <4> QED BY <4>1, <4>2 DEF FitEntries
    <3>7. CASE u \in DOMAIN savedVoyages /\ new = old
      BY <3>2, <3>3, <3>7 DEF FitEntries
    <3>8. CASE u \in DOMAIN savedVoyages /\ Mended(old, new, tabGroups')
      <4>1. DOMAIN new \subseteq DOMAIN old
        BY <3>8 DEF Mended
      <4> DEFINE cr == tabGroups'
      <4>2. \A e \in DOMAIN new : Usable(cr[CraftOf(e)]) /\ cr[CraftOf(e)].ws = tabGroups[CraftOf(e)].ws
        BY <2>6, <3>1, <3>3, <3>8, <4>1
      <4>3. Mended(old, new, cr) /\ FitEntries(old, tabGroups)
        BY <3>2, <3>8
      <4> HIDE DEF cr
      <4>4. IsFiniteSet(DOMAIN new) /\ \A e \in DOMAIN new : e \in EntryIds /\ FitViews(new[e], cr[CraftOf(e)].ws)
        BY <4>2, <4>3, MendedFit
      <4> QED BY <4>4 DEF cr, FitEntries
    <3>9. CASE u \in DOMAIN savedVoyages /\ Mended(old, new, tabGroups)
      <4>1. DOMAIN new \subseteq DOMAIN old
        BY <3>9 DEF Mended
      <4>2. \A e \in DOMAIN new : Usable(tabGroups[CraftOf(e)])
        BY <2>5, <3>2, <3>9, <4>1
      <4>3. IsFiniteSet(DOMAIN new)
            /\ \A e \in DOMAIN new : e \in EntryIds /\ FitViews(new[e], tabGroups[CraftOf(e)].ws)
        BY <3>2, <3>9, <4>2, MendedFit
      <4> QED BY <3>3, <3>9, <4>1, <4>3 DEF FitEntries
    <3>10. CASE u \in DOMAIN savedVoyages /\ SetTo(old, new, active)
      <4>1. PICK e, views :
              e \in EntryIds /\ new = Put(old, e, views) /\ FitViews(views, tabGroups'[CraftOf(e)].ws)
        BY <3>10 DEF SetTo
      <4>2. /\ DOMAIN new = DOMAIN old \cup {e} /\ new[e] = views
            /\ \A x \in DOMAIN old : x # e => new[x] = old[x]
        BY <4>1 DEF Put
      <4>3. IsFiniteSet(DOMAIN new)
        BY <3>2, <3>10, <4>2, FS_AddElement DEF FitEntries
      <4>4. \A x \in DOMAIN new : x \in EntryIds /\ FitViews(new[x], tabGroups'[CraftOf(x)].ws)
        BY <3>2, <3>3, <3>10, <4>1, <4>2 DEF FitEntries
      <4> QED BY <4>3, <4>4 DEF FitEntries
    <3> QED BY <3>5, <3>6, <3>7, <3>8, <3>9, <3>10
  <2> QED BY <2>1, <2>2, <2>4, <2>7 DEF Fit
<1> QED BY <1>1, <1>2

LEMMA InitFit == Init => Fit
<1> SUFFICES ASSUME Init PROVE Fit
  OBVIOUS
<1>1. nextId = 1 /\ DOMAIN savedVoyages = {}
  BY DEF Init
<1>2. \A c \in DOMAIN tabGroups : tabGroups[c] = OverviewCraft(0)
  BY DEF Init
<1>3. FitCrafts(tabGroups)
  BY <1>2, MadeFit DEF FitCrafts
<1>4. nextId <= MaxId + 1
  BY <1>1, WorkspaceAssumption
<1> QED BY <1>1, <1>3, <1>4 DEF Fit

\* Ids stay within what the counter may hand out, and every field of craft and
\* voyages keeps its type, the views of entries included.
THEOREM TypeCorrect == Spec => []TypeOK
<1>1. Tree /\ Voyages /\ Fit => TypeOK
  <2> SUFFICES ASSUME Tree, Voyages, Fit PROVE TypeOK
    OBVIOUS
  <2>1. /\ nextId \in Nat /\ MaxId \in Nat /\ nextId <= MaxId + 1
        /\ \A x \in Nat : x < nextId => x \in 0..MaxId
    BY WorkspaceAssumption DEF Tree, SpacesWhole, Fit
  <2>2. Home \in DOMAIN spaces /\ nextId \in 1..(MaxId + 1)
    BY <2>1 DEF Tree, SpacesWhole, Home
  <2>3. DOMAIN spaces \subseteq 0..MaxId /\ DOMAIN tabGroups \subseteq 0..MaxId
    BY <2>1 DEF Tree, SpacesWhole
  <2>4. \A s \in DOMAIN spaces : spaces[s] \subseteq 0..MaxId
    BY <2>3 DEF Tree, SpacesWhole
  <2>5. ASSUME NEW c \in DOMAIN tabGroups
        PROVE  /\ DOMAIN tabGroups[c].url \subseteq 0..MaxId
               /\ \A t \in DOMAIN tabGroups[c].url : tabGroups[c].url[t] \in Urls
               /\ tabGroups[c].ws \in VKIds \cup {NoWs}
               /\ \A p \in tabGroups[c].pairs : p.id \in Nat
    <3>1. WholeCraft(tabGroups[c], nextId) /\ FitCraft(tabGroups[c])
      BY DEF Tree, CraftsWhole, Fit, FitCrafts
    <3> QED BY <2>1, <3>1 DEF WholeCraft, FitCraft
  <2>6. ASSUME NEW v \in DOMAIN savedVoyages
        PROVE  LET voyage == savedVoyages[v] IN
               /\ \A e \in DOMAIN voyage.entries :
                    /\ e \in EntryIds
                    /\ \A view \in voyage.entries[e] : view \in Nat \/ view = Agent
               /\ voyage.active \in EntryIds
               /\ voyage.craft \in Nat
               /\ voyage.space \in Nat
               /\ \A c \in voyage.visited : c \in Nat
    <3>1. Resumable(savedVoyages[v], tabGroups, spaces) /\ FitEntries(savedVoyages[v].entries, tabGroups)
      BY DEF Voyages, Good, Fit
    <3>2. DOMAIN tabGroups \subseteq Nat /\ DOMAIN spaces \subseteq Nat
      BY DEF Tree, SpacesWhole
    <3> QED BY <3>1, <3>2 DEF Resumable, FitEntries, FitViews, Views, CraftsOf
  <2>7. DOMAIN savedVoyages \subseteq Sessions
    BY DEF Fit
  <2> HIDE DEF Urls, EntryIds
  <2> QED BY <2>2, <2>3, <2>4, <2>5, <2>6, <2>7 DEF TypeOK
<1>2. QED
  BY <1>1, Whole, FitNext, InitFit, PTL DEF Spec

-----------------------------------------------------------------------------
(* What becomes of the views of an entry.                                  *)

\* A repair of views, when the tabs it knows are those that will be there, or
\* (at a start) some that will not be.
LEMMA RepairedViews ==
  ASSUME NEW cr, NEW old, NEW new, NEW c,
         FitViews(old, cr[c].ws), new = NormalizedViews(cr, c, old), new # old,
         tabGroups'[c].ws = cr[c].ws, TabsOf(tabGroups', c) \subseteq TabsOf(cr, c)
  PROVE  LET left == old \cap TabsOf(tabGroups', c)
         IN  /\ cr[c].ws = NoWs
             /\ \/ left # old /\ left # {} /\ new = left
                \/ left = {}
<1> DEFINE left  == old \cap TabsOf(tabGroups', c)
           valid == old \cap TabsOf(cr, c)
<1>1. cr[c].ws = NoWs
  BY DEF NormalizedViews, FitViews
<1>2. valid # {} => new = valid
  BY <1>1 DEF NormalizedViews
<1>3. left \subseteq valid
  OBVIOUS
<1>4. CASE left # {}
  <2>1. new = valid /\ valid # old
    BY <1>2, <1>3, <1>4
  <2>2. PICK x \in old : x \notin valid
    BY <2>1
  <2>3. \A y, z \in valid : y = z
    BY <2>2 DEF FitViews, UpToTwo
  <2> HIDE DEF valid, left
  <2>4. left = valid
    BY <1>3, <1>4, <2>3
  <2> QED BY <1>1, <1>4, <2>1, <2>4 DEF left
<1> QED BY <1>1, <1>4

\* A start only takes tabs away.
LEMMA BootTakesTabs ==
  ASSUME Boot, NEW c \in DOMAIN tabGroups
  PROVE  TabsOf(tabGroups', c) \subseteq TabsOf(tabGroups, c)
<1>1. tabGroups'[c] = WithoutGeneratedTabs(tabGroups[c])
  BY DEF Boot
<1> QED BY <1>1 DEF WithoutGeneratedTabs, TabsOf, Craft

\* Whatever is closed, deleted or migrated, the views of an entry change only
\* by being selected or by being gone, and what is left of a split stays.
THEOREM ViewsOnlyFollow == Spec => ViewsFollowTabs
<1> DEFINE Follows(v, e) ==
             LET c    == CraftOf(e)
                 old  == savedVoyages[v].entries[e]
                 new  == savedVoyages'[v].entries[e]
                 left == old \cap TabsOf(tabGroups', c)
             IN  new # old =>
                   \/ UNCHANGED tabGroups /\ savedVoyages'[v].active = e
                   \/ tabGroups[c].ws = NoWs /\ left # old /\ left # {} /\ new = left
                   \/ tabGroups[c].ws = NoWs /\ left = {}
<1>1. ASSUME Tree, Tree', Voyages, Voyages', Fit, Fit', Next,
             NEW v \in DOMAIN savedVoyages \cap DOMAIN savedVoyages',
             NEW e \in DOMAIN savedVoyages[v].entries \cap DOMAIN savedVoyages'[v].entries
      PROVE  Follows(v, e)
  <2> DEFINE c   == CraftOf(e)
             old == savedVoyages[v].entries
             new == savedVoyages'[v].entries
  <2>1. c \in DOMAIN tabGroups /\ c \in DOMAIN tabGroups'
    BY <1>1 DEF Voyages, Good, Resumable, CraftsOf
  <2>2. tabGroups'[c].ws = tabGroups[c].ws
    BY <1>1, <2>1, CraftsFit DEF WsStay, Fit
  <2>3. FitViews(old[e], tabGroups[c].ws)
    BY <1>1 DEF Fit, FitEntries
  <2>4. VoyageStep(v)
    BY <1>1, StepOfVoyages DEF Fit
  <2>5. CASE new = old
    BY <2>5
  <2>6. CASE Mended(old, new, tabGroups')
    <3>1. new[e] = NormalizedViews(tabGroups', c, old[e])
      BY <2>6, <1>1 DEF Mended
    <3> DEFINE cr == tabGroups'
    <3>2. /\ FitViews(old[e], cr[c].ws) /\ new[e] = NormalizedViews(cr, c, old[e])
          /\ tabGroups'[c].ws = cr[c].ws /\ TabsOf(tabGroups', c) \subseteq TabsOf(cr, c)
      BY <2>2, <2>3, <3>1
    <3> HIDE DEF cr, c, old, new
    <3>3. new[e] # old[e] =>
            LET left == old[e] \cap TabsOf(tabGroups', c)
            IN  /\ cr[c].ws = NoWs
                /\ \/ left # old[e] /\ left # {} /\ new[e] = left
                   \/ left = {}
      BY <3>2, RepairedViews
    <3> QED BY <2>2, <3>3 DEF cr, c, old, new
  <2>7. CASE Boot /\ Mended(old, new, tabGroups)
    <3>1. new[e] = NormalizedViews(tabGroups, c, old[e])
      BY <2>7, <1>1 DEF Mended
    <3>2. TabsOf(tabGroups', c) \subseteq TabsOf(tabGroups, c)
      BY <2>1, <2>7, BootTakesTabs
    <3> HIDE DEF c, old, new
    <3>3. new[e] # old[e] =>
            LET left == old[e] \cap TabsOf(tabGroups', c)
            IN  /\ tabGroups[c].ws = NoWs
                /\ \/ left # old[e] /\ left # {} /\ new[e] = left
                   \/ left = {}
      BY <2>2, <2>3, <3>1, <3>2, RepairedViews
    <3> QED BY <3>3 DEF c, old, new
  <2>8. CASE SetTo(old, new, savedVoyages'[v].active)
    <3>1. PICK d, views :
            /\ new = Put(old, d, views) /\ savedVoyages'[v].active = d
            /\ d \in DOMAIN old => UNCHANGED tabGroups
      BY <2>8 DEF SetTo
    <3>2. CASE d = e
      BY <1>1, <3>1, <3>2
    <3>3. CASE d # e
      <4>1. new[e] = old[e]
        BY <1>1, <3>1, <3>3 DEF Put
      <4> QED BY <4>1
    <3> QED BY <3>2, <3>3
  <2> QED BY <1>1, <2>4, <2>5, <2>6, <2>7, <2>8 DEF VoyageStep
<1> HIDE DEF Follows
<1>2. Tree /\ Tree' /\ Voyages /\ Voyages' /\ Fit /\ Fit' /\ [Next]_vars =>
        [\A v \in DOMAIN savedVoyages \cap DOMAIN savedVoyages' :
           \A e \in DOMAIN savedVoyages[v].entries \cap DOMAIN savedVoyages'[v].entries :
             LET c    == CraftOf(e)
                 old  == savedVoyages[v].entries[e]
                 new  == savedVoyages'[v].entries[e]
                 left == old \cap TabsOf(tabGroups', c)
             IN  new # old =>
                   \/ UNCHANGED tabGroups /\ savedVoyages'[v].active = e
                   \/ tabGroups[c].ws = NoWs /\ left # old /\ left # {} /\ new = left
                   \/ tabGroups[c].ws = NoWs /\ left = {}]_vars
  BY <1>1 DEF Follows
<1>3. Spec => [](Tree /\ Voyages /\ Fit)
  BY Whole, FitNext, InitFit, PTL DEF Spec
<1>4. QED
  BY <1>2, <1>3, PTL DEF Spec, ViewsFollowTabs

-----------------------------------------------------------------------------
(* No entry is lost on the way from one voyage to another.                 *)

Left ==
    {x \in CraftIn(savedVoyages) \ CraftIn(savedVoyages') :
       x[1] \in DOMAIN savedVoyages' /\ x[2] \in DOMAIN tabGroups'}

Joined == CraftIn(savedVoyages') \ CraftIn(savedVoyages)

Conserved == \E x : Left \subseteq {x} /\ (x \in Left => \A y \in Joined : x[2] = y[2])

LEMMA WhatLeft ==
  ASSUME NEW x \in Left
  PROVE  \E v \in DOMAIN savedVoyages \cap DOMAIN savedVoyages' :
           \E e \in DOMAIN savedVoyages[v].entries :
             /\ x = <<v, CraftOf(e)>> /\ CraftOf(e) \in DOMAIN tabGroups'
             /\ e \notin DOMAIN savedVoyages'[v].entries
  BY DEF Left, CraftIn, CraftsOf

\* The entries of every voyage stay, as long as their craft do.
LEMMA NoneLeaves ==
  ASSUME \A v \in DOMAIN savedVoyages \cap DOMAIN savedVoyages' :
           \A e \in DOMAIN savedVoyages[v].entries :
             CraftOf(e) \in DOMAIN tabGroups' => e \in DOMAIN savedVoyages'[v].entries
  PROVE  Conserved
<1>1. Left = {}
  BY WhatLeft
<1> QED BY <1>1 DEF Conserved

\* One leaves a voyage, and if others gain one it is on the same craft.
LEMMA OneLeaves ==
  ASSUME NEW v, NEW c,
         \A u \in DOMAIN savedVoyages \cap DOMAIN savedVoyages' :
           \A e \in DOMAIN savedVoyages[u].entries :
             (u = v /\ CraftOf(e) = c) \/ e \in DOMAIN savedVoyages'[u].entries,
         \A u \in DOMAIN savedVoyages' : \A e \in DOMAIN savedVoyages'[u].entries :
           CraftOf(e) = c \/ (u \in DOMAIN savedVoyages /\ e \in DOMAIN savedVoyages[u].entries)
  PROVE  Conserved
<1>1. Left \subseteq {<<v, c>>}
  BY WhatLeft
<1>2. \A y \in Joined : y[2] = c
  BY DEF Joined, CraftIn, CraftsOf
<1> DEFINE x == <<v, c>>
<1>3. x[2] = c
  OBVIOUS
<1> HIDE DEF x
<1>4. Left \subseteq {x}
  BY <1>1 DEF x
<1> QED BY <1>2, <1>3, <1>4 DEF Conserved

LEMMA RestLeaves ==
  ASSUME Voyages, NEW v \in DOMAIN savedVoyages, NEW e, NEW rest \in VoyagesWithout(v, e)
  PROVE  DOMAIN rest.entries = DOMAIN savedVoyages[v].entries \ {e}
<1> DEFINE old  == savedVoyages[v]
           less == Voyage(Without(old.entries, {e}), old.active, old.space, old.visited)
<1>1. PICK active \in ActiveChoices(less, tabGroups) :
        rest = Repaired(less, active, tabGroups, spaces)
  BY DEF VoyagesWithout
<1>2. less.entries = Without(old.entries, {e})
  BY DEF Voyage
<1> HIDE DEF less
<1>3. DOMAIN rest.entries = KeptEntries(less, tabGroups)
  BY <1>1 DEF Repaired, Voyage
<1>4. DOMAIN less.entries = DOMAIN old.entries \ {e}
  BY <1>2 DEF Without
<1>5. \A d \in DOMAIN old.entries : CraftOf(d) \in DOMAIN tabGroups
  BY DEF Voyages, Good, Resumable, CraftsOf
<1> QED BY <1>3, <1>4, <1>5 DEF KeptEntries

LEMMA RepairConserves ==
  ASSUME NEW cr, NEW sp, RepairSavedVoyages(cr, sp), DOMAIN cr = DOMAIN tabGroups'
  PROVE  Conserved
<1>1. PICK active :
        savedVoyages' = [s \in SurvivingVoyages(cr) |-> Repaired(savedVoyages[s], active[s], cr, sp)]
  BY DEF RepairSavedVoyages
<1>2. \A v \in DOMAIN savedVoyages' :
        DOMAIN savedVoyages'[v].entries = KeptEntries(savedVoyages[v], cr)
  BY <1>1 DEF Repaired, Voyage
<1> QED BY <1>2, NoneLeaves DEF KeptEntries

\* The actions that only add entries, or whole voyages.
LEMMA AddedConserves ==
  ASSUME \/ \E v, new : Fresh(v) /\ savedVoyages' = Put(savedVoyages, v, new)
         \/ \E v \in DOMAIN savedVoyages : \E s, c, views : SetActiveEntry(v, s, c, views)
         \/ \E v : DeleteSavedSession(v)
         \/ \E v, e : ActivateSavedVoyageEntry(v, e)
         \/ UNCHANGED savedVoyages
  PROVE  Conserved
<1>1. ASSUME NEW v, NEW new, Fresh(v), savedVoyages' = Put(savedVoyages, v, new) PROVE Conserved
  <2>1. \A u \in DOMAIN savedVoyages : savedVoyages'[u] = savedVoyages[u]
    BY <1>1 DEF Fresh, Put
  <2> QED BY <2>1, NoneLeaves
<1>2. ASSUME NEW v \in DOMAIN savedVoyages, NEW s, NEW c, NEW views, SetActiveEntry(v, s, c, views)
      PROVE  Conserved
  <2>1. PICK e : savedVoyages' = [savedVoyages EXCEPT
                                    ![v] = WithActiveEntry(savedVoyages[v], e, views, s)]
    BY <1>2 DEF SetActiveEntry
  <2>2. savedVoyages'[v].entries = Put(savedVoyages[v].entries, e, views)
    BY <2>1 DEF WithActiveEntry, Voyage
  <2>3. \A u \in DOMAIN savedVoyages : u # v => savedVoyages'[u] = savedVoyages[u]
    BY <2>1
  <2>4. DOMAIN savedVoyages[v].entries \subseteq DOMAIN savedVoyages'[v].entries
    BY <2>2 DEF Put
  <2> QED BY <2>3, <2>4, NoneLeaves
<1>3. ASSUME NEW v, DeleteSavedSession(v) PROVE Conserved
  <2>1. \A u \in DOMAIN savedVoyages' : savedVoyages'[u] = savedVoyages[u]
    BY <1>3 DEF DeleteSavedSession, Without
  <2> QED BY <2>1, NoneLeaves
<1>4. ASSUME NEW v, NEW e, ActivateSavedVoyageEntry(v, e) PROVE Conserved
  <2>1. \A u \in DOMAIN savedVoyages : savedVoyages'[u].entries = savedVoyages[u].entries
    BY <1>4 DEF ActivateSavedVoyageEntry, Voyage
  <2> QED BY <2>1, NoneLeaves
<1>5. CASE UNCHANGED savedVoyages
  BY <1>5, NoneLeaves
<1> QED BY <1>1, <1>2, <1>3, <1>4, <1>5

\* An entry leaves a voyage for one of its own, for another, or for nothing.
LEMMA LeavingConserves ==
  ASSUME Voyages, NEW v \in DOMAIN savedVoyages, NEW e, NEW rest \in VoyagesWithout(v, e),
         \/ savedVoyages' = [savedVoyages EXCEPT ![v] = rest]
         \/ \E u, new : /\ u \notin DOMAIN savedVoyages /\ DOMAIN new.entries = {e}
                        /\ savedVoyages' = Put([savedVoyages EXCEPT ![v] = rest], u, new)
         \/ \E u \in DOMAIN savedVoyages : \E views, s :
              /\ u # v
              /\ savedVoyages' = [savedVoyages EXCEPT
                   ![v] = rest, ![u] = WithActiveEntry(savedVoyages[u], e, views, s)]
  PROVE  Conserved
<1> DEFINE c == CraftOf(e)
<1>1. DOMAIN rest.entries = DOMAIN savedVoyages[v].entries \ {e}
  BY RestLeaves
<1>2. CASE savedVoyages' = [savedVoyages EXCEPT ![v] = rest]
  <2>1. /\ DOMAIN savedVoyages' = DOMAIN savedVoyages /\ savedVoyages'[v] = rest
        /\ \A u \in DOMAIN savedVoyages : u # v => savedVoyages'[u] = savedVoyages[u]
    BY <1>2
  <2> QED BY <1>1, <2>1, OneLeaves
<1>3. ASSUME NEW u, NEW new, u \notin DOMAIN savedVoyages, DOMAIN new.entries = {e},
             savedVoyages' = Put([savedVoyages EXCEPT ![v] = rest], u, new)
      PROVE  Conserved
  <2>1. /\ DOMAIN savedVoyages' = DOMAIN savedVoyages \cup {u}
        /\ savedVoyages'[v] = rest /\ savedVoyages'[u] = new
        /\ \A x \in DOMAIN savedVoyages : x # v => savedVoyages'[x] = savedVoyages[x]
    BY <1>3 DEF Put
  <2>2. \A x \in DOMAIN savedVoyages \cap DOMAIN savedVoyages' : \A d \in DOMAIN savedVoyages[x].entries :
          (x = v /\ CraftOf(d) = c) \/ d \in DOMAIN savedVoyages'[x].entries
    <3> SUFFICES ASSUME NEW x \in DOMAIN savedVoyages \cap DOMAIN savedVoyages',
                        NEW d \in DOMAIN savedVoyages[x].entries
                 PROVE  (x = v /\ CraftOf(d) = c) \/ d \in DOMAIN savedVoyages'[x].entries
      OBVIOUS
    <3>1. CASE x = v
      BY <1>1, <2>1, <3>1
    <3>2. CASE x # v
      BY <2>1, <3>2
    <3> QED BY <3>1, <3>2
  <2>3. \A x \in DOMAIN savedVoyages' : \A d \in DOMAIN savedVoyages'[x].entries :
          CraftOf(d) = c \/ (x \in DOMAIN savedVoyages /\ d \in DOMAIN savedVoyages[x].entries)
    <3> SUFFICES ASSUME NEW x \in DOMAIN savedVoyages', NEW d \in DOMAIN savedVoyages'[x].entries
                 PROVE  CraftOf(d) = c
                        \/ (x \in DOMAIN savedVoyages /\ d \in DOMAIN savedVoyages[x].entries)
      OBVIOUS
    <3>1. CASE x = u
      <4>1. d = e
        BY <1>3, <2>1, <3>1
      <4> QED BY <4>1
    <3>2. CASE x = v
      BY <1>1, <2>1, <3>2
    <3>3. CASE x # u /\ x # v
      BY <2>1, <3>3
    <3> QED BY <3>1, <3>2, <3>3
  <2> HIDE DEF c
  <2> QED BY ONLY <2>2, <2>3, OneLeaves
<1>4. ASSUME NEW u \in DOMAIN savedVoyages, NEW views, NEW s, u # v,
             savedVoyages' = [savedVoyages EXCEPT
               ![v] = rest, ![u] = WithActiveEntry(savedVoyages[u], e, views, s)]
      PROVE  Conserved
  <2>1. /\ DOMAIN savedVoyages' = DOMAIN savedVoyages
        /\ savedVoyages'[v] = rest
        /\ savedVoyages'[u] = WithActiveEntry(savedVoyages[u], e, views, s)
        /\ \A x \in DOMAIN savedVoyages : x \notin {u, v} => savedVoyages'[x] = savedVoyages[x]
    BY <1>4
  <2>2. DOMAIN savedVoyages'[u].entries = DOMAIN savedVoyages[u].entries \cup {e}
    BY <2>1 DEF WithActiveEntry, Voyage, Put
  <2>3. \A x \in DOMAIN savedVoyages \cap DOMAIN savedVoyages' : \A d \in DOMAIN savedVoyages[x].entries :
          (x = v /\ CraftOf(d) = c) \/ d \in DOMAIN savedVoyages'[x].entries
    <3> SUFFICES ASSUME NEW x \in DOMAIN savedVoyages \cap DOMAIN savedVoyages',
                        NEW d \in DOMAIN savedVoyages[x].entries
                 PROVE  (x = v /\ CraftOf(d) = c) \/ d \in DOMAIN savedVoyages'[x].entries
      OBVIOUS
    <3>1. CASE x = v
      BY <1>1, <2>1, <3>1
    <3>2. CASE x = u
      BY <2>2, <3>2
    <3>3. CASE x # u /\ x # v
      BY <2>1, <3>3
    <3> QED BY <3>1, <3>2, <3>3
  <2>4. \A x \in DOMAIN savedVoyages' : \A d \in DOMAIN savedVoyages'[x].entries :
          CraftOf(d) = c \/ (x \in DOMAIN savedVoyages /\ d \in DOMAIN savedVoyages[x].entries)
    <3> SUFFICES ASSUME NEW x \in DOMAIN savedVoyages', NEW d \in DOMAIN savedVoyages'[x].entries
                 PROVE  CraftOf(d) = c
                        \/ (x \in DOMAIN savedVoyages /\ d \in DOMAIN savedVoyages[x].entries)
      OBVIOUS
    <3>1. CASE x = u
      <4>1. d \in DOMAIN savedVoyages[x].entries \/ d = e
        BY <2>2, <3>1
      <4> QED BY <3>1, <4>1
    <3>2. CASE x = v
      BY <1>1, <2>1, <3>2
    <3>3. CASE x # u /\ x # v
      BY <2>1, <3>3
    <3> QED BY <3>1, <3>2, <3>3
  <2> HIDE DEF c
  <2> QED BY <2>3, <2>4, OneLeaves, SMTT(30)
<1> QED BY <1>2, <1>3, <1>4

\* A move neither loses an entry nor swaps it for another, and no other action
\* takes more than the one entry it is about out of a voyage.
THEOREM NothingLostOnTheWay == Spec => EntriesConserved
<1>1. ASSUME Voyages, Next PROVE Conserved
  <2>1. CASE Boot
    <3>1. RepairSavedVoyages(tabGroups, spaces) /\ DOMAIN tabGroups' = DOMAIN tabGroups
      BY <2>1 DEF Boot
    <3> QED BY <3>1, RepairConserves
  <2>2. ASSUME NEW sp, RepairSavedVoyages(tabGroups', sp) PROVE Conserved
    BY <2>2, RepairConserves
  <2>3. CASE UNCHANGED savedVoyages
    BY <2>3, AddedConserves
  <2>4. CASE ChangeSpaces
    BY <2>2, <2>3, <2>4
    DEF ChangeSpaces, AddSpace, DeleteSpace, AddTabGroup, DeleteTabGroup,
        EnsureCreateWorkspaceTab, AddTab, CreateCreateWorkspaceCraft, AddVKWorkspace
  <2>5. CASE ChangeCraft
    BY <2>2, <2>3, <2>5
    DEF ChangeCraft, CloseActiveTab, CloseTab, AddTab, UpdateTabUrl, CreatePair, DeletePair
  <2>6. CASE ChangeVoyages
    <3>1. ASSUME NEW v, NEW s, NEW c, NEW t, NEW cr, Fresh(v), SaveSelection(v, s, c, t, cr)
          PROVE  Conserved
      BY <3>1, AddedConserves DEF SaveSelection
    <3>2. ASSUME NEW v, CreateCreateWorkspaceSavedSession(v) PROVE Conserved
      BY <3>1, <3>2 DEF CreateCreateWorkspaceSavedSession
    <3>3. ASSUME NEW v, NEW s, NEW w, CreateSavedSessionForVKWorkspace(v, s, w) PROVE Conserved
      BY <3>1, <3>3 DEF CreateSavedSessionForVKWorkspace
    <3>4. ASSUME NEW v, NEW s, NEW c, NEW t, CreateSavedSessionForSelection(v, s, c, t)
          PROVE  Conserved
      BY <3>1, <3>4 DEF CreateSavedSessionForSelection
    <3>5. ASSUME NEW v \in DOMAIN savedVoyages, NEW s, NEW w, OpenVKWorkspaceInSavedSession(v, s, w)
          PROVE  Conserved
      BY <3>5, AddedConserves DEF OpenVKWorkspaceInSavedSession
    <3>6. ASSUME NEW v \in DOMAIN savedVoyages, NEW s, NEW c, NEW views,
                 AddSelectionToSavedSession(v, s, c, views)
          PROVE  Conserved
      BY <3>6, AddedConserves DEF AddSelectionToSavedSession
    <3>7. ASSUME NEW v, NEW e, DeleteSavedSession(v) \/ ActivateSavedVoyageEntry(v, e) PROVE Conserved
      BY <3>7, AddedConserves
    <3>8. ASSUME NEW v \in DOMAIN savedVoyages, NEW e, RemoveVoyageEntryFromSavedSession(v, e)
          PROVE  Conserved
      BY <1>1, <3>8, LeavingConserves DEF RemoveVoyageEntryFromSavedSession
    <3>9. ASSUME NEW v \in DOMAIN savedVoyages, NEW target \in DOMAIN savedVoyages, NEW e,
                 MoveVoyageEntryBetweenSavedSessions(v, target, e)
          PROVE  Conserved
      BY <1>1, <3>9, LeavingConserves DEF MoveVoyageEntryBetweenSavedSessions
    <3>10. ASSUME NEW v, NEW e, NEW views, CreateSavedSessionFromVoyageEntry(v, e, views)
           PROVE  Conserved
      <4> DEFINE new == OneEntryVoyage(e, NormalizedViews(tabGroups, CraftOf(e), views),
                                       SpaceOf(spaces, CraftOf(e), Home))
      <4>1. /\ Fresh(v)
            /\ \/ savedVoyages' = Put(savedVoyages, v, new)
               \/ \E source \in DOMAIN savedVoyages : \E rest \in VoyagesWithout(source, e) :
                    savedVoyages' = Put([savedVoyages EXCEPT ![source] = rest], v, new)
        BY <3>10 DEF CreateSavedSessionFromVoyageEntry
      <4>2. DOMAIN new.entries = {e}
        BY DEF OneEntryVoyage, Voyage
      <4> HIDE DEF new
      <4>3. CASE savedVoyages' = Put(savedVoyages, v, new)
        BY <4>1, <4>3, AddedConserves
      <4>4. ASSUME NEW source \in DOMAIN savedVoyages, NEW rest \in VoyagesWithout(source, e),
                   savedVoyages' = Put([savedVoyages EXCEPT ![source] = rest], v, new)
            PROVE  Conserved
        BY <1>1, <4>1, <4>2, <4>4, LeavingConserves DEF Fresh
      <4> QED BY <4>1, <4>3, <4>4
    <3> QED
      BY <2>6, <3>2, <3>3, <3>4, <3>5, <3>6, <3>7, <3>8, <3>9, <3>10 DEF ChangeVoyages
  <2> QED BY <1>1, <2>1, <2>4, <2>5, <2>6 DEF Next
<1>2. ASSUME Conserved
      PROVE  LET left   == {x \in CraftIn(savedVoyages) \ CraftIn(savedVoyages') :
                              x[1] \in DOMAIN savedVoyages' /\ x[2] \in DOMAIN tabGroups'}
                 joined == CraftIn(savedVoyages') \ CraftIn(savedVoyages)
             IN  /\ Cardinality(left) <= 1
                 /\ \A x \in left, y \in joined : x[2] = y[2]
  <2>1. PICK x : Left \subseteq {x} /\ (x \in Left => \A y \in Joined : x[2] = y[2])
    BY <1>2 DEF Conserved
  <2>2. Left = {} \/ Left = {x}
    BY <2>1
  <2>3. Cardinality(Left) = 0 \/ Cardinality(Left) = 1
    BY <2>2, FS_Singleton, FS_EmptySet
  <2>4. \A z \in Left, y \in Joined : z[2] = y[2]
    BY <2>1
  <2>5. Cardinality(Left) <= 1
    BY <2>3
  <2> QED BY <2>4, <2>5 DEF Left, Joined
<1>3. Voyages /\ [Next]_vars =>
        [LET left   == {x \in CraftIn(savedVoyages) \ CraftIn(savedVoyages') :
                          x[1] \in DOMAIN savedVoyages' /\ x[2] \in DOMAIN tabGroups'}
             joined == CraftIn(savedVoyages') \ CraftIn(savedVoyages)
         IN  /\ Cardinality(left) <= 1
             /\ \A x \in left, y \in joined : x[2] = y[2]]_vars
  BY <1>1, <1>2
<1>4. Spec => []Voyages
  BY Whole, PTL
<1>5. QED
  BY <1>3, <1>4, PTL DEF Spec, EntriesConserved
=============================================================================
