------------------------------ MODULE Workspace ------------------------------
(***************************************************************************)
(* The workspace module of src/index.tsx: the tree of spaces, craft (tab   *)
(* groups), tabs and pairs, and the saved voyages that refer to it, kept   *)
(* in two persistent states and changed only by the module's actions.      *)
(*                                                                         *)
(* An action runs to its end before the next one starts: none of them      *)
(* awaits.  Ids of spaces, craft, tabs and pairs come from one counter, so *)
(* the order in which tabs, pairs and craft were appended is the order of  *)
(* their ids.  The order of spaces, of the craft of a space and of the     *)
(* entries of a voyage is the user's (the reorder actions): it is left out *)
(* and "the first" of those is any of them.                                *)
(***************************************************************************)
EXTENDS Naturals, FiniteSets

CONSTANTS
    Sessions,    \* ids of saved voyages; a fresh uuid is one not in use
    VKIds,       \* VK workspaces, and the URLs of their pages
    UserUrls,    \* URLs a user gives to tabs
    Agent,       \* BUILT_IN_AGENT_TAB_ID, the agent view of a VK craft
    NoWs,        \* a craft without VK workspace
    NoTab,       \* no tab given
    MaxId        \* bound on the ids handed out

ASSUME WorkspaceAssumption ==
    /\ MaxId \in Nat \ {0}
    /\ Agent \notin Nat
    /\ NoTab # Agent
    /\ NoTab \notin Nat
    /\ NoWs \notin VKIds
    /\ UserUrls \subseteq {"page", "internal", "create"} \cup VKIds

VARIABLES
    spaces,        \* the live spaces, each with its craft
    tabGroups,     \* the live craft
    nextId,        \* the id counter of the workspace
    savedVoyages   \* the live saved voyages

vars == <<spaces, tabGroups, nextId, savedVoyages>>

Home     == 0       \* space_home, the system space
Urls     == {"page", "internal", "create"} \cup VKIds
EntryIds == Nat \X Nat

-----------------------------------------------------------------------------
(* Functions with a changing domain.                                       *)

Put(f, k, v)  == [x \in DOMAIN f \cup {k} |-> IF x = k THEN v ELSE f[x]]
Without(f, S) == [x \in DOMAIN f \ S |-> f[x]]
Least(S)      == CHOOSE n \in S : \A m \in S : n <= m

-----------------------------------------------------------------------------
(* Craft.                                                                  *)

Craft(url, pinned, pairs, ws) ==
    [url |-> url, pinned |-> pinned, pairs |-> pairs, ws |-> ws]

NoTabs   == [t \in {} |-> "page"]
MainCraft   == Craft(NoTabs, {}, {}, NoWs)
VKCraft(w)  == Craft(NoTabs, {}, {}, w)
OverviewCraft(t) == Craft([x \in {t} |-> "internal"], {t}, {}, NoWs)
CreateCraft(t)   == Craft([x \in {t} |-> "create"], {}, {}, NoWs)

TabsOf(cr, c) == DOMAIN cr[c].url

\* Closing a tab takes the pairs it is in with it.
WithoutTab(craft, t) ==
    Craft(Without(craft.url, {t}), craft.pinned, {p \in craft.pairs : t \notin p.of}, craft.ws)

\* A tab is added, or its URL changed.
WithTab(craft, t, u) == Craft(Put(craft.url, t, u), craft.pinned, craft.pairs, craft.ws)

WithPairs(craft, pairs) == Craft(craft.url, craft.pinned, pairs, craft.ws)

\* The first space that lists the craft.
SpaceOf(sp, c, otherwise) ==
    IF \E s \in DOMAIN sp : c \in sp[s]
    THEN CHOOSE s \in DOMAIN sp : c \in sp[s]
    ELSE otherwise

\* getDefaultViewIdsForTabGroup
DefaultViews(cr, c) ==
    IF TabsOf(cr, c) # {} THEN {Least(TabsOf(cr, c))}
    ELSE IF cr[c].ws # NoWs THEN {Agent}
    ELSE IF cr[c].pairs # {}
         THEN (CHOOSE p \in cr[c].pairs : \A q \in cr[c].pairs : p.id <= q.id).of
         ELSE {}

\* Faulty SelectedViews: a missing tabId is not told from a given one.
SelectedViewsOfNothing(cr, c, t) ==
    IF t \in TabsOf(cr, c) \/ cr[c].ws # NoWs THEN {t} ELSE DefaultViews(cr, c)

\* getSelectedViewIdsForTabGroup: a VK craft takes any view id on trust.
SelectedViews(cr, c, t) ==
    IF t # NoTab /\ (t \in TabsOf(cr, c) \/ cr[c].ws # NoWs)
    THEN {t}
    ELSE DefaultViews(cr, c)

\* Faulty NormalizedViews: one dead view resets the entry.
NormalizedViewsAllOrNone(cr, c, views) ==
    IF views # {} /\ (cr[c].ws # NoWs \/ views \subseteq TabsOf(cr, c))
    THEN views
    ELSE DefaultViews(cr, c)

\* normalizeVoyageEntryForWorkspace: what is left of a list of views.
NormalizedViews(cr, c, views) ==
    LET valid == IF cr[c].ws # NoWs THEN views ELSE views \cap TabsOf(cr, c)
    IN  IF valid # {} THEN valid ELSE DefaultViews(cr, c)

-----------------------------------------------------------------------------
(* Voyages.  An entry is a function value from its id to its views; the id *)
(* ve_<craft>, or ve_<craft>_<n>, tells its craft.                         *)

CraftOf(e) == e[1]
CraftsOf(entries) == {CraftOf(e) : e \in DOMAIN entries}
EntriesOfCraft(entries, c) == {e \in DOMAIN entries : CraftOf(e) = c}

Voyage(entries, active, space, visited) ==
    [entries |-> entries, active |-> active, craft |-> CraftOf(active),
     space |-> space, visited |-> visited]

\* The voyage both createSavedSessionFrom... functions build: one entry.
OneEntryVoyage(e, views, s) == Voyage([x \in {e} |-> views], e, s, {CraftOf(e)})

\* createUniqueVoyageEntryId
UniqueEntryId(entries, c) ==
    <<c, Least({n \in 0..Cardinality(DOMAIN entries) : <<c, n>> \notin DOMAIN entries})>>

\* The entries that a craft is put on when it is added to a voyage: the one
\* it has, or the requested one of those, or else a new one.
EntriesToUse(entries, c) ==
    IF EntriesOfCraft(entries, c) # {}
    THEN EntriesOfCraft(entries, c)
    ELSE {UniqueEntryId(entries, c)}

\* A voyage after the entry has been set (or added) and made active.
WithActiveEntry(v, e, views, s) ==
    Voyage(Put(v.entries, e, views), e, s, v.visited \cup {CraftOf(e)})

KeptEntries(v, cr) == {e \in DOMAIN v.entries : CraftOf(e) \in DOMAIN cr}

\* Faulty ActiveChoices: the active entry is kept although it is gone.
StaleActive(v, cr) == IF KeptEntries(v, cr) = {} THEN {} ELSE {v.active}

\* The entry that is active after a repair: the same one if it is still
\* there, otherwise the first that is.
ActiveChoices(v, cr) ==
    IF v.active \in KeptEntries(v, cr) THEN {v.active} ELSE KeptEntries(v, cr)

\* repairSavedSessionForWorkspace, given the active entry.
Repaired(v, active, cr, sp) ==
    Voyage([e \in KeptEntries(v, cr) |-> NormalizedViews(cr, CraftOf(e), v.entries[e])],
           active, SpaceOf(sp, CraftOf(active), v.space),
           {CraftOf(e) : e \in KeptEntries(v, cr)})

\* Faulty SurvivingVoyages: a voyage goes with the craft it was last on.
VoyagesWithActiveCraft(cr) ==
    {s \in DOMAIN savedVoyages : savedVoyages[s].craft \in DOMAIN cr}

\* The voyages a repair keeps: those with an entry left.
SurvivingVoyages(cr) ==
    {s \in DOMAIN savedVoyages : KeptEntries(savedVoyages[s], cr) # {}}

\* repairSavedVoyagesForCurrentWorkspace
RepairSavedVoyages(cr, sp) ==
    \E active \in [SurvivingVoyages(cr) ->
                     UNION {ActiveChoices(savedVoyages[s], cr) : s \in SurvivingVoyages(cr)}] :
      /\ \A s \in SurvivingVoyages(cr) : active[s] \in ActiveChoices(savedVoyages[s], cr)
      /\ savedVoyages' = [s \in SurvivingVoyages(cr) |->
                            Repaired(savedVoyages[s], active[s], cr, sp)]

-----------------------------------------------------------------------------
(* The tree.                                                               *)

\* createDefaultWorkspace, and no saved voyage.
Init ==
    /\ spaces = [s \in {Home} |-> {0}]
    /\ tabGroups = [c \in {0} |-> OverviewCraft(0)]
    /\ nextId = 1
    /\ savedVoyages = [s \in {} |-> OneEntryVoyage(<<0, 0>>, {}, Home)]

\* Ids are left for n more of them (a bound of the model).
Room(n) == nextId + n <= MaxId + 1

\* A craft appended to the workspace and to one of its spaces.
Append(s, c, craft) ==
    /\ spaces' = [spaces EXCEPT ![s] = @ \cup {c}]
    /\ tabGroups' = Put(tabGroups, c, craft)

AddSpace ==
    /\ Room(2)
    /\ spaces' = Put(spaces, nextId, {nextId + 1})
    /\ tabGroups' = Put(tabGroups, nextId + 1, MainCraft)
    /\ nextId' = nextId + 2
    /\ UNCHANGED savedVoyages

\* The system space cannot be deleted; a space goes with all its craft.
DeleteSpace(s) ==
    /\ s # Home
    /\ spaces' = Without(spaces, {s})
    /\ tabGroups' = Without(tabGroups, spaces[s])
    /\ RepairSavedVoyages(tabGroups', spaces')
    /\ UNCHANGED nextId

AddTabGroup(s) ==
    /\ Room(1)
    /\ Append(s, nextId, MainCraft)
    /\ nextId' = nextId + 1
    /\ UNCHANGED savedVoyages

\* Faulty DeleteTabGroup: the last craft of a space is not replaced.
DeleteTabGroupLeavesNone(s, c) ==
    /\ spaces' = [spaces EXCEPT ![s] = @ \ {c}]
    /\ tabGroups' = Without(tabGroups, {c})
    /\ UNCHANGED nextId
    /\ RepairSavedVoyages(tabGroups', spaces')

\* The last craft of a space is replaced by a new one.
DeleteTabGroup(s, c) ==
    /\ \/ /\ spaces[s] # {c}
          /\ spaces' = [spaces EXCEPT ![s] = @ \ {c}]
          /\ tabGroups' = Without(tabGroups, {c})
          /\ UNCHANGED nextId
       \/ /\ spaces[s] = {c} /\ s = Home
          /\ Room(2)
          /\ spaces' = [spaces EXCEPT ![s] = {nextId}]
          /\ tabGroups' = Put(Without(tabGroups, {c}), nextId, OverviewCraft(nextId + 1))
          /\ nextId' = nextId + 2
       \/ /\ spaces[s] = {c} /\ s # Home
          /\ Room(1)
          /\ spaces' = [spaces EXCEPT ![s] = {nextId}]
          /\ tabGroups' = Put(Without(tabGroups, {c}), nextId, MainCraft)
          /\ nextId' = nextId + 1
    /\ RepairSavedVoyages(tabGroups', spaces')

\* The voyages are repaired whether or not the tab could be closed.
CloseTab(c, t) ==
    /\ tabGroups' = [tabGroups EXCEPT ![c] =
                       IF t \in @.pinned THEN @ ELSE WithoutTab(@, t)]
    /\ RepairSavedVoyages(tabGroups', spaces)
    /\ UNCHANGED <<spaces, nextId>>

\* The shell's way to close the tab on screen.
CloseActiveTab(c, t) ==
    /\ t \notin tabGroups[c].pinned
    /\ tabGroups' = [tabGroups EXCEPT ![c] = WithoutTab(@, t)]
    /\ UNCHANGED <<spaces, nextId, savedVoyages>>

AddTab(c, u) ==
    /\ Room(1)
    /\ tabGroups' = [tabGroups EXCEPT ![c] = WithTab(@, nextId, u)]
    /\ nextId' = nextId + 1
    /\ UNCHANGED <<spaces, savedVoyages>>

UpdateTabUrl(c, t, u) ==
    /\ tabGroups' = [tabGroups EXCEPT ![c] = WithTab(@, t, u)]
    /\ UNCHANGED <<spaces, nextId, savedVoyages>>

\* Tabs of the application itself cannot be paired.
CreatePair(c, t1, t2) ==
    /\ Room(1)
    /\ t1 # t2
    /\ \A t \in {t1, t2} : tabGroups[c].url[t] # "internal"
    /\ tabGroups' = [tabGroups EXCEPT ![c] =
                       WithPairs(@, @.pairs \cup {[id |-> nextId, of |-> {t1, t2}]})]
    /\ nextId' = nextId + 1
    /\ UNCHANGED <<spaces, savedVoyages>>

DeletePair(c, p) ==
    /\ tabGroups' = [tabGroups EXCEPT ![c] = WithPairs(@, @.pairs \ {p})]
    /\ RepairSavedVoyages(tabGroups', spaces)
    /\ UNCHANGED <<spaces, nextId>>

\* A Create Workspace tab in the first craft of Home, unless it has one.  (Home
\* always has a craft, so the branch that makes one is never taken.)
EnsureCreateWorkspaceTab ==
    \E c \in spaces[Home] :
      /\ \A t \in TabsOf(tabGroups, c) : tabGroups[c].url[t] # "create"
      /\ AddTab(c, "create")

\* addCreateWorkspaceCraftToWorkspace
AppendCreateCraft ==
    /\ Room(2)
    /\ Append(Home, nextId, CreateCraft(nextId + 1))
    /\ nextId' = nextId + 2

CreateCreateWorkspaceCraft == AppendCreateCraft /\ UNCHANGED savedVoyages

-----------------------------------------------------------------------------
(* Craft of VK workspaces.                                                 *)

\* Tabs of a craft that show the VK workspace.
AgentTabs(c, w) == {t \in TabsOf(tabGroups, c) : tabGroups[c].url[t] = w}

\* The craft findVKWorkspaceSelection accepts, the first of which it takes.
CraftOfVK(w) ==
    {c \in DOMAIN tabGroups : tabGroups[c].ws = w \/ AgentTabs(c, w) # {}}

\* findVKWorkspaceSelection || addVKWorkspaceCraftToWorkspace, with what the
\* two return: the space, the craft and the tab.
FindOrAddVKCraft(s, w) ==
    \/ CraftOfVK(w) # {} /\ UNCHANGED <<spaces, tabGroups, nextId>>
    \/ /\ CraftOfVK(w) = {}
       /\ Room(1)
       /\ Append(s, nextId, VKCraft(w))
       /\ nextId' = nextId + 1

SelectionForVK(s, w) ==
    LET c == Least(CraftOfVK(w))
    IN  IF CraftOfVK(w) = {}
        THEN [space |-> s, craft |-> nextId, tab |-> Agent]
        ELSE [space |-> SpaceOf(spaces, c, s), craft |-> c,
              tab |-> IF AgentTabs(c, w) # {} THEN Least(AgentTabs(c, w)) ELSE Agent]

AddVKWorkspace(s, w) ==
    /\ FindOrAddVKCraft(s, w)
    /\ UNCHANGED savedVoyages

-----------------------------------------------------------------------------
(* Saved voyages.                                                          *)

Fresh(v) == v \notin DOMAIN savedVoyages

\* createSavedSessionFromSelection on the workspace the action has left: no
\* voyage without a view to show.
SaveSelection(v, s, c, t, cr) ==
    /\ SelectedViews(cr, c, t) # {}
    /\ savedVoyages' = Put(savedVoyages, v, OneEntryVoyage(<<c, 0>>, SelectedViews(cr, c, t), s))

\* A Create Workspace craft and a voyage on it.
CreateCreateWorkspaceSavedSession(v) ==
    /\ Fresh(v)
    /\ AppendCreateCraft
    /\ SaveSelection(v, Home, nextId, nextId + 1, tabGroups')

CreateSavedSessionForVKWorkspace(v, s, w) ==
    LET sel == SelectionForVK(s, w)
    IN  /\ Fresh(v)
        /\ FindOrAddVKCraft(s, w)
        /\ SaveSelection(v, sel.space, sel.craft, sel.tab, tabGroups')

CreateSavedSessionForSelection(v, s, c, t) ==
    /\ Fresh(v)
    /\ SaveSelection(v, s, c, t, tabGroups)
    /\ UNCHANGED <<spaces, tabGroups, nextId>>

\* The entry of the craft, new if it has none, gets the views and is active.
SetActiveEntry(v, s, c, views) ==
    \E e \in EntriesToUse(savedVoyages[v].entries, c) :
      savedVoyages' = [savedVoyages EXCEPT ![v] = WithActiveEntry(@, e, views, s)]

\* The craft of a VK workspace, made if need be, becomes the active entry.
OpenVKWorkspaceInSavedSession(v, s, w) ==
    LET sel == SelectionForVK(s, w)
    IN  /\ FindOrAddVKCraft(s, w)
        /\ SelectedViews(tabGroups', sel.craft, sel.tab) # {}
        /\ SetActiveEntry(v, sel.space, sel.craft,
                          SelectedViews(tabGroups', sel.craft, sel.tab))

\* A craft of a space is embarked, or its entry updated: the client sends
\* either a tab or a list of views.
AddSelectionToSavedSession(v, s, c, views) ==
    /\ views # {}
    /\ SetActiveEntry(v, s, c, views)
    /\ UNCHANGED <<spaces, tabGroups, nextId>>

ActivateSavedVoyageEntry(v, e) ==
    /\ savedVoyages' = [savedVoyages EXCEPT ![v] =
         Voyage(@.entries, e, SpaceOf(spaces, CraftOf(e), @.space), @.visited)]
    /\ UNCHANGED <<spaces, tabGroups, nextId>>

\* What a voyage of two entries or more can be once one has left it and it
\* has been repaired.
VoyagesWithout(v, e) ==
    LET old  == savedVoyages[v]
        rest == Voyage(Without(old.entries, {e}), old.active, old.space, old.visited)
    IN  {Repaired(rest, active, tabGroups, spaces) : active \in ActiveChoices(rest, tabGroups)}

\* The last entry of a voyage cannot be removed.
RemoveVoyageEntryFromSavedSession(v, e) ==
    /\ \E rest \in VoyagesWithout(v, e) :
         savedVoyages' = [savedVoyages EXCEPT ![v] = rest]
    /\ UNCHANGED <<spaces, tabGroups, nextId>>

DeleteSavedSession(v) ==
    /\ savedVoyages' = Without(savedVoyages, {v})
    /\ UNCHANGED <<spaces, tabGroups, nextId>>

\* An entry becomes a voyage of its own, with the views the client sends; it
\* leaves the source voyage, if there is one, which must keep another entry.
CreateSavedSessionFromVoyageEntry(v, e, views) ==
    /\ Fresh(v)
    /\ CraftOf(e) \in DOMAIN tabGroups
    /\ NormalizedViews(tabGroups, CraftOf(e), views) # {}
    /\ LET new == OneEntryVoyage(e, NormalizedViews(tabGroups, CraftOf(e), views),
                                 SpaceOf(spaces, CraftOf(e), Home))
       IN  \/ savedVoyages' = Put(savedVoyages, v, new)
           \/ \E source \in DOMAIN savedVoyages :
                /\ e \in DOMAIN savedVoyages[source].entries
                /\ \E rest \in VoyagesWithout(source, e) :
                     savedVoyages' = Put([savedVoyages EXCEPT ![source] = rest], v, new)
    /\ UNCHANGED <<spaces, tabGroups, nextId>>

\* Faulty MoveVoyageEntry...: the target gets the source's active entry.
MoveActiveEntry(v, target, e) ==
    /\ v # target
    /\ EntriesOfCraft(savedVoyages[target].entries, savedVoyages[v].craft) = {}
    /\ \E rest \in VoyagesWithout(v, e) :
         LET from == savedVoyages[v] IN
         savedVoyages' = [savedVoyages EXCEPT
           ![v] = rest,
           ![target] = WithActiveEntry(@, from.active, from.entries[from.active], from.space)]
    /\ UNCHANGED <<spaces, tabGroups, nextId>>

\* Not if the source would be empty or the target has the craft already.  Its
\* id is free in the target: ids of entries there tell other craft.
MoveVoyageEntryBetweenSavedSessions(v, target, e) ==
    /\ v # target
    /\ EntriesOfCraft(savedVoyages[target].entries, CraftOf(e)) = {}
    /\ \E rest \in VoyagesWithout(v, e) :
         savedVoyages' = [savedVoyages EXCEPT
           ![v] = rest,
           ![target] = WithActiveEntry(@, e, savedVoyages[v].entries[e],
                                       SpaceOf(spaces, CraftOf(e), @.space))]
    /\ UNCHANGED <<spaces, tabGroups, nextId>>

-----------------------------------------------------------------------------
(* A start of the dashboard on the state it has saved: the voyages are     *)
(* repaired, then migrateWorkspaceBuiltInTabs drops the tabs it takes for  *)
(* generated ones, which are those under /workspaces/.                     *)

WithoutGeneratedTabs(craft) ==
    LET kept == {t \in DOMAIN craft.url : craft.url[t] \notin {"create"} \cup VKIds}
    IN  Craft([t \in kept |-> craft.url[t]], craft.pinned,
              {p \in craft.pairs : p.of \subseteq kept}, craft.ws)

Boot ==
    /\ RepairSavedVoyages(tabGroups, spaces)
    /\ tabGroups' = [c \in DOMAIN tabGroups |-> WithoutGeneratedTabs(tabGroups[c])]
    /\ UNCHANGED <<spaces, nextId>>

-----------------------------------------------------------------------------
(* The calls clients make.                                                 *)

ChangeSpaces ==
    \/ AddSpace
    \/ \E s \in DOMAIN spaces : DeleteSpace(s) \/ AddTabGroup(s)
    \/ \E s \in DOMAIN spaces : \E c \in spaces[s] : DeleteTabGroup(s, c)
    \/ EnsureCreateWorkspaceTab
    \/ CreateCreateWorkspaceCraft
    \/ \E s \in DOMAIN spaces, w \in VKIds : AddVKWorkspace(s, w)

ChangeCraft ==
    \E c \in DOMAIN tabGroups :
      \/ \E t \in TabsOf(tabGroups, c) : CloseActiveTab(c, t) \/ CloseTab(c, t)
      \/ \E u \in UserUrls : AddTab(c, u)
      \/ \E t \in TabsOf(tabGroups, c), u \in UserUrls : UpdateTabUrl(c, t, u)
      \/ \E t1, t2 \in TabsOf(tabGroups, c) : CreatePair(c, t1, t2)
      \/ \E p \in tabGroups[c].pairs : DeletePair(c, p)

\* What a client may select in a craft: nothing, a view, the tabs of a pair.
Selections(c) ==
    {{}} \cup {{t} : t \in TabsOf(tabGroups, c) \cup {Agent}} \cup {p.of : p \in tabGroups[c].pairs}

\* The views an embarked selection comes to, by either of its two ways.
ViewsToSelect(c) ==
    {SelectedViews(tabGroups, c, t) : t \in TabsOf(tabGroups, c) \cup {Agent, NoTab}}
    \cup {NormalizedViews(tabGroups, c, views) : views \in Selections(c) \ {{}}}

ChangeVoyages ==
    \/ \E v \in Sessions : CreateCreateWorkspaceSavedSession(v)
    \/ \E v \in Sessions, s \in DOMAIN spaces, w \in VKIds : CreateSavedSessionForVKWorkspace(v, s, w)
    \/ \E v \in Sessions, s \in DOMAIN spaces : \E c \in spaces[s] :
         \E t \in TabsOf(tabGroups, c) \cup {Agent, NoTab} : CreateSavedSessionForSelection(v, s, c, t)
    \/ \E v \in Sessions, from \in DOMAIN savedVoyages : \E e \in DOMAIN savedVoyages[from].entries :
         \E views \in Selections(CraftOf(e)) \cup {savedVoyages[from].entries[e]} :
           CreateSavedSessionFromVoyageEntry(v, e, views)
    \/ \E v \in DOMAIN savedVoyages, s \in DOMAIN spaces, w \in VKIds : OpenVKWorkspaceInSavedSession(v, s, w)
    \/ \E v \in DOMAIN savedVoyages, s \in DOMAIN spaces : \E c \in spaces[s] :
         \E views \in ViewsToSelect(c) : AddSelectionToSavedSession(v, s, c, views)
    \/ \E v \in DOMAIN savedVoyages : DeleteSavedSession(v)
    \/ \E v \in DOMAIN savedVoyages : \E e \in DOMAIN savedVoyages[v].entries :
         \/ ActivateSavedVoyageEntry(v, e)
         \/ RemoveVoyageEntryFromSavedSession(v, e)
         \/ \E target \in DOMAIN savedVoyages : MoveVoyageEntryBetweenSavedSessions(v, target, e)

Next == Boot \/ ChangeSpaces \/ ChangeCraft \/ ChangeVoyages

Spec == Init /\ [][Next]_vars

-----------------------------------------------------------------------------
(* What must hold of the two states.                                       *)

TypeOK ==
    /\ nextId \in 1..(MaxId + 1)
    /\ DOMAIN spaces \subseteq 0..MaxId
    /\ \A s \in DOMAIN spaces : spaces[s] \subseteq 0..MaxId
    /\ DOMAIN tabGroups \subseteq 0..MaxId
    /\ \A c \in DOMAIN tabGroups :
         /\ DOMAIN tabGroups[c].url \subseteq 0..MaxId
         /\ \A t \in DOMAIN tabGroups[c].url : tabGroups[c].url[t] \in Urls
         /\ tabGroups[c].ws \in VKIds \cup {NoWs}
         /\ \A p \in tabGroups[c].pairs : p.id \in Nat
    /\ DOMAIN savedVoyages \subseteq Sessions
    /\ \A v \in DOMAIN savedVoyages :
         LET voyage == savedVoyages[v] IN
         /\ \A e \in DOMAIN voyage.entries :
              /\ e \in EntryIds
              /\ \A view \in voyage.entries[e] : view \in Nat \/ view = Agent
         /\ voyage.active \in EntryIds
         /\ voyage.craft \in Nat
         /\ voyage.space \in Nat
         /\ \A c \in voyage.visited : c \in Nat

\* However it is asked for (opened, added, made for a voyage), a VK workspace
\* has one craft.
OneCraftPerVKWorkspace ==
    \A c, b \in DOMAIN tabGroups :
        tabGroups[c].ws # NoWs /\ tabGroups[c].ws = tabGroups[b].ws => c = b

\* The workspace is a tree: a craft is in exactly one space and a space lists
\* only craft that exist and at least one of them; Home is never lost; a pair
\* shows tabs of its craft; no tab belongs to two craft, and no VK workspace
\* has two; and what the counter hands out next names nothing yet
\* (deleteSpace, deleteTabGroup, closeTab, addVKWorkspace).
TreeInv ==
    /\ Home \in DOMAIN spaces
    /\ \A s \in DOMAIN spaces : spaces[s] # {} /\ spaces[s] \subseteq DOMAIN tabGroups
    /\ \A c \in DOMAIN tabGroups : \E s \in DOMAIN spaces : c \in spaces[s]
    /\ \A s, r \in DOMAIN spaces : s # r => spaces[s] \cap spaces[r] = {}
    /\ \A c \in DOMAIN tabGroups : \A p \in tabGroups[c].pairs :
         p.of \subseteq TabsOf(tabGroups, c) /\ p.of # {}
    /\ \A c, b \in DOMAIN tabGroups : c # b => TabsOf(tabGroups, c) \cap TabsOf(tabGroups, b) = {}
    /\ \A s \in DOMAIN spaces : s < nextId
    /\ \A c \in DOMAIN tabGroups :
         /\ c < nextId
         /\ \A t \in TabsOf(tabGroups, c) : t < nextId
         /\ \A p \in tabGroups[c].pairs : p.id < nextId
    /\ OneCraftPerVKWorkspace

\* A saved voyage can always be resumed: it has entries, one of them active,
\* all on craft that exist, and what it repeats of them (the active craft,
\* its space, the craft visited) agrees with them.
Resumable(voyage, cr, sp) ==
    /\ voyage.active \in DOMAIN voyage.entries
    /\ CraftsOf(voyage.entries) \subseteq DOMAIN cr
    /\ voyage.craft = CraftOf(voyage.active)
    /\ voyage.space \in DOMAIN sp
    /\ voyage.craft \in sp[voyage.space]
    /\ voyage.visited = CraftsOf(voyage.entries)

VoyageInv == \A v \in DOMAIN savedVoyages : Resumable(savedVoyages[v], tabGroups, spaces)

\* A voyage never holds a craft twice: adding it again, opening its VK
\* workspace and moving an entry onto it all find the entry it has.
NoCraftTwice(entries) == \A d, e \in DOMAIN entries : CraftOf(d) = CraftOf(e) => d = e

OneEntryPerCraft == \A v \in DOMAIN savedVoyages : NoCraftTwice(savedVoyages[v].entries)

CraftIn(voyages) ==
    UNION {{<<v, c>> : c \in CraftsOf(voyages[v].entries)} : v \in DOMAIN voyages}

\* No step takes two craft that still exist out of voyages that still exist,
\* and if one leaves a voyage while another voyage gains a craft, it is that
\* craft: a move neither loses an entry nor swaps it for another.
EntriesConserved ==
    [][LET left   == {x \in CraftIn(savedVoyages) \ CraftIn(savedVoyages') :
                        x[1] \in DOMAIN savedVoyages' /\ x[2] \in DOMAIN tabGroups'}
           joined == CraftIn(savedVoyages') \ CraftIn(savedVoyages)
       IN  /\ Cardinality(left) <= 1
           /\ \A x \in left, y \in joined : x[2] = y[2]]_vars

\* A voyage disappears when it is deleted, alone and by itself, or because
\* every craft in it is gone; never because its active craft is.
VoyagesKept ==
    [][\A v \in DOMAIN savedVoyages \ DOMAIN savedVoyages' :
          \/ CraftsOf(savedVoyages[v].entries) \cap DOMAIN tabGroups' = {}
          \/ /\ UNCHANGED <<spaces, tabGroups>>
             /\ savedVoyages' = Without(savedVoyages, {v})]_vars

\* The views of an entry are tabs of its craft (a VK craft has others too).
EntryViewsExist ==
    \A v \in DOMAIN savedVoyages : \A e \in DOMAIN savedVoyages[v].entries :
      tabGroups[CraftOf(e)].ws = NoWs =>
        savedVoyages[v].entries[e] \subseteq TabsOf(tabGroups, CraftOf(e))

\* The views of an entry change only because the client selects others or
\* because some of them are gone: a repair leaves of a split what still exists
\* and falls back to the first tab when nothing of it does.
ViewsFollowTabs ==
    [][\A v \in DOMAIN savedVoyages \cap DOMAIN savedVoyages' :
         \A e \in DOMAIN savedVoyages[v].entries \cap DOMAIN savedVoyages'[v].entries :
           LET c    == CraftOf(e)
               old  == savedVoyages[v].entries[e]
               new  == savedVoyages'[v].entries[e]
               left == old \cap TabsOf(tabGroups', c)
           IN  new # old =>
                 \/ UNCHANGED tabGroups /\ savedVoyages'[v].active = e
                 \/ tabGroups[c].ws = NoWs /\ left # old /\ left # {} /\ new = left
                 \/ tabGroups[c].ws = NoWs /\ left = {}]_vars

\* docs/voyage-navigation-model.md: the views of an entry are there for the
\* restoration of the voyage, so a start of the dashboard keeps them valid.
StartKeepsViews == [][Boot /\ EntryViewsExist => EntryViewsExist']_vars
=============================================================================
