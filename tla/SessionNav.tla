----------------------------- MODULE SessionNav -----------------------------
(***************************************************************************)
(* The navigation state of one browser tab: the hook useSessionWorkspaceNav *)
(* of src/sessionState.ts, fed by the query parameters that the main route *)
(* (MainUIShellModule.tsx) resolves against the saved voyage.              *)
(*                                                                         *)
(* A tab renders, and the effects of the render run together before the    *)
(* next event is handled: Flush is one round of them.  A call of the hook, *)
(* a new URL, a new workspace and a new saved voyage are the events.  The  *)
(* workspace and the voyages are two shared states: each is seen to change *)
(* without the other, a craft before the voyages it is put in, and its end *)
(* before theirs.  A craft that comes back stands for another one.         *)
(*                                                                         *)
(* Craft are numbered; a space lists its craft in the order of their       *)
(* numbers.  A craft has the tab "a", and may have the tab "b" and the     *)
(* pair "ab": what an entry shows (viewIds) is one of those three, and the *)
(* item that stands for it has the same name.                              *)
(***************************************************************************)
EXTENDS Naturals, Sequences, SequencesExt, FiniteSets, FiniteSetsExt, Places

CONSTANTS
    Crafts,      \* numbers of the craft
    SpaceOf,     \* the space that lists a craft
    Workspaces,  \* the workspaces the server may broadcast
    Voyages,     \* the saved voyages it may broadcast
    Urls,        \* the entries, with their views, that URLs may name
    NoVoyage,    \* no saved voyage for the URL
    NoRoute,     \* no entry resolved from the URL
    NoSelection, \* no selection is pending
    MaxEntries,  \* bound on the entries of the navigation
    MaxCopies    \* bound on the entries of one craft

NoCraft == 0
NoSpace == "no space"
NoView  == "no view"
NoEntry == <<NoCraft, 0>>
Views   == {"a", "b", "ab"}

VARIABLES
    workspace,  \* the workspace the tab has been sent: craft, and their items
    saved,      \* the saved voyage of its URL, as it has been sent
    url,        \* the entry and the view that the URL names
    nav,        \* SessionWorkspaceNav
    pending,    \* pendingSelectionRef
    last,       \* the voyage and the route that the effects have seen
    round,      \* the round of effects that is due since the last event, or 0
    called      \* whether the hook's own functions have changed nav

vars == <<workspace, saved, url, nav, pending, last, round, called>>

-----------------------------------------------------------------------------
(* Craft and what they show.                                               *)

Live(w)          == DOMAIN w
SpacesOf(w)      == {SpaceOf[c] : c \in Live(w)}
CraftIn(w, s)    == {c \in Live(w) : SpaceOf[c] = s}
InSpace(w, s, c) == c \in CraftIn(w, s)
FirstCraft(w, s) == IF CraftIn(w, s) = {} THEN NoCraft ELSE Min(CraftIn(w, s))

\* getSpaceIdForTabGroup
HomeOf(w, c, otherwise) == IF c \in Live(w) THEN SpaceOf[c] ELSE otherwise

DefaultView(w, c) == IF c \in Live(w) THEN "a" ELSE NoView

\* normalizeViewIdsForTabGroup: of a split, the tabs that are left.
NormalView(w, c, v) ==
    IF c \in Live(w) /\ v \in {"b", "ab"} /\ "b" \in w[c] THEN v ELSE DefaultView(w, c)

\* getActiveItemIdForViewIds: the first tab if no pair has these views.
ItemFor(w, c, v) ==
    IF c \in Live(w) /\ v \in w[c] THEN v ELSE DefaultView(w, c)

\* getActiveViewIdsForItem
ViewForItem(w, c, i) == ItemFor(w, c, i)

-----------------------------------------------------------------------------
(* Entries.  An id is ve_<craft>, or ve_<craft>_<n>.                       *)

Entry(id, c, v) == [id |-> id, craft |-> c, view |-> v]
Ids(es)         == {es[i].id : i \in DOMAIN es}
CraftsOf(es)    == {es[i].craft : i \in DOMAIN es}

NoneOfThem == Entry(NoEntry, NoCraft, NoView)

\* The first of the entries at the places I.
FirstAt(es, I)  == IF I = {} THEN NoneOfThem ELSE es[Min(I)]

EntryWithId(es, id) == FirstAt(es, {i \in DOMAIN es : es[i].id = id})
EntryOf(es, c)      == FirstAt(es, {i \in DOMAIN es : es[i].craft = c})

\* ensureUniqueVoyageEntryId, of createVoyageEntryId
FreeId(ids, c) == <<c, Min({n \in 0..Cardinality(ids) : <<c, n>> \notin ids})>>

\* createVoyageEntryForTabGroup
NewEntry(w, es, c, v) == Entry(FreeId(Ids(es), c), c, NormalView(w, c, v))

\* Faulty ActiveOf: the active entry is kept whether or not it is there.
ActiveKept(es, active, fallback) == active

\* The entry that is active: the one asked for, or else one of the fallback
\* craft, or else the first.
ActiveOf(es, active, fallback) ==
    IF active \in Ids(es) THEN active
    ELSE IF fallback \in CraftsOf(es) THEN EntryOf(es, fallback).id
    ELSE IF es # <<>> THEN es[1].id ELSE NoEntry

\* getValidVoyageEntries: the entries of live craft, or one of the fallback.
ValidEntries(w, es, fallback, item) ==
    LET kept == AllAt(es, {i \in DOMAIN es : es[i].craft \in Live(w)})
    IN  IF kept = <<>> /\ fallback # NoCraft
        THEN <<NewEntry(w, <<>>, fallback, ViewForItem(w, fallback, item))>>
        ELSE [i \in DOMAIN kept |->
                Entry(kept[i].id, kept[i].craft,
                      NormalView(w, kept[i].craft, kept[i].view))]

\* Workspaces and voyages as the server saves them: there is a craft in every
\* workspace, and in every voyage entries of craft, with ids of their own, of
\* which one is the active one, whose craft and space the voyage names.
EntryIds == Crafts \X Nat
Entries  == {e \in [id : EntryIds, craft : Crafts, view : Views \cup {NoView}] :
                e.id[1] = e.craft}

ASSUME NavAssumption ==
    /\ Crafts \subseteq Nat \ {NoCraft}
    /\ \A c \in Crafts : SpaceOf[c] # NoSpace
    /\ \A w \in Workspaces :
         /\ Live(w) # {} /\ Live(w) \subseteq Crafts
         /\ \A c \in Live(w) : w[c] \subseteq Views
    /\ \A s \in Voyages :
         /\ s.entries \in Seq(Entries) /\ s.entries # <<>>
         /\ \A i \in DOMAIN s.entries : s.entries[i].view \in Views
         /\ Cardinality(Ids(s.entries)) = Len(s.entries)
         /\ s.active \in Ids(s.entries)
         /\ s.craft = EntryWithId(s.entries, s.active).craft
         /\ s.space = SpaceOf[s.craft]
    /\ NoVoyage \notin Voyages
    /\ \A u \in Urls : u.view \in Views \cup {NoView}
    /\ NoRoute \notin Urls
    /\ MaxEntries \in Nat
    /\ MaxCopies \in Nat

-----------------------------------------------------------------------------
(* The navigation state.                                                   *)

\* The active entry, or else the first.
ShownOf(es, active) ==
    IF active \in Ids(es) THEN EntryWithId(es, active)
    ELSE IF es # <<>> THEN es[1] ELSE NoneOfThem

\* buildLegacyStateFromVoyageEntries: what an entry shows, and a craft: what
\* its active entry does, or else its last one.
ItemOf(w, e) == ItemFor(w, e.craft, e.view)

BuildShown(w, es, active, shown) ==
    [entries |-> es,
     active  |-> active,
     craft   |-> shown.craft,
     space   |-> HomeOf(w, shown.craft, NoSpace),
     byEntry |-> [id \in Ids(es) |-> ItemOf(w, EntryWithId(es, id))],
     items   |-> [c \in Live(w) \cup CraftsOf(es) |->
                    IF c = shown.craft THEN ItemOf(w, shown)
                    ELSE IF c \in CraftsOf(es)
                    THEN ItemOf(w, es[Max({i \in DOMAIN es : es[i].craft = c})])
                    ELSE DefaultView(w, c)]]

\* buildSessionNavFromVoyageEntries: the rest follows from the entries.
Build(w, es, active) ==
    BuildShown(w, es, active, ShownOf(es, active))

\* f, and g where g says otherwise.
Over(f, g) == [x \in DOMAIN f \cup DOMAIN g |-> IF x \in DOMAIN g THEN g[x] ELSE f[x]]

\* createDefaultSessionNav: the first craft of the home space.
DefaultNav(w) == Build(w, <<NewEntry(w, <<>>, Min(Live(w)), "a")>>, <<Min(Live(w)), 0>>)

\* resolveQueryCraftSelection: what the URL names, if the voyage and the
\* workspace have it.  Views that are gone are dropped; if none is left, or
\* none is named, they are those of the entry.
RouteView(w, e, v) ==
    IF v \in {"b", "ab"} /\ "b" \notin w[e.craft]
    THEN (IF v = "ab" THEN "a" ELSE e.view)
    ELSE IF v = NoView THEN e.view ELSE v

RouteTo(w, e, v) ==
    [space |-> SpaceOf[e.craft], craft |-> e.craft, entry |-> e.id, view |-> v,
     item |-> IF v = "ab" /\ v \notin w[e.craft] THEN "a" ELSE v]

RouteEntry(w, e, u) ==
    IF e.craft \notin Live(w) THEN NoRoute
    ELSE RouteTo(w, e, RouteView(w, e, u.view))

Route(w, s, u) ==
    IF s = NoVoyage \/ u = NoRoute THEN NoRoute
    ELSE RouteEntry(w, EntryWithId(s.entries, u.entry), u)

\* The entry that the URL names, if the voyage has it, is the active one.
LoadedActive(es, routed, route, active) ==
    IF route # NoRoute /\ route.entry \in Ids(es) THEN route.entry
    ELSE IF routed THEN EntryOf(es, route.craft).id ELSE active

\* The space: the URL's, or the voyage's.
LoadedSpace(w, route, s) ==
    IF route # NoRoute THEN route.space
    ELSE IF s # NoVoyage /\ s.space \in SpacesOf(w) THEN s.space ELSE NoSpace

\* The entries with one for the craft of the URL, and with its views.
WithCraft(w, es, route, routed) ==
    IF routed /\ route.craft \notin CraftsOf(es)
    THEN Append(es, NewEntry(w, es, route.craft, route.view)) ELSE es

WithViews(w, es, route, active) ==
    IF route = NoRoute THEN es
    ELSE [i \in DOMAIN es |->
            IF es[i].id = active
            THEN Entry(active, es[i].craft, NormalView(w, es[i].craft, route.view))
            ELSE es[i]]

\* The items of the voyage are kept beside those of the entries.
Loaded(next, items, ofSaved, routed, shown, item) ==
    [next EXCEPT
        !.byEntry = Over(Over(@, ofSaved),
                         IF routed THEN [id \in {shown.id} |-> item] ELSE << >>),
        !.items = Over(Over(@, items),
                       IF routed THEN [c \in {shown.craft} |-> item] ELSE << >>)]

LoadShown(w, route, old, items, es, shown) ==
    Loaded(Build(w, es, shown.id), items,
           [id \in Ids(old) |-> EntryWithId(old, id).view],
           route # NoRoute, shown, ItemOf(w, shown))

LoadActive(w, route, old, items, es, active) ==
    LoadShown(w, route, old, items, WithViews(w, es, route, active),
              EntryWithId(WithViews(w, es, route, active), active))

LoadEntries(w, route, s, items, routed, craft, valid) ==
    LoadActive(w, route, IF s = NoVoyage THEN <<>> ELSE s.entries, items,
               WithCraft(w, valid, route, routed),
               LoadedActive(WithCraft(w, valid, route, routed), routed, route,
                            ActiveOf(valid, IF s = NoVoyage THEN NoEntry ELSE s.active,
                                     craft)))

LoadCraft(w, route, s, space, routed, craft, old, items) ==
    IF space = NoSpace \/ craft = NoCraft THEN DefaultNav(w)
    ELSE [LoadEntries(w, route, s, items, routed, craft,
                      ValidEntries(w, old, craft, items[craft]))
             EXCEPT !.space = IF route # NoRoute THEN @ ELSE space,
                    !.craft = IF route # NoRoute THEN @ ELSE craft]

LoadIn(w, route, s, space, routed, old) ==
    LoadCraft(w, route, s, space, routed,
              IF routed THEN route.craft
              ELSE IF s # NoVoyage /\ InSpace(w, space, s.craft) THEN s.craft
              ELSE FirstCraft(w, space),
              old,
              Over([c \in Live(w) |-> DefaultView(w, c)],
                   [c \in CraftsOf(old) |-> EntryOf(Reverse(old), c).view]))

\* loadSessionNav: the URL first, then the saved voyage, then the defaults.
Load(w, route, s) ==
    LoadIn(w, route, s, LoadedSpace(w, route, s),
           route # NoRoute /\ InSpace(w, LoadedSpace(w, route, s), route.craft),
           IF s = NoVoyage THEN <<>> ELSE s.entries)

\* The entry of a craft: the active one, or else the first.
EntryFor(n, c) ==
    IF EntryWithId(n.entries, n.active).craft = c
    THEN EntryWithId(n.entries, n.active) ELSE EntryOf(n.entries, c)

WithNew(es, new) == [entries |-> Append(es, new), active |-> new.id]

WithEntry(w, es, e, v) ==
    [entries |-> IF v = NoView THEN es
                 ELSE [i \in DOMAIN es |->
                         IF es[i].id = e.id
                         THEN Entry(e.id, e.craft, NormalView(w, e.craft, v))
                         ELSE es[i]],
     active |-> e.id]

\* ensureVoyageEntryForTabGroup: the entries, with one for the craft (whose
\* view is set if one is given), and the id of that one.
Ensured(w, n, c, v, again) ==
    IF EntryFor(n, c).id = NoEntry \/ again
    THEN WithNew(n.entries, NewEntry(w, n.entries, c, v))
    ELSE WithEntry(w, n.entries, EntryFor(n, c), v)

Rebuilt(w, next) == Build(w, next.entries, next.active)

Select(w, n, c, v) == Rebuilt(w, Ensured(w, n, c, v, FALSE))

-----------------------------------------------------------------------------
(* The effects.                                                            *)

CurrentRoute == Route(workspace, saved, url)

Selection(s, c, item) == [space |-> s, craft |-> c, item |-> item]

ItemIn(n, c) == IF c \in DOMAIN n.items THEN n.items[c] ELSE NoView

\* nav still shows the selection that is pending.
Holding(n, p) ==
    /\ p # NoSelection
    /\ n.space = p.space
    /\ n.craft = p.craft
    /\ p.item # NoView => ItemIn(n, p.craft) = p.item

RouteShows(route, p) ==
    /\ route # NoRoute
    /\ route.space = p.space
    /\ route.craft = p.craft
    /\ p.item # NoView => route.item = p.item

\* The second effect: a pending selection ends when nav has moved on, or when
\* the URL has arrived at it.
StillPending(w, n, p, route) ==
    IF /\ Holding(n, p)
       /\ ~(RouteShows(route, p) /\ InSpace(w, p.space, p.craft))
    THEN p ELSE NoSelection

\* Faulty Synced: the entry of the URL's craft that comes to hand is taken
\* for the one the URL names.
SyncedCraft(w, n, p, route) ==
    IF route = NoRoute \/ (Holding(n, p) /\ ~RouteShows(route, p)) THEN n
    ELSE Select(w, n, route.craft, route.view)

AtCraft(w, n, route) ==
    IF n.craft = route.craft /\ n.space = route.space THEN n
    ELSE Select(w, n, route.craft, NoView)

AtEntry(w, n, route) ==
    IF route.entry \in Ids(n.entries) THEN Build(w, n.entries, route.entry) ELSE n

AtViews(w, n, route) ==
    Build(w, Ensured(w, n, route.craft, route.view, FALSE).entries, route.entry)

\* The third effect, for a route that has changed: nav moves to the craft of
\* the URL, then to its entry, then to its views, unless a selection of the
\* user is pending that the URL does not show yet.
Synced(w, n, p, route) ==
    IF route = NoRoute \/ (Holding(n, p) /\ ~RouteShows(route, p)) THEN n
    ELSE AtViews(w, AtEntry(w, AtCraft(w, n, route), route), route)

\* The fourth effect: entries of craft that are gone are dropped.
NormalizedTo(w, n, es, active) ==
    IF es = n.entries /\ active = n.active THEN n ELSE Build(w, es, active)

NormalizedBy(w, n, es) == NormalizedTo(w, n, es, ActiveOf(es, n.active, n.craft))

Normalized(w, n) ==
    NormalizedBy(w, n, ValidEntries(w, n.entries, n.craft, ItemIn(n, n.craft)))

\* The fifth effect starts again when the space or the craft is gone, but
\* waits for a craft that has just been selected.
MustReload(w, n, p) ==
    \/ n.space \notin SpacesOf(w)
    \/ n.craft \notin Live(w) /\ ~Holding(n, p)

\* Faulty HasNewCraft: a craft is new as long as the voyage does not have it.
NotInVoyage(w, n) == n.craft \in Live(w) /\ ~(Live(w) \subseteq CraftsOf(n.entries))

\* There is a craft that nav has no item for.
HasNewCraft(w, n) == n.craft \in Live(w) /\ ~(Live(w) \subseteq DOMAIN n.items)

SyncedIfNew(n, still, route) ==
    IF route # last.route THEN Synced(workspace, n, still, route) ELSE n

\* Where the effects take nav, one after the other.
Effects(still, route) ==
    Normalized(workspace,
               SyncedIfNew(IF saved # last.saved THEN Load(workspace, route, saved) ELSE nav,
                           still, route))

FlushTo(n, still, route) ==
    /\ nav' = IF MustReload(workspace, nav, still) THEN Load(workspace, route, saved)
              ELSE IF HasNewCraft(workspace, nav) THEN Build(workspace, n.entries, n.active)
              ELSE n
    /\ pending' = still
    /\ last' = [saved |-> saved, route |-> route]
    /\ round' = IF \/ MustReload(workspace, nav, still) \/ HasNewCraft(workspace, nav)
                   \/ saved # last.saved \/ nav' # nav
                THEN round + 1 ELSE 0

FlushOn(route) ==
    \E still \in {StillPending(workspace, nav, pending, route)} :
        \E n \in {Effects(still, route)} : FlushTo(n, still, route)

\* One round of effects.  They see the nav of the render, and queue what they
\* set.
Flush ==
    /\ round > 0
    /\ \E route \in {CurrentRoute} : FlushOn(route)
    /\ UNCHANGED <<workspace, saved, url, called>>

-----------------------------------------------------------------------------
(* What reaches the tab.                                                   *)

Render == round' = 1 /\ UNCHANGED <<nav, pending, last, called>>

\* No voyage names a craft that is gone, or is still to come.
AllThere(w, s) == CraftsOf(s.entries) \subseteq Live(w)

\* What a voyage still names and is gone does not come back, craft or tab.
NothingBack(w, s) ==
    \A e \in Range(s.entries) :
        e.craft \in Live(w) =>
            /\ e.craft \in Live(workspace)
            /\ e.view \in {"b", "ab"} /\ "b" \in w[e.craft] => "b" \in workspace[e.craft]

WorkspaceChanges(w) ==
    /\ round = 0 /\ w # workspace
    /\ saved # NoVoyage => NothingBack(w, saved)
    /\ workspace' = w
    /\ UNCHANGED <<saved, url>>
    /\ Render

SavedChanges(s) ==
    /\ round = 0 /\ s # saved
    /\ s # NoVoyage => AllThere(workspace, s)
    /\ saved' = s
    /\ UNCHANGED <<workspace, url>>
    /\ Render

GoTo(u) ==
    /\ round = 0 /\ u # url
    /\ url' = u
    /\ UNCHANGED <<workspace, saved>>
    /\ Render

-----------------------------------------------------------------------------
(* The functions of the hook.                                              *)

Call(next, p) ==
    /\ round = 0
    /\ nav' \in {next}
    /\ Len(nav'.entries) <= MaxEntries
    /\ \A i \in DOMAIN nav'.entries : nav'.entries[i].id[2] < MaxCopies
    /\ pending' = p
    /\ round' = 1
    /\ called' = TRUE
    /\ UNCHANGED <<workspace, saved, url, last>>

SelectSessionTabGroup(c) ==
    /\ c \in Live(workspace)
    /\ Call(Select(workspace, nav, c, NoView), Selection(SpaceOf[c], c, NoView))

SelectSpace(s) == SelectSessionTabGroup(FirstCraft(workspace, s))

\* selectSessionTab, selectSessionPair, selectTab and selectPair.
SelectItem(c, item) ==
    /\ c \in Live(workspace)
    /\ item \in workspace[c]
    /\ Call(Select(workspace, nav, c, item), Selection(SpaceOf[c], c, item))

\* Also for a craft that the tab has not been told of yet.
SetActiveTabGroup(c) ==
    Call(Select(workspace, nav, c, NoView),
         Selection(HomeOf(workspace, c, nav.space), c, NoView))

Start(next) ==
    \E n \in {next} : Call(n, Selection(n.space, n.craft, ItemIn(n, n.craft)))

ResumeSession(s, id) ==
    /\ round = 0
    /\ AllThere(workspace, s)
    /\ \E n \in {Load(workspace, NoRoute, s)} :
        Start(IF id \in Ids(n.entries) THEN Build(workspace, n.entries, id) ELSE n)

\* The hook offers it and nothing calls it.  Left out are a first tab other than
\* the default one, and a craft that is gone, for which the space that is asked
\* for and the craft would be shown as they are.
StartNewSession(c) ==
    Start(IF c \in Live(workspace)
          THEN Build(workspace, <<Entry(<<c, 0>>, c, "a")>>, <<c, 0>>)
          ELSE DefaultNav(workspace))

SelectVoyageEntry(id) ==
    /\ id \in Ids(nav.entries)
    /\ LET e == EntryWithId(nav.entries, id)
       IN  Call(Build(workspace, nav.entries, id),
                Selection(HomeOf(workspace, e.craft, nav.space), e.craft,
                          ItemFor(workspace, e.craft, e.view)))

AddTabGroupToSession(c, again, select) ==
    /\ c \in Live(workspace)
    /\ again \/ c \notin CraftsOf(nav.entries)
    /\ LET next == Ensured(workspace, nav, c, NoView, again)
       IN  Call(Build(workspace, next.entries, IF select THEN next.active ELSE nav.active),
                pending)

\* The entry before the one that goes, or else the one after it.
Neighbour(es, i) == IF i > 1 THEN es[i - 1].id ELSE es[i + 1].id

\* Without the entries at some places.  When the active one goes, React may
\* or may not run the update at once, and only then is the selection pending.
DropActive(n) ==
    \E p \in {pending, Selection(n.space, n.craft, ItemIn(n, n.craft))} : Call(n, p)

Drop(gone, isActive) ==
    LET es   == nav.entries
        kept == AllAt(es, DOMAIN es \ gone)
    IN  /\ gone # {}
        /\ IF ~isActive
           THEN Call(Build(workspace, kept, nav.active), pending)
           ELSE /\ Len(es) > 1
                /\ DropActive(Build(workspace, kept, Neighbour(es, Min(gone))))

RemoveVoyageEntryFromSession(id) ==
    Drop({i \in DOMAIN nav.entries : nav.entries[i].id = id}, id = nav.active)

RemoveTabGroupFromSession(c) ==
    Drop({i \in DOMAIN nav.entries : nav.entries[i].craft = c}, c = nav.craft)

\* Faulty Moved: the entry is put where it was aimed at without being taken
\* out first.
MovedOver(es, i, j) == [es EXCEPT ![j] = es[i]]

\* The entry at i is taken out and put in at j.
Moved(es, i, j) == InsertAt(RemoveAt(es, i), j, es[i])

\* reorderVoyageEntries, and reorderSessionTabGroups of the first entries of
\* two craft.
ReorderVoyageEntries(i, j) ==
    /\ i # j
    /\ Call(Build(workspace, Moved(nav.entries, i, j), nav.active), pending)

-----------------------------------------------------------------------------
(* The tab.                                                                *)

Init ==
    /\ workspace \in Workspaces
    /\ saved \in Voyages \cup {NoVoyage}
    /\ url = NoRoute
    /\ nav = Load(workspace, NoRoute, saved)
    /\ pending = NoSelection
    /\ last = [saved |-> saved, route |-> NoRoute]
    /\ round = 1
    /\ called = FALSE

FromServer ==
    \/ \E w \in Workspaces : WorkspaceChanges(w)
    \/ \E s \in Voyages \cup {NoVoyage} : SavedChanges(s)
    \/ \E u \in Urls \cup {NoRoute} : GoTo(u)

Selecting ==
    \/ \E s \in SpacesOf(workspace) : SelectSpace(s)
    \/ \E c \in Crafts : SelectSessionTabGroup(c) \/ SetActiveTabGroup(c)
    \/ \E c \in Crafts, item \in Views : SelectItem(c, item)
    \/ \E id \in Ids(nav.entries) : SelectVoyageEntry(id)

Replacing ==
    \/ \E s \in Voyages : \E id \in Ids(s.entries) \cup {NoEntry} : ResumeSession(s, id)
    \/ \E c \in Crafts \cup {NoCraft} : StartNewSession(c)

Editing ==
    \/ \E c \in Crafts, again, select \in BOOLEAN : AddTabGroupToSession(c, again, select)
    \/ \E id \in Ids(nav.entries) : RemoveVoyageEntryFromSession(id)
    \/ \E c \in CraftsOf(nav.entries) : RemoveTabGroupFromSession(c)
    \/ \E i, j \in DOMAIN nav.entries : ReorderVoyageEntries(i, j)

Next == Flush \/ FromServer \/ Selecting \/ Replacing \/ Editing

Spec == Init /\ [][Next]_vars

-----------------------------------------------------------------------------
(* Properties.                                                             *)

\* Every variable has its type: entries are entries of craft, each with an
\* id of its own, whatever is added, removed and loaded; a selection names a
\* craft of the workspace or one to come.  The effects come to rest: they do
\* not keep setting what they react to, and need at most three rounds.
TypeOK ==
    /\ workspace \in Workspaces
    /\ saved \in Voyages \cup {NoVoyage}
    /\ url \in Urls \cup {NoRoute}
    /\ nav.entries \in Seq(Entries)
    /\ Cardinality(Ids(nav.entries)) = Len(nav.entries)
    /\ \A i \in DOMAIN nav.entries :
         nav.entries[i].craft \in Live(workspace) => nav.entries[i].view \in Views
    /\ nav.active \in EntryIds \cup {NoEntry}
    /\ DOMAIN nav.byEntry \subseteq EntryIds
    /\ last.saved \in Voyages \cup {NoVoyage}
    /\ pending = NoSelection \/ pending.craft \in Crafts \cup {NoCraft}
    /\ round \in 0..3 /\ called \in BOOLEAN

Settled == round = 0

\* The saved voyage refers to no craft that the workspace has lost.
InStep == saved # NoVoyage /\ AllThere(workspace, saved)

\* When the effects have settled there is an active entry, its craft and its
\* space are there, and they are the ones shown.
ShowsActiveEntry ==
    Settled /\ (InStep \/ saved = NoVoyage) =>
        LET e == EntryWithId(nav.entries, nav.active)
        IN  /\ e.id # NoEntry
            /\ nav.craft = e.craft
            /\ nav.craft \in Live(workspace)
            /\ nav.space = SpaceOf[nav.craft]

\* When the effects have settled, the URL decides what a saved voyage shows:
\* its entry, of possibly several entries of its craft, and its view.  (As
\* long as nothing has been selected through the hook itself.)
FollowsUrl ==
    Settled /\ ~called /\ InStep /\ CurrentRoute # NoRoute =>
        /\ nav.active = CurrentRoute.entry
        /\ EntryWithId(nav.entries, nav.active).view =
               NormalView(workspace, CurrentRoute.craft, CurrentRoute.view)

\* ... and the entries of the voyage are the entries of the navigation, in
\* their order.
FollowsVoyage ==
    Settled /\ ~called /\ InStep =>
        [i \in DOMAIN nav.entries |-> nav.entries[i].id] =
        [i \in DOMAIN saved.entries |-> saved.entries[i].id]

\* What is shown is the active entry, and what is navigated is the voyage.
ShowsVoyage == ShowsActiveEntry /\ FollowsVoyage

\* Removing and moving entries, and selecting, leave every other entry where
\* it is: no entry is lost or doubled on the way.
OthersKept ==
    [][round = 0 /\ nav' # nav /\ (Editing \/ Selecting) =>
         LET gone == Ids(nav.entries) \ Ids(nav.entries')
             new  == Ids(nav.entries') \ Ids(nav.entries)
         IN  /\ gone = {} \/ new = {}
             /\ Cardinality(new) <= 1
             /\ \A e, f \in gone : e[1] = f[1]
             /\ Len(nav.entries') = Len(nav.entries) + Cardinality(new) - Cardinality(gone)]_vars
=============================================================================
