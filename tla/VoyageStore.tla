---------------------------- MODULE VoyageStore -----------------------------
(***************************************************************************)
(* The saved voyages as they are stored, from one version of the dashboard *)
(* to the next: src/lib/savedVoyageState.ts, which a start of the server   *)
(* goes through (src/index.tsx), and the scripts an operator runs on the   *)
(* database while the server is down (scripts/*-voyages*.mjs).             *)
(*                                                                         *)
(* Workspace has what happens to voyages while the server runs; it starts  *)
(* with what this module hands to it.  The tree of craft is fixed here: of *)
(* the craft that voyages refer to some may be gone.                       *)
(***************************************************************************)
EXTENDS Integers, Sequences, FiniteSets, SequencesExt, Places

CONSTANTS
    VoyageIds,     \* numbers: ids of voyages, in the order of localeCompare
    Tree,          \* [spaces, tabGroups], as Workspace has them
    HomeCrafts,    \* the craft labelled Home
    Origins,       \* origins with a voyage to resume
    Stores,        \* what an earlier version of the dashboard has left
    NewVoyages,    \* voyages that are saved while the server runs
    MaxScripts,    \* bound on the scripts that are run
    VKIds, Agent, NoWs,
    None

VARIABLES
    store,         \* state.persistent|workspace-sessions
    resume,        \* state.persistent|workspace-origin-session-resume
    running,       \* the server is
    scripts        \* scripts run so far

storeVars == <<store, resume, running, scripts>>

(* A voyage: [id, name, age, space, craft, visited, items, entries,        *)
(* active, itemOf].  The first versions had no entries but the craft       *)
(* visited and an active item (a tab or a pair) for each craft; the second *)
(* may have both; now an entry has its views, and its item.  An age stands *)
(* for updatedAt and then createdAt, of which the latest come first; the   *)
(* slug, and the order of the voyages in their list, are left out.         *)
Current == 3

IdsOf(data) == {s.id : s \in data}
VoyageOf(data, id) == CHOOSE s \in data : s.id = id
CraftsOn(es) == [i \in DOMAIN es |-> es[i].craft]
IdsOfEntries(es) == {es[i].id : i \in DOMAIN es}
EntryById(es, id) == es[CHOOSE i \in DOMAIN es : es[i].id = id]
First(views) == CHOOSE v \in views : TRUE
StoredEntry(id, c, views) == [id |-> id, craft |-> c, views |-> views]

(* The voyages as Workspace has them.                                      *)
ViewsById(s) == [id \in IdsOfEntries(s.entries) |-> EntryById(s.entries, id).views]
Voyage(s) == [entries |-> ViewsById(s), active |-> s.active, craft |-> s.craft,
              space |-> s.space, visited |-> ToSet(s.visited)]
VoyagesById(data) == [id \in IdsOf(data) |-> Voyage(VoyageOf(data, id))]

W == INSTANCE Workspace WITH
        Sessions <- VoyageIds, UserUrls <- {"page"}, NoTab <- None, MaxId <- 99, nextId <- 99,
        spaces <- Tree.spaces, tabGroups <- Tree.tabGroups,
        savedVoyages <- VoyagesById(store.data)

TabGroups == Tree.tabGroups
LiveCraft == DOMAIN TabGroups

-----------------------------------------------------------------------------
(* normalizeSavedWorkspaceSession, for the craft cr of a workspace.        *)

Distinct(seq) ==
    AllAt(seq, {i \in DOMAIN seq : \A j \in DOMAIN seq : j < i => seq[j] # seq[i]})

OwnItem(s, e) == IF e.id \in DOMAIN s.itemOf THEN s.itemOf[e.id] ELSE None

ItemOfEntry(s, e) ==
    IF OwnItem(s, e) # None THEN OwnItem(s, e)
    ELSE IF e.views # {} THEN First(e.views) ELSE None

(* The active item of each craft; of two entries of a craft the last has   *)
(* its own.                                                                *)
ActiveItems(s) ==
    LET having == {i \in DOMAIN s.entries : ItemOfEntry(s, s.entries[i]) # None}
        last(c) == CHOOSE i \in having :
                     /\ s.entries[i].craft = c
                     /\ \A j \in having : s.entries[j].craft = c => j <= i
    IN  IF s.items # None THEN s.items
        ELSE [c \in {s.entries[i].craft : i \in having} |->
                ItemOfEntry(s, s.entries[last(c)])]

(* Faulty ActiveItemViews: an item is always taken for a tab.              *)
TabsOnly(cr, c, items) ==
    IF c \notin DOMAIN items THEN {}
    ELSE IF c \notin DOMAIN cr THEN {items[c]}
    ELSE {items[c]} \cap DOMAIN cr[c].url

(* Without the workspace the item stands for itself.                       *)
ActiveItemViews(cr, c, items) ==
    IF c \notin DOMAIN items THEN {}
    ELSE IF c \notin DOMAIN cr THEN {items[c]}
    ELSE IF \E p \in cr[c].pairs : p.id = items[c]
         THEN (CHOOSE p \in cr[c].pairs : p.id = items[c]).of
         ELSE {items[c]} \cap DOMAIN cr[c].url

VisitedCrafts(s) == IF s.visited # <<>> THEN s.visited ELSE <<s.craft>>

NormalEntries(s, cr) ==
    IF s.entries # <<>> THEN s.entries
    ELSE LET crafts == VisitedCrafts(s)
         IN  [i \in DOMAIN crafts |->
                StoredEntry(<<crafts[i], i - 1>>, crafts[i],
                            ActiveItemViews(cr, crafts[i], ActiveItems(s)))]

ActiveEntry(s, es) ==
    LET onCraft == {i \in DOMAIN es : es[i].craft = s.craft}
    IN  IF s.active \in IdsOfEntries(es) THEN s.active
        ELSE IF onCraft # {} THEN es[W!Least(onCraft)].id ELSE es[1].id

Items(s, es) ==
    [id \in IdsOfEntries(es) |->
       LET e == EntryById(es, id)
       IN  IF OwnItem(s, e) = None /\ e.craft \in DOMAIN ActiveItems(s)
           THEN ActiveItems(s)[e.craft] ELSE ItemOfEntry(s, e)]

Normalised(s, cr) ==
    LET es == NormalEntries(s, cr)
    IN  [s EXCEPT !.entries = es, !.active = ActiveEntry(s, es),
                  !.craft = EntryById(es, ActiveEntry(s, es)).craft,
                  !.items = None, !.itemOf = Items(s, es),
                  !.visited = Distinct(@ \o CraftsOn(es))]

AllNormalised(data, cr) == {Normalised(s, cr) : s \in data}

-----------------------------------------------------------------------------
(* migrateSavedWorkspaceSessionStateWithCleanup, and what the scripts do   *)
(* in the same way.                                                        *)

isHomeVoyage(s) ==
    \/ s.name = "home"
    \/ s.name = "" /\ s.craft \in HomeCrafts

(* Faulty sessionSignature: the views of entries are left out.             *)
WithoutEntries(s) ==
    [s EXCEPT !.id = 0, !.age = 0, !.entries = CraftsOn(@), !.items = None, !.itemOf = None]

sessionSignature(s) ==
    [s EXCEPT !.id = 0, !.age = 0,
              !.entries = [i \in DOMAIN @ |-> [craft |-> @[i].craft, views |-> @[i].views]]]

(* Of duplicates, which have one name, one that an origin resumes is kept, *)
(* then the latest.                                                        *)
Better(s, t, referenced) ==
    LET isIn(x) == IF x.id \in referenced THEN 1 ELSE 0
    IN  \/ isIn(s) > isIn(t)
        \/ isIn(s) = isIn(t) /\ s.age < t.age
        \/ isIn(s) = isIn(t) /\ s.age = t.age /\ s.id <= t.id

Keeper(data, s, referenced) ==
    LET group == {t \in data : sessionSignature(t) = sessionSignature(s)}
    IN  (CHOOSE t \in group : \A u \in group : Better(t, u, referenced)).id

Deduped(data, referenced) == {s \in data : Keeper(data, s, referenced) = s.id}

Migrated(st) ==
    LET data == {s \in AllNormalised(st.data, TabGroups) : ~isHomeVoyage(s)}
    IN  [version |-> Current, data |-> Deduped(data, {})]

-----------------------------------------------------------------------------
(* The start of the server (index.tsx): voyages that are not in the        *)
(* current format are migrated, then all are repaired.                     *)

isMigrated(st) == st.version = Current

(* getActiveItemIdForViewIds                                               *)
ItemForViews(c, views) ==
    LET pair == {p \in TabGroups[c].pairs : Cardinality(views) > 1 /\ p.of = views}
        tabs == DOMAIN TabGroups[c].url
        pairIds == {p.id : p \in TabGroups[c].pairs}
    IN  IF pair # {} THEN (CHOOSE p \in pair : TRUE).id
        ELSE IF views # {} /\ (First(views) \in tabs \/ TabGroups[c].ws # NoWs) THEN First(views)
        ELSE IF tabs # {} THEN W!Least(tabs)
        ELSE IF pairIds # {} THEN W!Least(pairIds) ELSE None

LiveEntries(s) ==
    LET es == AllAt(s.entries, {i \in DOMAIN s.entries : s.entries[i].craft \in LiveCraft})
    IN  [i \in DOMAIN es |->
           StoredEntry(es[i].id, es[i].craft,
                       W!NormalizedViews(TabGroups, es[i].craft, es[i].views))]

(* Faulty Repaired: what repeats the entries is not brought up to date.    *)
EntriesRepaired(s) == [s EXCEPT !.entries = LiveEntries(s)]

Repaired(s) ==
    LET es == LiveEntries(s)
        active == IF s.active \in IdsOfEntries(es) THEN s.active ELSE es[1].id
        craft  == EntryById(es, active).craft
    IN  [s EXCEPT !.entries = es, !.active = active, !.craft = craft,
                  !.space = W!SpaceOf(Tree.spaces, craft, @),
                  !.itemOf = [id \in IdsOfEntries(es) |->
                                ItemForViews(EntryById(es, id).craft, EntryById(es, id).views)],
                  !.visited = Distinct(CraftsOn(es))]

AllRepaired(data) == {Repaired(s) : s \in {t \in data : LiveEntries(t) # <<>>}}

Booted(st) ==
    LET now == IF isMigrated(st) THEN st ELSE Migrated(st)
    IN  [version |-> Current, data |-> AllRepaired(AllNormalised(now.data, <<>>))]

ServerStart ==
    /\ ~running
    /\ store' = Booted(store)
    /\ running' = TRUE
    /\ UNCHANGED <<resume, scripts>>

(* The server ends after the migration and before the repair is saved.     *)
StartCut ==
    /\ ~running /\ ~isMigrated(store)
    /\ store' = Migrated(store)
    /\ UNCHANGED <<resume, running, scripts>>

Stop ==
    /\ running
    /\ running' = FALSE
    /\ UNCHANGED <<store, resume, scripts>>

(* A voyage is saved, as Workspace does: what is stored is read and        *)
(* written again.                                                          *)
Save(s) ==
    /\ running /\ s.id \notin IdsOf(store.data)
    /\ store' = [version |-> Current, data |-> AllNormalised(store.data, <<>>) \cup {s}]
    /\ UNCHANGED <<resume, running, scripts>>

-----------------------------------------------------------------------------
(* The scripts, with --write.  They read every version but the current.    *)

getSessions(st) == IF isMigrated(st) THEN {} ELSE st.data

createSessionsState(sessions) == [version |-> 2, data |-> sessions]

Run == ~running /\ scripts < MaxScripts /\ scripts' = scripts + 1 /\ UNCHANGED running

Dedupe ==
    LET sessions   == getSessions(store)
        referenced == {resume[o] : o \in Origins} \ {None}
    IN  /\ Run
        /\ store' = createSessionsState(Deduped(sessions, referenced))
        /\ resume' = [o \in Origins |->
                        IF resume[o] \in IdsOf(sessions)
                        THEN Keeper(sessions, VoyageOf(sessions, resume[o]), referenced)
                        ELSE resume[o]]

Removed(sessions, ids) ==
    /\ store' = createSessionsState({s \in sessions : s.id \notin ids})
    /\ resume' = [o \in Origins |-> IF resume[o] \in ids THEN None ELSE resume[o]]

RemoveHome ==
    /\ Run
    /\ Removed(getSessions(store), IdsOf({s \in getSessions(store) : isHomeVoyage(s)}))

RemoveById(id) ==
    /\ Run
    /\ Removed(getSessions(store), IdsOf(getSessions(store)) \cap {id})

-----------------------------------------------------------------------------
(* What may be stored: ids of entries tell their craft, items are tabs and *)
(* pairs, the craft of a voyage is that of its active entry or one of its  *)
(* craft.  Voyages without entries have items and no active entry, those   *)
(* of today have no items.                                                 *)

CraftsIn(s) == IF s.entries # <<>> THEN CraftsOn(s.entries) ELSE VisitedCrafts(s)

StoredViews   == Nat \cup {Agent}
StoredEntries == {e \in [id : Nat \X Nat, craft : Nat, views : SUBSET StoredViews] :
                     e.id[1] = e.craft}

SavedVoyage(s) ==
    /\ s = [id |-> s.id, name |-> s.name, age |-> s.age, space |-> s.space,
            craft |-> s.craft, visited |-> s.visited, items |-> s.items,
            entries |-> s.entries, active |-> s.active, itemOf |-> s.itemOf]
    /\ s.id \in VoyageIds /\ s.age \in Nat /\ s.craft \in Nat
    /\ s.visited \in Seq(Nat)
    /\ s.entries \in Seq(StoredEntries)
    /\ s.items # None => \A c \in DOMAIN s.items : s.items[c] \in StoredViews
    /\ s.entries = <<>> => s.items # None /\ s.active = None
    /\ IF s.active \in IdsOfEntries(s.entries) THEN s.craft = s.active[1]
       ELSE s.craft \in ToSet(CraftsIn(s))

SavedStore(st) ==
    /\ st = [version |-> st.version, data |-> st.data]
    /\ st.version \in 1..Current
    /\ \A s \in st.data : SavedVoyage(s)
    /\ \A s, t \in st.data : s.id = t.id => s = t
    /\ isMigrated(st) => \A s \in st.data : s.items = None

(* The tree is one that Workspace keeps (TreeIsWhole), and what it saves   *)
(* is what a repair would make of it.                                      *)
ASSUME SavedAssumption ==
    /\ VoyageIds \subseteq Nat /\ MaxScripts \in Nat
    /\ None \notin StoredViews \cup (Nat \X Nat)
    /\ \A c \in LiveCraft :
         /\ \E sp \in DOMAIN Tree.spaces : c \in Tree.spaces[sp]
         /\ DOMAIN TabGroups[c].url \subseteq Nat
         /\ \A p \in TabGroups[c].pairs :
              /\ p.id \in Nat \ DOMAIN TabGroups[c].url
              /\ p.of # {} /\ p.of \subseteq DOMAIN TabGroups[c].url
              /\ \A q \in TabGroups[c].pairs : p.id = q.id => p = q
    /\ \A st \in Stores : SavedStore(st)
    /\ \A s \in NewVoyages :
         SavedVoyage(s) /\ s.items = None /\ LiveEntries(s) # <<>> /\ Repaired(s) = s

StoreInit ==
    /\ store \in Stores
    /\ resume \in [Origins -> IdsOf(store.data) \cup {None}]
    /\ running = FALSE /\ scripts = 0

Script == Dedupe \/ RemoveHome \/ \E id \in VoyageIds : RemoveById(id)

StoreNext == ServerStart \/ StartCut \/ Stop \/ Script \/ \E s \in NewVoyages : Save(s)

StoreSpec == StoreInit /\ [][StoreNext]_storeVars

-----------------------------------------------------------------------------
(* Properties.                                                             *)

(* What is stored has its type, under distinct ids.                        *)
StoreTypeOK ==
    /\ SavedStore(store)
    /\ resume \in [Origins -> VoyageIds \cup {None}]
    /\ running \in BOOLEAN
    /\ scripts \in 0..MaxScripts

(* Whatever was stored, by whichever version, and wherever an earlier      *)
(* start was cut off, a server that runs has what Workspace assumes: every *)
(* voyage can be resumed.  Another start would leave it as it is.          *)
WorkspaceAccepts ==
    /\ StoreTypeOK
    /\ running => isMigrated(store) /\ W!VoyageInv /\ Booted(store) = store

LiveCrafts(s) == AllAt(CraftsIn(s), {i \in DOMAIN CraftsIn(s) : CraftsIn(s)[i] \in LiveCraft})

(* What the views of an entry are to be: those it had that are left, or    *)
(* what the active item of its craft stands for.                           *)
ViewsOf(s, i) ==
    LET c        == CraftsIn(s)[i]
        tabs     == DOMAIN TabGroups[c].url
        left     == {v \in s.entries[i].views : v \in tabs \/ TabGroups[c].ws # NoWs}
        of(item) == ({item} \cap tabs)
                    \cup UNION {p.of : p \in {q \in TabGroups[c].pairs : q.id = item}}
    IN  IF s.entries # <<>> THEN left
        ELSE IF c \in DOMAIN s.items THEN of(s.items[c]) ELSE {}

(* Duplicates: they have one name, are on the same craft and show the same *)
(* views.                                                                  *)
ShowsWhat(s, i, t) ==
    ViewsOf(s, i) # {} =>
      \E j \in DOMAIN CraftsIn(t) :
         CraftsIn(t)[j] = CraftsIn(s)[i] /\ ViewsOf(t, j) = ViewsOf(s, i)

Twins(s, t) ==
    /\ s.name = t.name
    /\ LiveCrafts(s) = LiveCrafts(t)
    /\ s.craft \in LiveCraft => s.craft = t.craft
    /\ \A i \in DOMAIN CraftsIn(s) : CraftsIn(s)[i] \in LiveCraft => ShowsWhat(s, i, t)

TwinLeft(s) == \E t \in store'.data : Twins(s, t)

Gone == {s \in store.data : s.id \notin IdsOf(store'.data)}

(* Why a voyage may go.                                                    *)
Cleanup == (ServerStart \/ StartCut) /\ ~isMigrated(store)
MayGo(s) ==
    \/ isHomeVoyage(s) /\ (RemoveHome \/ Cleanup)
    \/ TwinLeft(s) /\ (Dedupe \/ Cleanup)
    \/ LiveCrafts(s) = <<>> /\ ServerStart
    \/ RemoveById(s.id) /\ Gone = {s}

(* An origin goes on resuming its voyage, or the one kept for it.          *)
Follows(o, s) ==
    IF s \notin Gone THEN resume'[o] = s.id
    ELSE IF Dedupe THEN \E t \in store'.data : t.id = resume'[o] /\ Twins(s, t)
    ELSE resume'[o] = None

(* No start, and no script that reads the stored version, loses a voyage,  *)
(* but those named Home, those of craft that have gone, all but one of     *)
(* duplicates, and what an operator asks to be removed.                    *)
VoyagesKept ==
    [][~(Script /\ isMigrated(store)) =>
         /\ \A s \in Gone : MayGo(s)
         /\ Script => \A o \in Origins, s \in store.data :
                         resume[o] = s.id => Follows(o, s)]_storeVars

(* Nor does a script on what the dashboard stores today (what a run says   *)
(* it removes, scripts/remove-voyages-by-id.mjs:15, is all it removes).    *)
ScriptsKeepOthers == [][Script => \A s \in Gone : MayGo(s)]_storeVars

(* After a start a voyage is on the craft it was on, in their order, with  *)
(* the same one active and, where it can be told what they were, the same  *)
(* views: a split is one again.                                            *)
ShownAsBefore ==
    [][ServerStart => \A s \in store.data \ Gone :
         LET t == VoyageOf(store'.data, s.id)
         IN  /\ CraftsOn(t.entries) = LiveCrafts(s)
             /\ s.craft \in LiveCraft => t.craft = s.craft
             /\ \A i \in DOMAIN CraftsIn(s) :
                   CraftsIn(s)[i] \in LiveCraft /\ ViewsOf(s, i) # {} =>
                     \E e \in ToSet(t.entries) :
                        e.craft = CraftsIn(s)[i] /\ e.views = ViewsOf(s, i)]_storeVars
=============================================================================
