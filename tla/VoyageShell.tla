---------------------------- MODULE VoyageShell ----------------------------
(***************************************************************************)
(* One browser tab between its URL, the saved voyages and the requests it  *)
(* has on the wire: WorkspaceRoute (MainUIShellModule.tsx), the shell that  *)
(* it renders (components/WorkspaceShell.tsx), and what resolves a URL     *)
(* (lib/voyageSession.ts, lib/voyageUrl.ts, lib/voyageFallback.ts).        *)
(*                                                                         *)
(* The server holds the craft and the voyages, as in the module Workspace; *)
(* the tab has copies that are behind, and answers that come on their own. *)
(* A voyage has at most one entry of a craft (proved there), so an entry   *)
(* is named by its craft; views, spaces, names and the order of entries    *)
(* are left out, and the entry next to one is any other.  What SessionNav  *)
(* shows follows the URL (checked there), or else the voyage.              *)
(*                                                                         *)
(* An event and the render with its effects (Render) are two steps, and    *)
(* the tab handles no event between them.  A render reads nothing of the   *)
(* server, so that a step of the server between the two is the same as one *)
(* after them, and is left out.                                            *)
(***************************************************************************)
EXTENDS Naturals, FiniteSets, Functions

CONSTANTS
    Crafts,      \* ids of craft, never used twice
    Voyages,     \* ids of saved voyages, never used twice
    NoCraft,     \* no craft
    NoVoyage,    \* no voyage
    Nothing,     \* no tab, no operation, no selection, no activation
    Slots,       \* requests of the tab that may be under way at once
    Loads,       \* what there may be when the tab is loaded first
    MaxAsked,    \* bound on what the user and other clients ask for
    MaxMirrors   \* bound on the calls that nobody waits for

AnyVoyage == Voyages \cup {NoVoyage}
AnyCraft  == Crafts \cup {NoCraft}

\* Where the answer to a request is seen: in the shell it was made in, or
\* nowhere; or else by a shell that is gone, last rendered for a voyage.
Here == "here"
Gone == "gone"

Urls  == [voyage : AnyVoyage, craft : AnyCraft]
Waits == [origin : AnyVoyage, voyage : AnyVoyage, craft : Crafts]
Kinds == {"add", "put", "persist", "found", "start", "first", "move", "close", "tab", "make"}
Ops   == [kind : Kinds, origin : AnyVoyage, craft : Crafts,
          to : AnyVoyage \cup AnyCraft \cup {Nothing},
          request : {"add", "navigate"}, knew : SUBSET Crafts,
          tracked : {"no", "run", "retry"}, ref : AnyVoyage \cup {Here, Gone},
          stage : {"sent", "done"}]

\* Voyages have entries of craft there are; one of them is active.
TypeSaved(vs, crafts) ==
    /\ DOMAIN vs \subseteq Voyages
    /\ vs \in [DOMAIN vs -> [entries : SUBSET crafts, active : crafts]]
    /\ \A v \in DOMAIN vs : vs[v].active \in vs[v].entries

ASSUME ShellAssumption ==
    /\ NoCraft \notin Crafts
    /\ NoVoyage \notin Voyages /\ {Here, Gone} \cap AnyVoyage = {}
    /\ Slots \subseteq Nat
    /\ Nothing \notin Slots \cup Urls \cup Ops \cup Waits
    /\ MaxAsked \in Nat /\ MaxMirrors \in Nat
    /\ \A l \in Loads : /\ l.craft \subseteq Crafts
                        /\ TypeSaved(l.voyages, l.craft)
                        /\ l.asked \in 0..MaxAsked

VARIABLES
    craft,       \* the craft there are
    voyages,     \* the saved voyages: their entries and the active one
    born,        \* the craft and the voyages there have been
    seenCraft,   \* the craft the tab has been sent
    seenVoyages, \* the voyages the tab has been sent
    url,         \* voyage and craft of the URL
    act,         \* pendingSavedSessionActivationRef
    stored,      \* the URL in the storage of the browser
    current,     \* currentSessionIdRef of the shell, or none is mounted
    shell,       \* the state of the shell
    ops,         \* the requests under way, by slot
    mirrors,     \* the calls that nobody waits for
    dirty,       \* what has to be rendered: "no", "shell" or "route"
    spent        \* what the user and other clients have asked for

server == <<craft, voyages, born>>
copies == <<seenCraft, seenVoyages>>
place  == <<url, act, stored, current>>
vars == <<craft, voyages, born, seenCraft, seenVoyages, url, act, stored,
          current, shell, ops, mirrors, dirty, spent>>

-----------------------------------------------------------------------------
(* Voyages.                                                                *)

Voyage(entries, active) == [entries |-> entries, active |-> active]

First(S) == CHOOSE x \in S : TRUE

\* Faulty WithoutEntry: the active entry stays the active one.
WithoutButActive(v, c) == Voyage(v.entries \ {c}, v.active)

\* repairSavedSessionForWorkspace: without an entry, which may be the active
\* one.
WithoutEntry(v, c) ==
    LET rest == v.entries \ {c}
    IN  Voyage(rest, IF v.active \in rest THEN v.active ELSE First(rest))

\* repairSavedSessionsForWorkspace, for a craft that is deleted.
WithoutCraft(vs, c) ==
    [v \in {w \in DOMAIN vs : vs[w].entries # {c}} |->
        IF c \in vs[v].entries THEN WithoutEntry(vs[v], c) ELSE vs[v]]

\* addSelectionToSavedSession, openVKWorkspaceInSavedSession
WithActive(vs, v, c) == [vs EXCEPT ![v] = Voyage(@.entries \cup {c}, c)]

WithNew(vs, v, c) ==
    [w \in DOMAIN vs \cup {v} |-> IF w = v THEN Voyage({c}, c) ELSE vs[w]]

-----------------------------------------------------------------------------
(* URLs.                                                                   *)

Url(v, c) == [voyage |-> v, craft |-> c]
Root      == Url(NoVoyage, NoCraft)

\* resolveDashboardVoyage: "resolved"; else the voyage is missing or unknown.
Resolves(u) == u.voyage \in DOMAIN seenVoyages

\* resolveQueryCraftSelection
Selects(u) ==
    /\ Resolves(u)
    /\ u.craft \in seenVoyages[u.voyage].entries \cap seenCraft

\* buildSavedVoyageDashboardPath: of an entry that the voyage has, or else of
\* the active one; without a craft if the tab does not know it.
PathTo(v, c) ==
    LET entry == IF c \in seenVoyages[v].entries THEN c ELSE seenVoyages[v].active
    IN  Url(v, IF entry \in seenCraft THEN entry ELSE NoCraft)

\* The entries of the tab, and the one that is shown: that of the URL, or else
\* any one of them (see SessionNav).
NavEntries == IF current \in DOMAIN seenVoyages
              THEN seenVoyages[current].entries \cap seenCraft ELSE {}
Shown == IF Selects(url) THEN {url.craft} ELSE NavEntries

-----------------------------------------------------------------------------
(* The shell.                                                              *)

NewShell ==
    [openTab   |-> Nothing,  \* pendingOpenCraftTab: status and request
     operation |-> Nothing,  \* pendingOpenCraftOperationIdRef
     mutation  |-> Nothing,  \* the slot of openCraftMutation while it is pending
     adding    |-> FALSE,    \* workspaceSearchMode is "session-add"
     naming    |-> FALSE,    \* pendingNewVoyageCraftName is set
     waiting   |-> Nothing,  \* pendingWorkspaceSelection
     prompt    |-> NoCraft]  \* duplicateCraftPrompt

\* Faulty Cleared: the tab of the craft that is opened stays.
ClearedButTab(sh) ==
    [NewShell EXCEPT !.prompt = sh.prompt, !.mutation = sh.mutation, !.openTab = sh.openTab]

\* clearCompletedOpenCraftWithoutNavigation
Cleared(sh) == [NewShell EXCEPT !.prompt = sh.prompt, !.mutation = sh.mutation]

\* resetOpenCraftPendingContext
ResetOf(sh) == [NewShell EXCEPT !.prompt = sh.prompt]

Mounted == current # NoVoyage

\* The request sees the shell it was made in as long as that one is mounted;
\* after that it sees the voyage the shell was last rendered for.
CurrentFor(op) == IF op.ref = Here THEN current ELSE op.ref

\* Faulty Owns: any answer may navigate.
OwnsAlways(op) == TRUE

\* openCraftCompletionStillOwnsNavigation
Owns(op) == CurrentFor(op) = op.origin

-----------------------------------------------------------------------------
(* Steps of the tab.                                                       *)

Ready == dirty = "no" /\ Mounted

\* The end of every event: the shell, if there is one, is rendered again, and
\* the route too if the event navigates.
Rerender ==
    /\ dirty' = IF <<act', url'>> # <<act, url>> THEN "route"
                ELSE IF Mounted THEN "shell" ELSE "no"
    /\ UNCHANGED <<server, copies, stored, current>>

\* updateBookmarkedSessionSearch, of a voyage the tab has been sent.
Bookmark(v, c) ==
    IF v \in DOMAIN seenVoyages
    THEN /\ act' = Url(v, IF c = NoCraft THEN seenVoyages[v].active ELSE c)
         /\ url' = PathTo(v, c)
    ELSE UNCHANGED <<act, url>>

\* The same with the voyage that the server has answered with.
BookmarkAnswer(v, c, knew) ==
    /\ act' = Url(v, c)
    /\ url' = Url(v, IF knew THEN c ELSE NoCraft)

Stay == UNCHANGED <<act, url>>

Mirror(m) ==
    /\ Cardinality(mirrors) < MaxMirrors
    /\ mirrors' = mirrors \cup {m}

Call(does, v, c) == [does |-> does, voyage |-> v, craft |-> c]

\* A request that is sent from the tab's voyage.
Request(kind, c, to, tracked) ==
    [kind |-> kind, origin |-> current, craft |-> c, to |-> to,
     request |-> IF kind = "add" THEN "add" ELSE "navigate",
     knew |-> seenCraft, tracked |-> tracked, ref |-> Here, stage |-> "sent"]

Asks == spent < MaxAsked /\ spent' = spent + 1

\* Slots are alike: a request has the first one that is free.
Send(slot, op) ==
    /\ Asks
    /\ ops[slot] = Nothing
    /\ \A s \in Slots : s < slot => ops[s] # Nothing
    /\ ops' = [ops EXCEPT ![slot] = op]

NoRequest == Asks /\ UNCHANGED ops

\* What only the shell sees is not bounded.
ShellOnly == Stay /\ NoRequest /\ UNCHANGED mirrors

\* persistSavedSelection: an entry there is is shown at once and recorded, one
\* that is missing is shown when the server has added it.
ShowEntry(c) ==
    /\ c \in NavEntries
    /\ Bookmark(current, c)
    /\ Mirror(Call("activate", current, c))
    /\ NoRequest

AddEntry(slot, c) ==
    /\ c \in seenCraft \ NavEntries
    /\ Send(slot, Request("persist", c, current, "no"))
    /\ Stay
    /\ UNCHANGED mirrors

-----------------------------------------------------------------------------
(* Open Craft.                                                             *)

\* performNavigateToWorkspaceTabGroup asks when a craft is in some voyage.
Duplicate(c) == \E v \in DOMAIN seenVoyages : c \in seenVoyages[v].entries

\* openCraftMutation, for a request; how is "run" (runOpenCraftMutation),
\* "retry" (retryPendingOpenCraft) or "no" (without the mutation).
Perform(slot, request, how, sh) ==
    LET c    == request.craft
        last == IF how = "no" THEN sh.mutation ELSE Nothing
        done == [sh EXCEPT !.openTab = Nothing, !.mutation = last]
        sent == [sh EXCEPT !.mutation = IF how = "no" THEN last ELSE slot]
    IN  \/ \* a new voyage for the craft
           /\ sh.adding /\ sh.naming
           /\ Send(slot, [Request("found", c, NoVoyage, how) EXCEPT !.request = request.does])
           /\ shell' = sent
           /\ Stay /\ UNCHANGED mirrors
        \/ \* performWorkspaceSearchAdd
           /\ request.does = "add"
           /\ ~(sh.adding /\ sh.naming)
           /\ Send(slot, Request("add", c, current, how))
           /\ shell' = sent
           /\ Stay /\ UNCHANGED mirrors
        \/ \* addOrSelectCraftInCurrentVoyage
           /\ request.does = "navigate"
           /\ sh.adding /\ ~sh.naming
           /\ \/ ShowEntry(c) /\ shell' = [done EXCEPT !.adding = FALSE]
              \/ /\ c \notin NavEntries
                 /\ Send(slot, Request("put", c, current, how))
                 /\ shell' = sent
                 /\ Stay /\ UNCHANGED mirrors
        \/ \* the general search
           /\ request.does = "navigate"
           /\ ~sh.adding
           /\ \/ /\ Duplicate(c)
                 /\ shell' = [done EXCEPT !.prompt = c]
                 /\ Stay /\ NoRequest /\ UNCHANGED mirrors
              \/ /\ ~Duplicate(c)
                 /\ AddEntry(slot, c)
                 /\ shell' = [done EXCEPT !.adding = FALSE]

\* A craft of a VK workspace, which may be new, or a craft of the workspace.
Requestable(does, c) ==
    IF does = "add" THEN c \in seenCraft \/ c \notin born ELSE c \in seenCraft

Opening(request, sh) ==
    [sh EXCEPT !.openTab = [status |-> "pending", request |-> request],
               !.operation = Url(current, request.craft)]

OpenCraft(slot, does, c) ==
    /\ Ready
    /\ Requestable(does, c)
    /\ LET request == [does |-> does, craft |-> c]
       IN  Perform(slot, request, "run", Opening(request, shell))
    /\ Rerender

\* handleNavigateToWorkspaceTabGroup, of the sidebar and the overview.
NavigateToTabGroup(slot, c) ==
    /\ Ready
    /\ c \in seenCraft
    /\ Perform(slot, [does |-> "navigate", craft |-> c], "no", shell)
    /\ Rerender

RetryOpenCraft(slot) ==
    /\ Ready
    /\ shell.openTab # Nothing
    /\ Requestable(shell.openTab.request.does, shell.openTab.request.craft)
    /\ Perform(slot, shell.openTab.request, "retry", Opening(shell.openTab.request, shell))
    /\ Rerender

\* openSessionWorkspaceSearch, and the prompt for a new voyage (naming).
OpenSearch(naming) ==
    /\ Ready
    /\ shell' = [shell EXCEPT !.adding = TRUE, !.naming = naming \/ @]
    /\ ShellOnly
    /\ Rerender

\* handleWorkspaceSearchClose, and the search that a key opens.
CloseSearch(key) ==
    /\ Ready
    /\ key \/ shell.openTab = Nothing
    /\ shell' = [shell EXCEPT !.adding = FALSE, !.naming = FALSE]
    /\ ShellOnly
    /\ Rerender

ClosePendingOpenCraftTab ==
    /\ Ready
    /\ shell.openTab # Nothing
    /\ shell' = ResetOf(shell)
    /\ ShellOnly
    /\ Rerender

-----------------------------------------------------------------------------
(* The duplicate craft prompt.                                             *)

\* closeDuplicateCraftPrompt
Answered(sh) == [sh EXCEPT !.prompt = NoCraft, !.adding = FALSE]

CloseDuplicateCraftPrompt ==
    /\ Ready
    /\ shell.prompt # NoCraft
    /\ shell' = Answered(shell)
    /\ ShellOnly
    /\ Rerender

OpenCraftInNewVoyage(slot) ==
    /\ Ready
    /\ shell.prompt # NoCraft
    /\ Send(slot, Request("found", shell.prompt, NoVoyage, "no"))
    /\ shell' = Answered(shell)
    /\ Stay /\ UNCHANGED mirrors
    /\ Rerender

\* switchToExistingCraftInCurrentVoyage, by the entry the prompt has kept.
SwitchToExistingCraft ==
    /\ Ready
    /\ shell.prompt # NoCraft
    /\ Bookmark(current, shell.prompt)
    /\ Mirror(Call("activate", current, shell.prompt))
    /\ shell' = Answered(shell)
    /\ NoRequest
    /\ Rerender

SwitchToCraftInOtherVoyage(v) ==
    /\ Ready
    /\ shell.prompt # NoCraft
    /\ v # current
    /\ Bookmark(v, shell.prompt)
    /\ shell' = Answered(shell)
    /\ NoRequest /\ UNCHANGED mirrors
    /\ Rerender

-----------------------------------------------------------------------------
(* Selections, and what else the tab asks for.                             *)

\* handleToggleSessionTabGroup, trySelectVoyageEntry: a click on an entry puts
\* an Open Craft away that is no longer pending.
SelectVoyageEntry(c) ==
    /\ Ready
    /\ Shown # {c}
    /\ ShowEntry(c)
    /\ shell' \in {shell, IF shell.openTab # Nothing /\ shell.mutation = Nothing
                         THEN ResetOf(shell) ELSE shell}
    /\ Rerender

\* setActiveTabGroup, selectSessionTab, selectSessionPair, selectSpace, Home.
SelectTabGroup(slot, c) ==
    /\ Ready
    /\ ShowEntry(c) \/ AddEntry(slot, c)
    /\ UNCHANGED shell
    /\ Rerender

ResumeSession(v) ==
    /\ Ready
    /\ v \in DOMAIN seenVoyages
    /\ Bookmark(v, NoCraft)
    /\ NoRequest /\ UNCHANGED <<shell, mirrors>>
    /\ Rerender

\* The entry that is shown goes: the URL goes to another one first.
RemoveVoyageEntry(c) ==
    /\ Ready
    /\ c \in NavEntries
    /\ \/ c \in Shown /\ \E f \in NavEntries \ {c} : Bookmark(current, f)
       \/ (Shown # {c} \/ NavEntries = {c}) /\ Stay
    /\ Mirror(Call("remove", current, c))
    /\ NoRequest /\ UNCHANGED shell
    /\ Rerender

DeleteSession(v) ==
    /\ Ready
    /\ v \in DOMAIN seenVoyages
    /\ IF v = current /\ DOMAIN seenVoyages # {v}
       THEN \E f \in DOMAIN seenVoyages \ {v} : Bookmark(f, NoCraft)
       ELSE Stay
    /\ Mirror(Call("delete", v, NoCraft))
    /\ NoRequest /\ UNCHANGED shell
    /\ Rerender

\* Requests whose answers navigate whatever the tab shows by then: a craft is
\* moved to another voyage or a new one (handleMoveVoyageEntryToSession,
\* handleMoveVoyageEntryToNewSession), closed (handleCloseTabGroup; the entry
\* to show instead is chosen now), changed by a tab or a pair (addTab,
\* createPair, deletePair, closeActiveTab, handleOpenCreateWorkspaceTab) or
\* made (handleAddTabGroup; handleCreateNamedVoyage for a new voyage).
Free(slot, op) ==
    /\ Ready
    /\ Send(slot, op)
    /\ Stay
    /\ UNCHANGED <<shell, mirrors>>
    /\ Rerender

MoveVoyageEntry(slot, c, to) ==
    /\ c \in NavEntries /\ Cardinality(NavEntries) > 1
    /\ to # current
    /\ to # NoVoyage => to \in DOMAIN seenVoyages /\ c \notin seenVoyages[to].entries
    /\ Free(slot, Request("move", c, to, "no"))

\* getVoyageEntryIdAfterClosingCraft, if the craft that closes is shown.
AfterClosing(c) ==
    (IF Shown = {c} THEN {} ELSE {Nothing})
    \cup IF c \notin Shown THEN {} ELSE IF NavEntries = {c} THEN {NoCraft} ELSE NavEntries \ {c}

CloseTabGroup(slot, c) ==
    /\ c \in seenCraft
    /\ \E next \in AfterClosing(c) : Free(slot, Request("close", c, next, "no"))

ChangeTabs(slot, c) ==
    /\ c \in seenCraft
    /\ Free(slot, Request("tab", c, IF c \in NavEntries THEN current ELSE NoVoyage, "no"))

AddTabGroup(slot, c) ==
    /\ c \notin born
    /\ Free(slot, Request("make", c, current, "no"))

CreateNamedVoyage(slot, c) ==
    /\ c \notin born
    /\ Free(slot, Request("start", c, NoVoyage, "no"))

-----------------------------------------------------------------------------
(* The server and other clients.                                           *)

Others == UNCHANGED <<copies, place, shell, dirty>>

\* The request is done: what the server has then, and what it answers.
Serve(slot, cs, vs, v, c) ==
    /\ craft' = cs
    /\ voyages' = vs
    /\ born' = born \cup cs \cup DOMAIN vs
    /\ ops' = [ops EXCEPT ![slot] =
                 IF @.ref = Gone THEN Nothing
                 ELSE [@ EXCEPT !.stage = "done", !.to = v, !.craft = c]]
    /\ UNCHANGED <<mirrors, spent>>
    /\ Others

IsSent(slot, kinds) ==
    /\ ops[slot] # Nothing
    /\ ops[slot].stage = "sent"
    /\ ops[slot].kind \in kinds

\* Craft of VK workspaces are made when they are missing.
CanUse(op) ==
    IF op.kind \in {"add", "start", "make"} \/ op.request = "add"
    THEN op.craft \in craft \/ op.craft \notin born
    ELSE op.craft \in craft

ServeOpen(slot) ==
    LET op == ops[slot]
    IN  /\ IsSent(slot, {"add", "put", "persist"})
        /\ CanUse(op)
        /\ op.origin \in DOMAIN voyages
        /\ Serve(slot, craft \cup {op.craft}, WithActive(voyages, op.origin, op.craft),
                 op.origin, op.craft)

ServeNew(slot) ==
    LET op == ops[slot]
    IN  /\ IsSent(slot, {"found", "start", "first"})
        /\ CanUse(op)
        /\ \E v \in Voyages \ born :
             Serve(slot, craft \cup {op.craft}, WithNew(voyages, v, op.craft), v, op.craft)

\* moveVoyageEntryBetweenSavedSessions, createSavedSessionFromVoyageEntry.  They
\* leave all as it is when the source has gone, has one entry or lacks this one.
\* The shell is mounted only for a voyage that the tab knows, so a source is
\* always named, and an answer without one does not come.
ServeMove(slot) ==
    LET op   == ops[slot]
        from == WithoutEntry(voyages[op.origin], op.craft)
        rest == [voyages EXCEPT ![op.origin] = from]
    IN  /\ IsSent(slot, {"move"})
        /\ op.origin \in DOMAIN voyages
        /\ op.craft \in voyages[op.origin].entries
        /\ voyages[op.origin].entries # {op.craft}
        /\ \/ /\ op.to \in DOMAIN voyages
              /\ op.craft \notin voyages[op.to].entries
              /\ Serve(slot, craft, WithActive(rest, op.to, op.craft), op.origin, from.active)
           \/ /\ op.to = NoVoyage
              /\ \E v \in Voyages \ born :
                   Serve(slot, craft, WithNew(rest, v, op.craft), op.origin, from.active)

ServeClose(slot) ==
    LET op == ops[slot]
    IN  /\ IsSent(slot, {"close"})
        /\ op.craft \in craft
        /\ Serve(slot, craft \ {op.craft}, WithoutCraft(voyages, op.craft), op.to, op.craft)

\* A tab, a pair, or a craft that no voyage has yet.
ServeTabs(slot) ==
    LET op == ops[slot]
    IN  /\ IsSent(slot, {"tab", "make"})
        /\ CanUse(op)
        /\ Serve(slot, craft \cup {op.craft}, voyages, op.to, op.craft)

\* activateSavedVoyageEntry, removeVoyageEntryFromSavedSession and
\* deleteSavedSession, on a voyage or an entry that may be gone.
Applied(m) ==
    IF m.voyage \notin DOMAIN voyages THEN voyages
    ELSE LET v == voyages[m.voyage]
         IN  IF m.does = "delete"
             THEN Restrict(voyages, DOMAIN voyages \ {m.voyage})
             ELSE IF m.craft \notin v.entries THEN voyages
             ELSE IF m.does = "activate"
             THEN [voyages EXCEPT ![m.voyage].active = m.craft]
             ELSE IF v.entries = {m.craft} THEN voyages
             ELSE [voyages EXCEPT ![m.voyage] = WithoutEntry(v, m.craft)]

ServeMirror(m) ==
    /\ voyages' = Applied(m)
    /\ mirrors' = mirrors \ {m}
    /\ UNCHANGED <<craft, born, ops, spent>>
    /\ Others

OtherClient ==
    /\ Asks
    /\ \/ \E v \in DOMAIN voyages, c \in Crafts, does \in {"activate", "remove", "delete"} :
            /\ voyages' = Applied(Call(does, v, c))
            /\ UNCHANGED craft
       \/ \E c \in craft : craft' = craft \ {c} /\ voyages' = WithoutCraft(voyages, c)
    /\ UNCHANGED <<born, ops, mirrors>>
    /\ Others

-----------------------------------------------------------------------------
(* What reaches the tab.                                                   *)

See(cs, vs) ==
    /\ dirty = "no"
    /\ <<cs, vs>> # <<seenCraft, seenVoyages>>
    /\ seenCraft' = cs
    /\ seenVoyages' = vs
    /\ dirty' = "route"
    /\ UNCHANGED <<server, place, shell, ops, mirrors, spent>>

SeeWorkspace == See(craft, seenVoyages)
SeeVoyages   == See(seenCraft, voyages)

\* The state of a shell that is gone is not set any more.
SetShell(op, sh) == shell' = IF op.ref = Here THEN sh ELSE shell

\* openCraftMutation has settled.
Settled(op, slot) ==
    IF shell.mutation = slot THEN [shell EXCEPT !.mutation = Nothing] ELSE shell

\* The end of performWorkspaceSearchAdd and performNavigateToWorkspaceTabGroup.
Opened(op, sh) ==
    [sh EXCEPT !.adding = FALSE, !.naming = IF op.kind = "found" THEN FALSE ELSE @]

\* activateSavedSessionWhenWorkspaceReady: the answer of Open Craft shows the
\* craft if the tab still is where it was asked for.
OpenCraftDone(slot) ==
    LET op == ops[slot]
        sh == Settled(op, slot)
    IN  /\ op.kind \in {"add", "put", "found"}
        /\ IF ~Owns(op)
           THEN /\ SetShell(op, Opened(op, Cleared(sh)))
                /\ Stay
           ELSE IF op.craft \in op.knew
           THEN /\ SetShell(op, Opened(op, [sh EXCEPT !.openTab = Nothing]))
                /\ BookmarkAnswer(op.to, op.craft, TRUE)
           ELSE /\ SetShell(op, Opened(op, [sh EXCEPT !.waiting =
                     [origin |-> op.origin, voyage |-> op.to, craft |-> op.craft]]))
                /\ Stay
        /\ UNCHANGED mirrors
        /\ ops' = [ops EXCEPT ![slot] = Nothing]

\* The other answers navigate, wherever the tab is.
FreeDone(slot) ==
    LET op == ops[slot]
        end == [ops EXCEPT ![slot] = Nothing]
        thenAdd(c) == [ops EXCEPT ![slot] =
                         [op EXCEPT !.kind = "persist", !.craft = c, !.stage = "sent"]]
    IN  /\ UNCHANGED shell
        /\ \/ /\ op.kind \in {"persist", "move", "start"}
              /\ BookmarkAnswer(op.to, op.craft, op.craft \in op.knew)
              /\ ops' = end /\ UNCHANGED mirrors
           \/ /\ op.kind = "first"
              /\ url' = Url(op.to, op.craft) /\ UNCHANGED act
              /\ ops' = end /\ UNCHANGED mirrors
           \/ /\ op.kind = "close"
              /\ IF op.to = Nothing \/ (op.to = NoCraft /\ craft = {})
                 THEN Stay /\ ops' = end /\ UNCHANGED mirrors
                 ELSE IF op.to = NoCraft
                 THEN \E c \in craft : ops' = thenAdd(c) /\ Stay /\ UNCHANGED mirrors
                 ELSE /\ BookmarkAnswer(op.origin, op.to, TRUE)
                      /\ Mirror(Call("activate", op.origin, op.to))
                      /\ ops' = end
           \/ /\ op.kind = "tab" /\ op.to # NoVoyage
              /\ BookmarkAnswer(op.origin, op.craft, TRUE)
              /\ Mirror(Call("activate", op.origin, op.craft))
              /\ ops' = end
           \/ /\ \/ op.kind = "tab" /\ op.to = NoVoyage
                 \/ op.kind = "make"
              /\ ops' = thenAdd(op.craft) /\ Stay /\ UNCHANGED mirrors

\* onError, and the catch of runOpenCraftMutation.
OpenCraftFails(slot) ==
    LET op  == ops[slot]
        sh  == Settled(op, slot)
        key == Url(op.origin, op.craft)
        request == [does |-> op.request, craft |-> op.craft]
    IN  /\ SetShell(op,
             IF op.tracked = "no" THEN sh
             ELSE IF Owns(op)
             THEN [sh EXCEPT !.operation = key,
                             !.openTab = [status |-> "error", request |-> request]]
             ELSE IF op.tracked = "run" THEN ResetOf(sh)
             ELSE IF sh.operation = key THEN Cleared(sh) ELSE sh)
        /\ Stay
        /\ UNCHANGED mirrors
        /\ ops' = [ops EXCEPT ![slot] = Nothing]

\* addOrSelectCraftInCurrentVoyage, of a voyage that has gone.
PutFails(slot) ==
    LET op == ops[slot]
        sh == Settled(op, slot)
    IN  /\ op.kind = "put"
        /\ IF Owns(op)
           THEN /\ SetShell(op, Opened(op, [sh EXCEPT !.openTab = Nothing]))
                /\ ops' = [ops EXCEPT ![slot] = [op EXCEPT !.kind = "persist", !.stage = "sent"]]
           ELSE /\ SetShell(op, Opened(op, Cleared(sh)))
                /\ ops' = [ops EXCEPT ![slot] = Nothing]
        /\ Stay
        /\ UNCHANGED mirrors

\* An answer comes; or the request has been refused, or it or its answer is
\* lost.
Answer(slot) ==
    /\ ops[slot] # Nothing
    /\ IF ops[slot].ref = Gone
       THEN ops' = [ops EXCEPT ![slot] = Nothing] /\ Stay /\ UNCHANGED <<shell, mirrors>>
       ELSE \/ ops[slot].stage = "done" /\ (OpenCraftDone(slot) \/ FreeDone(slot))
            \/ OpenCraftFails(slot)
            \/ PutFails(slot)
    /\ UNCHANGED spent
    /\ Rerender

-----------------------------------------------------------------------------
(* Rendering.                                                              *)

\* The effect of pendingWorkspaceSelection, in the voyage that is rendered.
Waited(sh, in) ==
    LET w == sh.waiting
        stay(s) == [shell |-> s, act |-> act, url |-> url]
    IN  IF w = Nothing \/ (w # Nothing /\ w.craft \notin seenCraft) THEN stay(sh)
        ELSE IF w.origin # in THEN stay(Cleared(sh))
        ELSE [shell |-> [sh EXCEPT !.waiting = Nothing, !.openTab = Nothing],
              act   |-> Url(w.voyage, w.craft),
              url   |-> Url(w.voyage, w.craft)]

\* Faulty Awaited: no activation is waited for.
NeverAwaited(a) == FALSE

\* The entry is on its way: the URL names what the voyage does not have yet.
Awaited(a) ==
    /\ a # Nothing
    /\ a.voyage = url.voyage
    /\ a.craft \notin seenVoyages[url.voyage].entries

\* Synchronising the URL, after the effects of the shell: it goes to the entry
\* of the URL, or else to the active one, but the effect navigates only if that
\* is not the URL that is rendered, so that what the shell did may stand.
Follows(after, keep) ==
    IF keep \/ Selects(url) \/ PathTo(url.voyage, NoCraft) = url
    THEN after.url ELSE PathTo(url.voyage, NoCraft)

\* Faulty Canonical: the effect returns when an activation has arrived.
CanonicalLater(after) ==
    IF Awaited(after.act) THEN after
    ELSE [after EXCEPT !.act = Nothing, !.url = Follows(after, after.act # Nothing)]

Canonical(after) ==
    IF Awaited(after.act) THEN after
    ELSE [after EXCEPT !.act = Nothing, !.url = Follows(after, FALSE)]

RenderShell ==
    /\ dirty = "shell"
    /\ LET after == Waited(shell, current)
       IN  /\ shell' = after.shell /\ act' = after.act /\ url' = after.url
           /\ dirty' = IF after.url = url /\ after.act = act THEN "no" ELSE "route"
    /\ UNCHANGED <<server, copies, stored, current, ops, mirrors, spent>>

RenderVoyage ==
    /\ dirty = "route"
    /\ Resolves(url)
    /\ LET after == Canonical(Waited(shell, url.voyage))
       IN  /\ shell' = after.shell /\ act' = after.act /\ url' = after.url
           /\ dirty' = IF after.url = url THEN "no" ELSE "route"
    /\ current' = url.voyage
    /\ stored' = url
    /\ UNCHANGED <<server, copies, ops, mirrors, spent>>

\* Without a voyage in the URL: the last URL of this browser, or a voyage.
RenderRoot ==
    /\ dirty = "route"
    /\ url = Root
    /\ DOMAIN seenVoyages # {}
    /\ \/ Resolves(stored) /\ url' = stored
       \/ ~Resolves(stored) /\ \E v \in DOMAIN seenVoyages : url' = PathTo(v, NoCraft)
    /\ UNCHANGED <<server, copies, act, stored, current, shell, ops, mirrors, dirty, spent>>

\* "Voyage not found", or the form for the first one: the shell is unmounted,
\* and what it asked for sees the voyage that it was in.
RenderNotFound ==
    /\ dirty = "route"
    /\ ~Resolves(url)
    /\ url = Root => DOMAIN seenVoyages = {}
    /\ current' = NoVoyage
    /\ shell' = NewShell
    /\ ops' = [s \in Slots |-> IF ops[s] # Nothing /\ ops[s].ref = Here
                              THEN [ops[s] EXCEPT !.ref = current] ELSE ops[s]]
    /\ dirty' = "no"
    /\ UNCHANGED <<server, copies, url, act, stored, mirrors, spent>>

-----------------------------------------------------------------------------
(* Outside the shell.                                                      *)

\* openFallbackVoyage
OpenFallbackVoyage ==
    /\ dirty = "no"
    /\ url # Root
    /\ ~Resolves(url)
    /\ \E v \in DOMAIN seenVoyages : url' = Url(v, NoCraft)
    /\ UNCHANGED <<act, shell, mirrors>>
    /\ NoRequest
    /\ Rerender

\* createFirstVoyageFromCurrentCraft
CreateFirstVoyage(slot, c) ==
    /\ dirty = "no"
    /\ url = Root
    /\ DOMAIN seenVoyages = {}
    /\ \A s \in Slots : ops[s] # Nothing => ops[s].kind # "first"
    /\ c \in seenCraft
    /\ Send(slot, [Request("first", c, NoVoyage, "no") EXCEPT !.ref = NoVoyage])
    /\ Stay
    /\ UNCHANGED <<shell, mirrors>>
    /\ Rerender

\* The history of the browser, or a script: the URL changes and nothing else.
GoTo(v) ==
    /\ Ready
    /\ v # current
    /\ url' = Url(v, NoCraft)
    /\ UNCHANGED <<act, shell, mirrors>>
    /\ NoRequest
    /\ Rerender

\* The page is loaded at a URL: the requests are on their way still, but
\* nobody waits for the answers.
Load(v) ==
    /\ Asks
    /\ url' = Url(v, NoCraft)
    /\ seenCraft' = craft
    /\ seenVoyages' = voyages
    /\ act' = Nothing
    /\ current' = NoVoyage
    /\ shell' = NewShell
    /\ ops' = [s \in Slots |-> IF ops[s] # Nothing /\ ops[s].stage = "sent"
                              THEN [ops[s] EXCEPT !.ref = Gone] ELSE Nothing]
    /\ dirty' = "route"
    /\ UNCHANGED <<server, stored, mirrors>>

Render == RenderShell \/ RenderVoyage \/ RenderRoot \/ RenderNotFound

\* The tab is loaded without a URL, after some craft and voyages have gone and
\* some of what may be asked for has been.
Init ==
    /\ \E l \in Loads :
         /\ craft = l.craft /\ seenCraft = l.craft
         /\ voyages = l.voyages /\ seenVoyages = l.voyages
         /\ born = l.craft \cup DOMAIN l.voyages \cup l.gone
         /\ spent = l.asked
    /\ url = Root /\ stored = Root
    /\ act = Nothing
    /\ current = NoVoyage
    /\ shell = NewShell
    /\ ops = [s \in Slots |-> Nothing]
    /\ mirrors = {}
    /\ dirty = "route"

Event ==
    \/ \E slot \in Slots, c \in Crafts :
         \/ \E does \in {"add", "navigate"} : OpenCraft(slot, does, c)
         \/ NavigateToTabGroup(slot, c)
         \/ SelectTabGroup(slot, c)
         \/ \E to \in Voyages \cup {NoVoyage} : MoveVoyageEntry(slot, c, to)
         \/ CloseTabGroup(slot, c)
         \/ ChangeTabs(slot, c)
         \/ AddTabGroup(slot, c)
         \/ CreateNamedVoyage(slot, c)
         \/ CreateFirstVoyage(slot, c)
    \/ \E slot \in Slots : RetryOpenCraft(slot) \/ OpenCraftInNewVoyage(slot)
    \/ \E b \in BOOLEAN : OpenSearch(b) \/ CloseSearch(b)
    \/ ClosePendingOpenCraftTab
    \/ CloseDuplicateCraftPrompt
    \/ SwitchToExistingCraft
    \/ \E v \in Voyages : SwitchToCraftInOtherVoyage(v) \/ ResumeSession(v) \/ DeleteSession(v)
    \/ \E c \in Crafts : SelectVoyageEntry(c) \/ RemoveVoyageEntry(c)
    \/ OpenFallbackVoyage
    \/ \E v \in (Voyages \cap born) \cup {NoVoyage} : GoTo(v) \/ Load(v)
    \/ \E slot \in Slots :
         ServeOpen(slot) \/ ServeNew(slot) \/ ServeMove(slot) \/ ServeClose(slot)
         \/ ServeTabs(slot) \/ Answer(slot)
    \/ \E m \in mirrors : ServeMirror(m)
    \/ OtherClient
    \/ SeeWorkspace
    \/ SeeVoyages

Next ==
    \/ dirty = "no" /\ Event
    \/ Render

Spec == Init /\ [][Next]_vars

-----------------------------------------------------------------------------
(* Properties.                                                             *)

Calls  == [does : {"activate", "remove", "delete"}, voyage : AnyVoyage, craft : AnyCraft]
Tabs   == [status : {"pending", "error"},
           request : [does : {"add", "navigate"}, craft : Crafts]]
Shells == [openTab : Tabs \cup {Nothing}, operation : Urls \cup {Nothing},
           mutation : Slots \cup {Nothing}, adding : BOOLEAN, naming : BOOLEAN,
           waiting : Waits \cup {Nothing}, prompt : AnyCraft]

\* The type invariant; the server never has an entry of a craft that is gone.
TypeOK ==
    /\ craft \subseteq Crafts /\ TypeSaved(voyages, craft)
    /\ seenCraft \subseteq Crafts /\ TypeSaved(seenVoyages, Crafts)
    /\ url \in Urls /\ stored \in Urls /\ act \in Urls \cup {Nothing}
    /\ current \in AnyVoyage
    /\ shell \in Shells
    /\ ops \in [Slots -> Ops \cup {Nothing}]
    /\ mirrors \subseteq Calls
    /\ dirty \in {"no", "shell", "route"}
    /\ spent \in 0..MaxAsked
    /\ dirty = "no" => current = (IF Resolves(url) THEN url.voyage ELSE NoVoyage)

\* Nothing is under way and the tab has been sent all there is.
Rest ==
    /\ dirty = "no"
    /\ \A s \in Slots : ops[s] = Nothing
    /\ <<seenCraft, seenVoyages>> = <<craft, voyages>>

\* No Open Craft hangs: when all is at rest no tab shows a craft as being
\* opened and the mutation is not pending, unless the craft that it waits for
\* was deleted before the tab was sent it (openCraftMutation and the effect of
\* pendingWorkspaceSelection).
NothingHangs ==
    Rest => /\ shell.mutation = Nothing
            /\ shell.waiting # Nothing => shell.waiting.craft \notin craft
            /\ shell.openTab # Nothing /\ shell.openTab.status = "pending" => shell.waiting # Nothing

\* When all is at rest, the URL of a voyage names an entry of it, unless it
\* waits for one that was removed before the tab was sent it.
NamesEntry ==
    Rest /\ Resolves(url) =>
        \/ Selects(url)
        \/ act # Nothing /\ act.voyage = url.voyage /\ act.craft \notin voyages[url.voyage].entries

\* "Do not let an old pending activation suppress canonicalization for the
\* currently URL-selected Voyage" (MainUIShellModule.tsx): once rendered, an
\* activation that is pending is one of the voyage of the URL, and at rest
\* the URL names an entry.
RestsOnEntry ==
    /\ dirty = "no" /\ Resolves(url) /\ act # Nothing => act.voyage = url.voyage
    /\ NamesEntry

\* The voyage that an answer is compared with: that of the URL, or else the one
\* that its shell was last rendered for.
LeftIn(op) == IF op.ref = Here THEN url.voyage ELSE op.ref

\* Open Craft pulls nobody back, neither when its answer comes nor when the
\* craft that it waits for does.  An answer that openCraftCompletionStillOwns-
\* Navigation guards navigates only if the URL is in the voyage it was asked
\* for in, or, when its shell has been unmounted (currentSessionIdRef is kept),
\* was when that shell was rendered last: such an answer may navigate out of
\* the voyage that the tab shows by then.  And a render of a tab that is in a
\* voyage goes to another, or activates an entry, only for a craft waited for
\* in the voyage of the URL (pendingWorkspaceSelection).
StaysInVoyage ==
    [][/\ \A s \in Slots :
            /\ ops[s] # Nothing /\ ops'[s] = Nothing /\ spent' = spent
            /\ ops[s].kind \in {"add", "put", "found"}
            /\ ops[s].stage = "done"
            /\ url' # url
            => LeftIn(ops[s]) = ops[s].origin
       /\ /\ dirty # "no" /\ url # Root
          /\ url'.voyage # url.voyage \/ act' \notin {act, Nothing}
          => shell.waiting # Nothing /\ shell.waiting.origin = url.voyage]_vars

\* What has been opened and is on its way stays in the URL: it is not taken
\* back to the entry that the tab still has as the active one.
StaysOpened ==
    [][/\ dirty = "route" /\ Resolves(url)
       /\ act = url /\ url.craft \in seenCraft
       /\ shell.waiting = Nothing
       => url' = url]_vars

\* tests/e2e/voyage-persistence.spec.ts: "does not pull the user back when
\* pending Open Craft finishes after switching voyages", for the craft that
\* persistSavedSelection adds.
NotPulledBack ==
    [][\A s \in Slots :
         /\ ops[s] # Nothing /\ ops'[s] = Nothing /\ spent' = spent
         /\ ops[s].kind = "persist"
         /\ ops[s].stage = "done"
         /\ Mounted /\ ops[s].origin # current
         => url' = url]_vars

=============================================================================
