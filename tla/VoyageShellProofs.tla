------------------------- MODULE VoyageShellProofs -------------------------
(***************************************************************************)
(* Proofs about VoyageShell, for any craft, voyages and slots, any state   *)
(* that the tab is loaded in, and however much is asked for.               *)
(*                                                                         *)
(* Typed types the server, the copies of the tab, its place and requests.  *)
(* Tracked says which request the shell is waiting for: the mutation is    *)
(* one of Open Craft that is under way, and a tab that is pending is for   *)
(* the craft of it, or else for a craft that is waited for.  Rendered says *)
(* what a render leaves: no craft that is waited for has arrived, and the  *)
(* URL names an entry, or waits for one, or its voyage has no active craft *)
(* that the tab knows.                                                     *)
(***************************************************************************)
EXTENDS VoyageShell, TLAPS

USE ShellAssumption

\* A navigation by an answer is to a voyage.
OpTyped(op) ==
    /\ op.stage = "done" /\ op.kind \notin {"close", "tab", "make"} => op.to \in AnyVoyage
    /\ op.kind = "close" => op.to \in AnyCraft \cup {Nothing}

Typed ==
    /\ TypeOK
    /\ \A s \in Slots : ops[s] # Nothing => OpTyped(ops[s])

\* A shell that waits for the request in the slot of its mutation.
Pending(sh) ==
    sh.openTab # Nothing /\ sh.openTab.status = "pending" /\ sh.waiting = Nothing

Tracks(op) ==
    /\ op # Nothing
    /\ op.kind \in {"add", "put", "found"} /\ op.tracked # "no" /\ op.ref = Here

Tracked ==
    /\ shell.mutation # Nothing => Tracks(ops[shell.mutation])
    /\ Pending(shell) =>
         /\ shell.mutation # Nothing
         /\ shell.operation = Url(ops[shell.mutation].origin, ops[shell.mutation].craft)
    /\ ~Mounted => /\ shell = NewShell
                   /\ \A s \in Slots : ops[s] # Nothing => ops[s].ref # Here

Rendered ==
    /\ dirty = "no" /\ shell.waiting # Nothing => shell.waiting.craft \notin seenCraft
    /\ dirty # "route" =>
         /\ current = (IF Resolves(url) THEN url.voyage ELSE NoVoyage)
         /\ Resolves(url) /\ act # Nothing => Awaited(act)
         /\ Resolves(url) /\ act = Nothing =>
              Selects(url) \/ seenVoyages[url.voyage].active \notin seenCraft

Inv == Typed /\ Tracked /\ Rendered

-----------------------------------------------------------------------------
(* Voyages.                                                                *)

\* Of a set that has a member, First is one.
LEMMA FirstIsIn ==
    ASSUME NEW S, S # {}
    PROVE  First(S) \in S
BY DEF First

\* A voyage without an entry, if it has another, has one of those active.
LEMMA WithoutEntryTyped ==
    ASSUME NEW crafts, NEW v \in [entries : SUBSET crafts, active : crafts],
           v.active \in v.entries,
           NEW c \in v.entries, v.entries # {c}
    PROVE  /\ WithoutEntry(v, c) \in [entries : SUBSET (crafts \ {c}), active : crafts \ {c}]
           /\ WithoutEntry(v, c).active \in WithoutEntry(v, c).entries
<1>1. v.entries \ {c} # {}
  OBVIOUS
<1>2. First(v.entries \ {c}) \in v.entries \ {c}
  BY <1>1, FirstIsIn
<1>3. QED
  BY <1>2 DEF WithoutEntry, Voyage

\* Voyages of craft there are, of more craft.
LEMMA MoreCraftTyped ==
    ASSUME NEW vs, NEW crafts, NEW more, crafts \subseteq more, TypeSaved(vs, crafts)
    PROVE  TypeSaved(vs, more)
BY DEF TypeSaved

\* An entry that is added, or made active, is one of a craft there is.
LEMMA WithActiveTyped ==
    ASSUME NEW vs, NEW crafts, TypeSaved(vs, crafts), NEW v \in DOMAIN vs, NEW c
    PROVE  TypeSaved(WithActive(vs, v, c), crafts \cup {c})
<1>1. \A w \in DOMAIN vs :
        vs[w].entries \subseteq crafts /\ vs[w].active \in crafts /\ vs[w].active \in vs[w].entries
  BY DEF TypeSaved
<1>2. /\ DOMAIN WithActive(vs, v, c) = DOMAIN vs
      /\ WithActive(vs, v, c) = [w \in DOMAIN vs |->
           IF w = v THEN Voyage(vs[v].entries \cup {c}, c) ELSE vs[w]]
  BY DEF WithActive, TypeSaved
<1>3. QED
  BY <1>1, <1>2 DEF TypeSaved, Voyage

\* A new voyage is of the craft it is made for.
LEMMA WithNewTyped ==
    ASSUME NEW vs, NEW crafts, TypeSaved(vs, crafts), NEW v \in Voyages, NEW c
    PROVE  TypeSaved(WithNew(vs, v, c), crafts \cup {c})
BY DEF TypeSaved, WithNew, Voyage

\* One voyage loses an entry, but not its last.
LEMMA OneWithoutEntryTyped ==
    ASSUME NEW vs, NEW crafts, TypeSaved(vs, crafts), NEW v \in DOMAIN vs,
           NEW c \in vs[v].entries, vs[v].entries # {c}
    PROVE  TypeSaved([vs EXCEPT ![v] = WithoutEntry(vs[v], c)], crafts)
<1>1. vs[v] \in [entries : SUBSET crafts, active : crafts] /\ vs[v].active \in vs[v].entries
  BY DEF TypeSaved
<1>2. /\ WithoutEntry(vs[v], c) \in [entries : SUBSET crafts, active : crafts]
      /\ WithoutEntry(vs[v], c).active \in WithoutEntry(vs[v], c).entries
  BY <1>1, WithoutEntryTyped
<1>3. QED
  BY <1>2 DEF TypeSaved

\* repairSavedSessionsForWorkspace: no voyage has the craft, none is empty.
LEMMA WithoutCraftTyped ==
    ASSUME NEW vs, NEW crafts, TypeSaved(vs, crafts), NEW c
    PROVE  TypeSaved(WithoutCraft(vs, c), crafts \ {c})
<1> DEFINE left == {w \in DOMAIN vs : vs[w].entries # {c}}
           new(v) == IF c \in vs[v].entries THEN WithoutEntry(vs[v], c) ELSE vs[v]
<1>1. ASSUME NEW v \in left
      PROVE  /\ new(v) \in [entries : SUBSET (crafts \ {c}), active : crafts \ {c}]
             /\ new(v).active \in new(v).entries
  <2>1. vs[v] \in [entries : SUBSET crafts, active : crafts] /\ vs[v].active \in vs[v].entries
    BY DEF TypeSaved
  <2>2. CASE c \in vs[v].entries
    BY <2>1, <2>2, WithoutEntryTyped
  <2>3. CASE c \notin vs[v].entries
    BY <2>1, <2>3
  <2>4. QED
    BY <2>2, <2>3
<1>2. WithoutCraft(vs, c) = [v \in left |-> new(v)]
  BY DEF WithoutCraft
<1>3. left \subseteq Voyages
  BY DEF TypeSaved
<1> HIDE DEF left, new
<1>4. QED
  BY <1>1, <1>2, <1>3 DEF TypeSaved

\* A call that nobody waits for leaves voyages that can be resumed.
LEMMA AppliedTyped ==
    ASSUME TypeSaved(voyages, craft), NEW m
    PROVE  TypeSaved(Applied(m), craft)
<1>1. CASE m.voyage \notin DOMAIN voyages \/ Applied(m) = voyages
  BY <1>1 DEF Applied
<1>2. CASE m.voyage \in DOMAIN voyages /\ m.does = "delete"
  <2>1. Applied(m) = [v \in DOMAIN voyages \ {m.voyage} |-> voyages[v]]
    BY <1>2 DEF Applied, Restrict
  <2>2. QED
    BY <2>1 DEF TypeSaved
<1>3. CASE /\ m.voyage \in DOMAIN voyages /\ m.does # "delete"
           /\ m.craft \in voyages[m.voyage].entries /\ m.does = "activate"
  <2>1. Applied(m) = [voyages EXCEPT ![m.voyage].active = m.craft]
    BY <1>3 DEF Applied
  <2>2. QED
    BY <1>3, <2>1 DEF TypeSaved
<1>4. CASE /\ m.voyage \in DOMAIN voyages /\ m.does \notin {"delete", "activate"}
           /\ m.craft \in voyages[m.voyage].entries
           /\ voyages[m.voyage].entries # {m.craft}
  <2>1. Applied(m) = [voyages EXCEPT ![m.voyage] = WithoutEntry(voyages[m.voyage], m.craft)]
    BY <1>4 DEF Applied
  <2>2. TypeSaved([voyages EXCEPT ![m.voyage] = WithoutEntry(voyages[m.voyage], m.craft)], craft)
    BY <1>4, OneWithoutEntryTyped
  <2>3. QED
    BY <2>1, <2>2
<1>5. QED
  BY <1>1, <1>2, <1>3, <1>4 DEF Applied

-----------------------------------------------------------------------------
(* What events of the tab have in common.                                  *)

Goes == url' \in Urls /\ act' \in Urls \cup {Nothing}

OpsTyped == /\ ops' \in [Slots -> Ops \cup {Nothing}]
            /\ \A s \in Slots : ops'[s] # Nothing => OpTyped(ops'[s])

EventTyped == /\ Goes /\ shell' \in Shells /\ OpsTyped
              /\ mirrors' \subseteq Calls /\ spent' \in 0..MaxAsked

\* After an event the shell is rendered again, and the route if it navigates:
\* what was rendered before is as it was.
LEMMA EventKept ==
    ASSUME Inv, dirty = "no", Rerender, EventTyped, Tracked', Mounted \/ shell' = shell
    PROVE  Inv'
<1>1. /\ UNCHANGED <<craft, voyages, seenCraft, seenVoyages, stored, current>>
      /\ dirty' \in {"no", "shell", "route"}
      /\ dirty' # "route" => url' = url /\ act' = act
      /\ dirty' = "no" => shell' = shell
  BY DEF Rerender, server, copies
<1>2. dirty' # "route" => (Resolves(url)' <=> Resolves(url))
  BY <1>1 DEF Resolves
<1>3. dirty' # "route" => (Selects(url)' <=> Selects(url)) /\ (Awaited(act)' <=> Awaited(act))
  BY <1>1, <1>2 DEF Selects, Awaited
<1>4. Rendered'
  BY <1>1, <1>2, <1>3 DEF Inv, Rendered
<1>5. dirty' = "no" => current' = (IF Resolves(url)' THEN url'.voyage ELSE NoVoyage)
  BY <1>4 DEF Rendered
<1>6. Typed'
  BY <1>1, <1>5 DEF Inv, Typed, TypeOK, EventTyped, Goes, OpsTyped
<1>7. QED
  BY <1>4, <1>6 DEF Inv

\* A shell that waits for nothing new.
Keeps(sh) ==
    /\ sh.mutation \in {shell.mutation, Nothing}
    /\ Pending(sh) => /\ Pending(shell)
                      /\ sh.mutation = shell.mutation /\ sh.operation = shell.operation

\* Such a shell still waits for a request that is under way.
LEMMA KeepsTracked ==
    ASSUME Inv, Mounted, current' = current, Keeps(shell'),
           shell.mutation # Nothing => ops'[shell.mutation] = ops[shell.mutation]
    PROVE  Tracked'
BY DEF Inv, Tracked, Keeps, Mounted, Pending, Tracks, Url

\* A request is sent: the shell waits for it, or for nothing new.
LEMMA SendTracked ==
    ASSUME Inv, Mounted, current' = current,
           NEW slot \in Slots, NEW op \in Ops, ops[slot] = Nothing,
           ops' = [ops EXCEPT ![slot] = op],
           \/ Keeps(shell')
           \/ /\ shell'.mutation = slot /\ Tracks(op)
              /\ Pending(shell') => shell'.operation = Url(op.origin, op.craft)
    PROVE  Tracked'
<1>1. CASE Keeps(shell')
  <2>1. shell.mutation # Nothing => shell.mutation \in Slots /\ shell.mutation # slot
    BY DEF Inv, Typed, TypeOK, Shells, Tracked, Tracks
  <2>2. QED
    BY <1>1, <2>1, KeepsTracked DEF Inv, Typed, TypeOK
<1>2. CASE /\ shell'.mutation = slot /\ Tracks(op)
           /\ Pending(shell') => shell'.operation = Url(op.origin, op.craft)
  <2>1. ops'[slot] = op
    BY DEF Inv, Typed, TypeOK
  <2>2. QED
    BY <1>2, <2>1 DEF Tracked, Tracks, Mounted, Pending
<1>3. QED
  BY <1>1, <1>2

\* A request of the tab.
LEMMA RequestIsOp ==
    ASSUME TypeOK, NEW kind \in Kinds, NEW c \in Crafts,
           NEW to \in AnyVoyage \cup AnyCraft \cup {Nothing},
           NEW tracked \in {"no", "run", "retry"}
    PROVE  /\ Request(kind, c, to, tracked) \in Ops
           /\ (kind = "close" => to \in AnyCraft \cup {Nothing}) => OpTyped(Request(kind, c, to, tracked))
BY DEF Request, Ops, TypeOK, OpTyped

\* Requests keep their types as one is sent.
LEMMA SendTyped ==
    ASSUME Typed, NEW slot \in Slots, NEW op \in Ops, OpTyped(op), Send(slot, op)
    PROVE  OpsTyped /\ spent' \in 0..MaxAsked
BY DEF Typed, TypeOK, Send, Asks, OpsTyped

\* And as none is.
LEMMA NoRequestTyped ==
    ASSUME Typed, NoRequest
    PROVE  OpsTyped /\ spent' \in 0..MaxAsked
BY DEF Typed, TypeOK, NoRequest, Asks, OpsTyped

\* Nor do calls that nobody waits for change type.
LEMMA MirrorTyped ==
    ASSUME TypeOK, NEW does \in {"activate", "remove", "delete"},
           NEW v \in AnyVoyage, NEW c \in AnyCraft, Mirror(Call(does, v, c))
    PROVE  mirrors' \subseteq Calls
BY DEF TypeOK, Mirror, Call, Calls

\* A voyage has a URL with one of its entries.
LEMMA PathIsUrl ==
    ASSUME TypeOK, NEW v \in DOMAIN seenVoyages, NEW c
    PROVE  PathTo(v, c) \in Urls /\ PathTo(v, c).voyage = v
BY DEF TypeOK, TypeSaved, PathTo, Url, Urls, AnyVoyage, AnyCraft

\* updateBookmarkedSessionSearch
LEMMA BookmarkGoes ==
    ASSUME TypeOK, NEW v, NEW c \in AnyCraft, Bookmark(v, c)
    PROVE  Goes
<1>1. CASE v \in DOMAIN seenVoyages
  <2>1. seenVoyages[v].active \in Crafts /\ v \in Voyages
    BY <1>1 DEF TypeOK, TypeSaved
  <2>2. PathTo(v, c) \in Urls
    BY <1>1, PathIsUrl
  <2>3. QED
    BY <1>1, <2>1, <2>2 DEF Bookmark, Goes, Url, Urls, AnyVoyage, AnyCraft
<1>2. CASE v \notin DOMAIN seenVoyages
  BY <1>2 DEF Bookmark, Goes, TypeOK
<1>3. QED
  BY <1>1, <1>2

\* The entries of the tab are craft it has been sent.
LEMMA NavEntriesAre == ASSUME TypeOK PROVE NavEntries \subseteq Crafts \cap seenCraft
BY DEF TypeOK, TypeSaved, NavEntries

\* An event that sends no request.
LEMMA GoKept ==
    ASSUME Inv, dirty = "no", Rerender, NoRequest, Goes, mirrors' \subseteq Calls,
           shell' \in Shells, shell' = shell \/ (Mounted /\ Keeps(shell'))
    PROVE  Inv'
<1>1. OpsTyped /\ spent' \in 0..MaxAsked /\ ops' = ops
  BY NoRequestTyped DEF Inv, NoRequest
<1>2. current' = current
  BY DEF Rerender
<1>3. Tracked'
  <2>1. CASE Mounted
    <3>1. Keeps(shell')
      BY DEF Keeps
    <3>2. QED
      BY <1>1, <1>2, <2>1, <3>1, KeepsTracked
  <2>2. CASE ~Mounted
    BY <1>1, <1>2, <2>2 DEF Inv, Tracked, Mounted
  <2>3. QED
    BY <2>1, <2>2
<1>4. QED
  BY <1>1, <1>3, EventKept DEF EventTyped

\* An event that sends one.
LEMMA AskKept ==
    ASSUME Inv, dirty = "no", Rerender, Mounted,
           NEW slot \in Slots, NEW op \in Ops, OpTyped(op), Send(slot, op),
           Goes, mirrors' \subseteq Calls, shell' \in Shells,
           \/ Keeps(shell')
           \/ /\ shell'.mutation = slot /\ Tracks(op)
              /\ Pending(shell') => shell'.operation = Url(op.origin, op.craft)
    PROVE  Inv'
<1>1. OpsTyped /\ spent' \in 0..MaxAsked
  BY SendTyped DEF Inv
<1>2. ops[slot] = Nothing /\ ops' = [ops EXCEPT ![slot] = op] /\ current' = current
  BY DEF Send, Rerender
<1>3. Tracked'
  BY <1>2, SendTracked
<1>4. QED
  BY <1>1, <1>3, EventKept DEF EventTyped

\* The URL stays.
LEMMA StayGoes == ASSUME TypeOK, Stay PROVE Goes
BY DEF TypeOK, Stay, Goes

\* A shell without an operation.
LEMMA NewShellTyped == NewShell \in Shells
BY DEF NewShell, Shells, AnyCraft

\* A shell whose operation is given up.
LEMMA ClearedTyped ==
    ASSUME NEW sh \in Shells
    PROVE  /\ Cleared(sh) \in Shells /\ ResetOf(sh) \in Shells
           /\ Cleared(sh).mutation = sh.mutation /\ ResetOf(sh).mutation = Nothing
           /\ ~Pending(Cleared(sh)) /\ ~Pending(ResetOf(sh))
           /\ Cleared(sh).waiting = Nothing /\ ResetOf(sh).waiting = Nothing
BY DEF Cleared, ResetOf, NewShell, Shells, Pending

\* An event of the search, the tab of a craft that is opened, and the prompt.
LEMMA ShellEvents ==
    ASSUME Inv, dirty = "no",
           \/ \E b \in BOOLEAN : OpenSearch(b) \/ CloseSearch(b)
           \/ ClosePendingOpenCraftTab \/ CloseDuplicateCraftPrompt
    PROVE  Inv'
<1>1. /\ Mounted /\ Rerender /\ NoRequest /\ Stay /\ mirrors' = mirrors
      /\ shell \in Shells /\ TypeOK
  BY DEF OpenSearch, CloseSearch, ClosePendingOpenCraftTab, CloseDuplicateCraftPrompt,
         ShellOnly, Ready, Inv, Typed, TypeOK
<1>2. Goes /\ mirrors' \subseteq Calls
  BY <1>1, StayGoes DEF TypeOK
<1>3. shell' \in Shells /\ Keeps(shell')
  <2>1. ASSUME NEW b \in BOOLEAN, OpenSearch(b)
        PROVE  shell' \in Shells /\ Keeps(shell')
    BY <1>1, <2>1 DEF OpenSearch, Shells, Keeps, Pending
  <2>2. ASSUME NEW b \in BOOLEAN, CloseSearch(b)
        PROVE  shell' \in Shells /\ Keeps(shell')
    BY <1>1, <2>2 DEF CloseSearch, Shells, Keeps, Pending
  <2>3. CASE ClosePendingOpenCraftTab
    BY <1>1, <2>3, ClearedTyped DEF ClosePendingOpenCraftTab, Keeps
  <2>4. CASE CloseDuplicateCraftPrompt
    BY <1>1, <2>4 DEF CloseDuplicateCraftPrompt, Answered, Shells, Keeps, Pending, AnyCraft
  <2>5. QED
    BY <2>1, <2>2, <2>3, <2>4
<1>4. QED
  BY <1>1, <1>2, <1>3, GoKept

\* The prompt is answered.
LEMMA AnsweredTyped ==
    ASSUME TypeOK
    PROVE  Answered(shell) \in Shells /\ Keeps(Answered(shell)) /\ shell.prompt \in AnyCraft
BY DEF TypeOK, Answered, Shells, Keeps, Pending, AnyCraft

\* persistSavedSelection, of an entry that the voyage has.
LEMMA ShowEntryGoes ==
    ASSUME TypeOK, NEW c, ShowEntry(c)
    PROVE  c \in Crafts /\ Goes /\ mirrors' \subseteq Calls /\ NoRequest
<1>1. c \in Crafts /\ c \in AnyCraft
  BY NavEntriesAre DEF ShowEntry, AnyCraft
<1>2. Goes
  BY <1>1, BookmarkGoes DEF ShowEntry
<1>3. mirrors' \subseteq Calls
  BY <1>1, MirrorTyped DEF ShowEntry, TypeOK
<1>4. QED
  BY <1>1, <1>2, <1>3 DEF ShowEntry

\* Events that navigate, with a call that nobody waits for or without one.
LEMMA GoEvents ==
    ASSUME Inv, dirty = "no",
           \/ SwitchToExistingCraft
           \/ \E v \in Voyages : SwitchToCraftInOtherVoyage(v) \/ ResumeSession(v) \/ DeleteSession(v)
           \/ \E c \in Crafts : SelectVoyageEntry(c) \/ RemoveVoyageEntry(c)
           \/ OpenFallbackVoyage
           \/ \E v \in (Voyages \cap born) \cup {NoVoyage} : GoTo(v)
    PROVE  Inv'
<1>1. TypeOK /\ shell \in Shells /\ mirrors \subseteq Calls /\ current \in AnyVoyage
      /\ NoCraft \in AnyCraft /\ NoVoyage \in AnyVoyage
      /\ Crafts \subseteq AnyCraft /\ Voyages \subseteq AnyVoyage
  BY DEF Inv, Typed, TypeOK, AnyCraft, AnyVoyage
<1>2. CASE SwitchToExistingCraft
  <2>1. Goes
    BY <1>1, <1>2, AnsweredTyped, BookmarkGoes DEF SwitchToExistingCraft
  <2>2. mirrors' \subseteq Calls
    BY <1>1, <1>2, AnsweredTyped, MirrorTyped DEF SwitchToExistingCraft
  <2>3. QED
    BY <1>1, <1>2, <2>1, <2>2, AnsweredTyped, GoKept DEF SwitchToExistingCraft, Ready
<1>3. ASSUME NEW v \in Voyages, SwitchToCraftInOtherVoyage(v)
      PROVE  Inv'
  <2>1. Goes
    BY <1>1, <1>3, AnsweredTyped, BookmarkGoes DEF SwitchToCraftInOtherVoyage
  <2>2. QED
    BY <1>1, <1>3, <2>1, AnsweredTyped, GoKept DEF SwitchToCraftInOtherVoyage, Ready
<1>4. ASSUME NEW v \in Voyages, ResumeSession(v)
      PROVE  Inv'
  <2>1. Goes
    BY <1>1, <1>4, BookmarkGoes DEF ResumeSession
  <2>2. QED
    BY <1>1, <1>4, <2>1, GoKept DEF ResumeSession
<1>5. ASSUME NEW v \in Voyages, DeleteSession(v)
      PROVE  Inv'
  <2>1. Goes
    BY <1>1, <1>5, BookmarkGoes, StayGoes DEF DeleteSession
  <2>2. mirrors' \subseteq Calls
    BY <1>1, <1>5, MirrorTyped DEF DeleteSession
  <2>3. QED
    BY <1>1, <1>5, <2>1, <2>2, GoKept DEF DeleteSession
<1>6. ASSUME NEW c \in Crafts, SelectVoyageEntry(c)
      PROVE  Inv'
  <2>1. Goes /\ mirrors' \subseteq Calls /\ NoRequest
    BY <1>1, <1>6, ShowEntryGoes DEF SelectVoyageEntry
  <2>2. shell' \in Shells /\ Keeps(shell')
    BY <1>1, <1>6, ClearedTyped DEF SelectVoyageEntry, Keeps
  <2>3. QED
    BY <1>6, <2>1, <2>2, GoKept DEF SelectVoyageEntry, Ready
<1>7. ASSUME NEW c \in Crafts, RemoveVoyageEntry(c)
      PROVE  Inv'
  <2>1. Goes
    <3>1. ASSUME NEW f \in NavEntries \ {c}, Bookmark(current, f)
          PROVE  Goes
      BY <1>1, <3>1, NavEntriesAre, BookmarkGoes
    <3>2. QED
      BY <1>1, <1>7, <3>1, StayGoes DEF RemoveVoyageEntry
  <2>2. mirrors' \subseteq Calls
    BY <1>1, <1>7, MirrorTyped DEF RemoveVoyageEntry
  <2>3. QED
    BY <1>1, <1>7, <2>1, <2>2, GoKept DEF RemoveVoyageEntry
<1>8. CASE OpenFallbackVoyage
  <2>1. DOMAIN seenVoyages \subseteq AnyVoyage
    BY <1>1 DEF TypeOK, TypeSaved
  <2>2. Goes
    BY <1>1, <1>8, <2>1 DEF OpenFallbackVoyage, Goes, Url, Urls, TypeOK
  <2>3. QED
    BY <1>1, <1>8, <2>2, GoKept DEF OpenFallbackVoyage
<1>9. ASSUME NEW v \in (Voyages \cap born) \cup {NoVoyage}, GoTo(v)
      PROVE  Inv'
  <2>1. Goes
    BY <1>1, <1>9 DEF GoTo, Goes, Url, Urls, TypeOK
  <2>2. QED
    BY <1>1, <1>9, <2>1, GoKept DEF GoTo
<1>10. QED
  BY <1>2, <1>3, <1>4, <1>5, <1>6, <1>7, <1>8, <1>9

\* An event that sends a request and changes the shell in nothing it waits for.
LEMMA FreeKept ==
    ASSUME Inv, dirty = "no", Rerender, Mounted, Stay, mirrors' = mirrors,
           NEW slot \in Slots, NEW kind \in Kinds, NEW c \in Crafts,
           NEW to \in AnyVoyage \cup AnyCraft \cup {Nothing},
           kind = "close" => to \in AnyCraft \cup {Nothing},
           Send(slot, Request(kind, c, to, "no")),
           shell' \in Shells, Keeps(shell')
    PROVE  Inv'
<1>1. TypeOK /\ "no" \in {"no", "run", "retry"}
  BY DEF Inv, Typed
<1>2. Request(kind, c, to, "no") \in Ops /\ OpTyped(Request(kind, c, to, "no"))
  BY <1>1, RequestIsOp
<1>3. Goes /\ mirrors' \subseteq Calls
  BY <1>1, StayGoes DEF TypeOK
<1>4. QED
  BY <1>2, <1>3, AskKept

\* A shell that is as it was waits for nothing new.
LEMMA SameKeeps == Keeps(shell)
BY DEF Keeps

\* Requests whose answers navigate freely, the prompt's, and an entry that is
\* missing in a selection.
LEMMA AskEvents ==
    ASSUME Inv, dirty = "no",
           NEW slot \in Slots, NEW c \in Crafts,
           \/ SelectTabGroup(slot, c)
           \/ \E to \in Voyages \cup {NoVoyage} : MoveVoyageEntry(slot, c, to)
           \/ CloseTabGroup(slot, c) \/ ChangeTabs(slot, c)
           \/ AddTabGroup(slot, c) \/ CreateNamedVoyage(slot, c)
           \/ OpenCraftInNewVoyage(slot)
    PROVE  Inv'
<1>1. TypeOK /\ shell \in Shells /\ current \in AnyVoyage
      /\ NoCraft \in AnyCraft /\ NoVoyage \in AnyVoyage
      /\ Crafts \subseteq AnyCraft /\ Voyages \subseteq AnyVoyage
      /\ {"persist", "move", "close", "tab", "make", "start", "found"} \subseteq Kinds
  BY DEF Inv, Typed, TypeOK, AnyCraft, AnyVoyage, Kinds
<1>2. ASSUME NEW kind \in Kinds, NEW d \in Crafts,
             NEW to \in AnyVoyage \cup AnyCraft \cup {Nothing},
             kind = "close" => to \in AnyCraft \cup {Nothing},
             Free(slot, Request(kind, d, to, "no"))
      PROVE  Inv'
  <2>1. /\ Rerender /\ Mounted /\ Stay /\ mirrors' = mirrors /\ shell' = shell
        /\ Send(slot, Request(kind, d, to, "no"))
    BY <1>2 DEF Free, Ready
  <2>2. QED
    BY <1>1, <1>2, <2>1, SameKeeps, FreeKept
<1>3. CASE SelectTabGroup(slot, c)
  <2>1. Mounted /\ Rerender /\ shell' = shell
    BY <1>3 DEF SelectTabGroup, Ready
  <2>2. CASE ShowEntry(c)
    BY <1>1, <2>1, <2>2, ShowEntryGoes, GoKept
  <2>3. CASE AddEntry(slot, c)
    BY <1>1, <2>1, <2>3, SameKeeps, FreeKept DEF AddEntry
  <2>4. QED
    BY <1>3, <2>2, <2>3 DEF SelectTabGroup
<1>4. ASSUME NEW to \in Voyages \cup {NoVoyage}, MoveVoyageEntry(slot, c, to)
      PROVE  Inv'
  BY <1>1, <1>2, <1>4 DEF MoveVoyageEntry
<1>5. CASE CloseTabGroup(slot, c)
  <2>1. PICK next \in AfterClosing(c) : Free(slot, Request("close", c, next, "no"))
    BY <1>5 DEF CloseTabGroup
  <2>2. next \in AnyCraft \cup {Nothing}
    BY <1>1, NavEntriesAre DEF AfterClosing
  <2>3. QED
    BY <1>1, <1>2, <2>1, <2>2
<1>6. CASE ChangeTabs(slot, c)
  <2>1. (IF c \in NavEntries THEN current ELSE NoVoyage) \in AnyVoyage
    BY <1>1
  <2>2. QED
    BY <1>1, <1>2, <1>6, <2>1 DEF ChangeTabs
<1>7. CASE AddTabGroup(slot, c)
  BY <1>1, <1>2, <1>7 DEF AddTabGroup
<1>8. CASE CreateNamedVoyage(slot, c)
  BY <1>1, <1>2, <1>8 DEF CreateNamedVoyage
<1>9. CASE OpenCraftInNewVoyage(slot)
  <2>1. /\ Rerender /\ Mounted /\ Stay /\ mirrors' = mirrors
        /\ shell' = Answered(shell) /\ shell.prompt \in Crafts
        /\ Send(slot, Request("found", shell.prompt, NoVoyage, "no"))
    BY <1>1, <1>9, AnsweredTyped DEF OpenCraftInNewVoyage, Ready, AnyCraft
  <2>2. QED
    BY <1>1, <2>1, AnsweredTyped, FreeKept
<1>10. QED
  BY <1>3, <1>4, <1>5, <1>6, <1>7, <1>8, <1>9

\* createFirstVoyageFromCurrentCraft, while no shell is mounted.
LEMMA CreateFirstKept ==
    ASSUME Inv, NEW slot \in Slots, NEW c \in Crafts, CreateFirstVoyage(slot, c)
    PROVE  Inv'
<1> DEFINE op == [Request("first", c, NoVoyage, "no") EXCEPT !.ref = NoVoyage]
<1>1. /\ TypeOK /\ dirty = "no" /\ Rerender /\ Stay /\ shell' = shell /\ mirrors' = mirrors
      /\ Send(slot, op) /\ current' = current /\ DOMAIN seenVoyages = {}
  BY DEF Inv, Typed, CreateFirstVoyage, Rerender
<1>2. ~Mounted
  BY <1>1 DEF TypeOK, Resolves, Mounted
<1>3. op \in Ops /\ OpTyped(op) /\ op.ref # Here
  BY <1>1 DEF Request, TypeOK, Ops, Kinds, OpTyped, AnyVoyage
<1>4. ops' = [ops EXCEPT ![slot] = op]
  BY <1>1 DEF Send
<1>5. OpsTyped /\ spent' \in 0..MaxAsked
  BY <1>1, <1>3, SendTyped DEF Inv
<1>6. Tracked'
  <2>1. shell = NewShell /\ \A s \in Slots : ops[s] # Nothing => ops[s].ref # Here
    BY <1>2 DEF Inv, Tracked
  <2>2. shell' = NewShell /\ \A s \in Slots : ops'[s] # Nothing => ops'[s].ref # Here
    BY <1>1, <1>3, <1>4, <2>1 DEF TypeOK
  <2>3. QED
    BY <2>2 DEF Tracked, NewShell, Pending
<1>7. Goes
  BY <1>1, StayGoes
<1>8. EventTyped
  BY <1>1, <1>5, <1>7 DEF EventTyped, TypeOK
<1>9. QED
  BY <1>1, <1>6, <1>8, EventKept

-----------------------------------------------------------------------------
(* Open Craft.                                                             *)

Requests == [does : {"add", "navigate"}, craft : Crafts]

\* The shell that Perform starts from: the one there is, without the mutation,
\* or else one that shows the craft as being opened.
StartsFrom(request, how, sh) ==
    /\ sh \in Shells
    /\ \/ how = "no" /\ sh = shell
       \/ how \in {"run", "retry"} /\ sh.operation = Url(current, request.craft)

\* A request of Open Craft is sent, and the mutation waits for it.
LEMMA SentKept ==
    ASSUME Inv, dirty = "no", Rerender, Mounted, Stay, mirrors' = mirrors,
           NEW slot \in Slots, NEW request \in Requests, NEW how, NEW sh,
           StartsFrom(request, how, sh),
           NEW op \in Ops, OpTyped(op), Send(slot, op),
           op.kind \in {"add", "put", "found"}, op.tracked = how, op.ref = Here,
           op.origin = current, op.craft = request.craft,
           shell' = [sh EXCEPT !.mutation = IF how = "no" THEN sh.mutation ELSE slot]
    PROVE  Inv'
<1>1. TypeOK /\ shell \in Shells
  BY DEF Inv, Typed, TypeOK
<1>2. Goes /\ mirrors' \subseteq Calls
  BY <1>1, StayGoes DEF TypeOK
<1>3. shell' \in Shells
  BY DEF StartsFrom, Shells
<1>4. CASE how = "no"
  <2>1. shell' = shell
    BY <1>1, <1>4 DEF StartsFrom, Shells
  <2>2. QED
    BY <1>2, <1>3, <2>1, SameKeeps, AskKept
<1>5. CASE how # "no"
  <2>1. Tracks(op)
    BY <1>5 DEF Tracks
  <2>2. shell'.mutation = slot /\ shell'.operation = Url(op.origin, op.craft)
    BY <1>5 DEF StartsFrom, Shells
  <2>3. QED
    BY <1>2, <1>3, <2>1, <2>2, AskKept
<1>6. QED
  BY <1>4, <1>5

\* The mutation that has nothing to send.
LEMMA DoneKeeps ==
    ASSUME Inv, NEW request \in Requests, NEW how, NEW sh, StartsFrom(request, how, sh),
           NEW done, done = [sh EXCEPT !.openTab = Nothing,
                                       !.mutation = IF how = "no" THEN sh.mutation ELSE Nothing]
    PROVE  /\ done \in Shells /\ Keeps(done)
           /\ [done EXCEPT !.adding = FALSE] \in Shells /\ Keeps([done EXCEPT !.adding = FALSE])
           /\ [done EXCEPT !.prompt = request.craft] \in Shells
           /\ Keeps([done EXCEPT !.prompt = request.craft])
<1>1. done \in Shells /\ done.openTab = Nothing /\ done.mutation \in {shell.mutation, Nothing}
  BY DEF StartsFrom, Shells
<1>2. request.craft \in AnyCraft
  BY DEF Requests, AnyCraft
<1>3. QED
  BY <1>1, <1>2 DEF Shells, Keeps, Pending

\* openCraftMutation, for a request: it is sent, or there is nothing to send.
LEMMA PerformKept ==
    ASSUME Inv, dirty = "no", Rerender, Mounted,
           NEW slot \in Slots, NEW request \in Requests, NEW how, NEW sh,
           StartsFrom(request, how, sh), Perform(slot, request, how, sh)
    PROVE  Inv'
<1> DEFINE c    == request.craft
           last == IF how = "no" THEN sh.mutation ELSE Nothing
           done == [sh EXCEPT !.openTab = Nothing, !.mutation = last]
           sent == [sh EXCEPT !.mutation = IF how = "no" THEN last ELSE slot]
<1>1. /\ TypeOK /\ current \in AnyVoyage /\ NoVoyage \in AnyVoyage
      /\ c \in Crafts /\ request.does \in {"add", "navigate"}
      /\ how \in {"no", "run", "retry"} /\ {"add", "put", "found", "persist"} \subseteq Kinds
      /\ shell \in Shells
  BY DEF Inv, Typed, TypeOK, Requests, StartsFrom, AnyVoyage, Kinds
<1>2. sent = [sh EXCEPT !.mutation = IF how = "no" THEN sh.mutation ELSE slot]
  OBVIOUS
<1>3. /\ done \in Shells /\ Keeps(done)
      /\ [done EXCEPT !.adding = FALSE] \in Shells /\ Keeps([done EXCEPT !.adding = FALSE])
      /\ [done EXCEPT !.prompt = c] \in Shells /\ Keeps([done EXCEPT !.prompt = c])
  BY DoneKeeps
<1>4. CASE /\ Send(slot, [Request("found", c, NoVoyage, how) EXCEPT !.request = request.does])
           /\ shell' = sent /\ Stay /\ mirrors' = mirrors
  <2> DEFINE op == [Request("found", c, NoVoyage, how) EXCEPT !.request = request.does]
  <2>1. /\ op \in Ops /\ OpTyped(op)
        /\ op.kind = "found" /\ op.tracked = how /\ op.ref = Here
        /\ op.origin = current /\ op.craft = c
    BY <1>1 DEF Request, Ops, TypeOK, OpTyped, AnyVoyage
  <2> HIDE DEF op
  <2>2. Send(slot, op)
    BY <1>4 DEF op
  <2>3. QED
    BY <1>2, <1>4, <2>1, <2>2, SentKept
<1>5. ASSUME NEW kind \in {"add", "put"}, Send(slot, Request(kind, c, current, how)),
             shell' = sent, Stay, mirrors' = mirrors
      PROVE  Inv'
  <2> DEFINE op == Request(kind, c, current, how)
  <2>1. op \in Ops /\ OpTyped(op)
    BY <1>1, RequestIsOp
  <2>2. /\ op.kind = kind /\ op.tracked = how /\ op.ref = Here
        /\ op.origin = current /\ op.craft = c
    BY DEF Request
  <2> HIDE DEF op
  <2>3. Send(slot, op)
    BY <1>5 DEF op
  <2>4. QED
    BY <1>2, <1>5, <2>1, <2>2, <2>3, SentKept
<1>6. CASE ShowEntry(c) /\ shell' = [done EXCEPT !.adding = FALSE]
  BY <1>1, <1>3, <1>6, ShowEntryGoes, GoKept
<1>7. CASE Stay /\ NoRequest /\ mirrors' = mirrors /\ shell' = [done EXCEPT !.prompt = c]
  BY <1>1, <1>3, <1>7, StayGoes, GoKept DEF TypeOK
<1>8. CASE AddEntry(slot, c) /\ shell' = [done EXCEPT !.adding = FALSE]
  BY <1>1, <1>3, <1>8, FreeKept DEF AddEntry
<1>9. QED
  BY <1>4, <1>5, <1>6, <1>7, <1>8 DEF Perform

\* Open Craft, its retry, and the sidebar's.
LEMMA OpenEvents ==
    ASSUME Inv, dirty = "no", NEW slot \in Slots,
           \/ \E c \in Crafts : \/ \E does \in {"add", "navigate"} : OpenCraft(slot, does, c)
                                \/ NavigateToTabGroup(slot, c)
           \/ RetryOpenCraft(slot)
    PROVE  Inv'
<1>1. TypeOK /\ shell \in Shells /\ current \in AnyVoyage
  BY DEF Inv, Typed, TypeOK
<1>2. ASSUME NEW request \in Requests, NEW how \in {"run", "retry"}
      PROVE  StartsFrom(request, how, Opening(request, shell))
  BY <1>1 DEF StartsFrom, Opening, Requests, Shells, Tabs, Url, Urls, AnyCraft
<1>3. ASSUME NEW c \in Crafts, NEW does \in {"add", "navigate"}, OpenCraft(slot, does, c)
      PROVE  Inv'
  <2> DEFINE request == [does |-> does, craft |-> c]
  <2>1. request \in Requests
    BY DEF Requests
  <2>2. Mounted /\ Rerender /\ Perform(slot, request, "run", Opening(request, shell))
    BY <1>3 DEF OpenCraft, Ready
  <2> HIDE DEF request
  <2>3. StartsFrom(request, "run", Opening(request, shell))
    BY <1>2, <2>1
  <2>4. QED
    BY <2>1, <2>2, <2>3, PerformKept
<1>4. ASSUME NEW c \in Crafts, NavigateToTabGroup(slot, c)
      PROVE  Inv'
  <2> DEFINE request == [does |-> "navigate", craft |-> c]
  <2>1. request \in Requests
    BY DEF Requests
  <2>2. Mounted /\ Rerender /\ Perform(slot, request, "no", shell)
    BY <1>4 DEF NavigateToTabGroup, Ready
  <2>3. StartsFrom(request, "no", shell)
    BY <1>1 DEF StartsFrom
  <2> HIDE DEF request
  <2>4. QED
    BY <2>1, <2>2, <2>3, PerformKept
<1>5. CASE RetryOpenCraft(slot)
  <2> DEFINE request == shell.openTab.request
  <2>1. request \in Requests
    BY <1>1, <1>5 DEF RetryOpenCraft, Shells, Tabs, Requests
  <2>2. Mounted /\ Rerender /\ Perform(slot, request, "retry", Opening(request, shell))
    BY <1>5 DEF RetryOpenCraft, Ready
  <2> HIDE DEF request
  <2>3. StartsFrom(request, "retry", Opening(request, shell))
    BY <1>2, <2>1
  <2>4. QED
    BY <2>1, <2>2, <2>3, PerformKept
<1>6. QED
  BY <1>3, <1>4, <1>5

-----------------------------------------------------------------------------
(* The server and other clients.                                           *)

\* What they do is not seen yet by the tab.
LEMMA OthersKept ==
    ASSUME Inv, Others, craft' \subseteq Crafts, TypeSaved(voyages', craft'),
           OpsTyped, mirrors' \subseteq Calls, spent' \in 0..MaxAsked, Tracked'
    PROVE  Inv'
<1>1. /\ UNCHANGED <<seenCraft, seenVoyages, url, act, stored, current, shell, dirty>>
  BY DEF Others, copies, place
<1>2. (Resolves(url)' <=> Resolves(url)) /\ (Selects(url)' <=> Selects(url))
      /\ (Awaited(act)' <=> Awaited(act))
  BY <1>1 DEF Resolves, Selects, Awaited
<1>3. Rendered'
  BY <1>1, <1>2 DEF Inv, Rendered
<1>4. Typed'
  BY <1>1, <1>2 DEF Inv, Typed, TypeOK, OpsTyped
<1>5. QED
  BY <1>3, <1>4 DEF Inv

\* A request that is done is still the one that the shell waits for.
LEMMA ServeKept ==
    ASSUME Inv, NEW slot \in Slots, ops[slot] # Nothing,
           NEW cs \in SUBSET Crafts, NEW vs, TypeSaved(vs, cs),
           NEW v \in AnyVoyage \cup AnyCraft \cup {Nothing}, NEW c \in Crafts,
           ops[slot].kind \notin {"close", "tab", "make"} => v \in AnyVoyage,
           ops[slot].kind = "close" => v \in AnyCraft \cup {Nothing},
           ops[slot].kind \in {"add", "put", "found"} => c = ops[slot].craft,
           Serve(slot, cs, vs, v, c)
    PROVE  Inv'
<1> DEFINE op   == ops[slot]
           done == [op EXCEPT !.stage = "done", !.to = v, !.craft = c]
<1>1. /\ TypeOK /\ ops \in [Slots -> Ops \cup {Nothing}] /\ op \in Ops
      /\ \A s \in Slots : ops[s] # Nothing => OpTyped(ops[s])
  BY DEF Inv, Typed, TypeOK
<1>2. /\ done \in Ops /\ OpTyped(done) /\ done.ref = op.ref
      /\ done.kind = op.kind /\ done.origin = op.origin /\ done.tracked = op.tracked
      /\ op.kind \in {"add", "put", "found"} => done.craft = op.craft
  BY <1>1 DEF Ops, OpTyped
<1>3. /\ Others /\ craft' = cs /\ voyages' = vs /\ mirrors' = mirrors /\ spent' = spent
      /\ current' = current /\ shell' = shell
      /\ ops' = [ops EXCEPT ![slot] = IF op.ref = Gone THEN Nothing ELSE done]
  BY DEF Serve, Others, place
<1> HIDE DEF op, done
<1>4. OpsTyped
  BY <1>1, <1>2, <1>3 DEF OpsTyped
<1>5. \A s \in Slots : Tracks(ops[s]) =>
        /\ Tracks(ops'[s])
        /\ ops'[s].origin = ops[s].origin /\ ops'[s].craft = ops[s].craft
  <2>1. Gone # Here
    BY DEF Gone, Here
  <2>2. QED
    BY <1>1, <1>2, <1>3, <2>1 DEF Tracks, op
<1>6. \A s \in Slots : ops'[s] # Nothing => ops[s] # Nothing /\ ops'[s].ref = ops[s].ref
  BY <1>1, <1>2, <1>3 DEF op
<1>7. shell.mutation \in Slots \cup {Nothing}
  BY <1>1 DEF TypeOK, Shells
<1>8. Tracked'
  <2>1. Tracked /\ (Mounted' <=> Mounted) /\ (Pending(shell') <=> Pending(shell))
    BY <1>3 DEF Inv, Mounted, Pending
  <2>2. shell.mutation # Nothing =>
          /\ Tracks(ops'[shell.mutation])
          /\ ops'[shell.mutation].origin = ops[shell.mutation].origin
          /\ ops'[shell.mutation].craft = ops[shell.mutation].craft
    BY <1>5, <1>7, <2>1 DEF Tracked
  <2>3. Pending(shell) =>
          /\ shell.mutation # Nothing
          /\ shell.operation = Url(ops'[shell.mutation].origin, ops'[shell.mutation].craft)
    BY <2>1, <2>2 DEF Tracked, Url
  <2>4. ~Mounted => shell = NewShell /\ \A s \in Slots : ops'[s] # Nothing => ops'[s].ref # Here
    BY <1>6, <2>1 DEF Tracked
  <2>5. QED
    BY <1>3, <2>1, <2>2, <2>3, <2>4 DEF Tracked
<1>9. QED
  BY <1>1, <1>3, <1>4, <1>8, OthersKept DEF TypeOK

\* A request is served.
LEMMA ServeEvents ==
    ASSUME Inv, NEW slot \in Slots,
           \/ ServeOpen(slot) \/ ServeNew(slot) \/ ServeMove(slot)
           \/ ServeClose(slot) \/ ServeTabs(slot)
    PROVE  Inv'
<1> DEFINE op == ops[slot]
<1>1. /\ op # Nothing /\ op \in Ops /\ op.craft \in Crafts /\ op.origin \in AnyVoyage
      /\ OpTyped(op) /\ op.to \in AnyVoyage \cup AnyCraft \cup {Nothing}
      /\ craft \subseteq Crafts /\ TypeSaved(voyages, craft) /\ craft \cup {op.craft} \subseteq Crafts
      /\ craft \subseteq craft \cup {op.craft}
  <2>1. op # Nothing
    BY DEF ServeOpen, ServeNew, ServeMove, ServeClose, ServeTabs, IsSent
  <2>2. QED
    BY <2>1 DEF Inv, Typed, TypeOK, Ops
<1>2. CASE ServeOpen(slot)
  <2>1. /\ op.kind \in {"add", "put", "persist"} /\ op.origin \in DOMAIN voyages
        /\ Serve(slot, craft \cup {op.craft}, WithActive(voyages, op.origin, op.craft),
                 op.origin, op.craft)
    BY <1>2 DEF ServeOpen, IsSent
  <2>2. TypeSaved(WithActive(voyages, op.origin, op.craft), craft \cup {op.craft})
    BY <1>1, <2>1, WithActiveTyped
  <2> HIDE DEF op
  <2>3. QED
    BY <1>1, <2>1, <2>2, ServeKept DEF op
<1>3. CASE ServeNew(slot)
  <2>1. PICK v \in Voyages \ born :
          Serve(slot, craft \cup {op.craft}, WithNew(voyages, v, op.craft), v, op.craft)
    BY <1>3 DEF ServeNew
  <2>2. op.kind \in {"found", "start", "first"}
    BY <1>3 DEF ServeNew, IsSent
  <2>3. TypeSaved(WithNew(voyages, v, op.craft), craft \cup {op.craft}) /\ v \in AnyVoyage
    BY <1>1, WithNewTyped DEF AnyVoyage
  <2> HIDE DEF op
  <2>4. QED
    BY <1>1, <2>1, <2>2, <2>3, ServeKept DEF op
<1>4. CASE ServeMove(slot)
  <2> DEFINE from == WithoutEntry(voyages[op.origin], op.craft)
             rest == [voyages EXCEPT ![op.origin] = from]
  <2>1. /\ op.kind = "move" /\ op.origin \in DOMAIN voyages
        /\ op.craft \in voyages[op.origin].entries
        /\ voyages[op.origin].entries # {op.craft}
    BY <1>4 DEF ServeMove, IsSent
  <2>2. \/ /\ op.to \in DOMAIN voyages
           /\ Serve(slot, craft, WithActive(rest, op.to, op.craft), op.origin, from.active)
        \/ \E v \in Voyages \ born :
             Serve(slot, craft, WithNew(rest, v, op.craft), op.origin, from.active)
    BY <1>4 DEF ServeMove
  <2>3. TypeSaved(rest, craft)
    BY <1>1, <2>1, OneWithoutEntryTyped
  <2>4. /\ voyages[op.origin] \in [entries : SUBSET craft, active : craft]
        /\ voyages[op.origin].active \in voyages[op.origin].entries
        /\ DOMAIN rest = DOMAIN voyages
    BY <1>1, <2>1 DEF TypeSaved
  <2>5. from.active \in Crafts /\ craft \cup {op.craft} = craft
    <3>1. from \in [entries : SUBSET (craft \ {op.craft}), active : craft \ {op.craft}]
      BY <2>1, <2>4, WithoutEntryTyped
    <3>2. from.active \in craft
      BY <3>1
    <3>3. QED
      BY <1>1, <2>1, <2>4, <3>2
  <2> HIDE DEF op, from, rest
  <2>6. CASE op.to \in DOMAIN voyages
             /\ Serve(slot, craft, WithActive(rest, op.to, op.craft), op.origin, from.active)
    <3>1. TypeSaved(WithActive(rest, op.to, op.craft), craft \cup {op.craft})
      BY <2>3, <2>4, <2>6, WithActiveTyped
    <3>2. QED
      BY <1>1, <2>1, <2>5, <2>6, <3>1, ServeKept DEF op
  <2>7. ASSUME NEW v \in Voyages \ born,
               Serve(slot, craft, WithNew(rest, v, op.craft), op.origin, from.active)
        PROVE  Inv'
    <3>1. TypeSaved(WithNew(rest, v, op.craft), craft \cup {op.craft})
      BY <2>3, WithNewTyped
    <3>2. QED
      BY <1>1, <2>1, <2>5, <2>7, <3>1, ServeKept DEF op
  <2>8. QED
    BY <2>2, <2>6, <2>7
<1>5. CASE ServeClose(slot)
  <2>1. op.kind = "close"
        /\ Serve(slot, craft \ {op.craft}, WithoutCraft(voyages, op.craft), op.to, op.craft)
    BY <1>5 DEF ServeClose, IsSent
  <2>2. TypeSaved(WithoutCraft(voyages, op.craft), craft \ {op.craft})
    BY <1>1, WithoutCraftTyped
  <2>3. op.to \in AnyCraft \cup {Nothing} /\ craft \ {op.craft} \subseteq Crafts
    BY <1>1, <2>1 DEF OpTyped
  <2> HIDE DEF op
  <2>4. QED
    BY <1>1, <2>1, <2>2, <2>3, ServeKept DEF op
<1>6. CASE ServeTabs(slot)
  <2>1. op.kind \in {"tab", "make"}
        /\ Serve(slot, craft \cup {op.craft}, voyages, op.to, op.craft)
    BY <1>6 DEF ServeTabs, IsSent
  <2>2. TypeSaved(voyages, craft \cup {op.craft})
    BY <1>1, MoreCraftTyped
  <2> HIDE DEF op
  <2>3. QED
    BY <1>1, <2>1, <2>2, ServeKept DEF op
<1>7. QED
  BY <1>2, <1>3, <1>4, <1>5, <1>6

\* A call that nobody waits for, and what other clients do.
LEMMA OtherEvents ==
    ASSUME Inv, OtherClient \/ \E m \in mirrors : ServeMirror(m)
    PROVE  Inv'
<1>1. /\ TypeOK /\ Others /\ ops' = ops
      /\ mirrors' \subseteq mirrors /\ spent' \in {spent, spent + 1}
      /\ spent' # spent => spent < MaxAsked
  BY DEF Inv, Typed, OtherClient, ServeMirror, Asks
<1>2. mirrors' \subseteq Calls /\ spent' \in 0..MaxAsked /\ OpsTyped
  BY <1>1 DEF Inv, Typed, TypeOK, OpsTyped
<1>3. Tracked'
  <2>1. UNCHANGED <<shell, current, ops>>
    BY <1>1 DEF Others, place
  <2>2. QED
    BY <2>1 DEF Inv, Tracked, Mounted, Pending, Tracks
<1>4. craft' \subseteq Crafts /\ TypeSaved(voyages', craft')
  <2>1. TypeSaved(voyages, craft) /\ craft \subseteq Crafts
    BY <1>1 DEF TypeOK
  <2>2. CASE \E m \in mirrors : ServeMirror(m)
    BY <2>1, <2>2, AppliedTyped DEF ServeMirror
  <2>3. ASSUME NEW v \in DOMAIN voyages, NEW c \in Crafts,
               NEW does \in {"activate", "remove", "delete"},
               voyages' = Applied(Call(does, v, c)), craft' = craft
        PROVE  craft' \subseteq Crafts /\ TypeSaved(voyages', craft')
    <3>1. TypeSaved(Applied(Call(does, v, c)), craft)
      BY <2>1, AppliedTyped
    <3>2. QED
      BY <2>1, <2>3, <3>1
  <2>4. ASSUME NEW c \in craft, craft' = craft \ {c}, voyages' = WithoutCraft(voyages, c)
        PROVE  craft' \subseteq Crafts /\ TypeSaved(voyages', craft')
    BY <2>1, <2>4, WithoutCraftTyped
  <2>5. QED
    BY <2>2, <2>3, <2>4 DEF OtherClient
<1>5. QED
  BY <1>1, <1>2, <1>3, <1>4, OthersKept

-----------------------------------------------------------------------------
(* What reaches the tab.                                                   *)

\* The tab is sent the craft, or the voyages.
LEMMA SeeEvents ==
    ASSUME Inv, SeeWorkspace \/ SeeVoyages
    PROVE  Inv'
<1>1. /\ seenCraft' \in {seenCraft, craft} /\ seenVoyages' \in {seenVoyages, voyages}
      /\ dirty' = "route"
      /\ UNCHANGED <<craft, voyages, url, act, stored, current, shell, ops, mirrors, spent>>
  BY DEF SeeWorkspace, SeeVoyages, See, server, place
<1>2. TypeSaved(voyages, Crafts)
  BY MoreCraftTyped DEF Inv, Typed, TypeOK
<1>3. Typed'
  BY <1>1, <1>2 DEF Inv, Typed, TypeOK
<1>4. Tracked' /\ Rendered'
  BY <1>1 DEF Inv, Tracked, Tracks, Pending, Mounted, Rendered
<1>5. QED
  BY <1>3, <1>4 DEF Inv

\* The page is loaded: nobody waits for the answers.
LEMMA LoadKept ==
    ASSUME Inv, NEW v \in (Voyages \cap born) \cup {NoVoyage}, Load(v)
    PROVE  Inv'
<1>1. /\ url' = Url(v, NoCraft) /\ seenCraft' = craft /\ seenVoyages' = voyages
      /\ act' = Nothing /\ current' = NoVoyage /\ shell' = NewShell /\ dirty' = "route"
      /\ UNCHANGED <<craft, voyages, stored, mirrors>>
      /\ spent < MaxAsked /\ spent' = spent + 1
      /\ ops' = [s \in Slots |-> IF ops[s] # Nothing /\ ops[s].stage = "sent"
                                THEN [ops[s] EXCEPT !.ref = Gone] ELSE Nothing]
  BY DEF Load, Asks, server
<1>2. TypeOK /\ \A s \in Slots : ops[s] # Nothing => ops[s] \in Ops /\ OpTyped(ops[s])
  BY DEF Inv, Typed, TypeOK
<1>3. ASSUME NEW s \in Slots, ops'[s] # Nothing
      PROVE  ops'[s] \in Ops /\ OpTyped(ops'[s]) /\ ops'[s].ref # Here
  BY <1>1, <1>2, <1>3 DEF Ops, OpTyped, Gone, Here
<1>4. ops' \in [Slots -> Ops \cup {Nothing}]
  BY <1>1, <1>3
<1>5. TypeSaved(voyages, Crafts) /\ url' \in Urls
  BY <1>1, <1>2, MoreCraftTyped DEF TypeOK, Url, Urls, AnyVoyage, AnyCraft
<1>6. Typed'
  BY <1>1, <1>2, <1>3, <1>4, <1>5, NewShellTyped DEF Typed, TypeOK, AnyVoyage
<1>7. Tracked' /\ Rendered'
  BY <1>1, <1>3 DEF Tracked, Pending, Mounted, Rendered, NewShell
<1>8. QED
  BY <1>6, <1>7 DEF Inv

\* An answer settles the request of a slot: the shell does not wait for it
\* any more, nor for anything new.
LEMMA AnswerTracked ==
    ASSUME Inv, current' = current, NEW slot \in Slots,
           \A s \in Slots \ {slot} : ops'[s] = ops[s],
           ops'[slot] # Nothing => ops[slot] # Nothing /\ ops'[slot].ref = ops[slot].ref,
           shell' = shell \/ Mounted, Keeps(shell'), shell'.mutation # slot
    PROVE  Tracked'
<1>1. shell.mutation \in Slots \cup {Nothing}
  BY DEF Inv, Typed, TypeOK, Shells
<1>2. shell'.mutation # Nothing =>
        shell'.mutation = shell.mutation /\ ops'[shell.mutation] = ops[shell.mutation]
  BY <1>1 DEF Keeps
<1>3. Tracked
  BY DEF Inv
<1>4. (~Mounted)' => shell' = NewShell /\ \A s \in Slots : ops'[s] # Nothing => ops'[s].ref # Here
  <2>1. SUFFICES ASSUME ~Mounted
                 PROVE  /\ shell' = NewShell
                        /\ \A s \in Slots : ops'[s] # Nothing => ops'[s].ref # Here
    BY DEF Mounted
  <2>2. shell' = NewShell
    BY <1>3, <2>1 DEF Tracked
  <2>3. ASSUME NEW s \in Slots, ops'[s] # Nothing
        PROVE  ops'[s].ref # Here
    BY <1>3, <2>1, <2>3 DEF Tracked
  <2>4. QED
    BY <2>2, <2>3
<1>5. Pending(shell') =>
        /\ shell'.mutation # Nothing
        /\ shell'.operation = Url(ops'[shell'.mutation].origin, ops'[shell'.mutation].craft)
  BY <1>2, <1>3 DEF Keeps, Tracked, Url
<1>6. shell'.mutation # Nothing => Tracks(ops'[shell'.mutation])
  BY <1>2, <1>3 DEF Tracked, Tracks
<1>7. QED
  BY <1>4, <1>5, <1>6 DEF Tracked

\* The shell after an answer of Open Craft.
LEMMA SettledTyped ==
    ASSUME Inv, NEW slot \in Slots, ops[slot] # Nothing
    PROVE  LET op == ops[slot]
               sh == Settled(op, slot)
           IN  /\ sh \in Shells
               /\ sh.mutation # slot /\ sh.mutation \in {shell.mutation, Nothing}
               /\ sh # shell => Tracks(op)
               /\ sh # shell /\ Pending(sh) => sh.operation = Url(op.origin, op.craft)
               /\ sh = shell => Keeps(sh)
<1>1. shell \in Shells /\ slot # Nothing
  BY DEF Inv, Typed, TypeOK
<1>2. CASE shell.mutation = slot
  <2>1. /\ Tracks(ops[slot])
        /\ Pending(shell) => shell.operation = Url(ops[slot].origin, ops[slot].craft)
    BY <1>1, <1>2 DEF Inv, Tracked
  <2>2. Settled(ops[slot], slot) = [shell EXCEPT !.mutation = Nothing]
    BY <1>2 DEF Settled
  <2>3. Pending([shell EXCEPT !.mutation = Nothing]) => Pending(shell)
    BY <1>1 DEF Pending, Shells
  <2>4. QED
    BY <1>1, <1>2, <2>1, <2>2, <2>3 DEF Shells
<1>3. CASE shell.mutation # slot
  BY <1>1, <1>3, SameKeeps DEF Settled
<1>4. QED
  BY <1>2, <1>3

\* An answer that changes the shell in what SetShell says.
LEMMA SetShellKept ==
    ASSUME Inv, dirty = "no", Rerender, NEW slot \in Slots, ops[slot] # Nothing, NEW sh,
           ops[slot].ref = Here => sh \in Shells /\ Keeps(sh) /\ sh.mutation # slot,
           SetShell(ops[slot], sh),
           Goes, mirrors' \subseteq Calls, spent' = spent,
           NEW o, ops' = [ops EXCEPT ![slot] = o],
           o = Nothing \/ (o \in Ops /\ OpTyped(o) /\ o.ref = ops[slot].ref)
    PROVE  Inv'
<1>1. TypeOK /\ shell \in Shells /\ current' = current
  BY DEF Inv, Typed, TypeOK, Rerender
<1>2. /\ \A s \in Slots \ {slot} : ops'[s] = ops[s]
      /\ ops'[slot] = o
  BY <1>1 DEF TypeOK
<1>3. OpsTyped
  BY <1>1, <1>2 DEF OpsTyped, Inv, Typed, TypeOK
<1>4. /\ shell' \in Shells /\ Keeps(shell') /\ shell'.mutation # slot
      /\ shell' = shell \/ Mounted
  <2>1. CASE ops[slot].ref = Here
    BY <2>1 DEF SetShell, Inv, Tracked
  <2>2. CASE ops[slot].ref # Here
    <3>1. slot # Nothing /\ ~Tracks(ops[slot])
      BY <2>2 DEF Tracks
    <3>2. shell' = shell /\ shell.mutation # slot
      BY <2>2, <3>1 DEF SetShell, Inv, Tracked
    <3>3. QED
      BY <1>1, <3>2, SameKeeps
  <2>3. QED
    BY <2>1, <2>2
<1>5. Tracked'
  BY <1>1, <1>2, <1>4, AnswerTracked
<1>6. EventTyped
  BY <1>1, <1>3, <1>4 DEF EventTyped, TypeOK
<1>7. QED
  BY <1>4, <1>5, <1>6, EventKept

\* Shells that have given an Open Craft up, shown it, or wait for its craft.
LEMMA OpenedTyped ==
    ASSUME NEW op, NEW sh \in Shells
    PROVE  /\ Opened(op, sh) \in Shells
           /\ Opened(op, sh).mutation = sh.mutation
           /\ Pending(Opened(op, sh)) <=> Pending(sh)
BY DEF Opened, Shells, Pending

\* What an answer ends, or is followed by.
LEMMA EndsTyped ==
    ASSUME TypeOK, NEW slot \in Slots, ops[slot] # Nothing
    PROVE  /\ ops[slot] \in Ops
           /\ \A c \in Crafts :
                LET o == [ops[slot] EXCEPT !.kind = "persist", !.craft = c, !.stage = "sent"]
                IN  o \in Ops /\ OpTyped(o) /\ o.ref = ops[slot].ref
           /\ LET o == [ops[slot] EXCEPT !.kind = "persist", !.stage = "sent"]
              IN  o \in Ops /\ OpTyped(o) /\ o.ref = ops[slot].ref
<1>1. ops[slot] \in Ops /\ "persist" \in Kinds /\ "sent" \in {"sent", "done"}
  BY DEF TypeOK, Kinds
<1>2. ASSUME NEW op \in Ops, NEW c \in Crafts
      PROVE  LET o == [op EXCEPT !.kind = "persist", !.craft = c, !.stage = "sent"]
             IN  o \in Ops /\ OpTyped(o) /\ o.ref = op.ref
  BY <1>1 DEF Ops, OpTyped
<1>3. ASSUME NEW op \in Ops
      PROVE  LET o == [op EXCEPT !.kind = "persist", !.stage = "sent"]
             IN  o \in Ops /\ OpTyped(o) /\ o.ref = op.ref
  BY <1>1 DEF Ops, OpTyped
<1>4. QED
  BY <1>1, <1>2, <1>3

\* activateSavedSessionWhenWorkspaceReady
LEMMA OpenCraftDoneKept ==
    ASSUME Inv, dirty = "no", Rerender, spent' = spent, NEW slot \in Slots,
           ops[slot] # Nothing, ops[slot].stage = "done", OpenCraftDone(slot)
    PROVE  Inv'
<1> DEFINE op == ops[slot]
           sh == Settled(op, slot)
           known == [sh EXCEPT !.openTab = Nothing]
           waits == [sh EXCEPT !.waiting = [origin |-> op.origin, voyage |-> op.to, craft |-> op.craft]]
<1>1. /\ TypeOK /\ op \in Ops /\ op.kind \in {"add", "put", "found"} /\ op.to \in AnyVoyage
      /\ op.origin \in AnyVoyage /\ op.craft \in Crafts
      /\ mirrors' = mirrors /\ ops' = [ops EXCEPT ![slot] = Nothing]
      /\ mirrors' \subseteq Calls
  BY EndsTyped DEF Inv, Typed, TypeOK, OpTyped, OpenCraftDone, Ops
<1>2. sh \in Shells /\ sh.mutation # slot /\ sh.mutation \in {shell.mutation, Nothing}
  BY SettledTyped
<1>3. \/ SetShell(op, Opened(op, Cleared(sh))) /\ Stay
      \/ SetShell(op, Opened(op, known)) /\ BookmarkAnswer(op.to, op.craft, TRUE)
      \/ SetShell(op, Opened(op, waits)) /\ Stay
  BY DEF OpenCraftDone
<1>4. /\ known \in Shells /\ known.mutation = sh.mutation /\ ~Pending(known)
      /\ waits \in Shells /\ waits.mutation = sh.mutation /\ ~Pending(waits)
  <2>1. known \in Shells /\ known.mutation = sh.mutation /\ ~Pending(known)
    BY <1>2 DEF Shells, Pending
  <2>2. [origin |-> op.origin, voyage |-> op.to, craft |-> op.craft] \in Waits
    BY <1>1 DEF Waits
  <2> DEFINE wait == [origin |-> op.origin, voyage |-> op.to, craft |-> op.craft]
  <2>3. wait # Nothing /\ wait \in Waits
    BY <2>2
  <2> HIDE DEF wait
  <2>4. waits \in Shells /\ waits.mutation = sh.mutation /\ waits.waiting # Nothing
    <3>1. waits = [sh EXCEPT !.waiting = wait]
      BY DEF wait
    <3> HIDE DEF waits
    <3>2. QED
      BY <1>2, <2>3, <3>1 DEF Shells
  <2>5. QED
    BY <2>1, <2>4 DEF Pending
<1>5. ASSUME NEW s \in Shells, s.mutation = sh.mutation, ~Pending(s)
      PROVE  Opened(op, s) \in Shells /\ Keeps(Opened(op, s)) /\ Opened(op, s).mutation # slot
  BY <1>2, <1>5, OpenedTyped DEF Keeps
<1>6. Cleared(sh) \in Shells /\ Cleared(sh).mutation = sh.mutation /\ ~Pending(Cleared(sh))
  BY <1>2, ClearedTyped
<1>7. BookmarkAnswer(op.to, op.craft, TRUE) => Goes
  BY <1>1 DEF BookmarkAnswer, Goes, Url, Urls, AnyCraft
<1>8. Stay => Goes
  BY <1>1, StayGoes
<1> HIDE DEF op, sh, known, waits
<1>9. ASSUME NEW s \in Shells, s.mutation = sh.mutation, ~Pending(s),
             SetShell(op, Opened(op, s)), Goes
      PROVE  Inv'
  BY <1>1, <1>5, <1>9, SetShellKept DEF op
<1>10. QED
  BY <1>3, <1>4, <1>6, <1>7, <1>8, <1>9

\* onError, and the catch of runOpenCraftMutation.
LEMMA OpenCraftFailsKept ==
    ASSUME Inv, dirty = "no", Rerender, spent' = spent, NEW slot \in Slots,
           ops[slot] # Nothing, OpenCraftFails(slot)
    PROVE  Inv'
<1> DEFINE op == ops[slot]
           sh == Settled(op, slot)
           key == Url(op.origin, op.craft)
           error == [sh EXCEPT !.operation = key,
                               !.openTab = [status |-> "error",
                                            request |-> [does |-> op.request, craft |-> op.craft]]]
           new == IF op.tracked = "no" THEN sh
                  ELSE IF Owns(op) THEN error
                  ELSE IF op.tracked = "run" THEN ResetOf(sh)
                  ELSE IF sh.operation = key THEN Cleared(sh) ELSE sh
<1>1. /\ TypeOK /\ op \in Ops /\ op.origin \in AnyVoyage /\ op.craft \in Crafts
      /\ op.request \in {"add", "navigate"} /\ key \in Urls
      /\ mirrors' \subseteq Calls /\ ops' = [ops EXCEPT ![slot] = Nothing]
      /\ Stay /\ SetShell(op, new)
  BY EndsTyped DEF Inv, Typed, TypeOK, OpenCraftFails, Ops, Url, Urls, AnyCraft
<1>2. /\ sh \in Shells /\ sh.mutation # slot /\ sh.mutation \in {shell.mutation, Nothing}
      /\ sh # shell => Tracks(op)
      /\ sh # shell /\ Pending(sh) => sh.operation = key
      /\ sh = shell => Keeps(sh)
  BY SettledTyped
<1>3. error \in Shells /\ error.mutation = sh.mutation /\ ~Pending(error)
  BY <1>1, <1>2 DEF Shells, Tabs, Pending
<1>4. /\ Cleared(sh) \in Shells /\ Cleared(sh).mutation = sh.mutation /\ ~Pending(Cleared(sh))
      /\ ResetOf(sh) \in Shells /\ ResetOf(sh).mutation = Nothing /\ ~Pending(ResetOf(sh))
  BY <1>2, ClearedTyped
<1>5. Goes /\ slot # Nothing
  BY <1>1, StayGoes
<1> HIDE DEF op, sh, key, error
<1>6. new \in Shells /\ new.mutation # slot /\ new.mutation \in {shell.mutation, Nothing}
  BY <1>2, <1>3, <1>4, <1>5
<1>7. Keeps(new)
  <2>1. CASE op.tracked = "no"
    BY <1>2, <2>1 DEF Tracks
  <2>2. CASE ~Pending(new)
    BY <1>6, <2>2 DEF Keeps
  <2>3. CASE op.tracked # "no" /\ Pending(new)
    <3>1. new = sh /\ sh.operation # key
      BY <1>3, <1>4, <2>3
    <3>2. QED
      BY <1>2, <2>3, <3>1
  <2>4. QED
    BY <2>1, <2>2, <2>3
<1> HIDE DEF new
<1>8. QED
  BY <1>1, <1>5, <1>6, <1>7, SetShellKept DEF op

\* addOrSelectCraftInCurrentVoyage, of a voyage that has gone.
LEMMA PutFailsKept ==
    ASSUME Inv, dirty = "no", Rerender, spent' = spent, NEW slot \in Slots,
           ops[slot] # Nothing, PutFails(slot)
    PROVE  Inv'
<1> DEFINE op == ops[slot]
           sh == Settled(op, slot)
           known == [sh EXCEPT !.openTab = Nothing]
           next == [op EXCEPT !.kind = "persist", !.stage = "sent"]
<1>1. /\ TypeOK /\ mirrors' \subseteq Calls /\ Stay
      /\ \/ SetShell(op, Opened(op, known)) /\ ops' = [ops EXCEPT ![slot] = next]
         \/ SetShell(op, Opened(op, Cleared(sh))) /\ ops' = [ops EXCEPT ![slot] = Nothing]
  BY DEF Inv, Typed, TypeOK, PutFails
<1>2. sh \in Shells /\ sh.mutation # slot /\ sh.mutation \in {shell.mutation, Nothing}
  BY SettledTyped
<1>3. known \in Shells /\ known.mutation = sh.mutation /\ ~Pending(known)
  BY <1>2 DEF Shells, Pending
<1>4. Cleared(sh) \in Shells /\ Cleared(sh).mutation = sh.mutation /\ ~Pending(Cleared(sh))
  BY <1>2, ClearedTyped
<1>5. ASSUME NEW s \in Shells, s.mutation = sh.mutation, ~Pending(s)
      PROVE  Opened(op, s) \in Shells /\ Keeps(Opened(op, s)) /\ Opened(op, s).mutation # slot
  BY <1>2, <1>5, OpenedTyped DEF Keeps
<1>6. Goes
  BY <1>1, StayGoes
<1>7. next \in Ops /\ OpTyped(next) /\ next.ref = op.ref
  BY <1>1, EndsTyped
<1> HIDE DEF op, sh, known, next
<1>8. ASSUME NEW s \in Shells, s.mutation = sh.mutation, ~Pending(s),
             SetShell(op, Opened(op, s)),
             NEW o \in {Nothing, next}, ops' = [ops EXCEPT ![slot] = o]
      PROVE  Inv'
  BY <1>1, <1>5, <1>6, <1>7, <1>8, SetShellKept DEF op
<1>9. QED
  BY <1>1, <1>3, <1>4, <1>8

\* The answers that navigate wherever the tab is.
LEMMA FreeDoneKept ==
    ASSUME Inv, dirty = "no", Rerender, spent' = spent, NEW slot \in Slots,
           ops[slot] # Nothing, ops[slot].stage = "done", FreeDone(slot)
    PROVE  Inv'
<1> DEFINE op == ops[slot]
           add(c) == [op EXCEPT !.kind = "persist", !.craft = c, !.stage = "sent"]
<1>1. /\ TypeOK /\ op \in Ops /\ op.origin \in AnyVoyage /\ op.craft \in Crafts
      /\ op.kind \in {"persist", "move", "start", "first", "close", "tab", "make"}
      /\ op.kind \notin {"close", "tab", "make"} => op.to \in AnyVoyage
      /\ op.kind = "close" => op.to \in AnyCraft \cup {Nothing}
      /\ shell' = shell /\ mirrors \subseteq Calls /\ craft \subseteq Crafts
  BY EndsTyped DEF Inv, Typed, TypeOK, OpTyped, FreeDone, Ops
<1>2. \A c \in Crafts : add(c) \in Ops /\ OpTyped(add(c)) /\ add(c).ref = op.ref
  BY <1>1, EndsTyped
<1>3. slot # Nothing /\ shell \in Shells /\ shell.mutation # slot /\ SetShell(op, shell)
  BY <1>1 DEF Inv, Typed, TypeOK, Tracked, Tracks, SetShell
<1>4. ASSUME NEW v \in AnyVoyage, NEW c \in AnyCraft, NEW knew, BookmarkAnswer(v, c, knew)
      PROVE  Goes
  BY <1>4 DEF BookmarkAnswer, Goes, Url, Urls, AnyCraft
<1>5. Stay => Goes
  BY <1>1, StayGoes
<1>6. ASSUME NEW v \in AnyVoyage, NEW c \in AnyCraft, Mirror(Call("activate", v, c))
      PROVE  mirrors' \subseteq Calls
  BY <1>1, <1>6, MirrorTyped
<1>7. Crafts \subseteq AnyCraft
  BY DEF AnyCraft
<1> HIDE DEF op, add
<1>8. ASSUME NEW o, ops' = [ops EXCEPT ![slot] = o], Goes, mirrors' \subseteq Calls,
             o = Nothing \/ \E c \in Crafts : o = add(c)
      PROVE  Inv'
  <2>1. o = Nothing \/ (o \in Ops /\ OpTyped(o) /\ o.ref = op.ref)
    BY <1>2, <1>8
  <2>2. QED
    BY <1>3, <1>8, <2>1, SameKeeps, SetShellKept DEF op
<1>9. CASE /\ op.kind \in {"persist", "move", "start"}
           /\ BookmarkAnswer(op.to, op.craft, op.craft \in op.knew)
           /\ ops' = [ops EXCEPT ![slot] = Nothing] /\ mirrors' = mirrors
  BY <1>1, <1>4, <1>7, <1>8, <1>9
<1>10. CASE /\ op.kind = "first" /\ url' = Url(op.to, op.craft) /\ act' = act
            /\ ops' = [ops EXCEPT ![slot] = Nothing] /\ mirrors' = mirrors
  <2>1. Goes
    BY <1>1, <1>7, <1>10 DEF Goes, Url, Urls, TypeOK
  <2>2. QED
    BY <1>1, <1>8, <1>10, <2>1
<1>11. ASSUME NEW c \in Crafts, ops' = [ops EXCEPT ![slot] = add(c)], Stay, mirrors' = mirrors
       PROVE  Inv'
  BY <1>1, <1>5, <1>8, <1>11
<1>12. CASE Stay /\ ops' = [ops EXCEPT ![slot] = Nothing] /\ mirrors' = mirrors
  BY <1>1, <1>5, <1>8, <1>12
<1>13. ASSUME NEW c \in AnyCraft, BookmarkAnswer(op.origin, c, TRUE),
              Mirror(Call("activate", op.origin, c)), ops' = [ops EXCEPT ![slot] = Nothing]
       PROVE  Inv'
  BY <1>1, <1>4, <1>6, <1>8, <1>13
<1>14. CASE op.kind = "close"
  <2>1. \/ Stay /\ ops' = [ops EXCEPT ![slot] = Nothing] /\ mirrors' = mirrors
        \/ \E c \in craft : ops' = [ops EXCEPT ![slot] = add(c)] /\ Stay /\ mirrors' = mirrors
        \/ /\ op.to # Nothing /\ BookmarkAnswer(op.origin, op.to, TRUE)
           /\ Mirror(Call("activate", op.origin, op.to))
           /\ ops' = [ops EXCEPT ![slot] = Nothing]
    BY <1>14 DEF FreeDone, op, add
  <2>2. QED
    BY <1>1, <1>11, <1>12, <1>13, <1>14, <2>1
<1>15. CASE op.kind \in {"tab", "make"}
  <2>1. \/ /\ BookmarkAnswer(op.origin, op.craft, TRUE)
           /\ Mirror(Call("activate", op.origin, op.craft))
           /\ ops' = [ops EXCEPT ![slot] = Nothing]
        \/ ops' = [ops EXCEPT ![slot] = add(op.craft)] /\ Stay /\ mirrors' = mirrors
    BY <1>15 DEF FreeDone, op, add
  <2>2. QED
    BY <1>1, <1>7, <1>11, <1>13, <2>1
<1>16. QED
  <2>1. CASE op.kind \in {"persist", "move", "start"}
    BY <1>9, <2>1 DEF FreeDone, op
  <2>2. CASE op.kind = "first"
    BY <1>10, <2>2 DEF FreeDone, op
  <2>3. QED
    BY <1>1, <1>14, <1>15, <2>1, <2>2

\* An answer comes, or is lost; nobody waits for that of a page that has gone.
LEMMA AnswerKept ==
    ASSUME Inv, dirty = "no", NEW slot \in Slots, Answer(slot)
    PROVE  Inv'
<1>1. ops[slot] # Nothing /\ spent' = spent /\ Rerender /\ TypeOK
  BY DEF Answer, Inv, Typed
<1>2. CASE /\ ops[slot].ref = Gone /\ ops' = [ops EXCEPT ![slot] = Nothing]
           /\ Stay /\ shell' = shell /\ mirrors' = mirrors
  <2>1. ops[slot].ref # Here /\ Goes /\ mirrors' \subseteq Calls
    BY <1>1, <1>2, StayGoes DEF Gone, Here, TypeOK
  <2>2. SetShell(ops[slot], shell)
    BY <1>2 DEF SetShell
  <2>3. QED
    BY <1>1, <1>2, <2>1, <2>2, SetShellKept
<1>3. CASE ops[slot].stage = "done" /\ OpenCraftDone(slot)
  BY <1>1, <1>3, OpenCraftDoneKept
<1>4. CASE ops[slot].stage = "done" /\ FreeDone(slot)
  BY <1>1, <1>4, FreeDoneKept
<1>5. CASE OpenCraftFails(slot) \/ PutFails(slot)
  BY <1>1, <1>5, OpenCraftFailsKept, PutFailsKept
<1>6. QED
  BY <1>2, <1>3, <1>4, <1>5 DEF Answer

-----------------------------------------------------------------------------
(* Rendering.                                                              *)

\* The effect of pendingWorkspaceSelection: afterwards the craft that is
\* waited for, if there is one, has not arrived.
LEMMA WaitedTyped ==
    ASSUME Inv, NEW in
    PROVE  LET w == Waited(shell, in)
           IN  /\ w = [shell |-> w.shell, act |-> w.act, url |-> w.url]
               /\ w.act \in Urls \cup {Nothing} /\ w.url \in Urls
               /\ w.shell \in Shells /\ Keeps(w.shell)
               /\ w.shell.waiting # Nothing => w.shell.waiting.craft \notin seenCraft
               /\ ~Mounted => w.shell = shell
<1> DEFINE w == shell.waiting
           shown == [shell EXCEPT !.waiting = Nothing, !.openTab = Nothing]
<1>1. /\ shell \in Shells /\ url \in Urls /\ act \in Urls \cup {Nothing}
      /\ ~Mounted => w = Nothing
  BY DEF Inv, Typed, TypeOK, Tracked, NewShell
<1>2. CASE w = Nothing \/ (w # Nothing /\ w.craft \notin seenCraft)
  <2>1. Waited(shell, in) = [shell |-> shell, act |-> act, url |-> url]
    BY <1>2 DEF Waited
  <2>2. QED
    BY <1>1, <1>2, <2>1, SameKeeps
<1>3. CASE w # Nothing /\ w.craft \in seenCraft /\ w.origin # in
  <2>1. Waited(shell, in) = [shell |-> Cleared(shell), act |-> act, url |-> url]
    BY <1>3 DEF Waited
  <2>2. QED
    BY <1>1, <1>3, <2>1, ClearedTyped DEF Keeps
<1>4. CASE w # Nothing /\ w.craft \in seenCraft /\ w.origin = in
  <2>1. Waited(shell, in) =
          [shell |-> shown, act |-> Url(w.voyage, w.craft), url |-> Url(w.voyage, w.craft)]
    BY <1>4 DEF Waited
  <2>2. Url(w.voyage, w.craft) \in Urls
    BY <1>1, <1>4 DEF Shells, Waits, Url, Urls, AnyCraft
  <2>3. shown \in Shells /\ shown.waiting = Nothing /\ shown.mutation = shell.mutation
        /\ shown.openTab = Nothing
    BY <1>1 DEF Shells
  <2> HIDE DEF shown
  <2>4. Keeps(shown)
    BY <2>3 DEF Keeps, Pending
  <2>5. QED
    BY <1>1, <1>4, <2>1, <2>2, <2>3, <2>4
<1>5. QED
  BY <1>2, <1>3, <1>4

\* A render changes no request that the shell waits for.
LEMMA RenderTracked ==
    ASSUME Inv, ops' = ops, Keeps(shell'), Mounted' \/ (~Mounted /\ shell' = shell)
    PROVE  Tracked'
BY DEF Inv, Tracked, Keeps, Mounted, Pending, Tracks, Url

\* The shell is rendered again.
LEMMA RenderShellKept ==
    ASSUME Inv, RenderShell
    PROVE  Inv'
<1> DEFINE w == Waited(shell, current)
<1>1. /\ shell' = w.shell /\ act' = w.act /\ url' = w.url
      /\ dirty = "shell" /\ dirty' \in {"no", "route"}
      /\ dirty' = "no" => url' = url /\ act' = act
      /\ UNCHANGED <<craft, voyages, seenCraft, seenVoyages, stored, current, ops, mirrors, spent>>
  BY DEF RenderShell, server, copies
<1>2. /\ act' \in Urls \cup {Nothing} /\ url' \in Urls
      /\ shell' \in Shells /\ Keeps(shell')
      /\ shell'.waiting # Nothing => shell'.waiting.craft \notin seenCraft
      /\ ~Mounted => shell' = shell
  BY <1>1, WaitedTyped
<1> HIDE DEF w
<1>3. Tracked'
  BY <1>1, <1>2, RenderTracked DEF Mounted
<1>4. dirty' = "no" => /\ (Resolves(url)' <=> Resolves(url)) /\ (Selects(url)' <=> Selects(url))
                       /\ (Awaited(act)' <=> Awaited(act))
  BY <1>1 DEF Resolves, Selects, Awaited
<1>5. Rendered'
  BY <1>1, <1>2, <1>4 DEF Inv, Rendered
<1>6. dirty' = "no" => current' = (IF Resolves(url)' THEN url'.voyage ELSE NoVoyage)
  BY <1>1, <1>5 DEF Rendered
<1>7. Typed'
  BY <1>1, <1>2, <1>6 DEF Inv, Typed, TypeOK
<1>8. QED
  BY <1>3, <1>5, <1>7 DEF Inv

\* Synchronising the URL.
LEMMA CanonicalTyped ==
    ASSUME TypeOK, Resolves(url), NEW sh, NEW a \in Urls \cup {Nothing}, NEW u \in Urls
    PROVE  LET c == Canonical([shell |-> sh, act |-> a, url |-> u])
           IN  /\ c.shell = sh /\ c.act \in Urls \cup {Nothing} /\ c.url \in Urls
               /\ c.act # Nothing => Awaited(c.act)
               /\ c.url \in {u, PathTo(url.voyage, NoCraft)}
               /\ c.act = Nothing =>
                    Selects(url) \/ PathTo(url.voyage, NoCraft) \in {url, c.url}
<1>1. PathTo(url.voyage, NoCraft) \in Urls
  BY PathIsUrl DEF Resolves
<1>2. CASE Awaited(a)
  BY <1>2 DEF Canonical, Awaited
<1>3. CASE ~Awaited(a)
  BY <1>1, <1>3 DEF Canonical, Follows
<1>4. QED
  BY <1>2, <1>3

\* The route is rendered for a voyage.
LEMMA RenderVoyageKept ==
    ASSUME Inv, RenderVoyage
    PROVE  Inv'
<1> DEFINE w == Waited(shell, url.voyage)
           after == Canonical(w)
<1>1. /\ TypeOK /\ Resolves(url) /\ url \in Urls /\ url.voyage \in Voyages
      /\ shell' = after.shell /\ act' = after.act /\ url' = after.url
      /\ dirty' = (IF url' = url THEN "no" ELSE "route")
      /\ current' = url.voyage /\ stored' = url
      /\ UNCHANGED <<craft, voyages, seenCraft, seenVoyages, ops, mirrors, spent>>
  BY DEF RenderVoyage, server, copies, Inv, Typed, TypeOK, TypeSaved, Resolves
<1>2. /\ w = [shell |-> w.shell, act |-> w.act, url |-> w.url]
      /\ w.act \in Urls \cup {Nothing} /\ w.url \in Urls
      /\ w.shell \in Shells /\ Keeps(w.shell)
      /\ w.shell.waiting # Nothing => w.shell.waiting.craft \notin seenCraft
  BY WaitedTyped
<1> HIDE DEF w
<1>3. /\ shell' = w.shell /\ act' \in Urls \cup {Nothing} /\ url' \in Urls
      /\ act' # Nothing => Awaited(act')
      /\ act' = Nothing => Selects(url) \/ PathTo(url.voyage, NoCraft) \in {url, url'}
  BY <1>1, <1>2, CanonicalTyped
<1> HIDE DEF after
<1>4. Mounted'
  BY <1>1 DEF Mounted
<1>5. Tracked'
  BY <1>1, <1>2, <1>3, <1>4, RenderTracked
<1>6. CASE dirty' = "no"
  <2>1. url' = url
    BY <1>1, <1>6
  <2>2. (Resolves(url)' <=> Resolves(url)) /\ (Selects(url)' <=> Selects(url))
        /\ (Awaited(act)' <=> Awaited(act'))
    BY <1>1, <2>1 DEF Resolves, Selects, Awaited
  <2>3. url = PathTo(url.voyage, NoCraft) =>
          Selects(url) \/ seenVoyages[url.voyage].active \notin seenCraft
    <3>1. seenVoyages[url.voyage].active \in seenVoyages[url.voyage].entries
          /\ NoCraft \notin seenVoyages[url.voyage].entries
      BY <1>1 DEF TypeOK, TypeSaved, Resolves
    <3>2. QED
      BY <1>1, <3>1 DEF PathTo, Selects, Url
  <2>4. current' = (IF Resolves(url)' THEN url'.voyage ELSE NoVoyage)
    BY <1>1, <2>1, <2>2
  <2>5. Rendered'
    BY <1>1, <1>2, <1>3, <1>6, <2>1, <2>2, <2>3, <2>4 DEF Rendered
  <2>6. Typed'
    BY <1>1, <1>2, <1>3, <1>6, <2>4 DEF Inv, Typed, TypeOK, AnyVoyage
  <2>7. QED
    BY <1>5, <2>5, <2>6 DEF Inv
<1>7. CASE dirty' = "route"
  <2>1. Rendered'
    BY <1>7 DEF Rendered
  <2>2. Typed'
    BY <1>1, <1>2, <1>3, <1>7 DEF Inv, Typed, TypeOK, AnyVoyage
  <2>3. QED
    BY <1>5, <2>1, <2>2 DEF Inv
<1>8. QED
  BY <1>1, <1>6, <1>7

\* The route is rendered without a voyage in the URL.
LEMMA RenderRootKept ==
    ASSUME Inv, RenderRoot
    PROVE  Inv'
<1>1. /\ dirty = "route" /\ dirty' = "route"
      /\ UNCHANGED <<craft, voyages, seenCraft, seenVoyages, act, stored, current, shell, ops,
                     mirrors, spent>>
      /\ url' = stored \/ \E v \in DOMAIN seenVoyages : url' = PathTo(v, NoCraft)
  BY DEF RenderRoot, server, copies
<1>2. url' \in Urls
  BY <1>1, PathIsUrl DEF Inv, Typed, TypeOK
<1>3. Typed'
  BY <1>1, <1>2 DEF Inv, Typed, TypeOK
<1>4. Tracked' /\ Rendered'
  BY <1>1 DEF Inv, Tracked, Tracks, Pending, Mounted, Rendered
<1>5. QED
  BY <1>3, <1>4 DEF Inv

\* The shell is unmounted: what it asked for sees the voyage it was in.
LEMMA RenderNotFoundKept ==
    ASSUME Inv, RenderNotFound
    PROVE  Inv'
<1>1. /\ ~Resolves(url) /\ current' = NoVoyage /\ shell' = NewShell /\ dirty' = "no"
      /\ ops' = [s \in Slots |-> IF ops[s] # Nothing /\ ops[s].ref = Here
                                THEN [ops[s] EXCEPT !.ref = current] ELSE ops[s]]
      /\ UNCHANGED <<craft, voyages, seenCraft, seenVoyages, url, act, stored, mirrors, spent>>
  BY DEF RenderNotFound, server, copies
<1>2. /\ TypeOK /\ current \in AnyVoyage /\ Here \notin AnyVoyage
      /\ \A s \in Slots : ops[s] # Nothing => ops[s] \in Ops /\ OpTyped(ops[s])
  BY DEF Inv, Typed, TypeOK
<1>3. ASSUME NEW s \in Slots, ops'[s] # Nothing
      PROVE  ops'[s] \in Ops /\ OpTyped(ops'[s]) /\ ops'[s].ref # Here
  <2>1. CASE ops[s] # Nothing /\ ops[s].ref = Here
    BY <1>1, <1>2, <2>1 DEF Ops, OpTyped
  <2>2. CASE ~(ops[s] # Nothing /\ ops[s].ref = Here)
    BY <1>1, <1>2, <1>3, <2>2
  <2>3. QED
    BY <2>1, <2>2
<1>4. ops' \in [Slots -> Ops \cup {Nothing}]
  BY <1>1, <1>3
<1>5. ~Resolves(url)'
  BY <1>1 DEF Resolves
<1>6. Typed'
  BY <1>1, <1>2, <1>3, <1>4, <1>5, NewShellTyped DEF Typed, TypeOK, AnyVoyage
<1>7. Tracked' /\ Rendered'
  BY <1>1, <1>3, <1>5 DEF Tracked, Pending, Mounted, Rendered, NewShell
<1>8. QED
  BY <1>6, <1>7 DEF Inv

-----------------------------------------------------------------------------
(* The theorems.                                                           *)

\* The state that a tab is loaded in.
LEMMA InitInv == Init => Inv
<1> SUFFICES ASSUME Init PROVE Inv
  OBVIOUS
<1>1. PICK l \in Loads : /\ craft = l.craft /\ seenCraft = l.craft
                         /\ voyages = l.voyages /\ seenVoyages = l.voyages /\ spent = l.asked
  BY DEF Init
<1>2. /\ url = Root /\ stored = Root /\ act = Nothing /\ current = NoVoyage
      /\ shell = NewShell /\ ops = [s \in Slots |-> Nothing] /\ mirrors = {} /\ dirty = "route"
  BY DEF Init
<1>3. /\ craft \subseteq Crafts /\ TypeSaved(voyages, craft)
      /\ seenCraft \subseteq Crafts /\ TypeSaved(seenVoyages, Crafts) /\ spent \in 0..MaxAsked
  <2>1. l.craft \subseteq Crafts /\ TypeSaved(l.voyages, l.craft) /\ l.asked \in 0..MaxAsked
    OBVIOUS
  <2>2. TypeSaved(l.voyages, Crafts)
    BY <2>1, MoreCraftTyped
  <2>3. QED
    BY <1>1, <2>1, <2>2
<1>4. Root \in Urls /\ NoVoyage \in AnyVoyage
  BY DEF Root, Url, Urls, AnyVoyage, AnyCraft
<1>5. Typed
  BY <1>2, <1>3, <1>4, NewShellTyped DEF Typed, TypeOK
<1>6. Tracked /\ Rendered
  BY <1>2 DEF Tracked, Pending, Mounted, Rendered, NewShell
<1>7. QED
  BY <1>5, <1>6 DEF Inv

\* An event and a render keep the invariant.
LEMMA NextInv == Inv /\ [Next]_vars => Inv'
<1> SUFFICES ASSUME Inv, [Next]_vars PROVE Inv'
  OBVIOUS
<1>1. CASE dirty = "no" /\ Event
  <2>1. ASSUME NEW slot \in Slots, NEW c \in Crafts,
               \/ \E does \in {"add", "navigate"} : OpenCraft(slot, does, c)
               \/ NavigateToTabGroup(slot, c)
        PROVE  Inv'
    BY <1>1, <2>1, OpenEvents
  <2>2. ASSUME NEW slot \in Slots, NEW c \in Crafts,
               \/ SelectTabGroup(slot, c)
               \/ \E to \in Voyages \cup {NoVoyage} : MoveVoyageEntry(slot, c, to)
               \/ CloseTabGroup(slot, c) \/ ChangeTabs(slot, c)
               \/ AddTabGroup(slot, c) \/ CreateNamedVoyage(slot, c)
        PROVE  Inv'
    BY <1>1, <2>2, AskEvents
  <2>3. ASSUME NEW slot \in Slots, NEW c \in Crafts, CreateFirstVoyage(slot, c)
        PROVE  Inv'
    BY <2>3, CreateFirstKept
  <2>4. ASSUME NEW slot \in Slots, RetryOpenCraft(slot)
        PROVE  Inv'
    BY <1>1, <2>4, OpenEvents
  <2>5. ASSUME NEW slot \in Slots, OpenCraftInNewVoyage(slot)
        PROVE  Inv'
    <3>1. PICK c \in Crafts : TRUE
      BY <2>5 DEF OpenCraftInNewVoyage, Inv, Typed, TypeOK, Shells, AnyCraft
    <3>2. QED
      BY <1>1, <2>5, <3>1, AskEvents
  <2>6. CASE \/ \E b \in BOOLEAN : OpenSearch(b) \/ CloseSearch(b)
             \/ ClosePendingOpenCraftTab \/ CloseDuplicateCraftPrompt
    BY <1>1, <2>6, ShellEvents
  <2>7. CASE \/ SwitchToExistingCraft
             \/ \E v \in Voyages : SwitchToCraftInOtherVoyage(v) \/ ResumeSession(v) \/ DeleteSession(v)
             \/ \E c \in Crafts : SelectVoyageEntry(c) \/ RemoveVoyageEntry(c)
             \/ OpenFallbackVoyage
             \/ \E v \in (Voyages \cap born) \cup {NoVoyage} : GoTo(v)
    BY <1>1, <2>7, GoEvents
  <2>8. ASSUME NEW v \in (Voyages \cap born) \cup {NoVoyage}, Load(v)
        PROVE  Inv'
    BY <2>8, LoadKept
  <2>9. ASSUME NEW slot \in Slots,
               \/ ServeOpen(slot) \/ ServeNew(slot) \/ ServeMove(slot) \/ ServeClose(slot)
               \/ ServeTabs(slot)
        PROVE  Inv'
    BY <2>9, ServeEvents
  <2>10. ASSUME NEW slot \in Slots, Answer(slot)
         PROVE  Inv'
    BY <1>1, <2>10, AnswerKept
  <2>11. CASE OtherClient \/ \E m \in mirrors : ServeMirror(m)
    BY <2>11, OtherEvents
  <2>12. CASE SeeWorkspace \/ SeeVoyages
    BY <2>12, SeeEvents
  <2>13. QED
    BY <1>1, <2>1, <2>2, <2>3, <2>4, <2>5, <2>6, <2>7, <2>8, <2>9, <2>10, <2>11, <2>12 DEF Event
<1>2. CASE Render
  BY <1>2, RenderShellKept, RenderVoyageKept, RenderRootKept, RenderNotFoundKept DEF Render
<1>3. CASE UNCHANGED vars
  <2>1. UNCHANGED <<craft, voyages, seenCraft, seenVoyages, url, act, stored, current, shell,
                    ops, mirrors, dirty, spent>>
    BY <1>3 DEF vars
  <2>2. (Resolves(url)' <=> Resolves(url)) /\ (Selects(url)' <=> Selects(url))
        /\ (Awaited(act)' <=> Awaited(act))
    BY <2>1 DEF Resolves, Selects, Awaited
  <2>3. Typed'
    BY <2>1, <2>2 DEF Inv, Typed, TypeOK
  <2>4. Tracked'
    BY <2>1 DEF Inv, Tracked, Tracks, Pending, Mounted
  <2>5. Rendered'
    BY <2>1, <2>2 DEF Inv, Rendered
  <2>6. QED
    BY <2>3, <2>4, <2>5 DEF Inv
<1>4. QED
  BY <1>1, <1>2, <1>3 DEF Next

\* The invariant of every state.
THEOREM Invariant == Spec => []Inv
BY InitInv, NextInv, PTL DEF Spec

\* Every variable has its type; no saved voyage is empty, has an entry of a
\* craft that has gone, or an active one that is not its own; and between
\* events the shell is that of the voyage of the URL.
THEOREM TypeCorrect == Spec => []TypeOK
<1>1. Inv => TypeOK
  BY DEF Inv, Typed
<1>2. QED
  BY <1>1, Invariant, PTL

\* No Open Craft hangs: the mutation is of a request that is under way, and a
\* tab that is pending waits for it or for a craft.
THEOREM NoOpenCraftHangs == Spec => []NothingHangs
<1>1. Inv => NothingHangs
  <2> SUFFICES ASSUME Inv, Rest
               PROVE  /\ shell.mutation = Nothing
                      /\ shell.waiting # Nothing => shell.waiting.craft \notin craft
                      /\ shell.openTab # Nothing /\ shell.openTab.status = "pending"
                            => shell.waiting # Nothing
    BY DEF NothingHangs
  <2>1. shell.mutation = Nothing
    BY DEF Inv, Typed, TypeOK, Shells, Tracked, Tracks, Rest
  <2>2. shell.waiting # Nothing => shell.waiting.craft \notin craft
    BY DEF Inv, Rendered, Rest
  <2>3. ~Pending(shell)
    BY <2>1 DEF Inv, Tracked
  <2>4. QED
    BY <2>1, <2>2, <2>3 DEF Pending
<1>2. QED
  BY <1>1, Invariant, PTL

\* When all is at rest, the URL of a voyage names an entry of it, or waits for
\* one that was removed; what it waits for is always in its own voyage.
THEOREM UrlNamesEntry == Spec => []RestsOnEntry
<1>1. Inv => RestsOnEntry
  <2> SUFFICES ASSUME Inv, dirty = "no", Resolves(url)
               PROVE  /\ act # Nothing => act.voyage = url.voyage
                      /\ Rest => \/ Selects(url)
                                 \/ /\ act # Nothing /\ act.voyage = url.voyage
                                    /\ act.craft \notin voyages[url.voyage].entries
    BY DEF RestsOnEntry, NamesEntry, Rest
  <2>1. act # Nothing => Awaited(act)
    BY DEF Inv, Rendered
  <2>2. act = Nothing => Selects(url) \/ seenVoyages[url.voyage].active \notin seenCraft
    BY DEF Inv, Rendered
  <2>3. Rest => seenVoyages[url.voyage].active \in seenCraft /\ seenVoyages = voyages
    BY DEF Inv, Typed, TypeOK, TypeSaved, Rest, Resolves
  <2>4. QED
    BY <2>1, <2>2, <2>3 DEF Awaited
<1>2. QED
  BY <1>1, Invariant, PTL

-----------------------------------------------------------------------------
(* Steps that do not navigate.                                             *)

\* A request is settled by an answer, or by a load of the page; all else that
\* navigates is asked for by the user, or is a render.
LEMMA SettlesBy ==
    ASSUME TypeOK, Next, NEW s \in Slots, ops[s] # Nothing, ops'[s] = Nothing, spent' = spent
    PROVE  url' = url \/ Answer(s)
<1>1. spent' # spent + 1
  BY DEF TypeOK
<1>2. ~Asks /\ ~NoRequest /\ \A slot \in Slots : \A op : ~Send(slot, op)
  BY <1>1 DEF Asks, NoRequest, Send
<1>3. CASE Render
  <2>1. CASE RenderShell \/ RenderVoyage \/ RenderRoot
    BY <2>1 DEF RenderShell, RenderVoyage, RenderRoot
  <2>2. CASE RenderNotFound
    BY <2>2 DEF RenderNotFound
  <2>3. QED
    BY <1>3, <2>1, <2>2 DEF Render
<1>4. ASSUME NEW slot \in Slots, Answer(slot)
      PROVE  url' = url \/ Answer(s)
  <2>1. CASE slot = s
    BY <1>4, <2>1
  <2>2. CASE slot # s
    <3>1. PICK o : ops' = [ops EXCEPT ![slot] = o]
      BY <1>4 DEF Answer, OpenCraftDone, FreeDone, OpenCraftFails, PutFails
    <3>2. ops'[s] = ops[s]
      BY <2>2, <3>1 DEF TypeOK
    <3>3. QED
      BY <3>2
  <2>3. QED
    BY <2>1, <2>2
<1>5. ASSUME NEW slot \in Slots,
             \/ ServeOpen(slot) \/ ServeNew(slot) \/ ServeMove(slot) \/ ServeClose(slot)
             \/ ServeTabs(slot)
      PROVE  url' = url
  <2>1. Others
    BY <1>5 DEF ServeOpen, ServeNew, ServeMove, ServeClose, ServeTabs, Serve
  <2>2. QED
    BY <2>1 DEF Others, place
<1>6. CASE OtherClient \/ \E m \in mirrors : ServeMirror(m)
  BY <1>6 DEF OtherClient, ServeMirror, Others, place
<1>7. CASE SeeWorkspace \/ SeeVoyages
  BY <1>7 DEF SeeWorkspace, SeeVoyages, See, place
<1>8. ASSUME NEW slot \in Slots, NEW request, NEW how, NEW sh, Perform(slot, request, how, sh)
      PROVE  FALSE
  BY <1>2, <1>8 DEF Perform, ShowEntry, AddEntry
<1>9. ASSUME NEW slot \in Slots, NEW op, Free(slot, op)
      PROVE  FALSE
  BY <1>2, <1>9 DEF Free
<1>10. ASSUME NEW slot \in Slots, NEW c \in Crafts,
              \/ \E does \in {"add", "navigate"} : OpenCraft(slot, does, c)
              \/ NavigateToTabGroup(slot, c)
              \/ SelectTabGroup(slot, c)
              \/ \E to \in Voyages \cup {NoVoyage} : MoveVoyageEntry(slot, c, to)
              \/ CloseTabGroup(slot, c) \/ ChangeTabs(slot, c)
              \/ AddTabGroup(slot, c) \/ CreateNamedVoyage(slot, c)
              \/ CreateFirstVoyage(slot, c)
       PROVE  FALSE
  <2>1. CASE \/ \E does \in {"add", "navigate"} : OpenCraft(slot, does, c)
             \/ NavigateToTabGroup(slot, c)
    BY <1>8, <2>1 DEF OpenCraft, NavigateToTabGroup
  <2>2. CASE SelectTabGroup(slot, c) \/ CreateFirstVoyage(slot, c)
    BY <1>2, <2>2 DEF SelectTabGroup, CreateFirstVoyage, ShowEntry, AddEntry
  <2>3. CASE \/ \E to \in Voyages \cup {NoVoyage} : MoveVoyageEntry(slot, c, to)
             \/ CloseTabGroup(slot, c) \/ ChangeTabs(slot, c)
             \/ AddTabGroup(slot, c) \/ CreateNamedVoyage(slot, c)
    BY <1>9, <2>3 DEF MoveVoyageEntry, CloseTabGroup, ChangeTabs, AddTabGroup, CreateNamedVoyage
  <2>4. QED
    BY <1>10, <2>1, <2>2, <2>3
<1>11. ASSUME NEW slot \in Slots, RetryOpenCraft(slot) \/ OpenCraftInNewVoyage(slot)
       PROVE  FALSE
  BY <1>2, <1>8, <1>11 DEF RetryOpenCraft, OpenCraftInNewVoyage
<1>12. ASSUME \/ \E b \in BOOLEAN : OpenSearch(b) \/ CloseSearch(b)
              \/ ClosePendingOpenCraftTab \/ CloseDuplicateCraftPrompt
              \/ SwitchToExistingCraft
              \/ \E v \in Voyages : SwitchToCraftInOtherVoyage(v) \/ ResumeSession(v) \/ DeleteSession(v)
              \/ \E c \in Crafts : SelectVoyageEntry(c) \/ RemoveVoyageEntry(c)
              \/ OpenFallbackVoyage
              \/ \E v \in (Voyages \cap born) \cup {NoVoyage} : GoTo(v) \/ Load(v)
       PROVE  FALSE
  BY <1>2, <1>12 DEF OpenSearch, CloseSearch, ClosePendingOpenCraftTab, CloseDuplicateCraftPrompt,
       ShellOnly, SwitchToExistingCraft, SwitchToCraftInOtherVoyage, ResumeSession, DeleteSession,
       SelectVoyageEntry, ShowEntry, RemoveVoyageEntry, OpenFallbackVoyage, GoTo, Load
<1>13. QED
  BY <1>3, <1>4, <1>5, <1>6, <1>7, <1>10, <1>11, <1>12 DEF Next, Event

\* The answer of an Open Craft navigates only if the URL, or the shell that was
\* unmounted, was in its voyage (openCraftCompletionStillOwnsNavigation).
LEMMA NavigatesOwned ==
    ASSUME Inv, dirty = "no", NEW s \in Slots, ops[s] # Nothing, Answer(s),
           ops[s].kind \in {"add", "put", "found"}, url' # url
    PROVE  LeftIn(ops[s]) = ops[s].origin
<1>1. Owns(ops[s])
  <2>1. OpenCraftDone(s) \/ FreeDone(s)
    BY DEF Answer, OpenCraftFails, PutFails, Stay
  <2>2. ~FreeDone(s)
    BY DEF FreeDone
  <2>3. QED
    BY <2>1, <2>2 DEF OpenCraftDone, Stay
<1>2. CASE ops[s].ref = Here
  <2>1. current = url.voyage
    BY <1>2 DEF Inv, Tracked, Mounted, Rendered
  <2>2. QED
    BY <1>1, <1>2, <2>1 DEF Owns, CurrentFor, LeftIn
<1>3. CASE ops[s].ref # Here
  BY <1>1, <1>3 DEF Owns, CurrentFor, LeftIn
<1>4. QED
  BY <1>2, <1>3

\* A path to a voyage is in it.
LEMMA PathStays == ASSUME NEW v, NEW c PROVE PathTo(v, c).voyage = v
BY DEF PathTo, Url

\* The effects of a render leave the voyage of the URL, or activate an entry,
\* only for a craft that was waited for in the voyage that is rendered.
LEMMA WaitedLeaves ==
    ASSUME NEW in
    PROVE  LET w == Waited(shell, in)
           IN  \/ w.act = act /\ w.url = url
               \/ shell.waiting # Nothing /\ shell.waiting.origin = in
BY DEF Waited

LEMMA RenderLeaves ==
    ASSUME Inv, Render, url # Root, url'.voyage # url.voyage \/ act' \notin {act, Nothing}
    PROVE  shell.waiting # Nothing /\ shell.waiting.origin = url.voyage
<1>1. CASE RenderShell
  <2> DEFINE w == Waited(shell, current)
  <2>1. dirty = "shell" /\ act' = w.act /\ url' = w.url
    BY <1>1 DEF RenderShell
  <2>2. shell.waiting # Nothing /\ shell.waiting.origin = current
    <3>1. \/ w.act = act /\ w.url = url
          \/ shell.waiting # Nothing /\ shell.waiting.origin = current
      BY WaitedLeaves
    <3> HIDE DEF w
    <3>2. QED
      BY <2>1, <3>1
  <2>3. Mounted
    BY <2>2 DEF Inv, Tracked, NewShell
  <2>4. current = url.voyage
    BY <2>1, <2>3 DEF Inv, Rendered, Mounted
  <2>5. QED
    BY <2>2, <2>4
<1>2. CASE RenderVoyage
  <2> DEFINE w == Waited(shell, url.voyage)
             after == Canonical(w)
  <2>1. TypeOK /\ Resolves(url) /\ act' = after.act /\ url' = after.url
    BY <1>2 DEF RenderVoyage, Inv, Typed
  <2>2. w = [shell |-> w.shell, act |-> w.act, url |-> w.url]
        /\ w.act \in Urls \cup {Nothing} /\ w.url \in Urls
    BY WaitedTyped
  <2>3. \/ w.act = act /\ w.url = url
        \/ shell.waiting # Nothing /\ shell.waiting.origin = url.voyage
    BY WaitedLeaves
  <2> HIDE DEF w
  <2>4. after.act \in {w.act, Nothing} /\ after.url \in {w.url, PathTo(url.voyage, NoCraft)}
    <3>1. after.act \in {w.act, Nothing}
      BY <2>2 DEF Canonical
    <3>2. after.url \in {w.url, PathTo(url.voyage, NoCraft)}
      BY <2>1, <2>2, CanonicalTyped
    <3>3. QED
      BY <3>1, <3>2
  <2> HIDE DEF after
  <2>5. QED
    BY <2>1, <2>3, <2>4, PathStays
<1>3. CASE RenderRoot
  BY <1>3 DEF RenderRoot
<1>4. CASE RenderNotFound
  BY <1>4 DEF RenderNotFound
<1>5. QED
  BY <1>1, <1>2, <1>3, <1>4 DEF Render

\* Open Craft pulls nobody back: its answer navigates only if the URL is in the
\* voyage that it was asked for in, or the shell that was unmounted was, and a
\* render leaves a voyage only for a craft that was waited for in it.
THEOREM OpenCraftStays == Spec => StaysInVoyage
<1>1. Inv /\ [Next]_vars =>
        [/\ \A s \in Slots :
              /\ ops[s] # Nothing /\ ops'[s] = Nothing /\ spent' = spent
              /\ ops[s].kind \in {"add", "put", "found"}
              /\ ops[s].stage = "done"
              /\ url' # url
              => LeftIn(ops[s]) = ops[s].origin
         /\ /\ dirty # "no" /\ url # Root
            /\ url'.voyage # url.voyage \/ act' \notin {act, Nothing}
            => shell.waiting # Nothing /\ shell.waiting.origin = url.voyage]_vars
  <2> SUFFICES ASSUME Inv, Next
               PROVE  /\ \A s \in Slots :
                            /\ ops[s] # Nothing /\ ops'[s] = Nothing /\ spent' = spent
                            /\ ops[s].kind \in {"add", "put", "found"}
                            /\ url' # url
                            => LeftIn(ops[s]) = ops[s].origin
                      /\ /\ dirty # "no" /\ url # Root
                         /\ url'.voyage # url.voyage \/ act' \notin {act, Nothing}
                         => shell.waiting # Nothing /\ shell.waiting.origin = url.voyage
    OBVIOUS
  <2>1. ASSUME NEW s \in Slots, ops[s] # Nothing, ops'[s] = Nothing, spent' = spent,
               ops[s].kind \in {"add", "put", "found"}, url' # url
        PROVE  LeftIn(ops[s]) = ops[s].origin
    <3>1. Answer(s)
      BY <2>1, SettlesBy DEF Inv, Typed
    <3>2. dirty = "no"
      <4>1. ~RenderShell /\ ~RenderVoyage /\ ~RenderRoot /\ ~RenderNotFound
        BY <2>1 DEF RenderShell, RenderVoyage, RenderRoot, RenderNotFound
      <4>2. QED
        BY <4>1 DEF Next, Render
    <3>3. QED
      BY <2>1, <3>1, <3>2, NavigatesOwned
  <2>2. ASSUME dirty # "no", url # Root,
               url'.voyage # url.voyage \/ act' \notin {act, Nothing}
        PROVE  shell.waiting # Nothing /\ shell.waiting.origin = url.voyage
    BY <2>2, RenderLeaves DEF Next
  <2>3. QED
    BY <2>1, <2>2
<1>2. QED
  BY <1>1, Invariant, PTL DEF Spec, StaysInVoyage

\* A craft that is opened, and that the tab knows, stays in the URL when the
\* route is rendered.
THEOREM OpenedStays == Spec => StaysOpened
<1>1. TypeOK /\ [Next]_vars =>
        [/\ dirty = "route" /\ Resolves(url)
         /\ act = url /\ url.craft \in seenCraft
         /\ shell.waiting = Nothing
         => url' = url]_vars
  <2> SUFFICES ASSUME TypeOK, Next, dirty = "route", Resolves(url), act = url,
                      url.craft \in seenCraft, shell.waiting = Nothing
               PROVE  url' = url
    OBVIOUS
  <2>1. RenderVoyage \/ RenderRoot \/ RenderNotFound
    BY DEF Next, Render, RenderShell
  <2>2. CASE RenderVoyage
    <3>1. Waited(shell, url.voyage) = [shell |-> shell, act |-> act, url |-> url]
      BY DEF Waited
    <3>2. act # Nothing
      BY DEF TypeOK
    <3>3. Awaited(act) \/ Selects(url)
      BY <3>2 DEF Awaited, Selects
    <3>4. Canonical(Waited(shell, url.voyage)).url = url
      BY <3>1, <3>3 DEF Canonical, Follows
    <3>5. QED
      BY <2>2, <3>4 DEF RenderVoyage
  <2>3. ~RenderRoot
    BY DEF RenderRoot, Root, Url, Resolves, TypeOK, TypeSaved
  <2>4. CASE RenderNotFound
    BY <2>4 DEF RenderNotFound
  <2>5. QED
    BY <2>1, <2>2, <2>3, <2>4
<1>2. QED
  BY <1>1, TypeCorrect, PTL DEF Spec, StaysOpened

=============================================================================
