----------------------------- MODULE IframePanel -----------------------------
(***************************************************************************)
(* The frames of a craft's tabs (src/src/components/IframePanel.tsx).      *)
(* React does not make the frames: they are kept in a store outside of it, *)
(* which outlives the panel, for the tabs of all craft that were shown     *)
(* lately.  A render says which tabs are to have a frame, and the effects  *)
(* that follow it put the store, the document and the panel's own state    *)
(* right; where that takes another render, they ask for one.               *)
(*                                                                         *)
(* Between a render and its effects, and at any time, frames load, fail,   *)
(* and are found to have content.  A frame that is taken out of the        *)
(* document loses what it has loaded: this is the browser's doing.  A tab  *)
(* is its key in the store, and only tabs that show a page are modelled.   *)
(***************************************************************************)
EXTENDS Integers, FiniteSets, FiniteSetsExt

CONSTANTS
    Tabs,
    SameOrigin,      \* tabs whose content can be looked at
    Views,           \* the tabs that may be shown together: one, or a split
    Voyages,
    MaxRetained,     \* MAX_RETAINED_IFRAMES
    MaxActs,         \* bound on what the user and other clients do
    MaxErrors,       \* bound on frames that fail
    MaxPolls,        \* no more checks of one frame's content at a time
    NoVoyage

ASSUME PanelAssumption ==
    /\ IsFiniteSet(Tabs) /\ SameOrigin \subseteq Tabs
    /\ Views \subseteq SUBSET Tabs /\ {} \notin Views
    /\ NoVoyage \notin Voyages
    /\ MaxRetained \in Nat \ {0} /\ MaxPolls \in Nat \ {0}
    /\ MaxActs \in Nat /\ MaxErrors \in Nat

VARIABLES
    props,            \* what the panel is to show; FALSE mounted: it is not there
    rendered,         \* what the last render made of it
    pc, dirty,        \* effects are due, a render is due
    bumped,           \* storeVersion has changed since the last render
    hosts,            \* tabs that have a place in the document
    frame,            \* iframeStore
    retained,         \* retainedTabIds
    accessed,         \* the order of lastAccessedAt
    retainedVoyage,   \* retainedSessionId
    ready, failed,    \* loadingState and errorState
    seen,             \* what was shown, and before that
    acts, errors

store  == <<frame, retained, accessed, retainedVoyage>>
panel  == <<rendered, pc, bumped, hosts, ready, failed, seen>>
bounds == <<acts, errors>>
vars   == <<props, rendered, pc, dirty, bumped, hosts, frame, retained, accessed,
            retainedVoyage, ready, failed, seen, acts, errors>>

Urls == 0..2      \* 0: the tab is gone, or shows no page any more

(* src 0: the store has no frame for the tab.  doc: what the browser has.  *)
NoFrame == [src |-> 0, loaded |-> FALSE, ready |-> FALSE, error |-> FALSE,
            polls |-> 0, heard |-> FALSE, doc |-> "none"]
InStore(f)  == {t \in Tabs : f[t].src # 0}
Attached(f) == {t \in Tabs : f[t].doc # "none"}

Init ==
    /\ props = [mounted |-> FALSE, voyage |-> NoVoyage, shown |-> {},
                url |-> [t \in Tabs |-> 1]]
    /\ rendered = [tabs |-> {}, shown |-> {}, voyage |-> NoVoyage,
                   url |-> [t \in Tabs |-> 1], fresh |-> FALSE]
    /\ pc = "idle" /\ dirty = FALSE /\ bumped = FALSE /\ hosts = {}
    /\ frame = [t \in Tabs |-> NoFrame]
    /\ retained = {} /\ accessed = [t \in Tabs |-> 0]
    /\ retainedVoyage = NoVoyage
    /\ ready = {} /\ failed = {}
    /\ seen = [now |-> {}, before |-> {}]
    /\ acts = 0 /\ errors = 0

-----------------------------------------------------------------------------
(* Rendering.                                                              *)

Known(u) == {t \in Tabs : u[t] # 0}

(* What is rendered: every tab of the workspace that is shown or retained. *)
Rendering(p, version) ==
    [tabs |-> {t \in Known(p.url) : t \in retained \/ t \in p.shown},
     shown |-> p.shown \cap Known(p.url), voyage |-> p.voyage, url |-> p.url,
     fresh |-> version]

(* A failed frame has the effects set a new map of errors, every time they *)
(* are run: the panel is rendered again and again.                         *)
Failing == \E t \in rendered.tabs : frame[t].loaded /\ frame[t].ready /\ frame[t].error

Render ==
    /\ props.mounted /\ pc = "idle"
    /\ dirty \/ Failing
    /\ rendered' = Rendering(props, bumped)
    /\ pc' = "effects" /\ dirty' = FALSE /\ bumped' = FALSE
    /\ UNCHANGED <<props, hosts, ready, failed, seen, store, bounds>>

(* IframeHost: the places of the tabs.  Those that go, or all if there is  *)
(* a new version, give up their frame first.                               *)
Stays == IF rendered.fresh THEN {} ELSE hosts \cap rendered.tabs
Place(t, f) ==
    IF t \in rendered.tabs /\ f.src # 0 THEN [f EXCEPT !.doc = "loading"]
    ELSE [f EXCEPT !.doc = "none"]

VoyageChanged == retainedVoyage # rendered.voyage

(* removeIframe, for all of them if another voyage is open.                *)
Kept(t, f) == IF VoyageChanged THEN NoFrame ELSE f

(* getOrCreateIframe, for a rendered tab that has no frame.                *)
Created(t, f) ==
    IF t \in rendered.tabs /\ f.src = 0
    THEN [NoFrame EXCEPT !.src = rendered.url[t]] ELSE f

(* A frame whose tab has another URL loads that.                           *)
Moves(t, f) == t \in rendered.tabs /\ f.src # rendered.url[t]
Navigated(t, f) ==
    IF ~Moves(t, f) THEN f
    ELSE [f EXCEPT !.src = rendered.url[t], !.loaded = FALSE,
             !.ready = FALSE, !.error = FALSE,
             !.doc = IF @ = "none" THEN @ ELSE "loading"]

(* Faulty Evictions: those shown last go first.                            *)
FaultyEvictions(kept, order) ==
    LET hidden == kept \ rendered.shown
        excess == Max({0, Cardinality(kept) - MaxRetained})
    IN  {E \in SUBSET hidden :
            /\ Cardinality(E) = Min({excess, Cardinality(hidden)})
            /\ \A e \in E, h \in hidden \ E : order[e] >= order[h]}

(* Faulty Evictions: one too many is kept.                                 *)
LooseEvictions(kept, order) ==
    LET hidden == kept \ rendered.shown
        excess == Max({0, Cardinality(kept) - MaxRetained - 1})
    IN  {E \in SUBSET hidden :
            /\ Cardinality(E) = Min({excess, Cardinality(hidden)})
            /\ \A e \in E, h \in hidden \ E : order[e] <= order[h]}

(* Of the hidden tabs, those go that were shown the longest ago, until     *)
(* there are no more than the limit.  Tabs of a split are of the same age. *)
Evictions(kept, order) ==
    LET hidden == kept \ rendered.shown
        excess == Max({0, Cardinality(kept) - MaxRetained})
    IN  {E \in SUBSET hidden :
            /\ Cardinality(E) = Min({excess, Cardinality(hidden)})
            /\ \A e \in E, h \in hidden \ E : order[e] <= order[h]}

(* The order of the times: what is shown comes last.                       *)
Dense(S, order) ==
    [t \in Tabs |-> IF t \in S THEN Cardinality({order[u] : u \in
                        {v \in S : order[v] < order[t]}}) ELSE 0]
Touched == [t \in Tabs |-> IF t \in rendered.shown THEN Cardinality(Tabs) + 1
                           ELSE accessed[t]]

Settled(f) == {t \in rendered.tabs : f[t].src # 0 /\ f[t].loaded /\ f[t].ready}
Subscribed(f, settled) ==
    [t \in Tabs |-> [f[t] EXCEPT !.heard = /\ t \in rendered.tabs \ settled
                                           /\ f[t].src # 0]]

(* The effects, in their order: places, another voyage and frames to       *)
(* create, URLs that have changed, what is retained, and who listens.      *)
PlaceAll == [t \in Tabs |-> IF t \in Stays THEN frame[t] ELSE Place(t, frame[t])]
Wanted   == (IF VoyageChanged THEN {} ELSE retained) \cup rendered.shown

Listen(left, moved, settled) ==
    /\ frame' = Subscribed(left, settled)
    /\ ready' = (ready \ moved) \cup settled
    /\ failed' = (failed \ moved) \cup {t \in settled : left[t].error}

(* Faulty Retain: a tab that has gone is still retained.                   *)
FaultyRetain(made, moved, E) ==
    LET gone == E \cup (Wanted \ Known(rendered.url))
    IN  /\ retained' = Wanted \ E
        /\ accessed' = Dense(Wanted \ gone, Touched)
        /\ \E left \in {[t \in Tabs |-> IF t \in gone THEN NoFrame
                                     ELSE Navigated(t, made[t])]} :
              \E settled \in {Settled(left)} : Listen(left, moved, settled)
        /\ bumped' = (VoyageChanged \/ (\E t \in rendered.tabs : frame[t].src = 0)
                        \/ gone # {})

Retain(made, moved, E) ==
    LET gone == E \cup (Wanted \ Known(rendered.url))
    IN  /\ retained' = Wanted \ gone
        /\ accessed' = Dense(Wanted \ gone, Touched)
        /\ \E left \in {[t \in Tabs |-> IF t \in gone THEN NoFrame
                                     ELSE Navigated(t, made[t])]} :
              \E settled \in {Settled(left)} : Listen(left, moved, settled)
        /\ bumped' = (VoyageChanged \/ (\E t \in rendered.tabs : frame[t].src = 0)
                        \/ gone # {})

Effects ==
    /\ pc = "effects"
    /\ \E placed \in {PlaceAll} :
          \E made \in {[t \in Tabs |-> Created(t, Kept(t, placed[t]))]} :
             \E E \in Evictions(Wanted \cap Known(rendered.url), Touched) :
                Retain(made, {t \in Tabs : Moves(t, made[t])}, E)
    /\ retainedVoyage' = rendered.voyage
    /\ hosts' = rendered.tabs
    /\ pc' = "idle"
    /\ dirty' = (dirty \/ bumped' \/ ready' # ready \/ failed' # failed)
    /\ seen' = IF rendered.shown = seen.now /\ ~VoyageChanged THEN seen
               ELSE [now |-> rendered.shown,
                     before |-> IF VoyageChanged THEN {} ELSE seen.now]
    /\ UNCHANGED <<props, rendered, bounds>>

-----------------------------------------------------------------------------
(* The browser.                                                            *)

(* The panel listens: what is loaded and has content is shown.             *)
Tell(t, f) ==
    /\ ready' = IF f.heard /\ f.loaded /\ f.ready THEN ready \cup {t} ELSE ready
    /\ failed' = IF f.heard /\ f.loaded /\ f.ready /\ f.error
                 THEN failed \cup {t} ELSE failed
    /\ dirty' = (dirty \/ ready' # ready \/ failed' # failed)

(* checkContentReady: content that cannot be looked at counts as ready,    *)
(* other content is checked time and again, for ten seconds.               *)
checkContentReady(t, f) ==
    IF t \in SameOrigin THEN [f EXCEPT !.polls = Min({@ + 1, MaxPolls})]
    ELSE [f EXCEPT !.ready = TRUE]

Load(t) ==
    LET f == checkContentReady(t, [frame[t] EXCEPT !.doc = "shown", !.loaded = TRUE])
    IN  /\ frame[t].doc = "loading"
        /\ frame' = [frame EXCEPT ![t] = f]
        /\ Tell(t, f)
        /\ UNCHANGED <<props, rendered, pc, bumped, hosts, seen, retained, accessed,
                       retainedVoyage, bounds>>

Error(t) ==
    LET f == [frame[t] EXCEPT !.doc = "shown", !.error = TRUE, !.loaded = TRUE,
                              !.ready = TRUE]
    IN  /\ frame[t].doc = "loading" /\ errors < MaxErrors
        /\ errors' = errors + 1
        /\ frame' = [frame EXCEPT ![t] = f]
        /\ Tell(t, f)
        /\ UNCHANGED <<props, rendered, pc, bumped, hosts, seen, retained, accessed,
                       retainedVoyage, acts>>

(* Faulty ContentFound: nobody is told.                                    *)
FaultyContentFound(t) ==
    /\ frame[t].polls > 0
    /\ frame' = [frame EXCEPT ![t] = [@ EXCEPT !.ready = TRUE, !.polls = @ - 1]]
    /\ UNCHANGED <<props, rendered, pc, dirty, bumped, hosts, seen, ready, failed,
                   retained, accessed, retainedVoyage, bounds>>

(* A check finds content, or that the frame has gone on to another page,   *)
(* or its time is up.  The timeout stays pending when content was found,   *)
(* and may be up for a page that has come since.                           *)
ContentFound(t) ==
    /\ frame[t].polls > 0
    /\ \E up \in {0, 1} :
         LET f == [frame[t] EXCEPT !.ready = TRUE, !.polls = @ - up]
         IN  frame' = [frame EXCEPT ![t] = f] /\ Tell(t, f)
    /\ UNCHANGED <<props, rendered, pc, bumped, hosts, seen, retained, accessed,
                   retainedVoyage, bounds>>

-----------------------------------------------------------------------------
(* The user, and changes of the workspace.                                 *)

Act == acts < MaxActs /\ acts' = acts + 1 /\ UNCHANGED errors

Mount(v, S) ==
    LET p == [props EXCEPT !.mounted = TRUE, !.voyage = v, !.shown = S]
    IN  /\ ~props.mounted /\ S \subseteq Known(props.url)
        /\ Act
        /\ props' = p
        /\ rendered' = Rendering(p, FALSE)
        /\ pc' = "effects"
        /\ ready' = {t \in rendered'.tabs : frame[t].loaded /\ frame[t].ready}
        /\ failed' = {t \in rendered'.tabs : frame[t].error}
        /\ UNCHANGED <<dirty, bumped, hosts, seen, store>>

(* The panel goes: its places with it, and its state.                      *)
Unmount ==
    /\ props.mounted /\ pc = "idle" /\ Act
    /\ props' = [props EXCEPT !.mounted = FALSE]
    /\ frame' = [t \in Tabs |-> [frame[t] EXCEPT !.doc = "none", !.heard = FALSE]]
    /\ hosts' = {} /\ ready' = {} /\ failed' = {}
    /\ dirty' = FALSE /\ bumped' = FALSE
    /\ UNCHANGED <<rendered, pc, seen, retained, accessed, retainedVoyage>>

Show(S) ==
    /\ props.mounted /\ S # props.shown /\ S \subseteq Known(props.url)
    /\ Act
    /\ props' = [props EXCEPT !.shown = S]
    /\ dirty' = TRUE
    /\ UNCHANGED <<panel, store>>

OpenVoyage(v, S) ==
    /\ props.mounted /\ v # props.voyage /\ S \subseteq Known(props.url)
    /\ Act
    /\ props' = [props EXCEPT !.voyage = v, !.shown = S]
    /\ dirty' = TRUE
    /\ UNCHANGED <<panel, store>>

(* A tab is given another URL, is closed, or shows no page any more.       *)
ChangeUrl(t, u) ==
    /\ props.url[t] # 0 /\ u # props.url[t]
    /\ Act
    /\ props' = [props EXCEPT !.url[t] = u,
                    !.shown = IF u = 0 THEN @ \ {t} ELSE @]
    /\ dirty' = props.mounted
    /\ UNCHANGED <<panel, store>>

retryTab(t) ==
    /\ props.mounted /\ t \in rendered.shown \cap failed /\ frame[t].src # 0
    /\ Act
    /\ frame' = [frame EXCEPT ![t].loaded = FALSE, ![t].ready = FALSE,
                    ![t].error = FALSE,
                    ![t].doc = IF @ = "none" THEN @ ELSE "loading"]
    /\ ready' = ready \ {t} /\ failed' = failed \ {t}
    /\ dirty' = TRUE
    /\ UNCHANGED <<props, rendered, pc, bumped, hosts, seen, retained, accessed,
                   retainedVoyage>>

User ==
    \/ \E v \in Voyages, S \in Views : Mount(v, S) \/ OpenVoyage(v, S)
    \/ \E S \in Views : Show(S)
    \/ Unmount
    \/ \E t \in Tabs : retryTab(t) \/ \E u \in Urls : ChangeUrl(t, u)

Browser == \E t \in Tabs : Load(t) \/ Error(t) \/ ContentFound(t)

Next == Render \/ Effects \/ Browser \/ User

(* React renders and runs its effects; frames come to load or fail; and    *)
(* timers fire.                                                            *)
Spec ==
    /\ Init /\ [][Next]_vars
    /\ WF_vars(Render \/ Effects) /\ WF_vars(Browser)

-----------------------------------------------------------------------------
(* Properties.                                                             *)

Frame == [src : Urls, loaded : BOOLEAN, ready : BOOLEAN, error : BOOLEAN,
          polls : 0..MaxPolls, heard : BOOLEAN, doc : {"none", "loading", "shown"}]

(* Every variable has its type; what is retained or in the document has a  *)
(* frame in the store.                                                     *)
TypeOK ==
    /\ props \in [mounted : BOOLEAN, voyage : Voyages \cup {NoVoyage},
                  shown : SUBSET Tabs, url : [Tabs -> Urls]]
    /\ rendered \in [tabs : SUBSET Tabs, shown : SUBSET Tabs, fresh : BOOLEAN,
                     voyage : Voyages \cup {NoVoyage}, url : [Tabs -> Urls]]
    /\ pc \in {"idle", "effects"} /\ dirty \in BOOLEAN /\ bumped \in BOOLEAN
    /\ frame \in [Tabs -> Frame]
    /\ retained \subseteq InStore(frame) /\ Attached(frame) \subseteq InStore(frame)
    /\ hosts \subseteq Tabs /\ ready \subseteq Tabs /\ failed \subseteq Tabs
    /\ retainedVoyage \in Voyages \cup {NoVoyage}
    /\ acts \in 0..MaxActs /\ errors \in 0..MaxErrors

AtRest == props.mounted /\ pc = "idle" /\ ~dirty

(* When nothing new is left to render, what is shown is in the document,   *)
(* and so is what is retained and nothing else: no more than the limit,    *)
(* unless more is shown at once.                                           *)
FramesInPlace ==
    AtRest =>
        /\ props.shown \cap Known(props.url) \subseteq Attached(frame)
        /\ Attached(frame) = retained
        /\ Cardinality(retained) <= Max({MaxRetained, Cardinality(props.shown)})

(* Who goes back to what was shown before finds its frames, if both fit,   *)
(* and they are of the voyage that is open.                                *)
PreviousKept ==
    AtRest /\ Cardinality(seen.now \cup seen.before) <= MaxRetained =>
        seen.before \cap Known(props.url) \subseteq retained

(* Nobody looks at the loading screen for ever: when nothing more is done, *)
(* every tab that is shown gets ready, or has failed and can be tried      *)
(* again.                                                                  *)
Loading(t)  == props.mounted /\ t \in props.shown \ (ready \cup failed)
LoadingEnds == <>[]\A t \in Tabs : ~Loading(t)

(* The comment of IframeHost: a frame survives renders of the panel.  What *)
(* has been loaded stays while its tab is retained and has the same URL.   *)
SurvivesRerenders ==
    [][\A t \in retained \cap retained' :
          /\ pc = "effects" /\ pc' = "idle" /\ ~VoyageChanged
          /\ frame[t].doc = "shown" /\ frame[t].src = rendered.url[t]
          => frame'[t].doc = "shown"]_vars

=============================================================================
