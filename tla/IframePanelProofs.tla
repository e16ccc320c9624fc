-------------------------- MODULE IframePanelProofs -------------------------
(***************************************************************************)
(* Proofs about IframePanel, for any tabs, voyages and number of frames.   *)
(*                                                                         *)
(* InPlace is the invariant of renders and their effects: what the         *)
(* document, the places of the panel and the last render have to do with   *)
(* each other, between any two of them.  Recent is that of what is         *)
(* retained: what was shown last, and before that, is the youngest.        *)
(***************************************************************************)
EXTENDS IframePanel, FiniteSetTheorems, TLAPS

-----------------------------------------------------------------------------
(* The inductive invariant.                                                *)

Typed ==
    /\ TypeOK
    /\ accessed \in [Tabs -> 0..Cardinality(Tabs)]
    /\ seen \in [now : SUBSET Tabs, before : SUBSET Tabs]
    /\ rendered.tabs \subseteq Known(rendered.url)
    /\ rendered.shown \subseteq rendered.tabs
    /\ Known(props.url) \subseteq Known(rendered.url)

\* The last render is of what the panel is to show now.
UpToDate == rendered.shown = props.shown \cap Known(props.url) /\ rendered.url = props.url

\* No more are rendered than may be retained, unless all of them are shown.
Few == rendered.tabs \subseteq rendered.shown \/ Cardinality(rendered.tabs) <= MaxRetained

InPlace ==
    /\ ~props.mounted => pc = "idle" /\ ~bumped
    /\ IF pc = "idle" THEN ~bumped => hosts = Attached(frame)
       ELSE ~rendered.fresh => hosts = Attached(frame)
    /\ pc = "effects" =>
           rendered.tabs = {t \in Known(rendered.url) : t \in retained \/ t \in rendered.shown}
    /\ props.mounted /\ ~dirty => UpToDate
    /\ AtRest => ~bumped /\ hosts = rendered.tabs /\ retained = rendered.tabs /\ Few

\* What of P is retained was shown after all of what is retained beside it.
Younger(P, Q, kept, order) ==
    \A p \in P \cap kept, r \in kept \ (P \cup Q) : order[r] < order[p]

Recent ==
    /\ seen.now \cap Known(rendered.url) \subseteq retained
    /\ Younger(seen.now, {}, retained, accessed)
    /\ Younger(seen.before, seen.now, retained, accessed)
    /\ Cardinality(seen.now \cup seen.before) <= MaxRetained =>
           seen.before \cap Known(rendered.url) \subseteq retained

Inv == Typed /\ InPlace /\ Recent

-----------------------------------------------------------------------------
(* Types.                                                                  *)

LEMMA MinOfTwo ==
  ASSUME NEW m \in Int, NEW n \in Int
  PROVE  Min({m, n}) = IF m <= n THEN m ELSE n
<1> DEFINE least == IF m <= n THEN m ELSE n
<1>1. least \in {m, n} /\ \A y \in {m, n} : least <= y
  OBVIOUS
<1>2. \A x \in {m, n} : (\A y \in {m, n} : x <= y) => x = least
  OBVIOUS
<1> QED BY <1>1, <1>2 DEF Min

LEMMA MaxOfTwo ==
  ASSUME NEW m \in Int, NEW n \in Int
  PROVE  Max({m, n}) = IF m <= n THEN n ELSE m
<1> DEFINE most == IF m <= n THEN n ELSE m
<1>1. most \in {m, n} /\ \A y \in {m, n} : most >= y
  OBVIOUS
<1>2. \A x \in {m, n} : (\A y \in {m, n} : x >= y) => x = most
  OBVIOUS
<1> QED BY <1>1, <1>2 DEF Max

\* A frame that is in the document has a page.
Sound(f) == f \in Frame /\ (f.doc # "none" => f.src # 0)

LEMMA NoFrameSound == Sound(NoFrame) /\ NoFrame.src = 0 /\ NoFrame.doc = "none"
  BY PanelAssumption DEF Sound, Frame, NoFrame, Urls

LEMMA FramesSound == TypeOK => \A t \in Tabs : Sound(frame[t])
  BY DEF TypeOK, InStore, Attached, Sound

LEMMA PlaceSound ==
  ASSUME NEW t, NEW f, Sound(f)
  PROVE  /\ Sound(Place(t, f)) /\ Place(t, f).src = f.src
         /\ Place(t, f).doc = (IF t \in rendered.tabs /\ f.src # 0 THEN "loading" ELSE "none")
  BY DEF Sound, Frame, Place

LEMMA KeptSound ==
  ASSUME NEW t, NEW f, Sound(f)
  PROVE  Sound(Kept(t, f))
  BY NoFrameSound DEF Kept

LEMMA CreatedSound ==
  ASSUME NEW t \in Tabs, NEW f, Sound(f), Typed
  PROVE  /\ Sound(Created(t, f))
         /\ t \in rendered.tabs => Created(t, f).src # 0
         /\ f.src # 0 => Created(t, f) = f
  BY NoFrameSound DEF Sound, Frame, Created, Typed, TypeOK, Known, NoFrame, Urls

LEMMA NavigatedSound ==
  ASSUME NEW t \in Tabs, NEW f, Sound(f), Typed
  PROVE  /\ Sound(Navigated(t, f))
         /\ Navigated(t, f).src = (IF t \in rendered.tabs THEN rendered.url[t] ELSE f.src)
         /\ Navigated(t, f).doc = "none" <=> f.doc = "none"
  BY DEF Sound, Frame, Navigated, Moves, Typed, TypeOK, Known, Urls

-----------------------------------------------------------------------------
(* The effects of a render.                                                *)

\* The frames when those there were to be made are made, and when those
\* that go are gone; E is what is evicted.
Made(t) == Created(t, Kept(t, PlaceAll[t]))
Gone(E) == E \cup (Wanted \ Known(rendered.url))
Left(E) == [t \in Tabs |-> IF t \in Gone(E) THEN NoFrame ELSE Navigated(t, Made(t))]
Moved   == {t \in Tabs : Moves(t, Made(t))}

\* The effects, but for E.
EffectsOf(E) ==
    /\ E \in Evictions(Wanted \cap Known(rendered.url), Touched)
    /\ Listen(Left(E), Moved, Settled(Left(E)))
    /\ retained' = Wanted \ Gone(E)
    /\ accessed' = Dense(Wanted \ Gone(E), Touched)
    /\ bumped' = (VoyageChanged \/ (\E t \in rendered.tabs : frame[t].src = 0)
                    \/ Gone(E) # {})

LEMMA EffectsHaveE == Effects => \E E : EffectsOf(E)
<1> SUFFICES ASSUME Effects PROVE \E E : EffectsOf(E)
  OBVIOUS
<1> DEFINE made == [t \in Tabs |-> Created(t, Kept(t, PlaceAll[t]))]
<1>1. PICK E \in Evictions(Wanted \cap Known(rendered.url), Touched) :
          Retain(made, {t \in Tabs : Moves(t, made[t])}, E)
  BY DEF Effects
<1>2. {t \in Tabs : Moves(t, made[t])} = Moved
  BY DEF Moved, Made
<1>3. [t \in Tabs |-> IF t \in E \cup (Wanted \ Known(rendered.url)) THEN NoFrame
                      ELSE Navigated(t, made[t])] = Left(E)
  BY DEF Left, Gone, Made
<1>4. Retain(made, Moved, E)
  BY <1>1, <1>2
<1> HIDE DEF made
<1>5. Listen(Left(E), Moved, Settled(Left(E)))
  BY <1>3, <1>4 DEF Retain
<1>6. /\ retained' = Wanted \ Gone(E)
      /\ accessed' = Dense(Wanted \ Gone(E), Touched)
      /\ bumped' = (VoyageChanged \/ (\E t \in rendered.tabs : frame[t].src = 0)
                      \/ Gone(E) # {})
  BY <1>4 DEF Retain, Gone
<1> QED BY <1>1, <1>5, <1>6 DEF EffectsOf

LEMMA MadeSound ==
  ASSUME Typed, NEW t \in Tabs
  PROVE  /\ Sound(Made(t))
         /\ t \in rendered.tabs => Made(t).src # 0
         /\ ~VoyageChanged => (frame[t].src # 0 => Made(t) = PlaceAll[t])
<1>1. Sound(frame[t])
  BY FramesSound DEF Typed
<1>2. Sound(PlaceAll[t]) /\ PlaceAll[t].src = frame[t].src
  BY <1>1, PlaceSound DEF PlaceAll
<1>3. Sound(Kept(t, PlaceAll[t])) /\ (~VoyageChanged => Kept(t, PlaceAll[t]) = PlaceAll[t])
  BY <1>2, KeptSound DEF Kept
<1> QED BY <1>2, <1>3, CreatedSound DEF Made

LEMMA LeftSound ==
  ASSUME Typed, NEW E, NEW t \in Tabs
  PROVE  /\ Sound(Left(E)[t])
         /\ t \notin Gone(E) /\ t \in rendered.tabs => Left(E)[t].src # 0
         /\ t \notin Gone(E) /\ t \notin rendered.tabs => Left(E)[t].src = Made(t).src
         /\ t \notin Gone(E) => (Left(E)[t].doc = "none" <=> Made(t).doc = "none")
<1>1. Sound(Made(t))
  BY MadeSound
<1>2. t \in rendered.tabs => rendered.url[t] # 0
  BY DEF Typed, Known
<1>3. CASE t \in Gone(E)
  BY <1>3, NoFrameSound DEF Left
<1>4. CASE t \notin Gone(E)
  <2>1. Left(E)[t] = Navigated(t, Made(t))
    BY <1>4 DEF Left
  <2> QED BY <1>1, <1>2, <1>4, <2>1, NavigatedSound
<1> QED BY <1>3, <1>4

\* What becomes of the frames.
LEMMA FramesAfter ==
  ASSUME Typed, NEW E, EffectsOf(E), NEW t \in Tabs
  PROVE  /\ Sound(frame'[t]) /\ frame' \in [Tabs -> Frame]
         /\ frame'[t].src = Left(E)[t].src /\ frame'[t].doc = Left(E)[t].doc
<1>1. \A u \in Tabs : Sound(Left(E)[u])
  BY LeftSound
<1>2. frame' = Subscribed(Left(E), Settled(Left(E)))
  BY DEF EffectsOf, Listen
<1>3. \A u \in Tabs : Sound(frame'[u]) /\ frame'[u].src = Left(E)[u].src
                                       /\ frame'[u].doc = Left(E)[u].doc
  BY <1>1, <1>2 DEF Subscribed, Sound, Frame
<1>4. frame' \in [Tabs -> Frame]
  BY <1>2, <1>3 DEF Subscribed, Sound
<1> QED BY <1>3, <1>4

-----------------------------------------------------------------------------
(* The order of what is retained, and who is evicted.                      *)

LEMMA FiniteTabs ==
  ASSUME NEW S \in SUBSET Tabs
  PROVE  /\ IsFiniteSet(S) /\ Cardinality(S) \in Nat
         /\ Cardinality(S) <= Cardinality(Tabs) /\ Cardinality(Tabs) \in Nat
  BY PanelAssumption, FS_Subset, FS_CardinalityType

LEMMA NoMoreImages ==
  ASSUME NEW S \in SUBSET Tabs, NEW order
  PROVE  LET images == {order[u] : u \in S}
         IN  IsFiniteSet(images) /\ Cardinality(images) \in Nat
                /\ Cardinality(images) <= Cardinality(S)
<1> DEFINE images == {order[u] : u \in S}
           f == [u \in S |-> order[u]]
<1>1. f \in Surjection(S, images)
  BY DEF Surjection
<1> HIDE DEF f, images
<1>2. IsFiniteSet(images) /\ Cardinality(images) <= Cardinality(S)
  BY <1>1, FiniteTabs, FS_Surjection
<1> QED BY <1>2, FS_CardinalityType DEF images

Below(S, order, t) == {order[u] : u \in {v \in S : order[v] < order[t]}}

LEMMA DenseTyped ==
  ASSUME NEW S \in SUBSET Tabs, NEW order
  PROVE  Dense(S, order) \in [Tabs -> 0..Cardinality(Tabs)]
<1> SUFFICES ASSUME NEW t \in Tabs
             PROVE  Cardinality(Below(S, order, t)) \in 0..Cardinality(Tabs)
  BY FiniteTabs DEF Dense, Below
<1>1. {v \in S : order[v] < order[t]} \in SUBSET Tabs
  OBVIOUS
<1>2. /\ Cardinality(Below(S, order, t)) \in Nat
      /\ Cardinality(Below(S, order, t)) <= Cardinality({v \in S : order[v] < order[t]})
  BY <1>1, NoMoreImages DEF Below
<1> QED BY <1>1, <1>2, FiniteTabs

\* Who was shown after another is so in the order that is kept.
LEMMA DenseStrict ==
  ASSUME NEW S \in SUBSET Tabs, NEW order \in [Tabs -> Nat],
         NEW u \in S, NEW v \in S, order[u] < order[v]
  PROVE  Dense(S, order)[u] < Dense(S, order)[v]
<1> DEFINE U == Below(S, order, u)
           V == Below(S, order, v)
<1>1. {w \in S : order[w] < order[v]} \in SUBSET Tabs
  OBVIOUS
<1>2. IsFiniteSet(V) /\ Cardinality(V) \in Nat
  BY <1>1, NoMoreImages DEF Below
<1>3. U \subseteq V /\ order[u] \in V /\ order[u] \notin U
  BY DEF Below
<1>4. IsFiniteSet(U) /\ Cardinality(U) <= Cardinality(V) /\ Cardinality(U) # Cardinality(V)
  BY <1>2, <1>3, FS_Subset
<1>5. Cardinality(U) < Cardinality(V)
  BY <1>2, <1>4, FS_CardinalityType
<1> QED BY <1>5 DEF Dense, Below

LEMMA YoungerStays ==
  ASSUME NEW S \in SUBSET Tabs, NEW order \in [Tabs -> Nat], NEW P, NEW Q,
         Younger(P, Q, S, order)
  PROVE  Younger(P, Q, S, Dense(S, order))
<1> SUFFICES ASSUME NEW p \in P \cap S, NEW r \in S \ (P \cup Q)
             PROVE  Dense(S, order)[r] < Dense(S, order)[p]
  BY DEF Younger
<1>1. order[r] < order[p]
  BY DEF Younger
<1> QED BY <1>1, DenseStrict

LEMMA TouchedTyped ==
  ASSUME Typed
  PROVE  /\ Touched \in [Tabs -> Nat]
         /\ \A t \in Tabs : t \in rendered.shown => Touched[t] = Cardinality(Tabs) + 1
         /\ \A t \in Tabs : t \notin rendered.shown =>
                Touched[t] = accessed[t] /\ accessed[t] <= Cardinality(Tabs)
  BY FiniteTabs DEF Touched, Typed

\* What counts, if all of it and what is shown fit, and it was shown after
\* the rest, is not evicted: those evicted would leave too few.
LEMMA PreviousStay ==
  ASSUME Typed, NEW kept \in SUBSET Tabs, NEW order \in [Tabs -> Nat],
         NEW E \in Evictions(kept, order), NEW P \in SUBSET Tabs,
         Younger(P, rendered.shown, kept, order),
         Cardinality(rendered.shown \cup P) <= MaxRetained
  PROVE  P \cap E = {}
<1> SUFFICES ASSUME NEW b \in P \cap E PROVE FALSE
  OBVIOUS
<1> DEFINE hidden == kept \ rendered.shown
           excess == Max({0, Cardinality(kept) - MaxRetained})
           fit == rendered.shown \cup P
<1>1. rendered.shown \in SUBSET Tabs
  BY DEF Typed, TypeOK
<1>2. /\ E \subseteq hidden /\ Cardinality(E) = Min({excess, Cardinality(hidden)})
      /\ \A h \in hidden \ E : order[b] <= order[h]
  BY DEF Evictions
<1>3. /\ Cardinality(kept) \in Nat /\ Cardinality(hidden) \in Nat /\ Cardinality(E) \in Nat
      /\ IsFiniteSet(kept) /\ IsFiniteSet(E) /\ IsFiniteSet(fit) /\ Cardinality(fit) \in Nat
  BY <1>1, <1>2, FiniteTabs
<1>4. Cardinality(E) # 0
  BY <1>3, FS_EmptySet
<1>5. MaxRetained \in Nat
  BY PanelAssumption
<1>6. excess = IF Cardinality(kept) <= MaxRetained THEN 0 ELSE Cardinality(kept) - MaxRetained
  <2>1. Cardinality(kept) - MaxRetained \in Int
    BY <1>3, <1>5
  <2> HIDE DEF hidden, fit
  <2> QED BY <1>3, <1>5, <2>1, MaxOfTwo
<1> HIDE DEF excess
<1>7. Cardinality(E) <= Cardinality(kept) - MaxRetained
  <2>1. Cardinality(E) = IF excess <= Cardinality(hidden) THEN excess ELSE Cardinality(hidden)
    <3>1. excess \in Int /\ Cardinality(hidden) \in Int
      BY <1>3, <1>5, <1>6
    <3> QED BY <1>2, <3>1, MinOfTwo
  <2> QED BY <1>3, <1>4, <1>5, <1>6, <2>1
<1>8. Cardinality(kept \ E) >= MaxRetained
  <2>1. kept \cap E = E
    BY <1>2
  <2>2. Cardinality(kept \ E) = Cardinality(kept) - Cardinality(E)
    BY <1>3, <2>1, FS_Difference
  <2> QED BY <1>3, <1>5, <1>7, <2>2
<1>9. kept \ E \subseteq fit \ {b}
  <2> SUFFICES ASSUME NEW h \in kept \ E, h \notin fit PROVE FALSE
    BY Zenon
  <2>1. order[b] <= order[h]
    BY <1>2
  <2>2. order[h] < order[b]
    BY <1>2 DEF Younger
  <2> QED BY <1>2, <2>1, <2>2
<1>10. Cardinality(kept \ E) <= Cardinality(fit \ {b})
  BY <1>3, <1>9, FS_Subset, FS_RemoveElement
<1>11. Cardinality(fit \ {b}) = Cardinality(fit) - 1
  BY <1>3, FS_RemoveElement
<1>12. Cardinality(kept \ E) \in Nat
  BY FiniteTabs
<1> QED BY <1>3, <1>5, <1>8, <1>10, <1>11, <1>12

-----------------------------------------------------------------------------
(* Types are kept.                                                         *)

LEMMA InitTyped == Init => Typed
<1> SUFFICES ASSUME Init PROVE Typed
  OBVIOUS
<1>1. \A t \in Tabs : frame[t] = NoFrame /\ Sound(NoFrame)
  BY NoFrameSound DEF Init
<1>2. frame \in [Tabs -> Frame] /\ InStore(frame) = {} /\ Attached(frame) = {}
  BY <1>1, NoFrameSound DEF Init, Sound, InStore, Attached
<1>3. accessed \in [Tabs -> 0..Cardinality(Tabs)]
  BY FiniteTabs DEF Init
<1>4. TypeOK
  <2>1. [t \in Tabs |-> 1] \in [Tabs -> Urls]
    BY DEF Urls
  <2>2. acts \in 0..MaxActs /\ errors \in 0..MaxErrors
    BY PanelAssumption DEF Init
  <2> QED BY <1>2, <2>1, <2>2 DEF Init, TypeOK
<1> QED BY <1>3, <1>4 DEF Init, Typed, Known

\* What is shown has a frame, and what is retained has kept its own.
LEMMA RetainedHaveFrames ==
  ASSUME Typed, NEW E, EffectsOf(E), NEW t \in retained'
  PROVE  t \in Tabs /\ frame'[t].src # 0
<1>1. t \in Wanted /\ t \notin Gone(E)
  BY DEF EffectsOf
<1>2. t \in Tabs
  BY <1>1 DEF Wanted, Typed, TypeOK, InStore
<1>3. t \in rendered.tabs \/ (~VoyageChanged /\ t \in retained)
  BY <1>1 DEF Wanted, Typed
<1>4. CASE t \in rendered.tabs
  BY <1>1, <1>2, <1>4, LeftSound, FramesAfter
<1>5. CASE ~VoyageChanged /\ t \in retained /\ t \notin rendered.tabs
  <2>1. frame[t].src # 0
    BY <1>5 DEF Typed, TypeOK, InStore
  <2>2. Made(t).src = frame[t].src
    <3>1. Made(t) = PlaceAll[t]
      BY <1>2, <1>5, <2>1, MadeSound
    <3>2. PlaceAll[t].src = frame[t].src
      BY <1>2, FramesSound, PlaceSound DEF PlaceAll, Typed
    <3> QED BY <3>1, <3>2
  <2> QED BY <1>1, <1>2, <1>5, <2>1, <2>2, LeftSound, FramesAfter
<1> QED BY <1>2, <1>3, <1>4, <1>5

LEMMA EffectsTyped ==
  ASSUME Typed, Effects
  PROVE  Typed'
<1>1. PICK E : EffectsOf(E)
  BY EffectsHaveE
<1>2. Wanted \ Gone(E) \in SUBSET Tabs
  BY DEF Wanted, Typed, TypeOK, InStore
<1>3. accessed' \in [Tabs -> 0..Cardinality(Tabs)]
  BY <1>1, <1>2, DenseTyped DEF EffectsOf
<1>4. /\ Attached(frame)' \subseteq InStore(frame)'
      /\ frame' \in [Tabs -> Frame]
  <2>1. frame' = Subscribed(Left(E), Settled(Left(E)))
    BY <1>1 DEF EffectsOf, Listen
  <2>2. \A t \in Tabs : Sound(frame'[t])
    BY <1>1, FramesAfter
  <2>3. frame' \in [Tabs -> Frame]
    BY <2>1, <2>2 DEF Subscribed, Sound
  <2> QED BY <2>2, <2>3 DEF Attached, InStore, Sound
<1>5. retained' \subseteq InStore(frame)'
  BY <1>1, RetainedHaveFrames DEF InStore
<1>6. ready' \subseteq Tabs /\ failed' \subseteq Tabs
  BY <1>1 DEF EffectsOf, Listen, Settled, Typed, TypeOK
<1>7. dirty' \in BOOLEAN /\ bumped' \in BOOLEAN
  BY <1>1 DEF Effects, EffectsOf, Typed, TypeOK
<1>8. seen' \in [now : SUBSET Tabs, before : SUBSET Tabs]
  BY DEF Effects, Typed, TypeOK
<1>9. /\ UNCHANGED <<props, rendered, acts, errors>> /\ pc' = "idle"
      /\ retainedVoyage' = rendered.voyage /\ hosts' = rendered.tabs
  BY DEF Effects, bounds
<1>10. TypeOK'
  BY <1>4, <1>5, <1>6, <1>7, <1>9 DEF Typed, TypeOK
<1> QED BY <1>3, <1>8, <1>9, <1>10 DEF Typed, Known

LEMMA RenderingTyped ==
  ASSUME NEW p, NEW version \in BOOLEAN, Typed,
         p \in [mounted : BOOLEAN, voyage : Voyages \cup {NoVoyage},
                shown : SUBSET Tabs, url : [Tabs -> Urls]]
  PROVE  LET r == Rendering(p, version)
         IN  /\ r \in [tabs : SUBSET Tabs, shown : SUBSET Tabs, fresh : BOOLEAN,
                       voyage : Voyages \cup {NoVoyage}, url : [Tabs -> Urls]]
             /\ r.tabs \subseteq Known(r.url) /\ r.shown \subseteq r.tabs /\ r.url = p.url
  BY DEF Rendering, Known

LEMMA RenderTyped ==
  ASSUME Typed, Render
  PROVE  Typed'
<1>1. rendered' = Rendering(props, bumped) /\ rendered'.url = props.url
  BY RenderingTyped DEF Render, Typed, TypeOK
<1>2. /\ rendered' \in [tabs : SUBSET Tabs, shown : SUBSET Tabs, fresh : BOOLEAN,
                        voyage : Voyages \cup {NoVoyage}, url : [Tabs -> Urls]]
      /\ rendered'.tabs \subseteq Known(rendered'.url) /\ rendered'.shown \subseteq rendered'.tabs
  BY <1>1, RenderingTyped DEF Typed, TypeOK
<1>3. /\ pc' = "effects" /\ dirty' = FALSE /\ bumped' = FALSE
      /\ UNCHANGED <<props, hosts, ready, failed, seen, frame, retained, accessed,
                     retainedVoyage, acts, errors>>
  BY DEF Render, store, bounds
<1>4. TypeOK'
  BY <1>2, <1>3 DEF Typed, TypeOK
<1> QED BY <1>1, <1>2, <1>3, <1>4 DEF Typed

\* A step that changes one frame, which stays in the document or out of it.
OneFrame(t) ==
    /\ \E f : frame' = [frame EXCEPT ![t] = f] /\ f \in Frame /\ f.src = frame[t].src
                  /\ (f.doc = "none" <=> frame[t].doc = "none")
    /\ UNCHANGED <<props, rendered, pc, bumped, hosts, seen, retained, accessed,
                   retainedVoyage>>

LEMMA OneFrameStays ==
  ASSUME Typed, NEW t \in Tabs, OneFrame(t)
  PROVE  /\ frame' \in [Tabs -> Frame]
         /\ InStore(frame)' = InStore(frame) /\ Attached(frame)' = Attached(frame)
  BY DEF OneFrame, Typed, TypeOK, InStore, Attached

LEMMA OneFrameTyped ==
  ASSUME Typed, NEW t \in Tabs, OneFrame(t), dirty' \in BOOLEAN,
         ready' \subseteq Tabs, failed' \subseteq Tabs,
         acts' \in 0..MaxActs, errors' \in 0..MaxErrors
  PROVE  Typed'
<1>1. TypeOK'
  BY OneFrameStays DEF OneFrame, Typed, TypeOK
<1> QED BY <1>1 DEF OneFrame, Typed

LEMMA TellTyped ==
  ASSUME Typed, NEW t \in Tabs, NEW f, Tell(t, f)
  PROVE  dirty' \in BOOLEAN /\ ready' \subseteq Tabs /\ failed' \subseteq Tabs
  BY DEF Tell, Typed, TypeOK

LEMMA LoadIsOfOne ==
  ASSUME Typed, NEW t \in Tabs, Load(t) \/ Error(t) \/ ContentFound(t)
  PROVE  /\ OneFrame(t) /\ \E f : Tell(t, f)
         /\ acts' = acts /\ errors' \in 0..MaxErrors
<1>0. frame[t] \in Frame /\ frame \in [Tabs -> Frame] /\ errors \in 0..MaxErrors
  BY DEF Typed, TypeOK
<1>1. CASE Load(t)
  <2> DEFINE g == [frame[t] EXCEPT !.doc = "shown", !.loaded = TRUE]
             f == checkContentReady(t, g)
  <2>1. g \in Frame /\ g.src = frame[t].src /\ g.doc = "shown"
    BY <1>0 DEF Frame
  <2>2. f \in Frame /\ f.src = g.src /\ f.doc = g.doc
    <3> HIDE DEF g
    <3>1. Min({g.polls + 1, MaxPolls}) \in 0..MaxPolls
      <4>1. g.polls \in 0..MaxPolls /\ MaxPolls \in Nat \ {0}
        BY <2>1, PanelAssumption DEF Frame
      <4>2. Min({g.polls + 1, MaxPolls}) =
                IF g.polls + 1 <= MaxPolls THEN g.polls + 1 ELSE MaxPolls
        BY <4>1, MinOfTwo
      <4> QED BY <4>1, <4>2
    <3> QED BY <2>1, <3>1 DEF checkContentReady, Frame
  <2>3. frame[t].doc = "loading"
    BY <1>1 DEF Load
  <2>4. frame' = [frame EXCEPT ![t] = f] /\ Tell(t, f)
    BY <1>1 DEF Load
  <2> HIDE DEF f, g
  <2>5. OneFrame(t)
    BY <1>1, <2>1, <2>2, <2>3, <2>4 DEF Load, OneFrame
  <2> QED BY <1>0, <1>1, <2>4, <2>5 DEF Load, bounds
<1>2. CASE Error(t)
  <2> DEFINE f == [frame[t] EXCEPT !.doc = "shown", !.error = TRUE, !.loaded = TRUE,
                                   !.ready = TRUE]
  <2>1. f \in Frame /\ f.src = frame[t].src /\ f.doc = "shown"
    BY <1>0 DEF Frame
  <2>2. /\ frame' = [frame EXCEPT ![t] = f] /\ Tell(t, f) /\ frame[t].doc = "loading"
        /\ errors < MaxErrors /\ errors' = errors + 1 /\ acts' = acts
    BY <1>2 DEF Error
  <2> HIDE DEF f
  <2>3. OneFrame(t)
    BY <1>2, <2>1, <2>2 DEF Error, OneFrame
  <2> QED BY <1>0, <2>2, <2>3, PanelAssumption
<1>3. CASE ContentFound(t)
  <2>0. PICK up \in {0, 1} :
          LET f == [frame[t] EXCEPT !.ready = TRUE, !.polls = @ - up]
          IN  frame' = [frame EXCEPT ![t] = f] /\ Tell(t, f)
    BY <1>3 DEF ContentFound
  <2> DEFINE f == [frame[t] EXCEPT !.ready = TRUE, !.polls = @ - up]
  <2>1. frame[t].polls > 0
    BY <1>3 DEF ContentFound
  <2>2. f \in Frame /\ f.src = frame[t].src /\ f.doc = frame[t].doc
    <3>1. frame[t].polls - up \in 0..MaxPolls
      BY <1>0, <2>1, PanelAssumption DEF Frame
    <3> QED BY <1>0, <3>1 DEF Frame
  <2>3. frame' = [frame EXCEPT ![t] = f] /\ Tell(t, f)
    BY <2>0
  <2> HIDE DEF f
  <2>4. OneFrame(t)
    BY <1>3, <2>2, <2>3 DEF ContentFound, OneFrame
  <2> QED BY <1>0, <1>3, <2>3, <2>4 DEF ContentFound, bounds
<1> QED BY <1>1, <1>2, <1>3

LEMMA ActTyped == Typed /\ Act => acts' \in 0..MaxActs /\ errors' = errors
  BY PanelAssumption DEF Act, Typed, TypeOK

LEMMA MountTyped ==
  ASSUME Typed, NEW v \in Voyages, NEW S \in Views, Mount(v, S)
  PROVE  Typed'
<1> DEFINE p == [props EXCEPT !.mounted = TRUE, !.voyage = v, !.shown = S]
<1>1. /\ p \in [mounted : BOOLEAN, voyage : Voyages \cup {NoVoyage},
                shown : SUBSET Tabs, url : [Tabs -> Urls]]
      /\ p.url = props.url
  BY PanelAssumption DEF Typed, TypeOK
<1>2. props' = p /\ rendered' = Rendering(p, FALSE)
  BY DEF Mount
<1> HIDE DEF p
<1>3. /\ rendered' \in [tabs : SUBSET Tabs, shown : SUBSET Tabs, fresh : BOOLEAN,
                        voyage : Voyages \cup {NoVoyage}, url : [Tabs -> Urls]]
      /\ rendered'.tabs \subseteq Known(rendered'.url) /\ rendered'.shown \subseteq rendered'.tabs
      /\ rendered'.url = props'.url
  BY <1>1, <1>2, RenderingTyped
<1>4. ready' \subseteq Tabs /\ failed' \subseteq Tabs
  BY <1>3 DEF Mount
<1>5. /\ pc' = "effects" /\ acts' \in 0..MaxActs /\ errors' = errors
      /\ UNCHANGED <<dirty, bumped, hosts, seen, frame, retained, accessed, retainedVoyage>>
  BY PanelAssumption DEF Mount, Act, store, Typed, TypeOK
<1>6. TypeOK'
  BY <1>1, <1>2, <1>3, <1>4, <1>5 DEF Typed, TypeOK
<1> QED BY <1>3, <1>5, <1>6 DEF Typed

LEMMA UnmountTyped ==
  ASSUME Typed, Unmount
  PROVE  Typed'
<1>1. /\ props' \in [mounted : BOOLEAN, voyage : Voyages \cup {NoVoyage},
                     shown : SUBSET Tabs, url : [Tabs -> Urls]]
      /\ props'.url = props.url
  BY DEF Unmount, Typed, TypeOK
<1>2. /\ frame' \in [Tabs -> Frame] /\ InStore(frame)' = InStore(frame)
      /\ Attached(frame)' = {}
  <2>1. \A t \in Tabs : frame'[t] = [frame[t] EXCEPT !.doc = "none", !.heard = FALSE]
    BY DEF Unmount
  <2>2. ASSUME NEW t \in Tabs
        PROVE  frame'[t] \in Frame /\ frame'[t].src = frame[t].src /\ frame'[t].doc = "none"
    <3>1. frame[t] \in Frame
      BY DEF Typed, TypeOK
    <3>2. ASSUME NEW f \in Frame, NEW g, g = [f EXCEPT !.doc = "none", !.heard = FALSE]
          PROVE  g \in Frame /\ g.src = f.src /\ g.doc = "none"
      BY <3>2 DEF Frame
    <3> QED BY <2>1, <3>1, <3>2
  <2> QED BY <2>2 DEF Unmount, InStore, Attached
<1>0. acts' \in 0..MaxActs
  BY ActTyped DEF Unmount
<1>3. /\ errors' = errors
      /\ hosts' = {} /\ ready' = {} /\ failed' = {} /\ dirty' = FALSE /\ bumped' = FALSE
      /\ UNCHANGED <<rendered, pc, seen, retained, accessed, retainedVoyage>>
  BY DEF Unmount, Act
<1>4. TypeOK'
  BY <1>0, <1>1, <1>2, <1>3 DEF Typed, TypeOK
<1> QED BY <1>1, <1>3, <1>4 DEF Typed

\* What is to be shown changes, or what there is to show.
Wish ==
    /\ props' \in [mounted : BOOLEAN, voyage : Voyages \cup {NoVoyage},
                   shown : SUBSET Tabs, url : [Tabs -> Urls]]
    /\ props'.mounted = props.mounted /\ dirty' = props.mounted
    /\ Known(props'.url) \subseteq Known(props.url)
    /\ acts' \in 0..MaxActs
    /\ UNCHANGED <<panel, store, errors>>

LEMMA UserWishes ==
  ASSUME Typed, \/ \E v \in Voyages, S \in Views : OpenVoyage(v, S)
                \/ \E S \in Views : Show(S)
                \/ \E t \in Tabs, u \in Urls : ChangeUrl(t, u)
  PROVE  Wish
<1>0. Act => acts' \in 0..MaxActs /\ errors' = errors
  BY ActTyped
<1>1. ASSUME NEW v \in Voyages, NEW S \in Views, OpenVoyage(v, S) PROVE Wish
  BY <1>0, <1>1, PanelAssumption DEF OpenVoyage, Wish, Typed, TypeOK
<1>2. ASSUME NEW S \in Views, Show(S) PROVE Wish
  BY <1>0, <1>2, PanelAssumption DEF Show, Wish, Typed, TypeOK
<1>3. ASSUME NEW t \in Tabs, NEW u \in Urls, ChangeUrl(t, u) PROVE Wish
  <2>1. props' \in [mounted : BOOLEAN, voyage : Voyages \cup {NoVoyage},
                    shown : SUBSET Tabs, url : [Tabs -> Urls]]
    BY <1>3 DEF ChangeUrl, Typed, TypeOK
  <2>2. props'.url = [props.url EXCEPT ![t] = u] /\ props.url[t] # 0
    BY <1>3 DEF ChangeUrl, Typed, TypeOK
  <2>3. Known(props'.url) \subseteq Known(props.url)
    BY <2>2 DEF Known, Typed, TypeOK
  <2> QED BY <1>0, <1>3, <2>1, <2>3 DEF ChangeUrl, Wish, Typed, TypeOK
<1> QED BY <1>1, <1>2, <1>3

LEMMA WishTyped ==
  ASSUME Typed, Wish
  PROVE  Typed'
<1>1. TypeOK'
  BY DEF Wish, panel, store, Typed, TypeOK
<1> QED BY <1>1 DEF Wish, panel, store, Typed

LEMMA RetryIsOfOne ==
  ASSUME Typed, NEW t \in Tabs, retryTab(t)
  PROVE  /\ OneFrame(t) /\ dirty' = TRUE /\ ready' \subseteq Tabs /\ failed' \subseteq Tabs
         /\ acts' \in 0..MaxActs /\ errors' = errors
<1> DEFINE f == [frame[t] EXCEPT !.loaded = FALSE, !.ready = FALSE, !.error = FALSE,
                                 !.doc = IF @ = "none" THEN @ ELSE "loading"]
<1>0. frame[t] \in Frame /\ frame \in [Tabs -> Frame]
  BY DEF Typed, TypeOK
<1>1. f \in Frame /\ f.src = frame[t].src /\ (f.doc = "none" <=> frame[t].doc = "none")
  BY <1>0 DEF Frame
<1>2. frame' = [frame EXCEPT ![t] = f]
  BY <1>0 DEF retryTab, Frame
<1> HIDE DEF f
<1>3. OneFrame(t)
  BY <1>1, <1>2 DEF retryTab, OneFrame
<1> QED BY <1>3, PanelAssumption DEF retryTab, Act, Typed, TypeOK

LEMMA NextTyped == Typed /\ [Next]_vars => Typed'
<1> SUFFICES ASSUME Typed, [Next]_vars PROVE Typed'
  OBVIOUS
<1>1. CASE Render
  BY <1>1, RenderTyped
<1>2. CASE Effects
  BY <1>2, EffectsTyped
<1>3. ASSUME NEW t \in Tabs, Load(t) \/ Error(t) \/ ContentFound(t) PROVE Typed'
  <2>1. acts' \in 0..MaxActs
    BY <1>3, LoadIsOfOne DEF Typed, TypeOK
  <2> QED BY <1>3, <2>1, LoadIsOfOne, TellTyped, OneFrameTyped
<1>4. ASSUME NEW v \in Voyages, NEW S \in Views, Mount(v, S) PROVE Typed'
  BY <1>4, MountTyped
<1>5. CASE Unmount
  BY <1>5, UnmountTyped
<1>6. ASSUME NEW v \in Voyages, NEW S \in Views, OpenVoyage(v, S) PROVE Typed'
  BY <1>6, UserWishes, WishTyped
<1>7. ASSUME NEW S \in Views, Show(S) PROVE Typed'
  BY <1>7, UserWishes, WishTyped
<1>8. ASSUME NEW t \in Tabs, NEW u \in Urls, ChangeUrl(t, u) PROVE Typed'
  BY <1>8, UserWishes, WishTyped
<1>9. ASSUME NEW t \in Tabs, retryTab(t) PROVE Typed'
  <2>1. errors' \in 0..MaxErrors
    BY <1>9, RetryIsOfOne DEF Typed, TypeOK
  <2> QED BY <1>9, <2>1, RetryIsOfOne, OneFrameTyped
<1>10. CASE UNCHANGED vars
  <2>1. TypeOK'
    BY <1>10 DEF vars, Typed, TypeOK
  <2> QED BY <1>10, <2>1 DEF vars, Typed
<1> QED BY <1>1, <1>2, <1>3, <1>4, <1>5, <1>6, <1>7, <1>8, <1>9, <1>10
     DEF Next, Browser, User

-----------------------------------------------------------------------------
(* Frames are in their places.                                             *)

LEMMA InitInPlace == Init => InPlace
  BY NoFrameSound DEF Init, InPlace, AtRest, Attached

\* Effects that ask for no other render have put every frame that is
\* rendered, and no other, into the document.
LEMMA PlacedAll ==
  ASSUME Typed, InPlace, Effects, NEW E, EffectsOf(E), ~bumped'
  PROVE  /\ Attached(frame)' = rendered.tabs
         /\ retained' = rendered.tabs /\ Few
<1>0. pc = "effects"
  BY DEF Effects
<1>1. /\ ~VoyageChanged /\ Gone(E) = {}
      /\ \A t \in rendered.tabs : frame[t].src # 0
  BY DEF EffectsOf
<1>2. retained' = rendered.tabs /\ Wanted \cap Known(rendered.url) = rendered.tabs
  <2>1. Wanted = retained \cup rendered.shown /\ Wanted \subseteq Known(rendered.url)
    BY <1>1 DEF Wanted, Gone
  <2>2. rendered.tabs = {t \in Known(rendered.url) : t \in retained \/ t \in rendered.shown}
    BY <1>0 DEF InPlace
  <2> QED BY <1>1, <2>1, <2>2 DEF EffectsOf
<1>3. ASSUME NEW t \in Tabs
      PROVE  frame'[t].doc # "none" <=> t \in rendered.tabs
  <2>1. frame'[t].doc = "none" <=> Made(t).doc = "none"
    BY <1>1, LeftSound, FramesAfter
  <2>2. Sound(frame[t])
    BY FramesSound DEF Typed
  <2>3. Made(t) = PlaceAll[t]
    <3>1. CASE t \in rendered.tabs
      BY <1>1, <3>1, MadeSound
    <3>2. CASE t \notin rendered.tabs
      BY <1>1, <3>2 DEF Made, Kept, Created
    <3> QED BY <3>1, <3>2
  <2>4. CASE t \in Stays
    <3>1. t \in rendered.tabs /\ t \in Attached(frame)
      BY <1>0, <2>4 DEF Stays, InPlace
    <3>2. PlaceAll[t] = frame[t]
      BY <2>4 DEF PlaceAll
    <3> QED BY <2>1, <2>3, <3>1, <3>2 DEF Attached
  <2>5. CASE t \notin Stays
    <3>1. PlaceAll[t] = Place(t, frame[t])
      BY <2>5 DEF PlaceAll
    <3>2. Place(t, frame[t]).doc = (IF t \in rendered.tabs /\ frame[t].src # 0
                                    THEN "loading" ELSE "none")
      BY <2>2, PlaceSound
    <3> QED BY <1>1, <2>1, <2>3, <3>1, <3>2
  <2> QED BY <2>4, <2>5
<1>4. Attached(frame)' = rendered.tabs
  <2>1. rendered.tabs \subseteq Tabs
    BY DEF Typed, TypeOK
  <2> QED BY <1>3, <2>1 DEF Attached
<1>5. Few
  <2> DEFINE hidden == rendered.tabs \ rendered.shown
             excess == Max({0, Cardinality(rendered.tabs) - MaxRetained})
  <2>1. E = {} /\ Cardinality(E) = Min({excess, Cardinality(hidden)})
    BY <1>1, <1>2 DEF EffectsOf, Gone, Evictions
  <2>2. /\ rendered.tabs \in SUBSET Tabs /\ hidden \in SUBSET Tabs
        /\ Cardinality(rendered.tabs) \in Nat /\ Cardinality(hidden) \in Nat
        /\ IsFiniteSet(hidden) /\ MaxRetained \in Nat
    BY FiniteTabs, PanelAssumption DEF Typed, TypeOK
  <2>3. excess = IF Cardinality(rendered.tabs) <= MaxRetained THEN 0
                 ELSE Cardinality(rendered.tabs) - MaxRetained
    <3>1. Cardinality(rendered.tabs) - MaxRetained \in Int
      BY <2>2
    <3> HIDE DEF hidden
    <3> QED BY <2>2, <3>1, MaxOfTwo
  <2> HIDE DEF excess
  <2>4. excess \in Int
    BY <2>2, <2>3
  <2>5. Cardinality(E) = IF excess <= Cardinality(hidden) THEN excess ELSE Cardinality(hidden)
    <3>1. Cardinality(hidden) \in Int
      BY <2>2
    <3> QED BY <2>1, <2>4, <3>1, MinOfTwo
  <2>6. excess = 0 \/ Cardinality(hidden) = 0
    BY <2>1, <2>2, <2>4, <2>5, FS_EmptySet
  <2>7. Cardinality(hidden) = 0 => hidden = {}
    BY <2>2, FS_EmptySet
  <2> QED BY <2>2, <2>3, <2>6, <2>7 DEF Few
<1> QED BY <1>2, <1>4, <1>5

LEMMA EffectsInPlace ==
  ASSUME Typed, InPlace, Effects
  PROVE  InPlace'
<1>1. PICK E : EffectsOf(E)
  BY EffectsHaveE
<1>2. /\ pc = "effects" /\ pc' = "idle" /\ hosts' = rendered.tabs
      /\ dirty' = (dirty \/ bumped' \/ ready' # ready \/ failed' # failed)
      /\ UNCHANGED <<props, rendered>>
  BY DEF Effects
<1>3. props.mounted
  BY <1>2 DEF InPlace
<1>4. props.mounted' /\ (~dirty' => UpToDate')
  BY <1>2, <1>3 DEF InPlace, UpToDate, Typed, TypeOK
<1>5. CASE bumped'
  <2>1. dirty'
    BY <1>2, <1>5
  <2> QED BY <1>2, <1>4, <1>5, <2>1 DEF InPlace, AtRest
<1>6. CASE ~bumped'
  <2>1. Attached(frame)' = rendered.tabs /\ retained' = rendered.tabs /\ Few
    BY <1>1, <1>6, PlacedAll
  <2>2. Few'
    BY <1>2, <2>1 DEF Few
  <2> QED BY <1>2, <1>4, <1>6, <2>1, <2>2 DEF InPlace, AtRest
<1> QED BY <1>5, <1>6

\* What a render makes of what the panel is to show.
LEMMA RenderingUpToDate ==
  ASSUME NEW p, NEW version
  PROVE  LET r == Rendering(p, version)
         IN  /\ r.tabs = {t \in Known(r.url) : t \in retained \/ t \in r.shown}
             /\ r.shown = p.shown \cap Known(p.url) /\ r.url = p.url /\ r.fresh = version
  BY DEF Rendering

LEMMA RenderInPlace ==
  ASSUME Typed, InPlace, Render
  PROVE  InPlace'
<1>1. /\ rendered' = Rendering(props, bumped) /\ props.mounted /\ pc = "idle"
      /\ pc' = "effects" /\ dirty' = FALSE /\ bumped' = FALSE
      /\ UNCHANGED <<props, hosts, frame, retained>>
  BY DEF Render, store
<1>2. /\ rendered'.tabs = {t \in Known(rendered'.url) : t \in retained \/ t \in rendered'.shown}
      /\ rendered'.shown = props.shown \cap Known(props.url) /\ rendered'.url = props.url
      /\ rendered'.fresh = bumped
  BY <1>1, RenderingUpToDate
<1>3. UpToDate'
  BY <1>1, <1>2 DEF UpToDate
<1> QED BY <1>1, <1>2, <1>3 DEF InPlace, AtRest

LEMMA MountInPlace ==
  ASSUME Typed, InPlace, NEW v \in Voyages, NEW S \in Views, Mount(v, S)
  PROVE  InPlace'
<1>1. /\ rendered' = Rendering(props', FALSE) /\ ~props.mounted
      /\ pc' = "effects" /\ UNCHANGED <<dirty, bumped, hosts, frame, retained>>
  BY DEF Mount, store
<1>2. props'.mounted
  BY DEF Mount, Typed, TypeOK
<1>3. /\ rendered'.tabs = {t \in Known(rendered'.url) : t \in retained \/ t \in rendered'.shown}
      /\ rendered'.shown = props'.shown \cap Known(props'.url) /\ rendered'.url = props'.url
      /\ rendered'.fresh = FALSE
  <2> DEFINE p == props'
  <2>1. /\ rendered' = Rendering(p, FALSE)
    BY <1>1
  <2> HIDE DEF p
  <2>2. LET r == Rendering(p, FALSE)
        IN  /\ r.tabs = {t \in Known(r.url) : t \in retained \/ t \in r.shown}
            /\ r.shown = p.shown \cap Known(p.url) /\ r.url = p.url /\ r.fresh = FALSE
    BY RenderingUpToDate
  <2>3. /\ rendered'.tabs = {t \in Known(rendered'.url) : t \in retained \/ t \in rendered'.shown}
        /\ rendered'.shown = p.shown \cap Known(p.url) /\ rendered'.url = p.url
        /\ rendered'.fresh = FALSE
    BY <2>1, <2>2
  <2> QED BY <2>3 DEF p
<1>4. UpToDate'
  BY <1>3 DEF UpToDate
<1>5. hosts' = Attached(frame)'
  BY <1>1 DEF InPlace
<1> QED BY <1>1, <1>2, <1>3, <1>4, <1>5 DEF InPlace, AtRest

LEMMA UnmountInPlace ==
  ASSUME Typed, InPlace, Unmount
  PROVE  InPlace'
<1>1. ~props'.mounted /\ pc = "idle" /\ pc' = "idle" /\ ~bumped' /\ hosts' = {}
  BY DEF Unmount, Typed, TypeOK
<1>2. \A t \in Tabs : frame'[t].doc = "none"
  <2>1. ASSUME NEW f \in Frame PROVE [f EXCEPT !.doc = "none", !.heard = FALSE].doc = "none"
    BY DEF Frame
  <2> QED BY <2>1 DEF Unmount, Typed, TypeOK
<1>3. Attached(frame)' = {}
  BY <1>2 DEF Attached
<1> QED BY <1>1, <1>3 DEF InPlace, AtRest

LEMMA OneFrameInPlace ==
  ASSUME Typed, InPlace, NEW t \in Tabs, OneFrame(t), dirty => dirty'
  PROVE  InPlace'
<1>1. Attached(frame)' = Attached(frame)
  BY OneFrameStays
<1>2. /\ UNCHANGED <<props, rendered, pc, bumped, hosts, retained>>
      /\ (UpToDate' <=> UpToDate) /\ (Few' <=> Few)
  BY DEF OneFrame, UpToDate, Few
<1> QED BY <1>1, <1>2 DEF InPlace, AtRest

LEMMA WishInPlace ==
  ASSUME Typed, InPlace, Wish
  PROVE  InPlace'
<1>1. /\ UNCHANGED <<rendered, pc, bumped, hosts, frame, retained>>
      /\ props'.mounted = props.mounted /\ dirty' = props.mounted
  BY DEF Wish, panel, store
<1> QED BY <1>1 DEF InPlace, AtRest, Attached, Known

LEMMA NextInPlace == Typed /\ InPlace /\ [Next]_vars => InPlace'
<1> SUFFICES ASSUME Typed, InPlace, [Next]_vars PROVE InPlace'
  OBVIOUS
<1>1. CASE Render
  BY <1>1, RenderInPlace
<1>2. CASE Effects
  BY <1>2, EffectsInPlace
<1>3. ASSUME NEW t \in Tabs, Load(t) \/ Error(t) \/ ContentFound(t) PROVE InPlace'
  <2>1. OneFrame(t) /\ (dirty => dirty')
    BY <1>3, LoadIsOfOne DEF Tell
  <2> QED BY <2>1, OneFrameInPlace
<1>4. ASSUME NEW v \in Voyages, NEW S \in Views, Mount(v, S) PROVE InPlace'
  BY <1>4, MountInPlace
<1>5. CASE Unmount
  BY <1>5, UnmountInPlace
<1>6. ASSUME \/ \E v \in Voyages, S \in Views : OpenVoyage(v, S)
             \/ \E S \in Views : Show(S)
             \/ \E t \in Tabs, u \in Urls : ChangeUrl(t, u)
      PROVE  InPlace'
  BY <1>6, UserWishes, WishInPlace
<1>7. ASSUME NEW t \in Tabs, retryTab(t) PROVE InPlace'
  <2>1. OneFrame(t) /\ dirty'
    BY <1>7, RetryIsOfOne
  <2> QED BY <2>1, OneFrameInPlace
<1>8. CASE UNCHANGED vars
  BY <1>8 DEF vars, InPlace, AtRest, UpToDate, Few, Attached, Known
<1> QED BY <1>1, <1>2, <1>3, <1>4, <1>5, <1>6, <1>7, <1>8 DEF Next, Browser, User

-----------------------------------------------------------------------------
(* What was shown before is retained.                                      *)

LEMMA InitRecent == Init => Recent
  BY DEF Init, Recent, Younger

\* What is shown is retained, and the youngest of all; and what is older
\* and retained keeps its order.
LEMMA ShownIsYoungest ==
  ASSUME Typed, NEW E, EffectsOf(E)
  PROVE  /\ rendered.shown \subseteq retained'
         /\ Younger(rendered.shown, {}, retained', accessed')
<1> DEFINE S == Wanted \ Gone(E)
<1>1. S \in SUBSET Tabs /\ retained' = S /\ accessed' = Dense(S, Touched)
  BY DEF EffectsOf, Wanted, Typed, TypeOK, InStore
<1>2. rendered.shown \subseteq S
  <2>1. rendered.shown \subseteq Wanted /\ rendered.shown \subseteq Known(rendered.url)
    BY DEF Wanted, Typed
  <2>2. rendered.shown \cap E = {}
    BY DEF EffectsOf, Evictions
  <2> QED BY <2>1, <2>2 DEF Gone
<1>3. Younger(rendered.shown, {}, S, Touched)
  <2> SUFFICES ASSUME NEW p \in rendered.shown \cap S, NEW r \in S \ rendered.shown
               PROVE  Touched[r] < Touched[p]
    BY DEF Younger
  <2>1. /\ Touched[p] = Cardinality(Tabs) + 1 /\ Touched[r] <= Cardinality(Tabs)
        /\ Cardinality(Tabs) \in Nat /\ Touched[r] \in Nat
    BY <1>1, TouchedTyped, FiniteTabs
  <2> QED BY <2>1
<1>4. Younger(rendered.shown, {}, S, Dense(S, Touched))
  BY <1>1, <1>3, TouchedTyped, YoungerStays
<1> QED BY <1>1, <1>2, <1>4

\* If P was the youngest but for Q, it is the youngest now but for what is
\* shown, which Q is part of, and it is retained if there is room for both.
LEMMA PreviousIsNext ==
  ASSUME Typed, NEW E, EffectsOf(E), ~VoyageChanged,
         NEW P \in SUBSET Tabs, NEW Q \in SUBSET rendered.shown,
         Younger(P, Q, retained, accessed)
  PROVE  /\ Younger(P, rendered.shown, retained', accessed')
         /\ /\ Cardinality(rendered.shown \cup P) <= MaxRetained
            /\ P \cap Known(rendered.url) \subseteq retained
            => P \cap Known(rendered.url) \subseteq retained'
<1> DEFINE S == Wanted \ Gone(E)
           kept == Wanted \cap Known(rendered.url)
<1>1. /\ S \in SUBSET Tabs /\ retained' = S /\ accessed' = Dense(S, Touched)
      /\ kept \in SUBSET Tabs /\ S \subseteq kept /\ E \in Evictions(kept, Touched)
  BY DEF EffectsOf, Wanted, Gone, Known, Typed, TypeOK, InStore
<1>2. Wanted = retained \cup rendered.shown
  BY DEF Wanted
<1>3. Younger(P, rendered.shown, kept, Touched)
  <2> SUFFICES ASSUME NEW p \in P \cap kept, NEW r \in kept \ (P \cup rendered.shown)
               PROVE  Touched[r] < Touched[p]
    BY DEF Younger
  <2>1. r \in retained \ (P \cup Q) /\ Touched[r] = accessed[r] /\ accessed[r] <= Cardinality(Tabs)
    BY <1>1, <1>2, TouchedTyped
  <2>2. CASE p \in rendered.shown
    <3>1. Touched[p] = Cardinality(Tabs) + 1 /\ Cardinality(Tabs) \in Nat /\ Touched[r] \in Nat
      BY <1>1, <2>2, TouchedTyped, FiniteTabs
    <3> QED BY <2>1, <3>1
  <2>3. CASE p \notin rendered.shown
    <3>1. p \in P \cap retained /\ Touched[p] = accessed[p]
      BY <1>1, <1>2, <2>3, TouchedTyped
    <3>2. accessed[r] < accessed[p]
      BY <2>1, <3>1 DEF Younger
    <3> QED BY <2>1, <3>1, <3>2
  <2> QED BY <2>2, <2>3
<1>4. Younger(P, rendered.shown, S, Touched)
  BY <1>1, <1>3 DEF Younger
<1>5. Younger(P, rendered.shown, S, Dense(S, Touched))
  BY <1>1, <1>4, TouchedTyped, YoungerStays
<1>6. ASSUME Cardinality(rendered.shown \cup P) <= MaxRetained,
             P \cap Known(rendered.url) \subseteq retained
      PROVE  P \cap Known(rendered.url) \subseteq S
  <2>1. P \cap E = {}
    BY <1>1, <1>3, <1>6, TouchedTyped, PreviousStay
  <2> QED BY <1>2, <1>6, <2>1 DEF Gone
<1> QED BY <1>1, <1>5, <1>6

LEMMA EffectsRecent ==
  ASSUME Typed, Recent, Effects
  PROVE  Recent'
<1>1. PICK E : EffectsOf(E)
  BY EffectsHaveE
<1>2. /\ rendered.shown \subseteq retained'
      /\ Younger(rendered.shown, {}, retained', accessed')
  BY <1>1, ShownIsYoungest
<1>3. /\ rendered' = rendered
      /\ seen' = IF rendered.shown = seen.now /\ ~VoyageChanged THEN seen
                 ELSE [now |-> rendered.shown,
                       before |-> IF VoyageChanged THEN {} ELSE seen.now]
  BY DEF Effects
<1>4. seen \in [now : SUBSET Tabs, before : SUBSET Tabs]
  BY DEF Typed
<1>5. CASE VoyageChanged
  <2>1. seen' = [now |-> rendered.shown, before |-> {}]
    BY <1>3, <1>5
  <2> QED BY <1>2, <1>3, <2>1 DEF Recent, Younger
<1>6. CASE ~VoyageChanged /\ rendered.shown = seen.now
  <2>1. seen' = seen /\ seen.now \in SUBSET rendered.shown /\ seen.before \in SUBSET Tabs
    BY <1>3, <1>4, <1>6
  <2>2. Younger(seen.before, seen.now, retained, accessed)
    BY DEF Recent
  <2>3. /\ Younger(seen.before, rendered.shown, retained', accessed')
        /\ /\ Cardinality(rendered.shown \cup seen.before) <= MaxRetained
           /\ seen.before \cap Known(rendered.url) \subseteq retained
           => seen.before \cap Known(rendered.url) \subseteq retained'
    BY <1>1, <1>6, <2>1, <2>2, PreviousIsNext
  <2> QED BY <1>2, <1>3, <1>6, <2>1, <2>3 DEF Recent
<1>7. CASE ~VoyageChanged /\ rendered.shown # seen.now
  <2>1. seen' = [now |-> rendered.shown, before |-> seen.now] /\ seen.now \in SUBSET Tabs
    BY <1>3, <1>4, <1>7
  <2>2. /\ Younger(seen.now, {}, retained, accessed)
        /\ seen.now \cap Known(rendered.url) \subseteq retained
    BY DEF Recent
  <2>3. /\ Younger(seen.now, rendered.shown, retained', accessed')
        /\ /\ Cardinality(rendered.shown \cup seen.now) <= MaxRetained
           /\ seen.now \cap Known(rendered.url) \subseteq retained
           => seen.now \cap Known(rendered.url) \subseteq retained'
    <3>1. {} \in SUBSET rendered.shown
      OBVIOUS
    <3> QED BY <1>1, <1>7, <2>1, <2>2, <3>1, PreviousIsNext
  <2> QED BY <1>2, <1>3, <2>1, <2>2, <2>3 DEF Recent
<1> QED BY <1>5, <1>6, <1>7

\* Nothing but effects changes what is retained; and no tab comes back.
LEMMA OthersRecent ==
  ASSUME Typed, Recent, UNCHANGED <<seen, retained, accessed>>,
         Known(rendered'.url) \subseteq Known(rendered.url)
  PROVE  Recent'
  BY DEF Recent

LEMMA NextRecent == Typed /\ Recent /\ [Next]_vars => Recent'
<1> SUFFICES ASSUME Typed, Recent, [Next]_vars PROVE Recent'
  OBVIOUS
<1>1. CASE Render
  <2>1. rendered'.url = props.url /\ UNCHANGED <<seen, retained, accessed>>
    BY <1>1 DEF Render, Rendering, store
  <2> QED BY <2>1, OthersRecent DEF Typed
<1>2. CASE Effects
  BY <1>2, EffectsRecent
<1>3. ASSUME NEW t \in Tabs, Load(t) \/ Error(t) \/ ContentFound(t) PROVE Recent'
  BY <1>3, LoadIsOfOne, OthersRecent DEF OneFrame
<1>4. ASSUME NEW v \in Voyages, NEW S \in Views, Mount(v, S) PROVE Recent'
  <2>1. rendered' = Rendering(props', FALSE) /\ UNCHANGED <<seen, retained, accessed>>
    BY <1>4 DEF Mount, store
  <2>2. props'.url = props.url
    BY <1>4 DEF Mount, Typed, TypeOK
  <2>3. rendered'.url = props.url
    BY <2>1, <2>2 DEF Rendering
  <2> QED BY <2>1, <2>3, OthersRecent DEF Typed
<1>5. CASE Unmount
  BY <1>5, OthersRecent DEF Unmount
<1>6. ASSUME \/ \E v \in Voyages, S \in Views : OpenVoyage(v, S)
             \/ \E S \in Views : Show(S)
             \/ \E t \in Tabs, u \in Urls : ChangeUrl(t, u)
      PROVE  Recent'
  BY <1>6, UserWishes, OthersRecent DEF Wish, panel, store
<1>7. ASSUME NEW t \in Tabs, retryTab(t) PROVE Recent'
  BY <1>7, RetryIsOfOne, OthersRecent DEF OneFrame
<1>8. CASE UNCHANGED vars
  BY <1>8, OthersRecent DEF vars
<1> QED BY <1>1, <1>2, <1>3, <1>4, <1>5, <1>6, <1>7, <1>8 DEF Next, Browser, User

-----------------------------------------------------------------------------
(* What follows of it.                                                     *)

LEMMA InvHolds == Spec => []Inv
<1>1. Init => Inv
  BY InitTyped, InitInPlace, InitRecent DEF Inv
<1>2. Inv /\ [Next]_vars => Inv'
  BY NextTyped, NextInPlace, NextRecent DEF Inv
<1> QED BY <1>1, <1>2, PTL DEF Spec

\* Every variable keeps its type, and what is retained or in the document
\* has a frame in the store, through evictions, other voyages and tabs that
\* are closed between a render and its effects.
THEOREM TypeCorrect == Spec => []TypeOK
<1>1. Inv => TypeOK
  BY DEF Inv, Typed
<1> QED BY <1>1, InvHolds, PTL

\* When nothing is left to render, the frames in the document are those of
\* the tabs retained, what is shown among them, and no more than the limit
\* unless more is shown at once: whatever frames load or fail meanwhile, and
\* however often the panel goes and comes back.
THEOREM FramesAreInPlace == Spec => []FramesInPlace
<1>1. Inv => FramesInPlace
  <2> SUFFICES ASSUME Inv, AtRest
               PROVE  /\ props.shown \cap Known(props.url) \subseteq Attached(frame)
                      /\ Attached(frame) = retained
                      /\ Cardinality(retained) <= Max({MaxRetained, Cardinality(props.shown)})
    BY DEF FramesInPlace
  <2>1. /\ hosts = Attached(frame) /\ hosts = rendered.tabs /\ retained = rendered.tabs
        /\ Few /\ UpToDate
    BY DEF Inv, InPlace, AtRest
  <2>2. rendered.shown \subseteq rendered.tabs
    BY DEF Inv, Typed
  <2>3. /\ retained \in SUBSET Tabs /\ props.shown \in SUBSET Tabs
        /\ Cardinality(retained) \in Nat /\ Cardinality(props.shown) \in Nat
        /\ IsFiniteSet(props.shown) /\ MaxRetained \in Nat
    BY FiniteTabs, PanelAssumption DEF Inv, Typed, TypeOK, InStore
  <2>4. \/ Cardinality(retained) <= MaxRetained
        \/ Cardinality(retained) <= Cardinality(props.shown)
    BY <2>1, <2>3, FS_Subset DEF Few, UpToDate
  <2>5. Max({MaxRetained, Cardinality(props.shown)}) =
            IF MaxRetained <= Cardinality(props.shown) THEN Cardinality(props.shown)
            ELSE MaxRetained
    BY <2>3, MaxOfTwo
  <2> QED BY <2>1, <2>2, <2>3, <2>4, <2>5 DEF UpToDate
<1> QED BY <1>1, InvHolds, PTL

\* Who goes back to what was shown before finds its frames, if both fit:
\* what is evicted, now or at the next change, is never of the two.
THEOREM PreviousIsKept == Spec => []PreviousKept
<1>1. Inv => PreviousKept
  BY DEF Inv, Typed, Recent, PreviousKept
<1> QED BY <1>1, InvHolds, PTL

=============================================================================
