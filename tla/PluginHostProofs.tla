--------------------------- MODULE PluginHostProofs ---------------------------
(***************************************************************************)
(* Proofs about PluginHost, for any catalogs, plugins, runs, failures and  *)
(* restarts.                                                               *)
(*                                                                         *)
(* Typed types the files, the container and the runs.  Company says who is *)
(* alone: a run that counts as alone has no other beside it, and as long   *)
(* as runs have never overlapped every run counts as alone.  Alone says    *)
(* how far a run that is alone has brought the container, stage by stage;  *)
(* nobody else touches what it has put right.  Firm says that before any   *)
(* overlap nothing that is in use is emptied, tools and what has a script  *)
(* excepted.                                                               *)
(***************************************************************************)
EXTENDS PluginHost, WellFoundedInduction, TLAPS

Requests == [plugin : Plugins, on : BOOLEAN]

Runs == [pc : Stages, request : Requests \cup {NoRequest},
         apply : BOOLEAN, catalog : Configs \cup {Torn}, seen : Partial(Plugins),
         routes : Partial(Exposed), todo : SUBSET Plugins, alone : BOOLEAN,
         mixed : BOOLEAN]

Installing == {"install", "extract", "empty", "copy", "tool"}
Linking    == {"unlink", "link"}
Written    == {"caddy", "update", "start", "poll", "done"}
Later      == Linking \cup {"writing"} \cup Written
Planned    == {"plan"} \cup Installing \cup Later

\* What a run has in hand is of the catalog it has read.
RunTyped(r) ==
    /\ r \in Runs
    /\ r.pc = "set" => r.request \in Requests
    /\ r.pc \in {"open", "write", "commit"} \cup Planned => r.catalog # Torn
    /\ r.pc \in Installing => r.todo \subseteq DOMAIN Enabled(r.catalog)
    /\ r.pc \in Linking => r.todo \subseteq DOMAIN Commands(r.catalog)
    /\ r.pc \in {"extract", "empty", "copy", "tool", "link", "poll"} => r.todo # {}
    /\ r.pc = "tool" => Min(r.todo) \notin Assets

Statuses == {"starting", "running", "down"}

Files ==
    /\ config \in Configs \cup {Torn} /\ head \in Configs \cup {Torn}
    /\ cache \in [Artifacts -> {"none", "good", "bad"}]
    /\ tree \in [Artifacts -> {"none", "good", Torn}]
    /\ bins \in Partial(Assets) /\ confs \in Partial(Plugins)
    /\ caddy \in Partial(Exposed) /\ Accepted(caddy)

Container ==
    /\ loaded \in Partial(Plugins) /\ prog \in [DOMAIN loaded -> Statuses]
    /\ live \in Partial(Exposed) /\ Accepted(live)

Typed ==
    /\ Files /\ Container
    /\ DOMAIN act = Actors /\ \A a \in Actors : RunTyped(act[a])

Company ==
    /\ overlapped \in BOOLEAN
    /\ \A a, b \in Actors : act[a].alone /\ a # b => IsOff(b)
    /\ ~overlapped => \A a \in Actors : IsOff(a) \/ act[a].alone

\* What the request of a run wants is so in a catalog.
Granted(r, c) ==
    r.request # NoRequest =>
        /\ r.request.plugin \in DOMAIN Catalog(c)
        /\ IsEnabled(c, r.request.plugin) = r.request.on

Good(p, v) == tree[<<p, v>>] = "good"

\* A plugin is there, in the version wanted, or is not there and not wanted.
Agree(f, wanted, p) ==
    /\ p \in DOMAIN f <=> p \in DOMAIN wanted
    /\ p \in DOMAIN f => f[p] = wanted[p]

\* How far a run on its own has come: what is wanted,
Wants(r) ==
    /\ r.pc = "set" => config # Torn /\ r.request.plugin \in DOMAIN Catalog(config)
    /\ r.pc = "dry" => Granted(r, IF r.catalog = Torn THEN config ELSE r.catalog)
    /\ r.pc \in {"open", "write"} => Granted(r, r.catalog)
    /\ r.pc = "write" => ~r.mixed
    /\ r.pc \in {"commit"} \cup Planned => config = r.catalog
    /\ r.pc \in {"commit", "catalog"} \cup Planned /\ config # Torn => Granted(r, config)

\* what is installed,
Installs(r) ==
    LET wanted == Enabled(r.catalog)
    IN  /\ r.pc \in Installing => \A p \in DOMAIN wanted \ r.todo : Good(p, wanted[p])
        /\ r.pc = "tool" => ~r.mixed
        /\ r.pc \in Later => \A p \in DOMAIN wanted : Good(p, wanted[p])

\* and what is put in the files and in force.
Applies(r) ==
    LET wanted   == Enabled(r.catalog)
        commands == Commands(r.catalog)
    IN  /\ r.pc \in Installing \cup Linking => confs = r.seen
        /\ r.pc \in Installing \cup Linking \cup {"writing", "caddy"} => caddy = r.routes
        /\ r.pc \in Linking => /\ DOMAIN bins \subseteq DOMAIN commands
                               /\ \A p \in DOMAIN commands \ r.todo : Agree(bins, commands, p)
        /\ r.pc \in {"writing"} \cup Written => bins = commands
        /\ r.pc = "writing" => /\ r.todo \subseteq Updates(r) \cup Deletions(r)
                                   /\ \A p \in Plugins \ r.todo : Agree(confs, wanted, p)
        /\ r.pc \in Written => confs = wanted
        /\ r.pc \in Written \ {"caddy"} => caddy = Routes(r.catalog)
        /\ r.pc \in {"start", "poll", "done"} => loaded = confs
        /\ r.pc = "done" => live = caddy

Doing(r) == Wants(r) /\ Installs(r) /\ Applies(r)

Alone == \A a \in Actors : act[a].alone => Doing(act[a])

\* What is not replaced where it is.
Lasting(x) == x[1] \in Assets /\ x \notin Scripted

Used(f) == \A p \in DOMAIN f : Lasting(<<p, f[p]>>) => Good(p, f[p])

Firm ==
    ~overlapped =>
        /\ Used(confs) /\ Used(loaded) /\ Used(bins)
        /\ \A a \in Actors :
             At(a, "empty") /\ Lasting(Artifact(a)) => tree[Artifact(a)] # "good"

Inv == Typed /\ Company /\ Alone /\ Firm

-----------------------------------------------------------------------------
(* Catalogs, and functions of plugins.                                     *)

LEMMA LeastPlugin ==
  ASSUME NEW S, S \subseteq Plugins, S # {}
  PROVE  Min(S) \in S
<1> DEFINE R == {ss \in Nat \X Nat : ss[1] < ss[2]}
<1>0. S \subseteq Nat
  BY HostAssumption
<1>1. IsWellFoundedOn(R, Nat)
  BY NatLessThanWellFounded, Zenon DEF OpToRel
<1>2. \A y, x \in Nat : y < x => <<y, x>> \in R
  OBVIOUS
<1> HIDE DEF R
<1>3. PICK x \in S : \A y \in S : ~ (<<y, x>> \in R)
  BY <1>0, <1>1, WFMin
<1>4. ASSUME NEW y \in S PROVE x <= y
  <2>1. x \in Nat /\ y \in Nat
    BY <1>0
  <2>2. ~(y < x)
    BY <2>1, <1>2, <1>3
  <2> QED BY <2>1, <2>2
<1> QED BY <1>4 DEF Min

LEMMA PartialIs ==
  ASSUME NEW S, NEW f \in Partial(S)
  PROVE  DOMAIN f \subseteq S /\ f \in [DOMAIN f -> Known]
BY DEF Partial

LEMMA PartialMade ==
  ASSUME NEW S, NEW T, T \subseteq S, NEW f \in [T -> Known]
  PROVE  f \in Partial(S)
BY DEF Partial

LEMMA EmptyIsPartial == \A S : Empty \in Partial(S)
<1> SUFFICES ASSUME NEW S PROVE Empty \in Partial(S)
  OBVIOUS
<1>1. Empty \in [{} -> Known]
  BY DEF Empty
<1> QED BY <1>1, PartialMade

LEMMA OverIs ==
  ASSUME NEW S, NEW f \in Partial(S), NEW g \in Partial(S)
  PROVE  Over(f, g) \in Partial(S)
<1>1. DOMAIN f \subseteq S /\ f \in [DOMAIN f -> Known] /\ DOMAIN g \subseteq S /\ g \in [DOMAIN g -> Known]
  BY PartialIs
<1>2. Over(f, g) \in [DOMAIN f \cup DOMAIN g -> Known]
  BY <1>1 DEF Over
<1> QED BY <1>1, <1>2, PartialMade

LEMMA PutIs ==
  ASSUME NEW f, NEW x, NEW v, NEW g, g = Put(f, x, v)
  PROVE  /\ DOMAIN g = DOMAIN f \cup {x} /\ g[x] = v
         /\ \A y \in DOMAIN f : y # x => g[y] = f[y]
BY DEF Put, Over

LEMMA PutPartial ==
  ASSUME NEW S, NEW f \in Partial(S), NEW x \in S, NEW v \in Known
  PROVE  Put(f, x, v) \in Partial(S)
<1>1. [y \in {x} |-> v] \in [{x} -> Known]
  OBVIOUS
<1>2. [y \in {x} |-> v] \in Partial(S)
  BY <1>1, PartialMade
<1> QED BY <1>2, OverIs DEF Put

LEMMA OnlyIs ==
  ASSUME NEW f, NEW T
  PROVE  DOMAIN Only(f, T) = DOMAIN f \cap T /\ \A x \in DOMAIN f \cap T : Only(f, T)[x] = f[x]
BY DEF Only, Restrict

LEMMA LeftOver ==
  ASSUME NEW f, NEW T, NEW g, g = Only(f, T)
  PROVE  /\ DOMAIN g \subseteq T
         /\ \A p \in DOMAIN g : p \in DOMAIN f /\ g[p] = f[p]
         /\ \A p \in T : p \in DOMAIN f => p \in DOMAIN g
BY DEF Only, Restrict

LEMMA OnlyPartial ==
  ASSUME NEW S, NEW f \in Partial(S), NEW T
  PROVE  Only(f, T) \in Partial(S) /\ Only(f, T) \in Partial(T)
<1>1. DOMAIN f \subseteq S /\ f \in [DOMAIN f -> Known]
  BY PartialIs
<1>2. Only(f, T) \in [DOMAIN f \cap T -> Known]
  BY <1>1 DEF Only, Restrict
<1> QED BY <1>1, <1>2, PartialMade

LEMMA CatalogIs == \A c \in Configs : Catalog(c) \in Partial(Plugins)
  BY OverIs, HostAssumption DEF Configs, Catalog

LEMMA EnabledIs ==
  ASSUME NEW c \in Configs
  PROVE  /\ Enabled(c) \in Partial(Plugins)
         /\ \A p : p \in DOMAIN Enabled(c) <=> p \in DOMAIN Catalog(c) /\ IsEnabled(c, p)
         /\ \A p \in DOMAIN Enabled(c) : <<p, Enabled(c)[p]>> \in Artifacts
<1> DEFINE all == Catalog(c)
           on  == {p \in DOMAIN all : IsEnabled(c, p)}
<1>1. DOMAIN all \subseteq Plugins /\ all \in [DOMAIN all -> Known]
  BY CatalogIs, PartialIs
<1>2. Enabled(c) \in [on -> Known]
  BY <1>1 DEF Enabled, Restrict
<1>3. on \subseteq Plugins
  BY <1>1
<1>4. Enabled(c) \in Partial(Plugins)
  BY <1>2, <1>3, PartialMade
<1>5. \A p \in on : <<p, Enabled(c)[p]>> \in Artifacts
  BY <1>2, <1>3 DEF Artifacts, Known
<1> QED BY <1>2, <1>4, <1>5

LEMMA WantedIs ==
  ASSUME NEW c \in Configs
  PROVE  /\ Commands(c) \in Partial(Assets) /\ Routes(c) \in Partial(Exposed)
         /\ \A p : p \in DOMAIN Commands(c) <=> p \in DOMAIN Enabled(c) \cap Assets
         /\ \A p \in DOMAIN Commands(c) : Commands(c)[p] = Enabled(c)[p]
         /\ DOMAIN Commands(c) \subseteq Plugins
BY EnabledIs, OnlyIs, OnlyPartial, PartialIs DEF Commands, Routes

\* Two functions that agree on all plugins are one.
LEMMA AgreeAll ==
  ASSUME NEW S, NEW T, NEW f \in Partial(S), NEW g \in Partial(T),
         \A p \in S \cup T : Agree(f, g, p)
  PROVE  f = g
<1>1. /\ DOMAIN f \subseteq S /\ f \in [DOMAIN f -> Known]
      /\ DOMAIN g \subseteq T /\ g \in [DOMAIN g -> Known]
  BY PartialIs
<1>2. DOMAIN f = DOMAIN g /\ \A p \in DOMAIN f : f[p] = g[p]
  BY <1>1 DEF Agree
<1> QED BY <1>1, <1>2

LEMMA ConfigSet ==
  ASSUME NEW c \in Configs, NEW p \in Plugins
  PROVE  /\ \A on \in BOOLEAN : /\ SetPluginEnabled(c, p, on) \in Configs
                                /\ Catalog(SetPluginEnabled(c, p, on)) = Catalog(c)
                                /\ IsEnabled(SetPluginEnabled(c, p, on), p) = on
         /\ \A v \in Versions : UpsertPlugin(c, p, v) \in Configs
<1>1. ASSUME NEW on \in BOOLEAN
      PROVE  /\ SetPluginEnabled(c, p, on) \in Configs
             /\ Catalog(SetPluginEnabled(c, p, on)) = Catalog(c)
             /\ IsEnabled(SetPluginEnabled(c, p, on), p) = on
  <2> DEFINE set    == SetPluginEnabled(c, p, on)
             states == Put(c.states, p, on)
  <2>1. PICK T \in SUBSET Plugins : c.states \in [T -> BOOLEAN]
    BY DEF Configs
  <2>2. states \in [T \cup {p} -> BOOLEAN]
    BY <2>1 DEF Put, Over
  <2>3. T \cup {p} \in SUBSET Plugins
    OBVIOUS
  <2>4. set = [c EXCEPT !.states = states]
    BY DEF SetPluginEnabled
  <2>5. p \in DOMAIN states /\ states[p] = on
    BY DEF Put, Over
  <2> HIDE DEF states
  <2>6. set \in Configs
    BY <2>2, <2>3, <2>4 DEF Configs
  <2>7. set.defs = c.defs /\ set.states = states
    BY <2>4 DEF Configs
  <2> HIDE DEF set
  <2> QED BY <2>5, <2>6, <2>7 DEF Catalog, IsEnabled, set
<1>2. ASSUME NEW v \in Versions PROVE UpsertPlugin(c, p, v) \in Configs
  <2> DEFINE defs == Put(c.defs, p, v)
  <2>1. defs \in Partial(Plugins)
    BY PutPartial DEF Configs, Known
  <2>2. UpsertPlugin(c, p, v) = [c EXCEPT !.defs = defs]
    BY DEF UpsertPlugin
  <2> HIDE DEF defs
  <2> QED BY <2>1, <2>2 DEF Configs
<1> QED BY <1>1, <1>2
-----------------------------------------------------------------------------
(* A run takes a step, or ends.                                            *)

LEMMA OffIs == RunTyped(Off) /\ ~Off.alone /\ Off.pc = "off" /\ Off.request = NoRequest
<1>1. Off \in Runs
  BY EmptyIsPartial DEF Off, Runs, Stages
<1> QED BY <1>1 DEF Off, RunTyped, Planned, Installing, Later, Linking, Written

LEMMA Goes ==
  ASSUME Typed, Company, Alone, NEW a \in Actors, ~IsOff(a), UNCHANGED overlapped,
         NEW r, Go(a, r), RunTyped(r), r = Off \/ r.alone = act[a].alone, r.alone => Doing(r)'
  PROVE  /\ DOMAIN act' = Actors /\ \A b \in Actors : RunTyped(act'[b])
         /\ Company' /\ Alone'
<1>1. /\ DOMAIN act' = Actors /\ act'[a] = r
      /\ \A b \in Actors : b # a => act'[b] = act[b]
  BY DEF Go, Typed
<1>2. \A b \in Actors : RunTyped(act'[b])
  BY <1>1 DEF Typed
<1>3. r.alone => act[a].alone
  BY OffIs
<1>4. \A b \in Actors : b # a => ~act[b].alone
  BY DEF Company
<1>5. Company'
  <2>1. \A b, c \in Actors : act'[b].alone /\ b # c => IsOff(c)'
    <3> SUFFICES ASSUME NEW b \in Actors, NEW c \in Actors, act'[b].alone, b # c PROVE IsOff(c)'
      OBVIOUS
    <3>1. b = a /\ act[a].alone
      BY <1>1, <1>3, <1>4
    <3>2. IsOff(c) /\ act'[c] = act[c]
      BY <1>1, <3>1 DEF Company
    <3> QED BY <3>2 DEF IsOff
  <2>2. ~overlapped => IsOff(a)' \/ act'[a].alone
    BY <1>1, OffIs DEF Company, IsOff
  <2>3. \A b \in Actors : b # a /\ ~overlapped => IsOff(b)' \/ act'[b].alone
    BY <1>1 DEF Company, IsOff
  <2> QED BY <2>1, <2>2, <2>3 DEF Company
<1>6. Alone'
  <2>1. ASSUME NEW b \in Actors, act'[b].alone PROVE Doing(act[b])'
    <3>1. b = a
      BY <1>1, <1>4, <2>1
    <3> QED BY <1>1, <2>1, <3>1
  <2> QED BY <2>1 DEF Alone
<1> QED BY <1>1, <1>2, <1>5, <1>6

LEMMA FirmStays ==
  ASSUME Typed, Firm, NEW a \in Actors, NEW r, Go(a, r), r.pc # "empty",
         UNCHANGED <<tree, confs, loaded, bins, overlapped>>
  PROVE  Firm'
<1>1. DOMAIN act' = Actors /\ act'[a] = r /\ \A b \in Actors : b # a => act'[b] = act[b]
  BY DEF Go, Typed
<1>2. Used(confs)' = Used(confs) /\ Used(loaded)' = Used(loaded) /\ Used(bins)' = Used(bins)
  BY DEF Used, Good
<1>3. \A b \in Actors : At(b, "empty")' => b # a /\ At(b, "empty") /\ Artifact(b)' = Artifact(b)
  BY <1>1 DEF At, Artifact, Current
<1> QED BY <1>2, <1>3 DEF Firm

\* A run that ends with an error, or is over, leaves all as it is.
LEMMA Throws ==
  ASSUME Inv, NEW a \in Actors, ~IsOff(a), Throw(a), Files', Container',
         UNCHANGED <<tree, confs, loaded, bins, overlapped>>
  PROVE  Inv'
<1>1. Go(a, Off) /\ Off.pc # "empty"
  BY OffIs DEF Throw
<1>2. /\ DOMAIN act' = Actors /\ \A b \in Actors : RunTyped(act'[b])
      /\ Company' /\ Alone'
  BY <1>1, OffIs, Goes DEF Inv
<1>3. Firm'
  BY <1>1, FirmStays DEF Inv
<1> QED BY <1>2, <1>3 DEF Inv, Typed

LEMMA FilesStay == Files /\ UNCHANGED <<config, head, files>> => Files'
  BY DEF Files, files

LEMMA ContainerStays == Container /\ UNCHANGED host => Container'
  BY DEF Container, host

\* A run that goes on, without a change of files that are in use.
LEMMA GoesOn ==
  ASSUME Inv, NEW a \in Actors, ~IsOff(a), NEW r, Go(a, r), RunTyped(r),
         r.alone = act[a].alone, r.alone => Doing(r)', Files', Container', Firm',
         UNCHANGED overlapped
  PROVE  Inv'
<1>1. /\ DOMAIN act' = Actors /\ \A b \in Actors : RunTyped(act'[b])
      /\ Company' /\ Alone'
  BY Goes DEF Inv
<1> QED BY <1>1 DEF Inv, Typed

\* What a run is, when it is under way.
LEMMA RunIs ==
  ASSUME Inv, NEW a \in Actors
  PROVE  /\ RunTyped(act[a])
         /\ act[a].alone => Doing(act[a])
         /\ Files /\ Container /\ Firm
         /\ ~overlapped /\ ~IsOff(a) => act[a].alone
BY DEF Inv, Typed, Alone, Company

LEMMA AloneOrNot ==
  ASSUME NEW r \in Runs, NEW b \in BOOLEAN
  PROVE  LET s == [r EXCEPT !.alone = b]
         IN  /\ s \in Runs /\ s.alone = b /\ s.pc = r.pc /\ s.request = r.request
             /\ s.todo = r.todo /\ s.catalog = r.catalog
             /\ RunTyped(r) => RunTyped(s)
<1> DEFINE s == [r EXCEPT !.alone = b]
<1>1. s \in Runs
  BY Zenon DEF Runs
<1>2. /\ s.alone = b /\ s.pc = r.pc /\ s.request = r.request
      /\ s.todo = r.todo /\ s.catalog = r.catalog
  BY DEF Runs
<1> HIDE DEF s
<1>3. RunTyped(r) => RunTyped(s)
  BY <1>1, <1>2 DEF RunTyped
<1> QED BY <1>1, <1>2, <1>3 DEF s

\* A run begins, and those under way are not alone any more.
LEMMA Begins ==
  ASSUME Inv, NEW a \in Actors, NEW r, Begin(a, r), RunTyped(r), r.pc # "empty",
         \A s \in Runs : s.pc = r.pc /\ s.request = r.request /\ s.catalog = r.catalog
                         /\ Busy = {} => Doing(s),
         UNCHANGED <<config, head, files, host>>
  PROVE  Inv'
<1>1. PICK first \in BOOLEAN : first <=> Busy = {}
  OBVIOUS
<1> PICK s : s = [r EXCEPT !.alone = first]
  OBVIOUS
<1> DEFINE t(b) == [act[b] EXCEPT !.alone = FALSE]
<1>2. /\ act' = [b \in Actors |-> IF b = a THEN s ELSE t(b)]
      /\ overlapped' = (overlapped \/ Busy # {})
  BY <1>1 DEF Begin
<1>3. RunTyped(s) /\ s \in Runs /\ s.alone = first /\ s.pc = r.pc /\ s.request = r.request
      /\ s.catalog = r.catalog
  BY <1>1, AloneOrNot DEF RunTyped
<1>4. \A b \in Actors : RunTyped(t(b)) /\ ~t(b).alone /\ t(b).pc = act[b].pc
                        /\ t(b).todo = act[b].todo /\ t(b).catalog = act[b].catalog
  <2> SUFFICES ASSUME NEW b \in Actors
               PROVE  /\ RunTyped(t(b)) /\ ~t(b).alone /\ t(b).pc = act[b].pc
                      /\ t(b).todo = act[b].todo /\ t(b).catalog = act[b].catalog
    OBVIOUS
  <2>1. RunTyped(act[b]) /\ act[b] \in Runs
    BY RunIs DEF RunTyped
  <2> QED BY <2>1, AloneOrNot
<1>5. first => Doing(s)
  BY <1>1, <1>3
<1> HIDE DEF t
<1>6. /\ DOMAIN act' = Actors /\ act'[a] = s
      /\ \A b \in Actors : b # a => act'[b] = t(b)
  BY <1>2
<1>7. Typed'
  <2>1. Files' /\ Container'
    BY RunIs, FilesStay, ContainerStays
  <2> QED BY <1>3, <1>4, <1>6, <2>1 DEF Typed
<1>8. Company'
  <2>1. \A b \in Actors : first => act[b].pc = "off"
    BY <1>1 DEF Busy, IsOff
  <2>2. overlapped' \in BOOLEAN
    BY <1>2
  <2>3. ASSUME NEW b \in Actors, NEW c \in Actors, act'[b].alone, b # c
        PROVE  first /\ act'[c] = t(c)
    <3>1. b = a
      BY <1>4, <1>6, <2>3
    <3>2. s.alone
      BY <1>6, <2>3, <3>1
    <3> QED BY <1>3, <1>6, <2>3, <3>1, <3>2
  <2>4. \A b, c \in Actors : act'[b].alone /\ b # c => IsOff(c)'
    BY <1>4, <2>1, <2>3 DEF IsOff
  <2>5. ~overlapped' => first
    BY <1>1, <1>2
  <2>6. ASSUME NEW b \in Actors, ~overlapped' PROVE IsOff(b)' \/ act'[b].alone
    <3>1. CASE b = a
      BY <1>3, <1>6, <2>5, <2>6, <3>1
    <3>2. CASE b # a
      BY <1>4, <1>6, <2>1, <2>5, <2>6, <3>2 DEF IsOff
    <3> QED BY <3>1, <3>2
  <2> QED BY <2>2, <2>4, <2>6 DEF Company
<1>9. Alone'
  <2>1. Wants(s)' = Wants(s)
    BY DEF Wants, Granted
  <2>2. Installs(s)' = Installs(s)
    BY DEF Installs, Good, files
  <2>3. Applies(s)' = Applies(s)
    BY DEF Applies, Agree, files, host
  <2>4. ASSUME NEW b \in Actors, act'[b].alone PROVE Doing(act[b])'
    <3>1. b = a
      BY <1>4, <1>6, <2>4
    <3>2. s.alone
      BY <1>6, <2>4, <3>1
    <3>3. Doing(s)'
      BY <1>3, <1>5, <2>1, <2>2, <2>3, <3>2 DEF Doing
    <3> QED BY <1>6, <3>1, <3>3
  <2> QED BY <2>4 DEF Alone
<1>10. Firm'
  <2>1. ASSUME NEW b \in Actors, At(b, "empty")'
        PROVE  At(b, "empty") /\ Artifact(b)' = Artifact(b)
    <3>1. b # a
      BY <1>3, <1>6, <2>1 DEF At
    <3> QED BY <1>4, <1>6, <2>1, <3>1 DEF At, Artifact, Current
  <2>2. Used(confs)' = Used(confs) /\ Used(loaded)' = Used(loaded) /\ Used(bins)' = Used(bins)
    BY DEF Used, Good, files, host
  <2>3. ~overlapped' => ~overlapped
    BY <1>2
  <2> QED BY <2>1, <2>2, <2>3, RunIs DEF Firm, files
<1> QED BY <1>7, <1>8, <1>9, <1>10 DEF Inv

LEMMA BeginIs ==
  ASSUME NEW r, r \in Runs, r.pc \in {"set", "dry", "catalog"},
         r.pc = "set" => r.request \in Requests
  PROVE  RunTyped(r)
<1>1. CASE r.pc = "set"
  BY <1>1 DEF RunTyped, Planned, Installing, Linking, Later, Written
<1>2. CASE r.pc = "dry"
  BY <1>2 DEF RunTyped, Planned, Installing, Linking, Later, Written
<1>3. CASE r.pc = "catalog"
  BY <1>3 DEF RunTyped, Planned, Installing, Linking, Later, Written
<1> QED BY <1>1, <1>2, <1>3

\* Before there is a plan, nothing has been installed or applied.
Early == {"off", "set", "dry", "open", "write", "commit", "catalog", "plan"}

LEMMA EarlyIs ==
  ASSUME NEW r, r.pc \in Early
  PROVE  Installs(r) /\ Applies(r) /\ Installs(r)' /\ Applies(r)'
<1>1. r.pc \notin Installing \cup Later
  BY DEF Early, Installing, Later, Linking, Written
<1>2. r.pc \notin Linking /\ r.pc \notin Written /\ r.pc # "writing"
  BY <1>1 DEF Later
<1>3. r.pc \notin {"caddy", "start", "poll", "done"} /\ r.pc \notin Installing
  BY <1>1, <1>2 DEF Written
<1>4. Installs(r) /\ Installs(r)'
  <2>1. r.pc # "tool"
    BY <1>1 DEF Installing
  <2> QED BY <1>1, <2>1 DEF Installs
<1>5. Applies(r) /\ Applies(r)'
  BY <1>2, <1>3 DEF Applies
<1> QED BY <1>4, <1>5

LEMMA SetEnabledInv ==
  ASSUME Inv, NEW a \in Actors, NEW p \in Plugins, NEW on \in BOOLEAN, NEW apply \in BOOLEAN,
         SetEnabled(a, p, on, apply)
  PROVE  Inv'
<1> PICK request : request = [plugin |-> p, on |-> on]
  OBVIOUS
<1> PICK r : r = [Off EXCEPT !.pc = "set", !.request = request, !.apply = apply]
  OBVIOUS
<1>1. /\ Begin(a, r) /\ UNCHANGED <<config, head, files, host>>
      /\ config # Torn /\ p \in DOMAIN Catalog(config)
  BY DEF SetEnabled
<1>2. request \in Requests /\ request.plugin = p
  BY DEF Requests
<1>3. Off \in Runs
  BY OffIs DEF RunTyped
<1>4. r \in Runs
  BY <1>2, <1>3, Zenon DEF Runs, Stages
<1>5. r.pc = "set" /\ r.request = request
  BY <1>3 DEF Runs
<1>6. RunTyped(r)
  BY <1>2, <1>4, <1>5, BeginIs
<1>7. ASSUME NEW s \in Runs, s.pc = r.pc, s.request = r.request PROVE Doing(s)
  <2>1. s.pc = "set" /\ s.request.plugin = p
    BY <1>2, <1>5, <1>7
  <2>2. Wants(s)
    BY <1>1, <2>1 DEF Wants, Planned, Installing, Later, Linking, Written
  <2> QED BY <2>1, <2>2, EarlyIs DEF Doing, Early
<1>8. r.pc # "empty"
  BY <1>5
<1> QED BY <1>1, <1>6, <1>7, <1>8, Begins

LEMMA AddPluginInv ==
  ASSUME Inv, NEW a \in Actors, NEW p \in Plugins, NEW v \in Versions, AddPlugin(a, p, v)
  PROVE  Inv'
<1> PICK c : c = UpsertPlugin(config, p, v)
  OBVIOUS
<1> PICK r : r = [Off EXCEPT !.pc = "dry", !.catalog = c]
  OBVIOUS
<1>1. Begin(a, r) /\ UNCHANGED <<config, head, files, host>> /\ config # Torn
  BY DEF AddPlugin
<1>2. c \in Configs /\ c # Torn
  BY <1>1, RunIs, ConfigSet, HostAssumption DEF Files
<1>3. Off \in Runs
  BY OffIs DEF RunTyped
<1>4. r \in Runs
  BY <1>2, <1>3, Zenon DEF Runs, Stages
<1>5. r.pc = "dry" /\ r.request = NoRequest
  BY <1>3, OffIs DEF Runs
<1>6. RunTyped(r)
  BY <1>2, <1>4, <1>5, BeginIs
<1>7. ASSUME NEW s \in Runs, s.pc = r.pc, s.request = r.request PROVE Doing(s)
  <2>1. s.pc = "dry" /\ s.request = NoRequest
    BY <1>5, <1>7
  <2>2. Wants(s)
    BY <2>1 DEF Wants, Granted, Planned, Installing, Later, Linking, Written
  <2> QED BY <2>1, <2>2, EarlyIs DEF Doing, Early
<1>8. r.pc # "empty"
  BY <1>5
<1> QED BY <1>1, <1>6, <1>7, <1>8, Begins

LEMMA ReloadInv == ASSUME Inv, NEW a \in Actors, Reload(a) PROVE Inv'
<1> PICK r : r = [Off EXCEPT !.pc = "catalog"]
  OBVIOUS
<1>1. Begin(a, r) /\ UNCHANGED <<config, head, files, host>>
  BY DEF Reload
<1>2. Off \in Runs
  BY OffIs DEF RunTyped
<1>3. r \in Runs
  BY <1>2, Zenon DEF Runs, Stages
<1>4. r.pc = "catalog" /\ r.request = NoRequest
  BY <1>2, OffIs DEF Runs
<1>5. RunTyped(r)
  BY <1>3, <1>4, BeginIs
<1>6. ASSUME NEW s \in Runs, s.pc = r.pc, s.request = r.request PROVE Doing(s)
  <2>1. s.pc = "catalog" /\ s.request = NoRequest
    BY <1>4, <1>6
  <2>2. Wants(s)
    BY <2>1 DEF Wants, Granted, Planned, Installing, Later, Linking, Written
  <2> QED BY <2>1, <2>2, EarlyIs DEF Doing, Early
<1>7. r.pc # "empty"
  BY <1>4
<1> QED BY <1>1, <1>5, <1>6, <1>7, Begins

-----------------------------------------------------------------------------
(* What is wanted.                                                         *)

\* A stage is none of the others: what the invariant says at each.
LEMMA StageIs ==
  /\ \A pc \in {"dry", "open", "write"} : pc \in Early /\ pc \notin Planned
  /\ "set" \in Early /\ "set" \notin Planned
  /\ "commit" \in Early /\ "commit" \notin Planned
  /\ "plan" \in Early
  /\ "catalog" \in Early /\ "catalog" \notin Planned
BY DEF Early, Planned, Installing, Later, Linking, Written

LEMMA EarlyTyped ==
  ASSUME NEW r, r \in Runs, r.pc \in {"dry", "open", "write", "commit", "catalog", "plan"},
         r.pc \notin {"dry", "catalog"} => r.catalog # Torn
  PROVE  RunTyped(r)
<1>1. r.pc \notin Installing /\ r.pc \notin Linking /\ r.pc # "set"
  BY DEF Installing, Linking
<1>2. r.pc \notin {"extract", "empty", "copy", "tool", "link", "poll"}
  OBVIOUS
<1>3. r.pc \in {"dry", "catalog"} => r.pc \notin {"open", "write", "commit"} \cup Planned
  BY StageIs
<1> QED BY <1>1, <1>2, <1>3 DEF RunTyped

LEMMA ReadConfigInv == ASSUME Inv, NEW a \in Actors, ReadConfig(a) PROVE Inv'
<1> PICK old : old = act[a]
  OBVIOUS
<1>1. /\ old.pc = "set" /\ ~IsOff(a) /\ RunTyped(old) /\ old \in Runs
      /\ old.alone => Wants(old)
      /\ UNCHANGED <<config, head, files, host, overlapped>>
      /\ UNCHANGED <<tree, confs, loaded, bins, overlapped>>
      /\ Files /\ Files' /\ Container'
  BY RunIs, FilesStay, ContainerStays DEF ReadConfig, At, IsOff, RunTyped, Doing, files, host
<1>2. CASE Throw(a)
  BY <1>1, <1>2, Throws
<1> DEFINE p  == old.request.plugin
           on == old.request.on
<1> PICK next : next = IF IsEnabled(config, p) # on THEN SetPluginEnabled(config, p, on) ELSE Torn
  OBVIOUS
<1>3. p \in Plugins /\ on \in BOOLEAN
  BY <1>1 DEF RunTyped, Requests
<1>4. CASE config # Torn /\ Go(a, [old EXCEPT !.pc = "dry", !.catalog = next])
  <2> PICK r : r = [old EXCEPT !.pc = "dry", !.catalog = next]
    OBVIOUS
  <2>1. /\ SetPluginEnabled(config, p, on) \in Configs
        /\ Catalog(SetPluginEnabled(config, p, on)) = Catalog(config)
        /\ IsEnabled(SetPluginEnabled(config, p, on), p) = on
    BY <1>1, <1>3, <1>4, ConfigSet DEF Files
  <2>2. next \in Configs \cup {Torn}
    BY <2>1
  <2>3. r \in Runs
    BY <1>1, <2>2, Zenon DEF Runs, Stages
  <2>4. r.pc = "dry" /\ r.catalog = next /\ r.alone = old.alone /\ r.request = old.request
    BY <1>1 DEF Runs
  <2>5. RunTyped(r)
    BY <2>3, <2>4, EarlyTyped
  <2> DEFINE c == IF next = Torn THEN config ELSE next
  <2>6. Catalog(c) = Catalog(config) /\ IsEnabled(c, p) = on
    <3>1. CASE IsEnabled(config, p) # on
      BY <2>1, <3>1, HostAssumption
    <3>2. CASE IsEnabled(config, p) = on
      BY <3>2
    <3> QED BY <3>1, <3>2
  <2>7. r.alone => Granted(r, c)
    BY <1>1, <2>4, <2>6 DEF Wants, Granted
  <2>8. r.alone => Granted(r, IF r.catalog = Torn THEN config ELSE r.catalog)'
    BY <1>1, <2>4, <2>7 DEF Granted
  <2>9. r.alone => Wants(r)'
    BY <2>4, <2>8, StageIs DEF Wants
  <2>10. r.alone => Doing(r)'
    BY <2>4, <2>9, StageIs, EarlyIs DEF Doing
  <2>11. Firm'
    BY <1>1, <1>4, <2>4, RunIs, FirmStays DEF Inv
  <2> QED BY <1>1, <1>4, <2>4, <2>5, <2>10, <2>11, GoesOn
<1> QED BY <1>2, <1>4 DEF ReadConfig

\* What has been read is still so, for a run that is alone.
LEMMA PlanChangeInv == ASSUME Inv, NEW a \in Actors, PlanChange(a) PROVE Inv'
<1> PICK old : old = act[a]
  OBVIOUS
<1>1. /\ old.pc = "dry" /\ ~IsOff(a) /\ RunTyped(old) /\ old \in Runs
      /\ old.alone => Wants(old)
      /\ UNCHANGED <<config, head, files, host, overlapped>>
      /\ UNCHANGED <<tree, confs, loaded, bins, overlapped>>
      /\ Files /\ Files' /\ Container'
  BY RunIs, FilesStay, ContainerStays DEF PlanChange, At, IsOff, RunTyped, Doing, files, host
<1>2. CASE Throw(a)
  BY <1>1, <1>2, Throws
<1>3. ASSUME NEW pc \in {"open", "catalog"}, Go(a, [old EXCEPT !.pc = pc]),
             (old.catalog # Torn) <=> (pc = "open")
      PROVE  Inv'
  <2> PICK r : r = [old EXCEPT !.pc = pc]
    OBVIOUS
  <2>1. r \in Runs
    BY <1>1, <1>3, Zenon DEF Runs, Stages
  <2>2. r.pc = pc /\ r.catalog = old.catalog /\ r.alone = old.alone /\ r.request = old.request
    BY <1>1 DEF Runs
  <2>3. RunTyped(r)
    BY <1>3, <2>1, <2>2, EarlyTyped
  <2>4. r.alone => Granted(r, IF pc = "open" THEN r.catalog ELSE config)
    BY <1>1, <1>3, <2>2 DEF Wants, Granted
  <2>5. r.alone => Granted(r, IF pc = "open" THEN r.catalog ELSE config)'
    BY <1>1, <2>4 DEF Granted
  <2>6. r.alone => Wants(r)'
    BY <1>3, <2>2, <2>5, StageIs DEF Wants
  <2>7. r.alone => Doing(r)'
    <3>1. r.pc \in Early
      BY <1>3, <2>2, StageIs
    <3> QED BY <2>6, <3>1, EarlyIs DEF Doing
  <2>8. Firm'
    BY <1>1, <1>3, <2>2, RunIs, FirmStays DEF Inv
  <2> QED BY <1>1, <1>3, <2>2, <2>3, <2>7, <2>8, GoesOn
<1> QED BY <1>2, <1>3 DEF PlanChange

LEMMA EarlyDoing ==
  ASSUME NEW r, r.pc \in Early, Wants(r)'
  PROVE  Doing(r)'
BY EarlyIs DEF Doing

\* Whatever is in use is of a plugin and version that can be installed.
LEMMA InArtifacts ==
  ASSUME Inv, NEW f \in {confs, loaded, bins}, NEW p \in DOMAIN f
  PROVE  <<p, f[p]>> \in Artifacts
<1>1. f \in Partial(Plugins) \/ f \in Partial(Assets)
  BY RunIs DEF Inv, Typed, Files, Container
<1>2. p \in Plugins /\ f[p] \in Known
  BY <1>1, PartialIs, HostAssumption
<1> QED BY <1>2 DEF Artifacts, Known

\* Firm, as long as nothing that lasts is spoilt.
LEMMA FirmGrows ==
  ASSUME Inv, NEW a \in Actors, ~IsOff(a), ~At(a, "empty")',
         \A b \in Actors : b # a => act'[b].pc = act[b].pc,
         UNCHANGED <<confs, loaded, bins, overlapped>>,
         \A x \in Artifacts : Lasting(x) /\ tree[x] = "good" => tree'[x] = "good"
  PROVE  Firm'
<1> SUFFICES ASSUME ~overlapped PROVE Firm'
  BY DEF Firm
<1>1. \A b \in Actors : b # a => IsOff(b)
  BY DEF Inv, Company
<1>2. \A b \in Actors : ~At(b, "empty")'
  BY <1>1 DEF At, IsOff
<1>3. Used(confs)' /\ Used(loaded)' /\ Used(bins)'
  BY InArtifacts DEF Inv, Firm, Used, Good
<1> QED BY <1>2, <1>3 DEF Firm

LEMMA MixedOrNot ==
  ASSUME NEW r, RunTyped(r), NEW b \in BOOLEAN
  PROVE  LET s == [r EXCEPT !.mixed = b]
         IN  /\ RunTyped(s) /\ s.mixed = b /\ s.alone = r.alone /\ s.pc = r.pc
             /\ s.request = r.request /\ s.todo = r.todo /\ s.catalog = r.catalog
             /\ s.seen = r.seen /\ s.routes = r.routes
<1> DEFINE s == [r EXCEPT !.mixed = b]
<1>1. s \in Runs
  BY Zenon DEF Runs, RunTyped
<1>2. /\ s.mixed = b /\ s.alone = r.alone /\ s.pc = r.pc /\ s.request = r.request
      /\ s.todo = r.todo /\ s.catalog = r.catalog /\ s.seen = r.seen /\ s.routes = r.routes
  BY DEF Runs, RunTyped
<1> HIDE DEF s
<1>3. RunTyped(s)
  BY <1>1, <1>2 DEF RunTyped
<1> QED BY <1>2, <1>3 DEF s

\* A run starts to write what others may be writing: one that is alone finds
\* no others.
LEMMA OpensInv ==
  ASSUME Inv, NEW a \in Actors, ~IsOff(a), NEW r, RunTyped(r), r.pc \notin {"off", "empty"},
         r.alone = act[a].alone, NEW others \in SUBSET Actors, a \notin others,
         \A b \in others : ~IsOff(b), Opens(a, r, others), Files', Container',
         UNCHANGED <<confs, loaded, bins, overlapped>>,
         \A x \in Artifacts : Lasting(x) /\ tree[x] = "good" => tree'[x] = "good",
         r.alone => Doing([r EXCEPT !.mixed = FALSE])'
  PROVE  Inv'
<1> PICK mixed \in BOOLEAN : mixed = (others # {})
  OBVIOUS
<1> PICK s : s = [r EXCEPT !.mixed = mixed]
  OBVIOUS
<1> DEFINE t(b) == [act[b] EXCEPT !.mixed = TRUE]
<1>1. act' = [b \in Actors |-> IF b = a THEN s ELSE IF b \in others THEN t(b) ELSE act[b]]
  BY Zenon DEF Opens
<1>2. RunTyped(s) /\ s.alone = r.alone /\ s.pc = r.pc
  <2> HIDE DEF t
  <2> QED BY MixedOrNot
<1>3. ASSUME NEW b \in Actors
      PROVE  RunTyped(t(b)) /\ t(b).alone = act[b].alone /\ t(b).pc = act[b].pc
  <2>1. RunTyped(act[b]) /\ TRUE \in BOOLEAN
    BY RunIs
  <2> QED BY <2>1, MixedOrNot
<1> HIDE DEF t
<1>4. /\ DOMAIN act' = Actors /\ act'[a] = s
      /\ \A b \in Actors : b # a => /\ RunTyped(act'[b]) /\ act'[b].alone = act[b].alone
                                     /\ act'[b].pc = act[b].pc
  BY <1>1, <1>3, RunIs
<1>5. Typed'
  BY <1>2, <1>4 DEF Typed
<1>6. Company'
  <2>1. act'[a].alone = act[a].alone /\ ~IsOff(a)'
    BY <1>2, <1>4 DEF IsOff
  <2>2. \A b \in Actors : act'[b].alone = act[b].alone /\ (IsOff(b)' <=> IsOff(b))
    BY <1>4, <2>1 DEF IsOff
  <2> QED BY <2>2 DEF Inv, Company
<1>7. Alone'
  <2> SUFFICES ASSUME NEW b \in Actors, act'[b].alone PROVE Doing(act[b])'
    BY DEF Alone
  <2>1. b = a
    <3> SUFFICES ASSUME b # a PROVE FALSE
      OBVIOUS
    <3>1. act[b].alone
      BY <1>4
    <3> QED BY <3>1 DEF Inv, Company
  <2>2. r.alone /\ act[a].alone
    BY <1>2, <1>4, <2>1
  <2>3. others = {}
    BY <2>2 DEF Inv, Company
  <2>4. s = [r EXCEPT !.mixed = FALSE]
    BY <2>3
  <2>5. Doing(s)'
    BY <2>2, <2>4
  <2> QED BY <1>4, <2>1, <2>5
<1>8. Firm'
  BY <1>2, <1>4, FirmGrows DEF At
<1> QED BY <1>5, <1>6, <1>7, <1>8 DEF Inv

LEMMA OpenConfigInv == ASSUME Inv, NEW a \in Actors, OpenConfig(a) PROVE Inv'
<1> PICK old : old = act[a]
  OBVIOUS
<1> PICK r : r = [old EXCEPT !.pc = "write"]
  OBVIOUS
<1> PICK others : others = {b \in Actors \ {a} : At(b, "write")}
  OBVIOUS
<1>1. /\ At(a, "open") /\ config' = Torn /\ Opens(a, r, others)
      /\ UNCHANGED <<head, files, host, overlapped>>
  BY DEF OpenConfig
<1>2. /\ old.pc = "open" /\ ~IsOff(a) /\ RunTyped(old) /\ old \in Runs
      /\ old.catalog # Torn /\ (old.alone => Wants(old))
      /\ Files /\ Container'
  BY <1>1, RunIs, ContainerStays DEF At, IsOff, RunTyped, Doing
<1>3. r \in Runs
  BY <1>2, Zenon DEF Runs, Stages
<1>4. /\ r.pc = "write" /\ r.alone = old.alone /\ r.request = old.request
      /\ r.catalog = old.catalog
  BY <1>2 DEF Runs
<1>5. RunTyped(r)
  BY <1>2, <1>3, <1>4, EarlyTyped
<1>6. Files'
  BY <1>1, <1>2 DEF Files, files
<1>7. r.alone => Doing([r EXCEPT !.mixed = FALSE])'
  <2> SUFFICES ASSUME r.alone PROVE Doing([r EXCEPT !.mixed = FALSE])'
    OBVIOUS
  <2> PICK s : s = [r EXCEPT !.mixed = FALSE]
    OBVIOUS
  <2>1. /\ s.pc = "write" /\ ~s.mixed /\ s.request = r.request /\ s.catalog = r.catalog
    BY <1>4, <1>5, MixedOrNot
  <2>2. Granted(s, s.catalog)
    BY <1>2, <1>4, <2>1 DEF Wants, Granted
  <2>3. Wants(s)'
    BY <2>1, <2>2, StageIs DEF Wants, Granted
  <2> QED BY <2>1, <2>3, StageIs, EarlyDoing
<1>8. \A b \in others : b \in Actors /\ b # a /\ ~IsOff(b)
  BY DEF At, IsOff
<1>9. UNCHANGED <<tree, confs, loaded, bins, overlapped>>
  BY <1>1 DEF files, host
<1> QED BY <1>1, <1>2, <1>4, <1>5, <1>6, <1>7, <1>8, <1>9, OpensInv

LEMMA WriteConfigInv == ASSUME Inv, NEW a \in Actors, WriteConfig(a) PROVE Inv'
<1> PICK old : old = act[a]
  OBVIOUS
<1> PICK r : r = [old EXCEPT !.pc = "commit"]
  OBVIOUS
<1>1. /\ old.pc = "write" /\ ~IsOff(a) /\ RunTyped(old) /\ old \in Runs
      /\ old.catalog # Torn /\ (old.alone => Wants(old))
      /\ UNCHANGED <<head, files, host, overlapped>>
      /\ UNCHANGED <<tree, confs, loaded, bins, overlapped>>
      /\ Files /\ Container'
  BY RunIs, ContainerStays DEF WriteConfig, At, IsOff, RunTyped, Doing, files, host
<1>2. Go(a, r) /\ config' \in {old.catalog, Torn} /\ (~old.mixed => config' = old.catalog)
  BY DEF WriteConfig
<1>3. r \in Runs
  BY <1>1, Zenon DEF Runs, Stages
<1>4. r.pc = "commit" /\ r.alone = old.alone /\ r.request = old.request /\ r.catalog = old.catalog
  BY <1>1 DEF Runs
<1>5. RunTyped(r)
  BY <1>1, <1>3, <1>4, EarlyTyped
<1>6. Files'
  BY <1>1, <1>2 DEF Files, files, Runs
<1>7. r.alone => config' = r.catalog /\ Granted(r, config')
  BY <1>1, <1>2, <1>4 DEF Wants, Granted
<1>8. r.alone => Wants(r)'
  BY <1>4, <1>7, StageIs DEF Wants, Granted
<1>9. r.alone => Doing(r)'
  BY <1>4, <1>8, StageIs, EarlyDoing
<1>10. Firm'
  BY <1>1, <1>2, <1>4, FirmStays DEF Inv
<1> QED BY <1>1, <1>2, <1>4, <1>5, <1>6, <1>9, <1>10, GoesOn

LEMMA CommitInv == ASSUME Inv, NEW a \in Actors, Commit(a) PROVE Inv'
<1> PICK old : old = act[a]
  OBVIOUS
<1> PICK r : r = [old EXCEPT !.pc = "catalog"]
  OBVIOUS
<1>1. /\ old.pc = "commit" /\ ~IsOff(a) /\ RunTyped(old) /\ old \in Runs
      /\ old.alone => Wants(old)
      /\ UNCHANGED <<config, files, host, overlapped>>
      /\ UNCHANGED <<tree, confs, loaded, bins, overlapped>>
      /\ Files /\ Container'
  BY RunIs, ContainerStays DEF Commit, At, IsOff, RunTyped, Doing, files, host
<1>2. Files'
  BY <1>1 DEF Files, files, Commit
<1>3. CASE Throw(a)
  BY <1>1, <1>2, <1>3, Throws
<1>4. CASE Go(a, r)
  <2>1. r \in Runs
    BY <1>1, Zenon DEF Runs, Stages
  <2>2. r.pc = "catalog" /\ r.alone = old.alone /\ r.request = old.request
    BY <1>1 DEF Runs
  <2>3. RunTyped(r)
    BY <2>1, <2>2, EarlyTyped
  <2>4. r.alone /\ config # Torn => Granted(r, config)
    BY <1>1, <2>2, StageIs DEF Wants, Granted
  <2>5. r.alone => Wants(r)'
    BY <1>1, <2>2, <2>4, StageIs DEF Wants, Granted
  <2>6. r.alone => Doing(r)'
    BY <2>2, <2>5, StageIs, EarlyDoing
  <2>7. Firm'
    BY <1>1, <1>4, <2>2, FirmStays DEF Inv
  <2> QED BY <1>1, <1>2, <1>4, <2>2, <2>3, <2>6, <2>7, GoesOn
<1> QED BY <1>3, <1>4 DEF Commit

-----------------------------------------------------------------------------
(* Applying it: the plan and the installation.                             *)

LEMMA ReadCatalogInv == ASSUME Inv, NEW a \in Actors, ReadCatalog(a) PROVE Inv'
<1> PICK old : old = act[a]
  OBVIOUS
<1>1. /\ old.pc = "catalog" /\ ~IsOff(a) /\ RunTyped(old) /\ old \in Runs
      /\ (old.alone => Wants(old))
      /\ UNCHANGED <<config, head, files, host, overlapped>>
      /\ UNCHANGED <<tree, confs, loaded, bins, overlapped>>
      /\ Files /\ Files' /\ Container'
  BY RunIs, FilesStay, ContainerStays DEF ReadCatalog, At, IsOff, RunTyped, Doing, files, host
<1>2. CASE Throw(a)
  BY <1>1, <1>2, Throws
<1>3. CASE config # Torn /\ Go(a, [old EXCEPT !.pc = "plan", !.catalog = config])
  <2> PICK r : r = [old EXCEPT !.pc = "plan", !.catalog = config]
    OBVIOUS
  <2>1. config \in Configs
    BY <1>1, <1>3 DEF Files
  <2>2. r \in Runs
    BY <1>1, <2>1, Zenon DEF Runs, Stages
  <2>3. /\ r.pc = "plan" /\ r.catalog = config /\ r.alone = old.alone
        /\ r.request = old.request
    BY <1>1 DEF Runs
  <2>4. RunTyped(r)
    BY <1>3, <2>2, <2>3, EarlyTyped
  <2>5. r.alone => Granted(r, config)
    BY <1>1, <1>3, <2>3, StageIs DEF Wants, Granted
  <2>6. r.alone => Wants(r)'
    BY <1>1, <2>3, <2>5 DEF Wants, Granted
  <2>7. r.alone => Doing(r)'
    BY <2>3, <2>6, StageIs, EarlyDoing
  <2>8. Firm'
    BY <1>1, <1>3, <2>3, FirmStays DEF Inv
  <2> QED BY <1>1, <1>3, <2>3, <2>4, <2>7, <2>8, GoesOn
<1> QED BY <1>2, <1>3 DEF ReadCatalog

LEMMA Apart ==
  /\ "tool" \in Installing
  /\ \A pc \in Planned : pc \notin {"set", "dry", "open", "write", "commit", "catalog"}
  /\ \A pc \in Later : pc \notin Installing /\ pc \in Planned
  /\ \A pc \in Installing :
       pc \in Planned /\ pc \notin Later /\ pc \notin Linking /\ pc \notin Written
BY DEF Planned, Installing, Later, Linking, Written

\* What a run wants stays granted from the plan on.
LEMMA WantsOn ==
  ASSUME NEW old, NEW r, Wants(old), old.pc \in Planned, r.pc \in Planned,
         r.catalog = old.catalog, r.request = old.request, UNCHANGED config
  PROVE  Wants(r)'
<1>1. r.pc \notin {"set", "dry", "open", "write", "commit", "catalog"}
  BY Apart
<1>2. config = old.catalog /\ (config # Torn => Granted(old, config))
  BY DEF Wants
<1>3. config # Torn => Granted(r, config)
  BY <1>2 DEF Granted
<1>4. (config # Torn => Granted(r, config))'
  BY <1>3 DEF Granted
<1> QED BY <1>1, <1>2, <1>4 DEF Wants

\* And what has been installed, stays so.
LEMMA InstallsOn ==
  ASSUME NEW old, NEW r, Installs(old), old.pc \in Later, r.pc \in Later,
         r.catalog = old.catalog, UNCHANGED tree
  PROVE  Installs(r)'
<1>1. r.pc \notin Installing /\ r.pc # "tool"
  BY Apart
<1>2. \A p \in DOMAIN Enabled(old.catalog) : Good(p, Enabled(old.catalog)[p])
  BY DEF Installs
<1>3. \A p \in DOMAIN Enabled(r.catalog) : Good(p, Enabled(r.catalog)[p])'
  BY <1>2 DEF Good
<1> QED BY <1>1, <1>3 DEF Installs

LEMMA PlanInv == ASSUME Inv, NEW a \in Actors, Plan(a) PROVE Inv'
<1> PICK old : old = act[a]
  OBVIOUS
<1> PICK r : r = [old EXCEPT !.pc = "install", !.seen = confs, !.routes = caddy,
                             !.todo = DOMAIN Enabled(old.catalog)]
  OBVIOUS
<1>1. /\ old.pc = "plan" /\ ~IsOff(a) /\ RunTyped(old) /\ old \in Runs
      /\ (old.alone => Wants(old)) /\ Go(a, r)
      /\ UNCHANGED <<config, head, files, host, overlapped>>
      /\ UNCHANGED <<tree, confs, caddy, loaded, bins, overlapped>>
      /\ Files /\ Files' /\ Container'
  BY RunIs, FilesStay, ContainerStays DEF Plan, At, IsOff, RunTyped, Doing, files, host
<1>2. old.catalog \in Configs /\ old.catalog # Torn
  BY <1>1 DEF RunTyped, Runs, Planned
<1>3. DOMAIN Enabled(old.catalog) \in SUBSET Plugins
  BY <1>2, EnabledIs, PartialIs
<1>4. confs \in Partial(Plugins) /\ caddy \in Partial(Exposed)
  BY <1>1 DEF Files
<1>5. r \in Runs
  BY <1>1, <1>3, <1>4, Zenon DEF Runs, Stages
<1>6. /\ r.pc = "install" /\ r.seen = confs /\ r.routes = caddy /\ r.alone = old.alone
      /\ r.todo = DOMAIN Enabled(old.catalog) /\ r.catalog = old.catalog
      /\ r.request = old.request
  BY <1>1 DEF Runs
<1>7. RunTyped(r)
  BY <1>2, <1>5, <1>6 DEF RunTyped, Planned, Installing, Later, Linking, Written
<1>8. r.alone => Doing(r)'
  <2> SUFFICES ASSUME r.alone PROVE Doing(r)'
    OBVIOUS
  <2>1. Wants(r)'
    BY <1>1, <1>6, WantsOn DEF Planned, Installing
  <2>2. Installs(r)'
    BY <1>6 DEF Installs, Later, Linking, Written
  <2>3. Applies(r)'
    BY <1>1, <1>6 DEF Applies, Linking, Written
  <2> QED BY <2>1, <2>2, <2>3 DEF Doing
<1>9. Firm'
  BY <1>1, <1>6, FirmStays DEF Inv
<1> QED BY <1>1, <1>6, <1>7, <1>8, <1>9, GoesOn

\* What a run keeps from the plan on, and its next stage.
Kept(r, old) ==
    /\ r.catalog = old.catalog /\ r.request = old.request /\ r.alone = old.alone
    /\ r.seen = old.seen /\ r.routes = old.routes

LEMMA NextStage ==
  ASSUME NEW old \in Runs, NEW pc \in Stages, NEW r, r = [old EXCEPT !.pc = pc]
  PROVE  r \in Runs /\ Kept(r, old) /\ r.pc = pc /\ r.todo = old.todo
<1>1. r \in Runs
  BY Zenon DEF Runs
<1> QED BY <1>1 DEF Kept, Runs

Moved(r, pc, todo) == [r EXCEPT !.pc = pc, !.todo = todo]

LEMMA NextStageWith ==
  ASSUME NEW old \in Runs, NEW pc \in Stages, NEW todo \in SUBSET Plugins,
         NEW r, r = Moved(old, pc, todo)
  PROVE  r \in Runs /\ Kept(r, old) /\ r.pc = pc /\ r.todo = todo
<1>1. r \in Runs
  BY Zenon DEF Runs, Moved
<1> QED BY <1>1 DEF Kept, Runs, Moved

LEMMA InHand ==
  ASSUME Inv, NEW a \in Actors, act[a].pc \in Installing, act[a].todo # {}
  PROVE  /\ Current(a) \in act[a].todo /\ act[a].todo \in SUBSET Plugins
         /\ Current(a) \in DOMAIN Enabled(act[a].catalog)
         /\ Artifact(a) \in Artifacts
         /\ Artifact(a) = <<Current(a), Enabled(act[a].catalog)[Current(a)]>>
         /\ \A p \in DOMAIN Enabled(act[a].catalog) :
              <<p, Enabled(act[a].catalog)[p]>> \in Artifacts
<1>1. /\ act[a].catalog \in Configs /\ act[a].todo \in SUBSET Plugins
      /\ act[a].todo \subseteq DOMAIN Enabled(act[a].catalog)
  BY RunIs DEF RunTyped, Runs, Planned
<1>2. Current(a) \in act[a].todo
  BY <1>1, LeastPlugin DEF Current
<1> QED BY <1>1, <1>2, EnabledIs DEF Artifact

\* What is not to be installed any more is there.
Furnished(r) ==
    LET wanted == Enabled(r.catalog) IN \A p \in DOMAIN wanted \ r.todo : Good(p, wanted[p])

\* A run installs on.
InstallsOnward(r, old) ==
    /\ r \in Runs /\ Kept(r, old)
    /\ old.pc \in Installing /\ r.pc \in Installing
    /\ r.todo \subseteq old.todo
    /\ r.pc # "install" => r.todo # {}

LEMMA StillTyped ==
  ASSUME NEW old, NEW r, RunTyped(old), InstallsOnward(r, old),
         r.pc = "tool" => Min(r.todo) \notin Assets
  PROVE  RunTyped(r)
<1>1. /\ r \in Runs /\ old.pc \in Installing /\ r.pc \in Installing
      /\ r.todo \subseteq old.todo /\ r.catalog = old.catalog
  BY DEF InstallsOnward, Kept
<1>2. r.pc # "install" => r.todo # {}
  BY DEF InstallsOnward
<1>3. old.pc \in Planned /\ r.pc \notin Linking
  BY <1>1, Apart, Zenon
<1>4. old.catalog # Torn /\ old.todo \subseteq DOMAIN Enabled(old.catalog)
  BY <1>1, <1>3 DEF RunTyped
<1>5. r.pc # "set"
  BY <1>1 DEF Installing
<1> QED BY <1>1, <1>2, <1>3, <1>4, <1>5 DEF RunTyped

LEMMA StillInstalling ==
  ASSUME Inv, NEW a \in Actors, NEW r, Go(a, r), InstallsOnward(r, act[a]), r.pc # "tool",
         act[a].alone => Furnished(r)',
         UNCHANGED <<config, confs, caddy, overlapped>>, Files', Container', Firm'
  PROVE  Inv'
<1> PICK old : old = act[a]
  OBVIOUS
<1>1. RunTyped(old) /\ (old.alone => Doing(old))
  BY RunIs
<1>2. /\ old.pc \in Installing /\ r.pc \in Installing /\ Kept(r, old)
  BY DEF InstallsOnward
<1>3. /\ old.pc \in Planned /\ r.pc \in Planned
      /\ r.pc \notin Linking /\ r.pc \notin Written /\ r.pc \notin Later
  BY <1>2, Apart, Zenon
<1>4. ~IsOff(a) /\ r.pc # "writing" /\ r.pc # "caddy" /\ r.pc # "done"
  BY <1>2 DEF IsOff, Installing
<1>5. RunTyped(r)
  BY <1>1, StillTyped
<1>6. ASSUME r.alone PROVE Doing(r)'
  <2>1. old.alone /\ Doing(old)
    BY <1>1, <1>2, <1>6 DEF Kept
  <2>2. Wants(r)'
    BY <1>2, <1>3, <2>1, WantsOn DEF Doing, Kept
  <2>3. Furnished(r)'
    BY <2>1
  <2>4. Installs(r)'
    BY <1>3, <2>3 DEF Installs, Furnished
  <2>5. confs = r.seen /\ caddy = r.routes
    BY <1>2, <2>1 DEF Doing, Applies, Kept
  <2>6. Applies(r)'
    BY <1>3, <1>4, <2>5 DEF Applies, Written
  <2> QED BY <2>2, <2>4, <2>6 DEF Doing
<1>7. r.alone = act[a].alone
  BY <1>2 DEF Kept
<1> QED BY <1>4, <1>5, <1>6, <1>7, GoesOn

\* Nothing changes but the cache, or what a program is doing.
LEMMA StaysInv ==
  ASSUME Inv, Files', Container',
         UNCHANGED <<act, config, tree, bins, confs, caddy, loaded, live, overlapped>>
  PROVE  Inv'
<1>1. Typed'
  BY DEF Inv, Typed
<1>2. Company'
  BY DEF Inv, Company, IsOff
<1>3. Alone'
  <2> SUFFICES ASSUME NEW a \in Actors, act[a].alone PROVE Doing(act[a])'
    BY DEF Alone
  <2> PICK r : r = act[a]
    OBVIOUS
  <2>1. Wants(r) /\ Installs(r) /\ Applies(r)
    BY DEF Inv, Alone, Doing
  <2>2. Wants(r)'
    BY <2>1 DEF Wants, Granted
  <2>3. Installs(r)'
    BY <2>1 DEF Installs, Good
  <2>4. Applies(r)'
    BY <2>1 DEF Applies, Agree
  <2>5. Doing(r)'
    BY <2>2, <2>3, <2>4 DEF Doing
  <2> QED BY <2>5
<1>4. Firm'
  BY DEF Inv, Firm, Used, Good, At, Artifact, Current
<1> QED BY <1>1, <1>2, <1>3, <1>4 DEF Inv

\* A run that installs goes on to the next stage with what it has in hand.
LEMMA OnwardInv ==
  ASSUME Inv, NEW a \in Actors, NEW old, old = act[a], NEW pc \in {"extract", "empty", "copy"},
         NEW r, r = [old EXCEPT !.pc = pc], Go(a, r),
         old.pc \in Installing, old.todo # {},
         UNCHANGED <<config, confs, caddy, overlapped>>, Files', Container', Firm',
         old.alone => Furnished(old)'
  PROVE  Inv'
<1>1. old \in Runs
  BY RunIs DEF RunTyped
<1>2. pc \in Stages /\ pc \in Installing
  BY DEF Installing, Stages
<1>3. r \in Runs /\ Kept(r, old) /\ r.pc = pc /\ r.todo = old.todo
  BY <1>1, <1>2, NextStage
<1>4. InstallsOnward(r, old)
  BY <1>2, <1>3 DEF InstallsOnward
<1>5. old.alone => Furnished(r)'
  BY <1>3 DEF Furnished, Kept
<1> QED BY <1>3, <1>4, <1>5, StillInstalling

\* What a run on its own has installed.
LEMMA FurnishedIs ==
  ASSUME Inv, NEW a \in Actors, NEW old, old = act[a], old.pc \in Installing, old.alone
  PROVE  Furnished(old)
BY RunIs DEF Doing, Installs, Furnished

LEMMA FetchAssetInv == ASSUME Inv, NEW a \in Actors, FetchAsset(a) PROVE Inv'
<1> PICK old : old = act[a]
  OBVIOUS
<1>1. /\ old.pc = "install" /\ old.todo # {} /\ Files /\ Container
      /\ UNCHANGED <<config, head, tree, bins, confs, caddy, host, overlapped>>
  BY RunIs DEF FetchAsset, At
<1>2. old.pc \in Installing /\ ~IsOff(a)
  BY <1>1 DEF Installing, IsOff
<1>3. Artifact(a) \in Artifacts
  BY <1>1, <1>2, InHand
<1>4. cache' \in [Artifacts -> {"none", "good", "bad"}]
  BY <1>1, <1>3 DEF FetchAsset, CacheHit, QuarantineBadCacheFile, DownloadVerifiedArtifact, Files
<1>5. Files' /\ Container'
  BY <1>1, <1>4, ContainerStays DEF Files
<1>6. CASE QuarantineBadCacheFile(a)
  BY <1>1, <1>5, <1>6, StaysInv DEF QuarantineBadCacheFile, host
<1>7. CASE CacheHit(a) \/ DownloadVerifiedArtifact(a)
  <2> PICK r : r = [old EXCEPT !.pc = "extract"]
    OBVIOUS
  <2>1. Go(a, r)
    BY <1>7 DEF CacheHit, DownloadVerifiedArtifact
  <2>2. old \in Runs /\ "extract" \in Stages
    BY RunIs DEF RunTyped, Stages
  <2>3. r.pc = "extract"
    BY <2>2, NextStage
  <2>4. Firm'
    BY <1>1, <2>1, <2>3, FirmStays DEF Inv, host
  <2>5. old.alone => Furnished(old)'
    BY <1>1, <1>2, FurnishedIs DEF Furnished, Good
  <2> QED BY <1>1, <1>2, <1>5, <2>1, <2>4, <2>5, OnwardInv
<1> QED BY <1>6, <1>7 DEF FetchAsset

LEMMA EmptyFilesInv == ASSUME Inv, NEW a \in Actors, EmptyFiles(a) PROVE Inv'
<1> PICK old : old = act[a]
  OBVIOUS
<1> PICK x : x = Artifact(a)
  OBVIOUS
<1> PICK r : r = [old EXCEPT !.pc = "copy"]
  OBVIOUS
<1>1. /\ old.pc = "empty" /\ Files /\ Container /\ RunTyped(old) /\ old \in Runs
      /\ UNCHANGED <<config, head, cache, bins, confs, caddy, host, overlapped>>
      /\ tree' = [tree EXCEPT ![x] = Torn] /\ Go(a, r)
  BY RunIs DEF EmptyFiles, At, RunTyped
<1>2. old.pc \in Installing /\ ~IsOff(a) /\ old.todo # {}
  BY <1>1 DEF Installing, IsOff, RunTyped
<1>3. /\ x \in Artifacts /\ Current(a) \in old.todo
      /\ x = <<Current(a), Enabled(old.catalog)[Current(a)]>>
      /\ \A p \in DOMAIN Enabled(old.catalog) : <<p, Enabled(old.catalog)[p]>> \in Artifacts
  BY <1>2, InHand
<1>4. /\ tree' \in [Artifacts -> {"none", "good", Torn}]
      /\ \A y \in Artifacts : y # x /\ tree[y] = "good" => tree'[y] = "good"
  BY <1>1 DEF Files
<1>5. Files' /\ Container'
  BY <1>1, <1>4, ContainerStays DEF Files
<1>6. "copy" \in Stages
  BY DEF Stages
<1>7. r.pc = "copy"
  BY <1>1, <1>6, NextStage
<1>8. Firm'
  <2> SUFFICES ASSUME ~overlapped PROVE Firm'
    BY <1>1 DEF Firm
  <2>1. /\ Lasting(x) => tree[x] # "good"
        /\ Used(confs) /\ Used(loaded) /\ Used(bins)
    BY <1>1, RunIs DEF Firm, At
  <2>2. Used(confs)' /\ Used(loaded)' /\ Used(bins)'
    BY <1>1, <1>4, <2>1, InArtifacts DEF Used, Good, host
  <2>3. act'[a] = r /\ \A b \in Actors : b # a => act'[b] = act[b] /\ IsOff(b)
    BY <1>1, <1>2 DEF Go, Inv, Typed, Company
  <2>4. \A b \in Actors : ~At(b, "empty")'
    BY <1>7, <2>3 DEF At, IsOff
  <2> QED BY <2>2, <2>4 DEF Firm
<1>9. old.alone => Furnished(old)'
  <2> SUFFICES ASSUME old.alone PROVE Furnished(old)'
    OBVIOUS
  <2>1. \A p \in DOMAIN Enabled(old.catalog) \ old.todo : tree[<<p, Enabled(old.catalog)[p]>>] = "good"
    BY <1>2, FurnishedIs DEF Furnished, Good
  <2>2. \A p \in DOMAIN Enabled(old.catalog) \ old.todo : <<p, Enabled(old.catalog)[p]>> # x
    BY <1>3
  <2>3. \A p \in DOMAIN Enabled(old.catalog) \ old.todo : tree'[<<p, Enabled(old.catalog)[p]>>] = "good"
    BY <1>3, <1>4, <2>1, <2>2
  <2> QED BY <2>3 DEF Furnished, Good
<1> QED BY <1>1, <1>2, <1>5, <1>8, <1>9, OnwardInv

\* A run has installed the plugin that it had in hand.
LEMMA InstalledInv ==
  ASSUME Inv, NEW a \in Actors, NEW old, old = act[a], old.pc \in Installing, old.todo # {},
         NEW r, r = Installed(a), Go(a, r),
         UNCHANGED <<config, head, cache, bins, confs, caddy, host, overlapped>>,
         tree' \in [Artifacts -> {"none", "good", Torn}],
         old.alone => tree'[Artifact(a)] = "good",
         \A x \in Artifacts : tree[x] = "good" /\ (Lasting(x) \/ x[1] # Current(a))
                             => tree'[x] = "good"
  PROVE  Inv'
<1>1. old \in Runs /\ Files /\ Container /\ ~IsOff(a)
  BY RunIs DEF RunTyped, IsOff, Installing
<1>2. /\ Current(a) \in old.todo /\ old.todo \in SUBSET Plugins
      /\ Artifact(a) = <<Current(a), Enabled(old.catalog)[Current(a)]>>
      /\ \A p \in DOMAIN Enabled(old.catalog) : <<p, Enabled(old.catalog)[p]>> \in Artifacts
  BY InHand
<1> PICK todo : todo = old.todo \ {Current(a)}
  OBVIOUS
<1>3. todo \in SUBSET Plugins /\ "install" \in Stages /\ "install" \in Installing
  BY <1>2 DEF Stages, Installing
<1>4. r = Moved(old, "install", todo)
  BY DEF Installed, Moved
<1>5. r \in Runs /\ Kept(r, old) /\ r.pc = "install" /\ r.todo = todo
  BY <1>1, <1>3, <1>4, NextStageWith
<1>6. InstallsOnward(r, old)
  BY <1>3, <1>5 DEF InstallsOnward
<1>7. Files' /\ Container'
  BY <1>1, ContainerStays DEF Files
<1>8. UNCHANGED <<confs, loaded, bins, overlapped>> /\ r.pc # "empty"
  BY <1>5 DEF host
<1>9. Firm'
  <2>1. act'[a] = r /\ \A b \in Actors : b # a => act'[b] = act[b]
    BY DEF Go, Inv, Typed
  <2> QED BY <1>1, <1>8, <2>1, FirmGrows DEF At
<1>10. ASSUME old.alone PROVE Furnished(r)'
  <2>1. \A p \in DOMAIN Enabled(old.catalog) \ old.todo : tree[<<p, Enabled(old.catalog)[p]>>] = "good"
    BY <1>10, FurnishedIs DEF Furnished, Good
  <2>2. ASSUME NEW p \in DOMAIN Enabled(old.catalog) \ todo
        PROVE  tree'[<<p, Enabled(old.catalog)[p]>>] = "good"
    <3>1. CASE p = Current(a)
      BY <1>2, <1>10, <3>1
    <3>2. CASE p # Current(a)
      <4>1. <<p, Enabled(old.catalog)[p]>>[1] # Current(a)
        BY <3>2
      <4>2. <<p, Enabled(old.catalog)[p]>> \in Artifacts
        BY <1>2, <2>2
      <4> QED BY <1>2, <2>1, <2>2, <3>2, <4>1, <4>2
    <3> QED BY <3>1, <3>2
  <2> QED BY <1>5, <2>2 DEF Furnished, Good, Kept
<1> QED BY <1>5, <1>6, <1>7, <1>9, <1>10, StillInstalling

LEMMA CompareInv == ASSUME Inv, NEW a \in Actors, Compare(a) PROVE Inv'
<1> PICK old : old = act[a]
  OBVIOUS
<1>1. /\ old.pc = "extract" /\ Files /\ Container /\ RunTyped(old) /\ old \in Runs
      /\ UNCHANGED <<config, head, files, host, overlapped>>
      /\ UNCHANGED <<config, head, cache, tree, bins, confs, caddy, host, overlapped>>
  BY RunIs DEF Compare, At, RunTyped, files
<1>2. old.pc \in Installing /\ ~IsOff(a) /\ old.todo # {}
  BY <1>1 DEF Installing, IsOff, RunTyped
<1>3. Files' /\ Container'
  BY <1>1, FilesStay, ContainerStays
<1>4. CASE tree[Artifact(a)] = "good" /\ Go(a, Installed(a))
  BY <1>1, <1>2, <1>4, InstalledInv DEF Files
<1>5. CASE /\ tree[Artifact(a)] # "good" \/ ~Lasting(Artifact(a))
           /\ Go(a, [old EXCEPT !.pc = "empty"])
  <2> PICK r : r = [old EXCEPT !.pc = "empty"]
    OBVIOUS
  <2>1. "empty" \in Stages
    BY DEF Stages
  <2>2. r.todo = old.todo /\ r.catalog = old.catalog
    BY <1>1, <2>1, NextStage DEF Kept
  <2>3. Firm'
    <3> SUFFICES ASSUME ~overlapped PROVE Firm'
      BY <1>1 DEF Firm
    <3>1. act'[a] = r /\ \A b \in Actors : b # a => act'[b] = act[b]
      BY <1>5 DEF Go, Inv, Typed
    <3>2. Used(confs)' /\ Used(loaded)' /\ Used(bins)'
      BY <1>1, RunIs DEF Firm, Used, Good, host
    <3>3. Artifact(a)' = Artifact(a)
      BY <2>2, <3>1 DEF Artifact, Current
    <3>4. \A b \in Actors : b # a => At(b, "empty")' = At(b, "empty") /\ Artifact(b)' = Artifact(b)
      BY <3>1 DEF At, Artifact, Current
    <3>5. ASSUME NEW b \in Actors, At(b, "empty")', Lasting(Artifact(b)')
          PROVE  tree[Artifact(b)'] # "good"
      <4>1. CASE b = a
        <5>1. Lasting(Artifact(a))
          BY <3>3, <3>5, <4>1
        <5> QED BY <1>5, <3>3, <4>1, <5>1
      <4>2. CASE b # a
        BY <3>4, <3>5, <4>2, RunIs DEF Firm
      <4> QED BY <4>1, <4>2
    <3> QED BY <1>1, <3>2, <3>5 DEF Firm
  <2>4. old.alone => Furnished(old)'
    BY <1>1, <1>2, FurnishedIs DEF Furnished, Good
  <2> QED BY <1>1, <1>2, <1>3, <1>5, <2>3, <2>4, OnwardInv
<1> QED BY <1>4, <1>5 DEF Compare, NeedsCopy, Lasting

LEMMA CopyFilesInv == ASSUME Inv, NEW a \in Actors, CopyFiles(a) PROVE Inv'
<1> PICK old : old = act[a]
  OBVIOUS
<1>1. /\ old.pc = "copy" /\ Files /\ RunTyped(old)
      /\ UNCHANGED <<config, head, cache, bins, confs, caddy, host, overlapped>>
      /\ tree' = [tree EXCEPT ![Artifact(a)] = "good"] /\ Go(a, Installed(a))
  BY RunIs DEF CopyFiles, At
<1>2. old.pc \in Installing /\ old.todo # {}
  BY <1>1 DEF Installing, RunTyped
<1>3. Artifact(a) \in Artifacts
  BY <1>2, InHand
<1>4. /\ tree' \in [Artifacts -> {"none", "good", Torn}] /\ tree'[Artifact(a)] = "good"
      /\ \A x \in Artifacts : tree[x] = "good" => tree'[x] = "good"
  BY <1>1, <1>3 DEF Files
<1> QED BY <1>1, <1>2, <1>4, InstalledInv

\* The artifacts of a plugin that is no asset are replaced where they are.
LEMMA ToolIs ==
  ASSUME NEW x \in Artifacts, x[1] \notin Assets
  PROVE  ~Lasting(x)
BY DEF Lasting

LEMMA StartToolInv == ASSUME Inv, NEW a \in Actors, StartTool(a) PROVE Inv'
<1> PICK old : old = act[a]
  OBVIOUS
<1> PICK others : others = {b \in Actors \ {a} : At(b, "tool") /\ Current(b) = Current(a)}
  OBVIOUS
<1>1. /\ old.pc = "install" /\ old.todo # {} /\ Files /\ Container
      /\ RunTyped(old) /\ old \in Runs
      /\ Current(a) \notin Assets
      /\ UNCHANGED <<config, head, cache, bins, confs, caddy, host, overlapped>>
  BY RunIs DEF StartTool, At, RunTyped
<1>2. old.pc \in Installing /\ ~IsOff(a)
  BY <1>1 DEF Installing, IsOff
<1>3. /\ Artifact(a) \in Artifacts /\ Current(a) \in old.todo
      /\ \A p \in DOMAIN Enabled(old.catalog) : <<p, Enabled(old.catalog)[p]>> \in Artifacts
  BY <1>1, <1>2, InHand
<1>4. CASE tree[Artifact(a)] = "good" /\ Go(a, Installed(a)) /\ UNCHANGED tree
  BY <1>1, <1>2, <1>4, InstalledInv DEF Files
<1>5. CASE /\ Opens(a, [old EXCEPT !.pc = "tool"], others)
           /\ tree' = [x \in Artifacts |-> IF x[1] = Current(a) THEN Torn ELSE tree[x]]
  <2> PICK r : r = [old EXCEPT !.pc = "tool"]
    OBVIOUS
  <2>1. "tool" \in Stages
    BY DEF Stages
  <2>2. r \in Runs /\ Kept(r, old) /\ r.pc = "tool" /\ r.todo = old.todo
    BY <1>1, <2>1, NextStage
  <2>3. InstallsOnward(r, old)
    BY <1>1, <1>2, <2>2, Apart DEF InstallsOnward
  <2>4. RunTyped(r)
    BY <1>1, <2>2, <2>3, StillTyped DEF Current
  <2>5. /\ tree' \in [Artifacts -> {"none", "good", Torn}]
        /\ \A x \in Artifacts : x[1] # Current(a) => tree'[x] = tree[x]
    BY <1>1, <1>5 DEF Files
  <2>6. \A x \in Artifacts : Lasting(x) /\ tree[x] = "good" => tree'[x] = "good"
    BY <1>1, <2>5, ToolIs
  <2>7. Files' /\ Container'
    BY <1>1, <2>5, ContainerStays DEF Files
  <2>8. r.alone => Doing([r EXCEPT !.mixed = FALSE])'
    <3> SUFFICES ASSUME r.alone PROVE Doing([r EXCEPT !.mixed = FALSE])'
      OBVIOUS
    <3> PICK s : s = [r EXCEPT !.mixed = FALSE]
      OBVIOUS
    <3>1. s.pc = "tool" /\ ~s.mixed /\ s.todo = old.todo /\ Kept(s, old)
      BY <2>2, <2>4, MixedOrNot DEF Kept
    <3>2. old.alone /\ Doing(old)
      BY <2>2, RunIs DEF Kept
    <3>3. /\ s.pc \in Planned /\ old.pc \in Planned /\ s.pc \notin Later
          /\ s.pc \notin Linking /\ s.pc \notin Written
      BY <1>2, <3>1, Apart
    <3>4. Wants(s)'
      BY <1>1, <3>1, <3>2, <3>3, WantsOn DEF Doing, Kept
    <3>5. \A p \in DOMAIN Enabled(old.catalog) \ old.todo : Good(p, Enabled(old.catalog)[p])
      BY <1>2, <3>2, FurnishedIs DEF Furnished
    <3>6. ASSUME NEW p \in DOMAIN Enabled(old.catalog) \ old.todo
          PROVE  Good(p, Enabled(old.catalog)[p])'
      <4> PICK x : x = <<p, Enabled(old.catalog)[p]>>
        OBVIOUS
      <4>1. x \in Artifacts /\ x[1] # Current(a) /\ tree[x] = "good"
        BY <1>3, <3>5, <3>6 DEF Good
      <4>2. tree'[x] = "good"
        BY <2>5, <4>1
      <4> QED BY <4>2 DEF Good
    <3>7. Installs(s)'
      BY <3>1, <3>3, <3>6 DEF Installs, Kept
    <3>8. confs = s.seen /\ caddy = s.routes
      BY <1>2, <3>1, <3>2 DEF Doing, Applies, Kept
    <3>9. Applies(s)'
      BY <1>1, <3>1, <3>3, <3>8 DEF Applies, Written
    <3> QED BY <3>4, <3>7, <3>9 DEF Doing
  <2>9. \A b \in others : b \in Actors /\ b # a /\ ~IsOff(b)
    BY DEF At, IsOff
  <2>10. UNCHANGED <<confs, loaded, bins, overlapped>> /\ r.alone = old.alone
    BY <1>1, <2>2 DEF host, Kept
  <2> QED BY <1>2, <1>5, <2>2, <2>4, <2>6, <2>7, <2>8, <2>9, <2>10, OpensInv
<1> QED BY <1>4, <1>5 DEF StartTool

LEMMA FinishToolInv == ASSUME Inv, NEW a \in Actors, FinishTool(a) PROVE Inv'
<1> PICK old : old = act[a]
  OBVIOUS
<1> PICK x : x = Artifact(a)
  OBVIOUS
<1>1. /\ old.pc = "tool" /\ Files /\ RunTyped(old) /\ (old.alone => Doing(old))
      /\ UNCHANGED <<config, head, cache, bins, confs, caddy, host, overlapped>>
      /\ Go(a, Installed(a))
      /\ tree' = Holding(x) \/ (old.mixed /\ tree' = tree)
  BY RunIs DEF FinishTool, At
<1>2. old.pc \in Installing /\ old.todo # {}
  BY <1>1 DEF Installing, RunTyped
<1>3. x \in Artifacts /\ x[1] = Current(a) /\ Current(a) \notin Assets
  BY <1>1, <1>2, InHand DEF RunTyped, Current
<1>4. old.alone => tree' = Holding(x)
  BY <1>1 DEF Doing, Installs
<1>5. /\ Holding(x) \in [Artifacts -> {"none", "good", Torn}] /\ Holding(x)[x] = "good"
      /\ \A y \in Artifacts : y[1] # x[1] => Holding(x)[y] = tree[y]
  BY <1>1, <1>3 DEF Holding, Files
<1>6. /\ tree' \in [Artifacts -> {"none", "good", Torn}]
      /\ old.alone => tree'[x] = "good"
      /\ \A y \in Artifacts : y[1] # Current(a) => tree'[y] = tree[y]
  BY <1>1, <1>3, <1>4, <1>5 DEF Files
<1>7. \A y \in Artifacts : tree[y] = "good" /\ (Lasting(y) \/ y[1] # Current(a))
                           => tree'[y] = "good"
  BY <1>3, <1>6, ToolIs
<1> QED BY <1>1, <1>2, <1>6, <1>7, InstalledInv

-----------------------------------------------------------------------------
(* Applying it: the commands.                                              *)

\* Firm, when what is put to use is good.
LEMMA FirmInUse ==
  ASSUME Inv, NEW a \in Actors, NEW r, Go(a, r), r.pc # "empty",
         UNCHANGED <<tree, overlapped>>,
         ~overlapped => Used(confs)' /\ Used(loaded)' /\ Used(bins)'
  PROVE  Firm'
<1>1. DOMAIN act' = Actors /\ act'[a] = r /\ \A b \in Actors : b # a => act'[b] = act[b]
  BY DEF Go, Inv, Typed
<1>2. \A b \in Actors : At(b, "empty")' => b # a /\ At(b, "empty") /\ Artifact(b)' = Artifact(b)
  BY <1>1 DEF At, Artifact, Current
<1> QED BY <1>2 DEF Firm, Inv

\* A run that has installed goes on.
LEMMA LaterOn ==
  ASSUME Inv, NEW a \in Actors, NEW old, old = act[a], NEW r, Go(a, r), r \in Runs, Kept(r, old),
         old.pc \in Later, r.pc \in Later,
         r.pc \in Linking => r.todo \subseteq DOMAIN Commands(r.catalog),
         r.pc \in {"link", "poll"} => r.todo # {},
         UNCHANGED <<config, tree, overlapped>>, Files', Container', Firm',
         old.alone => Applies(r)'
  PROVE  Inv'
<1>1. RunTyped(old) /\ (old.alone => Doing(old))
  BY RunIs
<1>2. /\ old.pc \in Planned /\ r.pc \in Planned /\ r.pc \notin Installing
  BY Apart
<1>3. r.pc \notin {"set", "extract", "empty", "copy", "tool"} /\ ~IsOff(a)
  BY DEF Later, Linking, Written, IsOff
<1>4. old.catalog # Torn
  BY <1>1, <1>2 DEF RunTyped
<1>5. RunTyped(r)
  BY <1>2, <1>3, <1>4 DEF RunTyped, Kept
<1>6. ASSUME r.alone PROVE Doing(r)'
  <2>1. old.alone /\ Doing(old)
    BY <1>1, <1>6 DEF Kept
  <2>2. Wants(r)'
    BY <1>2, <2>1, WantsOn DEF Doing, Kept
  <2>3. Installs(r)'
    BY <2>1, InstallsOn DEF Doing, Kept
  <2> QED BY <2>1, <2>2, <2>3 DEF Doing
<1>7. r.alone = act[a].alone
  BY DEF Kept
<1> QED BY <1>3, <1>5, <1>6, <1>7, GoesOn

LEMMA SweepCommandsInv == ASSUME Inv, NEW a \in Actors, SweepCommands(a) PROVE Inv'
<1> PICK old : old = act[a]
  OBVIOUS
<1> PICK c : c = old.catalog
  OBVIOUS
<1> PICK r : r = Moved(old, "unlink", DOMAIN Commands(c))
  OBVIOUS
<1>1. /\ old.pc = "install" /\ old.todo = {} /\ ~IsOff(a) /\ Files /\ Container
      /\ RunTyped(old) /\ (old.alone => Doing(old))
      /\ bins' = Only(bins, DOMAIN Commands(c)) /\ Go(a, r)
      /\ UNCHANGED <<config, head, cache, tree, confs, caddy, host, overlapped>>
  BY RunIs DEF SweepCommands, At, IsOff, Moved
<1>2. old.pc \in Installing /\ old.pc \in Planned
  BY <1>1 DEF Installing, Planned
<1>3. c \in Configs /\ c # Torn /\ old \in Runs
  BY <1>1, <1>2 DEF RunTyped, Runs
<1>4. DOMAIN Commands(c) \in SUBSET Plugins /\ "unlink" \in Stages
  BY <1>3, WantedIs DEF Stages
<1>5. r \in Runs /\ Kept(r, old) /\ r.pc = "unlink" /\ r.todo = DOMAIN Commands(c)
  BY <1>3, <1>4, NextStageWith
<1>6. /\ r.pc \in Linking /\ r.pc \in Later /\ r.pc \in Planned
      /\ r.pc \notin Installing /\ r.pc \notin Written
  BY <1>5 DEF Linking, Later, Planned, Installing, Written
<1>7. RunTyped(r)
  BY <1>3, <1>5, <1>6 DEF RunTyped, Kept
<1>8. /\ DOMAIN bins' \subseteq DOMAIN Commands(c)
      /\ \A p \in DOMAIN bins' : p \in DOMAIN bins /\ bins'[p] = bins[p]
  BY <1>1, LeftOver
<1>9. Files' /\ Container'
  BY <1>1, OnlyPartial, ContainerStays DEF Files
<1>10. Firm'
  <2>1. ~overlapped => Used(bins)'
    BY <1>1, <1>8, RunIs DEF Firm, Used, Good
  <2>2. ~overlapped => Used(confs)' /\ Used(loaded)'
    BY <1>1, RunIs DEF Firm, Used, Good, host
  <2> QED BY <1>1, <1>5, <2>1, <2>2, FirmInUse
<1>11. ASSUME r.alone PROVE Doing(r)'
  <2>1. old.alone /\ Doing(old)
    BY <1>1, <1>5, <1>11 DEF Kept
  <2>2. Wants(r)'
    BY <1>1, <1>2, <1>5, <1>6, <2>1, WantsOn DEF Doing, Kept
  <2>3. Furnished(old)
    BY <1>2, <2>1, FurnishedIs
  <2>4. \A p \in DOMAIN Enabled(c) : tree[<<p, Enabled(c)[p]>>] = "good"
    BY <1>1, <2>3 DEF Furnished, Good
  <2>5. Installs(r)'
    BY <1>1, <1>5, <1>6, <2>4 DEF Installs, Good, Kept
  <2>6. confs = r.seen /\ caddy = r.routes
    BY <1>1, <1>2, <1>5, <2>1 DEF Doing, Applies, Kept
  <2>7. DOMAIN bins' \subseteq DOMAIN Commands(c)
    BY <1>8
  <2>8. Applies(r)'
    BY <1>1, <1>5, <1>6, <2>6, <2>7 DEF Applies, Kept
  <2> QED BY <2>2, <2>5, <2>8 DEF Doing
<1>12. r.alone = act[a].alone
  BY <1>5 DEF Kept
<1> QED BY <1>1, <1>7, <1>9, <1>10, <1>11, <1>12, GoesOn

\* What a run has in hand when it makes the links.
LEMMA LinkIs ==
  ASSUME Inv, NEW a \in Actors, NEW old, old = act[a], old.pc \in Linking
  PROVE  /\ old \in Runs /\ old.pc \in Later /\ ~IsOff(a) /\ old.catalog \in Configs
         /\ old.todo \in SUBSET Plugins /\ old.todo \subseteq DOMAIN Commands(old.catalog)
         /\ old.todo # {} => Current(a) \in old.todo
<1>1. RunTyped(old) /\ old \in Runs
  BY RunIs DEF RunTyped
<1>2. old.pc \in Later /\ old.pc # "off"
  BY DEF Later, Linking
<1>3. old.pc \in Planned
  BY <1>2, Apart
<1>4. old.catalog # Torn /\ old.todo \subseteq DOMAIN Commands(old.catalog)
  BY <1>1, <1>3 DEF RunTyped
<1>5. old.catalog \in Configs /\ old.todo \in SUBSET Plugins
  BY <1>1, <1>4 DEF Runs
<1>6. old.todo # {} => Current(a) \in old.todo
  BY <1>5, LeastPlugin DEF Current
<1> QED BY <1>1, <1>2, <1>4, <1>5, <1>6 DEF IsOff

\* And what the links of a run on its own are.
Linked(r) ==
    LET commands == Commands(r.catalog)
    IN  /\ confs = r.seen /\ caddy = r.routes
        /\ DOMAIN bins \subseteq DOMAIN commands
        /\ \A p \in DOMAIN commands \ r.todo : Agree(bins, commands, p)

LEMMA LinkedIs ==
  /\ \A r : r.pc \in Linking /\ Applies(r) => Linked(r)
  /\ \A r : r.pc \in Linking /\ Linked(r)' => Applies(r)'
<1>1. \A pc \in Linking : /\ pc \notin Written /\ pc # "writing" /\ pc # "caddy" /\ pc # "start"
                          /\ pc # "poll" /\ pc # "done"
  BY DEF Linking, Written
<1> QED BY <1>1 DEF Applies, Linked

\* Of what is in use, some is taken away.
LEMMA UsedLess ==
  ASSUME UNCHANGED tree
  PROVE  /\ Used(bins) /\ (\A p \in DOMAIN bins' : p \in DOMAIN bins /\ bins'[p] = bins[p])
            => Used(bins)'
         /\ Used(confs) /\ (\A p \in DOMAIN confs' : p \in DOMAIN confs /\ confs'[p] = confs[p])
            => Used(confs)'
BY DEF Used, Good

LEMMA UnlinkInv == ASSUME Inv, NEW a \in Actors, Unlink(a) PROVE Inv'
<1> PICK old : old = act[a]
  OBVIOUS
<1> PICK r : r = [old EXCEPT !.pc = "link"]
  OBVIOUS
<1> PICK x : x = Current(a)
  OBVIOUS
<1>1. /\ old.pc = "unlink" /\ old.todo # {} /\ Files /\ Container
      /\ bins' = Only(bins, DOMAIN bins \ {x}) /\ Go(a, r)
      /\ UNCHANGED <<config, head, cache, tree, confs, caddy, host, overlapped>>
  BY RunIs DEF Unlink, At
<1>2. old.pc \in Linking /\ "link" \in Stages /\ "link" \in Linking /\ "link" \in Later
  BY <1>1 DEF Linking, Stages, Later
<1>3. /\ old \in Runs /\ old.pc \in Later /\ ~IsOff(a) /\ old.catalog \in Configs
      /\ old.todo \subseteq DOMAIN Commands(old.catalog) /\ x \in old.todo
  BY <1>1, <1>2, LinkIs
<1>4. r \in Runs /\ Kept(r, old) /\ r.pc = "link" /\ r.todo = old.todo
  BY <1>2, <1>3, NextStage
<1>5. /\ DOMAIN bins' \subseteq DOMAIN bins \ {x}
      /\ \A p \in DOMAIN bins' : p \in DOMAIN bins /\ bins'[p] = bins[p]
      /\ \A p \in DOMAIN bins \ {x} : p \in DOMAIN bins'
  BY <1>1, LeftOver
<1>6. Files' /\ Container'
  BY <1>1, OnlyPartial, ContainerStays DEF Files
<1>7. Firm'
  <2>1. ~overlapped => Used(bins)'
    BY <1>1, <1>5, RunIs, UsedLess DEF Firm
  <2>2. ~overlapped => Used(confs)' /\ Used(loaded)'
    BY <1>1, RunIs DEF Firm, Used, Good, host
  <2> QED BY <1>1, <1>4, <2>1, <2>2, FirmInUse
<1>8. ASSUME old.alone PROVE Applies(r)'
  <2> PICK commands : commands = Commands(old.catalog)
    OBVIOUS
  <2>1. Linked(old)
    BY <1>2, <1>8, RunIs, LinkedIs DEF Doing
  <2>2. /\ confs = r.seen /\ caddy = r.routes /\ DOMAIN bins \subseteq DOMAIN commands
        /\ \A p \in DOMAIN commands \ r.todo : Agree(bins, commands, p)
    BY <1>4, <2>1 DEF Linked, Kept
  <2>3. \A p \in DOMAIN commands \ r.todo : p # x
    BY <1>3, <1>4
  <2>4. \A p \in DOMAIN commands \ r.todo : Agree(bins', commands, p)
    BY <1>5, <2>2, <2>3 DEF Agree
  <2>5. Linked(r)'
    BY <1>1, <1>4, <1>5, <2>2, <2>4 DEF Linked, Kept, Agree
  <2> QED BY <1>2, <1>4, <2>5, LinkedIs
<1> QED BY <1>1, <1>2, <1>3, <1>4, <1>6, <1>7, <1>8, LaterOn DEF Kept

LEMMA LinkInv == ASSUME Inv, NEW a \in Actors, Link(a) PROVE Inv'
<1> PICK old : old = act[a]
  OBVIOUS
<1> PICK x : x = Current(a)
  OBVIOUS
<1> PICK commands : commands = Commands(old.catalog)
  OBVIOUS
<1>1. /\ old.pc = "link" /\ Files /\ Container /\ RunTyped(old)
      /\ UNCHANGED <<config, head, cache, tree, confs, caddy, host, overlapped>>
  BY RunIs DEF Link, At
<1>2. /\ old.pc \in Linking /\ "unlink" \in Stages /\ "unlink" \in Linking
      /\ "unlink" \in Later /\ old.todo # {}
  BY <1>1 DEF Linking, Stages, Later, RunTyped
<1>3. /\ old \in Runs /\ old.pc \in Later /\ ~IsOff(a) /\ old.catalog \in Configs
      /\ old.todo \subseteq DOMAIN commands /\ x \in old.todo /\ old.todo \in SUBSET Plugins
  BY <1>1, <1>2, LinkIs
<1>4. CASE Throw(a) /\ UNCHANGED bins
  <2>1. Files' /\ Container'
    BY <1>1, <1>4, ContainerStays DEF Files
  <2>2. UNCHANGED <<tree, confs, loaded, bins, overlapped>>
    BY <1>1, <1>4 DEF host
  <2> QED BY <1>3, <1>4, <2>1, <2>2, Throws
<1> PICK todo : todo = old.todo \ {x}
  OBVIOUS
<1>5. CASE bins' = Put(bins, x, commands[x]) /\ Go(a, Moved(old, "unlink", todo))
  <2> PICK r : r = Moved(old, "unlink", todo)
    OBVIOUS
  <2>1. r \in Runs /\ Kept(r, old) /\ r.pc = "unlink" /\ r.todo = todo
    BY <1>2, <1>3, NextStageWith
  <2>2. /\ commands \in Partial(Assets) /\ DOMAIN commands \subseteq Assets
        /\ commands \in [DOMAIN commands -> Known]
        /\ \A p \in DOMAIN commands : p \in DOMAIN Enabled(old.catalog)
                                      /\ commands[p] = Enabled(old.catalog)[p]
    BY <1>3, WantedIs, PartialIs
  <2>3. x \in Assets /\ x \in DOMAIN commands /\ commands[x] \in Known
    BY <1>3, <2>2
  <2>4. bins' \in Partial(Assets)
    BY <1>1, <1>5, <2>3, PutPartial DEF Files
  <2>5. Files' /\ Container'
    BY <1>1, <2>4, ContainerStays DEF Files
  <2>6. /\ DOMAIN bins' = DOMAIN bins \cup {x} /\ bins'[x] = commands[x]
        /\ \A p \in DOMAIN bins : p # x => bins'[p] = bins[p]
    <3> PICK v : v = commands[x]
      OBVIOUS
    <3>1. bins' = Put(bins, x, v)
      BY <1>5
    <3> QED BY <3>1 DEF Put, Over
  <2>7. old.alone => Good(x, commands[x])
    BY <1>3, <2>2, <2>3, RunIs DEF Doing, Installs
  <2>8. Firm'
    <3>1. ~overlapped => Used(bins) /\ Good(x, commands[x])
      BY <1>3, <2>7, RunIs DEF Firm
    <3>2. ~overlapped => Used(bins)'
      BY <1>1, <2>6, <3>1 DEF Used, Good
    <3>3. ~overlapped => Used(confs)' /\ Used(loaded)'
      BY <1>1, RunIs DEF Firm, Used, Good, host
    <3> QED BY <1>1, <1>5, <2>1, <3>2, <3>3, FirmInUse
  <2>9. ASSUME old.alone PROVE Applies(r)'
    <3>1. Linked(old)
      BY <1>2, <2>9, RunIs, LinkedIs DEF Doing
    <3>2. /\ confs = r.seen /\ caddy = r.routes /\ DOMAIN bins \subseteq DOMAIN commands
          /\ \A p \in DOMAIN commands \ old.todo : Agree(bins, commands, p)
      BY <2>1, <3>1 DEF Linked, Kept
    <3>3. ASSUME NEW p \in DOMAIN commands \ todo PROVE Agree(bins', commands, p)
      <4>1. CASE p = x
        BY <2>3, <2>6, <4>1 DEF Agree
      <4>2. CASE p # x
        BY <2>6, <3>2, <3>3, <4>2 DEF Agree
      <4> QED BY <4>1, <4>2
    <3>4. Linked(r)'
      BY <1>1, <2>1, <2>3, <2>6, <3>2, <3>3 DEF Linked, Kept, Agree
    <3> QED BY <1>2, <2>1, <3>4, LinkedIs
  <2>10. r.todo \subseteq DOMAIN Commands(r.catalog)
    BY <1>3, <2>1 DEF Kept
  <2> QED BY <1>1, <1>2, <1>3, <1>5, <2>1, <2>5, <2>8, <2>9, <2>10, LaterOn
<1>6. \/ Throw(a) /\ UNCHANGED bins
      \/ bins' = Put(bins, x, commands[x]) /\ Go(a, Moved(old, "unlink", todo))
  BY Zenon DEF Link, Moved
<1> QED BY <1>4, <1>5, <1>6

-----------------------------------------------------------------------------
(* Applying it: the files of supervisord and of Caddy.                     *)

\* What the generated files of a run on its own are: those still to be written
\* or deleted are wrong, the others are right.
Writing(r, todo) ==
    LET wanted == Enabled(r.catalog)
    IN  /\ caddy = r.routes /\ bins = Commands(r.catalog)
        /\ todo \subseteq Updates(r) \cup Deletions(r)
        /\ \A p \in Plugins \ todo : Agree(confs, wanted, p)

LEMMA WritingIs ==
  /\ \A r : r.pc = "writing" /\ Applies(r) => Writing(r, r.todo)
  /\ \A r : r.pc = "writing" /\ Writing(r, r.todo)' => Applies(r)'
BY DEF Applies, Writing, Linking, Written, Installing

LEMMA WritingStarts ==
  ASSUME NEW r, r.catalog \in Configs, r.seen \in Partial(Plugins), bins \in Partial(Assets),
         Linked(r), r.todo = {}
  PROVE  Writing(r, Updates(r) \cup Deletions(r))
<1> PICK commands : commands = Commands(r.catalog)
  OBVIOUS
<1>1. commands \in Partial(Assets) /\ DOMAIN commands \subseteq Assets
  BY WantedIs, PartialIs
<1>2. \A p \in DOMAIN commands : Agree(bins, commands, p)
  BY DEF Linked
<1>3. \A p \in Assets \cup Assets : Agree(bins, commands, p)
  BY <1>1, <1>2 DEF Linked, Agree
<1>4. bins = commands
  BY <1>1, <1>3, AgreeAll
<1>5. \A p \in Plugins \ (Updates(r) \cup Deletions(r)) : Agree(r.seen, Enabled(r.catalog), p)
  BY DEF Updates, Deletions, Agree
<1> QED BY <1>4, <1>5 DEF Linked, Writing

\* The step that is taken next of what is to be written.
LEMMA WrittenOne ==
  ASSUME Inv, NEW a \in Actors, NEW old, old = act[a], old.catalog \in Configs,
         old \in Runs, old.pc \in Later, NEW todo \in SUBSET Plugins, NEW x \in todo,
         old.alone => Writing(old, todo),
         NEW v, v = Enabled(old.catalog)[x],
         x \in Updates(old) => confs' = Put(confs, x, v),
         x \notin Updates(old) => confs' = Only(confs, DOMAIN confs \ {x}),
         Go(a, Moved(old, "writing", todo \ {x})),
         UNCHANGED <<config, head, cache, tree, bins, caddy, host, overlapped>>
  PROVE  Inv'
<1> PICK left : left = todo \ {x}
  OBVIOUS
<1> PICK wanted : wanted = Enabled(old.catalog)
  OBVIOUS
<1> PICK r : r = Moved(old, "writing", left)
  OBVIOUS
<1>1. Files /\ Container /\ (old.alone => Doing(old)) /\ Firm
  BY RunIs
<1>2. /\ wanted \in Partial(Plugins) /\ wanted \in [DOMAIN wanted -> Known]
      /\ x \in Plugins /\ (x \in Updates(old) => x \in DOMAIN wanted)
  BY EnabledIs, PartialIs DEF Updates
<1>3. left \in SUBSET Plugins /\ "writing" \in Stages /\ "writing" \in Later
  BY DEF Stages, Later
<1>4. r \in Runs /\ Kept(r, old) /\ r.pc = "writing" /\ r.todo = left
  BY <1>3, NextStageWith
<1>5. confs' \in Partial(Plugins)
  <2>1. CASE x \in Updates(old) /\ confs' = Put(confs, x, v)
    BY <1>1, <1>2, <2>1, PutPartial DEF Files
  <2>2. CASE x \notin Updates(old) /\ confs' = Only(confs, DOMAIN confs \ {x})
    BY <1>1, <2>2, OnlyPartial DEF Files
  <2> QED BY <2>1, <2>2
<1>6. Files' /\ Container'
  BY <1>1, <1>5, ContainerStays DEF Files
<1>7. /\ \A p \in DOMAIN confs : p # x => p \in DOMAIN confs' /\ confs'[p] = confs[p]
      /\ \A p \in DOMAIN confs' : p # x => p \in DOMAIN confs
      /\ x \in Updates(old) => x \in DOMAIN confs' /\ confs'[x] = wanted[x]
      /\ x \notin Updates(old) => x \notin DOMAIN confs'
  <2>1. CASE x \in Updates(old) /\ confs' = Put(confs, x, v)
    BY <2>1 DEF Put, Over
  <2>2. CASE x \notin Updates(old) /\ confs' = Only(confs, DOMAIN confs \ {x})
    BY <2>2, LeftOver
  <2> QED BY <2>1, <2>2
<1>8. old.alone => \A p \in DOMAIN wanted : Good(p, wanted[p])
  BY <1>1 DEF Doing, Installs
<1>9. Firm'
  <2>1. ~overlapped => Used(confs) /\ (x \in DOMAIN wanted => Good(x, wanted[x]))
    BY <1>8, RunIs, Apart DEF Firm, IsOff, Later, Linking, Written
  <2>2. ~overlapped => Used(confs)'
    BY <1>2, <1>7, <2>1 DEF Used, Good
  <2>3. ~overlapped => Used(bins)' /\ Used(loaded)'
    BY <1>1 DEF Firm, Used, Good, host
  <2> QED BY <1>4, <2>2, <2>3, FirmInUse
<1>10. ASSUME old.alone PROVE Applies(r)'
  <2>1. /\ caddy = r.routes /\ bins = Commands(r.catalog)
        /\ todo \subseteq Updates(old) \cup Deletions(old)
        /\ \A p \in Plugins \ todo : Agree(confs, wanted, p)
    BY <1>4, <1>10 DEF Writing, Kept
  <2>2. Updates(r) = Updates(old) /\ Deletions(r) = Deletions(old)
    BY <1>4 DEF Kept, Updates, Deletions
  <2>3. x \notin Updates(old) => x \notin DOMAIN wanted
    BY <2>1 DEF Deletions
  <2>4. ASSUME NEW p \in Plugins \ left PROVE Agree(confs', wanted, p)
    <3>1. CASE p = x
      BY <1>2, <1>7, <2>3, <3>1 DEF Agree
    <3>2. CASE p # x
      BY <1>7, <2>1, <2>4, <3>2 DEF Agree
    <3> QED BY <3>1, <3>2
  <2>5. left \subseteq Updates(r) \cup Deletions(r) /\ wanted = Enabled(r.catalog)
    BY <1>4, <2>1, <2>2 DEF Kept
  <2>6. \A p \in Plugins \ left : Agree(confs, wanted, p)'
    BY <2>4 DEF Agree
  <2>7. (caddy = r.routes /\ bins = Commands(r.catalog))'
    BY <2>1
  <2>8. Writing(r, left)'
    BY <2>5, <2>6, <2>7 DEF Writing
  <2> QED BY <1>4, <2>8, WritingIs
<1>11. r.pc \notin Linking /\ r.pc \notin {"link", "poll"}
  BY <1>4 DEF Linking
<1> QED BY <1>3, <1>4, <1>6, <1>9, <1>10, <1>11, LaterOn

LEMMA WriteInv == ASSUME Inv, NEW a \in Actors, Write(a) PROVE Inv'
<1> PICK old : old = act[a]
  OBVIOUS
<1> PICK todo : todo = IF old.pc = "unlink" THEN Updates(old) \cup Deletions(old) ELSE old.todo
  OBVIOUS
<1> PICK new : new = todo \cap Updates(old)
  OBVIOUS
<1>1. /\ old.pc = "unlink" \/ old.pc = "writing"
      /\ old.pc = "unlink" => old.todo = {}
      /\ UNCHANGED <<config, head, cache, tree, bins, caddy, host, overlapped>>
      /\ Files /\ Container /\ RunTyped(old) /\ old \in Runs /\ (old.alone => Doing(old))
  BY RunIs DEF Write, At, RunTyped
<1>2. old.pc \in Later /\ old.pc \in Planned /\ ~IsOff(a) /\ (old.pc = "unlink" => old.pc \in Linking)
  BY <1>1 DEF Later, Planned, Linking, IsOff
<1>3. old.catalog \in Configs /\ old.seen \in Partial(Plugins) /\ old.todo \subseteq Plugins
  BY <1>1, <1>2 DEF RunTyped, Runs
<1>4. DOMAIN Enabled(old.catalog) \subseteq Plugins /\ DOMAIN old.seen \subseteq Plugins
  BY <1>3, EnabledIs, PartialIs
<1>5. todo \in SUBSET Plugins
  BY <1>1, <1>3, <1>4 DEF Updates, Deletions
<1>6. ASSUME old.alone PROVE Writing(old, todo)
  <2>1. CASE old.pc = "unlink"
    <3>1. Linked(old) /\ old.todo = {}
      BY <1>1, <1>2, <1>6, <2>1, LinkedIs DEF Doing
    <3> QED BY <1>1, <1>3, <2>1, <3>1, WritingStarts DEF Files
  <2>2. CASE old.pc = "writing"
    BY <1>1, <1>6, <2>2, WritingIs DEF Doing
  <2> QED BY <1>1, <2>1, <2>2
<1>7. CASE todo = {} /\ Go(a, Moved(old, "caddy", {})) /\ UNCHANGED confs
  <2> PICK r : r = Moved(old, "caddy", {})
    OBVIOUS
  <2>1. "caddy" \in Stages /\ {} \in SUBSET Plugins
    BY DEF Stages
  <2>2. r \in Runs /\ Kept(r, old) /\ r.pc = "caddy" /\ r.todo = {}
    BY <1>1, <2>1, NextStageWith
  <2>3. /\ r.pc \in Later /\ r.pc \in Written /\ r.pc \notin Linking /\ r.pc \notin Installing
    BY <2>2 DEF Later, Written, Linking, Installing
  <2>4. Files' /\ Container'
    BY <1>1, <1>7, ContainerStays DEF Files
  <2>5. Firm'
    BY <1>1, <1>7, <2>2, FirmStays DEF Inv, host
  <2>6. ASSUME old.alone PROVE Applies(r)'
    <3> PICK wanted : wanted = Enabled(old.catalog)
      OBVIOUS
    <3>1. wanted \in Partial(Plugins) /\ confs \in Partial(Plugins)
      BY <1>1, <1>3, EnabledIs DEF Files
    <3>2. /\ caddy = r.routes /\ bins = Commands(r.catalog)
          /\ \A p \in Plugins \cup Plugins : Agree(confs, wanted, p)
      BY <1>6, <1>7, <2>2, <2>6 DEF Writing, Kept
    <3>3. confs = wanted
      BY <3>1, <3>2, AgreeAll
    <3>4. confs = Enabled(r.catalog)
      BY <2>2, <3>3 DEF Kept
    <3> QED BY <1>1, <1>7, <2>2, <2>3, <3>2, <3>4 DEF Applies
  <2>7. r.pc \notin {"link", "poll"}
    BY <2>2
  <2> QED BY <1>1, <1>2, <1>7, <2>2, <2>3, <2>4, <2>5, <2>6, <2>7, LaterOn
<1>8. CASE /\ new # {} /\ confs' = Put(confs, Min(new), Enabled(old.catalog)[Min(new)])
           /\ Go(a, Moved(old, "writing", todo \ {Min(new)}))
  <2> PICK x : x = Min(new)
    OBVIOUS
  <2>1. x \in todo /\ x \in Updates(old)
    BY <1>5, <1>8, LeastPlugin
  <2> PICK v : v = Enabled(old.catalog)[x]
    OBVIOUS
  <2>2. confs' = Put(confs, x, v) /\ Go(a, Moved(old, "writing", todo \ {x}))
    BY <1>8
  <2> QED BY <1>1, <1>2, <1>3, <1>5, <1>6, <2>1, <2>2, WrittenOne, ZenonT(40)
<1>9. CASE /\ todo # {} /\ new = {} /\ confs' = Only(confs, DOMAIN confs \ {Min(todo)})
           /\ Go(a, Moved(old, "writing", todo \ {Min(todo)}))
  <2> PICK x : x = Min(todo)
    OBVIOUS
  <2>1. x \in todo /\ x \notin Updates(old)
    BY <1>5, <1>9, LeastPlugin
  <2>2. /\ confs' = Only(confs, DOMAIN confs \ {x})
        /\ Go(a, Moved(old, "writing", todo \ {x}))
    BY <1>9
  <2> QED BY <1>1, <1>2, <1>3, <1>5, <1>6, <2>1, <2>2, WrittenOne
<1>10. \/ todo = {} /\ Go(a, Moved(old, "caddy", {})) /\ UNCHANGED confs
       \/ /\ new # {} /\ confs' = Put(confs, Min(new), Enabled(old.catalog)[Min(new)])
          /\ Go(a, Moved(old, "writing", todo \ {Min(new)}))
       \/ /\ todo # {} /\ new = {} /\ confs' = Only(confs, DOMAIN confs \ {Min(todo)})
          /\ Go(a, Moved(old, "writing", todo \ {Min(todo)}))
  BY Zenon DEF Write, Moved
<1> QED BY <1>7, <1>8, <1>9, <1>10

\* What has been written is in the files until the end.
WrittenIn(r) ==
    /\ bins = Commands(r.catalog) /\ confs = Enabled(r.catalog)
    /\ r.pc # "caddy" => caddy = Routes(r.catalog)

LEMMA WrittenIs ==
  /\ \A r : r.pc \in Written /\ Applies(r) => WrittenIn(r)
  /\ \A r : r.pc \in Written => r.pc \in Later /\ r.pc \notin Linking /\ r.pc \notin Installing
BY DEF Written, Later, Linking, Installing, Applies, WrittenIn

\* A run goes on with what has been written.
LEMMA WrittenOn ==
  ASSUME Inv, NEW a \in Actors, NEW old, old = act[a], NEW r, Go(a, r), r \in Runs, Kept(r, old),
         old.pc \in Written, r.pc \in Written \ {"caddy"},
         r.pc = "poll" => r.todo # {},
         UNCHANGED <<config, head, cache, tree, bins, confs, overlapped>>,
         caddy' \in Partial(Exposed), Accepted(caddy'), Container',
         loaded' \in {loaded, confs},
         old.alone => /\ caddy' = Routes(old.catalog)
                      /\ r.pc \in {"start", "poll", "done"} => loaded' = confs
                      /\ r.pc = "done" => live' = caddy'
  PROVE  Inv'
<1>1. old.pc \in Later /\ r.pc \in Later /\ r.pc \notin Linking /\ r.pc \notin Installing
  BY WrittenIs
<1>2. Files'
  BY RunIs DEF Files
<1>3. r.pc # "empty" /\ r.pc # "link" /\ r.pc # "writing"
  BY DEF Written
<1>4. Firm'
  <2>1. ~overlapped => Used(confs) /\ Used(loaded) /\ Used(bins)
    BY RunIs DEF Firm
  <2>2. ~overlapped => Used(confs)' /\ Used(bins)' /\ Used(loaded)'
    BY <2>1 DEF Used, Good
  <2> QED BY <1>3, <2>2, FirmInUse
<1>5. ASSUME old.alone PROVE Applies(r)'
  <2>1. WrittenIn(old)
    BY <1>5, RunIs, WrittenIs DEF Doing
  <2>2. /\ bins' = Commands(r.catalog) /\ confs' = Enabled(r.catalog)
        /\ caddy' = Routes(r.catalog)
    BY <1>5, <2>1 DEF WrittenIn, Kept
  <2> QED BY <1>1, <1>3, <1>5, <2>2 DEF Applies
<1> QED BY <1>1, <1>2, <1>3, <1>4, <1>5, LaterOn

LEMMA WriteRoutesInv == ASSUME Inv, NEW a \in Actors, WriteRoutes(a) PROVE Inv'
<1> PICK old : old = act[a]
  OBVIOUS
<1> PICK r : r = [old EXCEPT !.pc = "update"]
  OBVIOUS
<1> PICK routes : routes = Routes(old.catalog)
  OBVIOUS
<1>1. /\ old.pc = "caddy" /\ Files /\ Container /\ RunTyped(old) /\ old \in Runs /\ ~IsOff(a)
      /\ UNCHANGED <<config, head, cache, tree, bins, confs, host, overlapped>>
      /\ (old.alone => Doing(old))
  BY RunIs DEF WriteRoutes, At, RunTyped, IsOff
<1>2. UNCHANGED <<tree, confs, loaded, bins, overlapped>> /\ Container'
  BY <1>1, ContainerStays DEF host
<1>3. /\ old.pc \in Written /\ old.pc \in Planned /\ "update" \in Stages
      /\ "update" \in Written \ {"caddy"}
  BY <1>1 DEF Written, Planned, Later, Stages
<1>4. r \in Runs /\ Kept(r, old) /\ r.pc = "update" /\ r.todo = old.todo
  BY <1>1, <1>3, NextStage
<1>5. old.catalog \in Configs
  BY <1>1, <1>3 DEF RunTyped, Runs
<1>6. routes \in Partial(Exposed)
  BY <1>5, WantedIs
<1>7. CASE Throw(a) /\ UNCHANGED caddy
  <2>1. Files'
    BY <1>1, <1>7 DEF Files
  <2> QED BY <1>1, <1>2, <1>7, <2>1, Throws
<1>8. CASE ~RoutesChanged(old) /\ Go(a, r) /\ UNCHANGED caddy
  <2>1. old.alone => caddy' = routes
    BY <1>1, <1>8 DEF RoutesChanged, Doing, Applies
  <2>2. caddy' \in Partial(Exposed) /\ Accepted(caddy')
    BY <1>1, <1>8 DEF Files, Accepted
  <2>3. r.pc \in Written \ {"caddy"} /\ r.pc # "poll" /\ r.pc # "start" /\ r.pc # "done"
    BY <1>3, <1>4
  <2> QED BY <1>1, <1>2, <1>3, <1>4, <1>8, <2>1, <2>2, <2>3, WrittenOn DEF host
<1>9. CASE Accepted(routes) /\ Go(a, r) /\ caddy' = routes
  <2>1. caddy' \in Partial(Exposed) /\ Accepted(caddy')
    BY <1>6, <1>9
  <2>2. r.pc \in Written \ {"caddy"} /\ r.pc # "poll" /\ r.pc # "start" /\ r.pc # "done"
    BY <1>3, <1>4
  <2> QED BY <1>1, <1>2, <1>3, <1>4, <1>9, <2>1, <2>2, WrittenOn DEF host
<1> QED BY <1>7, <1>8, <1>9 DEF WriteRoutes, CaddyTakes

LEMMA UpdateInv == ASSUME Inv, NEW a \in Actors, Update(a) PROVE Inv'
<1> PICK old : old = act[a]
  OBVIOUS
<1> PICK todo : todo = DOMAIN confs \cap Autostart
  OBVIOUS
<1> PICK r : r = Moved(old, "start", todo)
  OBVIOUS
<1>1. /\ old.pc = "update" /\ Files /\ Container /\ old \in Runs /\ (old.alone => Doing(old))
      /\ UNCHANGED <<config, head, cache, tree, bins, confs, caddy, live, overlapped>>
      /\ Go(a, r) /\ loaded' = confs
      /\ prog' = [p \in DOMAIN confs |->
                    IF p \in DOMAIN loaded /\ loaded[p] = confs[p] THEN prog[p] ELSE Begun(p)]
  BY RunIs DEF Update, At, RunTyped, Moved, files
<1>2. /\ old.pc \in Written /\ "start" \in Stages /\ "start" \in Written \ {"caddy"}
  BY <1>1 DEF Written, Stages
<1>3. DOMAIN confs \subseteq Plugins /\ todo \in SUBSET Plugins /\ confs \in Partial(Plugins)
  BY <1>1, PartialIs DEF Files
<1>4. r \in Runs /\ Kept(r, old) /\ r.pc = "start" /\ r.todo = todo
  BY <1>1, <1>2, <1>3, NextStageWith
<1>5. Container'
  <2>1. prog' \in [DOMAIN confs -> Statuses]
    BY <1>1 DEF Container, Begun, Statuses
  <2> QED BY <1>1, <1>3, <2>1 DEF Container, Accepted
<1>6. old.alone => caddy' = Routes(old.catalog)
  BY <1>1, <1>2, WrittenIs DEF Doing, WrittenIn
<1>7. caddy' \in Partial(Exposed) /\ Accepted(caddy')
  BY <1>1 DEF Files, Accepted
<1>8. r.pc \in Written \ {"caddy"} /\ r.pc # "poll" /\ r.pc # "done"
  BY <1>2, <1>4
<1> QED BY <1>1, <1>2, <1>4, <1>5, <1>6, <1>7, <1>8, WrittenOn

\* What a run on its own has put in force when it starts the programs.
LEMMA StartIs ==
  ASSUME Inv, NEW a \in Actors, NEW old, old = act[a], old.pc \in {"start", "poll", "done"}
  PROVE  /\ old \in Runs /\ old.pc \in Written /\ ~IsOff(a) /\ Files /\ Container
         /\ old.todo \in SUBSET Plugins
         /\ old.todo # {} => Current(a) \in old.todo
         /\ old.alone => WrittenIn(old) /\ caddy = Routes(old.catalog) /\ loaded = confs
<1>1. RunTyped(old) /\ Files /\ Container /\ (old.alone => Doing(old))
  BY RunIs
<1>2. old.pc \in Written /\ ~IsOff(a)
  BY DEF Written, IsOff
<1>3. old \in Runs /\ old.todo \in SUBSET Plugins
  BY <1>1 DEF RunTyped, Runs
<1>4. old.todo # {} => Current(a) \in old.todo
  BY <1>3, LeastPlugin DEF Current
<1>5. old.alone => WrittenIn(old) /\ caddy = Routes(old.catalog)
  BY <1>1, <1>2, WrittenIs DEF Doing, WrittenIn
<1>6. old.alone => loaded = confs
  BY <1>1 DEF Doing, Applies
<1> QED BY <1>1, <1>2, <1>3, <1>4, <1>5, <1>6

\* A run goes on to start programs.
LEMMA StartOn ==
  ASSUME Inv, NEW a \in Actors, NEW old, old = act[a], NEW r, Go(a, r), r \in Runs, Kept(r, old),
         old.pc \in {"start", "poll"}, r.pc \in {"start", "poll", "done"},
         r.pc = "poll" => r.todo # {},
         UNCHANGED <<config, head, files, loaded, overlapped>>, Container',
         r.pc = "done" => live' = caddy
  PROVE  Inv'
<1>1. /\ old.pc \in Written /\ Files
      /\ (old.alone => WrittenIn(old) /\ caddy = Routes(old.catalog) /\ loaded = confs)
  BY StartIs
<1>2. r.pc \in Written \ {"caddy"}
  BY DEF Written
<1>3. caddy' \in Partial(Exposed) /\ Accepted(caddy')
  BY <1>1 DEF Files, files, Accepted
<1>4. UNCHANGED <<config, head, cache, tree, bins, confs, caddy, loaded, overlapped>>
  BY DEF files
<1> QED BY <1>1, <1>2, <1>3, <1>4, WrittenOn

LEMMA StartProgramInv == ASSUME Inv, NEW a \in Actors, StartProgram(a) PROVE Inv'
<1> PICK old : old = act[a]
  OBVIOUS
<1> PICK x : x = Current(a)
  OBVIOUS
<1> PICK todo : todo = old.todo \ {x}
  OBVIOUS
<1>1. /\ old.pc = "start" /\ old.todo # {}
      /\ UNCHANGED <<config, head, files, loaded, live, overlapped>>
  BY DEF StartProgram, At
<1>2. /\ old \in Runs /\ ~IsOff(a) /\ Files /\ Container /\ todo \in SUBSET Plugins
      /\ "start" \in Stages /\ "poll" \in Stages
  BY <1>1, StartIs DEF Stages
<1>3. Files'
  BY <1>1, <1>2, FilesStay
<1>4. CASE Throw(a) /\ UNCHANGED prog
  <2>1. Container' /\ UNCHANGED <<tree, confs, loaded, bins, overlapped>>
    BY <1>1, <1>2, <1>4, ContainerStays DEF host, files
  <2> QED BY <1>2, <1>3, <1>4, <2>1, Throws
<1>5. CASE Go(a, Moved(old, "start", todo)) /\ UNCHANGED prog
  <2> PICK r : r = Moved(old, "start", todo)
    OBVIOUS
  <2>1. r \in Runs /\ Kept(r, old) /\ r.pc = "start"
    BY <1>2, NextStageWith
  <2>2. Container'
    BY <1>1, <1>2, <1>5, ContainerStays DEF host
  <2> QED BY <1>1, <1>5, <2>1, <2>2, StartOn
<1>6. CASE /\ x \in DOMAIN loaded /\ prog' = [prog EXCEPT ![x] = "starting"]
           /\ Go(a, [old EXCEPT !.pc = "poll"])
  <2> PICK r : r = [old EXCEPT !.pc = "poll"]
    OBVIOUS
  <2>1. r \in Runs /\ Kept(r, old) /\ r.pc = "poll" /\ r.todo = old.todo
    BY <1>2, NextStage
  <2>2. Container'
    BY <1>1, <1>2, <1>6 DEF Container, Statuses, Accepted
  <2> QED BY <1>1, <1>6, <2>1, <2>2, StartOn
<1>7. \/ Throw(a) /\ UNCHANGED prog
      \/ Go(a, Moved(old, "start", todo)) /\ UNCHANGED prog
      \/ /\ x \in DOMAIN loaded /\ prog' = [prog EXCEPT ![x] = "starting"]
         /\ Go(a, [old EXCEPT !.pc = "poll"])
  BY Zenon DEF StartProgram, Past, Moved
<1> QED BY <1>4, <1>5, <1>6, <1>7

LEMMA PollInv == ASSUME Inv, NEW a \in Actors, Poll(a) PROVE Inv'
<1> PICK old : old = act[a]
  OBVIOUS
<1> PICK todo : todo = old.todo \ {Current(a)}
  OBVIOUS
<1>1. /\ old.pc = "poll" /\ UNCHANGED <<config, head, files, host, overlapped>>
      /\ UNCHANGED <<config, head, files, loaded, overlapped>>
  BY DEF Poll, At, host
<1>2. /\ old \in Runs /\ ~IsOff(a) /\ Files /\ Container /\ todo \in SUBSET Plugins
      /\ "start" \in Stages
  BY <1>1, StartIs DEF Stages
<1>3. Files' /\ Container'
  BY <1>1, <1>2, FilesStay, ContainerStays
<1>4. CASE Throw(a)
  <2>1. UNCHANGED <<tree, confs, loaded, bins, overlapped>>
    BY <1>1 DEF host, files
  <2> QED BY <1>2, <1>3, <1>4, <2>1, Throws
<1>5. CASE Go(a, Moved(old, "start", todo))
  <2> PICK r : r = Moved(old, "start", todo)
    OBVIOUS
  <2>1. r \in Runs /\ Kept(r, old) /\ r.pc = "start"
    BY <1>2, NextStageWith
  <2> QED BY <1>1, <1>3, <1>5, <2>1, StartOn
<1>6. Throw(a) \/ Go(a, Moved(old, "start", todo))
  BY Zenon DEF Poll, Past, Moved
<1> QED BY <1>4, <1>5, <1>6

LEMMA ReloadCaddyInv == ASSUME Inv, NEW a \in Actors, ReloadCaddy(a) PROVE Inv'
<1> PICK old : old = act[a]
  OBVIOUS
<1> PICK r : r = [old EXCEPT !.pc = "done"]
  OBVIOUS
<1>1. /\ old.pc = "start" /\ UNCHANGED <<config, head, files, loaded, prog, overlapped>>
      /\ UNCHANGED <<config, head, files, loaded, overlapped>>
  BY DEF ReloadCaddy, At
<1>2. /\ old \in Runs /\ ~IsOff(a) /\ Files /\ Container /\ "done" \in Stages
  BY <1>1, StartIs DEF Stages
<1>3. Files'
  BY <1>1, <1>2, FilesStay
<1>4. CASE Throw(a) /\ UNCHANGED live
  <2>1. Container' /\ UNCHANGED <<tree, confs, loaded, bins, overlapped>>
    BY <1>1, <1>2, <1>4, ContainerStays DEF host, files
  <2> QED BY <1>2, <1>3, <1>4, <2>1, Throws
<1>5. CASE Accepted(caddy) /\ live' = caddy /\ Go(a, r)
  <2>1. r \in Runs /\ Kept(r, old) /\ r.pc = "done"
    BY <1>2, NextStage
  <2>2. Container'
    BY <1>1, <1>2, <1>5 DEF Container, Files
  <2> QED BY <1>1, <1>5, <2>1, <2>2, StartOn
<1> QED BY <1>4, <1>5 DEF ReloadCaddy

\* A run that is answered, or fails.
LEMMA EndsInv ==
  ASSUME Inv, NEW a \in Actors, Answer(a) \/ CanFail(a)
  PROVE  Inv'
<1>1. /\ ~IsOff(a) /\ Throw(a) /\ UNCHANGED <<config, head, files, host, overlapped>>
  BY DEF Answer, CanFail, Fails, At, IsOff
<1>2. Files' /\ Container'
  BY <1>1, RunIs, FilesStay, ContainerStays
<1>3. UNCHANGED <<tree, confs, loaded, bins, overlapped>>
  BY <1>1 DEF files, host
<1> QED BY <1>1, <1>2, <1>3, Throws

-----------------------------------------------------------------------------
(* The container.                                                          *)

\* What a program is doing.
LEMMA ProgramsInv ==
  ASSUME Inv, NEW p \in Plugins, Comes(p) \/ Stops(p)
  PROVE  Inv'
<1>1. /\ UNCHANGED <<config, head, files, loaded, live, act, overlapped>>
      /\ Files /\ Container
  BY DEF Comes, Stops, Inv, Typed
<1>2. PICK status \in Statuses : p \in DOMAIN loaded /\ prog' = [prog EXCEPT ![p] = status]
  <2>1. CASE Comes(p)
    BY <2>1 DEF Comes, Statuses
  <2>2. CASE Stops(p)
    BY <2>2 DEF Stops, Statuses
  <2> QED BY <2>1, <2>2
<1>3. Files'
  BY <1>1, FilesStay
<1>4. Container'
  BY <1>1, <1>2 DEF Container, Accepted
<1> QED BY <1>1, <1>3, <1>4, StaysInv DEF files

First == [Off EXCEPT !.pc = "catalog", !.alone = TRUE]

\* The runs of a container that has been started.
Started == [a \in Actors |-> IF a = Startup THEN First ELSE Off]

LEMMA FirstIs ==
  /\ RunTyped(First) /\ First.alone /\ First.pc = "catalog" /\ First.request = NoRequest
  /\ \A pc : First.pc = pc => pc = "catalog"
<1>1. Off \in Runs
  BY OffIs DEF RunTyped
<1>2. First \in Runs
  BY <1>1, Zenon DEF First, Runs, Stages
<1>3. First.pc = "catalog" /\ First.alone /\ First.request = NoRequest
  BY <1>1, OffIs DEF First, Runs
<1>4. RunTyped(First)
  BY <1>2, <1>3, EarlyTyped
<1> QED BY <1>3, <1>4

LEMMA StartedIs ==
  /\ DOMAIN Started = Actors
  /\ \A a \in Actors : /\ RunTyped(Started[a]) /\ Started[a].pc # "empty"
                       /\ Started[a].alone => a = Startup
                       /\ Started[a].pc = "off" \/ Started[a] = First
                       /\ a # Startup => Started[a].pc = "off"
BY OffIs, FirstIs DEF Started

LEMMA FirstDoing == Doing(First) /\ Doing(First)'
<1>1. Wants(First)
  BY FirstIs, StageIs DEF Wants, Granted
<1>2. Wants(First)'
  BY FirstIs, StageIs DEF Wants, Granted
<1> QED BY <1>1, <1>2, FirstIs, StageIs, EarlyIs DEF Doing

LEMMA RestartInv == ASSUME Inv, NEW again \in BOOLEAN, Restart(again) PROVE Inv'
<1>1. /\ Files /\ Container /\ Firm /\ overlapped \in BOOLEAN
      /\ act' = Started /\ loaded' = confs' /\ live' = caddy'
      /\ prog' = [p \in DOMAIN confs' |-> Begun(p)]
      /\ UNCHANGED <<config, head, cache, tree, bins, overlapped>>
  BY DEF Restart, Inv, Typed, Company, Started, First
<1>2. (confs' = confs \/ confs' = Empty) /\ (caddy' = caddy \/ caddy' = Empty)
  BY DEF Restart
<1>3. /\ confs' \in Partial(Plugins) /\ caddy' \in Partial(Exposed) /\ Accepted(caddy')
  BY <1>1, <1>2, EmptyIsPartial DEF Files, Accepted, Empty
<1>4. Typed'
  <2>1. Files'
    BY <1>1, <1>3 DEF Files
  <2>2. prog' \in [DOMAIN loaded' -> Statuses]
    BY <1>1 DEF Begun, Statuses
  <2>3. Container'
    BY <1>1, <1>3, <2>2 DEF Container
  <2> QED BY <1>1, <2>1, <2>3, StartedIs DEF Typed
<1>5. Company'
  BY <1>1, StartedIs, FirstIs DEF Company, IsOff
<1>6. Alone'
  <2> SUFFICES ASSUME NEW a \in Actors, act'[a].alone PROVE Doing(act[a])'
    BY DEF Alone
  <2>1. act'[a] = First
    BY <1>1, StartedIs DEF Started
  <2> QED BY <2>1, FirstDoing
<1>7. Firm'
  <2>1. \A a \in Actors : ~At(a, "empty")'
    BY <1>1, StartedIs DEF At
  <2>2. ~overlapped => Used(confs)' /\ Used(bins)'
    BY <1>1, <1>2 DEF Firm, Used, Good, Empty
  <2>3. Used(confs)' => Used(loaded)'
    BY <1>1 DEF Used
  <2> QED BY <1>1, <2>1, <2>2, <2>3 DEF Firm
<1> QED BY <1>4, <1>5, <1>6, <1>7 DEF Inv

LEMMA InitInv == Init => Inv
<1> SUFFICES ASSUME Init PROVE Inv
  OBVIOUS
<1>1. /\ act = Started /\ ~overlapped /\ overlapped \in BOOLEAN
      /\ bins = Empty /\ confs = Empty /\ caddy = Empty /\ loaded = Empty /\ prog = Empty
      /\ live = Empty /\ head = config
  BY DEF Init, Started, First
<1>2. config \in Configs
  <2>1. Empty \in [{} -> BOOLEAN]
    BY DEF Empty
  <2> QED BY <2>1, EmptyIsPartial DEF Init, Configs
<1>3. Typed
  <2>1. Files
    BY <1>1, <1>2, EmptyIsPartial DEF Files, Init, Accepted, Empty
  <2>2. Container
    BY <1>1, EmptyIsPartial DEF Container, Accepted, Empty
  <2> QED BY <1>1, <2>1, <2>2, StartedIs DEF Typed
<1>4. Company
  BY <1>1, StartedIs, FirstIs DEF Company, IsOff
<1>5. Alone
  <2> SUFFICES ASSUME NEW a \in Actors, act[a].alone PROVE Doing(act[a])
    BY DEF Alone
  <2>1. act[a] = First
    BY <1>1, StartedIs DEF Started
  <2> QED BY <2>1, FirstDoing
<1>6. Firm
  BY <1>1, StartedIs DEF Firm, Used, Empty, At
<1> QED BY <1>3, <1>4, <1>5, <1>6 DEF Inv

-----------------------------------------------------------------------------
(* The theorems.                                                           *)

LEMMA StepInv == ASSUME Inv, NEW a \in Actors, Step(a) PROVE Inv'
<1>1. CASE ReadConfig(a) \/ PlanChange(a) \/ OpenConfig(a) \/ WriteConfig(a) \/ Commit(a)
  BY <1>1, ReadConfigInv, PlanChangeInv, OpenConfigInv, WriteConfigInv, CommitInv
<1>2. CASE ReadCatalog(a) \/ Plan(a)
  BY <1>2, ReadCatalogInv, PlanInv
<1>3. CASE \/ FetchAsset(a) \/ Compare(a) \/ EmptyFiles(a) \/ CopyFiles(a)
           \/ StartTool(a) \/ FinishTool(a)
  BY <1>3, FetchAssetInv, CompareInv, EmptyFilesInv, CopyFilesInv, StartToolInv, FinishToolInv
<1>4. CASE SweepCommands(a) \/ Unlink(a) \/ Link(a)
  BY <1>4, SweepCommandsInv, UnlinkInv, LinkInv
<1>5. CASE Write(a) \/ WriteRoutes(a) \/ Update(a)
  BY <1>5, WriteInv, WriteRoutesInv, UpdateInv
<1>6. CASE StartProgram(a) \/ Poll(a) \/ ReloadCaddy(a) \/ Answer(a) \/ CanFail(a)
  BY <1>6, StartProgramInv, PollInv, ReloadCaddyInv, EndsInv
<1> QED BY <1>1, <1>2, <1>3, <1>4, <1>5, <1>6 DEF Step

LEMMA NextInv == Inv /\ [Next]_vars => Inv'
<1> SUFFICES ASSUME Inv, [Next]_vars PROVE Inv'
  OBVIOUS
<1>1. CASE \E a \in Actors : Step(a)
  BY <1>1, StepInv
<1>2. CASE \E a \in Actors, p \in Plugins, on, apply \in BOOLEAN : SetEnabled(a, p, on, apply)
  BY <1>2, SetEnabledInv
<1>3. CASE \E a \in Actors, p \in Plugins, v \in Versions : AddPlugin(a, p, v)
  BY <1>3, AddPluginInv
<1>4. CASE \E a \in Actors : Reload(a)
  BY <1>4, ReloadInv
<1>5. CASE \E p \in Plugins : Comes(p) \/ Stops(p)
  BY <1>5, ProgramsInv
<1>6. CASE \E again \in BOOLEAN : Restart(again)
  BY <1>6, RestartInv
<1>7. CASE UNCHANGED vars
  <2>1. /\ UNCHANGED <<config, head, files, host>> /\ Files /\ Container
        /\ UNCHANGED <<act, config, tree, bins, confs, caddy, loaded, live, overlapped>>
    BY <1>7 DEF vars, files, host, Inv, Typed
  <2> QED BY <2>1, FilesStay, ContainerStays, StaysInv
<1> QED BY <1>1, <1>2, <1>3, <1>4, <1>5, <1>6, <1>7 DEF Next

\* The configuration, the files and the container keep their types however the
\* runs overlap, fail and are cut off; and a file of routes that Caddy does not
\* take never gets the name (applyCaddyPluginConfigChange).
THEOREM TypeCorrect == Spec => []TypeOK
<1>1. Inv => TypeOK
  BY DEF Inv, Typed, Files, Container, RunTyped, Runs, Statuses, TypeOK
<1> QED BY InitInv, NextInv, <1>1, PTL DEF Spec

\* A run of the orchestrator that nobody disturbed leaves the container as it
\* is wanted, whatever was there when it began: vd-plugin-reload.sh, or the
\* request to enable a plugin, repairs what earlier runs have left.
THEOREM RunsRepair == Spec => []Repairs
<1>1. Inv => Repairs
  <2> SUFFICES ASSUME Inv, NEW a \in Actors, At(a, "done"), act[a].alone
               PROVE  /\ config # Torn
                      /\ confs = Enabled(config) /\ loaded = confs
                      /\ caddy = Routes(config) /\ live = caddy
                      /\ bins = Commands(config)
                      /\ \A p \in DOMAIN confs : tree[<<p, confs[p]>>] = "good"
                      /\ act[a].request # NoRequest =>
                           (act[a].request.plugin \in DOMAIN loaded) = act[a].request.on
    BY DEF Repairs
  <2> PICK old : old = act[a]
    OBVIOUS
  <2>1. old.pc = "done" /\ RunTyped(old) /\ Doing(old)
    BY RunIs DEF At
  <2>2. old.pc \in Planned /\ old.pc \in Later /\ old.pc \in Written
    BY <2>1 DEF Planned, Later, Written
  <2>3. old.catalog \in Configs /\ old.catalog # Torn
    BY <2>1, <2>2 DEF RunTyped, Runs
  <2>4. config = old.catalog /\ Granted(old, config)
    BY <2>1, <2>2, <2>3 DEF Doing, Wants
  <2>5. /\ confs = Enabled(config) /\ bins = Commands(config) /\ loaded = confs
        /\ caddy = Routes(config) /\ live = caddy
    BY <2>1, <2>2, <2>4 DEF Doing, Applies
  <2>6. \A p \in DOMAIN confs : tree[<<p, confs[p]>>] = "good"
    BY <2>1, <2>2, <2>4, <2>5 DEF Doing, Installs, Good
  <2>7. ASSUME old.request # NoRequest
        PROVE  (old.request.plugin \in DOMAIN loaded) = old.request.on
    <3> PICK p : p = old.request.plugin
      OBVIOUS
    <3>1. old.request \in Requests
      BY <2>1, <2>7 DEF RunTyped, Runs
    <3>2. p \in DOMAIN Catalog(config) /\ IsEnabled(config, p) = old.request.on
      BY <2>4, <2>7 DEF Granted
    <3>3. p \in DOMAIN loaded <=> IsEnabled(config, p)
      BY <2>3, <2>4, <2>5, <3>2, EnabledIs
    <3>4. old.request.on \in BOOLEAN
      BY <3>1 DEF Requests
    <3>5. CASE old.request.on = TRUE
      BY <3>2, <3>3, <3>5
    <3>6. CASE old.request.on = FALSE
      <4>1. IsEnabled(config, p) = FALSE
        BY <3>2, <3>6
      <4>2. p \notin DOMAIN loaded
        BY <3>3, <4>1, Zenon
      <4>3. (p \in DOMAIN loaded) = FALSE
        BY <4>2
      <4> QED BY <3>6, <4>3, Zenon
    <3> QED BY <3>4, <3>5, <3>6
  <2> QED BY <2>3, <2>4, <2>5, <2>6, <2>7
<1> QED BY InitInv, NextInv, <1>1, PTL DEF Spec

\* Before any runs have overlapped, a generated file of supervisord, a program
\* and a command of a release asset without a script are of a version that is
\* completely installed: what is in use is not emptied, and what is not
\* installed is not put to use.  Tools and what a script rewrites are replaced
\* while they are in use, on every run (installPackageManagerTool).
THEOREM InstalledBeforeUse == Spec => []InstalledFirst
<1>1. Inv => InstalledFirst
  BY DEF Inv, Firm, Used, Good, Lasting, InstalledFirst
<1> QED BY InitInv, NextInv, <1>1, PTL DEF Spec
=============================================================================
