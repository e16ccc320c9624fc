----------------------------- MODULE PluginHost -----------------------------
(***************************************************************************)
(* The services of the plugins of one container: which ones are wanted     *)
(* (plugins/orchestrator/plugin-instance-config.ts), and how the container *)
(* is brought in line with that: plugin-service-orchestrator-cli.ts,       *)
(* plugin-service-orchestrator.ts and vd-plugin-runtime-apply.sh, started  *)
(* by the container, by hand, or by the requests of the dashboard          *)
(* (src/server/plugin-admin-routes.ts).                                    *)
(*                                                                         *)
(* Everything is in files, and nothing is locked: runs may overlap, fail   *)
(* at any stage, or be cut off when the container stops, which starts the  *)
(* programs and one run again.                                             *)
(*                                                                         *)
(* A plugin is a number, its place in the catalog.  It has one installer,  *)
(* one service, and a name in the directory of commands if it comes as a   *)
(* release asset.  Each version of an asset has a directory of its own.    *)
(* What a package manager installs is in one toolchain, where one version  *)
(* replaces the other; a package is taken to be of one plugin.             *)
(***************************************************************************)
EXTENDS Integers, FiniteSets, FiniteSetsExt, Functions

CONSTANTS
    Plugins,    \* places in the catalog
    Builtin,    \* the catalog of the image: plugin |-> version
    Versions,   \* versions that the catalog of the instance may name
    Assets,     \* the plugins that come as release assets
    Scripted,   \* <<plugin, version>>: assets with a script to run when unpacked
    Autostart,  \* the plugins whose program is to be started
    Exposed,    \* the plugins whose service has a subdomain
    Refused,    \* <<plugin, version>>: routes that Caddy does not accept
    Actors,     \* runs that may be under way at once
    Startup,    \* the one that the container starts
    Torn,       \* a file that is being written, or was cut off
    NoRequest,  \* a run that nobody has asked a plugin to be set for
    MaxAsked,   \* bound on the requests and runs by hand
    MaxFaults   \* bound on the failures, the stops and the restarts

Known      == Versions \cup Range(Builtin)
Partial(S) == UNION {[T -> Known] : T \in SUBSET S}
Artifacts  == UNION {{<<p, v>> : v \in Known} : p \in Plugins}
Configs    == [defs : Partial(Plugins), states : UNION {[T -> BOOLEAN] : T \in SUBSET Plugins}]

ASSUME HostAssumption ==
    /\ Plugins \subseteq Nat /\ Assets \subseteq Plugins
    /\ Builtin \in Partial(Plugins)
    /\ Startup \in Actors
    /\ Torn \notin Configs /\ Torn \notin {"good", "none"}
    /\ MaxAsked \in Nat /\ MaxFaults \in Nat

VARIABLES
    config,     \* plugins.json of the instance, or Torn
    head,       \* what of it is committed
    cache,      \* the cached asset of a plugin and version
    tree,       \* what is installed of a plugin and version
    bins,       \* the commands: plugin |-> version
    confs,      \* the generated files of supervisord: plugin |-> version
    caddy,      \* plugins.caddy: plugin |-> version
    loaded,     \* the programs that supervisord has: plugin |-> version
    prog,       \* and what they are doing
    live,       \* the routes that Caddy serves
    act,        \* the runs; mixed: another has worked on the same file or tool
    overlapped, \* whether runs have ever been under way together
    asked, faults

files == <<cache, tree, bins, confs, caddy>>
host  == <<loaded, prog, live>>
vars  == <<config, head, cache, tree, bins, confs, caddy, loaded, prog, live,
           act, overlapped, asked, faults>>

-----------------------------------------------------------------------------
(* Catalogs.                                                               *)

Empty == [p \in {} |-> 0]

\* f, and g where f says nothing; and f with one value set.
Over(f, g)   == [x \in DOMAIN f \cup DOMAIN g |-> IF x \in DOMAIN f THEN f[x] ELSE g[x]]
Put(f, x, v) == Over([y \in {x} |-> v], f)

\* composeCatalogs: the instance overrides the image, by plugin.
Catalog(c) == Over(c.defs, Builtin)

\* isPluginEnabled
IsEnabled(c, p) == IF p \in DOMAIN c.states THEN c.states[p] ELSE TRUE

\* enabledPlugins
Enabled(c) == Restrict(Catalog(c), {p \in DOMAIN Catalog(c) : IsEnabled(c, p)})

Only(f, S) == Restrict(f, DOMAIN f \cap S)

\* renderCaddyPluginExposureConfig
Routes(c) == Only(Enabled(c), Exposed)

Accepted(routes) == \A p \in DOMAIN routes : <<p, routes[p]>> \notin Refused

\* Faulty Commands: of every plugin.
CommandsOfAll(c) == Enabled(c)

\* The commands there should be (reconcilePluginBins).
Commands(c) == Only(Enabled(c), Assets)

-----------------------------------------------------------------------------
(* Runs.                                                                   *)

Off == [pc |-> "off", request |-> NoRequest, apply |-> FALSE, catalog |-> Torn,
        seen |-> Empty, routes |-> Empty, todo |-> {}, alone |-> FALSE,
        mixed |-> FALSE]

IsOff(a)  == act[a].pc = "off"
Busy      == {a \in Actors : ~IsOff(a)}
At(a, pc) == act[a].pc = pc

\* A run goes on, and others know that it has touched what they share.
Go(a, r) == act' = [act EXCEPT ![a] = r]

\* A run starts: the ones under way are not alone any more, and nor is it.
Begin(a, r) ==
    /\ IsOff(a)
    /\ act' = [b \in Actors |->
                 IF b = a THEN [r EXCEPT !.alone = Busy = {}]
                 ELSE [act[b] EXCEPT !.alone = FALSE]]
    /\ overlapped' = (overlapped \/ Busy # {})

Ask   == asked < MaxAsked /\ asked' = asked + 1
Fault == faults < MaxFaults /\ faults' = faults + 1

\* A run ends with an error: the script exits, the request gets status 500.
Throw(a) == Go(a, Off)

\* Something outside fails: the network, a command, a disk.
Fails(a) ==
    /\ Fault
    /\ Throw(a)
    /\ UNCHANGED <<config, head, files, host, overlapped, asked>>

-----------------------------------------------------------------------------
(* What is wanted.                                                         *)

\* POST /dashboard/api/admin/plugins/:pluginId/enable, of a plugin that the
\* catalog has; and apply-enable and apply-disable of the command line, which
\* do not apply what they set.
SetEnabled(a, p, on, apply) ==
    /\ Ask
    /\ config # Torn
    /\ p \in DOMAIN Catalog(config)
    /\ Begin(a, [Off EXCEPT !.pc = "set", !.request = [plugin |-> p, on |-> on],
                            !.apply = apply])
    /\ UNCHANGED <<config, head, files, host, faults>>

SetPluginEnabled(c, p, on) == [c EXCEPT !.states = Put(@, p, on)]

\* applySetInstancePluginEnabled, of the file that is read now: there is
\* nothing to write if it says so already.
ReadConfig(a) ==
    /\ At(a, "set")
    /\ LET r    == act[a].request
           next == IF IsEnabled(config, r.plugin) # r.on
                   THEN SetPluginEnabled(config, r.plugin, r.on) ELSE Torn
       IN  IF config = Torn THEN Throw(a)
           ELSE Go(a, [act[a] EXCEPT !.pc = "dry", !.catalog = next])
    /\ UNCHANGED <<config, head, files, host, overlapped, asked, faults>>

\* The plan to report reads the file again; what it says is not used.
PlanChange(a) ==
    /\ At(a, "dry")
    /\ IF config = Torn THEN Throw(a)
       ELSE IF act[a].catalog # Torn THEN Go(a, [act[a] EXCEPT !.pc = "open"])
       ELSE IF act[a].apply THEN Go(a, [act[a] EXCEPT !.pc = "catalog"])
       ELSE Throw(a)
    /\ UNCHANGED <<config, head, files, host, overlapped, asked, faults>>

UpsertPlugin(c, p, v) == [c EXCEPT !.defs = Put(@, p, v)]

\* applyAddInstancePlugin, from the command line.
AddPlugin(a, p, v) ==
    /\ Ask
    /\ config # Torn
    /\ p \in DOMAIN config.defs => config.defs[p] # v
    /\ Begin(a, [Off EXCEPT !.pc = "dry", !.catalog = UpsertPlugin(config, p, v)])
    /\ UNCHANGED <<config, head, files, host, faults>>

\* A run starts to write what others may be writing.
Opens(a, r, others) ==
    act' = [b \in Actors |->
              IF b = a THEN [r EXCEPT !.mixed = others # {}]
              ELSE IF b \in others THEN [act[b] EXCEPT !.mixed = TRUE] ELSE act[b]]

\* writeFile empties the file before it writes it.
OpenConfig(a) ==
    /\ At(a, "open")
    /\ Opens(a, [act[a] EXCEPT !.pc = "write"], {b \in Actors \ {a} : At(b, "write")})
    /\ config' = Torn
    /\ UNCHANGED <<head, files, host, overlapped, asked, faults>>

\* What two have written at once may be what neither has.
WriteConfig(a) ==
    /\ At(a, "write")
    /\ config' \in {act[a].catalog} \cup (IF act[a].mixed THEN {Torn} ELSE {})
    /\ Go(a, [act[a] EXCEPT !.pc = "commit"])
    /\ UNCHANGED <<head, files, host, overlapped, asked, faults>>

\* commitConfigChange: git refuses to commit what is committed.
Commit(a) ==
    /\ At(a, "commit")
    /\ IF config = head THEN Throw(a) /\ UNCHANGED head
       ELSE /\ head' = config
            /\ IF act[a].apply THEN Go(a, [act[a] EXCEPT !.pc = "catalog"]) ELSE Throw(a)
    /\ UNCHANGED <<config, files, host, overlapped, asked, faults>>

-----------------------------------------------------------------------------
(* Applying it: the run of the orchestrator.                               *)

\* vd-plugin-reload.sh; or the program of supervisord that runs it once.
Reload(a) ==
    /\ Ask
    /\ Begin(a, [Off EXCEPT !.pc = "catalog"])
    /\ UNCHANGED <<config, head, files, host, faults>>

\* readComposedCatalog
ReadCatalog(a) ==
    /\ At(a, "catalog")
    /\ IF config = Torn THEN Throw(a)
       ELSE Go(a, [act[a] EXCEPT !.pc = "plan", !.catalog = config])
    /\ UNCHANGED <<config, head, files, host, overlapped, asked, faults>>

\* What there is, before anything is installed (readExistingSupervisorConfigs,
\* readExistingCaddyPluginConfig): the plan is made of this.
Plan(a) ==
    /\ At(a, "plan")
    /\ Go(a, [act[a] EXCEPT !.pc = "install", !.seen = confs, !.routes = caddy,
                            !.todo = DOMAIN Enabled(act[a].catalog)])
    /\ UNCHANGED <<config, head, files, host, overlapped, asked, faults>>

Current(a) == Min(act[a].todo)
Artifact(a) == <<Current(a), Enabled(act[a].catalog)[Current(a)]>>

Installed(a) == [act[a] EXCEPT !.pc = "install", !.todo = @ \ {Current(a)}]

\* materializePluginArtifacts, of an asset: it is cached already.
CacheHit(a) ==
    /\ cache[Artifact(a)] = "good"
    /\ Go(a, [act[a] EXCEPT !.pc = "extract"])
    /\ UNCHANGED cache

\* A cached file that does not have the hash is put aside.
QuarantineBadCacheFile(a) ==
    /\ cache[Artifact(a)] = "bad"
    /\ cache' = [cache EXCEPT ![Artifact(a)] = "none"]
    /\ UNCHANGED act

\* What has been downloaded gets its name when it has been verified.
DownloadVerifiedArtifact(a) ==
    /\ cache[Artifact(a)] = "none"
    /\ cache' = [cache EXCEPT ![Artifact(a)] = "good"]
    /\ Go(a, [act[a] EXCEPT !.pc = "extract"])

FetchAsset(a) ==
    /\ At(a, "install")
    /\ act[a].todo # {}
    /\ Current(a) \in Assets
    /\ CacheHit(a) \/ QuarantineBadCacheFile(a) \/ DownloadVerifiedArtifact(a)
    /\ UNCHANGED <<config, head, tree, bins, confs, caddy, host, overlapped, asked, faults>>

\* Faulty NeedsCopy: a file that is there is taken for the one that should be.
NeedsCopyIfMissing(installed) == installed = "none"

\* copyFileIfChanged, writeFileIfChanged: what is there is compared by hash.
NeedsCopy(installed) == installed # "good"

\* materializeDownloadedArtifact: the files that differ are emptied, then
\* written, and the script of the plugin, which may rewrite what is there, is
\* run every time.
Compare(a) ==
    /\ At(a, "extract")
    /\ Go(a, IF NeedsCopy(tree[Artifact(a)]) \/ Artifact(a) \in Scripted THEN [act[a] EXCEPT !.pc = "empty"]
             ELSE Installed(a))
    /\ UNCHANGED <<config, head, files, host, overlapped, asked, faults>>

EmptyFiles(a) ==
    /\ At(a, "empty")
    /\ tree' = [tree EXCEPT ![Artifact(a)] = Torn]
    /\ Go(a, [act[a] EXCEPT !.pc = "copy"])
    /\ UNCHANGED <<config, head, cache, bins, confs, caddy, host, overlapped, asked, faults>>

CopyFiles(a) ==
    /\ At(a, "copy")
    /\ tree' = [tree EXCEPT ![Artifact(a)] = "good"]
    /\ Go(a, Installed(a))
    /\ UNCHANGED <<config, head, cache, bins, confs, caddy, host, overlapped, asked, faults>>

\* installPackageManagerTool, on every run: the package manager finds that the
\* version is there, or replaces what is there.
StartTool(a) ==
    LET others == {b \in Actors \ {a} : At(b, "tool") /\ Current(b) = Current(a)}
    IN  /\ At(a, "install")
        /\ act[a].todo # {}
        /\ Current(a) \notin Assets
        /\ \/ tree[Artifact(a)] = "good" /\ Go(a, Installed(a)) /\ UNCHANGED tree
           \/ /\ Opens(a, [act[a] EXCEPT !.pc = "tool"], others)
              /\ tree' = [x \in Artifacts |-> IF x[1] = Current(a) THEN Torn ELSE tree[x]]
        /\ UNCHANGED <<config, head, cache, bins, confs, caddy, host, overlapped, asked, faults>>

\* What the tools of a plugin are when one version is installed.
Holding(x) ==
    [y \in Artifacts |-> IF y = x THEN "good" ELSE IF y[1] = x[1] THEN "none" ELSE tree[y]]

\* What two have installed at once may be what neither has.
FinishTool(a) ==
    /\ At(a, "tool")
    /\ tree' \in {Holding(Artifact(a))} \cup (IF act[a].mixed THEN {tree} ELSE {})
    /\ Go(a, Installed(a))
    /\ UNCHANGED <<config, head, cache, bins, confs, caddy, host, overlapped, asked, faults>>

\* reconcilePluginBins: the links that are not wanted go, then each of the
\* others is taken away and made again.
SweepCommands(a) ==
    LET wanted == Commands(act[a].catalog)
    IN  /\ At(a, "install")
        /\ act[a].todo = {}
        /\ bins' = Only(bins, DOMAIN wanted)
        /\ Go(a, [act[a] EXCEPT !.pc = "unlink", !.todo = DOMAIN wanted])
        /\ UNCHANGED <<config, head, cache, tree, confs, caddy, host, overlapped, asked, faults>>

Unlink(a) ==
    /\ At(a, "unlink")
    /\ act[a].todo # {}
    /\ bins' = Only(bins, DOMAIN bins \ {Current(a)})
    /\ Go(a, [act[a] EXCEPT !.pc = "link"])
    /\ UNCHANGED <<config, head, cache, tree, confs, caddy, host, overlapped, asked, faults>>

\* A link that another run has made in between is an error.
Link(a) ==
    /\ At(a, "link")
    /\ IF Current(a) \in DOMAIN bins THEN Throw(a) /\ UNCHANGED bins
       ELSE /\ bins' = Put(bins, Current(a), Commands(act[a].catalog)[Current(a)])
            /\ Go(a, [act[a] EXCEPT !.pc = "unlink", !.todo = @ \ {Current(a)}])
    /\ UNCHANGED <<config, head, cache, tree, confs, caddy, host, overlapped, asked, faults>>

\* createPluginServiceDryRunPlan: the files to create or update, and the files
\* to delete, of what was there when the plan was made.
Updates(r) ==
    LET wanted == Enabled(r.catalog)
    IN  {p \in DOMAIN wanted : p \in DOMAIN r.seen => r.seen[p] # wanted[p]}

\* Faulty Deletions: the file of a plugin that the catalog has stays.
DeletionsOfUnknown(r) == DOMAIN r.seen \ DOMAIN Catalog(r.catalog)

Deletions(r) == DOMAIN r.seen \ DOMAIN Enabled(r.catalog)

\* applySupervisorConfigChanges, one file at a time, written beside and moved.
Write(a) ==
    /\ At(a, "unlink") \/ At(a, "writing")
    /\ LET r    == act[a]
           todo == IF r.pc = "unlink" THEN Updates(r) \cup Deletions(r) ELSE r.todo
           new  == todo \cap Updates(r)
       IN  /\ r.pc = "unlink" => r.todo = {}
           /\ IF todo = {} THEN Go(a, [r EXCEPT !.pc = "caddy", !.todo = {}]) /\ UNCHANGED confs
              ELSE LET p == IF new # {} THEN Min(new) ELSE Min(todo)
                   IN  /\ confs' = IF new # {} THEN Put(confs, p, Enabled(r.catalog)[p])
                                   ELSE Only(confs, DOMAIN confs \ {p})
                       /\ Go(a, [r EXCEPT !.pc = "writing", !.todo = todo \ {p}])
    /\ UNCHANGED <<config, head, cache, tree, bins, caddy, host, overlapped, asked, faults>>

\* createCaddyCandidateValidator
CaddyTakes(routes) == Accepted(routes)

\* createCaddyPluginConfigChange: compared with the file when the plan was made.
RoutesChanged(r) == Routes(r.catalog) # r.routes

\* applyCaddyPluginConfigChange: a candidate that Caddy does not accept is not
\* moved to the name.
WriteRoutes(a) ==
    LET routes == Routes(act[a].catalog)
        next   == [act[a] EXCEPT !.pc = "update"]
    IN  /\ At(a, "caddy")
        /\ IF ~RoutesChanged(act[a]) THEN Go(a, next) /\ UNCHANGED caddy
           ELSE IF CaddyTakes(routes) THEN Go(a, next) /\ caddy' = routes
           ELSE Throw(a) /\ UNCHANGED caddy
        /\ UNCHANGED <<config, head, cache, tree, bins, confs, host, overlapped, asked, faults>>

-----------------------------------------------------------------------------
(* Applying it: the rest of the script.                                    *)

Begun(p) == IF p \in Autostart THEN "starting" ELSE "down"

\* supervisorctl reread and update: the programs that are not in the files any
\* more are stopped, those that have changed are stopped and started.
Update(a) ==
    /\ At(a, "update")
    /\ loaded' = confs
    /\ prog' = [p \in DOMAIN confs |->
                  IF p \in DOMAIN loaded /\ loaded[p] = confs[p] THEN prog[p] ELSE Begun(p)]
    /\ Go(a, [act[a] EXCEPT !.pc = "start", !.todo = DOMAIN confs \cap Autostart])
    /\ UNCHANGED <<config, head, files, live, overlapped, asked, faults>>

Past(a) == [act[a] EXCEPT !.pc = "start", !.todo = @ \ {Current(a)}]

\* reconcile_enabled_plugin_programs: what is not running is started, once; a
\* program that supervisord does not know is an error.
StartProgram(a) ==
    /\ At(a, "start")
    /\ act[a].todo # {}
    /\ LET p == Current(a)
       IN  IF p \notin DOMAIN loaded THEN Throw(a) /\ UNCHANGED prog
           ELSE IF prog[p] = "running" THEN Go(a, Past(a)) /\ UNCHANGED prog
           ELSE /\ prog' = [prog EXCEPT ![p] = "starting"]
                /\ Go(a, [act[a] EXCEPT !.pc = "poll"])
    /\ UNCHANGED <<config, head, files, loaded, live, overlapped, asked, faults>>

\* The program is running, or the attempts to see it so have run out.
Poll(a) ==
    /\ At(a, "poll")
    /\ LET p == Current(a)
       IN  IF p \in DOMAIN loaded /\ prog[p] = "running" THEN Go(a, Past(a)) ELSE Throw(a)
    /\ UNCHANGED <<config, head, files, host, overlapped, asked, faults>>

\* reload_caddy_with_retry, and the end of the run: a request is answered with
\* status 200.
ReloadCaddy(a) ==
    /\ At(a, "start")
    /\ act[a].todo = {}
    /\ IF Accepted(caddy) THEN live' = caddy /\ Go(a, [act[a] EXCEPT !.pc = "done"])
       ELSE Throw(a) /\ UNCHANGED live
    /\ UNCHANGED <<config, head, files, loaded, prog, overlapped, asked, faults>>

Answer(a) ==
    /\ At(a, "done")
    /\ Throw(a)
    /\ UNCHANGED <<config, head, files, host, overlapped, asked, faults>>

\* What calls the network or another program may fail.
CanFail(a) ==
    /\ act[a].pc \in {"commit", "install", "extract", "copy", "tool", "unlink", "caddy", "update",
                      "start"}
    /\ Fails(a)

-----------------------------------------------------------------------------
(* The container.                                                          *)

\* A program that is completely installed comes up, another does not; of a
\* package manager's, it may be another version that comes up.
Comes(p) ==
    /\ p \in DOMAIN loaded
    /\ prog[p] = "starting"
    /\ LET whole == tree[<<p, loaded[p]>>] = "good"
       IN  \/ (whole \/ p \notin Assets) /\ prog' = [prog EXCEPT ![p] = "running"]
           \/ ~whole /\ prog' = [prog EXCEPT ![p] = "down"]
    /\ UNCHANGED <<config, head, files, loaded, live, act, overlapped, asked, faults>>

\* supervisorctl stop; or the program ends for good.
Stops(p) ==
    /\ Fault
    /\ p \in DOMAIN loaded
    /\ prog[p] # "down"
    /\ prog' = [prog EXCEPT ![p] = "down"]
    /\ UNCHANGED <<config, head, files, loaded, live, act, overlapped, asked>>

\* The container is started again, or made again: then only what is on the
\* volume is left.  Supervisord starts what it finds, and the first run.
Restart(again) ==
    /\ Fault
    /\ confs' = IF again THEN confs ELSE Empty
    /\ caddy' = IF again THEN caddy ELSE Empty
    /\ loaded' = confs'
    /\ prog' = [p \in DOMAIN confs' |-> Begun(p)]
    /\ live' = caddy'
    /\ act' = [a \in Actors |-> IF a = Startup THEN [Off EXCEPT !.pc = "catalog", !.alone = TRUE]
                              ELSE Off]
    /\ UNCHANGED <<config, head, cache, tree, bins, overlapped, asked>>

\* A new container; what an earlier run without the hashes has cached may be on
\* the volume.
Init ==
    /\ config = [defs |-> Empty, states |-> Empty]
    /\ head = config
    /\ cache \in {[x \in Artifacts |-> state] : state \in {"none", "bad"}}
    /\ tree = [x \in Artifacts |-> "none"]
    /\ bins = Empty /\ confs = Empty /\ caddy = Empty
    /\ loaded = Empty /\ prog = Empty /\ live = Empty
    /\ act = [a \in Actors |-> IF a = Startup THEN [Off EXCEPT !.pc = "catalog", !.alone = TRUE]
                             ELSE Off]
    /\ overlapped = FALSE
    /\ asked = 0 /\ faults = 0

Step(a) ==
    \/ ReadConfig(a) \/ PlanChange(a) \/ OpenConfig(a) \/ WriteConfig(a) \/ Commit(a)
    \/ ReadCatalog(a) \/ Plan(a) \/ FetchAsset(a) \/ Compare(a) \/ EmptyFiles(a)
    \/ CopyFiles(a) \/ StartTool(a) \/ FinishTool(a) \/ SweepCommands(a) \/ Unlink(a) \/ Link(a)
    \/ Write(a) \/ WriteRoutes(a) \/ Update(a) \/ StartProgram(a) \/ Poll(a)
    \/ ReloadCaddy(a) \/ Answer(a) \/ CanFail(a)

Next ==
    \/ \E a \in Actors : Step(a)
    \/ \E a \in Actors :
         \/ \E p \in Plugins, on, apply \in BOOLEAN : SetEnabled(a, p, on, apply)
         \/ \E p \in Plugins, v \in Versions : AddPlugin(a, p, v)
         \/ Reload(a)
    \/ \E p \in Plugins : Comes(p) \/ Stops(p)
    \/ \E again \in BOOLEAN : Restart(again)

Spec == Init /\ [][Next]_vars

-----------------------------------------------------------------------------
(* Properties.                                                             *)

Stages == {"off", "set", "dry", "open", "write", "commit", "catalog", "plan", "install",
           "extract", "empty", "copy", "tool", "unlink", "link", "writing", "caddy", "update", "start",
           "poll", "done"}

\* The type invariant; only plugins that come as assets have commands.  However
\* many runs write the file of the plugins' routes, Caddy can be started with
\* it, and it runs with routes it has accepted.
TypeOK ==
    /\ config \in Configs \cup {Torn}
    /\ head \in Configs \cup {Torn}
    /\ cache \in [Artifacts -> {"none", "good", "bad"}]
    /\ tree \in [Artifacts -> {"none", "good", Torn}]
    /\ bins \in Partial(Assets)
    /\ Accepted(caddy) /\ Accepted(live)
    /\ confs \in Partial(Plugins) /\ caddy \in Partial(Exposed)
    /\ loaded \in Partial(Plugins) /\ live \in Partial(Exposed)
    /\ prog \in [DOMAIN loaded -> {"starting", "running", "down"}]
    /\ \A a \in Actors : act[a].pc \in Stages /\ act[a].todo \subseteq Plugins

\* A run that was alone from its beginning to its end leaves the container as
\* it is wanted, whatever earlier runs that overlapped, failed or were cut off
\* have left: the files, the commands and the programs are those of the enabled
\* plugins, Caddy serves their routes, all of them are completely installed,
\* and the request that started the run is granted.
Repairs ==
    \A a \in Actors : At(a, "done") /\ act[a].alone =>
        /\ config # Torn
        /\ confs = Enabled(config) /\ loaded = confs
        /\ caddy = Routes(config) /\ live = caddy
        /\ bins = Commands(config)
        /\ \A p \in DOMAIN confs : tree[<<p, confs[p]>>] = "good"
        /\ act[a].request # NoRequest =>
             (act[a].request.plugin \in DOMAIN loaded) = act[a].request.on

\* As long as runs have not overlapped, there is a program of an asset without
\* a script, and a command, only when it is completely installed: supervisord
\* and the agents never meet a file of it that a run was cut off in.  It does
\* not hold of tools, which are replaced under the programs that use them, nor
\* of what a script rewrites.
InstalledFirst ==
    ~overlapped =>
        \A f \in {confs, loaded, bins} : \A p \in DOMAIN f \cap Assets :
            <<p, f[p]>> \notin Scripted => tree[<<p, f[p]>>] = "good"

\* docs/plugin-system/plugin-runtime-operations.md, of a plugin that is set to
\* false: "Sync/apply removes that plugin's generated Supervisor programs".  A
\* request that is answered with status 200 has had its effect.
AnsweredMeansApplied ==
    \A a \in Actors :
        At(a, "done") /\ act[a].request # NoRequest /\ ~act[a].request.on
        /\ (\A b \in Actors : act[b].request # NoRequest => b = a)
        => act[a].request.plugin \notin DOMAIN loaded

=============================================================================
