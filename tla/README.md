# TLA+ models of vibe-dashboard

This directory keeps a formal model of the dashboard beside its code: TLA+
modules translated from the source, TLC configurations that check them on small
instances, and proofs about them that the TLA+ proof system checks for any
instance. Paths below are those of the repository.

| module | models | runs | proved in |
|---|---|---|---|
| `Workspace` | the tree of spaces and craft, the saved voyages, a start | `workspace` | `WorkspaceProofs` |
| `VoyageStore` | what earlier versions stored, its migration and repair, the scripts of an operator | `voyage_store`, `voyage_store_script` | `VoyageProofs` |
| `VoyageShell` | one browser tab: its URL, the saved voyages, requests on the wire | `voyage_shell` | `VoyageShellProofs` |
| `SessionNav` | the navigation state of that tab and its effects | `session_nav` | `VoyageProofs` |
| `Places` | what `Array.filter` leaves of a list, for `VoyageStore` and `SessionNav` | | `VoyageProofs` |
| `IframePanel` | the frames of the tabs of craft | `iframe_panel` | `IframePanelProofs` |
| `GithubCi` | the CI failure workflow and the routes that run it | `github_ci` | `NotifierProofs` |
| `NudgeDaemon` | the daemon that nudges sessions that stopped | `nudge_daemon` | `NotifierProofs` |
| `NudgeLedger` | what that daemon promises: an abstract specification | `nudge_daemon` | `NotifierProofs` |
| `AgentTalk` | the commands by which agents talk to each other | `agent_talk` | `AgentTalkProofs` |
| `PluginHost` | which plugins are wanted, and the container brought in line | `plugin_host` | `PluginHostProofs` |
| `PluginStore` | installed versions, staging, promotion, rollback, assets | `plugin_store` | `PluginStoreProofs` |
| `MemoryWatchdog` | the loop that tells a channel of high memory use | `memory_watchdog` | `NotifierProofs` |

Run `x` is `MCX.cfg` with the module `MCX`, which gives the constants their values
(`voyage_store_script` is `MCVoyageStore_script.cfg`). `tlc -config MCWorkspace.cfg
MCWorkspace` checks a run, `tlapm WorkspaceProofs.tla` a set of proofs. `PROJECT.json`
lists the runs, the source lines behind every definition, a faulty variant of the code for every property, the hazards and the
findings.

## 1. Inventory

### The dashboard server and its shared state

**Workspace tree** (`src/index.tsx`, `src/types.ts`). One persistent state,
`workspace`: spaces that list craft, craft (in the code: tab groups) with tabs,
pairs of tabs, pinned tabs and perhaps a VK workspace, and an id counter. About
twenty-five actions change it; every browser calls them remotely and sees the
same state. Right when: it stays a tree; nothing shows what is gone; Home exists
and no space is empty; a VK workspace has one craft.

**Saved voyages** (`src/index.tsx`, `docs/voyage-navigation-model.md`). A second
persistent state, `workspace-sessions`: voyages, each a list of entries (a craft
and its views) with an active one, and what repeats of it (its craft, its space,
the craft visited). The actions that delete craft, tabs or pairs repair the
voyages afterwards. Right when: every voyage can be resumed, whatever has been
deleted; no craft is twice in one; no entry is lost in a move; voyages do not
vanish without cause.

**Start of the module** (`createWorkspaceModule`, `lib/savedVoyageState.ts`,
`modules/plugins/vibe-dashboard/craft-surfaces.ts`). Saved states are migrated,
voyages repaired, tabs that are built in today dropped from the craft. Hard:
three passes, each written for the state another one leaves.

**GitHub CI failure workflow** (`src/workflows/github-ci.ts`,
`src/server/workflow-routes.ts`, `src/modules/WorkflowServerModule.ts`). A webhook
of a failed CI run looks for the VK workspace on that branch and sends its agent
a prompt. State: `notifiedFailureShas`, the commits prompted for, and
`cachedGitRepos`, the aliases of local checkouts. Hard: deliveries are handled
concurrently and interleave at every `await`; VK fails or answers late; GitHub
redelivers; the process restarts. Right when: a commit is prompted for once, a
commit nobody was prompted for can be prompted for later, and every delivery is
answered.

**Workflow core** (`packages/workflow-core`). A registry and `runWorkflow`, which
records the start and the end of a run through callbacks that may fail. Not
modelled: the server registers no recorder, and `GithubCi` has the workflow as it
is run.

**Plugin routes, VK client, plugin registry** (`src/server`,
`src/modules/plugins`). Requests answered from files or from VK; surfaces
composed from declarations. No state of their own; the routes for plugins and
their assets are in `PluginHost` and `PluginStore`.

### The browser

**Main shell** (`MainUIShellModule.tsx`, `WorkspaceShell.tsx`, `lib/voyage*.ts`):
which voyage and entry is on screen, the activation that waits for a voyage to
arrive, remote mutations that finish after the user has moved on. Hard: stale
closures, answers in another order than the questions, voyages that go meanwhile.
Right when: what is opened is shown, a user who has moved on is not pulled back,
and nothing is left pending.
**Session navigation** (`sessionState.ts`): the voyage of one browser tab as five
effects that set the state they depend on, two broadcasts that each lag behind,
and the URL. Right when: the effects come to rest, on what the URL says.
**Embedded tabs** (`IframePanel.tsx`): frames kept outside of React, shown,
retained, evicted and reloaded. Right when: the frames in the page are those of
what is shown and retained, and no tab is loading for ever.
**Sidebar, overview, dialogs**: views, with the state of their own layout.

### Agents and operations

**Nudge daemon** (`scripts/vibe-agent/nudge`): polls VK and sends "Continue" to
sessions that stopped half-way, once for each process; the ids it has nudged are
in memory and in a state file written after each nudge. Hard: VK and its users go
on between any two requests; a lost answer, a crash or a failed write between the
nudge and the file. Right when: a process whose nudge is on file is left alone
for good.
**Commands of agents, role file** (`scripts/vibe-agent/legacy-cli`, `core`):
one-shot programs and the runners they leave behind send messages between
sessions; the roles of sessions and what has been read are in files that are
read, changed and replaced without a lock. Right when: who asked is told once
what became of it, and nothing is passed over unread.
**Plugin orchestrator** (`plugins/orchestrator/plugin-*.ts`,
`src/server/plugin-admin-routes.ts`): the plugins that are wanted; a run installs
them and writes the files of Supervisor and Caddy one by one. Hard: runs overlap,
fail at any stage, are cut off. Right when: a run that is alone puts everything
right.
**Installer, staging runtime** (`installer.ts`, `staging-runtime.ts`): versions of
a plugin on disk; staged, promoted, retained and rolled back. Right when: what
counts as verified is whole, and a rollback brings back what was there.
**Maintenance scripts** (`scripts/*-voyages*.mjs`): change the stored voyages
while the server is down.
**Memory watchdog** (`scripts/memory-watchdog.mjs`): readings, streaks, alerts.
Right when: the channel knows what the watchdog has on record.
**Container and bridge runtimes, Caddy handler, container start**: process work
around external tools.

## 2. GithubCi

A delivery is a process; `stage[d]` says which `await` its handler is suspended
at, or how it ended. JavaScript runs a handler uninterrupted from one `await` to
the next, so **an action is the code between two awaits**: `StartRun` is
everything from the call of the workflow to the request for the workspaces
(normalise, check the set, add to the set), `WorkspacesListed` what happens with
the answer, and so on. The answer may come at any time, in any order across
deliveries, or be an error.

| code | model |
|---|---|
| `notifiedFailureShas` | `notified`, lost by `Restart` |
| `cachedGitRepos`, `hydrate...` after an await | `cacheIs`, `cache`; `HydrateDone` assigns whatever is there by now |
| `POST /webhooks/github`, `POST /workflows/:id/run` | `Receive`, `ReceiveRun` |
| `workflow.run` | `StartRun`, `WorkspacesListed`, `ReposFetched`, `SessionsFetched`, `SendSucceeds`, `SendFails`, `VkReadFails` |
| retry of `runGitHubCiFailureWorkflow` after a refresh | `round`, `RefreshDone` |
| VK | `VkAccepts`, `VkDrops`; `WorldChanges` for its workspaces, sessions and checkouts |

`wire[d]` is the prompt on its way: it may be accepted and the answer lost
(`SendFails` after `VkAccepts`), and it may still be accepted after the process
that sent it has died. `epochOf[d]` remembers in which incarnation a delivery
claimed its commit; it is not in the code and no action reads it.

Left out: the signature (a bad one is `rejected`), log texts, the prompt. The
rules by which a repository is recognised are abstracted to whether VK knows it
by its GitHub name (`NamedRepos`) or a cached alias does.

**Run.** `github_ci`: two deliveries of two commits, one workspace and a restart,
with fair handlers: `ClaimsAccounted` (the set is exactly the commits of the
deliveries in charge of them), `NoDoublePrompt`, and the liveness property
`EveryDeliveryAnswered`. `OneOwnerPerCommit`, `ClaimReleasedByHolder`, `PromptInv`
and the types are proved and in no run.

**Bounds.** Two deliveries are enough for every race here: all conflicts are
between two handlers, over one commit, one set and one cache. A redelivery is the
second delivery of the first's commit; two commits show that a claim on one does
not touch the other; the workspace shows the commits under another name, so that
it matches through the cached alias only; one restart (`MaxRestarts`) that claims
are lost while a request is on the wire. No symmetry is used, because of the
liveness property.

**Fairness.** `FairSpec` has weak fairness of `Handle(d)` for each delivery: Node
runs every continuation that is ready, and a socket answers or fails in the end.
Nothing is assumed of VK, of arrivals or of restarts: `SendFails` is enabled
whenever a handler waits for its send. `CHECK_DEADLOCK FALSE`: the instance stops
once every delivery has been handled.

## 3. Workspace

Actions of this module run on the server without an `await` between reading and
writing, so each is one step. `Init` is `createDefaultWorkspace` with no voyage.
Any client calls any action at any time with ids it sees (`ChangeSpaces`,
`ChangeCraft`, `ChangeVoyages`); `Boot` is a start on the states as they were
saved and is enabled in every state.

| code | model |
|---|---|
| `workspace.spaces`, `workspace.tabGroups`, `nextId` | `spaces[s]`, the set of its craft; `tabGroups[c]`, its tabs with their URLs (`url`), pinned tabs, pairs and VK workspace (`ws`); `nextId` |
| `workspace-sessions` | `savedVoyages[v]`: entries with their views, and the active entry, its craft, its space and the craft visited as the code repeats them |
| a voyage entry id `ve_<craft>` or `ve_<craft>_<n>` | `<<craft, n>>` with n = 0 for the first |
| `repairSavedVoyagesForCurrentWorkspace` | `RepairSavedVoyages`, in every action whose code calls it |
| `findVKWorkspaceSelection` or `addVKWorkspaceCraftToWorkspace` | `FindOrAddVKCraft`, `SelectionForVK` |
| `closeTab`, `closeActiveTab` | `CloseTab`, which repairs, and `CloseActiveTab`, which does not |

Abstractions:

- Ids come from one counter and tabs, pairs and craft are appended, so "the first
  tab" is the one with the least id. The order of spaces, of craft in a space and
  of entries is the user's and is left out: "the first entry that is left" is any
  of them, and what holds of any holds of the first.
- Views are sets: the order of a split and its ratios are layout. Pairs have two
  tabs. URLs are kinds (`page`, `internal`, `create`, or a page of a VK
  workspace).
- Left out: names, labels, emoji, slugs, stars, timestamps,
  `activeItemsByVoyageEntryId`, task attempts of VK workspaces, and
  `upsertSavedSession`, which only the end-to-end tests call.
- Of the migration at a start only the dropping of tabs under `/workspaces/` is
  modelled, after the repair as in the code; the migration of voyages is in
  `VoyageStore`.
- A client's selection in `addSelectionToSavedSession` is one tab or a list of
  views; the views it comes to are `ViewsToSelect`. The branch of
  `ensureCreateWorkspaceTab` that makes a craft and the id suffix of a moved entry
  are unreachable (`TreeInv`, and the guard of the move) and left out.

**Run.** `workspace`: `TypeOK`; `TreeInv`, with the one craft a VK workspace has;
`ViewsFollowTabs`, how the views of an entry may change; `VoyageInv`, everything a
voyage says agrees with the tree and with itself; `EntriesConserved`, what moves
and removals may do to the craft of all voyages together; `VoyagesKept`, why a
voyage may disappear. `OneEntryPerCraft` is proved and in no run.

**Bounds.** `MaxId` bounds the ids handed out (guard `Room`). Four ids (0 is the
overview craft and its tab) with two voyages are enough for a second space with a
craft, a pair of two tabs in one craft, the replacement of the last craft of Home
and of another space, a VK craft next to a craft with an agent tab of the same VK
workspace (`UserUrls` has its page); for voyages of two and three entries, a move
in either direction, the refusal of a move to a voyage that has the craft and of
the last entry, and deletions of the active craft. One VK workspace is enough for
"it has one craft". `Sessions` are symmetric. No fairness is assumed: nothing here
has to happen. `CHECK_DEADLOCK FALSE` only because ids run out; a start is always
possible.

## 4. NudgeDaemon

One daemon (`doing` says which `await` it is suspended at) against VK and its
users, who act between any two of its steps. A turn is a coding agent's process;
`turns[s]` numbers those of a session in the order of creation and says what
became of each.

| code | model |
|---|---|
| `nudgedProcessIds` in memory, the state file | `known`, `file` |
| `runNudgeDaemon`, `runNudgeDaemonCycle` | `StartCycle`, `ProcessesFetched`, `NothingToSend`, `SendNudge`, `NudgeAnswered`, `EndCycle`; `FetchFails` and `NudgeFails` for what a `catch` sees |
| filter, sort and slice of the processes | `Unknown`, `Listed` |
| `selectNudgeCandidateForSession`, `decideNudgeForProcess` | `Candidates`; `stopped` stands for the evidence of work without an answer |
| `fetchConversation` | `Tales`: a stream that closes early counts as whole |
| `writeNudgeDaemonState` | one step, or none when it fails: the file is replaced by a rename |
| VK and its users | `UserPrompts`, `TurnEnds`, `SessionRewound`, `VkTakesNudge`, `VkRefusesNudge` |

`sends` keeps every nudge, what VK did with it and whether it was written to the
file; the daemon reads none of it but the nudge it waits for. VK may accept one
whose sender has given up or died, and refuse any.

Left out: processes of other kinds, and those older than the container, which are
never looked at; the order in which sessions are visited (any); a state file that
is missing or corrupt after it was written; a failed list of workspaces (a cycle
with nothing to do). Whether a running turn is stale is a choice.

**What it promises** is `NudgeLedger`, six lines: a ledger of turns; no turn on it
is nudged; a turn comes on it only after VK has taken a nudge for it, and never
leaves. `KeepsLedger` is that specification with the state file for the ledger,
the turns of `sends` for the nudges and those that VK has accepted for what was
taken. It is a PROPERTY of the run and a theorem.

**Run.** `nudge_daemon`: `NudgedOnce` and `KeepsLedger`, with nudges of running
turns allowed, so that every branch of `Candidates` is taken. The types, `FileKnown`
and `FileGrows` are proved and in no run.

**Bounds.** Two sessions with three turns in all (`MaxTurns`), two nudges in all
(`MaxSends`): enough for a second nudge of the same turn after a failed write or a
lost answer, a nudge of another session or of the next turn after one is on file,
and the turn that an accepted nudge starts; one session may have more turns than
are looked at (`MaxListed` is 2). The sessions are symmetric. No fairness: nothing
is claimed to happen in the end. `CHECK_DEADLOCK FALSE` because turns and nudges
run out.

## 5. The browser

**VoyageShell.** The server's craft and voyages (as `Workspace` has them, reduced
to which craft a voyage has entries of), a tab's copies of them, its URL, and the
requests it has on the wire.

| code | model |
|---|---|
| URL and query | `url`, a voyage and a craft; `stored` what the browser's storage has of it |
| `pendingSavedSessionActivationRef` | `act` |
| `currentSessionIdRef` | `current` |
| state of the shell (pending tab, mutation, waiting selection, operations) | `shell`, `ops` |
| effects of the route and of the shell | `Render` |
| calls nobody waits for | `mirrors` |

An event and the render with its effects are two steps, with none of the tab's
events between them; steps of the server commute with a render and are left out
there. Answers come at any time and in any order, or are lost.
`TypeOK` (and the server never has an entry of a craft that is gone);
`NothingHangs`: at rest no Open Craft is pending, unless its craft was deleted
before the tab was sent it, in which case the spinner stays; `RestsOnEntry`: at
rest the URL names an entry of its voyage, and an activation that is pending is
one of the voyage of the URL; `StaysInVoyage`: an answer of Open Craft navigates
only if the URL is in the voyage it was asked for in, or, when the shell it was asked
in has been unmounted, was when that shell was rendered last; and a render goes to
another voyage, or activates an entry, only for a craft waited for in the voyage of
the URL; `StaysOpened`: what was opened is not taken back to the old active entry.
*Bounds:* three craft and three voyages, one of each yet to be made; two requests
at once, three asks of the user and others, one mirrored call; three starts
(a craft already gone and three asks; both craft, and no voyages at all, with two
asks left). Two requests are what it takes to have answers out of order, three
asks to ask, go elsewhere and come back. The two voyages are symmetric.
*Left out:* names and tokens of URLs (`voyageUrl.ts:27`), the order of entries, the
selection within a craft. The branches for a waiting selection of kind `current`
and for `pendingOpenCraftSessionId` cannot be reached, nor can the one for an entry
that was moved to a new voyage from no voyage (`WorkspaceShell.tsx:1956`): a shell is
mounted only for a voyage that the tab knows.

**SessionNav.** `useSessionWorkspaceNav`: `nav` (entries, the active one, its craft
and space), the query parameters as `url`, the workspace and the saved voyage as
last broadcast, and `last`, `pending` for the refs between renders. `Flush` is one
round of the five effects, which run together before the next event; `round`
counts them. The calls of the hook are actions of their own.
`TypeOK`, with ids of entries unique and the effects at rest after three rounds;
`ShowsVoyage` and `FollowsUrl`: at rest the active entry is there, is the one of
the URL and is shown with its craft and space, and the entries are the saved
ones; `OthersKept`: edits neither lose nor double another entry.
*Bounds:* three craft in two spaces. One is in both workspaces, with a second tab and
a pair that go; the other two come and go, and with one of them a space. Two voyages,
one of two craft that come and go and one with two entries of one craft; two URLs, of
which each voyage has one; three entries at most, two of a craft. That is enough for a
voyage whose craft are lost before the voyage that is repaired arrives, for a URL that
arrives before its voyage, and for every one of the three rounds.
*Assumed:* the workspace is broadcast before a voyage that names a new craft
(`AllThere`), and what a voyage still names and has gone does not come back, since ids
of craft and tabs are never used again (`NothingBack`). In the app the hook's own
selection is not reached while a voyage is saved; `called` tells such states apart.
Noted: `setActiveTabGroup` of a craft not yet broadcast is lost, and
`removeTabGroupFromSession` with duplicate entries leaves an active id of no entry
until the next round of effects. The hook's `resumeSession`
(`src/sessionState.ts:1121`, which nothing in the app calls) would come to rest beside
its active entry if it were given a voyage whose active craft has gone and whose space
has not; it is given voyages in step here. As long as a voyage names craft that have
gone, a URL that names its one entry left may not be followed: until the repaired
voyage arrives the tab shows the default craft, and `FollowsUrl` speaks of voyages in
step (`InStep`). *Left out:* what `startNewSession`, which nothing calls, does with a first
tab and with a craft that has gone.

**IframePanel.** `frame[t]` is the frame of a tab in the store outside React,
`retained`, `ready` and `failed` the panel's state, `hosts` the hosts in the page,
`rendered` what the last render was given. A render and its effects are two steps,
and frames load, fail and are found ready at any time. As long as a frame has failed
and is ready, the effects set a new map of errors and the panel is rendered again and
again (`IframePanel.tsx:604`; `Failing`); what holds at rest is checked between those
renders. The ten seconds of a content check go on after content was found, and may
end those of a later page (`ContentFound`).
`FramesInPlace`: at rest what is shown and retained is in the page, and nothing
else, within `MAX_RETAINED_IFRAMES`; `PreviousKept`: who goes back finds the frames
of before, if both fit; `LoadingEnds`: no tab is loading for ever.
*Bounds:* three tabs for two frames, alone or in a split, two voyages, three acts,
one failure: enough for an eviction, a return, and a failure while another tab is
shown. Times are a dense order; tabs shown together are as recent as each other in
any order.
*Fairness:* weak, of renders, effects, loading and the checks of content: the
browser goes on, a frame loads or fails. *External:* a frame that is taken out of
the page loses its document.

## 6. Agents

**AgentTalk.** A command is a process (`proc[p]`, its `pc` the request it waits
for), and so is the runner it leaves behind. `sessions` and `turns` are the
service's, in the order of creation; `file` is the file of roles, `pager` that of
what has been shown; both are read as a whole and written as a whole. The service
may refuse a request, or carry it out and lose the answer; a process may be
killed. `TypeOK`, with one session for a role whatever two writers overwrite;
`ToldOnce`: a message sent with `--respond` is answered once and a callback
completed once, not before its command is over, and a failure comes beside an
answer only if its sender did not learn of it; `SeenWereShown`: nothing counts as
seen that was not shown, over limits, other readers and overwritten files;
`RunnersSettle`: whatever leaves a runner behind ends with its message a turn of the
session that it was to tell, or with a line in its file that there will be none.
Excused are a command that may run on for want of a timeout, and, only when something
has gone wrong, one that failed before its runner was left behind, one that was
killed, and a review whose send failed, which exits without a word.
*Bounds:* two agents, two commands at a time from sixteen starts that pair the
kinds of commands, one fault, one turn shown at a time (`LimitTurns`). Every race
here is of two processes over one file or one session.
*Fairness:* weak, of each process and of the end of turns: a process runs, and an
agent ends its turn (external; a turn that never ends has its runner wait for
ever, as the code does).
*Noted:* two concurrent `send` commands may create two sessions for one role, of
which one is lost from the file; `register-self` without a session takes the most
recent one. *Left out:* `--all` and `--no-advance`, the cut of long texts, commands
that only print.

**MemoryWatchdog.** `total` and `alerts` are what is on record of the host and of
the processes, `told` what the channel was told last, `unsure` those whose last
message failed. A check reads once; its messages are awaited one by one, and one
that fails ends the check. `ToldUnlessFailed`: the channel knows what is on record,
whichever checks were cut short; `KeptHighIsTold`: a host that stays high is told
of in the end even if messages fail, and every process that stays over its
threshold gets on record. For a process more is not to be had: what is told is
noted before it is sent, and the alert of a process whose message failed is never
sent again.
*Bounds:* the host with four levels of memory and two processes, streaks of two,
one fault: growth, reminder and recovery happen, and one message is cut off while
another waits. Streaks stop at their limit, beyond which the code compares no
further; time is counted in intervals while the host's alert is active.
*Fairness:* weak, of the loop: its timer fires and a request comes back.
*Left out:* the test message at the start. A process is its pid and command.

## 7. Plugins

**PluginHost.** `config` (what is wanted, the file of the instance), `cache`, `tree`,
`bins`, `confs`, `caddy` (the files), `loaded`, `prog`, `live` (what Supervisor and Caddy
run), and `act[a]`, an apply run by stage: plan, install, extract, copy, link,
write, reload, update, poll. Runs overlap and are cut off between any two files.
`TypeOK`, with Caddy's files always acceptable to it; `Repairs`: a run that was
alone leaves everything as wanted, whatever earlier runs have left, and its
request is granted; `InstalledFirst`: as long as runs have not overlapped, no
program or command is of an asset without a script that is not completely installed.
*Tools.* Each version of a release asset has a directory of its own. A package manager
installs into one toolchain, on every run: it finds the version there, or replaces the
other one in place (`StartTool`, `FinishTool`), and a run may fail or be cut off
meanwhile. The same is true of the script of an asset (`postExtract`), which is run
again over what is in use (`Scripted`). `InstalledFirst` is about assets without a
script only; see what was noted below. `Repairs` covers all.
*Bounds:* two plugins (an asset, whose second version has a script, and one from a
package manager; one of them refused by Caddy in one version), two versions, the run
of the container and one of a user, two requests, one fault. One installer and one
service for each plugin.
*Assumed:* a package is of one plugin, what a version names does not change, and a
package manager makes whole what is there in part.
*Left out:* the validation of catalogs, ports and environments, dry runs.
A poll may give up any time; a restart keeps or recreates the container. Overlapping
runs can undo a disable (`AnsweredMeansApplied` below).

**PluginStore.** For one plugin: `tree[v]` and `meta[v]` are the directory and the
`verified.json` of a version, `inst[i]` an install between two file operations,
`req[r]` a request for an asset between two reads, `staging`, `active` and `retained`
the records of the staging runtime. The temporary name of an install is of the process
and the millisecond: two installs of a version may share one (`Unpack`), and then move
and remove each other's files. `VerifiedIsWhole`: a version that counts as verified has
the whole tree of what was verified, also after installs that failed or were cut off,
but it does not hold if two installs were putting it there at once (`overlapped`);
`ServedIsVerified`: an asset that is sent is of the verified artifact, was not
disabled all along, and is of the newest version known when it was asked for;
`RollsBackToLast`: a rollback to a version that is not in production brings back
what was last in production of it, and the version left last can always be gone
back to. (A rollback to the version that *is* in production may bring back an
older record of that version; the code does not keep the two apart.)
*Bounds:* three versions, one of them built twice, two installs at a time, one
request, one install cut off; three starts: nothing installed and three installs,
an old version with one install and three acts, all installed and eight acts with
two versions retained (`MaxRetained`), so that the list overflows.
*Noted:* a torn `verified.json` fails every later install of its version. Overlapping
installs may leave `verified.json` without a tree, with no crash: of two that share a
temporary name the first moves the tree into place, the second removes it, finds
nothing to move and fails, and the first writes `verified.json`. Promotion asks for no checks. Installing and staging are
called from tests only at this commit, discovery by the asset routes.

## 8. VoyageStore

What earlier versions have stored (`store`: a version and voyages in its format),
`resume` (which voyage an origin resumes), starts of the server that may be cut off
between the migration and the repair, and the three scripts, which run while the
server is down. The tree of craft is fixed; some craft voyages refer to are gone.
`Migrated`, `Deduped`, `Repaired` are translated as functions from stored voyages to
stored voyages. The module has an instance `W` of `Workspace` with its variables
mapped to the result: `WorkspaceAccepts` checks `Workspace`'s own `VoyageInv`, the
assumption with which that module starts, of what a running server has, and that
another start changes nothing. `VoyagesKept`: no voyage is lost but those named
Home, those of craft that are gone, all but one of duplicates (same name, craft
and views), and what an operator asks to be removed; the origins follow.
`ShownAsBefore`: after a start a voyage is on the craft it was on, in their order,
with the same views where that can be told.
*Bounds:* 5,864 initial states: every pair of nine voyages of the first format with
two names, every pair of seven of the second, and every three of the second under
one name, with either voyage resumed or none; craft with tabs, with a pair, of Home,
of a VK workspace and gone; two scripts, one new voyage. Pairs show every case of a
duplicate, three the choice of a keeper.
*Left out:* records that are not voyages, slugs, and the order of the voyages in
their list, which nothing here depends on: what is kept of duplicates is decided by
`updatedAt`, `createdAt` and the id. The first two are one `age`, youngest first. The
branch of `chooseKeeper` on names is dead, since names are compared before. The
migration of the server does not update the pointers to resume, which nothing reads
today. An active item of the first format that is neither a tab nor a pair (the agent
of a VK workspace) becomes no view: `getLegacyActiveItemViewIds` looks among tabs and
pairs only, and the repair then shows what the craft has. `ShownAsBefore` speaks of
tabs and pairs.

## 9. What is proved

The proofs hold for any sets of deliveries, commits, repositories, workspaces,
sessions, ids, craft, voyages, requests on the wire, versions, artifacts, plugins and
processes, under the assumptions
the modules name, which TLC evaluates in every run. Most of an assumption says of
what kind a constant is. What else they say, and why the code justifies it:

- `WorkspaceAssumption`: ids are numbers, what stands for no tab or an agent's is
  none, and a URL that a client gives to a tab is of a kind the server tells apart.
- `ShellAssumption`: what a tab is loaded with are voyages that can be resumed, of craft
  there are (what `Workspace` keeps, theorem `VoyagesResumable`); what stands for nothing,
  or for a shell that has gone, is none of the rest.
- `TalkAssumption`: a start is a state of the service and calls that parse.
- `StoreAssumption`: versions are numbers in the order of `compareVersionsDescending`,
  which is not that of semantic versions (it takes 1.0.0-rc.1 for newer than 1.0.0,
  `installer.ts:412`), and there are finitely many; at least one production record is
  retained (the code keeps three).
- `HostAssumption`: plugins are places in a catalog, and the catalog of the image
  gives some of them a version; a file that is being written is neither a
  configuration nor an intact tree.
- `NavAssumption`: saved voyages are as `Workspace` keeps them (`VoyagesResumable`): they
  have entries, ids of their own, an active one, and its craft and space.
- `SavedAssumption`: the tree is one that `Workspace` keeps (`TreeIsWhole`: every craft in
  a space, pairs of its tabs with ids of their own). A stored voyage has the fields its
  format has: items are tabs, pairs or the agent; ids of entries tell their craft
  (`createVoyageEntryIdForTabGroup`); its craft is that of the active entry, or one of
  its craft. It is not assumed that anything it refers to is still there. A voyage saved
  by a running server is as a repair makes it, which the actions of `Workspace` see to.

**NotifierProofs, of GithubCi.** `CiTypeCorrect`. `PromptInvariant`: `PromptInv` is inductive. It
says of each delivery where its prompt can be and in which incarnation it claimed
(`EachDelivery`), of two deliveries of one commit and incarnation that at most one
is *prompting*, i.e. has a claim, has used it, or died with its request on the
wire (`OnePrompting`), and that the set of notified commits is that of the owners
(`ClaimsAccounted`). The last is needed because the check of the set is all that
keeps a second delivery out; the part on dead handlers because VK may accept
their request after a restart. From it follow `ClaimsAreAccounted`, `OneOwner`,
`AtMostOnePrompt` and, with a case split over the steps, `OnlyHolderReleases`.

**WorkspaceProofs.** The inductive invariant `Tree /\ Voyages` (theorem `Whole`).
`Tree` is `TreeInv` with typed ids: that the next id is larger than all in use is
what makes appended craft, tabs and pairs fresh. `Voyages` says of every voyage
that it is resumable and has no craft twice; it needs `Tree` because a repair
looks for the space of a craft and finds one only if every craft is in one. A step
is looked at twice. To the tree it changes one craft (`CraftChanges`), appends one
(`CraftAppended`), replaces the last of a space (`CraftReplaced`), adds a space
(`SpaceAdded`), drops craft (`CraftsDropped`) or drops tabs (`BootTree`). To the
voyages it does nothing while the tree only grows (`UnchangedVoyages`), repairs
all of them (`RepairGivesVoyages`), or sets one or two (`VoyageSet`,
`TwoVoyagesSet`). From it: `TreeIsWhole`, `VoyagesResumable`, `NoCraftTwiceInVoyage`. `OneCraftForVK`, which `TreeIsWhole` uses, and `VoyagesAreKept`
have an argument of their own: no step but `FindOrAddVKCraft` makes a craft of a VK
workspace, and no step but a repair or a deletion drops a voyage. The views of
entries need more: `Fit` bounds what a craft and an entry may hold (no more than the
two tabs of a pair; a view for every VK craft), and `VoyageStep` says that any step
leaves a voyage's entries, repairs some of them and drops the others, sets one, or
begins them. `TypeCorrect` follows from `Fit`; `ViewsOnlyFollow` and
`NothingLostOnTheWay` are read off those four.

**VoyageShellProofs.** One inductive invariant, `Typed /\ Tracked /\ Rendered` (theorem
`Invariant`). None of `TypeOK`, `NothingHangs` and `RestsOnEntry` is inductive: the last
two say something only when nothing is under way, and what they say then rests on what
every event before left. `Typed` adds to the types that whatever an answer navigates to
is a voyage, or a craft that is shown instead of a closed one. `Tracked` says which
request the shell waits for: the mutation is the slot of a request of Open Craft that is
under way and that this shell will see the answer of; a tab that is pending, and waits for
no craft yet, has the mutation, and its operation is the origin and craft of that request;
where no shell is mounted no request waits for one. The operation is needed for a retry:
when it fails after the user has left, `onError` clears the tab only if the operation is
still its own, and if it is not, a later Open Craft has taken over the mutation too.
`Rendered` says what a render leaves until the route has to be rendered again: a craft
that is waited for has not arrived; an activation that is pending is of the voyage of the
URL and of an entry that has not arrived; without one the URL names an entry, or its
voyage has no active craft that the tab knows. At rest the last is impossible by `Typed`,
since the tab has then what the server has, hence `RestsOnEntry`. The step is one lemma
for each way in which an event ends: it navigates (`GoKept`), asks (`AskKept`, `SentKept`),
is answered (`SetShellKept`), is the server's (`OthersKept`) or a render. `StaysInVoyage`
follows by cases: by `SettlesBy`, all that settles a request and navigates without the
user is the answer of that request, `NavigatesOwned` compares its origin with the URL,
which is in the voyage of the shell by `Rendered`, and `RenderLeaves` goes through the
effects of a render. `StaysOpened` follows from the types.

**NotifierProofs, of NudgeDaemon.** `DaemonTypeCorrect`, by way of `NudgeTyped`, which adds that VK never
takes back a turn the daemon was told of. `RemembersItsFile`: `Remembered` is
inductive. `NudgedOnce` alone is not: that no nudge is sent for a turn on file
rests on the daemon remembering whatever is on file (`FileKnown`); that a nudge
marked as recorded is on file is `OnFile`; and an answered nudge may only be
marked because its turn was not remembered when it was sent and is not remembered
now (`NewlySent`). From it `NeverNudgedAgain`, and `FileKeepsItsTurns`.
`LedgerKept`: the daemon implements `NudgeLedger`. Beside `Remembered` it needs
`Earned`, that only turns VK took a nudge for are remembered; then a nudge is a step
`Nudge` of the ledger, VK's acceptance a `Take`, a write that succeeds an `Enter` of
whatever the file did not have yet, and every other step changes nothing of it.

**NotifierProofs, of MemoryWatchdog.** `WatchdogTypeCorrect` and `ToldIsOnRecord`, from the inductive
invariant `Honest`. `ToldUnlessFailed` says nothing of a subject while its message
is under way; `MessageOK` adds that such a message says what is on record, and that
a process whose recovery is being told is not looked at again in that check, since
its entry is dropped when the message has arrived.

**AgentTalkProofs.** `TypeCorrect`, from `Typed`. That calls do not run out of room
in the service is not inductive as it stands: `Rooms` counts the sessions and turns
there are together with those that processes may still ask for, by the stage each
process is in. That a role leads to one session (`OneRole`) must hold of the file
and of every copy of it that a process has read and may write back.
`ToldAtMostOnce` needs `Talks`, which says of a process stage by stage what it has
told already and what it knows of the turn it waits for; each step of a process
keeps it of that process, and of the others because a turn that is over stays over.
`SeenIsShown` rests on `Books`: what the file says was seen *and what any process's
copy of it says* was shown, or is about to be by whoever wrote it.

**PluginStoreProofs.** Three inductive invariants, for the three parts of the state
that no step changes together. `VerifiedVersionsAreWhole` follows from `Directory`: the
tree and the `verified.json` of a version are of an artifact of that version
(`OfItsVersion`), and of a version that no two installs were putting there at once
(`Alone`) at most one install is under way, the temporary tree it fills is its own,
and the tree and `verified.json` are what the stage of that install says.
`AnswersAreOfVerified` follows from `Answers`, on what a request for an asset
knows at each of its reads: the versions it has yet to look up are older than the
one it will answer with. `RollbackIsToLast` follows from `Deployment`: `retained`
lists the last records of each version in the order of `past`, a history variable,
and every first one of a version is the last of it there; what falls off the end of
the list is the oldest.

**PluginHostProofs.** One inductive invariant, `Typed /\ Company /\ Alone /\ Firm`.
`Typed` gives the variables their types; that `plugins.caddy` is one that Caddy takes
is part of it, and needs that a run checks the routes it is *about to* write.
`Company` says what it is to be alone: nobody else is under way, and as long as runs
have not overlapped, whoever is under way is alone. `Alone` says, stage by stage of a
run that is alone, what is done: what is wanted is what it read (`Wants`), the assets
of the plugins it is past are whole (`Installs`), the commands, files, programs and
routes it is past are those wanted (`Applies`). When the run is done that is `Repairs`,
theorem `RunsRepair`; nothing is assumed of what was there when it began. `Firm` adds,
as long as runs have not overlapped, that the assets in use are installed, and that a
tree that a run has begun to write over was not intact: `InstalledBeforeUse`, of assets
without a script. Of tools `Firm` can say nothing.

**IframePanelProofs.** `Typed`, `InPlace` and `Recent`. `InPlace` ties together what the
document, the places of the panel, the last render and the store have to do with
each other between a render and its effects: unless a new version of the store is
due, the places are those of the frames in the document; and a render is of what was
retained, since nothing but effects changes that. From it, effects that ask for no
other render have put every frame that is rendered, and no other, into the document
(`PlacedAll`), hence `FramesAreInPlace`. `PreviousIsKept` needs `Recent`, on the order of
what is retained: what is shown is the youngest, then what was shown before. The
step is `PreviousStay`: were one of those evicted, fewer than `MaxRetained` would
stay. It needs that there are finitely many tabs (`PanelAssumption`), and that the
order by ranks that the module keeps is the order of times (`DenseStrict`).

**VoyageProofs, of SessionNav.** The effects of a round see the state of the render and queue
updates of one state, so that an invariant has to say what each of them leaves for
those after it. `Inv` has four parts (theorem `Invariant`). `Sound`: whatever shows a
space has entries, and each shows something. `Matched`: what is shown is the active
entry, unless the voyage the tab was loaded with names what is gone. `Following`: until a
function of the hook is called, the entries are those of the voyage the last round
saw, and the entry of the route it saw is active with its views. `Resting`: when no
round is due, the last round saw what is there now, and every entry is of a live craft
and shows what the craft has. `Resting` is what makes a call of the hook work on
entries that need no repair; and together with `NothingBack` it is why a workspace that
changes beside its voyage leaves the route where it was (`RouteStays`).
`ShowsTheVoyage` and `FollowsTheUrl` are `Inv` at rest. `TypeCorrect` needs two more.
`Typed`: ids of entries are unique, which every way of making, loading and repairing
entries keeps because `FreeId` is free. `Rounds`: a round that follows another has the
same voyage and route before it, so that it loads at most because nothing is shown, or
a craft has come or gone; what it leaves shows a live craft (`HomeCraft`); what the next
leaves no round changes (`Final`), so that a fourth never comes. `KeepsOthers` follows from the
unique ids: of entries with ids of their own the lengths are the numbers of ids.

**VoyageProofs, of VoyageStore.** `WorkspaceAccepts` speaks of the voyages as
a whole: another start changes none. `StoreInv` is what the steps keep: what a running
server has is `Mended`, voyage by voyage, that is, in the current format, with an
entry of live craft, and as a repair leaves it. A repair mends whatever was stored
(`RepairedMended`: what repeats the entries is a function of them, and the views of
repaired entries are normal), and reading a mended voyage changes nothing; hence
`AcceptedByWorkspace`, with Workspace's `VoyageInv` read off `Mended`. `KeepsVoyages` and
`ShowsAsBefore` follow a voyage through the passes of a start. What normalisation makes of
it is `Alike` (same name, craft and views; the views of an active item are what it stood
for), so are two voyages of one signature, and the keeper of a group is one of them, its
own keeper (`KeeperThere`; the order `Better` has a least member of any finite or infinite
group, since ages and ids are numbers). What the repair makes of that is `After` it (the
same without what is gone). Alike voyages and what comes after them are `Twins`, which is
what `MayGo` asks for.

**By least counterexample.** Induction over data is out of reach in general, because
the provers cannot instantiate an induction theorem's operator. For numbers and
finite sets the proofs go around it: the library's `WFMin`, with the well-foundedness
of `<`, gives a nonempty set of naturals a least element (`LeastIsLeast`, `HasLeast`,
`LeastPlugin`), and a claim about all of them is refuted at its least counterexample.

**Only model-checked.** `EveryDeliveryAnswered`, `RunnersSettle`, `LoadingEnds` and
`KeptHighIsTold`: liveness under fairness is out of the prover's reach, as is
`ENABLED`. Every other property of a run has a theorem.

## 10. Findings

**The maintenance scripts drop every voyage of a current database**
(`voyage_store_script`). The dashboard stores version 3
(`src/lib/savedVoyageState.ts:24`); `getSessions` of the scripts reads version 2 and
older (`scripts/dedupe-voyages.mjs:80`) and takes anything else for an empty list.
With `--write` they then write that list back, as version 2. A copy of the database
is made first. `ScriptsKeepOthers` is `VoyagesKept` without the exception for this.

Further properties that the code does not have. Each quotes what a document, a
comment or a test says, is stated in its module, and was refuted by TLC when it was
made a property of the run; they are kept for who changes that code, and are in no
run.

1. `GithubCi!DuplicateMeansPrompted`. The commit is claimed before VK is asked
   (`src/workflows/github-ci.ts:111`) and only the send has a `catch` that releases
   it. When `getWorkspaces`, `getWorkspaceRepos` or `getSessions` throws, the claim
   stays until a restart: a redelivery ends with the log line "Already sent a CI
   failure prompt for commit" although nobody was prompted.
2. `Workspace!StartKeepsViews`. `createWorkspaceModule` repairs the voyages and only
   then lets `migrateWorkspaceBuiltInTabs` drop tabs under `/workspaces/`, the Create
   Workspace tabs among them: a voyage made by `createCreateWorkspaceSavedSession`
   names a view that is gone after each start, until some later repair.
3. `NudgeDaemon!OldTurnsLeftAlone` (`criteria.test.ts:123`, "old stopped turns do not
   create a storm"; a session of three turns, the last dropped, the one before
   nudged). `runNudgeDaemonCycle` filters out the processes it has nudged
   (`scripts/vibe-agent/nudge/daemon.ts:151`) before the latest is chosen, so an older
   one that stopped takes its place.
4. `NudgeDaemon!AnsweredTurnsLeftAlone` (`criteria.test.ts:87`). `fetchConversation`
   (`scripts/vibe-agent/core/client.ts:342`) takes a stream that is closed before `Ready`
   or `finished` for the whole conversation: a failed turn whose answer had not come
   yet looks as if it had stopped half-way.
5. `VoyageShell!NotPulledBack` (`tests/e2e/voyage-persistence.spec.ts`, "does not pull
   the user back when pending Open Craft finishes after switching voyages"). The
   answer of `persistSavedSelection` navigates without the guard that other answers
   have (`MainUIShellModule.tsx:531`). The guard itself compares with the ref of the
   shell that asked, which is kept when that shell is unmounted
   (`WorkspaceShell.tsx:551`): once the tab has shown "Voyage not found", a late answer
   may pass it and navigate out of a voyage that was opened since.
6. `IframePanel!SurvivesRerenders` (the comment of `IframeHost`). A version of the store
   that concerns one frame has every host detach and attach its own, and a frame that
   is detached loads again.
7. `AgentTalk!AnswersComeHome` (the help text of `--respond`). The session to reply to
   is discovered after the message was sent (`vibe-agent.ts:1305`); for an agent that is
   not told its session it may be the one just created for the message.
8. `AgentTalk!ExcludedStaysOut` (the message of `exclude-me`). A summary that began
   before replaces the file with what it had read.
9. `PluginHost!AnsweredMeansApplied`
   (`docs/plugin-system/plugin-runtime-operations.md`). A run that began earlier writes
   its own plan after the one of the request, which was answered with 200.
10. `PluginStore!NeverOverwritten` (`docs/plugin-system/marketplace-architecture.md:172`,
   "preserve immutable artifact dirs"). Two installs pass the look for `verified.json`
   together, and the second replaces the tree of the first, or removes it and fails
   when both have unpacked under one name.

Noted on the way: a run that fails or is cut off between the install of a newer tool
and the writing of the files, or because Caddy refuses the routes, leaves the program
of the older version on the newer tool, or on half of one, until a run succeeds
(`plugin-service-orchestrator.ts:564`). The shell's `closeActiveTab` neither repairs voyages nor, when the
first tab was closed, returns a tab that still exists; no view calls it today.
`docs/voyage-navigation-model.md` describes a way to embark another instance of a
craft; the server always uses the entry the voyage has (`OneEntryPerCraft`).

## 11. Plan, and what is not modelled

Still worth doing, in this order: an abstract `VoyageBook` (voyages as
sets of craft that come, go and move) implemented by `Workspace`, which would turn
`EntriesConserved` and `VoyagesKept` into one refinement; the recorder callbacks of
`packages/workflow-core`, once the server registers one.

Not modelled: rendering, layout and input of the sidebar, overview and dialogs;
parsing and validation of manifests and catalogs; the composition of declared
surfaces, which has no state; the container and bridge runtimes, the Caddy handler
and the container's shell scripts, which start external tools. The programs under
`scripts/vibe-agent/cli` start the service calls `AgentTalk` has one by one. The two
persistent states of `Workspace` are saved one after the other by a library; a crash
between the two leaves voyages that refer to craft that are gone, which is a state
`VoyageStore` starts from.
