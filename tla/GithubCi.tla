------------------------------- MODULE GithubCi -------------------------------
(***************************************************************************)
(* The GitHub CI failure workflow: webhook deliveries handled concurrently *)
(* by one Node process (src/server/workflow-routes.ts), each running the   *)
(* workflow of src/workflows/github-ci.ts against the VK backend.          *)
(*                                                                         *)
(* A delivery is a process.  A handler runs without interruption from one  *)
(* await to the next, so an action is the code between two awaits.  VK and *)
(* the disk answer at any time, in any order, or with an error; the server *)
(* may restart between any two steps and loses everything kept in memory.  *)
(***************************************************************************)
EXTENDS Naturals, FiniteSets

CONSTANTS
    Deliveries,    \* webhook deliveries, redeliveries included
    Shas,          \* head commits of failing runs
    Repos,         \* GitHub repositories
    RepoOf,        \* the repository a commit belongs to
    NamedRepos,    \* repositories VK knows under their GitHub name
    Workspaces,    \* VK workspaces
    BranchOf,      \* the commits whose branch is a branch of the workspace
    NoSha,         \* the payload of an event that is not a CI failure
    NoWorkspace,   \* no workspace chosen yet
    MaxRestarts    \* bound on server restarts

ASSUME ConstantsAssumption ==
    /\ RepoOf \in [Shas -> Repos]
    /\ NamedRepos \subseteq Repos
    /\ BranchOf \in [Workspaces -> SUBSET Shas]
    /\ NoSha \notin Shas
    /\ NoWorkspace \notin Workspaces
    /\ MaxRestarts \in Nat

VARIABLES
    stage,       \* where the handler of each delivery is, or how it ended
    route,       \* the route the delivery came through
    sha,         \* the commit of each delivery
    round,       \* the workflow run of the delivery in progress: 1 or 2
    aliases,     \* the repo aliases passed to that run
    todo,        \* workspaces findMatchingWorkspace has still to look at
    target,      \* the matched workspace
    wire,        \* the sendFollowUp request of each delivery
    epochOf,     \* the server incarnation in which the delivery claimed
    notified,    \* notifiedFailureShas
    cacheIs,     \* cachedGitRepos is "null" or "hydrated"
    cache,       \* the repos cachedGitRepos has an alias of
    epoch,       \* incarnation of the server process
    checkouts,   \* local checkouts whose remote tells the GitHub name
    open,        \* VK workspaces that are not archived
    running      \* VK workspaces that have a session

cacheVars  == <<cacheIs, cache>>
serverVars == <<notified, cacheVars, epoch>>
worldVars  == <<checkouts, open, running>>
inputVars  == <<route, sha>>
vars == <<stage, inputVars, round, aliases, todo, target, wire, epochOf,
          serverVars, worldVars>>

Claiming  == {"list", "repos", "sessions", "sending"}
InFlight  == {"hydrate", "start", "refresh"} \cup Claiming
Outcomes  == {"rejected", "ignored", "duplicate", "no_match", "no_sessions",
              "message_sent", "vk_error", "send_failed"}
Stages    == {"idle", "lost"} \cup InFlight \cup Outcomes

-----------------------------------------------------------------------------

Init ==
    /\ stage    = [d \in Deliveries |-> "idle"]
    /\ route    = [d \in Deliveries |-> "webhook"]
    /\ sha      = [d \in Deliveries |-> NoSha]
    /\ round    = [d \in Deliveries |-> 1]
    /\ aliases  = [d \in Deliveries |-> {}]
    /\ todo     = [d \in Deliveries |-> {}]
    /\ target   = [d \in Deliveries |-> NoWorkspace]
    /\ wire     = [d \in Deliveries |-> "none"]
    /\ epochOf  = [d \in Deliveries |-> 0]
    /\ notified = {}
    /\ cacheIs  = "null"
    /\ cache    = {}
    /\ epoch    = 1
    /\ checkouts \in SUBSET Repos
    /\ open      \in SUBSET Workspaces
    /\ running   \in SUBSET Workspaces

\* POST /webhooks/github: a bad signature or body answers at once; otherwise
\* the cached aliases are read, which hydrates them if nobody has.
Receive(d, s) ==
    /\ stage[d] = "idle"
    /\ sha' = [sha EXCEPT ![d] = s]
    /\ \/ stage' = [stage EXCEPT ![d] = "rejected"] /\ UNCHANGED aliases
       \/ /\ cacheIs = "null"
          /\ stage' = [stage EXCEPT ![d] = "hydrate"]
          /\ UNCHANGED aliases
       \/ /\ cacheIs = "hydrated"
          /\ stage' = [stage EXCEPT ![d] = "start"]
          /\ aliases' = [aliases EXCEPT ![d] = cache]
    /\ UNCHANGED <<route, round, todo, target, wire, epochOf, serverVars, worldVars>>

\* POST /workflows/:id/run: the body is the input, its aliases included, and
\* nothing is retried.
ReceiveRun(d, s, given) ==
    /\ stage[d] = "idle"
    /\ sha' = [sha EXCEPT ![d] = s]
    /\ route' = [route EXCEPT ![d] = "run"]
    /\ aliases' = [aliases EXCEPT ![d] = given]
    /\ stage' = [stage EXCEPT ![d] = "start"]
    /\ UNCHANGED <<round, todo, target, wire, epochOf, serverVars, worldVars>>

\* What hydrateLocalGitRepoAliases can return: every failure to read the
\* root or one remote is swallowed and only makes the list shorter.
Hydrated == SUBSET checkouts

\* cachedGitRepos ??= await hydrate...: the assignment follows the await, so
\* it overwrites whatever was stored meanwhile.
HydrateDone(d) ==
    /\ stage[d] = "hydrate"
    /\ cacheIs' = "hydrated"
    /\ \E found \in Hydrated :
         /\ cache' = found
         /\ aliases' = [aliases EXCEPT ![d] = found]
    /\ stage' = [stage EXCEPT ![d] = "start"]
    /\ UNCHANGED <<inputVars, round, todo, target, wire, epochOf, notified, epoch, worldVars>>

\* The run up to its first await: normalise, drop a commit already claimed,
\* claim the commit, ask VK for the workspaces.
StartRun(d) ==
    /\ stage[d] = "start"
    /\ \/ /\ sha[d] = NoSha
          /\ stage' = [stage EXCEPT ![d] = "ignored"]
          /\ UNCHANGED <<notified, epochOf>>
       \/ /\ sha[d] # NoSha /\ sha[d] \in notified
          /\ stage' = [stage EXCEPT ![d] = "duplicate"]
          /\ UNCHANGED <<notified, epochOf>>
       \/ /\ sha[d] # NoSha /\ sha[d] \notin notified
          /\ notified' = notified \cup {sha[d]}
          /\ epochOf' = [epochOf EXCEPT ![d] = epoch]
          /\ stage' = [stage EXCEPT ![d] = "list"]
    /\ UNCHANGED <<inputVars, round, aliases, todo, target, wire, cacheVars, epoch, worldVars>>

\* workspaceMatchesCiEvent: a branch of the workspace is the run's branch and
\* one of its repos is the run's repo, by its VK names or a cached alias.
Matches(w, s, known) ==
    /\ s \in BranchOf[w]
    /\ RepoOf[s] \in NamedRepos \cup known

\* Faulty NoMatch: nothing stops the route from retrying again and again.
NoMatchAlwaysRetries(d) ==
    /\ notified' = notified \ {sha[d]}
    /\ stage' = [stage EXCEPT ![d] = IF route[d] = "webhook" THEN "refresh" ELSE "no_match"]
    /\ UNCHANGED target

\* The end of a run in which no workspace matched: the claim is released.
\* The webhook route refreshes the aliases and retries once.
NoMatch(d) ==
    /\ notified' = notified \ {sha[d]}
    /\ stage' = [stage EXCEPT ![d] =
         IF route[d] = "webhook" /\ round[d] = 1 THEN "refresh" ELSE "no_match"]
    /\ UNCHANGED target

\* VK answers getWorkspaces; only workspaces that are not archived are kept.
WorkspacesListed(d) ==
    /\ stage[d] = "list"
    /\ todo' = [todo EXCEPT ![d] = open]
    /\ \/ /\ open = {}
          /\ NoMatch(d)
       \/ /\ open # {}
          /\ stage' = [stage EXCEPT ![d] = "repos"]
          /\ UNCHANGED <<notified, target>>
    /\ UNCHANGED <<inputVars, round, aliases, wire, epochOf, cacheVars, epoch, worldVars>>

\* VK answers getWorkspaceRepos for the next workspace in VK's order.
ReposFetched(d) ==
    /\ stage[d] = "repos"
    /\ \E w \in todo[d] :
         /\ todo' = [todo EXCEPT ![d] = @ \ {w}]
         /\ \/ /\ Matches(w, sha[d], aliases[d])
               /\ target' = [target EXCEPT ![d] = w]
               /\ stage' = [stage EXCEPT ![d] = "sessions"]
               /\ UNCHANGED notified
            \/ /\ ~Matches(w, sha[d], aliases[d])
               /\ todo[d] = {w}
               /\ NoMatch(d)
            \/ /\ ~Matches(w, sha[d], aliases[d])
               /\ todo[d] # {w}
               /\ UNCHANGED <<stage, target, notified>>
    /\ UNCHANGED <<inputVars, round, aliases, wire, epochOf, cacheVars, epoch, worldVars>>

\* Faulty SessionsFetched: the claim outlives a run that found no session.
SessionsFetchedKeepsClaim(d) ==
    /\ stage[d] = "sessions"
    /\ stage' = [stage EXCEPT ![d] = IF target[d] \in running THEN "sending" ELSE "no_sessions"]
    /\ wire' = [wire EXCEPT ![d] = IF target[d] \in running THEN "sent" ELSE @]
    /\ UNCHANGED <<inputVars, round, aliases, todo, target, epochOf, serverVars, worldVars>>

\* VK answers getSessions: without a session the claim is released, with one
\* the prompt is sent.
SessionsFetched(d) ==
    /\ stage[d] = "sessions"
    /\ \/ /\ target[d] \notin running
          /\ notified' = notified \ {sha[d]}
          /\ stage' = [stage EXCEPT ![d] = "no_sessions"]
          /\ UNCHANGED wire
       \/ /\ target[d] \in running
          /\ stage' = [stage EXCEPT ![d] = "sending"]
          /\ wire' = [wire EXCEPT ![d] = "sent"]
          /\ UNCHANGED notified
    /\ UNCHANGED <<inputVars, round, aliases, todo, target, epochOf, cacheVars, epoch, worldVars>>

\* getWorkspaces, getWorkspaceRepos or getSessions throws: runWorkflow turns
\* it into a failed run; nothing releases the claim.
VkReadFails(d) ==
    /\ stage[d] \in {"list", "repos", "sessions"}
    /\ stage' = [stage EXCEPT ![d] = "vk_error"]
    /\ UNCHANGED <<inputVars, round, aliases, todo, target, wire, epochOf, serverVars, worldVars>>

\* Faulty SendSucceeds: the claim is released in a finally.
SendSucceedsReleases(d) ==
    /\ stage[d] = "sending"
    /\ wire[d] = "accepted"
    /\ stage' = [stage EXCEPT ![d] = "message_sent"]
    /\ notified' = notified \ {sha[d]}
    /\ UNCHANGED <<inputVars, round, aliases, todo, target, wire, epochOf, cacheVars, epoch, worldVars>>

\* sendFollowUp resolves.
SendSucceeds(d) ==
    /\ stage[d] = "sending"
    /\ wire[d] = "accepted"
    /\ stage' = [stage EXCEPT ![d] = "message_sent"]
    /\ UNCHANGED <<inputVars, round, aliases, todo, target, wire, epochOf, serverVars, worldVars>>

\* sendFollowUp throws, whatever became of the request: the claim is
\* released and the error fails the run.
SendFails(d) ==
    /\ stage[d] = "sending"
    /\ notified' = notified \ {sha[d]}
    /\ stage' = [stage EXCEPT ![d] = "send_failed"]
    /\ UNCHANGED <<inputVars, round, aliases, todo, target, wire, epochOf, cacheVars, epoch, worldVars>>

\* refreshCachedGitRepos completes and the second run starts.
RefreshDone(d) ==
    /\ stage[d] = "refresh"
    /\ cacheIs' = "hydrated"
    /\ \E found \in Hydrated :
         /\ cache' = found
         /\ aliases' = [aliases EXCEPT ![d] = found]
    /\ round' = [round EXCEPT ![d] = 2]
    /\ stage' = [stage EXCEPT ![d] = "start"]
    /\ UNCHANGED <<inputVars, todo, target, wire, epochOf, notified, epoch, worldVars>>

-----------------------------------------------------------------------------
(* The VK backend, the disk and the process.                               *)

\* VK takes the prompt and starts an agent on it.
VkAccepts(d) ==
    /\ wire[d] = "sent"
    /\ wire' = [wire EXCEPT ![d] = "accepted"]
    /\ UNCHANGED <<stage, inputVars, round, aliases, todo, target, epochOf, serverVars, worldVars>>

\* The request is refused or never arrives.
VkDrops(d) ==
    /\ wire[d] = "sent"
    /\ wire' = [wire EXCEPT ![d] = "none"]
    /\ UNCHANGED <<stage, inputVars, round, aliases, todo, target, epochOf, serverVars, worldVars>>

\* A workspace is opened or archived, a session started, a repo checked out.
WorldChanges ==
    /\ \/ /\ \E w \in Workspaces : open' \in {open \cup {w}, open \ {w}}
          /\ UNCHANGED <<checkouts, running>>
       \/ /\ \E w \in Workspaces : running' = running \cup {w}
          /\ UNCHANGED <<checkouts, open>>
       \/ /\ \E r \in Repos : checkouts' = checkouts \cup {r}
          /\ UNCHANGED <<open, running>>
    /\ UNCHANGED <<stage, inputVars, round, aliases, todo, target, wire, epochOf, serverVars>>

\* Faulty Restart: the claims of dead handlers survive it.
RestartKeepsClaims ==
    /\ epoch <= MaxRestarts
    /\ epoch' = epoch + 1
    /\ cacheIs' = "null"
    /\ cache' = {}
    /\ stage' = [d \in Deliveries |-> IF stage[d] \in InFlight THEN "lost" ELSE stage[d]]
    /\ UNCHANGED <<inputVars, round, aliases, todo, target, wire, epochOf, notified, worldVars>>

\* The process restarts: handlers in flight die, the claims and the alias
\* cache are gone; requests already on the wire are not.
Restart ==
    /\ epoch <= MaxRestarts
    /\ epoch' = epoch + 1
    /\ notified' = {}
    /\ cacheIs' = "null"
    /\ cache' = {}
    /\ stage' = [d \in Deliveries |-> IF stage[d] \in InFlight THEN "lost" ELSE stage[d]]
    /\ UNCHANGED <<inputVars, round, aliases, todo, target, wire, epochOf, worldVars>>

Arrive(d) ==
    \/ \E s \in Shas \cup {NoSha} : Receive(d, s)
    \/ \E s \in Shas \cup {NoSha}, given \in SUBSET Repos : ReceiveRun(d, s, given)

Handle(d) ==
    \/ HydrateDone(d) \/ StartRun(d) \/ WorkspacesListed(d) \/ ReposFetched(d)
    \/ SessionsFetched(d) \/ VkReadFails(d) \/ SendSucceeds(d) \/ SendFails(d)
    \/ RefreshDone(d)

Next ==
    \/ \E d \in Deliveries : Arrive(d) \/ Handle(d) \/ VkAccepts(d) \/ VkDrops(d)
    \/ WorldChanges
    \/ Restart

Spec == Init /\ [][Next]_vars

\* Node runs every ready continuation, and VK or the socket answers every
\* request in the end: a handler is never suspended for ever.
FairSpec == Spec /\ \A d \in Deliveries : WF_vars(Handle(d))

-----------------------------------------------------------------------------
(* What the workflow must guarantee.                                       *)

TypeOK ==
    /\ stage \in [Deliveries -> Stages]
    /\ route \in [Deliveries -> {"webhook", "run"}]
    /\ sha \in [Deliveries -> Shas \cup {NoSha}]
    /\ round \in [Deliveries -> 1..2]
    /\ aliases \in [Deliveries -> SUBSET Repos]
    /\ todo \in [Deliveries -> SUBSET Workspaces]
    /\ target \in [Deliveries -> Workspaces \cup {NoWorkspace}]
    /\ wire \in [Deliveries -> {"none", "sent", "accepted"}]
    /\ epochOf \in [Deliveries -> Nat]
    /\ notified \subseteq Shas
    /\ cacheIs \in {"null", "hydrated"}
    /\ cache \subseteq Repos
    /\ epoch \in Nat \ {0}
    /\ checkouts \subseteq Repos
    /\ open \subseteq Workspaces
    /\ running \subseteq Workspaces

\* The deliveries a claim of the current incarnation belongs to: a run in
\* flight past the claim, one that sent the prompt, one a VK read failed.
Owners == {d \in Deliveries :
             /\ epochOf[d] = epoch
             /\ stage[d] \in Claiming \cup {"message_sent", "vk_error"}}

\* Every commit in notifiedFailureShas is there on account of one of those
\* deliveries, and each of them still has its commit there: no claim is
\* forgotten while it is needed and none outlives the reason for it.
ClaimsAccounted == notified = {sha[d] : d \in Owners}

\* Two deliveries never work for the same commit at once, nor does one work
\* for a commit whose prompt another has sent (check and add of the set
\* happen before the first await).
OneOwnerPerCommit ==
    \A d1, d2 \in Owners : sha[d1] = sha[d2] => d1 = d2

\* Within one incarnation VK starts two agents for one commit only when the
\* answer to the first prompt was lost and the claim released for it.
NoDoublePrompt ==
    \A d1, d2 \in Deliveries :
        (/\ d1 # d2
         /\ sha[d1] = sha[d2]
         /\ epochOf[d1] = epochOf[d2]
         /\ wire[d1] = "accepted"
         /\ wire[d2] = "accepted")
        => "send_failed" \in {stage[d1], stage[d2]}

\* The strengthening the two properties above need to be inductive.  A
\* delivery that may still produce a prompt, or did, keeps its commit to
\* itself within its incarnation; a dead handler's request can still be on
\* the wire, so a restart does not end its part in this.
Prompting(d) ==
    \/ stage[d] \in Claiming \cup {"message_sent", "vk_error"}
    \/ stage[d] = "lost" /\ wire[d] # "none"

\* What is so of each delivery...
EachDelivery ==
    \A d \in Deliveries :
      /\ epochOf[d] <= epoch
      /\ stage[d] \in Claiming => epochOf[d] = epoch
      /\ stage[d] \in Claiming \cup {"message_sent", "vk_error"} => sha[d] \in Shas
      /\ stage[d] = "lost" => epochOf[d] < epoch
      /\ wire[d] # "none" =>
           stage[d] \in {"sending", "message_sent", "send_failed", "lost"}

\* ... and of two of them.
OnePrompting ==
    \A d1, d2 \in Deliveries :
      (/\ d1 # d2
       /\ sha[d1] = sha[d2]
       /\ epochOf[d1] = epochOf[d2])
      => ~(Prompting(d1) /\ Prompting(d2))

PromptInv == EachDelivery /\ OnePrompting /\ ClaimsAccounted

\* A claim disappears only with the process or in a step that ends a run of
\* the delivery that holds it, never because of another delivery.
ClaimReleasedByHolder ==
    [][\A s \in notified \ notified' :
          \/ epoch' # epoch
          \/ \E d \in Owners :
               /\ sha[d] = s
               /\ stage[d] \in Claiming
               /\ stage'[d] \in {"refresh", "no_match", "no_sessions", "send_failed"}]_vars

\* The log line of the dedupe branch (github-ci.ts, dedupe_commit) says the
\* prompt was already sent: when every handler has ended, a commit reported
\* as a duplicate has had a prompt.
DuplicateMeansPrompted ==
    (\A d \in Deliveries : stage[d] \notin InFlight) =>
        \A d \in Deliveries : stage[d] = "duplicate" =>
            \E e \in Deliveries : sha[e] = sha[d] /\ wire[e] = "accepted"

\* Every delivery is answered unless the process dies under it: the refresh
\* and retry of runGitHubCiFailureWorkflow cannot go on for ever.
EveryDeliveryAnswered ==
    \A d \in Deliveries :
        stage[d] \in InFlight ~> stage[d] \in Outcomes \cup {"lost"}
===============================================================================
