--------------------------- MODULE NotifierProofs ---------------------------
(* Proofs about the three that turn to somebody without being asked: the   *)
(* workflow that prompts an agent when CI has failed (GithubCi), the       *)
(* watchdog that tells a channel of high memory use (MemoryWatchdog), and  *)
(* the daemon that nudges sessions that stopped (NudgeDaemon).             *)
(* For any deliveries, commits, workspaces and number of restarts; for any *)
(* processes, thresholds and streaks, and however many messages fail; for  *)
(* any sessions, however many turns they have and nudges are sent.         *)
EXTENDS GithubCi, MemoryWatchdog, NudgeDaemon, SequenceTheorems, TLAPS

-----------------------------------------------------------------------------
(* GithubCi.                                                               *)

USE ConstantsAssumption

\* Every variable keeps its type through every step of the workflow, of VK and
\* of the server process.
THEOREM CiTypeCorrect == Spec => []TypeOK
<1>1. Init => TypeOK
  BY DEF Init, TypeOK, Stages
<1>2. TypeOK /\ [Next]_vars => TypeOK'
  <2> SUFFICES ASSUME TypeOK, [Next]_vars
               PROVE  TypeOK'
    OBVIOUS
  <2> USE DEF TypeOK, Stages, InFlight, Claiming, Outcomes, inputVars, serverVars,
              cacheVars, worldVars
  <2>1. ASSUME NEW d \in Deliveries, Arrive(d)
        PROVE  TypeOK'
    <3>1. CASE \E s \in Shas \cup {NoSha} : Receive(d, s)
      BY <3>1 DEF Receive
    <3>2. CASE \E s \in Shas \cup {NoSha}, given \in SUBSET Repos : ReceiveRun(d, s, given)
      BY <3>2 DEF ReceiveRun
    <3>3. QED
      BY <2>1, <3>1, <3>2 DEF Arrive
  <2>2. ASSUME NEW d \in Deliveries, Handle(d)
        PROVE  TypeOK'
    <3>1. CASE HydrateDone(d)
      BY <3>1 DEF HydrateDone, Hydrated
    <3>2. CASE StartRun(d)
      BY <3>2 DEF StartRun
    <3>3. CASE WorkspacesListed(d)
      BY <3>3 DEF WorkspacesListed, NoMatch
    <3>4. CASE ReposFetched(d)
      BY <3>4 DEF ReposFetched, NoMatch
    <3>5. CASE SessionsFetched(d)
      BY <3>5 DEF SessionsFetched
    <3>6. CASE VkReadFails(d)
      BY <3>6 DEF VkReadFails
    <3>7. CASE SendSucceeds(d)
      BY <3>7 DEF SendSucceeds
    <3>8. CASE SendFails(d)
      BY <3>8 DEF SendFails
    <3>9. CASE RefreshDone(d)
      BY <3>9 DEF RefreshDone, Hydrated
    <3>10. QED
      BY <2>2, <3>1, <3>2, <3>3, <3>4, <3>5, <3>6, <3>7, <3>8, <3>9 DEF Handle
  <2>3. ASSUME NEW d \in Deliveries, VkAccepts(d) \/ VkDrops(d)
        PROVE  TypeOK'
    BY <2>3 DEF VkAccepts, VkDrops
  <2>4. CASE WorldChanges
    BY <2>4 DEF WorldChanges
  <2>5. CASE Restart
    BY <2>5 DEF Restart
  <2>6. CASE UNCHANGED vars
    BY <2>6 DEF vars
  <2>7. QED
    BY <2>1, <2>2, <2>3, <2>4, <2>5, <2>6 DEF Next
<1>3. QED
  BY <1>1, <1>2, PTL DEF Spec
-----------------------------------------------------------------------------

\* ClaimsAccounted without a set of images.
LEMMA ClaimsPointwise ==
    ClaimsAccounted <=>
      /\ \A d \in Owners : sha[d] \in notified
      /\ \A s \in notified : \E d \in Owners : sha[d] = s
BY DEF ClaimsAccounted

\* The same, one step later.
LEMMA ClaimsPointwiseNext ==
    ClaimsAccounted' <=>
      /\ \A d \in Owners' : sha'[d] \in notified'
      /\ \A s \in notified' : \E d \in Owners' : sha'[d] = s
BY DEF ClaimsAccounted

\* A step of one delivery that releases its claim and ends its run, or moves
\* it to the retry: no other delivery is touched.
LEMMA ReleaseKeepsPromptInv ==
    ASSUME TypeOK, EachDelivery, OnePrompting, ClaimsAccounted,
           NEW d \in Deliveries,
           stage[d] \in Claiming,
           NEW end \in {"refresh", "no_match", "no_sessions", "send_failed"},
           end = "send_failed" \/ wire[d] = "none",
           stage' = [stage EXCEPT ![d] = end],
           notified' = notified \ {sha[d]},
           UNCHANGED <<sha, wire, epochOf, epoch>>
    PROVE  EachDelivery' /\ OnePrompting' /\ ClaimsAccounted'
<1> USE DEF TypeOK, Claiming
<1>1. EachDelivery'
  BY DEF EachDelivery
<1>2. \A e \in Deliveries : Prompting(e)' => Prompting(e) /\ e # d
  BY DEF Prompting
<1>3. OnePrompting'
  BY <1>2 DEF OnePrompting
<1>4. Owners' = Owners \ {d}
  BY DEF Owners
<1>5. d \in Owners
  BY DEF Owners, EachDelivery
<1>6. \A e \in Owners : e # d => sha[e] # sha[d]
  BY <1>5 DEF Owners, OnePrompting, Prompting
<1>7. ClaimsAccounted'
  BY <1>4, <1>5, <1>6, ClaimsPointwise, ClaimsPointwiseNext
<1>8. QED
  BY <1>1, <1>3, <1>7

\* A step of one delivery that keeps what it holds and is no nearer to a
\* prompt than before.
LEMMA KeepKeepsPromptInv ==
    ASSUME TypeOK, EachDelivery, OnePrompting, ClaimsAccounted,
           NEW d \in Deliveries,
           NEW next \in Stages,
           next \in Claiming \cup {"message_sent", "vk_error"}
             <=> stage[d] \in Claiming \cup {"message_sent", "vk_error"},
           next \in Claiming => stage[d] \in Claiming,
           next # "lost" /\ stage[d] # "lost",
           wire[d] # "none" => next \in {"sending", "message_sent", "send_failed"},
           stage' = [stage EXCEPT ![d] = next],
           stage[d] = "idle" \/ sha'[d] = sha[d],
           \A e \in Deliveries : e # d => sha'[e] = sha[e],
           next \notin {"idle"},
           sha' \in [Deliveries -> Shas \cup {NoSha}],
           UNCHANGED <<wire, epochOf, epoch, notified>>
    PROVE  EachDelivery' /\ OnePrompting' /\ ClaimsAccounted'
<1> USE DEF TypeOK, Claiming
<1>1. EachDelivery'
  BY DEF EachDelivery
<1>2. \A e \in Deliveries : Prompting(e)' => Prompting(e) /\ sha'[e] = sha[e]
  BY DEF Prompting, EachDelivery
<1>3. OnePrompting'
  BY <1>2 DEF OnePrompting
<1>4. Owners' = Owners /\ \A e \in Owners : sha'[e] = sha[e]
  BY DEF Owners
<1>5. ClaimsAccounted'
  BY <1>4, ClaimsPointwise, ClaimsPointwiseNext
<1>6. QED
  BY <1>1, <1>3, <1>5

\* PromptInv is inductive: one step per action, the actions that neither
\* claim, restart nor touch the wire by one of the two lemmas above.
THEOREM PromptInvariant == Spec => []PromptInv
<1>1. Init => PromptInv
  BY DEF Init, PromptInv, EachDelivery, OnePrompting, ClaimsAccounted, Prompting,
         Owners, Claiming
<1>2. TypeOK /\ PromptInv /\ [Next]_vars => PromptInv'
  <2> SUFFICES ASSUME TypeOK, EachDelivery, OnePrompting, ClaimsAccounted, [Next]_vars
               PROVE  EachDelivery' /\ OnePrompting' /\ ClaimsAccounted'
    BY DEF PromptInv
  <2> USE DEF inputVars, serverVars, cacheVars, worldVars
  <2>1. ASSUME NEW d \in Deliveries, Arrive(d)
        PROVE  EachDelivery' /\ OnePrompting' /\ ClaimsAccounted'
    <3>1. PICK s \in Shas \cup {NoSha}, next \in {"rejected", "hydrate", "start"} :
            /\ stage[d] = "idle"
            /\ stage' = [stage EXCEPT ![d] = next]
            /\ sha' = [sha EXCEPT ![d] = s]
            /\ UNCHANGED <<wire, epochOf, epoch, notified>>
      BY <2>1 DEF Arrive, Receive, ReceiveRun
    <3>2. wire[d] = "none"
      BY <3>1 DEF EachDelivery, TypeOK
    <3>3. sha' \in [Deliveries -> Shas \cup {NoSha}] /\ next \in Stages
      BY <3>1 DEF TypeOK, Stages, InFlight, Outcomes
    <3>4. QED
      BY <3>1, <3>2, <3>3, KeepKeepsPromptInv DEF TypeOK, Claiming
  <2>2. ASSUME NEW d \in Deliveries, Handle(d)
        PROVE  EachDelivery' /\ OnePrompting' /\ ClaimsAccounted'
    <3> USE DEF TypeOK, Claiming, Stages, InFlight, Outcomes
    <3>1. CASE HydrateDone(d) \/ RefreshDone(d)
      <4>1. wire[d] = "none"
        BY <3>1 DEF HydrateDone, RefreshDone, EachDelivery
      <4>2. QED
        BY <3>1, <4>1, KeepKeepsPromptInv DEF HydrateDone, RefreshDone
    <3>2. CASE VkReadFails(d)
      <4>1. wire[d] = "none"
        BY <3>2 DEF VkReadFails, EachDelivery
      <4>2. /\ stage[d] \in {"list", "repos", "sessions"}
            /\ stage' = [stage EXCEPT ![d] = "vk_error"]
            /\ UNCHANGED <<sha, wire, epochOf, epoch, notified>>
        BY <3>2 DEF VkReadFails
      <4>3. "vk_error" \in Stages
        OBVIOUS
      <4>4. QED
        BY <4>1, <4>2, <4>3, KeepKeepsPromptInv
    <3>3. CASE SendSucceeds(d)
      <4>1. /\ stage[d] = "sending"
            /\ stage' = [stage EXCEPT ![d] = "message_sent"]
            /\ UNCHANGED <<sha, wire, epochOf, epoch, notified>>
        BY <3>3 DEF SendSucceeds
      <4>2. "message_sent" \in Stages
        OBVIOUS
      <4>3. QED
        BY <4>1, <4>2, KeepKeepsPromptInv
    <3>4. CASE StartRun(d)
      <4>1. wire[d] = "none"
        BY <3>4 DEF StartRun, EachDelivery
      <4>2. CASE stage' = [stage EXCEPT ![d] = "ignored"] \/ stage' = [stage EXCEPT ![d] = "duplicate"]
        BY <3>4, <4>1, <4>2, KeepKeepsPromptInv DEF StartRun
      <4>3. CASE /\ sha[d] \in Shas \ notified
                 /\ notified' = notified \cup {sha[d]}
                 /\ epochOf' = [epochOf EXCEPT ![d] = epoch]
                 /\ stage' = [stage EXCEPT ![d] = "list"]
        <5>1. stage[d] = "start" /\ UNCHANGED <<sha, wire, epoch>>
          BY <3>4 DEF StartRun
        <5>2. EachDelivery'
          BY <4>1, <4>3, <5>1 DEF EachDelivery
        <5>3. \A e \in Deliveries : e # d /\ Prompting(e) /\ epochOf[e] = epoch => sha[e] # sha[d]
          BY <4>3, ClaimsPointwise DEF Prompting, Owners, EachDelivery
        <5>4. \A e \in Deliveries : e # d => (Prompting(e)' <=> Prompting(e)) /\ epochOf'[e] = epochOf[e]
          BY <4>3, <5>1 DEF Prompting
        <5>5. OnePrompting'
          BY <4>3, <5>1, <5>3, <5>4 DEF OnePrompting
        <5>6. Owners' = Owners \cup {d}
          BY <4>3, <5>1 DEF Owners
        <5>7. ClaimsAccounted'
          BY <4>3, <5>1, <5>6, ClaimsPointwise, ClaimsPointwiseNext
        <5>8. QED
          BY <5>2, <5>5, <5>7
      <4>4. QED
        BY <3>4, <4>2, <4>3 DEF StartRun
    <3>5. CASE WorkspacesListed(d)
      <4>1. stage[d] = "list" /\ wire[d] = "none"
        BY <3>5 DEF WorkspacesListed, EachDelivery
      <4>2. CASE NoMatch(d)
        BY <3>5, <4>1, <4>2, ReleaseKeepsPromptInv DEF WorkspacesListed, NoMatch
      <4>3. CASE ~NoMatch(d)
        BY <3>5, <4>1, <4>3, KeepKeepsPromptInv DEF WorkspacesListed
      <4>4. QED
        BY <4>2, <4>3
    <3>6. CASE ReposFetched(d)
      <4>1. stage[d] = "repos" /\ wire[d] = "none"
        BY <3>6 DEF ReposFetched, EachDelivery
      <4>2. CASE NoMatch(d)
        BY <3>6, <4>1, <4>2, ReleaseKeepsPromptInv DEF ReposFetched, NoMatch
      <4>3. CASE ~NoMatch(d)
        <5>1. PICK next \in {"repos", "sessions"} : stage' = [stage EXCEPT ![d] = next]
          BY <3>6, <4>1, <4>3 DEF ReposFetched
        <5>2. UNCHANGED <<sha, wire, epochOf, epoch, notified>>
          BY <3>6, <4>3 DEF ReposFetched
        <5>3. QED
          BY <4>1, <5>1, <5>2, KeepKeepsPromptInv
      <4>4. QED
        BY <4>2, <4>3
    <3>7. CASE SessionsFetched(d)
      <4>1. stage[d] = "sessions" /\ wire[d] = "none"
        BY <3>7 DEF SessionsFetched, EachDelivery
      <4>2. CASE target[d] \notin running
        BY <3>7, <4>1, <4>2, ReleaseKeepsPromptInv DEF SessionsFetched
      <4>3. CASE target[d] \in running
        <5>1. /\ stage' = [stage EXCEPT ![d] = "sending"]
              /\ wire' = [wire EXCEPT ![d] = "sent"]
              /\ UNCHANGED <<sha, epochOf, epoch, notified>>
          BY <3>7, <4>3 DEF SessionsFetched
        <5>2. EachDelivery'
          BY <4>1, <5>1 DEF EachDelivery
        <5>3. \A e \in Deliveries : Prompting(e)' => Prompting(e)
          BY <4>1, <5>1 DEF Prompting
        <5>4. OnePrompting'
          BY <5>1, <5>3 DEF OnePrompting
        <5>5. Owners' = Owners
          BY <4>1, <5>1 DEF Owners
        <5>6. QED
          BY <5>1, <5>2, <5>4, <5>5 DEF ClaimsAccounted
      <4>4. QED
        BY <4>2, <4>3
    <3>8. CASE SendFails(d)
      BY <3>8, ReleaseKeepsPromptInv DEF SendFails
    <3>9. QED
      BY <2>2, <3>1, <3>2, <3>3, <3>4, <3>5, <3>6, <3>7, <3>8 DEF Handle
  <2>3. ASSUME NEW d \in Deliveries, VkAccepts(d) \/ VkDrops(d)
        PROVE  EachDelivery' /\ OnePrompting' /\ ClaimsAccounted'
    BY <2>3 DEF VkAccepts, VkDrops, TypeOK, EachDelivery, OnePrompting,
                Prompting, ClaimsAccounted, Owners
  <2>4. CASE WorldChanges
    BY <2>4 DEF WorldChanges, EachDelivery, OnePrompting, Prompting, ClaimsAccounted, Owners
  <2>5. CASE Restart
    <3> USE DEF TypeOK, InFlight, Claiming
    <3>1. /\ epoch' = epoch + 1
          /\ notified' = {}
          /\ stage' = [d \in Deliveries |-> IF stage[d] \in InFlight THEN "lost" ELSE stage[d]]
          /\ UNCHANGED <<sha, wire, epochOf>>
      BY <2>5 DEF Restart
    <3>2. EachDelivery'
      BY <3>1 DEF EachDelivery
    <3>3. \A d \in Deliveries : Prompting(d)' => Prompting(d)
      BY <3>1 DEF Prompting, EachDelivery
    <3>4. OnePrompting'
      BY <3>1, <3>3 DEF OnePrompting
    <3>5. Owners' = {}
      BY <3>1 DEF Owners, EachDelivery
    <3>6. QED
      BY <3>1, <3>2, <3>4, <3>5, ClaimsPointwiseNext
  <2>6. CASE UNCHANGED vars
    BY <2>6 DEF vars, EachDelivery, OnePrompting, Prompting, ClaimsAccounted, Owners
  <2>7. QED
    BY <2>1, <2>2, <2>3, <2>4, <2>5, <2>6 DEF Next
<1>3. QED
  BY <1>1, <1>2, CiTypeCorrect, PTL DEF Spec

\* The commits in notifiedFailureShas are exactly those some delivery of this
\* incarnation still answers for.
THEOREM ClaimsAreAccounted == Spec => []ClaimsAccounted
<1>1. PromptInv => ClaimsAccounted
  BY DEF PromptInv
<1>2. QED
  BY <1>1, PromptInvariant, PTL

\* No two deliveries of one incarnation work for the same commit.
THEOREM OneOwner == Spec => []OneOwnerPerCommit
<1>1. PromptInv => OneOwnerPerCommit
  BY DEF PromptInv, OneOwnerPerCommit, OnePrompting, Owners, Prompting
<1>2. QED
  BY <1>1, PromptInvariant, PTL

\* A commit gets a second prompt from one incarnation only after the answer to
\* the first was lost.
THEOREM AtMostOnePrompt == Spec => []NoDoublePrompt
<1>1. PromptInv => NoDoublePrompt
  <2> SUFFICES ASSUME EachDelivery, OnePrompting,
                      NEW d1 \in Deliveries, NEW d2 \in Deliveries,
                      d1 # d2, sha[d1] = sha[d2], epochOf[d1] = epochOf[d2],
                      wire[d1] = "accepted", wire[d2] = "accepted"
               PROVE  "send_failed" \in {stage[d1], stage[d2]}
    BY DEF PromptInv, NoDoublePrompt
  <2>1. ~(Prompting(d1) /\ Prompting(d2))
    BY DEF OnePrompting
  <2>2. QED
    BY <2>1 DEF EachDelivery, Prompting, Claiming
<1>2. QED
  BY <1>1, PromptInvariant, PTL

\* Only the delivery that holds a claim, or a restart, ever takes it back.
THEOREM OnlyHolderReleases == Spec => ClaimReleasedByHolder
<1>1. TypeOK /\ PromptInv /\ [Next]_vars =>
        [\A s \in notified \ notified' :
           \/ epoch' # epoch
           \/ \E d \in Owners :
                /\ sha[d] = s
                /\ stage[d] \in Claiming
                /\ stage'[d] \in {"refresh", "no_match", "no_sessions", "send_failed"}]_vars
  <2> SUFFICES ASSUME TypeOK, PromptInv, Next,
                      NEW s \in notified \ notified', epoch' = epoch
               PROVE  \E d \in Owners :
                        /\ sha[d] = s
                        /\ stage[d] \in Claiming
                        /\ stage'[d] \in {"refresh", "no_match", "no_sessions", "send_failed"}
    OBVIOUS
  <2>1. PICK d \in Deliveries :
          \/ WorkspacesListed(d) \/ ReposFetched(d)
          \/ SessionsFetched(d) \/ SendFails(d)
    <3>1. ~Restart
      BY DEF Restart, TypeOK
    <3>2. ASSUME NEW d \in Deliveries, Arrive(d) \/ VkAccepts(d) \/ VkDrops(d)
          PROVE  FALSE
      BY <3>2 DEF Arrive, Receive, ReceiveRun, VkAccepts, VkDrops, serverVars
    <3>3. ~WorldChanges
      BY DEF WorldChanges, serverVars
    <3>4. ASSUME NEW d \in Deliveries,
                 HydrateDone(d) \/ StartRun(d) \/ VkReadFails(d) \/ SendSucceeds(d) \/ RefreshDone(d)
          PROVE  FALSE
      BY <3>4 DEF HydrateDone, StartRun, VkReadFails, SendSucceeds, RefreshDone, serverVars
    <3>5. QED
      BY <3>1, <3>2, <3>3, <3>4 DEF Next, Handle
  <2>2. /\ stage[d] \in Claiming
        /\ stage'[d] \in {"refresh", "no_match", "no_sessions", "send_failed"}
        /\ sha[d] = s
    BY <2>1 DEF WorkspacesListed, ReposFetched, SessionsFetched, SendFails, NoMatch,
                TypeOK, Claiming
  <2>3. d \in Owners
    BY <2>2 DEF Owners, PromptInv, EachDelivery
  <2>4. QED
    BY <2>2, <2>3
<1>2. QED
  BY <1>1, CiTypeCorrect, PromptInvariant, PTL DEF Spec, ClaimReleasedByHolder

-----------------------------------------------------------------------------
(* MemoryWatchdog.                                                         *)

HIDE ConstantsAssumption
USE WatchdogAssumption

\* The places where the check waits for a message.
Sends == {"sendHost", "sendOver", "sendGone"}

\* The message that is being sent: it says what is on record of its subject,
\* and that of a process that has recovered is not looked at again.
MessageOK ==
    pc \in Sends =>
        /\ message.kind = Recorded(message.of)
        /\ (pc = "sendHost") <=> (message.of = Host)
        /\ pc = "sendGone" => message.kind = "resolve" /\ message.of \notin left

Typed == WatchdogTypeOK /\ MessageOK

Honest == Typed /\ ToldUnlessFailed

-----------------------------------------------------------------------------
(* Entries.                                                                *)

\* The places where a message is waited for, by name.
LEMMA SendPlaces ==
    /\ DOMAIN After = Sends
    /\ After["sendHost"] = "over" /\ After["sendOver"] = "over" /\ After["sendGone"] = "gone"
BY DEF After, Sends

\* A function of entries of processes is one of the alerts there may be.
LEMMA EntriesAre ==
    ASSUME NEW ps \in SUBSET Procs, NEW a \in [ps -> Entry]
    PROVE  a \in Entries
BY DEF Entries

\* The alerts are of processes, and each is an entry.
LEMMA EntriesHave ==
    ASSUME NEW a \in Entries
    PROVE  /\ DOMAIN a \in SUBSET Procs
           /\ a \in [DOMAIN a -> Entry]
BY DEF Entries

\* A streak does not go over its limit.
LEMMA StreakInRange ==
    ASSUME NEW limit \in Nat \ {0}, NEW n \in 0..limit
    PROVE  More(n, limit) \in 0..limit
BY DEF More

\* A check over the threshold makes an entry of an entry and opens nothing.
LEMMA BreachedEntry ==
    ASSUME NEW e \in Entry
    PROVE  Breached(e) \in Entry /\ Breached(e).state = e.state
<1>1. More(e.breach, TriggerStreak) \in 0..TriggerStreak
  BY StreakInRange DEF Entry
<1>2. 0 \in 0..TriggerStreak /\ 0 \in 0..ResolveStreak /\ e.state \in States
  BY DEF Entry
<1>3. QED
  BY <1>1, <1>2 DEF Entry, Breached

\* Nor does a check under it close anything.
LEMMA ClearedEntry ==
    ASSUME NEW e \in Entry
    PROVE  Cleared(e) \in Entry /\ Cleared(e).state = e.state
<1>1. More(e.clear, ResolveStreak) \in 0..ResolveStreak
  BY StreakInRange DEF Entry
<1>2. 0 \in 0..TriggerStreak /\ 0 \in 0..ResolveStreak /\ e.state \in States
  BY DEF Entry
<1>3. QED
  BY <1>1, <1>2 DEF Entry, Cleared

\* An entry that is opened or closed is one.
LEMMA StatedEntry ==
    ASSUME NEW e \in Entry, NEW st \in States
    PROVE  [e EXCEPT !.state = st] \in Entry /\ [e EXCEPT !.state = st].state = st
BY DEF Entry

\* A process without an entry counts as one with a new one.
LEMMA EveryProcessHasEntry ==
    ASSUME alerts \in Entries, NEW p
    PROVE  EntryOf(p) \in Entry
BY EntriesHave DEF EntryOf, Entry, New, States

\* Giving a process an entry gives it that entry, and no other process another.
LEMMA GivenEntry ==
    ASSUME alerts \in Entries, NEW p \in Procs, NEW e \in Entry, alerts' = WithEntry(p, e)
    PROVE  /\ alerts' \in Entries
           /\ DOMAIN alerts' = DOMAIN alerts \cup {p}
           /\ EntryOf(p)' = e
           /\ \A q \in Procs \ {p} : EntryOf(q)' = EntryOf(q)
<1> DEFINE ps == DOMAIN alerts \cup {p}
<1>1. ps \in SUBSET Procs /\ alerts \in [DOMAIN alerts -> Entry]
  BY EntriesHave
<1>2. alerts' \in [ps -> Entry]
  BY <1>1 DEF WithEntry
<1>3. QED
  BY <1>1, <1>2, EntriesAre DEF WithEntry, EntryOf

\* Taking the entry of a process away leaves the others as they are.
LEMMA TakenEntry ==
    ASSUME alerts \in Entries, NEW p \in Procs,
           alerts' = Restrict(alerts, DOMAIN alerts \ {p})
    PROVE  /\ alerts' \in Entries
           /\ DOMAIN alerts' = DOMAIN alerts \ {p}
           /\ EntryOf(p)' = New
           /\ \A q \in Procs \ {p} : EntryOf(q)' = EntryOf(q)
<1> DEFINE ps == DOMAIN alerts \ {p}
<1>1. ps \in SUBSET Procs /\ alerts \in [DOMAIN alerts -> Entry]
  BY EntriesHave
<1>2. alerts' \in [ps -> Entry]
  BY <1>1 DEF Restrict
<1>3. QED
  BY <1>1, <1>2, EntriesAre DEF Restrict, EntryOf

-----------------------------------------------------------------------------
(* The parts of a check.                                                   *)

\* What is on record of a subject depends on the alerts alone.
LEMMA RecordKept ==
    ASSUME UNCHANGED <<total, alerts>>
    PROVE  \A s : Recorded(s)' = Recorded(s)
BY DEF Recorded, EntryOf

\* The host's part of a check keeps its record in its type; if nothing is to
\* be sent, the record stays as it is.
LEMMA TotalInType ==
    ASSUME WatchdogTypeOK, HandleTotal
    PROVE  /\ total' \in Totals /\ since' \in 0..Reminder
           /\ \/ /\ pc' = "sendHost"
                 /\ message' = [of |-> Host, kind |-> total'.state]
              \/ /\ pc' = "over" /\ total'.state = total.state
                 /\ UNCHANGED message
<1>1. /\ Streaks \in Totals /\ Streaks.state = total.state
      /\ Streaks.breach \in 0..TriggerStreak /\ Streaks.clear \in 0..ResolveStreak
  <2>1. /\ More(total.breach, TriggerStreak) \in 0..TriggerStreak
        /\ More(total.clear, ResolveStreak) \in 0..ResolveStreak
    BY StreakInRange DEF WatchdogTypeOK, Totals
  <2>2. 0 \in 0..TriggerStreak /\ 0 \in 0..ResolveStreak
    OBVIOUS
  <2>3. QED
    BY <2>1, <2>2 DEF WatchdogTypeOK, Totals, Streaks
<1>2. level \in Levels /\ 0 \in Levels /\ 0 \in 0..Reminder /\ since \in 0..Reminder
  BY DEF WatchdogTypeOK, Levels
<1>3. CASE Activate
  <2>1. total' = [Streaks EXCEPT !.state = "alert", !.last = level]
    BY <1>3 DEF Activate
  <2>2. total' \in Totals /\ total'.state = "alert"
    BY <1>1, <1>2, <2>1 DEF Totals, States
  <2>3. QED
    BY <1>2, <1>3, <2>2 DEF Activate, Sending
<1>4. CASE Grow
  <2>1. total' = [Streaks EXCEPT !.last = level] /\ total.state = "alert"
    BY <1>4 DEF Grow, isActive
  <2>2. total' \in Totals /\ total'.state = "alert"
    BY <1>1, <1>2, <2>1 DEF Totals
  <2>3. QED
    BY <1>2, <1>4, <2>2 DEF Grow, Sending
<1>5. CASE Remind
  BY <1>1, <1>2, <1>5 DEF Remind, Sending, isActive
<1>6. CASE Recover
  <2>1. total' = [Streaks EXCEPT !.state = "resolve", !.last = 0]
    BY <1>6 DEF Recover
  <2>2. total' \in Totals /\ total'.state = "resolve"
    BY <1>1, <1>2, <2>1 DEF Totals, States
  <2>3. QED
    BY <1>2, <1>6, <2>2 DEF Recover, Sending
<1>7. CASE Quiet
  BY <1>1, <1>2, <1>7 DEF Quiet, NoMessage
<1>8. QED
  BY <1>3, <1>4, <1>5, <1>6, <1>7 DEF HandleTotal

\* After the host's part what the channel was told is what is on record.
LEMMA HonestHandleTotal ==
    ASSUME Honest, HandleTotal
    PROVE  Honest'
<1>1. /\ pc = "host" /\ pc' \in {"sendHost", "over"}
      /\ UNCHANGED <<level, over, alerts, left, told, unsure, faults>>
  BY TotalInType DEF Honest, Typed, HandleTotal
<1>2. \A p \in Procs : Recorded(p)' = Recorded(p)
  BY <1>1 DEF Recorded, EntryOf
<1>3. Recorded(Host)' = total'.state /\ Recorded(Host) = total.state
  BY DEF Recorded
<1>4. Typed'
  BY <1>1, <1>3, TotalInType, SendPlaces
     DEF Honest, Typed, WatchdogTypeOK, MessageOK, Sends, Subjects, Totals, States
<1>5. ToldUnlessFailed'
  BY <1>1, <1>2, <1>3, TotalInType, SendPlaces
     DEF Honest, Typed, ToldUnlessFailed, Waiting, Subjects, Sends
<1>6. QED
  BY <1>4, <1>5 DEF Honest
\* A check that begins changes nothing of what is known.
LEMMA HonestRead ==
    ASSUME Honest, Read \/ ReadFails
    PROVE  Honest'
<1>1. /\ since' \in 0..Reminder /\ pc = "sleep"
      /\ UNCHANGED <<total, alerts, message, told, unsure>>
  <2>1. \A n \in 0..Reminder : More(n, Reminder) \in 0..Reminder
    BY StreakInRange
  <2>2. Reminder \in 0..Reminder /\ since \in 0..Reminder
    BY DEF Honest, Typed, WatchdogTypeOK
  <2>3. TimePasses => since' \in 0..Reminder
    BY <2>1, <2>2 DEF TimePasses
  <2>4. QED
    BY <2>3 DEF Read, ReadFails
<1>2. pc' \in {"sleep", "host"}
  BY <1>1 DEF Read, ReadFails
<1>3. WatchdogTypeOK'
  BY <1>1 DEF Honest, Typed, WatchdogTypeOK, Read, ReadFails, Lists, Fault
<1>4. \A s : Recorded(s)' = Recorded(s)
  BY <1>1, RecordKept
<1>5. MessageOK'
  BY <1>2 DEF MessageOK, Sends
<1>6. ToldUnlessFailed'
  BY <1>1, <1>2, <1>4, SendPlaces DEF Honest, ToldUnlessFailed, Waiting, Sends
<1>7. QED
  BY <1>3, <1>5, <1>6 DEF Honest, Typed

\* A message that arrives leaves the channel with what is on record.
LEMMA HonestSent ==
    ASSUME Honest, Sent
    PROVE  Honest'
<1>0. PICK s0 \in Subjects : s0 = message.of
  BY DEF Honest, Typed, WatchdogTypeOK
<1>1. /\ pc \in Sends /\ s0 = message.of /\ message.kind = Recorded(s0)
      /\ (pc = "sendHost") <=> (s0 = Host)
      /\ pc = "sendGone" => message.kind = "resolve" /\ s0 \notin left
      /\ UNCHANGED <<level, over, total, since, left, message, faults>>
      /\ message \in [of : Subjects, kind : {"none", "alert", "resolve"}]
  BY <1>0, SendPlaces DEF Honest, Typed, WatchdogTypeOK, MessageOK, Sent
<1>2. pc' = IF pc = "sendGone" THEN "gone" ELSE "over"
  BY <1>1, SendPlaces DEF Sent, Sends
<1>3. \A s \in Subjects : Recorded(s)' = Recorded(s)
  <2>1. CASE pc = "sendGone"
    <3>1. s0 \in Procs /\ alerts' = Restrict(alerts, DOMAIN alerts \ {s0})
      BY <1>1, <2>1 DEF Sent, Subjects
    <3>2. /\ EntryOf(s0)' = New
          /\ \A q \in Procs \ {s0} : EntryOf(q)' = EntryOf(q)
      BY <3>1, TakenEntry DEF Honest, Typed, WatchdogTypeOK
    <3>3. Recorded(s0) = "resolve" /\ Recorded(s0)' = "resolve"
      BY <1>1, <2>1, <3>1, <3>2 DEF Recorded, New
    <3>4. QED
      BY <1>1, <3>2, <3>3 DEF Recorded, Subjects
  <2>2. CASE pc # "sendGone"
    BY <1>1, <2>2, RecordKept DEF Sent
  <2>3. QED
    BY <2>1, <2>2
<1>4. /\ alerts' \in Entries
      /\ pc = "sendGone" => DOMAIN alerts' = DOMAIN alerts \ {s0}
  <2>1. CASE pc = "sendGone"
    <3>1. s0 \in Procs /\ alerts' = Restrict(alerts, DOMAIN alerts \ {s0})
      BY <1>1, <2>1 DEF Sent, Subjects
    <3>2. QED
      BY <3>1, TakenEntry DEF Honest, Typed, WatchdogTypeOK
  <2>2. CASE pc # "sendGone"
    BY <2>2 DEF Sent, Honest, Typed, WatchdogTypeOK
  <2>3. QED
    BY <2>1, <2>2
<1>5. told' = [told EXCEPT ![s0] = message.kind] /\ unsure' = unsure \ {s0}
  BY <1>1 DEF Sent, Delivered
<1>6. Recorded(s0) \in States
  <2>1. EntryOf(s0) \in Entry /\ total \in Totals
    BY EveryProcessHasEntry DEF Honest, Typed, WatchdogTypeOK
  <2>2. QED
    BY <2>1 DEF Recorded, Entry, Totals
<1>7. told' \in [Subjects -> States] /\ unsure' \in SUBSET Subjects
  BY <1>1, <1>5, <1>6 DEF Honest, Typed, WatchdogTypeOK
<1>8. left' \in SUBSET (IF pc' \in {"gone", "sendGone"} THEN DOMAIN alerts' \ over' ELSE over')
  BY <1>1, <1>2, <1>4, SendPlaces DEF Honest, Typed, WatchdogTypeOK, Sends
<1>9. WatchdogTypeOK'
  BY <1>1, <1>2, <1>4, <1>7, <1>8 DEF Honest, Typed, WatchdogTypeOK
<1>10. MessageOK'
  BY <1>2 DEF MessageOK, Sends
<1>11. ToldUnlessFailed'
  BY <1>1, <1>2, <1>3, <1>5, SendPlaces
     DEF Honest, Typed, WatchdogTypeOK, ToldUnlessFailed, Waiting, Sends
<1>12. QED
  BY <1>9, <1>10, <1>11 DEF Honest, Typed

\* A message that fails leaves its subject, and only that one, unsure.
LEMMA HonestSendFails ==
    ASSUME Honest, NotificationFails
    PROVE  Honest'
<1> DEFINE s0 == message.of
<1>1. /\ pc \in Sends /\ pc' = "sleep" /\ left' = {}
      /\ UNCHANGED <<level, over, total, alerts, since, message>>
      /\ faults' \in 0..MaxFaults
  BY SendPlaces DEF NotificationFails, Fault, Honest, Typed, WatchdogTypeOK
<1>2. s0 \in Subjects /\ message.kind = Recorded(s0) /\ told \in [Subjects -> States]
  BY <1>1 DEF Honest, Typed, WatchdogTypeOK, MessageOK
<1>3. Recorded(s0) \in States
  <2>1. EntryOf(s0) \in Entry /\ total \in Totals
    BY EveryProcessHasEntry DEF Honest, Typed, WatchdogTypeOK
  <2>2. QED
    BY <2>1 DEF Recorded, Entry, Totals
<1>4. /\ told' \in [Subjects -> States] /\ unsure' = unsure \cup {s0}
      /\ \A s \in Subjects \ {s0} : told'[s] = told[s]
  BY <1>2, <1>3 DEF NotificationFails, Delivered
<1>5. WatchdogTypeOK'
  BY <1>1, <1>2, <1>4 DEF Honest, Typed, WatchdogTypeOK
<1>6. \A s : Recorded(s)' = Recorded(s)
  BY <1>1, RecordKept
<1>7. ToldUnlessFailed'
  BY <1>1, <1>4, <1>6 DEF Honest, ToldUnlessFailed, Waiting
<1>8. QED
  BY <1>1, <1>5, <1>7 DEF Honest, Typed, MessageOK, Sends
\* A process over its threshold is told of as soon as it is on record.
LEMMA HonestHandleOver ==
    ASSUME Honest, NEW p \in Procs, HandleOver(p)
    PROVE  Honest'
<1> DEFINE e == Breached(EntryOf(p))
           opens == e.state = "resolve" /\ e.breach >= TriggerStreak
           e2 == [e EXCEPT !.state = "alert"]
<1>1. /\ pc = "over" /\ left' = left \ {p}
      /\ UNCHANGED <<level, over, total, since, told, unsure, faults>>
      /\ \/ opens /\ alerts' = WithEntry(p, e2) /\ pc' = "sendOver"
            /\ message' = [of |-> p, kind |-> "alert"]
         \/ ~opens /\ alerts' = WithEntry(p, e) /\ UNCHANGED <<pc, message>>
  BY DEF HandleOver, Sending, NoMessage
<1>2. e \in Entry /\ e.state = EntryOf(p).state /\ alerts \in Entries
  BY EveryProcessHasEntry, BreachedEntry DEF Honest, Typed, WatchdogTypeOK
<1>3. e2 \in Entry /\ e2.state = "alert"
  BY <1>2, StatedEntry DEF States
<1> HIDE DEF e, e2
<1>4. /\ alerts' \in Entries
      /\ \A q \in Procs \ {p} : EntryOf(q)' = EntryOf(q)
      /\ \/ opens /\ EntryOf(p)' = e2
         \/ ~opens /\ EntryOf(p)' = e
  BY <1>1, <1>2, <1>3, GivenEntry
<1>5. WatchdogTypeOK'
  BY <1>1, <1>4, SendPlaces DEF Honest, Typed, WatchdogTypeOK, Subjects, Sends
<1>6. \A s \in Subjects \ {p} : Recorded(s)' = Recorded(s)
  BY <1>1, <1>4 DEF Recorded, Subjects
<1>7. CASE opens
  <2>1. Recorded(p)' = "alert"
    BY <1>1, <1>3, <1>4, <1>7 DEF Recorded
  <2>2. MessageOK'
    BY <1>1, <1>7, <2>1 DEF MessageOK, Sends
  <2>3. ToldUnlessFailed'
    BY <1>1, <1>6, <1>7, SendPlaces DEF Honest, ToldUnlessFailed, Waiting, Sends
  <2>4. QED
    BY <1>5, <2>2, <2>3 DEF Honest, Typed
<1>8. CASE ~opens
  <2>1. Recorded(p)' = Recorded(p)
    BY <1>2, <1>4, <1>8 DEF Recorded
  <2>2. MessageOK'
    BY <1>1, <1>8 DEF MessageOK, Sends
  <2>3. ToldUnlessFailed'
    BY <1>1, <1>6, <1>8, <2>1, SendPlaces DEF Honest, ToldUnlessFailed, Waiting, Sends
  <2>4. QED
    BY <1>5, <2>2, <2>3 DEF Honest, Typed
<1>9. QED
  BY <1>7, <1>8

\* A process that is under it again is given up once it has been told.
LEMMA HonestHandleGone ==
    ASSUME Honest, NEW p \in Procs, HandleGone(p)
    PROVE  Honest'
<1> DEFINE e == Cleared(alerts[p])
           e2 == [e EXCEPT !.state = "resolve"]
           keeps == e.clear < ResolveStreak
           tells == e.clear >= ResolveStreak /\ e.state = "alert"
           ends  == e.clear >= ResolveStreak /\ e.state = "resolve"
<1>1. /\ pc = "gone" /\ p \in left /\ left' = left \ {p}
      /\ UNCHANGED <<level, over, total, since, told, unsure, faults>>
      /\ \/ keeps /\ alerts' = WithEntry(p, e) /\ UNCHANGED <<pc, message>>
         \/ tells /\ alerts' = WithEntry(p, e2) /\ pc' = "sendGone"
            /\ message' = [of |-> p, kind |-> "resolve"]
         \/ ends /\ alerts' = Restrict(alerts, DOMAIN alerts \ {p}) /\ UNCHANGED <<pc, message>>
  BY DEF HandleGone, Sending, NoMessage
<1>2. alerts \in Entries /\ p \in DOMAIN alerts
  BY <1>1 DEF Honest, Typed, WatchdogTypeOK
<1>3. alerts[p] \in Entry /\ EntryOf(p) = alerts[p]
  BY <1>2, EntriesHave DEF EntryOf
<1>4. e \in Entry /\ e.state = EntryOf(p).state
  BY <1>3, ClearedEntry
<1>5. e2 \in Entry /\ e2.state = "resolve"
  BY <1>4, StatedEntry DEF States
<1> HIDE DEF e, e2
<1>6. /\ alerts' \in Entries
      /\ \A q \in Procs \ {p} : EntryOf(q)' = EntryOf(q)
      /\ DOMAIN alerts \ {p} \subseteq DOMAIN alerts'
      /\ \/ keeps /\ EntryOf(p)' = e
         \/ tells /\ EntryOf(p)' = e2
         \/ ends /\ EntryOf(p)' = New
  BY <1>1, <1>2, <1>4, <1>5, GivenEntry, TakenEntry
<1>7. WatchdogTypeOK'
  BY <1>1, <1>6, SendPlaces DEF Honest, Typed, WatchdogTypeOK, Subjects, Sends
<1>8. \A s \in Subjects \ {p} : Recorded(s)' = Recorded(s)
  BY <1>1, <1>6 DEF Recorded, Subjects
<1>9. CASE tells
  <2>1. Recorded(p)' = "resolve" /\ pc' = "sendGone" /\ message' = [of |-> p, kind |-> "resolve"]
    BY <1>1, <1>4, <1>5, <1>6, <1>9 DEF Recorded, Entry
  <2>2. MessageOK'
    BY <1>1, <2>1 DEF MessageOK, Sends
  <2>3. ToldUnlessFailed'
    BY <1>1, <1>8, <2>1, SendPlaces DEF Honest, ToldUnlessFailed, Waiting, Sends
  <2>4. QED
    BY <1>7, <2>2, <2>3 DEF Honest, Typed
<1>10. CASE keeps \/ ends
  <2>1. Recorded(p)' = Recorded(p) /\ UNCHANGED <<pc, message>>
    BY <1>1, <1>4, <1>6, <1>10 DEF Recorded, New, Entry
  <2>2. MessageOK'
    BY <1>1, <2>1 DEF MessageOK, Sends
  <2>3. ToldUnlessFailed'
    BY <1>1, <1>8, <2>1, SendPlaces DEF Honest, ToldUnlessFailed, Waiting, Sends
  <2>4. QED
    BY <1>7, <2>2, <2>3 DEF Honest, Typed
<1>11. QED
  BY <1>1, <1>9, <1>10

\* Between the parts of a check nothing is on record that was not before.
LEMMA HonestPartDone ==
    ASSUME Honest, AllOverHandled \/ CheckDone
    PROVE  Honest'
<1>1. /\ pc \in {"over", "gone"} /\ pc' \in {"gone", "sleep"}
      /\ UNCHANGED <<level, over, total, alerts, since, message, told, unsure, faults>>
  BY DEF AllOverHandled, CheckDone
<1>2. WatchdogTypeOK'
  <2>1. alerts' = alerts /\ over' = over
    BY <1>1
  <2>2. left' \in SUBSET (IF pc' \in {"gone", "sendGone"} THEN DOMAIN alerts' \ over' ELSE over')
    BY <2>1 DEF AllOverHandled, CheckDone
  <2>3. QED
    BY <1>1, <2>2 DEF Honest, Typed, WatchdogTypeOK
<1>3. \A s : Recorded(s)' = Recorded(s)
  BY <1>1, RecordKept
<1>4. ToldUnlessFailed'
  BY <1>1, <1>3, SendPlaces DEF Honest, ToldUnlessFailed, Waiting, Sends
<1>5. QED
  BY <1>1, <1>2, <1>4 DEF Honest, Typed, MessageOK, Sends

\* After a restart nothing is on record, and nobody can be sure.
LEMMA HonestRestart ==
    ASSUME Honest, WatchdogRestart
    PROVE  Honest'
<1>1. [q \in {} |-> New] \in [{} -> Entry]
  OBVIOUS
<1>2. alerts' \in Entries
  BY <1>1, EntriesAre DEF WatchdogRestart
<1>3. total' \in Totals /\ since' \in 0..Reminder /\ faults' \in 0..MaxFaults
  BY DEF WatchdogRestart, Fault, Totals, States, Levels, Honest, Typed, WatchdogTypeOK
<1>4. told' \in [Subjects -> States]
  <2>1. told \in [Subjects -> States]
    BY DEF Honest, Typed, WatchdogTypeOK
  <2>2. CASE pc \in Sends
    <3>1. message.kind = Recorded(message.of) /\ EntryOf(message.of) \in Entry /\ total \in Totals
      BY <2>2, EveryProcessHasEntry DEF Honest, Typed, WatchdogTypeOK, MessageOK
    <3>2. message.kind \in States
      BY <3>1 DEF Recorded, Entry, Totals
    <3>3. QED
      BY <2>1, <3>2 DEF WatchdogRestart, Delivered
  <2>3. CASE pc \notin Sends
    BY <2>1, <2>3, SendPlaces DEF WatchdogRestart
  <2>4. QED
    BY <2>2, <2>3
<1>5. pc' = "sleep" /\ left' = {} /\ unsure' = Subjects /\ UNCHANGED <<level, over, message>>
  BY DEF WatchdogRestart
<1>6. WatchdogTypeOK'
  BY <1>2, <1>3, <1>4, <1>5 DEF Honest, Typed, WatchdogTypeOK
<1>7. QED
  BY <1>5, <1>6 DEF Honest, Typed, MessageOK, ToldUnlessFailed, Sends

-----------------------------------------------------------------------------
(* The theorems.                                                           *)

\* Every step leaves the channel with what is on record, or its subject unsure.
LEMMA HonestStep == Honest /\ [WatchdogNext]_watchdogVars => Honest'
<1> SUFFICES ASSUME Honest, [WatchdogNext]_watchdogVars
             PROVE  Honest'
  OBVIOUS
<1>1. CASE WatchdogNext
  BY <1>1, HonestRead, HonestHandleTotal, HonestSent, HonestHandleOver, HonestHandleGone,
     HonestPartDone, HonestSendFails, HonestRestart
     DEF WatchdogNext, Step
<1>2. CASE UNCHANGED watchdogVars
  <2>1. \A s : Recorded(s)' = Recorded(s)
    BY <1>2, RecordKept DEF watchdogVars
  <2>2. QED
    BY <1>2, <2>1
       DEF watchdogVars, Honest, Typed, WatchdogTypeOK, MessageOK, ToldUnlessFailed, Waiting
<1>3. QED
  BY <1>1, <1>2

\* The watchdog starts with nothing on record.
LEMMA HonestInit == WatchdogInit => Honest
<1> SUFFICES ASSUME WatchdogInit
             PROVE  Honest
  OBVIOUS
<1>1. [q \in {} |-> New] \in [{} -> Entry]
  OBVIOUS
<1>2. alerts \in Entries
  BY <1>1, EntriesAre DEF WatchdogInit
<1>3. WatchdogTypeOK
  BY <1>2, SendPlaces
     DEF WatchdogInit, WatchdogTypeOK, Totals, States, Levels, Lists, Subjects, Sends
<1>4. \A s : Recorded(s) = "resolve"
  BY DEF WatchdogInit, Recorded, EntryOf, New
<1>5. QED
  BY <1>3, <1>4 DEF WatchdogInit, Honest, Typed, MessageOK, ToldUnlessFailed, Sends

\* The channel knows what the watchdog has on record, but for those whose own
\* message failed.
LEMMA AlwaysHonest == WatchdogSpec => []Honest
BY HonestInit, HonestStep, PTL DEF WatchdogSpec

\* The variables keep their types, and no process is looked at twice in a check.
THEOREM WatchdogTypeCorrect == WatchdogSpec => []WatchdogTypeOK
<1>1. Honest => WatchdogTypeOK
  BY DEF Honest, Typed
<1>2. QED
  BY <1>1, AlwaysHonest, PTL

\* The channel knows what is on record of every subject whose last message did
\* not fail, over failed checks and restarts.
THEOREM ToldIsOnRecord == WatchdogSpec => []ToldUnlessFailed
<1>1. Honest => ToldUnlessFailed
  BY DEF Honest
<1>2. QED
  BY <1>1, AlwaysHonest, PTL

-----------------------------------------------------------------------------
(* NudgeDaemon.                                                            *)

HIDE WatchdogAssumption
USE DaemonAssumption

\* While the daemon reads a session it has one at hand, and VK still has every
\* turn it was told of: turns are dropped, never taken away.  While it waits for
\* an answer there is a nudge to answer.
Reading ==
    /\ doing = "reading" => current \in Sessions /\ Len(seen) <= Len(turns[current])
    /\ doing = "sending" => Len(sends) > 0

NudgeTyped == DaemonTypeOK /\ Reading

-----------------------------------------------------------------------------
(* What the steps do to the turns and to the nudges.                       *)

\* VK's list of turns stays a list of turns and gets no shorter.
TurnsGrow ==
    /\ turns' \in [Sessions -> Seq(Statuses)]
    /\ \A s \in Sessions : Len(turns[s]) <= Len(turns'[s])

\* A new turn, whoever prompts it, only makes its session longer.
LEMMA NewTurnGrows ==
    ASSUME DaemonTypeOK, NEW s \in Sessions, NewTurn(s)
    PROVE  TurnsGrow
<1>1. turns[s] \in Seq(Statuses) /\ "running" \in Statuses
  BY DEF DaemonTypeOK, Statuses
<1>2. /\ Append(turns[s], "running") \in Seq(Statuses)
      /\ Len(turns[s]) <= Len(Append(turns[s], "running"))
  BY <1>1
<1>3. QED
  BY <1>2 DEF DaemonTypeOK, NewTurn, TurnsGrow

\* A turn that ends and turns that are dropped keep their places.
LEMMA TurnsKeepTheirPlaces ==
    ASSUME DaemonTypeOK, NEW s \in Sessions, NEW n \in DOMAIN turns[s],
           TurnEnds(s, n) \/ SessionRewound(s, n)
    PROVE  TurnsGrow
<1> DEFINE list == turns[s]
<1>1. list \in Seq(Statuses) /\ Len(list) \in Nat /\ DOMAIN list = 1..Len(list)
  BY DEF DaemonTypeOK
<1>2. CASE TurnEnds(s, n)
  <2>1. PICK end \in Ends : turns' = [turns EXCEPT ![s][n] = end]
    BY <1>2 DEF TurnEnds
  <2>2. end \in Statuses
    BY DEF Statuses
  <2>3. [list EXCEPT ![n] = end] \in Seq(Statuses) /\ Len([list EXCEPT ![n] = end]) = Len(list)
    BY <1>1, <2>2, ExceptSeq
  <2>4. QED
    BY <2>1, <2>3, <1>1 DEF DaemonTypeOK, TurnsGrow
<1>3. CASE SessionRewound(s, n)
  <2> DEFINE cut == [m \in DOMAIN list |-> IF m >= n THEN "dropped" ELSE list[m]]
  <2>1. turns' = [turns EXCEPT ![s] = cut]
    BY <1>3 DEF SessionRewound
  <2>2. \A m \in DOMAIN list : cut[m] \in Statuses
    BY <1>1 DEF Statuses
  <2>3. cut \in [1..Len(list) -> Statuses]
    BY <1>1, <2>2
  <2>4. cut \in Seq(Statuses) /\ Len(cut) = Len(list)
    BY <1>1, <2>3
  <2>5. QED
    BY <2>1, <2>4, <1>1 DEF DaemonTypeOK, TurnsGrow
<1>4. QED
  BY <1>2, <1>3

\* VK's answer changes what became of a nudge, and neither its turn nor
\* whether it is on file.
SendsKept ==
    /\ sends' \in Seq(Nudges)
    /\ Len(sends') = Len(sends)
    /\ \A j \in DOMAIN sends : /\ sends'[j].turn = sends[j].turn
                               /\ sends'[j].recorded = sends[j].recorded

\* VkTakesNudge and VkRefusesNudge do no more than that.
LEMMA AnswersKeepSends ==
    ASSUME DaemonTypeOK, NEW k \in DOMAIN sends, VkTakesNudge(k) \/ VkRefusesNudge(k)
    PROVE  SendsKept
<1>1. sends \in Seq(Nudges) /\ Len(sends) \in Nat /\ DOMAIN sends = 1..Len(sends)
  BY DEF DaemonTypeOK
<1>2. PICK v \in {"accepted", "refused"} : sends' = [sends EXCEPT ![k].vk = v]
  BY DEF VkTakesNudge, VkRefusesNudge
<1> DEFINE e == [sends[k] EXCEPT !.vk = v]
<1>3. sends[k] \in Nudges
  BY <1>1
<1>4. e \in Nudges /\ e.turn = sends[k].turn /\ e.recorded = sends[k].recorded
  BY <1>3 DEF Nudges
<1>5. sends' = [sends EXCEPT ![k] = e]
  BY <1>2
<1> HIDE DEF e
<1>6. /\ sends' \in Seq(Nudges)
      /\ Len(sends') = Len(sends)
      /\ \A j \in 1..Len(sends) : sends'[j] = IF j = k THEN e ELSE sends[j]
  BY <1>1, <1>4, <1>5, ExceptSeq
<1>7. QED
  BY <1>1, <1>4, <1>6 DEF SendsKept

\* The nudge that VK has answered is marked in its place.
SendsKeptButLast ==
    /\ sends' \in Seq(Nudges)
    /\ Len(sends') = Len(sends)
    /\ \A j \in DOMAIN sends :
         /\ sends'[j].turn = sends[j].turn
         /\ j # Len(sends) => sends'[j].recorded = sends[j].recorded

\* Marking it changes no other nudge.
LEMMA RecordedInPlace ==
    ASSUME DaemonTypeOK, Len(sends) > 0, sends' = [sends EXCEPT ![Len(sends)].recorded = "yes"]
    PROVE  SendsKeptButLast
<1>1. /\ sends \in Seq(Nudges) /\ Len(sends) \in Nat /\ DOMAIN sends = 1..Len(sends)
      /\ Len(sends) \in 1..Len(sends)
  BY DEF DaemonTypeOK
<1> DEFINE last == Len(sends)
           e    == [sends[last] EXCEPT !.recorded = "yes"]
<1>2. sends[last] \in Nudges
  BY <1>1
<1>3. e \in Nudges /\ e.turn = sends[last].turn
  BY <1>2 DEF Nudges
<1>4. sends' = [sends EXCEPT ![last] = e]
  OBVIOUS
<1> HIDE DEF e
<1>5. /\ sends' \in Seq(Nudges)
      /\ Len(sends') = Len(sends)
      /\ \A j \in 1..Len(sends) : sends'[j] = IF j = last THEN e ELSE sends[j]
  BY <1>1, <1>3, <1>4, ExceptSeq
<1>6. QED
  BY <1>1, <1>3, <1>5 DEF SendsKeptButLast

\* A candidate is a turn the daemon was told of and does not remember.
LEMMA CandidatesAreUnknown ==
    ASSUME NEW s, NEW list, NEW n \in Candidates(s, list)
    PROVE  n \in DOMAIN list /\ <<s, n>> \notin known
<1>1. n \in Unknown(s, list)
  BY DEF Candidates, Latest, Listed
<1>2. QED
  BY <1>1 DEF Unknown

\* A nudge is sent for a turn that is not remembered, and is not on file yet.
LEMMA SendIsNew ==
    ASSUME NudgeTyped, SendNudge
    PROVE  /\ sends' \in Seq(Nudges)
           /\ Len(sends') = Len(sends) + 1
           /\ \A j \in DOMAIN sends : sends'[j] = sends[j]
           /\ sends'[Len(sends')].turn[2] \in DOMAIN turns[sends'[Len(sends')].turn[1]]
           /\ sends'[Len(sends')].turn \notin known
           /\ sends'[Len(sends')].recorded = "no"
<1>1. PICK n \in Candidates(current, seen) :
        sends' = Append(sends, [turn |-> <<current, n>>, vk |-> "sent", recorded |-> "no"])
  BY DEF SendNudge
<1> DEFINE e == [turn |-> <<current, n>>, vk |-> "sent", recorded |-> "no"]
<1>2. /\ current \in Sessions /\ Len(seen) <= Len(turns[current])
      /\ seen \in Seq(Statuses) /\ turns[current] \in Seq(Statuses)
  BY DEF NudgeTyped, DaemonTypeOK, Reading, SendNudge
<1>3. n \in DOMAIN seen /\ <<current, n>> \notin known
  BY CandidatesAreUnknown
<1>4. n \in Nat \ {0} /\ n \in DOMAIN turns[current]
  BY <1>2, <1>3
<1>5. e \in Nudges /\ e.turn = <<current, n>> /\ e.recorded = "no"
  BY <1>2, <1>4 DEF Nudges, Turns
<1>6. sends \in Seq(Nudges) /\ sends' = Append(sends, e)
  BY <1>1 DEF NudgeTyped, DaemonTypeOK
<1> HIDE DEF e
<1>7. /\ sends' \in Seq(Nudges)
      /\ Len(sends') = Len(sends) + 1
      /\ \A j \in DOMAIN sends : sends'[j] = sends[j]
      /\ sends'[Len(sends')] = e
  BY <1>5, <1>6
<1>8. e.turn[1] = current /\ e.turn[2] = n
  BY <1>5
<1>9. QED
  BY <1>3, <1>4, <1>5, <1>7, <1>8

-----------------------------------------------------------------------------
(* Types.                                                                  *)

\* Where the nudges keep their turns and the lists get no shorter, every nudge
\* is still for a turn VK has.
LEMMA NudgedTurnsStay ==
    ASSUME DaemonTypeOK, TurnsGrow, NEW turn \in Turns, turn[2] \in DOMAIN turns[turn[1]]
    PROVE  turn[2] \in DOMAIN turns'[turn[1]]
<1>1. turn[1] \in Sessions /\ turn[2] \in Nat
  BY DEF Turns
<1>2. /\ turns[turn[1]] \in Seq(Statuses) /\ turns'[turn[1]] \in Seq(Statuses)
      /\ Len(turns[turn[1]]) <= Len(turns'[turn[1]])
  BY <1>1 DEF DaemonTypeOK, TurnsGrow
<1>3. QED
  BY <1>1, <1>2

\* The part of DaemonTypeOK and Reading that VK's steps may touch.
LEMMA VkKeepsTypes ==
    ASSUME NudgeTyped, UNCHANGED daemonVars, TurnsGrow,
           SendsKept \/ UNCHANGED sends
    PROVE  NudgeTyped'
<1>1. SendsKept
  BY DEF SendsKept, NudgeTyped, DaemonTypeOK
<1>2. ASSUME NEW k \in DOMAIN sends'
      PROVE  sends'[k].turn[2] \in DOMAIN turns'[sends'[k].turn[1]]
  <2>1. k \in DOMAIN sends /\ sends'[k].turn = sends[k].turn /\ sends[k] \in Nudges
    BY <1>1, <1>2 DEF SendsKept, NudgeTyped, DaemonTypeOK
  <2>2. sends[k].turn \in Turns /\ sends[k].turn[2] \in DOMAIN turns[sends[k].turn[1]]
    BY <2>1 DEF NudgeTyped, DaemonTypeOK, Nudges
  <2>3. sends[k].turn[2] \in DOMAIN turns'[sends[k].turn[1]]
    BY <2>2, NudgedTurnsStay DEF NudgeTyped
  <2>4. QED
    BY <2>1, <2>3
<1>3. DaemonTypeOK'
  BY <1>1, <1>2 DEF DaemonTypeOK, NudgeTyped, SendsKept, TurnsGrow, daemonVars
<1>4. Reading'
  <2> SUFFICES ASSUME doing = "reading"
               PROVE  current \in Sessions /\ Len(seen) <= Len(turns'[current])
    BY <1>1 DEF NudgeTyped, Reading, SendsKept, daemonVars
  <2>1. current \in Sessions /\ Len(seen) <= Len(turns[current])
    BY DEF NudgeTyped, Reading
  <2>2. Len(turns[current]) <= Len(turns'[current])
    BY <2>1 DEF TurnsGrow
  <2>3. /\ Len(seen) \in Nat /\ Len(turns[current]) \in Nat
        /\ Len(turns'[current]) \in Nat
    BY <2>1 DEF NudgeTyped, DaemonTypeOK, TurnsGrow
  <2>4. QED
    BY <2>1, <2>2, <2>3
<1>5. QED
  BY <1>3, <1>4 DEF NudgeTyped

\* Every variable keeps its type, and no nudge is sent for a turn VK never had,
\* through every step of the daemon, of VK and of its users.
LEMMA AlwaysTyped == DaemonSpec => []NudgeTyped
<1>1. DaemonInit => NudgeTyped
  BY DEF DaemonInit, NudgeTyped, DaemonTypeOK, Reading
<1>2. NudgeTyped /\ [DaemonNext]_nudgeVars => NudgeTyped'
  <2> SUFFICES ASSUME NudgeTyped, [DaemonNext]_nudgeVars
               PROVE  NudgeTyped'
    OBVIOUS
  <2>1. CASE StartCycle
    BY <2>1 DEF StartCycle, NudgeTyped, DaemonTypeOK, Reading
  <2>2. ASSUME NEW s \in Sessions, ProcessesFetched(s)
        PROVE  NudgeTyped'
    <3>1. CASE UNCHANGED <<doing, current, seen>>
      BY <2>2, <3>1 DEF ProcessesFetched, NudgeTyped, DaemonTypeOK, Reading
    <3>2. CASE current' = s /\ seen' \in [DOMAIN turns[s] -> Statuses]
      <4>1. turns[s] \in Seq(Statuses) /\ Len(turns[s]) \in Nat
        BY DEF NudgeTyped, DaemonTypeOK
      <4>2. seen' \in [1..Len(turns[s]) -> Statuses]
        BY <3>2, <4>1
      <4>3. seen' \in Seq(Statuses) /\ Len(seen') = Len(turns[s])
        BY <4>1, <4>2
      <4>4. doing' = "reading" \/ doing' = doing
        BY <2>2 DEF ProcessesFetched
      <4>5. UNCHANGED <<turns, sends, file, known>> /\ waiting' \subseteq Sessions
        BY <2>2 DEF ProcessesFetched, NudgeTyped, DaemonTypeOK
      <4>6. QED
        BY <2>2, <3>2, <4>1, <4>3, <4>4, <4>5 DEF NudgeTyped, DaemonTypeOK, Reading
    <3>3. QED
      BY <2>2, <3>1, <3>2 DEF ProcessesFetched
  <2>3. CASE FetchFails
    BY <2>3 DEF FetchFails, SessionDone, NudgeTyped, DaemonTypeOK, Reading
  <2>4. CASE NothingToSend
    BY <2>4 DEF NothingToSend, SessionDone, NudgeTyped, DaemonTypeOK, Reading
  <2>5. CASE SendNudge
    <3>1. /\ doing' = "sending"
          /\ UNCHANGED <<turns, file, known, waiting, current, seen>>
      BY <2>5 DEF SendNudge
    <3>2. sends \in Seq(Nudges) /\ sends' \in Seq(Nudges) /\ Len(sends') = Len(sends) + 1
      BY <2>5, SendIsNew DEF NudgeTyped, DaemonTypeOK
    <3>3. ASSUME NEW k \in DOMAIN sends'
          PROVE  sends'[k].turn[2] \in DOMAIN turns[sends'[k].turn[1]]
      <4>1. k \in DOMAIN sends \/ k = Len(sends')
        BY <3>2
      <4>2. CASE k \in DOMAIN sends
        <5>1. sends'[k] = sends[k]
          BY <2>5, <4>2, SendIsNew
        <5>2. QED
          BY <4>2, <5>1 DEF NudgeTyped, DaemonTypeOK
      <4>3. CASE k = Len(sends')
        BY <2>5, <4>3, SendIsNew
      <4>4. QED
        BY <4>1, <4>2, <4>3
    <3>4. QED
      BY <3>1, <3>2, <3>3 DEF NudgeTyped, DaemonTypeOK, Reading
  <2>6. CASE NudgeAnswered
    <3> DEFINE last == Len(sends)
    <3>1. /\ sends \in Seq(Nudges) /\ Len(sends) \in Nat \ {0} /\ DOMAIN sends = 1..Len(sends)
          /\ last \in DOMAIN sends /\ sends[last] \in Nudges
      BY <2>6 DEF NudgeAnswered, NudgeTyped, DaemonTypeOK, Reading
    <3>2. sends[last].turn \in Turns
      BY <3>1 DEF Nudges
    <3>3. SendsKeptButLast
      <4>1. CASE UNCHANGED sends
        BY <3>1, <4>1 DEF SendsKeptButLast
      <4>2. CASE sends' = [sends EXCEPT ![Len(sends)].recorded = "yes"]
        BY <3>1, <4>2, RecordedInPlace DEF NudgeTyped
      <4>3. QED
        BY <2>6, <4>1, <4>2 DEF NudgeAnswered
    <3>4. \A k \in DOMAIN sends' : sends'[k].turn[2] \in DOMAIN turns[sends'[k].turn[1]]
      <4>1. ASSUME NEW k \in DOMAIN sends'
            PROVE  k \in DOMAIN sends /\ sends'[k].turn = sends[k].turn
        BY <3>1, <3>3, <4>1 DEF SendsKeptButLast
      <4>2. QED
        BY <4>1 DEF NudgeTyped, DaemonTypeOK
    <3>5. /\ doing' = "cycle" /\ current' = NoSession /\ seen' = <<>>
          /\ UNCHANGED <<turns, waiting>>
          /\ known' \subseteq Turns /\ file' \subseteq Turns
      BY <2>6, <3>2 DEF NudgeAnswered, SessionDone, Nudged, NudgeTyped, DaemonTypeOK
    <3>6. QED
      BY <3>3, <3>4, <3>5 DEF SendsKeptButLast, NudgeTyped, DaemonTypeOK, Reading
  <2>7. CASE NudgeFails
    BY <2>7 DEF NudgeFails, SessionDone, NudgeTyped, DaemonTypeOK, Reading
  <2>8. CASE EndCycle
    BY <2>8 DEF EndCycle, NudgeTyped, DaemonTypeOK, Reading
  <2>9. CASE Crash
    BY <2>9 DEF Crash, NudgeTyped, DaemonTypeOK, Reading
  <2>10. ASSUME NEW s \in Sessions, UserPrompts(s)
         PROVE  NudgeTyped'
    BY <2>10, NewTurnGrows, VkKeepsTypes DEF UserPrompts, NudgeTyped
  <2>11. ASSUME NEW s \in Sessions, NEW n \in DOMAIN turns[s],
                TurnEnds(s, n) \/ SessionRewound(s, n)
         PROVE  NudgeTyped'
    <3>1. TurnsGrow
      BY <2>11, TurnsKeepTheirPlaces DEF NudgeTyped
    <3>2. UNCHANGED sends /\ UNCHANGED daemonVars
      BY <2>11 DEF TurnEnds, SessionRewound
    <3>3. QED
      BY <3>1, <3>2, VkKeepsTypes
  <2>12. ASSUME NEW k \in DOMAIN sends, VkTakesNudge(k) \/ VkRefusesNudge(k)
         PROVE  NudgeTyped'
    <3>1. SendsKept
      BY <2>12, AnswersKeepSends DEF NudgeTyped
    <3>2. sends[k].turn[1] \in Sessions
      <4>1. sends[k] \in Nudges
        BY DEF NudgeTyped, DaemonTypeOK
      <4>2. QED
        BY <4>1 DEF Nudges, Turns
    <3>3. TurnsGrow
      <4>1. CASE VkTakesNudge(k)
        BY <3>2, <4>1, NewTurnGrows DEF VkTakesNudge, NudgeTyped
      <4>2. CASE VkRefusesNudge(k)
        BY <4>2 DEF VkRefusesNudge, NudgeTyped, DaemonTypeOK, TurnsGrow
      <4>3. QED
        BY <2>12, <4>1, <4>2
    <3>4. UNCHANGED daemonVars
      BY <2>12 DEF VkTakesNudge, VkRefusesNudge
    <3>5. QED
      BY <3>1, <3>3, <3>4, VkKeepsTypes
  <2>13. CASE UNCHANGED nudgeVars
    BY <2>13 DEF nudgeVars, daemonVars, NudgeTyped, DaemonTypeOK, Reading
  <2>14. QED
    BY <2>1, <2>2, <2>3, <2>4, <2>5, <2>6, <2>7, <2>8, <2>9, <2>10, <2>11, <2>12,
       <2>13 DEF DaemonNext, Daemon, Vk
<1>3. QED
  BY <1>1, <1>2, PTL DEF DaemonSpec

\* The type invariant of the model, for any number of sessions and turns.
THEOREM DaemonTypeCorrect == DaemonSpec => []DaemonTypeOK
<1>1. NudgeTyped => DaemonTypeOK
  BY DEF NudgeTyped
<1>2. QED
  BY <1>1, AlwaysTyped, PTL

-----------------------------------------------------------------------------
(* What is on file.                                                        *)

\* A nudge marked as recorded is for a turn on file.
OnFile == \A k \in DOMAIN sends : sends[k].recorded = "yes" => sends[k].turn \in file

\* While the daemon waits for the answer to a nudge, it does not remember the
\* turn of it yet.
NewlySent == doing = "sending" => sends[Len(sends)].turn \notin known

\* NudgedOnce is not inductive: that no nudge is sent for a turn on file rests
\* on the daemon remembering what is on file, and that an answered nudge may be
\* marked rests on its turn not having been on file when it was sent.
Remembered == FileKnown /\ OnFile /\ NewlySent /\ NudgedOnce

\* Steps that leave the nudges and the file alone, and remember no more than
\* the file while an answer is awaited.
LEMMA RememberedWithSends ==
    ASSUME Remembered, UNCHANGED <<sends, file>>, file \subseteq known',
           doing' = "sending" => doing = "sending" /\ known' = known
    PROVE  Remembered'
BY DEF Remembered, FileKnown, OnFile, NewlySent, NudgedOnce

\* VK's steps leave the daemon alone and the nudges where they are.
LEMMA RememberedByVk ==
    ASSUME NudgeTyped, Remembered, SendsKept, UNCHANGED daemonVars
    PROVE  Remembered'
<1>1. /\ DOMAIN sends' = DOMAIN sends /\ Len(sends') = Len(sends)
      /\ DOMAIN sends = 1..Len(sends) /\ Len(sends) \in Nat
  BY DEF NudgeTyped, DaemonTypeOK, SendsKept
<1>2. UNCHANGED <<file, known, doing>>
  BY DEF daemonVars
<1>3. OnFile' /\ FileKnown'
  BY <1>1, <1>2 DEF SendsKept, Remembered, OnFile, FileKnown
<1>4. NewlySent'
  <2> SUFFICES ASSUME doing = "sending"
               PROVE  sends'[Len(sends)].turn \notin known
    BY <1>1, <1>2 DEF NewlySent
  <2>1. Len(sends) \in DOMAIN sends
    BY <1>1 DEF NudgeTyped, Reading
  <2>2. sends'[Len(sends)].turn = sends[Len(sends)].turn
    BY <2>1 DEF SendsKept
  <2>3. QED
    BY <2>2 DEF Remembered, NewlySent
<1>5. NudgedOnce'
  BY <1>1 DEF SendsKept, Remembered, NudgedOnce
<1>6. QED
  BY <1>3, <1>4, <1>5 DEF Remembered

\* The daemon remembers at least what is on file, and no turn on file is nudged
\* again, whatever the daemon, VK and its users do.
LEMMA RememberedStep == NudgeTyped /\ Remembered /\ [DaemonNext]_nudgeVars => Remembered'
<1> SUFFICES ASSUME NudgeTyped, Remembered, [DaemonNext]_nudgeVars
             PROVE  Remembered'
  OBVIOUS
<1>1. CASE StartCycle
  BY <1>1, RememberedWithSends DEF StartCycle, Remembered, FileKnown
<1>2. ASSUME NEW s \in Sessions, ProcessesFetched(s)
      PROVE  Remembered'
  <2>1. UNCHANGED <<sends, file, known>> /\ doing' # "sending"
    BY <1>2 DEF ProcessesFetched
  <2>2. QED
    BY <2>1, RememberedWithSends DEF Remembered, FileKnown
<1>3. CASE FetchFails
  BY <1>3, RememberedWithSends DEF FetchFails, SessionDone, Remembered, FileKnown
<1>4. CASE NothingToSend
  BY <1>4, RememberedWithSends DEF NothingToSend, SessionDone, Remembered, FileKnown
<1>5. CASE SendNudge
  <2>1. UNCHANGED <<file, known>>
    BY <1>5 DEF SendNudge
  <2> DEFINE last == Len(sends')
  <2>2. /\ DOMAIN sends = 1..Len(sends) /\ Len(sends) \in Nat
        /\ last = Len(sends) + 1 /\ DOMAIN sends' = 1..last
        /\ \A j \in DOMAIN sends : sends'[j] = sends[j]
        /\ sends'[last].turn \notin known /\ sends'[last].recorded = "no"
    BY <1>5, SendIsNew DEF NudgeTyped, DaemonTypeOK
  <2> HIDE DEF last
  <2>3. \A j \in DOMAIN sends' : j \in DOMAIN sends \/ j = last
    BY <2>2
  <2>4. FileKnown'
    BY <2>1 DEF Remembered, FileKnown
  <2>5. OnFile'
    BY <2>1, <2>2, <2>3 DEF Remembered, OnFile
  <2>6. NewlySent'
    BY <2>1, <2>2 DEF NewlySent, last
  <2>7. NudgedOnce'
    <3> SUFFICES ASSUME NEW k \in DOMAIN sends', NEW l \in DOMAIN sends',
                        k < l, sends'[k].turn = sends'[l].turn
                 PROVE  sends'[k].recorded = "no"
      BY DEF NudgedOnce
    <3>1. k \in DOMAIN sends /\ sends'[k] = sends[k]
      BY <2>2, <2>3
    <3>2. CASE l \in DOMAIN sends
      BY <2>2, <3>1, <3>2 DEF Remembered, NudgedOnce
    <3>3. CASE l = last
      <4>1. sends[k].turn \notin file
        BY <2>2, <3>1, <3>3 DEF Remembered, FileKnown
      <4>2. sends[k].recorded # "yes"
        BY <3>1, <4>1 DEF Remembered, OnFile
      <4>3. sends[k] \in Nudges
        BY <3>1 DEF NudgeTyped, DaemonTypeOK
      <4>4. QED
        BY <3>1, <4>2, <4>3 DEF Nudges
    <3>4. QED
      BY <2>3, <3>2, <3>3
  <2>8. QED
    BY <2>4, <2>5, <2>6, <2>7 DEF Remembered
<1>6. CASE NudgeAnswered
  <2> DEFINE last == Len(sends)
  <2>1. /\ doing = "sending" /\ doing' = "cycle"
        /\ known' = known \cup {sends[last].turn}
    BY <1>6 DEF NudgeAnswered, SessionDone, Nudged
  <2>2. CASE UNCHANGED <<file, sends>>
    BY <2>1, <2>2, RememberedWithSends DEF Remembered, FileKnown
  <2>3. CASE file' = known' /\ sends' = [sends EXCEPT ![Len(sends)].recorded = "yes"]
    <3>1. /\ DOMAIN sends = 1..last /\ last \in Nat \ {0}
      BY <2>1 DEF NudgeTyped, DaemonTypeOK, Reading
    <3>2. SendsKeptButLast
      BY <2>3, <3>1, RecordedInPlace DEF NudgeTyped
    <3>3. /\ DOMAIN sends' = DOMAIN sends
          /\ \A j \in DOMAIN sends : sends'[j].turn = sends[j].turn
          /\ \A j \in DOMAIN sends : j # last => sends'[j].recorded = sends[j].recorded
      BY <3>1, <3>2 DEF SendsKeptButLast
    <3>4. OnFile'
      BY <2>1, <2>3, <3>3 DEF Remembered, OnFile, FileKnown
    <3>5. NudgedOnce'
      <4> SUFFICES ASSUME NEW k \in DOMAIN sends, NEW l \in DOMAIN sends,
                          k < l, sends'[k].turn = sends'[l].turn
                   PROVE  sends'[k].recorded = "no"
        BY <3>3 DEF NudgedOnce
      <4>1. k # last
        BY <3>1
      <4>2. QED
        BY <3>3, <4>1 DEF Remembered, NudgedOnce
    <3>6. QED
      BY <2>1, <2>3, <3>4, <3>5 DEF Remembered, FileKnown, NewlySent
  <2>4. QED
    BY <1>6, <2>2, <2>3 DEF NudgeAnswered
<1>7. CASE NudgeFails
  BY <1>7, RememberedWithSends DEF NudgeFails, SessionDone, Remembered, FileKnown
<1>8. CASE EndCycle
  BY <1>8, RememberedWithSends DEF EndCycle
<1>9. CASE Crash
  BY <1>9, RememberedWithSends DEF Crash
<1>10. ASSUME UNCHANGED sends, UNCHANGED daemonVars
       PROVE  Remembered'
  BY <1>10, RememberedWithSends DEF daemonVars, Remembered, FileKnown
<1>11. ASSUME NEW k \in DOMAIN sends, VkTakesNudge(k) \/ VkRefusesNudge(k)
       PROVE  Remembered'
  <2>1. UNCHANGED daemonVars
    BY <1>11 DEF VkTakesNudge, VkRefusesNudge
  <2>2. QED
    BY <1>11, <2>1, AnswersKeepSends, RememberedByVk DEF NudgeTyped
<1>12. QED
  BY <1>1, <1>2, <1>3, <1>4, <1>5, <1>6, <1>7, <1>8, <1>9, <1>10, <1>11
     DEF DaemonNext, Daemon, Vk, UserPrompts, TurnEnds, SessionRewound, nudgeVars

\* The daemon never remembers less than its file tells, and a nudge on file is
\* the last for its turn.
THEOREM RemembersItsFile == DaemonSpec => []Remembered
<1>1. DaemonInit => Remembered
  BY DEF DaemonInit, Remembered, FileKnown, OnFile, NewlySent, NudgedOnce
<1>2. QED
  BY <1>1, RememberedStep, AlwaysTyped, PTL DEF DaemonSpec

\* No turn whose nudge was written to the state file is ever nudged again.
THEOREM NeverNudgedAgain == DaemonSpec => []NudgedOnce
<1>1. Remembered => NudgedOnce
  BY DEF Remembered
<1>2. QED
  BY <1>1, RemembersItsFile, PTL

\* No write of the state file loses a turn that is in it.
THEOREM FileKeepsItsTurns == DaemonSpec => FileGrows
<1>1. NudgeTyped /\ Remembered /\ [DaemonNext]_nudgeVars => [file \subseteq file']_nudgeVars
  <2> SUFFICES ASSUME Remembered, DaemonNext
               PROVE  file \subseteq file'
    BY DEF nudgeVars
  <2>1. CASE NudgeAnswered
    BY <2>1 DEF NudgeAnswered, Nudged, Remembered, FileKnown
  <2>2. CASE UNCHANGED file
    BY <2>2
  <2>3. QED
    BY <2>1, <2>2 DEF DaemonNext, Daemon, Vk, StartCycle, ProcessesFetched, FetchFails,
       NothingToSend, SendNudge, NudgeFails, EndCycle, Crash, UserPrompts, TurnEnds,
       SessionRewound, VkTakesNudge, VkRefusesNudge, daemonVars
<1>2. QED
  BY <1>1, AlwaysTyped, RemembersItsFile, PTL DEF DaemonSpec, FileGrows

-----------------------------------------------------------------------------
(* The daemon implements NudgeLedger.                                      *)

\* Only turns that VK has taken a nudge for are remembered.
Earned == known \subseteq TakenTurns

LedgerInv == NudgeTyped /\ Remembered /\ Earned

\* What VK has become of the nudges: the turns nudged stay the same, and one is
\* taken for each nudge that is accepted.
LEMMA OneNudgeChanges ==
    ASSUME DaemonTypeOK, NEW k \in DOMAIN sends, NEW e \in Nudges, e.turn = sends[k].turn,
           sends' = [sends EXCEPT ![k] = e]
    PROVE  /\ NudgeTurns' = NudgeTurns
           /\ e.vk = sends[k].vk => TakenTurns' = TakenTurns
           /\ e.vk = "accepted" => TakenTurns' = TakenTurns \cup {NudgeTurns[k]}
           /\ e.vk = "refused" /\ sends[k].vk = "sent" => TakenTurns' = TakenTurns
<1>1. sends \in Seq(Nudges) /\ DOMAIN sends = 1..Len(sends) /\ Len(sends) \in Nat
  BY DEF DaemonTypeOK
<1>2. /\ sends' \in Seq(Nudges)
      /\ Len(sends') = Len(sends)
      /\ \A j \in 1..Len(sends) : sends'[j] = IF j = k THEN e ELSE sends[j]
  BY <1>1, ExceptSeq
<1>3. /\ DOMAIN sends' = DOMAIN sends
      /\ \A j \in DOMAIN sends : /\ sends'[j].turn = sends[j].turn
                                 /\ j # k => sends'[j] = sends[j]
      /\ sends'[k] = e
  BY <1>1, <1>2
<1>4. NudgeTurns' = NudgeTurns
  BY <1>3 DEF NudgeTurns
<1>5. NudgeTurns[k] = sends[k].turn
  BY DEF NudgeTurns
<1>6. e.vk = sends[k].vk => TakenTurns' = TakenTurns
  BY <1>3 DEF TakenTurns
<1>7. e.vk = "accepted" => TakenTurns' = TakenTurns \cup {NudgeTurns[k]}
  BY <1>3, <1>5 DEF TakenTurns
<1>8. e.vk = "refused" /\ sends[k].vk = "sent" => TakenTurns' = TakenTurns
  BY <1>3 DEF TakenTurns
<1>9. QED
  BY <1>4, <1>6, <1>7, <1>8

\* A nudge that is sent for a turn is not taken yet.
LEMMA NudgeAdded ==
    ASSUME NudgeTyped, SendNudge
    PROVE  /\ NudgeTurns' # <<>>
           /\ NudgeTurns' = Append(NudgeTurns, NudgeTurns'[Len(NudgeTurns')])
           /\ NudgeTurns'[Len(NudgeTurns')] \notin known
           /\ TakenTurns' = TakenTurns
<1> DEFINE last == Len(sends) + 1
<1>1. /\ sends \in Seq(Nudges) /\ sends' \in Seq(Nudges) /\ Len(sends) \in Nat
      /\ Len(sends') = last
      /\ DOMAIN sends = 1..Len(sends) /\ DOMAIN sends' = 1..last
  BY SendIsNew DEF NudgeTyped, DaemonTypeOK
<1>2. \A j \in DOMAIN sends : sends'[j] = sends[j]
  BY SendIsNew
<1>3. sends'[last].vk = "sent"
  <2>1. PICK n \in Candidates(current, seen) :
          sends' = Append(sends, [turn |-> <<current, n>>, vk |-> "sent", recorded |-> "no"])
    BY DEF SendNudge
  <2>2. QED
    BY <1>1, <2>1
<1>4. /\ NudgeTurns \in Seq(Turns) /\ Len(NudgeTurns) = Len(sends)
      /\ NudgeTurns' \in Seq(Turns) /\ Len(NudgeTurns') = last
  <2>0. \A x \in Nudges : x.turn \in Turns
    BY DEF Nudges
  <2>1. \A j \in 1..Len(sends) : sends[j].turn \in Turns
    BY <1>1, <2>0
  <2>2. \A j \in 1..last : sends'[j].turn \in Turns
    BY <1>1, <2>0
  <2>3. NudgeTurns \in [1..Len(sends) -> Turns] /\ NudgeTurns' \in [1..last -> Turns]
    BY <1>1, <2>1, <2>2 DEF NudgeTurns
  <2>4. QED
    BY <1>1, <2>3, SMTT(30)
<1>5. /\ \A j \in 1..Len(sends) : NudgeTurns'[j] = NudgeTurns[j]
      /\ NudgeTurns'[last] = sends'[last].turn
  BY <1>1, <1>2 DEF NudgeTurns
<1>6. NudgeTurns' = Append(NudgeTurns, NudgeTurns'[last])
  BY <1>1, <1>4, <1>5
<1>7. TakenTurns' = TakenTurns
  BY <1>1, <1>2, <1>3 DEF TakenTurns
<1>8. NudgeTurns'[last] \notin known /\ NudgeTurns' # <<>>
  BY <1>1, <1>4, <1>5, SendIsNew
<1>9. QED
  BY <1>4, <1>6, <1>7, <1>8
\* What is answered is remembered, and marked in its place if it is written.
LEMMA NudgeRecorded ==
    ASSUME NudgeTyped, NudgeAnswered
    PROVE  /\ NudgeTurns' = NudgeTurns /\ TakenTurns' = TakenTurns
           /\ sends[Len(sends)].turn \in TakenTurns
<1> DEFINE last == Len(sends)
           e    == [sends[last] EXCEPT !.recorded = "yes"]
<1>1. /\ sends \in Seq(Nudges) /\ last \in DOMAIN sends
      /\ sends[last].vk = "accepted"
  BY DEF NudgeAnswered, NudgeTyped, DaemonTypeOK, Reading
<1>2. sends[last] \in Nudges
  BY <1>1
<1>3. e \in Nudges /\ e.turn = sends[last].turn /\ e.vk = sends[last].vk
  BY <1>2 DEF Nudges
<1>4. UNCHANGED sends \/ sends' = [sends EXCEPT ![last] = e]
  BY DEF NudgeAnswered
<1> HIDE DEF e
<1>5. NudgeTurns' = NudgeTurns /\ TakenTurns' = TakenTurns
  <2>1. CASE UNCHANGED sends
    BY <2>1 DEF NudgeTurns, TakenTurns
  <2>2. CASE sends' = [sends EXCEPT ![last] = e]
    BY <1>1, <1>3, <2>2, OneNudgeChanges DEF NudgeTyped
  <2>3. QED
    BY <1>4, <2>1, <2>2
<1>6. sends[last].turn \in TakenTurns
  BY <1>1 DEF TakenTurns
<1>7. QED
  BY <1>5, <1>6

\* Where the nudges stay the same, so does what was taken.
LEMMA LedgerStutters ==
    ASSUME UNCHANGED <<sends, file>>
    PROVE  UNCHANGED Ledger!ledgerVars
BY DEF Ledger!ledgerVars, NudgeTurns, TakenTurns

\* A step of the daemon is a step of its ledger, or none; and what it
\* remembers stays earned.
LEMMA LedgerStep == LedgerInv /\ Remembered' /\ [DaemonNext]_nudgeVars =>
                        [Ledger!Next]_(Ledger!ledgerVars) /\ Earned'
<1> SUFFICES ASSUME LedgerInv, Remembered', [DaemonNext]_nudgeVars
             PROVE  [Ledger!Next]_(Ledger!ledgerVars) /\ Earned'
  OBVIOUS
<1>1. CASE SendNudge
  <2>1. /\ NudgeTurns' # <<>>
        /\ NudgeTurns' = Append(NudgeTurns, NudgeTurns'[Len(NudgeTurns')])
        /\ NudgeTurns'[Len(NudgeTurns')] \notin known
        /\ TakenTurns' = TakenTurns
    BY <1>1, NudgeAdded DEF LedgerInv
  <2>2. file \subseteq known /\ UNCHANGED <<file, known>>
    BY <1>1 DEF SendNudge, LedgerInv, Remembered, FileKnown
  <2>3. Ledger!Nudge(NudgeTurns'[Len(NudgeTurns')])
    BY <2>1, <2>2 DEF Ledger!Nudge
  <2>4. QED
    BY <2>1, <2>2, <2>3 DEF Ledger!Next, LedgerInv, Earned
<1>2. CASE NudgeAnswered
  <2>1. /\ NudgeTurns' = NudgeTurns /\ TakenTurns' = TakenTurns
        /\ sends[Len(sends)].turn \in TakenTurns
    BY <1>2, NudgeRecorded DEF LedgerInv
  <2>2. known' = known \cup {sends[Len(sends)].turn}
    BY <1>2 DEF NudgeAnswered, Nudged
  <2>3. Earned' /\ known' \subseteq TakenTurns
    BY <2>1, <2>2 DEF LedgerInv, Earned
  <2>4. CASE file' = known'
    <3>1. file' = file \cup known'
      BY <2>2, <2>4 DEF LedgerInv, Remembered, FileKnown
    <3>2. Ledger!Enter(known')
      BY <2>1, <2>3, <3>1 DEF Ledger!Enter
    <3>3. QED
      BY <2>3, <3>2 DEF Ledger!Next
  <2>5. CASE UNCHANGED file
    BY <2>1, <2>3, <2>5 DEF Ledger!ledgerVars
  <2>6. QED
    BY <1>2, <2>4, <2>5 DEF NudgeAnswered
<1>3. ASSUME NEW k \in DOMAIN sends, VkTakesNudge(k) \/ VkRefusesNudge(k)
      PROVE  [Ledger!Next]_(Ledger!ledgerVars) /\ Earned'
  <2>1. PICK v \in {"accepted", "refused"} :
          /\ sends' = [sends EXCEPT ![k].vk = v] /\ sends[k].vk = "sent"
    BY <1>3 DEF VkTakesNudge, VkRefusesNudge
  <2> DEFINE e == [sends[k] EXCEPT !.vk = v]
  <2>2. sends[k] \in Nudges /\ DOMAIN NudgeTurns = DOMAIN sends
    BY DEF LedgerInv, NudgeTyped, DaemonTypeOK, NudgeTurns
  <2>3. e \in Nudges /\ e.turn = sends[k].turn /\ e.vk = v
    BY <2>2 DEF Nudges
  <2>4. sends' = [sends EXCEPT ![k] = e]
    BY <2>1
  <2> HIDE DEF e
  <2>5. /\ NudgeTurns' = NudgeTurns
        /\ v = "accepted" => TakenTurns' = TakenTurns \cup {NudgeTurns[k]}
        /\ v = "refused" => TakenTurns' = TakenTurns
    BY <2>1, <2>3, <2>4, OneNudgeChanges DEF LedgerInv, NudgeTyped
  <2>6. UNCHANGED <<file, known>>
    BY <1>3 DEF VkTakesNudge, VkRefusesNudge, daemonVars
  <2>7. TakenTurns \subseteq TakenTurns'
    BY <2>5
  <2>8. Earned'
    BY <2>6, <2>7 DEF LedgerInv, Earned
  <2>9. CASE v = "accepted"
    <3>1. Ledger!Take(k)
      BY <2>5, <2>6, <2>9 DEF Ledger!Take
    <3>2. QED
      BY <2>2, <2>8, <3>1 DEF Ledger!Next
  <2>10. CASE v = "refused"
    BY <2>5, <2>6, <2>8, <2>10 DEF Ledger!ledgerVars
  <2>11. QED
    BY <2>9, <2>10
<1>4. ASSUME UNCHANGED <<sends, file>>, known' = known \/ known' = file
      PROVE  [Ledger!Next]_(Ledger!ledgerVars) /\ Earned'
  <2>1. known' \subseteq known
    BY <1>4 DEF LedgerInv, Remembered, FileKnown
  <2>2. TakenTurns' = TakenTurns
    BY <1>4 DEF TakenTurns
  <2>3. QED
    BY <1>4, <2>1, <2>2, LedgerStutters DEF LedgerInv, Earned
<1>5. QED
  BY <1>1, <1>2, <1>3, <1>4
     DEF DaemonNext, Daemon, Vk, StartCycle, ProcessesFetched, FetchFails, NothingToSend,
         NudgeFails, SessionDone, EndCycle, Crash, UserPrompts, TurnEnds, SessionRewound,
         daemonVars, nudgeVars
\* The daemon implements its ledger: for any sessions and any number of turns
\* and nudges, no turn on file is nudged, and only turns VK took a nudge for
\* come there, to stay.
THEOREM LedgerKept == DaemonSpec => KeepsLedger
<1>1. DaemonInit => Ledger!Init /\ Earned
  <2> SUFFICES ASSUME DaemonInit
               PROVE  Ledger!Init /\ Earned
    OBVIOUS
  <2>1. sends = <<>> /\ file = {} /\ known = {}
    BY DEF DaemonInit
  <2>2. NudgeTurns = <<>> /\ TakenTurns = {}
    BY <2>1 DEF NudgeTurns, TakenTurns
  <2>3. QED
    BY <2>1, <2>2 DEF Ledger!Init, Earned
<1>2. NudgeTyped /\ Remembered /\ Earned /\ Remembered' /\ [DaemonNext]_nudgeVars =>
        [Ledger!Next]_(Ledger!ledgerVars) /\ Earned'
  BY LedgerStep DEF LedgerInv
<1>3. QED
  BY <1>1, <1>2, AlwaysTyped, RemembersItsFile, PTL DEF DaemonSpec, KeepsLedger, Ledger!Spec
=============================================================================
