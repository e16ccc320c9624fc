----------------------------- MODULE NudgeDaemon -----------------------------
(***************************************************************************)
(* The nudge daemon (scripts/vibe-agent/nudge): it polls the VK backend    *)
(* and sends "Continue" to sessions whose last turn stopped half-way.  The *)
(* turns it has nudged are remembered in a file.                           *)
(*                                                                         *)
(* A turn is an execution process of a coding agent, numbered in the order *)
(* of creation; those of other kinds, and those that ended before the      *)
(* container started, are never looked at and left out.  An action is the  *)
(* code between two awaits; VK and its users act at any time.              *)
(***************************************************************************)
EXTENDS Naturals, Sequences, FiniteSets

CONSTANTS
    Sessions,     \* sessions of VK workspaces
    MaxListed,    \* maxProcessesPerSession
    StaleNudges,  \* whether turns that run for too long are nudged (opt-in)
    NoSession,    \* no session at hand
    MaxTurns,     \* bound on the turns of any two sessions
    MaxSends      \* bound on the nudges sent

ASSUME DaemonAssumption ==
    /\ MaxListed \in Nat \ {0}
    /\ StaleNudges \in BOOLEAN
    /\ NoSession \notin Sessions
    /\ MaxTurns \in Nat
    /\ MaxSends \in Nat

VARIABLES
    turns,    \* what became of each turn of a session
    sends,    \* the nudges sent, what VK did with them, whether they are on file
    file,     \* the turns in the state file
    known,    \* the turns the daemon remembers
    doing,    \* where the daemon is suspended
    waiting,  \* the sessions the cycle has still to look at
    current,  \* the session it looks at
    seen      \* its turns as VK has told them

daemonVars == <<file, known, doing, waiting, current, seen>>
nudgeVars == <<turns, sends, daemonVars>>

\* Stopped: failed or killed, with signs of work (a tool, a thought, or the
\* prompt "Continue") and no answer after it; answered: failed or killed after
\* an answer.  One that failed without a sign of work counts as completed.
Ends     == {"completed", "stopped", "answered"}
Statuses == {"running", "dropped"} \cup Ends
Turns    == Sessions \X (Nat \ {0})
Nudges   == [turn : Turns, vk : {"sent", "accepted", "refused"}, recorded : {"yes", "no"}]

DaemonInit ==
    /\ turns = [s \in Sessions |-> <<>>]
    /\ sends = <<>>
    /\ file = {}
    /\ known = {}
    /\ doing = "asleep"
    /\ waiting = {}
    /\ current = NoSession
    /\ seen = <<>>

-----------------------------------------------------------------------------
(* Which turn of a session is nudged.                                      *)

\* Faulty Unknown: turns already nudged are looked at again.
UnknownOrNudged(s, list) == DOMAIN list

\* The turns of a list that have not been nudged.
Unknown(s, list) == {n \in DOMAIN list : <<s, n>> \notin known}

\* The newest of them, as many as are looked at.
Listed(s, list) ==
    {n \in Unknown(s, list) : Cardinality({m \in Unknown(s, list) : m > n}) < MaxListed}

Latest(S) == {n \in S : \A m \in S : m <= n}

\* selectNudgeCandidateForSession: the latest running turn if there is one,
\* and only if it may be called stale; otherwise the latest turn if stopped.
Candidates(s, list) ==
    LET there   == {n \in Listed(s, list) : list[n] # "dropped"}
        running == {n \in there : list[n] = "running"}
    IN  IF running # {}
        THEN {n \in Latest(running) : StaleNudges}
        ELSE {n \in Latest(there) : list[n] = "stopped"}

-----------------------------------------------------------------------------
(* A cycle.                                                                *)

\* The daemon is done with a session, and with what it was told of it.
SessionDone ==
    /\ doing' = "cycle"
    /\ current' = NoSession
    /\ seen' = <<>>

\* VK lists workspaces and sessions; one that fails, is archived or is old is
\* not looked at.
StartCycle ==
    /\ doing = "asleep"
    /\ waiting' \in SUBSET Sessions
    /\ doing' = "cycle"
    /\ UNCHANGED <<turns, sends, file, known, current, seen>>

\* What fetchConversation may tell of a turn: a stream that is closed early is
\* taken for the whole conversation.  The rest comes with the process itself.
Tales(status) ==
    {status} \cup CASE status = "answered" -> {"stopped"}
                    [] status = "stopped"  -> {"completed"}
                    [] OTHER -> {}

\* Processes of the next session; the conversations of the listed are fetched
\* next, while VK goes on.  What they tell of a turn that is over stays so.
ProcessesFetched(s) ==
    /\ doing = "cycle"
    /\ s \in waiting
    /\ waiting' = waiting \ {s}
    /\ \/ /\ Listed(s, turns[s]) = {}
          /\ UNCHANGED <<doing, current, seen>>
       \/ /\ Listed(s, turns[s]) # {}
          /\ doing' = "reading"
          /\ current' = s
          /\ seen' \in [DOMAIN turns[s] -> Statuses]
          /\ \A n \in DOMAIN seen' : seen'[n] \in Tales(turns[s][n])
    /\ UNCHANGED <<turns, sends, file, known>>

\* Either of the two requests fails: on to the next session.
FetchFails ==
    /\ \/ doing = "cycle" /\ \E s \in waiting : waiting' = waiting \ {s}
       \/ doing = "reading" /\ UNCHANGED waiting
    /\ SessionDone
    /\ UNCHANGED <<turns, sends, file, known>>

\* No candidate, or it runs and is not stale.
NothingToSend ==
    /\ doing = "reading"
    /\ \A n \in DOMAIN seen : n \in Candidates(current, seen) => seen[n] = "running"
    /\ SessionDone
    /\ UNCHANGED <<turns, sends, file, known, waiting>>

SendNudge ==
    /\ doing = "reading"
    /\ Len(sends) < MaxSends
    /\ \E n \in Candidates(current, seen) :
         sends' = Append(sends, [turn |-> <<current, n>>, vk |-> "sent", recorded |-> "no"])
    /\ doing' = "sending"
    /\ UNCHANGED <<turns, file, known, waiting, current, seen>>

\* Faulty Nudged: only the latest nudge is written.
NudgedForgetsOthers(turn) == {turn}

\* The turns remembered once one more has been nudged.
Nudged(turn) == known \cup {turn}

\* VK has answered: the turn is remembered, then written, which may fail; the
\* next session is looked at in any case.
NudgeAnswered ==
    /\ doing = "sending"
    /\ sends[Len(sends)].vk = "accepted"
    /\ known' = Nudged(sends[Len(sends)].turn)
    /\ \/ /\ file' = known'
          /\ sends' = [sends EXCEPT ![Len(sends)].recorded = "yes"]
       \/ UNCHANGED <<file, sends>>
    /\ SessionDone
    /\ UNCHANGED <<turns, waiting>>

\* The request fails, whatever VK did or will do with it.
NudgeFails ==
    /\ doing = "sending"
    /\ SessionDone
    /\ UNCHANGED <<turns, sends, file, known, waiting>>

\* The state is read back from the file before the daemon sleeps.
EndCycle ==
    /\ doing = "cycle"
    /\ waiting = {}
    /\ doing' = "asleep"
    /\ known' = file
    /\ UNCHANGED <<turns, sends, file, waiting, current, seen>>

\* The daemon dies and is started again.  The file is replaced by a rename, so
\* it is the old or the new one.
Crash ==
    /\ doing' = "asleep"
    /\ known' = file
    /\ waiting' = {}
    /\ current' = NoSession
    /\ seen' = <<>>
    /\ UNCHANGED <<turns, sends, file>>

-----------------------------------------------------------------------------
(* VK and its users.                                                       *)

NewTurn(s) ==
    /\ Len(turns[s]) < MaxTurns
    /\ \A q \in Sessions \ {s} : Len(turns[q]) + Len(turns[s]) < MaxTurns
    /\ turns' = [turns EXCEPT ![s] = Append(@, "running")]

UserPrompts(s) == NewTurn(s) /\ UNCHANGED <<sends, daemonVars>>

TurnEnds(s, n) ==
    /\ turns[s][n] = "running"
    /\ \E end \in Ends : turns' = [turns EXCEPT ![s][n] = end]
    /\ UNCHANGED <<sends, daemonVars>>

\* A user goes back in the session: later turns are dropped from it.
SessionRewound(s, n) ==
    /\ turns' = [turns EXCEPT ![s] = [m \in DOMAIN @ |-> IF m >= n THEN "dropped" ELSE @[m]]]
    /\ UNCHANGED <<sends, daemonVars>>

VkTakesNudge(k) ==
    /\ sends[k].vk = "sent"
    /\ sends' = [sends EXCEPT ![k].vk = "accepted"]
    /\ NewTurn(sends[k].turn[1])
    /\ UNCHANGED daemonVars

VkRefusesNudge(k) ==
    /\ sends[k].vk = "sent"
    /\ sends' = [sends EXCEPT ![k].vk = "refused"]
    /\ UNCHANGED <<turns, daemonVars>>

Vk ==
    \/ \E s \in Sessions : UserPrompts(s)
    \/ \E s \in Sessions : \E n \in DOMAIN turns[s] : TurnEnds(s, n) \/ SessionRewound(s, n)
    \/ \E k \in DOMAIN sends : VkTakesNudge(k) \/ VkRefusesNudge(k)

Daemon ==
    \/ StartCycle \/ FetchFails \/ NothingToSend \/ SendNudge
    \/ NudgeAnswered \/ NudgeFails \/ EndCycle
    \/ \E s \in Sessions : ProcessesFetched(s)

DaemonNext == Daemon \/ Crash \/ Vk

DaemonSpec == DaemonInit /\ [][DaemonNext]_nudgeVars

-----------------------------------------------------------------------------

DaemonTypeOK ==
    /\ turns \in [Sessions -> Seq(Statuses)]
    /\ sends \in Seq(Nudges)
    /\ \A k \in DOMAIN sends : sends[k].turn[2] \in DOMAIN turns[sends[k].turn[1]]
    /\ file \subseteq Turns
    /\ known \subseteq Turns
    /\ doing \in {"asleep", "cycle", "reading", "sending"}
    /\ waiting \subseteq Sessions
    /\ current \in Sessions \cup {NoSession}
    /\ seen \in Seq(Statuses)

\* A turn whose nudge is on file is never nudged again, over crashes, failed
\* writes, and late or lost answers (the daemon's test "does not nudge the same
\* process twice after state is persisted").
NudgedOnce ==
    \A k, l \in DOMAIN sends :
        k < l /\ sends[k].turn = sends[l].turn => sends[k].recorded = "no"

\* The daemon never remembers less than the file tells, ...
FileKnown == file \subseteq known

\* ... so what it writes loses no turn that an earlier cycle, or an earlier
\* daemon, has written.
FileGrows == [][file \subseteq file']_nudgeVars

\* What the daemon promises, in NudgeLedger: its file is the ledger.
NudgeTurns == [k \in DOMAIN sends |-> sends[k].turn]
TakenTurns == {sends[k].turn : k \in {l \in DOMAIN sends : sends[l].vk = "accepted"}}

Ledger == INSTANCE NudgeLedger WITH
    nudges <- NudgeTurns, taken <- TakenTurns, ledger <- file

\* The daemon keeps it over crashes, failed writes, and late or lost answers:
\* no turn on file is nudged, and only turns that VK took a nudge for come
\* there, to stay.
KeepsLedger == Ledger!Spec

\* criteria.test.ts: "selects only the latest codingagent turn so old stopped
\* turns do not create a storm".  A turn is only nudged if VK told of no later
\* one that has not been dropped.
OldTurnsLeftAlone ==
    [][SendNudge =>
         LET n == sends'[Len(sends')].turn[2]
         IN  \A m \in DOMAIN seen : m > n => seen[m] = "dropped"]_nudgeVars

\* criteria.test.ts: "does not nudge failed turns that already gave a final
\* answer after the last tool".
AnsweredTurnsLeftAlone ==
    [][SendNudge =>
         LET turn == sends'[Len(sends')].turn
         IN  turns[turn[1]][turn[2]] # "answered"]_nudgeVars
=============================================================================
